SPECIFICATION Spec
CONSTANTS
  r1 = r1
  r2 = r2
  c1 = c1
  terms = terms
  form = form
  deadline = deadline
  New = New
  Passage = {terms, form, deadline}
  PageOf <- PageOfPassage
  RrfK = 60
  Request = {r1, r2}
  Conversation = {c1}
  DailyLimit = 2
  PinLimit = 2
  RetrievalLimit = 2
  MaxCitations = 2
  MaxAsks = 3
  MaxDays = 1
SYMMETRY ChatSymmetry
INVARIANTS
  MarkersNameSources
  OvershootBounded
