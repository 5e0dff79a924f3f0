SPECIFICATION CorpusSpec
CONSTANTS
  r1 = r1
  r2 = r2
  j1 = j1
  j2 = j2
  first = first
  rest = rest
  oldPage = oldPage
  stylePage = stylePage
  newPage = newPage
  oldText = oldText
  newText = newText
  Page = {oldPage, stylePage, newPage}
  Saying = {oldText, newText}
  Words <- MCWords
  Run = {r1, r2}
  Job = {j1, j2}
  Batch = {first, rest}
  MaxWrites = 3
  MaxStarts = 1
INVARIANTS
  CorpusOfOneFetch
  CompleteMeansEmbedded
PROPERTIES
  BackfillSettles
