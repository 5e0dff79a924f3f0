-------------------------------- MODULE Chat --------------------------------
(***************************************************************************)
(* The conversational knowledge chat (app/api/knowledge_chat.py,           *)
(* app/services/qa_chat.py) and the single cited answer of                 *)
(* POST /knowledge/qa, under overlapping requests.                         *)
(*                                                                         *)
(* A chat request counts the questions of the day, prepares its turn (the  *)
(* conversation, the estate's pinned passages, the search) and commits the *)
(* messages with the pins of what the answer quotes: three steps, between  *)
(* which other requests run.  The call of the model is synchronous and     *)
(* belongs to the commit.                                                  *)
(***************************************************************************)
EXTENDS Guidance

CONSTANTS
  Request,         \* requests that may overlap
  Conversation,    \* conversations
  New,             \* no conversation id: the turn opens one
  DailyLimit,      \* setting chat_daily_limit
  PinLimit,        \* PIN_LIMIT
  RetrievalLimit,  \* RETRIEVAL_LIMIT and QA_TOP_CHUNKS
  MaxCitations,    \* bound: citations in an answer
  MaxAsks,         \* bound: questions in a behaviour
  MaxDays          \* bound: midnights in a behaviour

ASSUME ChatAssumption ==
  /\ IsFiniteSet(Request) /\ Request # {}
  /\ New \notin Conversation
  /\ DailyLimit \in Nat \ {0}  \* update_params stores at least 1
  /\ PinLimit \in Nat /\ RetrievalLimit \in Nat
  /\ MaxCitations \in Nat /\ MaxAsks \in Nat /\ MaxDays \in Nat

VARIABLES
  asked,  \* the user messages since midnight
  pins,   \* the live pinned snippets, in order of insertion
  convs,  \* each conversation: "none", "live" or "archived"
  req,    \* the requests in flight
  shown,  \* the markers and the source numbers of the answer just returned
  asks, days  \* how many questions and midnights there have been

counters == <<asks, days>>
vars == <<asked, pins, convs, req, shown, counters>>

Idle == [phase |-> "idle"]
InFlight == {r \in Request : req[r] # Idle}

Counted == asks < MaxAsks /\ asks' = asks + 1

\* What a reader sees of an answer.  twice: it used two passages of one page.
Shown(markers, listed, twice) == [markers |-> markers, listed |-> listed, twice |-> twice]

NothingShown == Shown({}, {}, FALSE)

-----------------------------------------------------------------------------
(* The pin pool.                                                           *)

Reversed(s) == [i \in 1 .. Len(s) |-> s[Len(s) + 1 - i]]

\* The rows read: a turn sees the newest PinWindow * PinLimit pins.
PinWindow == 3

\* The pins a turn is given: of the rows read the distinct passages, oldest first.
Pool == Reversed(Take(Distinct(Take(Reversed(pins), PinLimit * PinWindow)), PinLimit))

\* The passages quoted that are not in the pool, each once.
NotInPool(pool, sources) ==
  LET quotes == Quotes(sources) IN
  Distinct(Kept(quotes, {i \in DOMAIN quotes : \A j \in DOMAIN pool : pool[j] # quotes[i]}))

\* Faulty variant: the pins the pool holds already are not counted.
NewPinsUncounted(pool, sources) == Take(NotInPool(pool, sources), PinLimit)

\* The passages an answer pins: those it quotes that the turn was not given, as long as
\* the pool as it was read has room.
NewPins(pool, sources) == Take(NotInPool(pool, sources), PinLimit - Len(pool))

-----------------------------------------------------------------------------
(* POST /knowledge/chat.                                                   *)

LimitReached == asked >= DailyLimit

\* The questions of the day are counted.  A question that the topic guard stops, and
\* that the user does not confirm, ends here and stores nothing.
Admit(r, c) ==
  /\ req[r] = Idle
  /\ Counted
  /\ ~LimitReached
  /\ req' = [req EXCEPT ![r] = [phase |-> "admitted", conv |-> c]]
  /\ shown' = NothingShown
  /\ UNCHANGED <<asked, pins, convs, days>>

\* A turn may go on in a live conversation, or open one.
Open(c) == c \in {New} \cup {d \in Conversation : convs[d] = "live"}

\* The conversation was never opened, or is archived: 404.
RefuseConversation(r) ==
  /\ req[r].phase = "admitted"
  /\ ~Open(req[r].conv)
  /\ req' = [req EXCEPT ![r] = Idle]
  /\ UNCHANGED <<asked, pins, convs, shown, counters>>

\* The pool is read and the corpus searched.
Prepare(r, hits) ==
  /\ req[r].phase = "admitted"
  /\ Open(req[r].conv)
  /\ req' = [req EXCEPT ![r] = [phase |-> "prepared", conv |-> req[r].conv,
                                pool |-> Pool, supplied |-> Pool \o hits]]
  /\ UNCHANGED <<asked, pins, convs, shown, counters>>

\* The call of the model fails.
FailTurn(r) ==
  /\ req[r].phase = "prepared"
  /\ req[r].supplied # <<>>
  /\ req' = [req EXCEPT ![r] = Idle]
  /\ UNCHANGED <<asked, pins, convs, shown, counters>>

\* The conversations after a turn is stored in c, or in a new one: one of Conversation,
\* or one the model does not follow.
Stored(c) ==
  {convs} \cup IF c # New THEN {}
               ELSE {[convs EXCEPT ![d] = "live"] : d \in {d \in Conversation : convs[d] = "none"}}

\* The turn is stored: both messages and the new pins.  With nothing supplied the answer
\* is the refusal and cites nothing.  An answer that fails the contract is asked for once
\* more and the second one is stored as it is, so any answer can be.  The conversation
\* is not read again.
CommitTurn(r, citations) ==
  LET q == req[r]
      sources == SourcesCited(q.supplied, citations)
      markers == Markers(q.supplied, citations)
  IN
  /\ q.phase = "prepared"
  /\ q.supplied = <<>> => citations = <<>>
  /\ convs' \in Stored(q.conv)
  /\ asked' = asked + 1
  /\ pins' = pins \o NewPins(q.pool, sources)
  /\ shown' = Shown(markers, {sources[s].n : s \in DOMAIN sources},
                    Cardinality(markers) # Len(sources))
  /\ req' = [req EXCEPT ![r] = Idle]
  /\ UNCHANGED counters

\* DELETE /knowledge/chats/{id}.  Messages and pins stay.
ArchiveConversation(c) ==
  /\ convs[c] = "live"
  /\ convs' = [convs EXCEPT ![c] = "archived"]
  /\ UNCHANGED <<asked, pins, req, shown, counters>>

Midnight ==
  /\ days < MaxDays /\ days' = days + 1
  /\ asked' = 0
  /\ UNCHANGED <<pins, convs, req, shown, asks>>

-----------------------------------------------------------------------------
(* POST /knowledge/qa.                                                     *)

\* The first of three answers within the contract is returned; after three failures,
\* or a refusal, nothing is cited.
LibraryAnswer(hits, mentioned, answer) ==
  IF InContract(answer, QaNumbers(hits, mentioned))
  THEN Shown(answer.cites, 1 .. Len(QaSources(hits, mentioned)), FALSE)
  ELSE NothingShown

\* The answers there can be: of a search that found something, with one page mentioned
\* or none.
LibraryAnswers ==
  {LibraryAnswer(hits, mentioned, answer) :
     hits \in SearchResults(RetrievalLimit) \ {<<>>},
     mentioned \in {<<>>} \cup {<<PageOf[p]>> : p \in Passage},
     answer \in [cites : SUBSET (1 .. RetrievalLimit + 2), sound : BOOLEAN]}

AskLibrary(answer) ==
  /\ Counted
  /\ shown' = answer
  /\ UNCHANGED <<asked, pins, convs, req, days>>

-----------------------------------------------------------------------------
Init ==
  /\ asked = 0 /\ pins = <<>>
  /\ convs = [c \in Conversation |-> "none"]
  /\ req = [r \in Request |-> Idle]
  /\ shown = NothingShown
  /\ asks = 0 /\ days = 0

\* The bound on questions is reached and nothing is in flight.
Quiet ==
  /\ asks = MaxAsks /\ InFlight = {}
  /\ UNCHANGED vars

\* The citations of an answer over n search results.  An index that is not one of them
\* is skipped and one that is cited again adds nothing, so few of those are enough.
Citations(n) ==
  {<<n + 1>>} \cup
  {c \in UNION {[1 .. m -> 1 .. n] : m \in 0 .. MaxCitations} : Distinct(c) = c}

Next ==
  \/ Midnight \/ Quiet
  \/ \E c \in Conversation : ArchiveConversation(c)
  \/ \E r \in Request :
       \/ \E c \in Conversation \cup {New} : Admit(r, c)
       \/ \E hits \in SearchResults(RetrievalLimit) : Prepare(r, hits)
       \/ RefuseConversation(r) \/ FailTurn(r)
       \/ /\ req[r].phase = "prepared"
          /\ \E citations \in Citations(Len(req[r].supplied)) : CommitTurn(r, citations)
  \/ \E answer \in LibraryAnswers : AskLibrary(answer)

Spec == Init /\ [][Next]_vars

-----------------------------------------------------------------------------
(* Properties.                                                             *)

\* Every [n] a reader meets in an answer is the number of a source listed under it.  The
\* chat numbers search results and lists pages: an answer that used two passages of one
\* page has a marker without a source.
MarkersNameSources == shown.markers \subseteq shown.listed \/ shown.twice

\* The daily limit is overshot by at most one question for each other request in flight.
DailyOvershoot ==
  asked + Cardinality(InFlight) <= DailyLimit + Cardinality(Request) - 1

\* The pins are at most PinLimit for each request that can be in flight, as long as these
\* together fit into the rows a turn reads.  With one more, passages that all of them pinned
\* can hide another, and each of them sees room for one that there is not.
PoolOvershoot ==
  Cardinality(Request) <= PinWindow => Len(pins) <= PinLimit * Cardinality(Request)

\* The count of the day and the room in the pool are read before the answer and used
\* after it: requests that overlap overshoot both limits, but never by more than their
\* number accounts for.
OvershootBounded == DailyOvershoot /\ PoolOvershoot
=============================================================================
