------------------------------ MODULE Guidance ------------------------------
(***************************************************************************)
(* Retrieval over the guidance corpus and the citations of an answer, as   *)
(* operators: hybrid_search and the sources of POST /knowledge/qa          *)
(* (app/api/knowledge.py), and what the chat makes of a response           *)
(* (app/services/qa_chat.py).                                              *)
(*                                                                         *)
(* A passage stands for a chunk of a page and for a quotation from it.     *)
(***************************************************************************)
EXTENDS Integers, Sequences, FiniteSets

CONSTANTS
  Passage,  \* the passages of the corpus
  PageOf,   \* the page, and source_url, of each passage
  RrfK      \* RRF_K

ASSUME GuidanceAssumption == RrfK \in Nat

-----------------------------------------------------------------------------
(* Sequences.                                                              *)

\* The members of the finite set I in an order, a set of pairs.
InOrder(I, before) ==
  [k \in 1 .. Cardinality(I) |->
     CHOOSE i \in I : Cardinality({j \in I : <<j, i>> \in before}) = k - 1]

\* The positions I, ascending.
Ascending(I) == InOrder(I, {p \in I \X I : p[1] < p[2]})

\* The elements of s at the positions I.
Kept(s, I) ==
  LET order == Ascending(I) IN [k \in 1 .. Cardinality(I) |-> s[order[k]]]

\* s without the elements that occurred before.
Distinct(s) == Kept(s, {i \in DOMAIN s : \A j \in 1 .. i - 1 : s[j] # s[i]})

\* At most the first n elements of s.
Take(s, n) == SubSeq(s, 1, IF Len(s) < n THEN Len(s) ELSE n)

\* The sequences of at most n distinct passages.
Rankings(n) ==
  {s \in UNION {[1 .. m -> Passage] : m \in 0 .. n} : Distinct(s) = s}

-----------------------------------------------------------------------------
(* Retrieval: hybrid_search and the per-term fallback of _fts_rows.        *)

\* A common multiple of the ranks' denominators, to compare scores exactly.
Scale(n) ==
  LET product[i \in 0 .. n] == IF i = 0 THEN 1 ELSE product[i - 1] * (RrfK + i)
  IN  product[n]

\* The reciprocal rank of p in the list, 0 when it is not there.
Rank(p, list, n) ==
  LET at == {i \in DOMAIN list : list[i] = p} IN
  IF at = {} THEN 0 ELSE Scale(n) \div (RrfK + (CHOOSE i \in at : TRUE))

\* Reciprocal rank fusion of two ranked lists: best score first, and of equal scores
\* the one found first.
Fused(lists, limit) ==
  LET found == Distinct(lists[1] \o lists[2])
      score == [i \in DOMAIN found |->
                  Rank(found[i], lists[1], limit * 2) + Rank(found[i], lists[2], limit * 2)]
      order == InOrder(DOMAIN found,
                       {p \in (DOMAIN found) \X (DOMAIN found) :
                          \/ score[p[1]] > score[p[2]]
                          \/ score[p[1]] = score[p[2]] /\ p[1] < p[2]})
  IN  Take([k \in DOMAIN found |-> found[order[k]]], limit)

\* What a search with this limit can return: the full-text ranking, fused with the
\* vector ranking when the query could be embedded.
SearchResults(limit) ==
  {Fused(<<text, vector>>, limit) : text \in Rankings(limit), vector \in Rankings(limit)}

-----------------------------------------------------------------------------
(* POST /knowledge/qa.                                                     *)

Pages(passages) == [i \in DOMAIN passages |-> PageOf[passages[i]]]

\* One numbered source per document, in the order of the hits, and after them at most
\* two documents the hits mention.
QaSources(hits, mentioned) == Distinct(Pages(hits) \o Take(mentioned, 2))

\* Faulty variant: the extracts are numbered chunk by chunk.
QaNumbersPerChunk(hits, mentioned) == 1 .. Len(hits \o Take(mentioned, 2))

\* valid_numbers: the numbers the extracts carry.
QaNumbers(hits, mentioned) == 1 .. Len(QaSources(hits, mentioned))

\* _contract_failures: the numbers cited exist, there are some, and the headings, the
\* titles and the figures pass (sound).
InContract(answer, valid) == answer.cites # {} /\ answer.cites \subseteq valid /\ answer.sound

-----------------------------------------------------------------------------
(* Citations of a chat answer: _postprocess.                               *)

\* The search results cited, in order of first use.  An index the model made up is
\* skipped.
UsedIndexes(supplied, citations) ==
  Distinct(Kept(citations, {i \in DOMAIN citations : citations[i] <= Len(supplied)}))

\* The [n] markers put into the text: one number per search result.
Markers(supplied, citations) == 1 .. Len(UsedIndexes(supplied, citations))

\* The sources listed under the answer, one per page, numbered by the first of its
\* results that was used, with the passages quoted.
SourcesCited(supplied, citations) ==
  LET used == UsedIndexes(supplied, citations)
      passage == [k \in DOMAIN used |-> supplied[used[k]]]
      page == Pages(passage)
      first == Ascending({k \in DOMAIN used : \A j \in 1 .. k - 1 : page[j] # page[k]})
  IN  [s \in DOMAIN first |->
         [n |-> first[s], page |-> page[first[s]],
          quotes |-> Distinct(Kept(passage, {k \in DOMAIN used : page[k] = page[first[s]]}))]]

\* The passages quoted, source by source.
Quotes(sources) ==
  LET at == UNION {{s} \X (DOMAIN sources[s].quotes) : s \in DOMAIN sources}
      order == InOrder(at, {p \in at \X at :
                              \/ p[1][1] < p[2][1]
                              \/ p[1][1] = p[2][1] /\ p[1][2] < p[2][2]})
  IN  [k \in 1 .. Cardinality(at) |-> sources[order[k][1]].quotes[order[k][2]]]
=============================================================================
