----------------------------- MODULE MCCorpus -----------------------------
(* Instances of Corpus for TLC. *)
EXTENDS Corpus, TLC

CONSTANTS r1, r2, j1, j2, first, rest, oldPage, stylePage, newPage, oldText, newText

\* An edit of the markup, and one of the text.
MCWords == oldPage :> oldText @@ stylePage :> oldText @@ newPage :> newText
=============================================================================
