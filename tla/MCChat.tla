------------------------------- MODULE MCChat -------------------------------
(* Instances of Chat for TLC. *)
EXTENDS Chat, TLC

CONSTANTS r1, r2, c1, terms, form, deadline

\* Two passages of one page and one of another.
PageOfPassage == terms :> "guide" @@ form :> "guide" @@ deadline :> "notice"

ChatSymmetry == Permutations(Request)
=============================================================================
