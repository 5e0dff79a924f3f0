-------------------------- MODULE MCCreditorNotice --------------------------
(* Instances of CreditorNotice for TLC. *)
EXTENDS CreditorNotice, TLC

CONSTANTS n1, n2, c1, c2, r1, r2

RowSymmetry == Permutations(Notice) \cup Permutations(Claim) \cup Permutations(Request)
=============================================================================
