----------------------------- MODULE RegisterLog -----------------------------
(***************************************************************************)
(* What a register promises its readers: the row it shows is what its log  *)
(* of changes adds up to.  A write gives some columns new values, leaves   *)
(* the others alone, and the log gains exactly those columns and values.   *)
(***************************************************************************)
EXTENDS Sequences

CONSTANTS Column, Cell, Null

VARIABLES row, log

vars == <<row, log>>

Init ==
  /\ row = [x \in Column |-> Null]
  /\ log = <<>>

Record(C) ==
  /\ row' \in [Column -> Cell]
  /\ \A x \in Column \ C : row'[x] = row[x]
  /\ log' = Append(log, [x \in C |-> row'[x]])

Next == \E C \in SUBSET Column : Record(C)

Spec == Init /\ [][Next]_vars
=============================================================================
