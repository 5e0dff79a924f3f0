-------------------------- MODULE MCDeadlineBoard --------------------------
(* Instances of DeadlineBoard for TLC. *)
EXTENDS DeadlineBoard, TLC

CONSTANTS r1, r2, y24, y25

\* The sixth month after this death is a leap February.
Deaths == {20230831}

\* Two months after the first there is no such day.
Publications == {20231231, 20240106}

\* A sale with a gain over the limit; two smaller ones, one of them not dated yet.
Sale(d, g) == [disposal_date |-> d, gain |-> g]
Sales == {<<Sale(20240603, 9)>>, <<Sale(Null, 2), Sale(20241231, Null)>>}

BoardSymmetry == Permutations(Request) \cup Permutations(TaxYear)
=============================================================================
