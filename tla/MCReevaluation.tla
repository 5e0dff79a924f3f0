--------------------------- MODULE MCReevaluation ---------------------------
(* Instances of Reevaluation for TLC, with the real constants. *)
EXTENDS Reevaluation, TLC

CONSTANTS u1, u2, r1, r2

Holding(g, d, ok) == [gross |-> g, deductions |-> d, accepted |-> ok, categories |-> {}]

\* Over the taper threshold, insolvent, over the band by a negative liability, and with an
\* asset of a negative value.
Registers == {Holding(2100000, 8000, TRUE), Holding(320000, 330000, TRUE),
              Holding(320000, -10000, TRUE), Holding(500000, 0, FALSE)}

\* Every fact known and nothing claimed: an excepted estate when it is small.
KnownFacts == [tnrb |-> 0, trnrb |-> 0, residence |-> Unknown, charity |-> 0,
               claims |-> Unknown, gifts |-> 0, trusts |-> 0, foreign |-> 0,
               reservation |-> FALSE]

\* A transferred band, and a residence beyond the residence band.
Edits == {[field |-> "tnrb", value |-> 100]}
           \cup {[field |-> "residence", value |-> v] : v \in {Unknown, 180000}}

UserSymmetry == Permutations(Executor) \cup Permutations(Request)
=============================================================================
