---------------------------- MODULE MCPaperwork ----------------------------
(* Instances of Paperwork for TLC. *)
EXTENDS Paperwork, TLC

CONSTANTS l1, l2, l3, c1, c2, d1, d2, r1, r2, t1, t2, t3, t4

Asset(v, o, s, out, inc, code, over) ==
  [value |-> v, ownership |-> o, share |-> s, outside |-> out, income |-> inc,
   schedule |-> code, override |-> over]

\* Odd pennies, a third of a tenancy in common, an asset that passes outside; and an
\* estate that owes more than it has.
MCRegisters ==
  {[assets |-> {Asset(100, "sole", Null, FALSE, 3, "IHT406", Null),
                Asset(50, "tenants_in_common", 333, FALSE, 0, "IHT405", Null),
                Asset(70, "tenants_in_common", Null, FALSE, 0, "IHT405", "IHT412"),
                Asset(40, "joint_tenancy", Null, FALSE, 0, "IHT406", Null),
                Asset(30, "sole", Null, TRUE, 0, "IHT411", Null)},
    liabilities |-> {[amount |-> 20, deductible |-> TRUE], [amount |-> 9, deductible |-> FALSE]},
    costs |-> {[amount |-> 11, treatment |-> "funeral"], [amount |-> 6, treatment |-> "admin"]}],
   [assets |-> {Asset(25, "tenants_in_common", 500, FALSE, 0, "IHT407", Null)},
    liabilities |-> {[amount |-> 21, deductible |-> TRUE]},
    costs |-> {[amount |-> 12, treatment |-> "admin"]}]}

Live(c, type, amount) ==
  [state |-> "live", contact |-> c, type |-> type, amount |-> amount, total |-> 0,
   settled |-> FALSE]

\* Two halves of a residue that may be odd.
MCWill == {(l1 :> Live(c1, "residuary", 500)) @@ (l2 :> Live(c2, "residuary", 500))
             @@ (l3 :> NoLegacy)}

\* A share that the tolerance accepts beside a half.
MCTerms == {[type |-> "pecuniary", amount |-> 10], [type |-> "residuary", amount |-> 501]}

\* Two objects, a letter in plain text, and a list.
MCReading == (t1 :> "pack") @@ (t2 :> "pack") @@ (t3 :> "other") @@ (t4 :> "list")

PaperSymmetry == Permutations(Request) \cup Permutations(Draft) \cup Permutations({t1, t2})
=============================================================================
