----------------------------- MODULE MCRegister -----------------------------
(* Instances of Register for TLC. *)
EXTENDS Register, TLC

CONSTANTS r1, r2

\* Nothing; one column given or cleared; both values; a pinned figure.
Forms ==
  {<<>>, "first" :> 0, "first" :> Null, "second" :> 1,
   ("first" :> 1) @@ ("second" :> 0), "derived" :> 1}

AllRouters == DOMAIN Profile
RegisterSymmetry == Permutations(Request)
=============================================================================
