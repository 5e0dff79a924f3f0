--------------------------- MODULE MCDocumentVault ---------------------------
(* Instances of DocumentVault for TLC. *)
EXTENDS DocumentVault, TLC

CONSTANTS d1, d2, k1, k2, k3, r1, r2, r3

VaultSymmetry == Permutations(Doc) \cup Permutations(Key) \cup Permutations(Request)
=============================================================================
