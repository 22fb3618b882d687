--------------------------- MODULE MCErrorValues ---------------------------
(* Small instances of ErrorValues for TLC. *)
EXTENDS ErrorValues, TLC

CONSTANTS g1, g2, k1, k2

GoroutineAndKeySymmetry == Permutations({g1, g2}) \cup Permutations({k1, k2})
=============================================================================
