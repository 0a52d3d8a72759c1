--------------------------- MODULE MCAuthSession ---------------------------
(* Small instances of AuthSession for TLC; see the cfg files. *)
EXTENDS AuthSession, TLC

CONSTANTS k1, k2

OneKey == {k1}
TwoKeys == {k1, k2}
Symmetry == Permutations(TwoKeys)
=============================================================================
