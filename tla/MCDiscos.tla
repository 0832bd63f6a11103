------------------------------ MODULE MCDiscos ------------------------------
(* Discos with small constants for TLC; the sizes are in the .cfg files. *)
EXTENDS Discos

CONSTANTS name_a, name_b, name_c, empty, junk

TwoNames   == {name_a, name_b}
ThreeNames == {name_a, name_b, name_c}

\* rd_create is called with one mode: no call of this module reads it.
OneMode == {1}

\* What a parent path that is copied without its final zero reads as: also a
\* name that no caller uses; only what was copied.
Unknown     == Names \X {junk}
CleanMemory == {}

\* Names are only compared with each other.
TwoNamesSymmetry   == Permutations(TwoNames)
ThreeNamesSymmetry == Permutations(ThreeNames)

=============================================================================
