---------------------------- MODULE MCDiscosFlat ----------------------------
(* The calls of Discos on one growing directory, with the bitmap's bytes.  *)
EXTENDS MCDiscos, DiscosBitmap

=============================================================================
