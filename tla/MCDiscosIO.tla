----------------------------- MODULE MCDiscosIO -----------------------------
(* DiscosIO with small constants for TLC.  With BLOCK_SIZE = 2, one direct  *)
(* block and two pointers in an index block, the direct range holds 2       *)
(* bytes, the single indirect range 4 and the double indirect range 8.      *)
EXTENDS DiscosRead

CONSTANTS writer, reader

OneFd     == {writer}
BothFds   == {writer, reader}
TheReader == {reader}
Nobody    == {}

\* One byte, a block, one with a '\0' in the middle, and all ranges and beyond.
Buffers ==
  {<<1>>, <<2, 3>>, <<2, 0, 1>>, <<3, 2, 1, 3, 2, 1, 3, 2, 1, 3, 2, 1, 3, 2, 1>>}
Numbers == {0, 1, 3}

\* One byte, and more than a block; no seeks but to the start.
AcrossBlocks == {<<1>>, <<1, 2, 3>>}
OnlyZero     == {0}

=============================================================================
