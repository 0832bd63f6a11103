----------------------------- MODULE MCDiscosFd -----------------------------
(* DiscosFd with small constants for TLC.                                  *)
EXTENDS DiscosFd

CONSTANTS name_a, name_b, empty

TwoNames == {name_a, name_b}

\* Files that may only be read, and files that may be read and written.
ReadOnlyOrBoth == {RD, RW}

\* Parents are copied without anything behind them: no path has one here.
CleanMemory == {}

\* Two processes.
TwoPids == {1, 2}

=============================================================================
