---------------------------- MODULE MCDiscosIoctl ----------------------------
(* DiscosIoctl with small constants for TLC, for two processes.            *)
EXTENDS DiscosIoctl

CONSTANTS name_a, name_b, proc_1, proc_2

TwoNames == {name_a, name_b}
OneMode  == {1}
TwoProcs == {proc_1, proc_2}

\* A parent path that ends in name_a and is copied without its final zero
\* may read on as name_b (a name that begins with the characters of name_a).
LongerName == {<<name_a, name_b>>}

\* Processes are only told apart.
TwoProcsSymmetry == Permutations(TwoProcs)

=============================================================================
