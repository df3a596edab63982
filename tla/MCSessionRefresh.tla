------------------------- MODULE MCSessionRefresh -------------------------
(* One browser with two tabs, one or two frontend processes.               *)
EXTENDS SessionRefresh, TLC

Symmetry == Permutations(Requests) \cup Permutations(Servers)
=============================================================================
