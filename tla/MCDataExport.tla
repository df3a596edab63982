---------------------------- MODULE MCDataExport -----------------------------
(* Instances of DataExport for TLC.                                         *)
EXTENDS DataExport, TLC

CONSTANTS r1, r2, d1, p1, p2

MCRequests == {r1, r2}
MCOneRequest == {r1}
MCDownloads == {d1}
MCPurges == {p1}
MCTwoPurges == {p1, p2}
Symmetry == Permutations(Requests) \cup Permutations(Purges)
=============================================================================
