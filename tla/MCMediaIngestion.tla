-------------------------- MODULE MCMediaIngestion --------------------------
(* Instances of MediaIngestion for TLC.                                     *)
EXTENDS MediaIngestion, TLC

CONSTANTS u1, u2, c1, c2, p1, p2

MCUploads == {u1, u2}
MCCleanups == {c1, c2}
MCPayloads == {p1, p2}
MCSameRequest == [u \in Uploads |-> p1]
MCTwoRequests == [u \in Uploads |-> IF u = u1 THEN p1 ELSE p2]
CleanupSymmetry == Permutations(Cleanups)
=============================================================================
