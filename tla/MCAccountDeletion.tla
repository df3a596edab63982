-------------------------- MODULE MCAccountDeletion --------------------------
(* Instances of AccountDeletion for TLC.                                    *)
EXTENDS AccountDeletion, TLC

CONSTANTS l1, l2, f1, f2, d1, d2

MCLogins == {l1, l2}
MCRefreshes == {f1, f2}
MCOneRefresh == {f1}
MCDeletions == {d1, d2}
MCOneDeletion == {d1}
CallSymmetry == Permutations(Logins) \cup Permutations(Refreshes)
                  \cup Permutations(Deletions)
=============================================================================
