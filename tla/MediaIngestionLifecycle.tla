----------------------- MODULE MediaIngestionLifecycle -----------------------
(***************************************************************************)
(* What the database promises about a MediaIngestion row, whoever writes    *)
(* it: the CHECK constraints of the table and the BEFORE trigger            *)
(* hsk_guard_media_ingestion_lifecycle, as the migrations of 2026-08-12 and *)
(* 2026-08-13 leave them.  A step this specification does not allow is one  *)
(* the database would refuse with an exception, so a service that           *)
(* implements it never meets that exception.                                *)
(***************************************************************************)
CONSTANT None

VARIABLE row

Terminal(old) ==
  \/ old.status \in {"completed", "rejected"}
  \/ old.status = "failed" /\ old.code = "OBJECT_CLEANED"

StatusMove(old, new) ==
  \/ new.status = old.status
  \/ /\ old.status = "processing"
     /\ new.status \in {"completed", "rejected", "failed", "cleanup_required"}
  \/ old.status = "failed" /\ new.status = "processing"
  \/ /\ old.status = "cleanup_required"
     /\ new.status \in {"processing", "failed"}

FenceMove(old, new) ==
  \/ new.token = old.token
  \/ /\ old.status \in {"failed", "cleanup_required"}
     /\ new.status = "processing"

\* cleanupRequiredAt is set by the first entry into cleanup_required and then
\* immutable, and it marks the cleanup states only.
MarkMove(old, new) == new.marked = (old.marked \/ new.status = "cleanup_required")

CleanupState(new) ==
  /\ new.marked =>
       \/ new.status = "cleanup_required"
       \/ new.status = "processing" /\ new.code = "OBJECT_CLEANUP_IN_PROGRESS"
       \/ new.status = "failed" /\ new.code = "OBJECT_CLEANED"
  /\ new.code = "OBJECT_CLEANUP_IN_PROGRESS" =>
       new.status = "processing" /\ new.marked
  /\ new.code = "OBJECT_CLEANED" => new.status = "failed" /\ new.marked
  /\ new.status = "cleanup_required" <=>
       new.code \in {"OBJECT_WRITE_OUTCOME_UNKNOWN", "OBJECT_CLEANUP_REQUIRED",
                     "OBJECT_CLEANUP_SETTLING"}

\* The CHECK constraints of the table.
Coherent(new) ==
  /\ new.status \in {"completed", "cleanup_required"} => new.key # None
  /\ new.status = "completed" => new.code = "NONE"
  /\ new.status \in {"failed", "rejected"} => new.code # "NONE"

Insert ==
  /\ row.status = "none"
  /\ row'.status = "processing" /\ ~row'.marked
  /\ Coherent(row') /\ CleanupState(row')

Update ==
  /\ row.status # "none"
  /\ ~Terminal(row)
  /\ row'.print = row.print
  /\ row.key # None => row'.key = row.key
  /\ StatusMove(row, row') /\ FenceMove(row, row') /\ MarkMove(row, row')
  /\ Coherent(row') /\ CleanupState(row')

Init == row.status = "none"
Next == Insert \/ Update
Spec == Init /\ [][Next]_row
=============================================================================
