---------------------------- MODULE AccountPromise ----------------------------
(***************************************************************************)
(* What ADR-001 promises the owner of an account who asks for its deletion: *)
(* the account is erased no earlier than the grace period after the request *)
(* (less the time the request itself took), until then a sign-in takes the  *)
(* request back, and what is erased stays erased.                           *)
(***************************************************************************)
EXTENDS Integers

CONSTANTS Grace, RequestTime

VARIABLES
  account,    \* "active", "deletion_pending" or "anonymized"
  deadlines,  \* the instants of the open requests: at most one
  now

Init == account = "active" /\ deadlines = {} /\ now = 0

Request ==
  /\ account = "active" /\ account' = "deletion_pending"
  /\ \E t \in (now + Grace - RequestTime) .. (now + Grace) : deadlines' = {t}
  /\ UNCHANGED now

TakeBack ==
  /\ account = "deletion_pending" /\ account' = "active"
  /\ deadlines' = {}
  /\ UNCHANGED now

Erase ==
  /\ account = "deletion_pending" /\ account' = "anonymized"
  /\ \A t \in deadlines : now >= t
  /\ deadlines' = {}
  /\ UNCHANGED now

Pass == now' = now + 1 /\ UNCHANGED <<account, deadlines>>

Next == Request \/ TakeBack \/ Erase \/ Pass

Spec == Init /\ [][Next]_<<account, deadlines, now>>
=============================================================================
