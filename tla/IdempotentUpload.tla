--------------------------- MODULE IdempotentUpload ---------------------------
(***************************************************************************)
(* What an Idempotency-Key promises to the clients that upload under it:    *)
(* at most one Media asset comes of the key, it is published in one step,   *)
(* it is never withdrawn by ingestion, and every request answered with      *)
(* success carried the very content that was published.                     *)
(***************************************************************************)
CONSTANTS Uploads, Fingerprint

VARIABLES assets, answered

Init == assets = {} /\ answered = {}

\* The attempt that publishes may answer at once, or its answer may be lost.
Publish(u) ==
  /\ assets = {}
  /\ assets' = {u}
  /\ answered' \in {answered, answered \cup {u}}

Answer(u) ==
  /\ \E v \in assets : Fingerprint[v] = Fingerprint[u]
  /\ answered' = answered \cup {u}
  /\ UNCHANGED assets

Next == \E u \in Uploads : Publish(u) \/ Answer(u)

Spec == Init /\ [][Next]_<<assets, answered>>
=============================================================================
