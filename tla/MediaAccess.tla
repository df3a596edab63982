------------------------------ MODULE MediaAccess ------------------------------
(***************************************************************************)
(* Private media: signed links and what they serve.                        *)
(*                                                                         *)
(* GET media/:id/access signs a link with the secret of the process; GET   *)
(* media/:id/content needs no session, only an unexpired link signed with  *)
(* the current secret or the previous one.  It reads the row, verifies the *)
(* link, fetches the object from S3 under a deadline that covers headers   *)
(* and body, and serves the bytes if they are the ones the row records.    *)
(*                                                                         *)
(* A secret is rotated by restarting the process with the new secret and   *)
(* the old one as previous, and restarting it without the old one when the *)
(* longest lifetime of a link has passed.  One process, one media row.     *)
(***************************************************************************)
EXTENDS Naturals

CONSTANTS
  Links,          \* links handed out
  Reads,          \* requests for content
  LearnerTtl,     \* LEARNER_MEDIA_ACCESS_TTL_SECONDS
  AdminTtl,       \* media.accessTtlSeconds, not shorter
  MaxTime,        \* bound: the clock
  MaxRotations,   \* bound: rotations of the secret
  None

VARIABLES
  clock,       \* seconds
  secret,      \* media.signingSecret: the n-th secret
  previous,    \* media.signingSecretPrevious
  rotated,     \* when secret came into use
  ready,       \* the row is ready, not deleted and of this provider
  published,   \* a published exercise of a published lesson uses it
  object,      \* the object under the row's key
  link,        \* the links
  read,        \* the requests
  stream       \* the S3 response of each request, as the process holds it

vars == <<clock, secret, previous, rotated, ready, published, object, link, read, stream>>
config == <<secret, previous, rotated>>
stored == <<ready, published, object>>

Objects == {"ingested", "corrupt", "swapped", "gone"}
Ended == {"served", "refused", "integrity_error", "unavailable", "lost"}
Idle == [step |-> "idle", link |-> None, ready |-> FALSE, body |-> "gone"]

Init ==
  /\ clock = 0 /\ secret = 0 /\ previous = None /\ rotated = 0
  /\ ready = TRUE /\ published \in BOOLEAN /\ object \in Objects
  /\ link = [l \in Links |-> None]
  /\ read = [r \in Reads |-> Idle]
  /\ stream = [r \in Reads |-> "none"]

Goto(r, step) == read' = [read EXCEPT ![r].step = step]
Holds(r, s) == stream' = [stream EXCEPT ![r] = s]
Cancel(r) == Holds(r, "cancelled")

Tick ==
  /\ clock < MaxTime
  /\ clock' = clock + 1
  /\ UNCHANGED <<config, stored, link, read, stream>>

\* The content changes under the links: publication, archiving or quarantine.
ContentChanges ==
  /\ \/ published' = ~published /\ UNCHANGED ready
     \/ ready /\ ready' = FALSE /\ UNCHANGED published
  /\ UNCHANGED <<clock, config, object, link, read, stream>>

\* Restarting the process cuts the connections of its requests.
Restarted ==
  /\ read' = [r \in Reads |->
       IF read[r].step \in Ended \cup {"idle"} THEN read[r]
                                               ELSE [read[r] EXCEPT !.step = "lost"]]
  /\ stream' = [r \in Reads |-> "none"]

Rotate ==
  /\ previous = None /\ secret < MaxRotations
  /\ secret' = secret + 1 /\ previous' = secret /\ rotated' = clock
  /\ Restarted
  /\ UNCHANGED <<clock, stored, link>>

EndRotation ==
  /\ previous # None /\ clock >= rotated + AdminTtl
  /\ previous' = None
  /\ Restarted
  /\ UNCHANGED <<clock, secret, rotated, stored, link>>

(* createAccess.  A request it refuses changes nothing.                    *)
CreateAccess(l, role) ==
  /\ link[l] = None /\ ready
  /\ role = "admin" \/ published
  /\ link' = [link EXCEPT ![l] =
       [expires |-> clock + (IF role = "admin" THEN AdminTtl ELSE LearnerTtl),
        secret |-> secret]]
  /\ UNCHANGED <<clock, config, stored, read, stream>>

\* Mutant. Only the current secret verifies.
VerifiesCurrentOnly(grant) == clock < grant.expires /\ grant.secret = secret

\* verifyMediaAccessSignature
Verifies(grant) == clock < grant.expires /\ grant.secret \in {secret, previous}

(* readSignedObject: the query, then what follows from its row.            *)
Query(r, l) ==
  /\ read[r].step = "idle" /\ link[l] # None
  /\ read' = [read EXCEPT ![r] =
       [step |-> "queried", link |-> l, ready |-> ready, body |-> "gone"]]
  /\ UNCHANGED <<clock, config, stored, link, stream>>

Verify(r) ==
  /\ read[r].step = "queried"
  /\ IF read[r].ready /\ Verifies(link[read[r].link])
     THEN Goto(r, "asked") /\ Holds(r, "pending")
     ELSE Goto(r, "refused") /\ UNCHANGED stream
  /\ UNCHANGED <<clock, config, stored, link>>

(* getPrivateObject: S3 answers with headers and a body to be read, with   *)
(* headers the adapter rejects, that the key does not exist, or not at all *)
(* (a client or network error).                                            *)
HeadersArrive(r) ==
  /\ read[r].step = "asked"
  /\ \/ /\ object # "gone"
        /\ read' = [read EXCEPT ![r].step = "reading", ![r].body = object]
        /\ Holds(r, "open")
     \/ object # "gone" /\ Goto(r, "integrity_error") /\ Cancel(r)
     \/ object = "gone" /\ Goto(r, "integrity_error") /\ Holds(r, "none")
     \/ Goto(r, "unavailable") /\ Holds(r, "none")
  /\ UNCHANGED <<clock, config, stored, link>>

\* The adapter compares the bytes with the object's checksum, the service with the row's.
Intact(body) == body = "ingested"

(* readBoundedBody: the body ends, breaks off or grows too long.           *)
BodyEnds(r) ==
  /\ read[r].step = "reading"
  /\ \/ /\ Goto(r, IF Intact(read[r].body) THEN "served" ELSE "integrity_error")
        /\ Holds(r, "consumed")
     \/ Goto(r, "unavailable") /\ Cancel(r)
     \/ read[r].body # "ingested" /\ Goto(r, "integrity_error") /\ Cancel(r)
  /\ UNCHANGED <<clock, config, stored, link>>

(* The deadline fires.  While the headers are awaited it leaves a handler  *)
(* on the request, which the abort may be too late to stop.                *)
DeadlineFires(r) ==
  /\ read[r].step \in {"asked", "reading"}
  /\ Goto(r, "unavailable")
  /\ IF read[r].step = "reading" THEN Cancel(r) ELSE UNCHANGED stream
  /\ UNCHANGED <<clock, config, stored, link>>

\* Mutant. Nobody waits for a response that comes after the deadline.
LateHeadersIgnored(r) ==
  /\ read[r].step = "unavailable" /\ stream[r] = "pending"
  /\ Holds(r, "open") \/ Holds(r, "none")
  /\ UNCHANGED <<clock, config, stored, link, read>>

LateHeaders(r) ==
  /\ read[r].step = "unavailable" /\ stream[r] = "pending"
  /\ Cancel(r) \/ Holds(r, "none")
  /\ UNCHANGED <<clock, config, stored, link, read>>

Next ==
  \/ Tick \/ ContentChanges \/ Rotate \/ EndRotation
  \/ \E l \in Links, role \in {"admin", "learner"} : CreateAccess(l, role)
  \/ \E r \in Reads :
       \/ \E l \in Links : Query(r, l)
       \/ Verify(r) \/ HeadersArrive(r) \/ BodyEnds(r) \/ DeadlineFires(r) \/ LateHeaders(r)

Spec == Init /\ [][Next]_vars

\* media-access-signature.ts:33-37, docs/api/api.md:607-611: "no URL already handed out
\* breaks when the secret changes".  However rotations and requests interleave, a link that
\* has not expired is refused only because the row has been withdrawn.
LinksSurviveRotation ==
  [][\A r \in Reads : read[r].step = "queried" /\ read'[r].step = "refused" =>
       ~read[r].ready \/ clock >= link[read[r].link].expires]_vars

\* s3-object-storage.adapter.ts:84: no response body is left open once its request is
\* answered, also when the headers come after the deadline.
StreamsAreClosed == \A r \in Reads : stream[r] = "open" => read[r].step = "reading"
=============================================================================
