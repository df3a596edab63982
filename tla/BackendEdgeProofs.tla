--------------------------- MODULE BackendEdgeProofs ---------------------------
(***************************************************************************)
(* The protocols at the edge of the backend, each for every value of its   *)
(* constants: the slots of the upload limiter, the calls of the metrics    *)
(* collector, signed links, mailed links and sign-in attempts.             *)
(***************************************************************************)
EXTENDS MCBackendEdge, FiniteSetTheorems, TLAPS

\* A behaviour of the five together is one of each (they share no variable).
THEOREM EachRuns == MCSpec => Spec /\ M!Spec /\ A!Spec /\ T!Spec /\ L!Spec
<1>1. MCInit => Init /\ M!Init /\ A!Init /\ T!Init /\ L!Init
  BY DEF MCInit
<1>2. [MCNext]_<<side, vars, scrapeVars, linkVars, mailVars, loginVars>> =>
        [Next]_vars /\ [M!Next]_(M!vars) /\ [A!Next]_(A!vars) /\ [T!Next]_(T!vars) /\ [L!Next]_(L!vars)
  BY DEF MCNext, scrapeVars, linkVars, mailVars, loginVars, M!vars, A!vars, T!vars, L!vars
<1>. QED
  BY <1>1, <1>2, PTL DEF MCSpec, Spec, M!Spec, A!Spec, T!Spec, L!Spec

-----------------------------------------------------------------------------
(***************************************************************************)
(* The limiter's slots, for any finite set of uploads and any limit.       *)
(*                                                                         *)
(* A step lets one upload enter the boundary with a slot (Acquire), or     *)
(* takes one that is inside out of it (every step that calls Leave), or    *)
(* leaves both the count and the uploads inside alone.  SlotsAreHeld is    *)
(* inductive with the places an upload can be at.                          *)
(***************************************************************************)

Places == {"idle", "guard", "counted", "boundary", "draining", "done"} \cup Inside
Holders == {u \in Uploads : pc[u] \in Inside}
IInv == pc \in [Uploads -> Places] /\ current \in Nat /\ SlotsAreHeld

\* The uploads that hold a slot are finitely many (they are requests of one process).
LEMMA HoldersFinite == IsFiniteSet(Holders) /\ Cardinality(Holders) \in Nat
  BY FS_Subset, FS_CardinalityType, LimitsAssumption DEF Holders

\* The limiter's acquire: an upload from outside takes a slot that is free.
LEMMA Enter ==
  ASSUME IInv, NEW u \in Uploads, NEW p \in Inside, pc[u] \notin Inside,
         current < Limit, current' = current + 1, Goto(u, p)
  PROVE  IInv'
<1>1. pc' \in [Uploads -> Places]
  BY DEF IInv, Goto, Places
<1>2. Holders' = Holders \cup {u} /\ u \notin Holders
  BY DEF IInv, Goto, Holders
<1>3. Cardinality(Holders') = Cardinality(Holders) + 1
  BY <1>2, HoldersFinite, FS_AddElement
<1> QED BY <1>1, <1>3, LimitsAssumption DEF IInv, SlotsAreHeld, Holders

\* The limiter's release: an upload from inside gives its slot back, whatever its outcome.
LEMMA Exit ==
  ASSUME IInv, NEW u \in Uploads, NEW o, pc[u] \in Inside, Leave(u, o)
  PROVE  IInv'
<1>1. Goto(u, "done") /\ current' = IF current > 0 THEN current - 1 ELSE 0
  BY DEF Leave, Reply
<1>2. pc' \in [Uploads -> Places]
  BY <1>1 DEF IInv, Goto, Places
<1>3. Holders' = Holders \ {u} /\ u \in Holders
  BY <1>1 DEF IInv, Goto, Holders, Inside, Handling
<1>4. Cardinality(Holders') = Cardinality(Holders) - 1
  BY <1>3, HoldersFinite, FS_RemoveElement
<1>5. current > 0
  <2>1. Cardinality(Holders') \in Nat
    BY <1>3, HoldersFinite, FS_Subset, FS_CardinalityType
  <2> QED BY <1>4, <2>1, HoldersFinite DEF IInv, SlotsAreHeld, Holders
<1> QED BY <1>1, <1>2, <1>4, <1>5, LimitsAssumption DEF IInv, SlotsAreHeld, Holders

\* A step that moves no upload across the boundary changes no slot.
LEMMA Keep ==
  ASSUME IInv, pc' \in [Uploads -> Places], current' = current,
         \A u \in Uploads : pc'[u] \in Inside <=> pc[u] \in Inside
  PROVE  IInv'
<1>1. Holders' = Holders
  BY DEF Holders
<1> QED BY <1>1 DEF IInv, SlotsAreHeld, Holders

\* A step that takes one upload from a place outside to another, or from one inside to another.
LEMMA Move ==
  ASSUME IInv, NEW u \in Uploads, NEW p \in Places, p \in Inside <=> pc[u] \in Inside,
         Goto(u, p), current' = current
  PROVE  IInv'
  BY Keep DEF IInv, Goto

\* Every step of the guards, of the boundary and of the handler keeps the count true.
LEMMA StepKeeps == ASSUME IInv, NEW u \in Uploads, Step(u) PROVE IInv'
<1> USE DEF Inside, Handling, Places
<1>1. CASE Acquire(u)
  BY <1>1, Enter DEF Acquire
<1>2. CASE Abort(u) \/ DeadlinePasses(u) \/ Reject(u) \/ AnswerEarly(u) \/ RefuseFile(u)
             \/ ScannedOther(u) \/ ScanFails(u) \/ Store(u)
  BY <1>2, Exit DEF Abort, DeadlinePasses, Reject, AnswerEarly, RefuseFile, ScannedOther,
                    ScanFails, Store
<1>3. CASE Arrive(u) \/ Hit(u) \/ StartDrain(u) \/ End(u) \/ Handle(u) \/ Scan(u) \/ ScannedClean(u)
  BY <1>3, Move DEF Arrive, Hit, StartDrain, End, Handle, Scan, ScannedClean
<1>4. CASE Disabled(u) \/ GuardFails(u) \/ RefuseBusy(u) \/ FinishDrain(u) \/ AbortDrain(u)
  BY <1>4, Move DEF Disabled, GuardFails, RefuseBusy, FinishDrain, AbortDrain, Reply
<1>5. CASE Grant(u)
  <2>1. current' = current /\ pc[u] = "counted" /\ (Goto(u, "boundary") \/ Goto(u, "done"))
    BY <1>5 DEF Grant, Reply
  <2> QED BY <2>1, Move
<1>6. CASE Complete(u) \/ Disconnect(u) \/ Data(u)
  BY <1>6, Keep DEF Complete, Disconnect, Data, IInv
<1> QED BY <1>1, <1>2, <1>3, <1>4, <1>5, <1>6 DEF Step

\* The limiter's count is the number of uploads inside the boundary and never exceeds the
\* limit: whichever of answer, error, deadline and disconnect comes first releases a slot,
\* and nothing releases it again.
THEOREM SlotsHeld == Spec => []SlotsAreHeld
<1>1. Init => IInv
  <2> SUFFICES ASSUME Init PROVE IInv
    OBVIOUS
  <2>1. Holders = {}
    BY DEF Init, Holders, Inside, Handling
  <2>2. pc \in [Uploads -> Places] /\ current = 0
    BY DEF Init, Places
  <2>3. SlotsAreHeld
    BY <2>1, <2>2, FS_EmptySet, LimitsAssumption DEF SlotsAreHeld, Holders
  <2> QED BY <2>2, <2>3 DEF IInv
<1>2. IInv /\ [Next]_vars => IInv'
  <2> SUFFICES ASSUME IInv, [Next]_vars PROVE IInv'
    OBVIOUS
  <2>1. CASE WindowPasses \/ UNCHANGED vars
    BY <2>1, Keep DEF WindowPasses, vars, IInv
  <2> QED BY <2>1, StepKeeps DEF Next
<1>3. IInv => SlotsAreHeld
  BY DEF IInv
<1> QED BY <1>1, <1>2, <1>3, PTL DEF Spec

-----------------------------------------------------------------------------
(***************************************************************************)
(* The driver's pool, for any number of scrapes and of collections: a call *)
(* that runs is the active collection's, also when its timer has won.      *)
(***************************************************************************)

CallStates == {"none", "running", "ended"}
Running == {c \in M!Collections : driver[c] = "running"}
PoolInv == last \in Nat /\ active \in Nat /\ driver \in [M!Collections -> CallStates] /\ Running \subseteq {active}

\* A call runs only while it is the active collection (databaseSnapshot, withTimeout).
LEMMA PoolInvariance == M!Spec => []PoolInv
<1>1. M!Init => PoolInv
  BY DEF M!Init, PoolInv, Running, M!Collections, CallStates
<1>2. PoolInv /\ [M!Next]_(M!vars) => PoolInv'
  <2> SUFFICES ASSUME PoolInv, [M!Next]_(M!vars) PROVE PoolInv'
    OBVIOUS
  <2>1. ASSUME NEW s \in Scrapes, M!ScrapeStarts(s) PROVE PoolInv'
    <3>1. Running = {}
      BY <2>1 DEF M!ScrapeStarts, PoolInv, Running, M!Collections
    <3>2. active' = last' /\ driver' = [driver EXCEPT ![last'] = "running"]
      BY <2>1 DEF M!ScrapeStarts
    <3>3. last' \in Nat
      BY <2>1 DEF M!ScrapeStarts, PoolInv
    <3>4. Running' \subseteq {active'}
      BY <3>1, <3>2 DEF Running
    <3> QED BY <3>2, <3>3, <3>4 DEF PoolInv, CallStates
  <2>2. ASSUME NEW c \in M!Collections, NEW ok \in BOOLEAN, M!CallEnds(c, ok) PROVE PoolInv'
    <3>1. c \in Running /\ driver' = [driver EXCEPT ![c] = "ended"] /\ last' = last
          /\ active' = IF active = c THEN 0 ELSE active
      BY <2>2 DEF M!CallEnds, Running
    <3>2. Running' = {}
      BY <3>1 DEF PoolInv, Running
    <3> QED BY <3>1, <3>2 DEF PoolInv, CallStates
  <2>3. CASE UNCHANGED <<last, active, driver>>
    BY <2>3 DEF PoolInv, Running
  <2>4. ASSUME NEW s \in Scrapes, M!ScrapeCached(s) \/ M!ScrapeJoins(s) PROVE UNCHANGED <<last, active, driver>>
    BY <2>4 DEF M!ScrapeCached, M!ScrapeJoins
  <2>5. ASSUME NEW c \in M!Collections, M!Timeout(c) PROVE UNCHANGED <<last, active, driver>>
    BY <2>5 DEF M!Timeout
  <2>6. M!CacheAges \/ UNCHANGED M!vars => UNCHANGED <<last, active, driver>>
    BY DEF M!CacheAges, M!vars
  <2> QED BY <2>1, <2>2, <2>3, <2>4, <2>5, <2>6 DEF M!Next
<1> QED BY <1>1, <1>2, PTL DEF M!Spec

\* At most one call is under way in the driver's pool, however many timers have won over
\* calls that go on (media-observability.service.ts:440-453).
THEOREM OneCall == M!Spec => []OneCollection
<1>1. PoolInv => OneCollection
  BY DEF PoolInv, Running, OneCollection, M!OneCollection
<1> QED BY <1>1, PoolInvariance, PTL

-----------------------------------------------------------------------------
(***************************************************************************)
(* Signed links, for any sets of links and requests, any number of         *)
(* rotations and any lifetimes.                                            *)
(*                                                                         *)
(* A link survives because whatever its secret, the process can still      *)
(* verify it until it expires (Verifiable).  That is inductive only with   *)
(* the bound on a link's remaining life (Bounded), which is what makes the *)
(* end of a rotation safe.                                                 *)
(***************************************************************************)

Steps == {"idle", "queried", "asked", "reading"} \cup A!Ended
Streams == {"none", "pending", "open", "consumed", "cancelled"}

LinkTypeOK ==
  /\ clock \in Nat /\ secret \in Nat /\ previous \in Nat \cup {None} /\ rotated \in Nat
  /\ ready \in BOOLEAN /\ published \in BOOLEAN /\ object \in A!Objects
  /\ link \in [Links -> [expires : Nat, secret : Nat] \cup {None}]
  /\ read \in [Reads -> [step : Steps, link : Links \cup {None}, ready : BOOLEAN, body : A!Objects]]
  /\ stream \in [Reads -> Streams]

Given(l) == link[l] # None
Bounded(l) == link[l].expires <= clock + AdminTtl
Verifiable(l) ==
  \/ link[l].expires <= clock
  \/ link[l].secret = secret
  \/ /\ previous # None /\ link[l].secret = previous
     /\ link[l].expires <= rotated + AdminTtl

LinksInv == \A l \in Links : Given(l) => Bounded(l) /\ Verifiable(l)
ReadsInv == \A r \in Reads : read[r].step = "queried" => read[r].link \in Links /\ Given(read[r].link)

LinkInv == LinkTypeOK /\ LinksInv /\ ReadsInv

\* The values of every variable are those the code can give it (MediaAccessService, the
\* deadline of the adapter), and steps keep them so.
LEMMA InitType == A!Init => LinkTypeOK
  BY EdgeAssumption DEF A!Init, LinkTypeOK, A!Idle, A!Objects, Steps, A!Ended, Streams

LEMMA RestartedType ==
  ASSUME LinkTypeOK, A!Restarted
  PROVE  /\ read' \in [Reads -> [step : Steps, link : Links \cup {None}, ready : BOOLEAN, body : A!Objects]]
         /\ stream' \in [Reads -> Streams]
  BY DEF LinkTypeOK, A!Restarted, Steps, A!Ended, Streams

\* A step of one reader: it goes on, and its stream is what it is or another state of it.
LEMMA ReaderType ==
  ASSUME LinkTypeOK, NEW r \in Reads, NEW s \in Steps, NEW t \in Streams, NEW b \in A!Objects,
         \/ read' = read
         \/ A!Goto(r, s)
         \/ read' = [read EXCEPT ![r].step = s, ![r].body = b],
         A!Holds(r, t) \/ UNCHANGED stream,
         UNCHANGED <<clock, A!config, A!stored, link>>
  PROVE  LinkTypeOK'
<1> DEFINE R == [step : Steps, link : Links \cup {None}, ready : BOOLEAN, body : A!Objects]
<1>1. stream' \in [Reads -> Streams]
  BY DEF LinkTypeOK, A!Holds
<1>2. read' \in [Reads -> R]
  <2>1. read \in [Reads -> R] /\ read[r] \in R
    BY DEF LinkTypeOK
  <2>2. [read[r] EXCEPT !.step = s] \in R /\ [read[r] EXCEPT !.step = s, !.body = b] \in R
    BY <2>1
  <2>3. CASE A!Goto(r, s)
    BY <2>1, <2>2, <2>3 DEF A!Goto
  <2>4. CASE read' = [read EXCEPT ![r].step = s, ![r].body = b]
    BY <2>1, <2>2, <2>4
  <2> QED BY <2>1, <2>3, <2>4
<1> QED BY <1>1, <1>2 DEF LinkTypeOK, A!config, A!stored

LEMMA NextType == ASSUME LinkTypeOK, [A!Next]_(A!vars) PROVE LinkTypeOK'
<1>1. CASE A!Tick
  BY <1>1 DEF A!Tick, LinkTypeOK, A!config, A!stored
<1>2. CASE A!ContentChanges
  BY <1>2 DEF A!ContentChanges, LinkTypeOK, A!config
<1>3. CASE A!Rotate
  BY <1>3, RestartedType DEF A!Rotate, LinkTypeOK, A!stored
<1>4. CASE A!EndRotation
  BY <1>4, RestartedType DEF A!EndRotation, LinkTypeOK, A!stored
<1>5. ASSUME NEW l \in Links, NEW role \in {"admin", "learner"}, A!CreateAccess(l, role)
      PROVE  LinkTypeOK'
  <2>1. clock + AdminTtl \in Nat /\ clock + LearnerTtl \in Nat
    BY EdgeAssumption DEF LinkTypeOK
  <2> QED BY <1>5, <2>1 DEF A!CreateAccess, LinkTypeOK, A!config, A!stored
<1>6. ASSUME NEW r \in Reads PROVE
      /\ \A l \in Links : A!Query(r, l) => LinkTypeOK'
      /\ A!Verify(r) \/ A!HeadersArrive(r) \/ A!BodyEnds(r) \/ A!DeadlineFires(r) \/ A!LateHeaders(r) => LinkTypeOK'
  <2>1. \A l \in Links : A!Query(r, l) => LinkTypeOK'
    BY DEF A!Query, LinkTypeOK, A!config, A!stored, Steps, A!Objects
  <2> USE DEF Steps, Streams, A!Ended, A!Objects
  <2>2. A!Verify(r) => LinkTypeOK'
    BY ReaderType DEF A!Verify
  <2>3. A!HeadersArrive(r) => LinkTypeOK'
    <3>1. ASSUME A!HeadersArrive(r), read' = [read EXCEPT ![r].step = "reading", ![r].body = object],
                 A!Holds(r, "open")
          PROVE  LinkTypeOK'
      <4>1. object \in A!Objects
        BY DEF LinkTypeOK
      <4> QED BY <3>1, <4>1, ReaderType DEF A!HeadersArrive
    <3>2. ASSUME A!HeadersArrive(r), A!Goto(r, "integrity_error") \/ A!Goto(r, "unavailable"),
                 A!Cancel(r) \/ A!Holds(r, "none")
          PROVE  LinkTypeOK'
      BY <3>2, ReaderType DEF A!HeadersArrive, A!Cancel
    <3> QED BY <3>1, <3>2 DEF A!HeadersArrive
  <2>4. A!BodyEnds(r) => LinkTypeOK'
    BY ReaderType DEF A!BodyEnds, A!Cancel
  <2>5. A!DeadlineFires(r) => LinkTypeOK'
    BY ReaderType DEF A!DeadlineFires, A!Cancel
  <2>6. A!LateHeaders(r) => LinkTypeOK'
    BY ReaderType DEF A!LateHeaders, A!Cancel
  <2> QED BY <2>1, <2>2, <2>3, <2>4, <2>5, <2>6
<1>7. CASE UNCHANGED A!vars
  BY <1>7 DEF A!vars, LinkTypeOK
<1> QED BY <1>1, <1>2, <1>3, <1>4, <1>5, <1>6, <1>7 DEF A!Next

\* A step that leaves the configuration and a link alone, and lets no time run back, keeps
\* the link verifiable (verifyMediaAccessSignature).
LEMMA LinkKept ==
  ASSUME LinkTypeOK, LinkTypeOK', NEW l \in Links, Given(l), Bounded(l) /\ Verifiable(l),
         link'[l] = link[l], clock <= clock', UNCHANGED A!config
  PROVE  Bounded(l)' /\ Verifiable(l)'
<1>1. link[l].expires \in Nat /\ link[l].secret \in Nat
  BY DEF LinkTypeOK, Given
<1>2. Bounded(l)'
  BY EdgeAssumption, <1>1 DEF Bounded, LinkTypeOK
<1>3. Verifiable(l)'
  BY EdgeAssumption, <1>1 DEF Verifiable, LinkTypeOK, A!config
<1> QED BY <1>2, <1>3

\* Every step keeps every handed-out link verifiable until it expires, a rotation and its
\* end included (media-access-signature.ts:33-37).
LEMMA NextLinks == ASSUME LinkTypeOK, LinkTypeOK', LinksInv, [A!Next]_(A!vars) PROVE LinksInv'
<1> SUFFICES ASSUME NEW l \in Links, Given(l)' PROVE Bounded(l)' /\ Verifiable(l)'
  BY DEF LinksInv
<1>1. CASE A!Rotate
  <2>1. link' = link /\ clock' = clock /\ Given(l) /\ link[l].expires \in Nat /\ link[l].secret \in Nat
    BY <1>1 DEF A!Rotate, Given, LinkTypeOK
  <2>2. Bounded(l) /\ (link[l].expires <= clock \/ link[l].secret = secret)
    BY <1>1, <2>1 DEF A!Rotate, LinksInv, Verifiable
  <2>3. Bounded(l)'
    BY <2>1, <2>2 DEF Bounded
  <2>4. previous' # None
    BY EdgeAssumption, <1>1 DEF A!Rotate, LinkTypeOK
  <2> QED BY <1>1, <2>1, <2>2, <2>3, <2>4 DEF A!Rotate, Verifiable, Bounded
<1>2. CASE A!EndRotation
  <2>1. link' = link /\ clock' = clock /\ Given(l) /\ link[l].expires \in Nat
    BY <1>2 DEF A!EndRotation, Given, LinkTypeOK
  <2>2. Bounded(l) /\ Verifiable(l)
    BY <2>1 DEF LinksInv
  <2>3. Bounded(l)'
    BY <2>1, <2>2 DEF Bounded
  <2>4. link[l].expires <= rotated + AdminTtl => link[l].expires <= clock
    BY EdgeAssumption, <1>2, <2>1 DEF A!EndRotation, LinkTypeOK
  <2> QED BY <1>2, <2>1, <2>2, <2>3, <2>4 DEF A!EndRotation, Verifiable
<1>3. ASSUME NEW k \in Links, NEW role \in {"admin", "learner"}, A!CreateAccess(k, role)
      PROVE  Bounded(l)' /\ Verifiable(l)'
  <2>1. CASE k = l
    <3>1. link'[l].secret = secret /\ secret' = secret /\ clock' = clock
          /\ link'[l].expires \in {clock + AdminTtl, clock + LearnerTtl}
      BY <1>3, <2>1 DEF A!CreateAccess, A!config, LinkTypeOK
    <3> QED BY EdgeAssumption, <3>1 DEF Bounded, Verifiable, LinkTypeOK
  <2>2. CASE k # l
    <3>1. link'[l] = link[l] /\ clock' = clock /\ UNCHANGED A!config
      BY <1>3, <2>2 DEF A!CreateAccess, LinkTypeOK
    <3>2. Given(l) /\ Bounded(l) /\ Verifiable(l) /\ clock <= clock'
      BY <3>1 DEF Given, LinksInv, LinkTypeOK
    <3> QED BY <3>1, <3>2, LinkKept
  <2> QED BY <2>1, <2>2
<1>4. CASE link' = link /\ clock <= clock' /\ UNCHANGED A!config
  <2>1. Given(l) /\ Bounded(l) /\ Verifiable(l)
    BY <1>4 DEF Given, LinksInv
  <2> QED BY <1>4, <2>1, LinkKept
<1>5. A!Tick \/ A!ContentChanges \/ UNCHANGED A!vars
        \/ (\E r \in Reads : (\E k \in Links : A!Query(r, k)) \/ A!Verify(r) \/ A!HeadersArrive(r)
              \/ A!BodyEnds(r) \/ A!DeadlineFires(r) \/ A!LateHeaders(r))
      => link' = link /\ clock <= clock' /\ UNCHANGED A!config
  <2>1. A!Tick \/ A!ContentChanges \/ UNCHANGED A!vars => link' = link /\ clock <= clock' /\ UNCHANGED A!config
    BY DEF A!Tick, A!ContentChanges, A!vars, A!config, LinkTypeOK
  <2>2. ASSUME NEW r \in Reads PROVE
          (\E k \in Links : A!Query(r, k)) \/ A!Verify(r) \/ A!HeadersArrive(r) \/ A!BodyEnds(r)
            \/ A!DeadlineFires(r) \/ A!LateHeaders(r)
          => link' = link /\ clock' = clock /\ UNCHANGED A!config
    BY DEF A!Query, A!Verify, A!HeadersArrive, A!BodyEnds, A!DeadlineFires, A!LateHeaders
  <2>3. clock' = clock => clock <= clock'
    BY DEF LinkTypeOK
  <2> QED BY <2>1, <2>2, <2>3
<1> QED BY <1>1, <1>2, <1>3, <1>4, <1>5 DEF A!Next

\* A request that waits for its row is about a link that was handed out (readSignedObject).
LEMMA NextReads == ASSUME LinkTypeOK, ReadsInv, [A!Next]_(A!vars) PROVE ReadsInv'
<1>1. ASSUME NEW r \in Reads, link' = link,
             \/ read'[r] = read[r]
             \/ read'[r].step # "queried"
      PROVE  read'[r].step = "queried" => read'[r].link \in Links /\ link'[read'[r].link] # None
  BY <1>1 DEF ReadsInv, Given
<1>2. CASE A!Tick \/ A!ContentChanges \/ UNCHANGED A!vars
  BY <1>1, <1>2 DEF A!Tick, A!ContentChanges, A!vars, ReadsInv, Given
<1>3. CASE A!Rotate \/ A!EndRotation
  <2>1. \A r \in Reads : link' = link /\ (read'[r] = read[r] \/ read'[r].step # "queried")
    BY <1>3 DEF A!Rotate, A!EndRotation, A!Restarted, LinkTypeOK
  <2> QED BY <1>1, <2>1 DEF ReadsInv, Given
<1>4. ASSUME NEW l \in Links, NEW role \in {"admin", "learner"}, A!CreateAccess(l, role)
      PROVE  ReadsInv'
  <2>1. read' = read /\ \A k \in Links : Given(k) => link'[k] = link[k]
    BY <1>4 DEF A!CreateAccess, Given, LinkTypeOK
  <2> QED BY <2>1 DEF ReadsInv, Given
<1>5. ASSUME NEW r \in Reads, NEW l \in Links, A!Query(r, l) PROVE ReadsInv'
  <2>1. link' = link /\ read'[r].link = l /\ link[l] # None
        /\ \A q \in Reads \ {r} : read'[q] = read[q]
    BY <1>5 DEF A!Query, LinkTypeOK
  <2> QED BY <2>1 DEF ReadsInv, Given
<1>6. ASSUME NEW r \in Reads,
             A!Verify(r) \/ A!HeadersArrive(r) \/ A!BodyEnds(r) \/ A!DeadlineFires(r) \/ A!LateHeaders(r)
      PROVE  ReadsInv'
  <2>1. link' = link /\ \A q \in Reads : read'[q] = read[q] \/ read'[q].step # "queried"
    BY <1>6 DEF A!Verify, A!HeadersArrive, A!BodyEnds, A!DeadlineFires, A!LateHeaders, A!Goto, LinkTypeOK
  <2> QED BY <1>1, <2>1 DEF ReadsInv, Given
<1> QED BY <1>2, <1>3, <1>4, <1>5, <1>6 DEF A!Next

\* The invariant that ties the configuration to the links handed out and to the requests.
THEOREM LinkInvariance == A!Spec => []LinkInv
<1>1. A!Init => LinkInv
  <2>1. A!Init => LinksInv /\ ReadsInv
    BY DEF A!Init, LinksInv, ReadsInv, Given, A!Idle
  <2> QED BY <2>1, InitType DEF LinkInv
<1>2. LinkInv /\ [A!Next]_(A!vars) => LinkInv'
  BY NextType, NextLinks, NextReads DEF LinkInv
<1> QED BY <1>1, <1>2, PTL DEF A!Spec

\* A link that has not expired is refused only because its media was withdrawn: the secret
\* may be rotated any number of times (docs/api/api.md:607-611).
THEOREM LinksSurvive == A!Spec => LinksSurviveRotation
<1>1. LinkInv /\ [A!Next]_(A!vars) =>
        [\A r \in Reads : read[r].step = "queried" /\ read'[r].step = "refused" =>
           ~read[r].ready \/ clock >= link[read[r].link].expires]_(A!vars)
  <2> SUFFICES ASSUME LinkInv, A!Next, NEW r \in Reads,
                      read[r].step = "queried", read'[r].step = "refused", read[r].ready
               PROVE  clock >= link[read[r].link].expires
    OBVIOUS
  <2> DEFINE l == read[r].link
  <2>1. l \in Links /\ Given(l) /\ Verifiable(l)
    BY DEF LinkInv, ReadsInv, LinksInv
  <2>2. A!Verify(r)
    <3>1. ASSUME NEW q \in Reads, A!Verify(q) PROVE q = r
      BY <3>1 DEF A!Verify, A!Goto, A!Holds, LinkInv, LinkTypeOK
    <3>2. ~(A!Tick \/ A!ContentChanges \/ A!Rotate \/ A!EndRotation
             \/ \E k \in Links, role \in {"admin", "learner"} : A!CreateAccess(k, role))
      BY DEF A!Tick, A!ContentChanges, A!Rotate, A!EndRotation, A!CreateAccess, A!Restarted, LinkInv, LinkTypeOK, A!Ended
    <3>3. ASSUME NEW q \in Reads PROVE
          ~((\E k \in Links : A!Query(q, k)) \/ A!HeadersArrive(q) \/ A!BodyEnds(q)
             \/ A!DeadlineFires(q) \/ A!LateHeaders(q))
      BY DEF A!Query, A!HeadersArrive, A!BodyEnds, A!DeadlineFires, A!LateHeaders, A!Goto, LinkInv, LinkTypeOK
    <3> QED BY <3>1, <3>2, <3>3 DEF A!Next
  <2>3. ~A!Verifies(link[l])
    <3> SUFFICES ASSUME A!Verifies(link[l]) PROVE FALSE
      OBVIOUS
    <3>1. A!Goto(r, "asked")
      BY <2>2 DEF A!Verify
    <3> QED BY <3>1 DEF A!Goto, LinkInv, LinkTypeOK
  <2>4. clock \in Nat /\ link[l].expires \in Nat
    BY <2>1 DEF Given, LinkInv, LinkTypeOK
  <2> HIDE DEF l
  <2>5. clock >= link[l].expires
    BY <2>1, <2>3, <2>4 DEF A!Verifies, Verifiable
  <2> QED BY <2>5 DEF l
<1> QED BY <1>1, LinkInvariance, PTL DEF A!Spec, LinksSurviveRotation, A!LinksSurviveRotation

\* No response of the object store is left open once its request is answered, whichever of
\* headers, body, failure and deadline comes first (getPrivateObject).
THEOREM StreamsClosed == A!Spec => []StreamsAreClosed
<1>1. A!Init => StreamsAreClosed
  BY DEF A!Init, StreamsAreClosed, A!StreamsAreClosed
<1>2. LinkInv /\ StreamsAreClosed /\ [A!Next]_(A!vars) => StreamsAreClosed'
  <2> SUFFICES ASSUME LinkInv, StreamsAreClosed, [A!Next]_(A!vars) PROVE StreamsAreClosed'
    OBVIOUS
  <2>1. CASE A!Tick \/ A!ContentChanges \/ UNCHANGED A!vars
             \/ \E l \in Links, role \in {"admin", "learner"} : A!CreateAccess(l, role)
    BY <2>1 DEF A!Tick, A!ContentChanges, A!vars, A!CreateAccess, StreamsAreClosed, A!StreamsAreClosed
  <2>2. CASE A!Rotate \/ A!EndRotation
    BY <2>2 DEF A!Rotate, A!EndRotation, A!Restarted, StreamsAreClosed, A!StreamsAreClosed
  <2>3. ASSUME NEW r \in Reads,
               \/ \E l \in Links : A!Query(r, l)
               \/ A!Verify(r) \/ A!HeadersArrive(r) \/ A!BodyEnds(r) \/ A!DeadlineFires(r) \/ A!LateHeaders(r)
        PROVE  StreamsAreClosed'
    <3>1. /\ stream'[r] = "open" => read'[r].step = "reading"
          /\ \A q \in Reads \ {r} : stream'[q] = stream[q] /\ read'[q] = read[q]
      BY <2>3 DEF A!Query, A!Verify, A!HeadersArrive, A!BodyEnds, A!DeadlineFires, A!LateHeaders, A!Goto, A!Holds,
                  A!Cancel, StreamsAreClosed, A!StreamsAreClosed, LinkInv, LinkTypeOK
    <3> QED BY <3>1 DEF StreamsAreClosed, A!StreamsAreClosed
  <2> QED BY <2>1, <2>2, <2>3 DEF A!Next
<1> QED BY <1>1, <1>2, LinkInvariance, PTL DEF A!Spec

-----------------------------------------------------------------------------
(***************************************************************************)
(* Sign-in attempts, for any number of them, any limits and any times.     *)
(*                                                                         *)
(* The counter's row is exact about the block (ThrottleInv): it is beyond  *)
(* the limit and not expired exactly in a block, and before one it counts  *)
(* only attempts that passed in its own window.  The account's row bounds  *)
(* the passwords looked at (LockInv): while it is not locked they are at   *)
(* most its failures, and when its lock is over they are all older than    *)
(* the time of a lock.                                                     *)
(***************************************************************************)

\* The instance counts a set as this module does.
LEMMA SameCardinality == ASSUME NEW E PROVE L!Cardinality(E) = Cardinality(E)
BY DEF L!Cardinality, Cardinality

LoginTypeOK ==
  /\ now \in Nat /\ now > 0 /\ blocked \in Nat \cup {-1}
  /\ counter \in [points : Nat, expireAt : Nat]
  /\ user \in [failed : Nat, lockUntil : Nat]
  /\ attempt \in [Attempts -> {"idle", "claim", "verify", "reset", "answered", "throttled"}]
  /\ passed \in SUBSET (Attempts \X Nat) /\ IsFiniteSet(passed)
  /\ tried \in SUBSET (Attempts \X Nat) /\ IsFiniteSet(tried)

\* The attempts that passed within the window of the counter's row.
InWindow == {p \in passed : p[2] + Window >= counter.expireAt}

ThrottleInv ==
  /\ blocked >= 0 <=> counter.points > AddressLimit /\ counter.expireAt > now
  /\ blocked >= 0 => counter.expireAt = blocked + Window
  /\ counter.expireAt <= now + Window
  /\ \A p \in passed : attempt[p[1]] # "idle"
  /\ counter.points \in 1 .. AddressLimit /\ counter.expireAt > now => Cardinality(InWindow) >= counter.points

LockInv ==
  /\ \A p \in tried : p[2] <= now /\ p[2] + Lockout > now
  /\ user.lockUntil = 0 => Cardinality(tried) <= user.failed /\ user.failed < MaxLogin
  /\ user.lockUntil > 0 => \A p \in tried : p[2] + Lockout <= user.lockUntil

LoginInv == LoginTypeOK /\ ThrottleInv /\ LockInv

LEMMA InWindowFinite ==
  ASSUME LoginTypeOK
  PROVE  IsFiniteSet(InWindow) /\ Cardinality(InWindow) \in Nat /\ Cardinality(InWindow) <= Cardinality(passed)
BY FS_Subset, FS_CardinalityType DEF LoginTypeOK, InWindow

\* An account that is not locked has had fewer than MaxLogin passwords looked at within the
\* time of a lock: they are its failures, or its lock is over and they are older.
LEMMA FewTried ==
  ASSUME LoginTypeOK, LockInv, L!Unlocked
  PROVE  /\ Cardinality(tried) < MaxLogin
         /\ user.lockUntil > 0 => tried = {}
<1>1. CASE user.lockUntil = 0
  BY <1>1, FS_CardinalityType, EdgeAssumption DEF LoginTypeOK, LockInv
<1>2. CASE user.lockUntil > 0
  <2>1. \A p \in tried : p[2] \in Nat
    BY DEF LoginTypeOK
  <2>2. tried = {}
    BY <1>2, <2>1, EdgeAssumption DEF LoginTypeOK, LockInv, L!Unlocked
  <2> QED BY <1>2, <2>2, FS_EmptySet, EdgeAssumption
<1> QED BY <1>1, <1>2 DEF LoginTypeOK

\* One UPDATE counts the claim and sets the lock (reserveLoginAttempt).
LEMMA ClaimKeeps == ASSUME LoginInv, NEW a \in Attempts, L!Claim(a) PROVE LoginInv'
<1>. USE DEF LoginInv
<1>1. UNCHANGED <<now, counter, blocked, passed>> /\ attempt' = [attempt EXCEPT ![a] = "verify"]
      /\ tried' = tried \cup {<<a, now>>} /\ user' = L!Claimed /\ L!Unlocked
  BY DEF L!Claim, L!Goto
<1>2. PICK n : n = IF user.lockUntil = 0 THEN user.failed + 1 ELSE 1
  OBVIOUS
<1>3. n \in Nat \ {0} /\ user' = [failed |-> n, lockUntil |-> IF n >= MaxLogin THEN now + Lockout ELSE 0]
  BY <1>1, <1>2 DEF L!Claimed, LoginTypeOK
<1>4. IsFiniteSet(tried') /\ Cardinality(tried') \in Nat /\ Cardinality(tried') <= n
  <2>1. IsFiniteSet(tried') /\ Cardinality(tried') \in Nat /\ Cardinality(tried') <= Cardinality(tried) + 1
    <3>1. IsFiniteSet(tried) /\ Cardinality(tried) \in Nat
      BY FS_CardinalityType DEF LoginTypeOK
    <3>2. IsFiniteSet(tried') /\ (Cardinality(tried') = Cardinality(tried) \/ Cardinality(tried') = Cardinality(tried) + 1)
      BY <1>1, <3>1, FS_AddElement
    <3> QED BY <3>1, <3>2
  <2>2. CASE user.lockUntil = 0
    BY <1>2, <2>1, <2>2, FS_CardinalityType DEF LoginTypeOK, LockInv
  <2>3. CASE user.lockUntil > 0
    <3>1. tried = {}
      BY <1>1, <2>3, FewTried
    <3> QED BY <1>2, <2>1, <2>3, <3>1, FS_EmptySet
  <2> QED BY <2>2, <2>3 DEF LoginTypeOK
<1>5. LoginTypeOK'
  BY <1>1, <1>3, <1>4, EdgeAssumption DEF LoginTypeOK
<1>6. ThrottleInv'
  BY <1>1 DEF ThrottleInv, InWindow, LoginTypeOK
<1>7. LockInv'
  <2>1. \A p \in tried' : p[2] \in Nat /\ p[2] <= now /\ p[2] + Lockout > now
    BY <1>1, EdgeAssumption DEF LoginTypeOK, LockInv
  <2> QED BY <1>1, <1>3, <1>4, <2>1, EdgeAssumption DEF LockInv, LoginTypeOK
<1> QED BY <1>5, <1>6, <1>7

\* The upsert counts the attempt, starts a window or a block, or leaves the block alone
\* (PostgresThrottlerStorage.increment).
LEMMA ConsumeKeeps == ASSUME LoginInv, NEW a \in Attempts, L!Consume(a) PROVE LoginInv'
<1>. USE DEF LoginInv
<1>1. attempt[a] = "idle" /\ counter' = L!Incremented /\ UNCHANGED <<now, user, tried>>
  BY DEF L!Consume
<1>2. AddressLimit \in Nat /\ Window \in Nat \ {0} /\ now \in Nat /\ counter.points \in Nat /\ counter.expireAt \in Nat
  BY EdgeAssumption DEF LoginTypeOK
<1>3. counter' \in [points : Nat, expireAt : Nat]
      /\ counter'.points > 0 /\ counter'.expireAt > now /\ counter'.expireAt <= now + Window
  BY <1>1, <1>2 DEF L!Incremented, L!Over, ThrottleInv, LoginTypeOK
<1>4. CASE counter'.points > AddressLimit
  <2>1. attempt' = [attempt EXCEPT ![a] = "throttled"] /\ passed' = passed
        /\ blocked' = IF blocked < 0 THEN now ELSE blocked
    BY <1>4 DEF L!Consume, L!Goto
  <2>2. LoginTypeOK'
    BY <1>1, <1>2, <1>3, <2>1 DEF LoginTypeOK
  <2>3. blocked' >= 0 /\ counter'.expireAt = blocked' + Window
    <3>1. CASE blocked >= 0
      BY <1>1, <1>2, <2>1, <3>1 DEF ThrottleInv, L!Incremented, L!Over, LoginTypeOK
    <3>2. CASE blocked < 0
      BY <1>1, <1>2, <1>4, <2>1, <3>2 DEF ThrottleInv, L!Incremented, L!Over, LoginTypeOK
    <3> QED BY <3>1, <3>2 DEF LoginTypeOK
  <2>4. ThrottleInv'
    BY <1>1, <1>2, <1>3, <1>4, <2>1, <2>3 DEF ThrottleInv, LoginTypeOK
  <2> QED BY <1>1, <2>2, <2>4 DEF LockInv
<1>5. CASE ~(counter'.points > AddressLimit)
  <2>1. attempt' = [attempt EXCEPT ![a] = "claim"] /\ passed' = passed \cup {<<a, now>>} /\ blocked' = blocked
    BY <1>5 DEF L!Consume, L!Goto
  <2>2. <<a, now>> \notin passed
    BY <1>1 DEF ThrottleInv
  <2>3. LoginTypeOK'
    <3>1. IsFiniteSet(passed) /\ passed \in SUBSET (Attempts \X Nat)
      BY DEF LoginTypeOK
    <3>2. IsFiniteSet(passed')
      BY <2>1, <3>1, FS_AddElement
    <3>3. passed' \in SUBSET (Attempts \X Nat)
      BY <1>2, <2>1, <3>1
    <3> QED BY <1>1, <1>2, <1>3, <2>1, <3>2, <3>3 DEF LoginTypeOK
  <2>4. blocked < 0
    BY <1>1, <1>2, <1>5 DEF ThrottleInv, L!Incremented, L!Over, LoginTypeOK
  <2>5. Cardinality(InWindow') >= counter'.points
    <3>1. IsFiniteSet(InWindow') /\ Cardinality(InWindow') \in Nat
      <4>1. IsFiniteSet(passed') /\ InWindow' \subseteq passed'
        BY <2>3 DEF LoginTypeOK, InWindow
      <4> QED BY <4>1, FS_Subset, FS_CardinalityType
    <3>2. <<a, now>> \in InWindow'
      BY <1>1, <1>2, <1>3, <2>1 DEF InWindow
    <3>3. CASE counter'.points = 1
      <4>1. Cardinality({<<a, now>>}) = 1 /\ {<<a, now>>} \subseteq InWindow'
        BY <3>2, FS_Singleton
      <4>2. Cardinality({<<a, now>>}) <= Cardinality(InWindow')
        BY <3>1, <4>1, FS_Subset
      <4> QED BY <3>1, <3>3, <4>1, <4>2
    <3>4. CASE counter'.points # 1
      <4>1. counter'.points = counter.points + 1 /\ counter'.expireAt = counter.expireAt
            /\ counter.points \in 1 .. AddressLimit /\ counter.expireAt > now
        BY <1>1, <1>2, <1>5, <3>4 DEF L!Incremented, L!Over
      <4>2. InWindow' = InWindow \cup {<<a, now>>} /\ <<a, now>> \notin InWindow
        BY <1>1, <1>2, <2>1, <2>2, <3>2, <4>1 DEF InWindow
      <4>3. Cardinality(InWindow') = Cardinality(InWindow) + 1
        BY <4>2, InWindowFinite, FS_AddElement
      <4>4. Cardinality(InWindow) >= counter.points
        BY <4>1 DEF ThrottleInv
      <4> QED BY <1>2, <4>1, <4>3, <4>4, InWindowFinite
    <3> QED BY <3>3, <3>4
  <2>6. ThrottleInv'
    BY <1>1, <1>2, <1>3, <1>5, <2>1, <2>4, <2>5 DEF ThrottleInv, LoginTypeOK
  <2> QED BY <1>1, <2>3, <2>6 DEF LockInv
<1> QED BY <1>4, <1>5

\* Time passes: what the clock leaves behind is neither in a window nor in a lock.
LEMMA TickKeeps == ASSUME LoginInv, L!Tick PROVE LoginInv'
<1>. USE DEF LoginInv
<1>1. /\ now' = now + 1 /\ UNCHANGED <<counter, user, attempt>>
      /\ blocked' = IF now' < blocked + Window THEN blocked ELSE -1
      /\ passed' = {p \in passed : p[2] > now' - Window}
      /\ tried' = {p \in tried : p[2] > now' - Lockout}
  BY DEF L!Tick
<1>2. Window \in Nat \ {0} /\ Lockout \in Nat \ {0} /\ AddressLimit \in Nat /\ now \in Nat /\ counter.expireAt \in Nat
  BY EdgeAssumption DEF LoginTypeOK
<1>3. /\ passed' \subseteq passed /\ IsFiniteSet(passed')
      /\ tried' \subseteq tried /\ IsFiniteSet(tried') /\ Cardinality(tried') <= Cardinality(tried)
      /\ Cardinality(tried') \in Nat /\ Cardinality(tried) \in Nat
  BY <1>1, FS_Subset, FS_CardinalityType DEF LoginTypeOK
<1>4. LoginTypeOK'
  BY <1>1, <1>2, <1>3 DEF LoginTypeOK
<1>5. ThrottleInv'
  <2>1. counter.expireAt > now' => InWindow' = InWindow
    BY <1>1, <1>2 DEF InWindow, LoginTypeOK
  <2>2. /\ blocked' >= 0 <=> counter.points > AddressLimit /\ counter.expireAt > now'
        /\ blocked' >= 0 => counter.expireAt = blocked' + Window
    BY <1>1, <1>2 DEF ThrottleInv, LoginTypeOK
  <2> QED BY <1>1, <1>2, <1>3, <2>1, <2>2 DEF ThrottleInv
<1>6. LockInv'
  BY <1>1, <1>2, <1>3 DEF LockInv, LoginTypeOK
<1> QED BY <1>4, <1>5, <1>6

LEMMA LoginInvariance == L!Spec => []LoginInv
<1>1. L!Init => LoginInv
  <2>1. L!Init => LoginTypeOK /\ LockInv
    BY EdgeAssumption, FS_EmptySet DEF L!Init, L!NoRow, LoginTypeOK, LockInv
  <2>2. L!Init => ThrottleInv
    BY EdgeAssumption DEF L!Init, L!NoRow, ThrottleInv
  <2> QED BY <2>1, <2>2 DEF LoginInv
<1>2. LoginInv /\ [L!Next]_(L!vars) => LoginInv'
  <2> SUFFICES ASSUME LoginInv, [L!Next]_(L!vars) PROVE LoginInv'
    OBVIOUS
  <2>1. ASSUME NEW a \in Attempts, NEW p \in {"reset", "answered"}, L!Goto(a, p),
               UNCHANGED <<now, counter, user, blocked, passed, tried>>
        PROVE  LoginInv'
    BY <2>1 DEF L!Goto, LoginInv, LoginTypeOK, ThrottleInv, LockInv, InWindow
  <2>2. ASSUME NEW a \in Attempts, L!Decoy(a) \/ L!Locked(a) \/ L!Wrong(a) \/ L!Fails(a) PROVE LoginInv'
    BY <2>1, <2>2 DEF L!Decoy, L!Locked, L!Wrong, L!Fails
  <2>3. ASSUME NEW a \in Attempts, L!ResetUser(a) PROVE LoginInv'
    <3>1. /\ user' = [failed |-> 0, lockUntil |-> 0] /\ tried' = {}
          /\ attempt' = [attempt EXCEPT ![a] = "reset"] /\ UNCHANGED <<now, counter, blocked, passed>>
      BY <2>3 DEF L!ResetUser, L!Goto
    <3> QED BY <3>1, EdgeAssumption, FS_EmptySet DEF LoginInv, LoginTypeOK, ThrottleInv, LockInv, InWindow
  <2>4. ASSUME NEW a \in Attempts, L!ResetThrottle(a) PROVE LoginInv'
    <3>1. /\ counter' = [points |-> 0, expireAt |-> 0] /\ blocked' = -1 /\ passed' = {}
          /\ attempt' = [attempt EXCEPT ![a] = "answered"] /\ UNCHANGED <<now, user, tried>>
      BY <2>4 DEF L!ResetThrottle, L!Goto, L!NoRow
    <3> QED BY <3>1, EdgeAssumption, FS_EmptySet DEF LoginInv, LoginTypeOK, ThrottleInv, LockInv
  <2>5. CASE L!Purge
    <3>1. /\ counter' = [points |-> 0, expireAt |-> 0] /\ counter.expireAt <= now
          /\ UNCHANGED <<now, user, attempt, blocked, passed, tried>>
      BY <2>5 DEF L!Purge, L!NoRow
    <3> QED BY <3>1, EdgeAssumption DEF LoginInv, LoginTypeOK, ThrottleInv, LockInv
  <2>6. CASE UNCHANGED L!vars
    BY <2>6 DEF L!vars, LoginInv, LoginTypeOK, ThrottleInv, LockInv, InWindow
  <2> QED BY <2>2, <2>3, <2>4, <2>5, <2>6, TickKeeps, ConsumeKeeps, ClaimKeeps DEF L!Next
<1> QED BY <1>1, <1>2, PTL DEF L!Spec

\* Both limits bite as announced, however the attempts of all processes interleave between
\* their statements and wherever the clock is between them (increment, reserveLoginAttempt).
THEOREM LimitsExact == L!Spec => LimitsAreExact
<1> DEFINE Bites ==
      \A a \in Attempts :
        /\ attempt[a] = "idle" /\ attempt'[a] = "claim" => blocked < 0
        /\ attempt[a] = "idle" /\ attempt'[a] = "throttled" => blocked >= 0 \/ Cardinality(passed) >= AddressLimit
        /\ attempt[a] = "claim" /\ attempt'[a] = "verify" => Cardinality(tried) < MaxLogin
<1>1. LoginInv /\ [L!Next]_(L!vars) => [Bites]_(L!vars)
  <2> SUFFICES ASSUME LoginInv, L!Next, NEW a \in Attempts
               PROVE  /\ attempt[a] = "idle" /\ attempt'[a] = "claim" => blocked < 0
                      /\ attempt[a] = "idle" /\ attempt'[a] = "throttled" =>
                           blocked >= 0 \/ Cardinality(passed) >= AddressLimit
                      /\ attempt[a] = "claim" /\ attempt'[a] = "verify" => Cardinality(tried) < MaxLogin
    OBVIOUS
  <2>1. ASSUME NEW b \in Attempts, NEW p, L!Goto(b, p) PROVE attempt'[a] = IF a = b THEN p ELSE attempt[a]
    BY <2>1 DEF L!Goto, LoginInv, LoginTypeOK
  <2>2. CASE L!Tick \/ L!Purge
    BY <2>2 DEF L!Tick, L!Purge
  <2>3. ASSUME NEW b \in Attempts,
               L!Decoy(b) \/ L!Locked(b) \/ L!Wrong(b) \/ L!ResetUser(b) \/ L!ResetThrottle(b) \/ L!Fails(b)
        PROVE  attempt'[a] = attempt[a] \/ attempt'[a] \in {"reset", "answered"}
    BY <2>1, <2>3 DEF L!Decoy, L!Locked, L!Wrong, L!ResetUser, L!ResetThrottle, L!Fails
  <2>4. ASSUME NEW b \in Attempts, L!Claim(b) 
        PROVE  attempt'[a] = attempt[a] \/ (attempt'[a] = "verify" /\ Cardinality(tried) < MaxLogin)
    BY <2>1, <2>4, FewTried DEF L!Claim, LoginInv
  <2>5. ASSUME NEW b \in Attempts, L!Consume(b)
        PROVE  \/ attempt'[a] = attempt[a]
               \/ attempt'[a] = "claim" /\ blocked < 0
               \/ attempt'[a] = "throttled" /\ (blocked >= 0 \/ Cardinality(passed) >= AddressLimit)
    <3>1. AddressLimit \in Nat /\ counter.points \in Nat /\ counter.expireAt \in Nat /\ now \in Nat
          /\ blocked \in Int /\ Cardinality(passed) \in Nat
      BY EdgeAssumption, FS_CardinalityType DEF LoginInv, LoginTypeOK
    <3>2. counter' = L!Incremented
      BY <2>5 DEF L!Consume
    <3>3. CASE counter'.points > AddressLimit
      <4>1. L!Goto(b, "throttled")
        BY <2>5, <3>3 DEF L!Consume
      <4>2. blocked >= 0 \/ Cardinality(passed) >= AddressLimit
        <5>1. SUFFICES ASSUME blocked < 0 PROVE Cardinality(passed) >= AddressLimit
          BY <3>1
        <5>2. CASE AddressLimit = 0
          BY <3>1, <5>2
        <5>3. CASE AddressLimit > 0
          <6>1. counter.points = AddressLimit /\ counter.expireAt > now
            BY <3>1, <3>2, <3>3, <5>1, <5>3 DEF L!Incremented, L!Over, LoginInv, ThrottleInv
          <6>2. Cardinality(InWindow) >= AddressLimit
            BY <3>1, <5>3, <6>1 DEF LoginInv, ThrottleInv
          <6> QED BY <3>1, <6>2, InWindowFinite DEF LoginInv
        <5> QED BY <3>1, <5>2, <5>3
      <4> QED BY <2>1, <4>1, <4>2
    <3>4. CASE ~(counter'.points > AddressLimit)
      <4>1. L!Goto(b, "claim")
        BY <2>5, <3>4 DEF L!Consume
      <4>2. blocked < 0
        BY <3>1, <3>2, <3>4 DEF L!Incremented, L!Over, LoginInv, ThrottleInv
      <4> QED BY <2>1, <4>1, <4>2
    <3> QED BY <3>3, <3>4
  <2> QED BY <2>2, <2>3, <2>4, <2>5 DEF L!Next
<1>2. [][Bites]_(L!vars) => LimitsAreExact
  <2>1. L!Cardinality(passed) = Cardinality(passed) /\ L!Cardinality(tried) = Cardinality(tried)
    BY SameCardinality
  <2>2. [Bites]_(L!vars) =>
          [\A a \in Attempts :
             /\ attempt[a] = "idle" /\ attempt'[a] = "claim" => blocked < 0
             /\ attempt[a] = "idle" /\ attempt'[a] = "throttled" =>
                  blocked >= 0 \/ L!Cardinality(passed) >= AddressLimit
             /\ attempt[a] = "claim" /\ attempt'[a] = "verify" => L!Cardinality(tried) < MaxLogin]_(L!vars)
    BY <2>1
  <2> QED BY <2>2, PTL DEF LimitsAreExact, L!LimitsAreExact
<1> QED BY <1>1, <1>2, LoginInvariance, PTL DEF L!Spec

-----------------------------------------------------------------------------
(***************************************************************************)
(* Mailed links, for any numbers of requests, of confirmations and of      *)
(* tokens.                                                                 *)
(*                                                                         *)
(* At most one token is unused, a claim holds an unused one, and whatever  *)
(* ends the links mailed so far ends that token too: then a claimed token  *)
(* is never one that a reset or a closing left behind.                     *)
(***************************************************************************)

Workers == [pc : {"idle", "look", "issue", "mail", "dead"}, job : Requests \cup {None},
            token : Nat, covers : SUBSET Requests]
Calls == [pc : {"idle", "presented", "claimed", "applied", "refused"}, token : Nat]

MailTypeOK ==
  /\ worker \in Workers
  /\ tokens \in [T!Tokens -> {"none", "unused", "used", "deleted"}]
  /\ confirm \in [Confirms -> Calls]

\* What reached an inbox was issued; what was spoiled was mailed, and is of no use.
InboxInv ==
  /\ spoiled \subseteq mailed /\ mailed \subseteq T!Issued
  /\ spoiled \cap T!Unused = {}
  /\ worker.pc = "mail" => worker.token \in T!Issued

\* At most one token is unused, and at most one call has claimed it.
ClaimsInv ==
  /\ \A t, u \in T!Unused : t = u
  /\ \A c \in Confirms : confirm[c].pc = "claimed" => confirm[c].token \in T!Unused
  /\ \A c, d \in Confirms : confirm[c].pc = "claimed" /\ confirm[d].pc = "claimed" => c = d

AppliedTokens == {confirm[c].token : c \in {d \in Confirms : confirm[d].pc = "applied"}}
Used == {t \in T!Tokens : tokens[t] = "used"}

MailInv == MailTypeOK /\ InboxInv /\ ClaimsInv /\ LinksWorkOnce

\* A step of the queue and of the worker that issues nothing: at most the link that the
\* worker holds reaches the inbox.
QueueMoves ==
  /\ UNCHANGED <<tokens, spoiled, confirm>>
  /\ mailed' = mailed \/ (worker.pc = "mail" /\ mailed' = mailed \cup {worker.token})
  /\ worker' \in Workers
  /\ worker'.pc = "mail" => worker.pc = "mail" /\ worker'.token = worker.token

LEMMA QueueKeeps == ASSUME MailInv, QueueMoves PROVE MailInv'
<1>1. MailTypeOK'
  BY DEF MailInv, MailTypeOK, QueueMoves
<1>2. InboxInv'
  BY DEF MailInv, MailTypeOK, InboxInv, QueueMoves, T!Issued, T!Unused
<1>3. ClaimsInv'
  BY DEF MailInv, ClaimsInv, QueueMoves, T!Unused
<1>4. LinksWorkOnce'
  BY DEF MailInv, LinksWorkOnce, T!LinksWorkOnce, QueueMoves
<1> QED BY <1>1, <1>2, <1>3, <1>4 DEF MailInv

\* The worker's attempt ends, and it is idle again (pg-boss: complete, retry, give up).
LEMMA AttemptEnds == ASSUME T!Finish \/ T!AttemptFails PROVE worker' \in Workers /\ worker'.pc # "mail"
<1>1. worker' = T!Idle
  BY DEF T!Finish, T!AttemptFails
<1> QED BY <1>1 DEF T!Idle, Workers

LEMMA QueueStep ==
  ASSUME MailInv,
         \/ \E r \in Requests : T!Ask(r) \/ T!Send(r) \/ T!SendFails(r) \/ T!Fetch(r)
         \/ T!Look \/ T!Deliver \/ T!Refused \/ T!Retry \/ T!Crash \/ T!Expire
  PROVE  MailInv'
<1>. worker \in Workers
  BY DEF MailInv, MailTypeOK
<1>. SUFFICES QueueMoves
  BY QueueKeeps
<1>1. ASSUME NEW r \in Requests, T!Ask(r) \/ T!Send(r) \/ T!SendFails(r) PROVE QueueMoves
  BY <1>1 DEF T!Ask, T!Send, T!SendFails, QueueMoves
<1>2. ASSUME NEW r \in Requests, T!Fetch(r) PROVE QueueMoves
  <2>1. UNCHANGED <<tokens, spoiled, confirm, mailed>>
    BY <1>2 DEF T!Fetch
  <2>2. worker' = [pc |-> "look", job |-> r, token |-> 0, covers |-> {q \in Requests : request[q] = "waiting"}]
    BY <1>2 DEF T!Fetch
  <2> QED BY <2>1, <2>2 DEF QueueMoves, Workers
<1>3. CASE T!Look
  <2>1. UNCHANGED <<tokens, spoiled, confirm, mailed>>
    BY <1>3 DEF T!Look
  <2>2. worker' = [worker EXCEPT !.pc = "issue"] \/ T!Finish
    BY <1>3 DEF T!Look
  <2>3. worker' \in Workers /\ worker'.pc # "mail"
    BY <2>2, AttemptEnds DEF Workers
  <2> QED BY <2>1, <2>3 DEF QueueMoves
<1>4. CASE T!Deliver \/ T!Refused \/ T!Expire
  <2>1. T!Finish \/ T!AttemptFails
    BY <1>4 DEF T!Deliver, T!Refused, T!Expire
  <2>2. UNCHANGED <<tokens, spoiled, confirm>>
        /\ (mailed' = mailed \/ (worker.pc = "mail" /\ mailed' = mailed \cup {worker.token}))
    BY <1>4 DEF T!Deliver, T!Refused, T!Expire
  <2> QED BY <2>1, <2>2, AttemptEnds DEF QueueMoves
<1>5. CASE T!Retry
  BY <1>5, AttemptEnds DEF T!Retry, QueueMoves
<1>6. CASE T!Crash
  <2>1. worker' = [worker EXCEPT !.pc = "dead"]
    BY <1>6 DEF T!Crash
  <2>2. worker' \in Workers /\ worker'.pc # "mail"
    BY <2>1 DEF Workers
  <2> QED BY <1>6, <2>2 DEF T!Crash, QueueMoves
<1> QED BY <1>1, <1>2, <1>3, <1>4, <1>5, <1>6

\* A call that is not applied moves on, and claims at most a token that is free.
LEMMA CallMoves ==
  ASSUME MailInv, UNCHANGED <<tokens, mailed, spoiled, worker>>, NEW c \in Confirms, NEW k \in Calls,
         confirm' = [confirm EXCEPT ![c] = k], confirm[c].pc # "applied", k.pc # "applied",
         k.pc = "claimed" => k.token \in T!Unused \ T!Claimed
  PROVE  MailInv'
<1>1. confirm' \in [Confirms -> Calls] /\ confirm'[c] = k /\ \A d \in Confirms \ {c} : confirm'[d] = confirm[d]
  BY DEF MailInv, MailTypeOK
<1>2. MailTypeOK'
  BY <1>1 DEF MailInv, MailTypeOK
<1>3. InboxInv'
  BY DEF MailInv, InboxInv, T!Issued, T!Unused
<1>4. ClaimsInv'
  <2>1. T!Unused' = T!Unused
    BY DEF T!Unused
  <2>2. \A d \in Confirms : confirm'[d].pc = "claimed" => confirm'[d].token \in T!Unused
    BY <1>1 DEF MailInv, ClaimsInv
  <2>3. \A d \in Confirms : confirm[d].pc = "claimed" => confirm[d].token \in T!Claimed
    BY DEF T!Claimed
  <2>4. \A d, e \in Confirms : confirm'[d].pc = "claimed" /\ confirm'[e].pc = "claimed" => d = e
    BY <1>1, <2>3 DEF MailInv, ClaimsInv
  <2> QED BY <2>1, <2>2, <2>4 DEF MailInv, ClaimsInv
<1>5. LinksWorkOnce'
  <2>1. \A d \in Confirms : (confirm'[d].pc = "applied" <=> confirm[d].pc = "applied")
                            /\ (confirm[d].pc = "applied" => confirm'[d] = confirm[d])
    BY <1>1
  <2>2. AppliedTokens' = AppliedTokens
    BY <2>1 DEF AppliedTokens
  <2>3. Used' = Used
    BY DEF Used
  <2> QED BY <2>1, <2>2, <2>3 DEF MailInv, LinksWorkOnce, T!LinksWorkOnce, AppliedTokens, Used
<1> QED BY <1>2, <1>3, <1>4, <1>5 DEF MailInv

LEMMA CallStep ==
  ASSUME MailInv, NEW c \in Confirms,
         (\E t \in T!Tokens : T!Present(c, t)) \/ T!Claim(c) \/ T!RefuseClosed(c) \/ T!ConfirmFails(c)
  PROVE  MailInv'
<1>1. confirm[c] \in Calls /\ confirm \in [Confirms -> Calls]
  BY DEF MailInv, MailTypeOK
<1>2. ASSUME NEW t \in T!Tokens, T!Present(c, t) PROVE MailInv'
  <2>1. [pc |-> "presented", token |-> t] \in Calls
    BY DEF Calls, T!Tokens
  <2>2. UNCHANGED <<tokens, mailed, spoiled, worker>> /\ confirm[c].pc = "idle"
        /\ confirm' = [confirm EXCEPT ![c] = [pc |-> "presented", token |-> t]]
    BY <1>2 DEF T!Present, T!queueVars
  <2> QED BY <2>1, <2>2, CallMoves
<1>3. CASE T!Claim(c) \/ T!RefuseClosed(c) \/ T!ConfirmFails(c)
  <2>1. /\ UNCHANGED <<tokens, mailed, spoiled, worker>> /\ confirm[c].pc # "applied"
        /\ \/ T!Goto(c, "refused")
           \/ T!Goto(c, "claimed") /\ confirm[c].token \in T!Unused \ T!Claimed
    BY <1>3 DEF T!Claim, T!RefuseClosed, T!ConfirmFails, T!queueVars
  <2>2. CASE T!Goto(c, "refused")
    <3>1. PICK k : k = [confirm[c] EXCEPT !.pc = "refused"]
      OBVIOUS
    <3>2. k \in Calls /\ k.pc = "refused" /\ confirm' = [confirm EXCEPT ![c] = k]
      BY <1>1, <2>2, <3>1 DEF T!Goto, Calls
    <3> QED BY <2>1, <3>2, CallMoves
  <2>3. CASE T!Goto(c, "claimed") /\ confirm[c].token \in T!Unused \ T!Claimed
    <3>1. PICK k : k = [confirm[c] EXCEPT !.pc = "claimed"]
      OBVIOUS
    <3>2. k \in Calls /\ k.pc = "claimed" /\ k.token = confirm[c].token /\ confirm' = [confirm EXCEPT ![c] = k]
      BY <1>1, <2>3, <3>1 DEF T!Goto, Calls
    <3> QED BY <2>1, <2>3, <3>2, CallMoves
  <2> QED BY <2>1, <2>2, <2>3
<1> QED BY <1>2, <1>3

\* A claimed token is applied: it is used, and no other is of any use (confirmPasswordReset,
\* confirmEmailVerification).
LEMMA Applies ==
  ASSUME MailInv, NEW c \in Confirms, T!ApplyReset(c) \/ T!ApplyVerify(c)
  PROVE  MailInv'
<1>. PICK t : t = confirm[c].token
  OBVIOUS
<1>1. t \in T!Unused /\ confirm[c].pc = "claimed" /\ confirm[c] \in Calls /\ t \in T!Tokens
  BY DEF T!ApplyReset, T!ApplyVerify, MailInv, ClaimsInv, MailTypeOK, T!Unused
<1>2. UNCHANGED <<mailed, worker>> /\ (spoiled' = spoiled \/ spoiled' = mailed) /\ T!Goto(c, "applied")
  BY DEF T!ApplyReset, T!ApplyVerify, T!queueVars
<1>3. tokens' \in [T!Tokens -> {"none", "unused", "used", "deleted"}] /\ tokens'[t] = "used"
      /\ \A u \in T!Tokens \ {t} : tokens'[u] = tokens[u] /\ tokens[u] # "unused"
  <2>1. \A u \in T!Tokens \ {t} : u \notin T!Unused /\ tokens[u] # "unused"
    BY <1>1 DEF MailInv, ClaimsInv, T!Unused
  <2>2. CASE T!ApplyReset(c)
    <3>1. tokens' = [u \in T!Tokens |-> IF u = t THEN "used" ELSE IF u \in T!Unused THEN "deleted" ELSE tokens[u]]
      BY <2>2 DEF T!ApplyReset
    <3> QED BY <1>1, <2>1, <3>1 DEF MailInv, MailTypeOK
  <2>3. CASE T!ApplyVerify(c)
    <3>1. tokens' = [tokens EXCEPT ![t] = "used"]
      BY <2>3 DEF T!ApplyVerify
    <3> QED BY <1>1, <2>1, <3>1 DEF MailInv, MailTypeOK
  <2> QED BY <2>2, <2>3
<1>4. confirm' \in [Confirms -> Calls] /\ confirm'[c].pc = "applied" /\ confirm'[c].token = t
      /\ \A d \in Confirms \ {c} : confirm'[d] = confirm[d] /\ confirm[d].pc # "claimed"
  <2>1. [confirm[c] EXCEPT !.pc = "applied"] \in Calls
    BY <1>1 DEF Calls
  <2> QED BY <1>1, <1>2, <2>1 DEF T!Goto, MailInv, MailTypeOK, ClaimsInv, Calls
<1>5. MailTypeOK'
  BY <1>2, <1>3, <1>4 DEF MailInv, MailTypeOK
<1>6. T!Unused' = {} /\ T!Issued' = T!Issued
  BY <1>1, <1>3 DEF T!Unused, T!Issued
<1>7. InboxInv'
  BY <1>2, <1>6 DEF MailInv, InboxInv
<1>8. ClaimsInv'
  BY <1>4, <1>6 DEF ClaimsInv
<1>9. LinksWorkOnce'
  <2>1. \A d \in Confirms \ {c} : confirm[d].pc = "applied" => confirm[d].token # t
    <3>1. \A d \in Confirms : confirm[d].pc = "applied" => confirm[d].token \in AppliedTokens
      BY DEF AppliedTokens
    <3>2. t \notin Used /\ Used = AppliedTokens
      BY <1>1 DEF Used, T!Unused, AppliedTokens, MailInv, LinksWorkOnce, T!LinksWorkOnce
    <3> QED BY <3>1, <3>2
  <2>2. \A d, e \in Confirms : d # e /\ confirm'[d].pc = "applied" /\ confirm'[e].pc = "applied"
          => confirm'[d].token # confirm'[e].token
    BY <1>4, <2>1 DEF MailInv, LinksWorkOnce, T!LinksWorkOnce
  <2>3. Used' = Used \cup {t}
    BY <1>1, <1>3 DEF Used
  <2>4. AppliedTokens' = AppliedTokens \cup {t}
    BY <1>1, <1>4 DEF AppliedTokens
  <2>5. Used' = AppliedTokens'
    BY <2>3, <2>4 DEF MailInv, LinksWorkOnce, T!LinksWorkOnce, Used, AppliedTokens
  <2> QED BY <2>2, <2>5 DEF LinksWorkOnce, T!LinksWorkOnce, Used, AppliedTokens
<1> QED BY <1>5, <1>7, <1>8, <1>9 DEF MailInv

\* Tokens that no call has claimed end: one that expires, or all of them when the account is closed.
LEMMA TokensEnd ==
  ASSUME MailInv, UNCHANGED <<confirm, mailed, worker>>, NEW D \in SUBSET (T!Unused \ T!Claimed),
         tokens' = [t \in T!Tokens |-> IF t \in D THEN "deleted" ELSE tokens[t]],
         spoiled' = spoiled \/ (spoiled' = mailed /\ D = T!Unused)
  PROVE  MailInv'
<1>1. MailTypeOK'
  BY DEF MailInv, MailTypeOK
<1>2. T!Unused' = T!Unused \ D /\ T!Issued' = T!Issued /\ Used' = Used
  BY DEF T!Unused, T!Issued, Used
<1>3. InboxInv'
  BY <1>2 DEF MailInv, InboxInv
<1>4. ClaimsInv'
  <2>1. \A c \in Confirms : confirm[c].pc = "claimed" => confirm[c].token \in T!Claimed
    BY DEF T!Claimed
  <2> QED BY <1>2, <2>1 DEF MailInv, ClaimsInv
<1>5. LinksWorkOnce'
  BY <1>2 DEF MailInv, LinksWorkOnce, T!LinksWorkOnce, Used
<1> QED BY <1>1, <1>3, <1>4, <1>5 DEF MailInv

\* A new token replaces those that are left (enqueued jobs: one token per attempt).
LEMMA IssueKeeps == ASSUME MailInv, T!Issue PROVE MailInv'
<1>1. PICK new \in T!Tokens :
        /\ T!Issued = 1 .. new - 1
        /\ tokens' = [t \in T!Tokens |->
             IF t = new THEN "unused" ELSE IF t \in T!Unused THEN "deleted" ELSE tokens[t]]
        /\ worker' = [worker EXCEPT !.pc = "mail", !.token = new]
  BY DEF T!Issue
<1>2. UNCHANGED <<mailed, spoiled, confirm>> /\ T!Claimed \cap T!Unused = {} /\ new \in Nat
  BY DEF T!Issue, T!Tokens
<1>3. new \notin T!Issued /\ tokens[new] = "none"
  <2>1. new \notin 1 .. new - 1
    BY <1>2
  <2> QED BY <1>1, <2>1 DEF T!Issued
<1>4. worker' \in Workers /\ worker'.token = new
  BY <1>1, <1>2 DEF MailInv, MailTypeOK, Workers
<1>5. MailTypeOK'
  BY <1>1, <1>2, <1>4 DEF MailInv, MailTypeOK
<1>6. T!Unused' = {new} /\ T!Issued' = T!Issued \cup {new} /\ Used' = Used
  <2>1. T!Unused' = {new}
    BY <1>1 DEF T!Unused
  <2>2. T!Issued' = T!Issued \cup {new}
    BY <1>1 DEF T!Issued, T!Unused
  <2>3. Used' = Used
    BY <1>1, <1>3 DEF Used, T!Unused
  <2> QED BY <2>1, <2>2, <2>3
<1>7. InboxInv'
  BY <1>2, <1>3, <1>4, <1>6 DEF MailInv, InboxInv
<1>8. ClaimsInv'
  <2>1. \A c \in Confirms : confirm[c].pc = "claimed" => confirm[c].token \in T!Claimed /\ confirm[c].token \in T!Unused
    BY DEF T!Claimed, MailInv, ClaimsInv
  <2> QED BY <1>2, <1>6, <2>1 DEF ClaimsInv
<1>9. LinksWorkOnce'
  BY <1>2, <1>6 DEF MailInv, LinksWorkOnce, T!LinksWorkOnce, Used
<1> QED BY <1>5, <1>7, <1>8, <1>9 DEF MailInv

\* The invariant of the tokens, their links and the calls that present them.
THEOREM MailInvariance == T!Spec => []MailInv
<1>1. T!Init => MailInv
  <2> SUFFICES ASSUME T!Init PROVE MailInv
    OBVIOUS
  <2>1. T!Issued = {} /\ T!Unused = {} /\ Used = {} /\ \A c \in Confirms : confirm[c].pc = "idle"
    BY DEF T!Init, T!Issued, T!Unused, Used
  <2>2. MailTypeOK
    BY DEF T!Init, MailTypeOK, T!Idle, Workers, Calls
  <2>3. InboxInv /\ ClaimsInv
    BY <2>1 DEF T!Init, T!Idle, InboxInv, ClaimsInv
  <2>4. LinksWorkOnce
    BY <2>1 DEF LinksWorkOnce, T!LinksWorkOnce, Used
  <2> QED BY <2>2, <2>3, <2>4 DEF MailInv
<1>2. MailInv /\ [T!Next]_(T!vars) => MailInv'
  <2> SUFFICES ASSUME MailInv, [T!Next]_(T!vars) PROVE MailInv'
    OBVIOUS
  <2>1. CASE UNCHANGED <<worker, tokens, mailed, spoiled, confirm>>
    BY <2>1, QueueKeeps DEF QueueMoves, MailInv, MailTypeOK
  <2>2. T!CloseLock \/ T!CloseFails \/ T!Reopen \/ UNCHANGED T!vars
          => UNCHANGED <<worker, tokens, mailed, spoiled, confirm>>
    BY DEF T!CloseLock, T!CloseFails, T!Reopen, T!vars, T!queueVars
  <2>3. CASE T!CloseCommit
    <3>1. T!Unused \in SUBSET (T!Unused \ T!Claimed)
      BY <2>3 DEF T!CloseCommit
    <3>2. UNCHANGED <<confirm, mailed, worker>> /\ spoiled' = mailed
          /\ tokens' = [t \in T!Tokens |-> IF t \in T!Unused THEN "deleted" ELSE tokens[t]]
      BY <2>3 DEF T!CloseCommit, T!queueVars
    <3> QED BY <3>1, <3>2, TokensEnd
  <2>4. ASSUME NEW t \in T!Tokens, T!TokenExpires(t) PROVE MailInv'
    <3>1. {t} \in SUBSET (T!Unused \ T!Claimed)
      BY <2>4 DEF T!TokenExpires
    <3>2. UNCHANGED <<confirm, mailed, worker, spoiled>>
          /\ tokens' = [u \in T!Tokens |-> IF u \in {t} THEN "deleted" ELSE tokens[u]]
      BY <2>4 DEF T!TokenExpires, T!queueVars, MailInv, MailTypeOK
    <3> QED BY <3>1, <3>2, TokensEnd
  <2> QED BY <2>1, <2>2, <2>3, <2>4, QueueStep, CallStep, Applies, IssueKeeps DEF T!Next, T!Work
<1> QED BY <1>1, <1>2, PTL DEF T!Spec

\* A link works once: whatever calls present it together, at most one is applied.
THEOREM LinkWorksOnce == T!Spec => []LinksWorkOnce
<1>1. MailInv => LinksWorkOnce
  BY DEF MailInv
<1> QED BY <1>1, MailInvariance, PTL

\* A link mailed before a reset or a closing of the account never works after it, nor does
\* any while the account is closed (auth.service.ts, user.service.ts).
THEOREM OldLinksDie == T!Spec => OldLinksAreDead
<1>1. MailInv /\ [T!Next]_(T!vars) =>
        [\A c \in Confirms : confirm'[c].pc = "applied" /\ confirm[c].pc # "applied"
           => confirm[c].token \notin spoiled /\ account.open]_(T!vars)
  <2> SUFFICES ASSUME MailInv, T!Next, NEW c \in Confirms,
                      confirm'[c].pc = "applied", confirm[c].pc # "applied"
               PROVE  confirm[c].token \notin spoiled /\ account.open
    OBVIOUS
  <2>1. confirm \in [Confirms -> Calls] /\ confirm' # confirm
    BY DEF MailInv, MailTypeOK
  <2>2. ASSUME NEW d \in Confirms,
               (\E t \in T!Tokens : T!Present(d, t)) \/ T!Claim(d) \/ T!RefuseClosed(d) \/ T!ConfirmFails(d)
        PROVE  FALSE
    BY <2>1, <2>2 DEF T!Present, T!Claim, T!RefuseClosed, T!ConfirmFails, T!Goto, Calls
  <2>3. ~(T!CloseLock \/ T!CloseCommit \/ T!CloseFails \/ T!Reopen \/ \E t \in T!Tokens : T!TokenExpires(t))
    BY <2>1 DEF T!CloseLock, T!CloseCommit, T!CloseFails, T!Reopen, T!TokenExpires
  <2>4. ~(T!Work \/ T!Crash \/ T!Expire
           \/ \E r \in Requests : T!Ask(r) \/ T!Send(r) \/ T!SendFails(r) \/ T!Fetch(r))
    BY <2>1 DEF T!Work, T!Look, T!Issue, T!Deliver, T!Refused, T!Retry, T!Crash, T!Expire, T!Ask, T!Send,
                T!SendFails, T!Fetch
  <2>5. PICK d \in Confirms : T!ApplyReset(d) \/ T!ApplyVerify(d)
    BY <2>2, <2>3, <2>4 DEF T!Next
  <2>6. d = c /\ confirm[c].pc = "claimed" /\ account.open
    BY <2>1, <2>5 DEF T!ApplyReset, T!ApplyVerify, T!Goto
  <2>7. confirm[c].token \in T!Unused /\ spoiled \cap T!Unused = {}
    BY <2>6 DEF MailInv, ClaimsInv, InboxInv
  <2> QED BY <2>6, <2>7
<1> QED BY <1>1, MailInvariance, PTL DEF T!Spec, OldLinksAreDead, T!OldLinksAreDead
=============================================================================
