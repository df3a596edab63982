------------------------------ MODULE CmsWorkflow ------------------------------
(***************************************************************************)
(* The authoring workflow of lessons, topics and lesson exercises:         *)
(*   revision -> review -> publish the latest approved revision -> archive *)
(* with the exercise import and the media library that published           *)
(* exercises depend on.  Every mutation is one database transaction: it    *)
(* takes its row locks one by one, reads and decides, and then commits.    *)
(* The locks are modelled one by one because the decision of one           *)
(* transaction is only as good as the locks that keep the others out.      *)
(*                                                                         *)
(* lesson.create_revision and its like are the operations of               *)
(* cms-transaction-coordinator.ts, the same for the three kinds of items   *)
(* unless a definition says otherwise.                                     *)
(***************************************************************************)
EXTENDS Naturals, Sequences, FiniteSets, SequencesExt

CONSTANTS
  Authors,                    \* admin accounts, each with one transaction at a time
  Lessons, Topics, Exercises, \* the items, by the id they have or will get
  ParentsOf,                  \* the lesson, or lesson and topic, of an item
  WithStory,                  \* lessons with a published story
  Media, NoMedia,
  Contents, MediaOf,          \* revision snapshots, and the audio a listening one needs
  Keys, Payloads,             \* idempotency keys and import files
  SourceOf, RowsOf,           \* the data source of a file, the exercises its rows become
  Seed, SeedContent,          \* status and content of the items there are at the start
  IdOf, MaxId,                \* the ids of lessons and topics, and the greatest id there is
  MaxRevisions, MaxOps        \* bounds on the revisions of an item and on the transactions

Items == Lessons \cup Topics \cup Exercises
ImportRows == UNION {RowsOf[p] : p \in Payloads}
Sources == {SourceOf[p] : p \in Payloads}
NoJob == [by |-> {}, payload |-> {}]

ASSUME ShapeAssumption ==
  /\ ParentsOf \in [Items -> Seq(Lessons \cup Topics)]
  /\ \A l \in Lessons : ParentsOf[l] = <<>>
  /\ WithStory \subseteq Lessons
  /\ Seed \in [Items -> {"none", "draft", "published"}] /\ SeedContent \in Contents
  /\ MediaOf \in [Contents -> Media \cup {NoMedia}] /\ NoMedia \notin Media
  /\ RowsOf \in [Payloads -> SUBSET Exercises]
  /\ MaxRevisions \in Nat \ {0} /\ MaxOps \in Nat

\* A topic hangs under its lesson, an exercise under a lesson and perhaps a topic.
ASSUME ParentAssumption ==
  /\ \A t \in Topics : \E l \in Lessons : ParentsOf[t] = <<l>>
  /\ \A x \in Exercises : \E l \in Lessons :
       ParentsOf[x] = <<l>> \/ \E t \in Topics : ParentsOf[x] = <<l, t>>

\* Rows of two tables are two rows; the id is a primary key; an exercise that is
\* imported belongs to one data source (unique dataSourceId, sourceKey).
ASSUME TableAssumption ==
  /\ LET Tables == <<Authors, Sources, Lessons, Topics, Exercises, Media>> IN
     \A i, j \in 1..6 : i # j => Tables[i] \cap Tables[j] = {}
  /\ NoMedia \notin Keys
  /\ MaxId \in Nat /\ IdOf \in [Lessons \cup Topics -> 0..MaxId]
  /\ \A T \in {Lessons, Topics} : \A x, y \in T : x # y => IdOf[x] # IdOf[y]
  /\ \A p, q \in Payloads : RowsOf[p] \cap RowsOf[q] # {} => SourceOf[p] = SourceOf[q]

VARIABLES
  item,    \* the row of each item: status, the content learners see, its revision
  revs,    \* the ContentRevision rows of each item, with their latest review
  media,   \* Media rows
  active,  \* which accounts are active admins
  jobs,    \* ImportJob rows by idempotency key
  tx,      \* the transaction of each author
  ops      \* transactions begun

data == <<item, revs, media, jobs>>
vars == <<item, revs, media, active, jobs, tx, ops>>

MediaOps == {"quarantine", "archive_media"}
Idle == [pc |-> "idle", op |-> "none", on |-> NoMedia, arg |-> NoMedia,
         todo |-> <<>>, held |-> {}, verdict |-> "none"]

\* A seeded item has one approved revision.
Init ==
  /\ item = [x \in Items |-> [status |-> Seed[x], live |-> SeedContent, job |-> NoMedia,
                             version |-> IF Seed[x] = "none" THEN 0 ELSE 1]]
  /\ revs = [x \in Items |-> IF Seed[x] = "none" THEN <<>>
                             ELSE <<[content |-> SeedContent, review |-> "approved"]>>]
  /\ media = [m \in Media |-> "ready"]
  /\ active = [a \in Authors |-> TRUE]
  /\ jobs = [k \in Keys |-> NoJob]
  /\ tx = [a \in Authors |-> Idle]
  /\ ops = 0

-----------------------------------------------------------------------------
(* Row locks.                                                               *)

ForUpdate(rows) == [i \in DOMAIN rows |-> [row |-> rows[i], mode |-> "update"]]
ForShare(row) == <<[row |-> row, mode |-> "share"]>>

\* Mutant. Nothing keeps the acting account active.
ActorUnlocked(a, x) == <<>>

\* lockLessonForOperation, lockTopicHierarchyForOperation: the lesson first.
\* Exercises, media and imports first lock the acting account, against its
\* deactivation; lessons and topics do not.
Actor(a, x) == IF x \in Exercises THEN ForShare(a) ELSE <<>>
CreateLocks(a, x) == Actor(a, x) \o ForUpdate(ParentsOf[x])
\* Mutant. The parents are locked and the item itself is not.
ItemLocksParents(a, x) == CreateLocks(a, x)

ItemLocks(a, x) == CreateLocks(a, x) \o ForUpdate(<<x>>)

\* Mutant. The audio of an exercise is read without a lock.
PublishLocksNoMedia(a, x, c) == ItemLocks(a, x)

\* A listening exercise is published under a share lock of its audio.
PublishLocks(a, x, c) ==
  ItemLocks(a, x) \o (IF x \in Exercises /\ MediaOf[c] # NoMedia
                      THEN ForShare(MediaOf[c]) ELSE <<>>)

MediaLocks(a, m) == ForShare(a) \o ForUpdate(<<m>>)

\* The rows of a set in the order of their ids (ORDER BY id FOR UPDATE).
InIdOrder(T) ==
  CHOOSE s \in [1..Cardinality(T) -> T] : \A i, j \in DOMAIN s : i < j => IdOf[s[i]] < IdOf[s[j]]

Above(p) == UNION {ToSet(ParentsOf[x]) : x \in RowsOf[p]}

\* Mutant. An import locks topics before lessons.
ImportLocksSwapped(a, p) ==
  ForShare(a) \o ForUpdate(<<SourceOf[p]>>) \o ForUpdate(InIdOrder(Above(p) \cap Topics))
              \o ForUpdate(InIdOrder(Above(p) \cap Lessons))

\* The data source serialises imports; then every lesson, then every topic, by id.
ImportLocks(a, p) ==
  ForShare(a) \o ForUpdate(<<SourceOf[p]>>) \o ForUpdate(InIdOrder(Above(p) \cap Lessons))
              \o ForUpdate(InIdOrder(Above(p) \cap Topics))

Compatible(a, lock) ==
  \A b \in Authors \ {a} : \A h \in tx[b].held :
    h.row = lock.row => h.mode = "share" /\ lock.mode = "share"

-----------------------------------------------------------------------------
(* What each operation checks once it holds its locks.                      *)

Exists(x) == item[x].status # "none"
Archived(x) == item[x].status = "archived"
Mutable(x) == Exists(x) /\ ~Archived(x)                    \* assertMutableEntity

\* assertLessonParentExists, assertParentCoherence
ParentsLive(x) == \A p \in ToSet(ParentsOf[x]) : Mutable(p)

Latest(x) == Last(revs[x])
IsLatest(x, r) == r = Len(revs[x])                         \* getRequestedLatestRevision

ReviseAllowed(x) == Mutable(x) /\ ParentsLive(x)
ReviewAllowed(x, r) == Mutable(x) /\ ParentsLive(x) /\ IsLatest(x, r)

\* assertLessonPublishReady: some published topic or story.
LessonReady(x) ==
  x \in WithStory \/ \E t \in Topics : ParentsOf[t] = <<x>> /\ item[t].status = "published"

\* assertExerciseMediaPublishReady
MediaReady(x, c) == x \in Exercises /\ MediaOf[c] # NoMedia => media[MediaOf[c]] = "ready"

\* decidePublishAction: the live item already is this revision.
AlreadyLive(x, r) ==
  /\ item[x].status = "published" /\ item[x].live = revs[x][r].content
  /\ x \in Exercises => item[x].version = r

\* Publishing a lesson does not look up, and a topic looks up only to apply.
PublishAllowed(x, r) ==
  /\ Mutable(x) /\ IsLatest(x, r) /\ Latest(x).review = "approved"
  /\ x \in Exercises => ParentsLive(x) /\ MediaReady(x, Latest(x).content)
  /\ \/ AlreadyLive(x, r)
     \/ ParentsLive(x) /\ (x \in Lessons => LessonReady(x))

\* A key that was used stands for one request of one author.
ReplayAllowed(a, k, p) ==
  jobs[k] = [by |-> {a}, payload |-> {p}] /\ \A x \in RowsOf[p] : Exists(x)

\* prepareImport: live parents, known media, and no source key imported before.
ImportAllowed(p) == \A x \in RowsOf[p] : ParentsLive(x) /\ ~Exists(x)

\* mediaLifecycleDecision
MediaAllowed(op, m) == op = "quarantine" => media[m] # "archived"
MediaSame(op, m) ==
  media[m] = "archived" \/ (op = "quarantine" /\ media[m] = "quarantined")

When(allowed, same) ==
  IF ~allowed THEN "refuse" ELSE IF same THEN "same" ELSE "apply"

\* The verdict of the transaction of author a: refuse, answer idempotently, apply.
Verdict(a) ==
  LET t == tx[a]  x == t.on IN
  CASE t.op = "create"  -> When(ParentsLive(x), FALSE)
    [] t.op = "revise"  -> When(ReviseAllowed(x), Latest(x).content = t.arg)
    [] t.op = "review"  -> When(ReviewAllowed(x, t.arg.rev), Latest(x).review = t.arg.decision)
    [] t.op = "publish" -> When(PublishAllowed(x, t.arg.rev), AlreadyLive(x, t.arg.rev))
    [] t.op = "archive" -> When(Exists(x), Archived(x))
    [] t.op \in MediaOps -> When(MediaAllowed(t.op, x), MediaSame(t.op, x))
    [] t.op = "import"  -> When(ImportAllowed(t.arg.file), FALSE)
    [] t.op = "replay"  -> When(ReplayAllowed(a, t.arg.key, t.arg.file), TRUE)

-----------------------------------------------------------------------------
(* What each operation writes.                                              *)

NewRevision(c) == [content |-> c, review |-> "none"]

Created(x, c) ==
  /\ item' = [item EXCEPT ![x] = [@ EXCEPT !.status = "draft", !.live = c, !.version = 1]]
  /\ revs' = [revs EXCEPT ![x] = <<NewRevision(c)>>]
  /\ UNCHANGED <<media, jobs>>

\* Mutant. A draft takes the new content and keeps its version.
RevisedSameVersion(x, c) ==
  /\ revs' = [revs EXCEPT ![x] = Append(@, NewRevision(c))]
  /\ item' = IF item[x].status = "draft" THEN [item EXCEPT ![x].live = c] ELSE item
  /\ UNCHANGED <<media, jobs>>

\* A draft shows its latest revision at once, a published item only when that
\* revision is published (shouldMaterializeExerciseRevision).
Revised(x, c) ==
  /\ revs' = [revs EXCEPT ![x] = Append(@, NewRevision(c))]
  /\ item' = IF item[x].status = "draft"
             THEN [item EXCEPT ![x] = [@ EXCEPT !.live = c, !.version = Len(revs'[x])]]
             ELSE item
  /\ UNCHANGED <<media, jobs>>

Reviewed(x, r, decision) ==
  /\ revs' = [revs EXCEPT ![x][r].review = decision]
  /\ UNCHANGED <<item, media, jobs>>

Published(x, r) ==
  /\ item' = [item EXCEPT ![x] =
       [@ EXCEPT !.status = "published", !.live = revs[x][r].content, !.version = r]]
  /\ UNCHANGED <<revs, media, jobs>>

ArchivedItem(x) ==
  /\ item' = [item EXCEPT ![x].status = "archived"]
  /\ UNCHANGED <<revs, media, jobs>>

MediaChanged(op, m) ==
  /\ media' = [media EXCEPT ![m] = IF op = "quarantine" THEN "quarantined" ELSE "archived"]
  /\ UNCHANGED <<item, revs, jobs>>

\* All rows of the file become drafts, with the job and one audit fact.
Imported(a, k, p) ==
  /\ jobs' = [jobs EXCEPT ![k] = [by |-> {a}, payload |-> {p}]]
  /\ item' = [x \in Items |-> IF x \in RowsOf[p]
                THEN [status |-> "draft", live |-> SeedContent, version |-> 1, job |-> k]
                ELSE item[x]]
  /\ revs' = [x \in Items |-> IF x \in RowsOf[p] THEN <<NewRevision(SeedContent)>> ELSE revs[x]]
  /\ UNCHANGED media

Writes(a) ==
  LET t == tx[a]  x == t.on IN
  \/ t.op = "create"  /\ Created(x, t.arg)
  \/ t.op = "revise"  /\ Revised(x, t.arg)
  \/ t.op = "review"  /\ Reviewed(x, t.arg.rev, t.arg.decision)
  \/ t.op = "publish" /\ Published(x, t.arg.rev)
  \/ t.op = "archive" /\ ArchivedItem(x)
  \/ t.op \in MediaOps /\ MediaChanged(t.op, x)
  \/ t.op = "import"  /\ Imported(a, t.arg.key, t.arg.file)

-----------------------------------------------------------------------------
(* The steps of a transaction.                                              *)

Start(a, op, x, arg, locks) ==
  /\ tx[a].pc = "idle" /\ ops < MaxOps
  /\ active[a]                                      \* the access token was accepted
  /\ tx' = [tx EXCEPT ![a] = [Idle EXCEPT !.pc = "locking", !.op = op, !.on = x,
                                          !.arg = arg, !.todo = locks]]
  /\ ops' = ops + 1
  /\ UNCHANGED <<data, active>>

\* A new item gets an id no other transaction has.
BeginCreate(a) ==
  \E x \in Items \ ImportRows, c \in Contents :
    /\ ~Exists(x) /\ \A b \in Authors : tx[b].on # x
    /\ Start(a, "create", x, c, CreateLocks(a, x))

BeginRevise(a) ==
  \E x \in Items, c \in Contents :
    /\ Exists(x) /\ Len(revs[x]) < MaxRevisions
    /\ \A b \in Authors : tx[b].on # x \/ tx[b].op # "revise"      \* bound
    /\ Start(a, "revise", x, c, ItemLocks(a, x))

BeginReview(a) ==
  \E x \in Items, d \in {"approved", "changes_requested"} : \E r \in DOMAIN revs[x] :
    Start(a, "review", x, [rev |-> r, decision |-> d], ItemLocks(a, x))

BeginPublish(a) ==
  \E x \in Items : \E r \in DOMAIN revs[x] :
    Start(a, "publish", x, [rev |-> r], PublishLocks(a, x, revs[x][r].content))

BeginArchive(a) ==
  \E x \in Items : Exists(x) /\ Start(a, "archive", x, NoMedia, ItemLocks(a, x))

BeginMedia(a) ==
  \E m \in Media, op \in MediaOps : Start(a, op, m, NoMedia, MediaLocks(a, m))

BeginImport(a) ==
  \E k \in Keys, p \in Payloads :
    Start(a, "import", SourceOf[p], [key |-> k, file |-> p], ImportLocks(a, p))

\* Once it has the source, an import whose key was used turns into a replay,
\* which needs no parents.
Replays(a, lock) ==
  tx[a].op = "import" /\ lock.row = tx[a].on /\ jobs[tx[a].arg.key] # NoJob

Granted(a, lock) ==
  [tx[a] EXCEPT !.held = @ \cup {lock},
                !.todo = IF Replays(a, lock) THEN <<>> ELSE Tail(@),
                !.op = IF Replays(a, lock) THEN "replay" ELSE @]

\* lockActiveCmsActor refuses an account that is no longer an active admin.
Acquire(a) ==
  LET lock == Head(tx[a].todo) IN
  /\ tx[a].pc = "locking" /\ tx[a].todo # <<>>
  /\ Compatible(a, lock)
  /\ tx' = [tx EXCEPT ![a] =
       IF lock.row = a /\ ~active[a] THEN Idle ELSE Granted(a, lock)]
  /\ UNCHANGED <<data, active, ops>>

Decide(a) ==
  /\ tx[a].pc = "locking" /\ tx[a].todo = <<>>
  /\ tx' = [tx EXCEPT ![a].pc = "decided", ![a].verdict = Verdict(a)]
  /\ UNCHANGED <<data, active, ops>>

\* Mutant. Keys are unique only within a source.
KeyTakenNever(a) == FALSE

\* The unique index on the key stops an import into another source that has
\* taken the key meanwhile.
KeyTaken(a) == tx[a].op = "import" /\ jobs[tx[a].arg.key] # NoJob

Finish(a) ==
  /\ tx[a].pc = "decided"
  /\ IF tx[a].verdict = "apply" /\ ~KeyTaken(a) THEN Writes(a) ELSE UNCHANGED data
  /\ tx' = [tx EXCEPT ![a] = Idle]
  /\ UNCHANGED <<active, ops>>

\* A timeout, a lost connection or a failing statement rolls back.
Abort(a) ==
  /\ tx[a].pc # "idle"
  /\ tx' = [tx EXCEPT ![a] = Idle]
  /\ UNCHANGED <<data, active, ops>>

\* An account stops being an active admin: an UPDATE of its row.
Deactivate(a) ==
  /\ active[a]
  /\ \A b \in Authors : \A h \in tx[b].held : h.row # a
  /\ active' = [active EXCEPT ![a] = FALSE]
  /\ UNCHANGED <<data, tx, ops>>

Begin(a) ==
  \/ BeginCreate(a) \/ BeginRevise(a) \/ BeginReview(a) \/ BeginPublish(a)
  \/ BeginArchive(a) \/ BeginMedia(a) \/ BeginImport(a)

Step(a) == Acquire(a) \/ Decide(a) \/ Finish(a)

Next == \E a \in Authors : Begin(a) \/ Step(a) \/ Abort(a) \/ Deactivate(a)

Spec == Init /\ [][Next]_vars

-----------------------------------------------------------------------------
(* Properties.                                                              *)

Statuses == {"none", "draft", "published", "archived"}

TypeOK ==
  /\ item \in [Items -> [status : Statuses, live : Contents, version : 0..MaxRevisions,
                         job : Keys \cup {NoMedia}]]
  /\ \A x \in Items : Len(revs[x]) <= MaxRevisions
  /\ media \in [Media -> {"ready", "quarantined", "archived"}]
  /\ active \in [Authors -> BOOLEAN]

GoesLive(x) == item'[x].status = "published" /\ item'[x] # item[x]

\* Only the latest revision goes live, and only while its latest review
\* approves it, whoever revises or reviews meanwhile (cms-workflow.ts:16-44).
OnlyApprovedGoesLive ==
  [][\A x \in Items : GoesLive(x) =>
       Latest(x).review = "approved" /\ item'[x].live = Latest(x).content]_vars

\* An item goes live under live parents, a lesson with something published in
\* it, a listening exercise with ready audio, although topics are archived and
\* media quarantined at the same time (exercise-publish-readiness.ts:22-52).
GoesLiveReady ==
  [][\A x \in Items : GoesLive(x) =>
       /\ ParentsLive(x)
       /\ x \in Lessons => LessonReady(x)
       /\ MediaReady(x, item'[x].live)]_vars

\* The version of an exercise names the revision learners see: their answers
\* are graded against it (exercise-authoring.service.ts:279-293, 435-446).
VersionNamesTheContent ==
  \A x \in Items : Exists(x) =>
    /\ revs[x][item[x].version].content = item[x].live
    /\ item[x].status = "draft" => item[x].version = Len(revs[x])

\* An import is all or nothing and happens once: a job has all the exercises
\* of its file, and they belong to no other (exercise-import.service.ts:107-328).
ImportsAreExact ==
  \A k \in Keys :
    {x \in Items : item[x].job = k} =
      IF jobs[k] = NoJob THEN {} ELSE UNION {RowsOf[p] : p \in jobs[k].payload}

\* Exercises and media change only by the hand of an account that is still an
\* active admin when the change commits (cms-actor-lock.ts:4-14).
OnlyActiveAuthors ==
  [][\A a \in Authors :
       (tx'[a] # tx[a] /\ (media' # media \/ \E x \in Exercises : item'[x] # item[x]))
         => active[a]]_vars

\* a waits for b: b holds a lock that a needs next.
WaitsFor(a, b) ==
  /\ a # b /\ tx[a].pc = "locking" /\ tx[a].todo # <<>>
  /\ \E h \in tx[b].held : h.row = Head(tx[a].todo).row
                            /\ ~(h.mode = "share" /\ Head(tx[a].todo).mode = "share")

\* Transactions never wait for each other in a circle, so none has to be aborted
\* to let another go on: the three services take their locks in one order
\* (account, source, lesson, topic, exercise, media).
NoDeadlock == ~\E S \in SUBSET Authors :
  S # {} /\ \A a \in S : \E b \in S : WaitsFor(a, b)
=============================================================================
