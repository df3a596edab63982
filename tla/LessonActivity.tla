---------------------------- MODULE LessonActivity ----------------------------
(***************************************************************************)
(* One learner's lesson activity: the five idempotent writes (start and     *)
(* complete a lesson, start and complete a topic, submit an exercise) sent  *)
(* from several devices and retried, while editors publish and archive the  *)
(* content they are about, media operators withdraw recordings, plans are   *)
(* regenerated and the account is closed.                                   *)
(* Source: backend/src/modules/learning/activity/lesson-activity.service.ts *)
(* with its policies; the editors from backend/src/modules/cms/.            *)
(*                                                                          *)
(* A write is one transaction: it locks the learner's User row FOR UPDATE,  *)
(* then the content it is about FOR SHARE (every editor takes the Lesson    *)
(* row FOR UPDATE first), reads the public content, and from there to its   *)
(* COMMIT touches only rows these two locks protect.  So its steps are the  *)
(* two locks and the commit.  Lessons, topics and exercises are named by    *)
(* their place in the order (orderIndex, id); the lessons are those of one  *)
(* published level.                                                         *)
(***************************************************************************)
EXTENDS Integers, Sequences, FiniteSets

CONSTANTS
  Requests,          \* HTTP requests, from all the learner's devices
  Bodies,            \* what the learner's devices may send (a bound)
  Lessons, Topics, Exercises,
  LessonOfTopic, LessonOfExercise,
  TopicOfExercise,   \* Null for a standalone exercise
  WithStory,         \* lessons that also have a published story
  Listening,         \* exercises of type listening_choice
  EditedLessons, EditedTopics, EditedExercises,  \* what editors touch (a bound)
  AgingKeys,         \* the keys whose 24 hours may pass (a bound)
  AuthorIsLearner,   \* whether exercise authors work from the learner's account
  MaxVersion         \* bound on the version of an exercise

Null == 0
Operations ==
  {"lesson.start", "topic.start", "exercise.submit", "topic.complete",
   "lesson.complete"}

\* A body: its Idempotency-Key, its operation and the id in its path.  Version
\* v of an exercise has the right answer v; the answer Null is malformed.
BodyType ==
  [key : STRING, operation : Operations, target : Nat, answer : 0 .. MaxVersion]

ASSUME ContentAssumption ==
  /\ Lessons \subseteq Nat \ {Null} /\ Topics \subseteq Nat \ {Null}
  /\ Exercises \subseteq Nat \ {Null}
  /\ IsFiniteSet(Topics) /\ IsFiniteSet(Exercises)
  /\ LessonOfTopic \in [Topics -> Lessons]
  /\ LessonOfExercise \in [Exercises -> Lessons]
  /\ TopicOfExercise \in [Exercises -> Topics \cup {Null}]
  /\ \A e \in Exercises : TopicOfExercise[e] # Null =>
       LessonOfTopic[TopicOfExercise[e]] = LessonOfExercise[e]
  /\ WithStory \subseteq Lessons /\ Listening \subseteq Exercises
  /\ EditedLessons \subseteq Lessons /\ EditedTopics \subseteq Topics
  /\ EditedExercises \subseteq Exercises
  /\ AgingKeys \subseteq STRING
  /\ AuthorIsLearner \subseteq BOOLEAN /\ MaxVersion \in Nat \ {0}

ASSUME BodiesAssumption ==
  /\ Bodies # {} /\ Bodies \subseteq BodyType
  /\ \A b \in Bodies :
       /\ b.operation \in {"lesson.start", "lesson.complete"} => b.target \in Lessons
       /\ b.operation \in {"topic.start", "topic.complete"} => b.target \in Topics
       /\ b.operation = "exercise.submit" => b.target \in Exercises
       /\ b.operation # "exercise.submit" => b.answer = Null

VARIABLES
  account,        \* User.status is active, or not
  lessonContent, topicContent, exerciseContent,  \* the status columns
  version,        \* LessonExercise.version
  recordings,     \* listening exercises whose media is ready and not deleted
  author,         \* the transaction of an exercise author
  stage, body, loaded, reply,  \* the learner's requests
  progress,       \* Progress rows
  topicProgress,  \* UserTopicProgress rows
  attempts,       \* submitted LessonExerciseAttempt rows
  events,         \* LearningEvent rows
  plan            \* items of the active LearningPlan

content == <<lessonContent, topicContent, exerciseContent, version, recordings>>
record == <<progress, topicProgress, attempts, events, plan>>
requests == <<stage, body, loaded, reply>>
vars == <<account, content, author, requests, record>>

ContentStatus == {"draft", "published", "archived"}
ProgressStatus == {"none", "learning", "done"}  \* "none": there is no row
ItemStatus == {"none", "planned", "in_progress", "completed"}
Replies ==
  {"none", "ok", "conflict", "locked", "not_found", "expired", "malformed",
   "unauthorized", "unavailable", "retry"}

NoScore == -1
NoProgress ==
  [status |-> "none", percent |-> 0, score |-> NoScore,
   topic |-> Null, exercise |-> Null]
Nothing ==
  [topics |-> {}, exercises |-> {}, version |-> Null, stored |-> {}, latest |-> 0]
Idle == [exercise |-> Null, held |-> 0, own |-> FALSE]
EventType == [body : Bodies, number : Nat, expired : BOOLEAN]
-----------------------------------------------------------------------------
(* What is public *)

LiveTopics(l) ==
  {t \in Topics : LessonOfTopic[t] = l /\ topicContent[t] = "published"}

LiveExercises(l) ==
  {e \in Exercises :
     /\ LessonOfExercise[e] = l /\ exerciseContent[e] = "published"
     /\ e \in Listening => e \in recordings
     /\ TopicOfExercise[e] # Null => topicContent[TopicOfExercise[e]] = "published"}

Ready(l) ==
  lessonContent[l] = "published" /\ (LiveTopics(l) # {} \/ l \in WithStory)

LessonOf(b) ==
  CASE b.operation \in {"lesson.start", "lesson.complete"} -> b.target
    [] b.operation \in {"topic.start", "topic.complete"} -> LessonOfTopic[b.target]
    [] OTHER -> LessonOfExercise[b.target]

Public(b) ==
  /\ Ready(LessonOf(b))
  /\ b.operation \in {"topic.start", "topic.complete"} =>
       b.target \in LiveTopics(LessonOf(b))
  /\ b.operation = "exercise.submit" => b.target \in LiveExercises(LessonOf(b))
-----------------------------------------------------------------------------
(* Row locks, as the stages of the transactions that hold them *)

\* Mutant: an exercise author locks the lesson before her own account.
LessonFirst == <<"lesson", "actor">>

\* The locks of an exercise author; author.held counts those she holds.
LockOrder == <<"actor", "lesson">>
AuthorHolds(lock) == \E i \in 1 .. author.held : LockOrder[i] = lock

\* Mutant: the User row is read without FOR UPDATE.
UserUnlocked == FALSE

UserLocked == \E r \in Requests : stage[r] \in {"locked", "content"}
UserShared == author.own /\ AuthorHolds("actor")

\* Mutant: the content is read without FOR SHARE.
LessonUnshared(l) == FALSE

\* Mutant: the lock of a rolled back transaction stays.
LessonSharedOnceMore(l) ==
  \E r \in Requests :
    /\ LessonOf(body[r]) = l
    /\ \/ stage[r] = "content"
       \/ stage[r] = "answered" /\ reply[r].result # "ok"

LessonShared(l) ==
  \E r \in Requests : stage[r] = "content" /\ LessonOf(body[r]) = l
LessonLocked(l) ==
  AuthorHolds("lesson") /\ LessonOfExercise[author.exercise] = l

\* Mutant: the editors of a topic do not lock its lesson.
LessonFreeOfAuthors(l) == ~LessonLocked(l)

LessonFree(l) == ~LessonShared(l) /\ ~LessonLocked(l)
-----------------------------------------------------------------------------
(* Progress, as lesson-activity-progress.ts computes it *)

Least(S) == CHOOSE x \in S : \A y \in S : x <= y
FirstOrNull(S) == IF S = {} THEN Null ELSE Least(S)
RoundedQuotient(n, d) == (2 * n + d) \div (2 * d)

InTopic(exercises, t) == {e \in exercises : TopicOfExercise[e] = t}
Attempted(made) == {a.exercise : a \in made}

CompletionPercent(completed, total) ==
  IF total = 0 THEN 0 ELSE RoundedQuotient(100 * completed, total)

\* The mean of the best scores: an exercise once answered rightly scores 100.
LessonScore(exercises, made) ==
  LET scored == exercises \cap Attempted(made)
      right  == {e \in scored : \E a \in made : a.exercise = e /\ a.correct}
  IN  IF scored = {} THEN NoScore
      ELSE RoundedQuotient(100 * Cardinality(right), Cardinality(scored))

\* Mutant: the pointer of an open topic is its first exercise.
NextInTopic(graph, completed, attempted) ==
  LET t == FirstOrNull(graph.topics \ completed)
  IN  [topic |-> t, exercise |-> FirstOrNull(InTopic(graph.exercises, t))]

NextActivity(graph, completed, attempted) ==
  LET open == graph.topics \ completed
      t    == FirstOrNull(open)
  IN  [topic |-> t, exercise |-> FirstOrNull(InTopic(graph.exercises, t) \ attempted)]

CompletedTopics(graph, topicRows) ==
  {t \in graph.topics : topicRows[t].status = "done"}

RecomputedLesson(l, graph, made, topicRows) ==
  LET row        == progress[l]
      standalone == InTopic(graph.exercises, Null)
      completed  == CompletedTopics(graph, topicRows)
      pointer    == NextActivity(graph, completed, Attempted(made))
      done       == row.status = "done"
  IN  [status   |-> row.status,
       percent  |-> IF done THEN 100
                    ELSE CompletionPercent(
                           Cardinality(completed)
                             + Cardinality(standalone \cap Attempted(made)),
                           Cardinality(graph.topics) + Cardinality(standalone)),
       score    |-> LessonScore(graph.exercises, made),
       topic    |-> IF done THEN Null ELSE pointer.topic,
       exercise |-> IF done THEN Null ELSE pointer.exercise]

\* Mutant: an update, where the code upserts.
UpdatedTopic(t, graph, made) ==
  LET required == InTopic(graph.exercises, t)
  IN  IF topicProgress[t].status # "learning" THEN topicProgress[t]
      ELSE [status  |-> "learning",
            percent |-> CompletionPercent(
                          Cardinality(required \cap Attempted(made)),
                          Cardinality(required))]

\* Mutant: a new attempt reopens the topic.
ReopenedTopic(t, graph, made) ==
  LET required == InTopic(graph.exercises, t)
  IN  [status  |-> "learning",
       percent |-> CompletionPercent(
                     Cardinality(required \cap Attempted(made)),
                     Cardinality(required))]

RecomputedTopic(t, graph, made) ==
  LET required == InTopic(graph.exercises, t)
  IN  IF topicProgress[t].status = "done" THEN topicProgress[t]
      ELSE [status  |-> "learning",
            percent |-> CompletionPercent(
                          Cardinality(required \cap Attempted(made)),
                          Cardinality(required))]
-----------------------------------------------------------------------------
TypeOK ==
  /\ account \in {"active", "closed"}
  /\ lessonContent \in [Lessons -> ContentStatus]
  /\ topicContent \in [Topics -> ContentStatus]
  /\ exerciseContent \in [Exercises -> ContentStatus]
  /\ version \in [Exercises -> 1 .. MaxVersion]
  /\ recordings \subseteq Listening
  /\ author \in [exercise : Exercises, held : 0 .. Len(LockOrder), own : BOOLEAN] \cup {Idle}
  /\ stage \in [Requests -> {"idle", "sent", "locked", "content", "answered"}]
  /\ body \in [Requests -> Bodies]
  /\ loaded \in [Requests ->
       [topics : SUBSET Topics, exercises : SUBSET Exercises,
        version : 0 .. MaxVersion, stored : SUBSET EventType, latest : Nat]]
  /\ reply \in [Requests -> [result : Replies, number : Nat]]
  /\ progress \in [Lessons ->
       [status : ProgressStatus, percent : 0 .. 100, score : {NoScore} \cup 0 .. 100,
        topic : Topics \cup {Null}, exercise : Exercises \cup {Null}]]
  /\ topicProgress \in [Topics -> [status : ProgressStatus, percent : 0 .. 100]]
  /\ attempts \subseteq
       [exercise : Exercises, number : Nat \ {0}, version : 1 .. MaxVersion,
        answer : 1 .. MaxVersion, correct : BOOLEAN, key : STRING]
  /\ events \subseteq EventType
  /\ plan \in [Lessons -> ItemStatus]

Init ==
  /\ account = "active"
  /\ topicContent \in [Topics -> {"draft", "published"}]
  /\ \A t \in Topics \ EditedTopics : topicContent[t] = "published"
  /\ lessonContent \in [Lessons -> {"draft", "published"}]
  /\ \A l \in Lessons : lessonContent[l] = "published" => Ready(l)
  /\ \A l \in Lessons \ EditedLessons :
       LiveTopics(l) # {} \/ l \in WithStory => lessonContent[l] = "published"
  /\ exerciseContent \in [Exercises -> {"draft", "published"}]
  /\ \A e \in Exercises \ EditedExercises : exerciseContent[e] = "published"
  /\ version = [e \in Exercises |-> 1]
  /\ recordings = Listening
  /\ author = Idle
  /\ stage = [r \in Requests |-> "idle"]
  /\ body = [r \in Requests |-> CHOOSE b \in Bodies : TRUE]
  /\ loaded = [r \in Requests |-> Nothing]
  /\ reply = [r \in Requests |-> [result |-> "none", number |-> 0]]
  /\ progress = [l \in Lessons |-> NoProgress]
  /\ topicProgress = [t \in Topics |-> [status |-> "none", percent |-> 0]]
  /\ attempts = {}
  /\ events = {}
  /\ plan = [l \in Lessons |-> "none"]
-----------------------------------------------------------------------------
(* A request up to its locks *)

Numbers(e) == {a.number : a \in {x \in attempts : x.exercise = e}}
LatestNumber(e) ==
  IF Numbers(e) = {} THEN 0
  ELSE CHOOSE n \in Numbers(e) : \A m \in Numbers(e) : m <= n

Answer(r, result, number) ==
  /\ stage' = [stage EXCEPT ![r] = "answered"]
  /\ reply' = [reply EXCEPT ![r] = [result |-> result, number |-> number]]
  /\ loaded' = [loaded EXCEPT ![r] = Nothing]
  /\ UNCHANGED <<account, content, author, body>>

\* A rollback answers and keeps nothing.
Refuse(r, result) == Answer(r, result, 0) /\ UNCHANGED record

\* A device sends a request, or sends again one whose answer it has, or lost.
Send(r, b) ==
  /\ stage[r] \in {"idle", "answered"}
  /\ stage' = [stage EXCEPT ![r] = "sent"]
  /\ body' = [body EXCEPT ![r] = b]
  /\ reply' = [reply EXCEPT ![r] = [result |-> "none", number |-> 0]]
  /\ UNCHANGED <<account, content, author, loaded, record>>

LockUser(r) ==
  /\ stage[r] = "sent" /\ ~UserLocked /\ ~UserShared
  /\ account = "active"
  /\ stage' = [stage EXCEPT ![r] = "locked"]
  /\ UNCHANGED <<account, content, author, body, loaded, reply, record>>

RefuseClosedAccount(r) ==
  /\ stage[r] = "sent" /\ account # "active"
  /\ Refuse(r, "unauthorized")

EventsOf(key) == {v \in events : v.body.key = key}

\* Mutant: the key alone identifies the request.
ReplayAny(v, b) == IF v.expired THEN "expired" ELSE "ok"

\* The stored event of the key: another request's, too old, or this one's.
ReplayResult(v, b) ==
  IF v.expired THEN "expired" ELSE IF v.body = b THEN "ok" ELSE "conflict"

Replay(r, stored) ==
  \E v \in stored :
    LET result == ReplayResult(v, body[r])
    IN  Answer(r, result, IF result = "ok" THEN v.number ELSE 0) /\ UNCHANGED record

\* A submission looks for its event before it locks any content.
ReplaySubmission(r) ==
  /\ stage[r] = "locked" /\ body[r].operation = "exercise.submit"
  /\ Replay(r, EventsOf(body[r].key))

\* The content under its locks, and what the learner has stored: its event
\* under the key and the latest attempt, rows only the User lock protects.
LockContent(r) ==
  LET b == body[r]
      l == LessonOf(b)
  IN  /\ stage[r] = "locked" /\ ~LessonLocked(l)
      /\ b.operation = "exercise.submit" => EventsOf(b.key) = {}
      /\ Public(b)
      /\ stage' = [stage EXCEPT ![r] = "content"]
      /\ loaded' = [loaded EXCEPT ![r] =
           [topics    |-> LiveTopics(l),
            exercises |-> LiveExercises(l),
            version   |-> IF b.operation = "exercise.submit"
                          THEN version[b.target] ELSE Null,
            stored    |-> EventsOf(b.key),
            latest    |-> IF b.operation = "exercise.submit"
                          THEN LatestNumber(b.target) ELSE 0]]
      /\ UNCHANGED <<account, content, author, body, reply, record>>

RefuseHiddenContent(r) ==
  /\ stage[r] = "locked" /\ ~LessonLocked(LessonOf(body[r]))
  /\ body[r].operation = "exercise.submit" => EventsOf(body[r].key) = {}
  /\ ~Public(body[r])
  /\ Refuse(r, "not_found")

\* A lock or statement timeout or a lost connection is answered 503, a deadlock
\* the database broke 409 with the advice to retry.  A transaction is in a cycle
\* only with a lock in hand: the learner's waits for a lesson with the User row
\* locked, while an editor of that lesson who works from the learner's account
\* holds the lesson and inserts a revision that refers to that User row.
Abort(r) ==
  \/ stage[r] \in {"sent", "locked", "content"} /\ Refuse(r, "unavailable")
  \/ stage[r] \in {"locked", "content"} /\ Refuse(r, "retry")
-----------------------------------------------------------------------------
(* The rest of the transaction, under both locks *)

ReplayWrite(r) == stage[r] = "content" /\ Replay(r, loaded[r].stored)

\* Mutant: the state is judged before the key is looked up.
WritingAtOnce(r, operation) ==
  stage[r] = "content" /\ body[r].operation = operation

Writing(r, operation) ==
  /\ stage[r] = "content" /\ body[r].operation = operation
  /\ loaded[r].stored = {}

\* Mutant: the event does not name the attempt.
CommitUnlinked(r, number) ==
  /\ events' = events \cup {[body |-> body[r], number |-> 0, expired |-> FALSE]}
  /\ Answer(r, "ok", number)

\* INSERT of the LearningEvent, COMMIT and the answer.
Commit(r, number) ==
  /\ events' = events \cup
       {[body |-> body[r], number |-> number, expired |-> FALSE]}
  /\ Answer(r, "ok", number)

PreviousReady(l) == {p \in Lessons : p < l /\ Ready(p)}
Unlocked(l) ==
  \/ PreviousReady(l) = {}
  \/ \E p \in PreviousReady(l) :
       (\A q \in PreviousReady(l) : q <= p) /\ progress[p].status = "done"
  \/ progress[l].status # "none"

Started(l) == progress[l].status # "none"

StartLesson(r) ==
  LET l == body[r].target
      pointer == NextActivity(loaded[r], {}, {})
  IN  /\ Writing(r, "lesson.start") /\ ~Started(l) /\ Unlocked(l)
      /\ progress' = [progress EXCEPT ![l] =
           [status |-> "learning", percent |-> 0, score |-> NoScore,
            topic |-> pointer.topic, exercise |-> pointer.exercise]]
      /\ plan' = IF plan[l] = "planned" THEN [plan EXCEPT ![l] = "in_progress"] ELSE plan
      /\ Commit(r, 0) /\ UNCHANGED <<topicProgress, attempts>>

StartTopic(r) ==
  LET t == body[r].target
      l == LessonOfTopic[t]
  IN  /\ Writing(r, "topic.start") /\ Started(l)
      /\ topicProgress[t].status = "none"
      /\ topicProgress' = [topicProgress EXCEPT ![t] =
           [status |-> "learning", percent |-> 0]]
      /\ progress' = [progress EXCEPT
           ![l].topic = t,
           ![l].exercise = FirstOrNull(InTopic(loaded[r].exercises, t))]
      /\ Commit(r, 0) /\ UNCHANGED <<attempts, plan>>

\* Mutant: attempts are numbered from zero.
ScoredFromZero(r, number) ==
  [exercise |-> body[r].target, number |-> number - 1, version |-> loaded[r].version,
   answer |-> body[r].answer, correct |-> body[r].answer = loaded[r].version,
   key |-> body[r].key]

Scored(r, number) ==
  [exercise |-> body[r].target, number |-> number, version |-> loaded[r].version,
   answer |-> body[r].answer, correct |-> body[r].answer = loaded[r].version,
   key |-> body[r].key]

SubmitAttempt(r) ==
  LET e     == body[r].target
      l     == LessonOfExercise[e]
      t     == TopicOfExercise[e]
      n     == loaded[r].latest + 1
      made  == attempts \cup {Scored(r, n)}
      graph == loaded[r]
  IN  /\ Writing(r, "exercise.submit") /\ Started(l) /\ body[r].answer # Null
      /\ attempts' = made
      /\ topicProgress' =
           IF t = Null THEN topicProgress
           ELSE [topicProgress EXCEPT ![t] = RecomputedTopic(t, graph, made)]
      /\ progress' = [progress EXCEPT ![l] =
           RecomputedLesson(l, graph, made, topicProgress')]
      /\ Commit(r, n) /\ UNCHANGED plan

CompleteTopic(r) ==
  LET t     == body[r].target
      l     == LessonOfTopic[t]
      graph == loaded[r]
  IN  /\ Writing(r, "topic.complete") /\ Started(l)
      /\ topicProgress[t].status = "learning"
      /\ InTopic(graph.exercises, t) \subseteq Attempted(attempts)
      /\ topicProgress' = [topicProgress EXCEPT ![t] =
           [status |-> "done", percent |-> 100]]
      /\ progress' = [progress EXCEPT ![l] =
           RecomputedLesson(l, graph, attempts, topicProgress')]
      /\ Commit(r, 0) /\ UNCHANGED <<attempts, plan>>

Finished(graph) ==
  /\ \A t \in graph.topics : topicProgress[t].status = "done"
  /\ InTopic(graph.exercises, Null) \subseteq Attempted(attempts)

CompleteLesson(r) ==
  LET l == body[r].target
  IN  /\ Writing(r, "lesson.complete") /\ progress[l].status = "learning"
      /\ Finished(loaded[r])
      /\ progress' = [progress EXCEPT ![l] =
           [status |-> "done", percent |-> 100,
            score |-> LessonScore(loaded[r].exercises, attempts),
            topic |-> Null, exercise |-> Null]]
      /\ plan' = IF plan[l] = "none" THEN plan ELSE [plan EXCEPT ![l] = "completed"]
      /\ Commit(r, 0) /\ UNCHANGED <<topicProgress, attempts>>

RefuseStartLesson(r) ==
  /\ Writing(r, "lesson.start")
  /\ IF Started(body[r].target) THEN Refuse(r, "conflict")
     ELSE ~Unlocked(body[r].target) /\ Refuse(r, "locked")

RefuseStartTopic(r) ==
  /\ Writing(r, "topic.start")
  /\ \/ ~Started(LessonOf(body[r]))
     \/ topicProgress[body[r].target].status # "none"
  /\ Refuse(r, "conflict")

RefuseSubmit(r) ==
  /\ Writing(r, "exercise.submit")
  /\ IF ~Started(LessonOf(body[r])) THEN Refuse(r, "conflict")
     ELSE body[r].answer = Null /\ Refuse(r, "malformed")

RefuseCompleteTopic(r) ==
  /\ Writing(r, "topic.complete")
  /\ \/ ~Started(LessonOf(body[r]))
     \/ topicProgress[body[r].target].status # "learning"
     \/ ~(InTopic(loaded[r].exercises, body[r].target) \subseteq Attempted(attempts))
  /\ Refuse(r, "conflict")

RefuseCompleteLesson(r) ==
  /\ Writing(r, "lesson.complete")
  /\ progress[body[r].target].status # "learning" \/ ~Finished(loaded[r])
  /\ Refuse(r, "conflict")

Finish(r) ==
  \/ ReplayWrite(r)
  \/ StartLesson(r) \/ RefuseStartLesson(r)
  \/ StartTopic(r) \/ RefuseStartTopic(r)
  \/ SubmitAttempt(r) \/ RefuseSubmit(r)
  \/ CompleteTopic(r) \/ RefuseCompleteTopic(r)
  \/ CompleteLesson(r) \/ RefuseCompleteLesson(r)
-----------------------------------------------------------------------------
(* Time, the account and the plan *)

\* 24 hours after it was stored a key is no longer replayed.
ExpireKey(v) ==
  /\ v.body.key \in AgingKeys /\ ~v.expired
  /\ events' = (events \ {v}) \cup {[v EXCEPT !.expired = TRUE]}
  /\ UNCHANGED <<account, content, author, requests, progress, topicProgress,
                 attempts, plan>>

\* Mutant: the status is updated without waiting for the User row.
SetAccountAtOnce(status) ==
  /\ account # status
  /\ account' = status
  /\ UNCHANGED <<content, author, requests, record>>

\* A deletion request, and the login that cancels it: both lock the User row.
SetAccount(status) ==
  /\ account # status /\ ~UserLocked /\ ~UserShared
  /\ account' = status
  /\ UNCHANGED <<content, author, requests, record>>

\* A new plan for a new goal, or for a changed list of ready lessons.
GeneratePlan ==
  /\ account = "active" /\ ~UserLocked /\ ~UserShared
  /\ \E l \in Lessons : Ready(l)
  /\ plan' = [l \in Lessons |-> IF Ready(l) THEN "planned" ELSE "none"]
  /\ UNCHANGED <<account, content, author, requests, progress, topicProgress,
                 attempts, events>>
-----------------------------------------------------------------------------
(* The editors *)

PublishLesson(l) ==
  /\ lessonContent[l] = "draft" /\ LessonFree(l)
  /\ LiveTopics(l) # {} \/ l \in WithStory
  /\ lessonContent' = [lessonContent EXCEPT ![l] = "published"]
  /\ UNCHANGED <<account, topicContent, exerciseContent, version, recordings,
                 author, requests, record>>

ArchiveLesson(l) ==
  /\ lessonContent[l] # "archived" /\ LessonFree(l)
  /\ lessonContent' = [lessonContent EXCEPT ![l] = "archived"]
  /\ UNCHANGED <<account, topicContent, exerciseContent, version, recordings,
                 author, requests, record>>

PublishTopic(t) ==
  /\ topicContent[t] = "draft" /\ LessonFree(LessonOfTopic[t])
  /\ lessonContent[LessonOfTopic[t]] # "archived"
  /\ topicContent' = [topicContent EXCEPT ![t] = "published"]
  /\ UNCHANGED <<account, lessonContent, exerciseContent, version, recordings,
                 author, requests, record>>

ArchiveTopic(t) ==
  /\ topicContent[t] # "archived" /\ LessonFree(LessonOfTopic[t])
  /\ topicContent' = [topicContent EXCEPT ![t] = "archived"]
  /\ UNCHANGED <<account, lessonContent, exerciseContent, version, recordings,
                 author, requests, record>>

BeginAuthoring(e) ==
  /\ author = Idle
  /\ \E own \in AuthorIsLearner : author' = [exercise |-> e, held |-> 0, own |-> own]
  /\ UNCHANGED <<account, content, requests, record>>

\* Her own User row FOR SHARE, then the lesson FOR UPDATE.
TakeLock ==
  /\ author # Idle /\ author.held < Len(LockOrder)
  /\ IF LockOrder[author.held + 1] = "actor"
     THEN author.own => ~UserLocked /\ account = "active"
     ELSE ~LessonShared(LessonOfExercise[author.exercise])
  /\ author' = [author EXCEPT !.held = @ + 1]
  /\ UNCHANGED <<account, content, requests, record>>

Editing == author # Idle /\ author.held = Len(LockOrder)

\* The latest approved revision goes live, as the next version of a published
\* one; that of a listening exercise names a recording that is ready.
PublishExercise ==
  LET e == author.exercise
      t == TopicOfExercise[e]
  IN  /\ Editing /\ exerciseContent[e] # "archived"
      /\ lessonContent[LessonOfExercise[e]] # "archived"
      /\ t # Null => topicContent[t] # "archived"
      /\ exerciseContent[e] = "published" => version[e] < MaxVersion
      /\ exerciseContent' = [exerciseContent EXCEPT ![e] = "published"]
      /\ version' = IF exerciseContent[e] = "published"
                    THEN [version EXCEPT ![e] = @ + 1] ELSE version
      /\ recordings' = recordings \cup ({e} \cap Listening)
      /\ author' = Idle
      /\ UNCHANGED <<account, lessonContent, topicContent, requests, record>>

ArchiveExercise ==
  /\ Editing
  /\ exerciseContent' = [exerciseContent EXCEPT ![author.exercise] = "archived"]
  /\ author' = Idle
  /\ UNCHANGED <<account, lessonContent, topicContent, version, recordings, requests,
                 record>>

RefuseAuthor ==
  /\ author # Idle /\ author.held = 0
  /\ author.own /\ account # "active"
  /\ author' = Idle
  /\ UNCHANGED <<account, content, requests, record>>

\* The author has nothing to change, or her transaction is rolled back.
AuthorGivesUp ==
  /\ author # Idle
  /\ author' = Idle
  /\ UNCHANGED <<account, content, requests, record>>

\* Quarantining or archiving the media of an exercise locks the media row only.
WithdrawRecording(e) ==
  /\ e \in recordings
  /\ recordings' = recordings \ {e}
  /\ UNCHANGED <<account, lessonContent, topicContent, exerciseContent, version,
                 author, requests, record>>
-----------------------------------------------------------------------------
RequestStep(r) ==
  \/ LockUser(r) \/ RefuseClosedAccount(r)
  \/ ReplaySubmission(r) \/ LockContent(r) \/ RefuseHiddenContent(r)
  \/ Finish(r)

AuthorStep == TakeLock \/ RefuseAuthor \/ PublishExercise \/ ArchiveExercise \/ AuthorGivesUp

EditorStep ==
  \/ \E l \in EditedLessons : PublishLesson(l) \/ ArchiveLesson(l)
  \/ \E t \in EditedTopics : PublishTopic(t) \/ ArchiveTopic(t)
  \/ \E e \in EditedExercises : BeginAuthoring(e)
  \/ \E e \in Listening : WithdrawRecording(e)
  \/ AuthorStep

Next ==
  \/ \E r \in Requests : (\E b \in Bodies : Send(r, b)) \/ RequestStep(r) \/ Abort(r)
  \/ \E v \in events : ExpireKey(v)
  \/ \E status \in {"active", "closed"} : SetAccount(status)
  \/ GeneratePlan
  \/ EditorStep

Spec == Init /\ [][Next]_vars

\* Row locks are granted in the order they were asked for, so a transaction
\* whose lock is free again and again gets it, and one with its locks goes on.
\* Nothing is assumed of Abort, nor of an author who gives up while she waits.
Fairness ==
  /\ \A r \in Requests : SF_vars(RequestStep(r))
  /\ SF_vars(TakeLock \/ RefuseAuthor)
  /\ WF_vars(Editing /\ (PublishExercise \/ ArchiveExercise \/ AuthorGivesUp))

FairSpec == Spec /\ Fairness
-----------------------------------------------------------------------------
(* Safety *)

\* The unique indexes on (userId, idempotencyKey) and on (userId, exerciseId,
\* attemptNumber) are only a backstop: under the User lock a key is stored once,
\* and the attempts at an exercise are numbered 1, 2, 3, ... without a gap.
KeysAreStoredOnce == \A v, w \in events : v.body.key = w.body.key => v = w
AttemptsAreNumbered ==
  /\ \A a, b \in attempts :
       a.exercise = b.exercise /\ a.number = b.number => a = b
  /\ \A e \in Exercises : Numbers(e) = 1 .. LatestNumber(e)

\* submitAttempt writes the attempt and its event together: every attempt has
\* the event of its key, every submission event its attempt.
AttemptsAreJournaled ==
  /\ \A a \in attempts : \E v \in events :
       /\ v.body.key = a.key /\ v.body.operation = "exercise.submit"
       /\ v.body.target = a.exercise /\ v.number = a.number
  /\ \A v \in events : v.body.operation = "exercise.submit" =>
       \E a \in attempts : a.key = v.body.key /\ a.number = v.number

\* A 201 answer tells of a stored write: of this very request, and, for a
\* submission, with the number under which its attempt is stored.
AcknowledgedIsStored ==
  \A r \in Requests : reply[r].result = "ok" =>
    \E v \in events : v.body = body[r] /\ v.number = reply[r].number

\* Between the content locks and the COMMIT no editor changes what the write
\* was read against; only a recording may be withdrawn meanwhile.
LoadedContentIsLive ==
  \A r \in Requests : stage[r] = "content" =>
    LET l == LessonOf(body[r])
    IN  /\ loaded[r].topics = LiveTopics(l)
        /\ LiveExercises(l) \subseteq loaded[r].exercises
        /\ loaded[r].exercises \ Listening \subseteq LiveExercises(l)
        /\ body[r].operation = "exercise.submit" =>
             loaded[r].version = version[body[r].target]

\* Progress.currentExerciseId never names an exercise already attempted, nor
\* currentTopicId a topic already completed, across content changes included.
PointerIsFresh ==
  \A l \in Lessons :
    /\ progress[l].exercise \notin Attempted(attempts)
    /\ progress[l].topic # Null => topicProgress[progress[l].topic].status # "done"

\* No row of a lesson is ahead of its Progress row: attempts, topics and plan
\* items in hand belong to started lessons, completed items to done ones.
RecordIsCoherent ==
  /\ \A a \in attempts : Started(LessonOfExercise[a.exercise])
  /\ \A a \in attempts : TopicOfExercise[a.exercise] # Null =>
       topicProgress[TopicOfExercise[a.exercise]].status # "none"
  /\ \A t \in Topics : topicProgress[t].status # "none" => Started(LessonOfTopic[t])
  /\ \A l \in Lessons : plan[l] = "in_progress" => Started(l)
  /\ \A l \in Lessons : plan[l] = "completed" => progress[l].status = "done"

\* completeLesson: at the moment a lesson becomes done, every topic public at
\* that moment is done and every public standalone exercise attempted.
CompletionIsEarned ==
  [][\A l \in Lessons :
       progress[l].status # "done" /\ progress'[l].status = "done" =>
         /\ \A t \in LiveTopics(l) : topicProgress[t].status = "done"
         /\ InTopic(LiveExercises(l), Null) \subseteq Attempted(attempts)]_vars

\* A retry is never told that its key or its work is already taken: the 409s that
\* say so do not answer a request whose own event is stored.  It may still be
\* told 503 or, after a broken deadlock, the 409 that asks to try again
\* (lesson-activity.service.ts:711-730).
RetryIsNotAConflict ==
  [][\A r \in Requests :
       reply[r].result = "none" /\ reply'[r].result \in {"conflict", "locked"} =>
         ~\E v \in events : v.body = body[r]]_vars

\* From the moment the account is closed nothing is written for the learner.
ClosedAccountIsFrozen ==
  [][account # "active" =>
       UNCHANGED <<progress, topicProgress, attempts, plan>>]_vars

(* What the learner is promised, whatever the editors do: see LearnerRecord *)
Record == INSTANCE LearnerRecord WITH
  Keys <- {b.key : b \in Bodies},
  lessonStatus <- [l \in Lessons |-> progress[l].status],
  topicStatus <- [t \in Topics |-> topicProgress[t].status],
  submissions <- {<<a.exercise, a.number, a.key>> : a \in attempts},
  journal <- {<<v.body.key, v.body.operation, v.body.target>> : v \in events}
RecordSpec == Record!Spec

(* Liveness *)

\* Whatever exercise authors and other devices do, every request is answered,
\* even with an author who works from the same account: she locks it before the
\* lesson, as a learner's write does.  The editors of lessons and topics, whose
\* steps are single here, lock in the other order: Abort.
RequestsAreAnswered ==
  \A r \in Requests : stage[r] = "sent" ~> stage[r] = "answered"
AuthorsFinish == author # Idle ~> author = Idle
=============================================================================
