------------------------- MODULE LessonActivityProofs -------------------------
(***************************************************************************)
(* Theorems about LessonActivity, for every course, every set of devices    *)
(* and bodies, and every choice of what the editors touch.                  *)
(***************************************************************************)
EXTENDS LessonActivity, FiniteSetTheorems, TLAPS

(***************************************************************************)
(* The inductive invariant                                                  *)
(***************************************************************************)

\* The User lock has one holder, who found the account active.
LocksOK ==
  /\ \A r, q \in Requests :
       stage[r] \in {"locked", "content"} /\ stage[q] \in {"locked", "content"} => r = q
  /\ \A r \in Requests : stage[r] \in {"locked", "content"} => account = "active"

\* A shared lesson is not locked by an author.
SharingOK ==
  \A r \in Requests : stage[r] = "content" => ~LessonLocked(LessonOf(body[r]))

\* What a write under both locks has read of the learner's rows is still so.
LoadedOK ==
  \A r \in Requests : stage[r] = "content" =>
    /\ \A v \in loaded[r].stored :
         /\ v.body.key = body[r].key
         /\ \E w \in events : w.body = v.body /\ w.number = v.number
    /\ loaded[r].stored = {} => EventsOf(body[r].key) = {}
    /\ body[r].operation = "exercise.submit" =>
         Numbers(body[r].target) = 1 .. loaded[r].latest
    /\ \A e \in loaded[r].exercises : LessonOfExercise[e] = LessonOf(body[r])

JournalOK == KeysAreStoredOnce /\ AttemptsAreJournaled

\* The attempts at an exercise are numbered 1 .. n, each number once.
NumbersOK ==
  /\ \A a, b \in attempts :
       a.exercise = b.exercise /\ a.number = b.number => a = b
  /\ \A e \in Exercises : \E n \in Nat : Numbers(e) = 1 .. n

\* The pointer of a lesson stays in the lesson.
PointerOK ==
  /\ PointerIsFresh
  /\ \A l \in Lessons :
       /\ progress[l].topic # Null => LessonOfTopic[progress[l].topic] = l
       /\ progress[l].exercise # Null => LessonOfExercise[progress[l].exercise] = l

IInv ==
  /\ TypeOK /\ LocksOK /\ SharingOK /\ LoadedContentIsLive /\ LoadedOK
  /\ JournalOK /\ NumbersOK /\ AcknowledgedIsStored
  /\ RecordIsCoherent /\ PointerOK
(***************************************************************************)
(* Arithmetic and finite sets                                               *)
(***************************************************************************)

\* Every nonempty set of positions has a first one.
LEMMA LeastExists ==
  ASSUME NEW S, S \subseteq Nat, S # {}
  PROVE  Least(S) \in S /\ \A y \in S : Least(S) <= y
<1> DEFINE Upto(x) == {y \in S : y <= x}
           T == {Upto(x) : x \in S}
<1>0. \A y \in S : y \in Nat
  OBVIOUS
<1>1. ASSUME NEW x \in S PROVE Upto(x) \in FiniteSubsetsOf(Nat)
  <2>1. x \in Nat /\ Upto(x) \subseteq 0 .. x /\ Upto(x) \subseteq Nat
    <3>1. \A y \in Upto(x) : y \in Nat /\ y \in 0 .. x
      BY <1>0
    <3> QED
      BY <1>0, <3>1
  <2>2. IsFiniteSet(0 .. x)
    BY <2>1, FS_Interval
  <2> QED
    BY <2>1, <2>2, FS_Subset DEF FiniteSubsetsOf
<1>2. T \subseteq FiniteSubsetsOf(Nat) /\ T # {}
  BY <1>1
<1>3. PICK m \in T : \A u \in T : ~(<<u, m>> \in StrictSubsetOrdering(Nat))
  <2>1. IsWellFoundedOn(StrictSubsetOrdering(Nat), FiniteSubsetsOf(Nat))
    BY FS_StrictSubsetOrderingWellFounded
  <2> HIDE DEF T
  <2> QED
    BY <1>2, <2>1, WFMin
<1>4. PICK x \in S : m = Upto(x)
  BY <1>3
<1>5. ASSUME NEW y \in S PROVE x <= y
  <2>1. SUFFICES ASSUME y < x PROVE FALSE
    BY <1>4, <1>5
  <2>2. \A z \in Upto(y) : z \in S /\ z <= x
    BY <1>0, <2>1
  <2>3. Upto(y) \subseteq Upto(x) /\ x \in Upto(x) /\ x \notin Upto(y)
    <3>1. x <= x /\ ~(x <= y)
      BY <1>0, <2>1
    <3> QED
      BY <2>2, <3>1, Zenon
  <2>4. <<Upto(y), m>> \in StrictSubsetOrdering(Nat)
    BY <2>3, <1>4 DEF StrictSubsetOrdering
  <2> QED
    BY <2>4, <1>3
<1> QED
  BY <1>5 DEF Least

LEMMA FirstOrNullIs ==
  ASSUME NEW S, S \subseteq Nat
  PROVE  FirstOrNull(S) \in S \cup {Null}
BY LeastExists DEF FirstOrNull

LEMMA PercentInRange ==
  ASSUME NEW n \in Nat, NEW d \in Nat \ {0}, n <= d
  PROVE  RoundedQuotient(100 * n, d) \in 0 .. 100
<1> DEFINE a == 2 * (100 * n) + d
           q == a \div (2 * d)
<1>1. a \in Nat /\ 2 * d \in Nat /\ 2 * d > 0 /\ a <= 201 * d
  OBVIOUS
<1>2. q \in Nat /\ (2 * d) * q <= a
  BY <1>1
<1>3. q <= 100
  <2>1. SUFFICES ASSUME q >= 101 PROVE FALSE
    BY <1>2
  <2>2. (2 * d) * q >= (2 * d) * 101
    BY <2>1, <1>1, <1>2
  <2> QED
    BY <2>2, <1>1, <1>2
<1> QED
  BY <1>2, <1>3 DEF RoundedQuotient

LEMMA LatestIs ==
  ASSUME NEW e \in Exercises, NEW n \in Nat, Numbers(e) = 1 .. n
  PROVE  LatestNumber(e) = n
<1>1. CASE n = 0
  BY <1>1 DEF LatestNumber
<1>2. CASE n # 0
  <2>1. n \in 1 .. n /\ \A k \in 1 .. n : k <= n
    BY <1>2
  <2>2. \A j \in 1 .. n : (\A k \in 1 .. n : k <= j) => j = n
    BY <2>1
  <2> QED
    BY <2>1, <2>2 DEF LatestNumber
<1> QED
  BY <1>1, <1>2

LEMMA BodyFacts ==
  ASSUME NEW b \in Bodies
  PROVE  /\ b \in BodyType /\ b.operation \in Operations /\ LessonOf(b) \in Lessons
         /\ b.operation = "exercise.submit" => b.target \in Exercises
         /\ b.operation \in {"topic.start", "topic.complete"} => b.target \in Topics
         /\ b.operation \in {"lesson.start", "lesson.complete"} => b.target \in Lessons
         /\ b.operation # "exercise.submit" => b.answer = Null
<1>1. b \in BodyType
  BY BodiesAssumption
<1>2. b.operation \in Operations
  BY <1>1 DEF BodyType
<1>3. LessonOf(b) \in Lessons
  BY <1>2, BodiesAssumption, ContentAssumption DEF LessonOf, Operations
<1> QED
  BY <1>1, <1>2, <1>3, BodiesAssumption

(***************************************************************************)
(* What a step leaves alone                                                 *)
(***************************************************************************)

LEMMA RecordFrame ==
  ASSUME IInv, UNCHANGED record
  PROVE  JournalOK' /\ NumbersOK' /\ RecordIsCoherent' /\ PointerOK'
<1>1. JournalOK'
  BY DEF IInv, record, JournalOK, KeysAreStoredOnce, AttemptsAreJournaled
<1>2. NumbersOK'
  BY DEF IInv, record, NumbersOK, Numbers
<1>3. RecordIsCoherent'
  BY DEF IInv, record, RecordIsCoherent, Started
<1>4. PointerOK'
  BY DEF IInv, record, PointerOK, PointerIsFresh, Attempted
<1> QED
  BY <1>1, <1>2, <1>3, <1>4

\* Whoever edits an unshared lesson changes nothing a write has read.
LEMMA ContentFrame ==
  ASSUME IInv, NEW l \in Lessons, ~LessonShared(l), UNCHANGED requests,
         \A t \in Topics : LessonOfTopic[t] # l => topicContent'[t] = topicContent[t],
         \A e \in Exercises : LessonOfExercise[e] # l =>
           /\ exerciseContent'[e] = exerciseContent[e] /\ version'[e] = version[e]
           /\ e \in recordings' <=> e \in recordings
  PROVE  LoadedContentIsLive'
<1>1. ASSUME NEW k \in Lessons, k # l PROVE LiveTopics(k)' = LiveTopics(k)
  <2>1. \A t \in Topics : LessonOfTopic[t] = k => topicContent'[t] = topicContent[t]
    BY <1>1
  <2> QED
    BY <2>1 DEF LiveTopics
<1>2. ASSUME NEW k \in Lessons, k # l PROVE LiveExercises(k)' = LiveExercises(k)
  <2>1. \A e \in Exercises : LessonOfExercise[e] = k =>
          /\ exerciseContent'[e] = exerciseContent[e]
          /\ e \in recordings' <=> e \in recordings
          /\ TopicOfExercise[e] # Null =>
               topicContent'[TopicOfExercise[e]] = topicContent[TopicOfExercise[e]]
    BY <1>2, ContentAssumption
  <2> QED
    BY <2>1 DEF LiveExercises
<1>3. ASSUME NEW r \in Requests, stage[r] = "content"
      PROVE  LessonOf(body[r]) \in Lessons \ {l} /\ body[r] \in Bodies
  BY <1>3, BodyFacts DEF LessonShared, IInv, TypeOK
<1>4. ASSUME NEW r \in Requests, stage[r] = "content",
             body[r].operation = "exercise.submit"
      PROVE  version'[body[r].target] = version[body[r].target]
  <2>1. LessonOf(body[r]) = LessonOfExercise[body[r].target]
    BY <1>4 DEF LessonOf
  <2> QED
    BY <1>3, <1>4, <2>1, BodyFacts
<1> QED
  BY <1>1, <1>2, <1>3, <1>4 DEF LoadedContentIsLive, IInv, requests

\* LoadedOK outlives whatever leaves the journal and the attempts alone.
LEMMA LoadedFrame ==
  ASSUME IInv, UNCHANGED <<events, attempts>>,
         \A q \in Requests : stage'[q] = "content" =>
           stage[q] = "content" /\ loaded'[q] = loaded[q] /\ body'[q] = body[q]
  PROVE  LoadedOK'
<1>1. \A k : EventsOf(k)' = EventsOf(k)
  BY DEF EventsOf
<1>2. \A e : Numbers(e)' = Numbers(e)
  BY DEF Numbers
<1>3. ASSUME NEW q \in Requests, stage'[q] = "content"
      PROVE  /\ \A v \in loaded'[q].stored :
                  /\ v.body.key = body'[q].key
                  /\ \E w \in events' : w.body = v.body /\ w.number = v.number
             /\ loaded'[q].stored = {} => EventsOf(body[q].key)' = {}
             /\ body'[q].operation = "exercise.submit" =>
                  Numbers(body[q].target)' = 1 .. loaded'[q].latest
             /\ \A e \in loaded'[q].exercises :
                  LessonOfExercise[e] = LessonOf(body[q])'
  <2>1. stage[q] = "content" /\ loaded'[q] = loaded[q] /\ body'[q] = body[q]
    BY <1>3
  <2>2. LessonOf(body[q])' = LessonOf(body[q])
    BY <2>1 DEF LessonOf
  <2> QED
    BY <1>1, <1>2, <2>1, <2>2 DEF IInv, LoadedOK, EventsOf, Numbers
<1> QED
  BY <1>3 DEF LoadedOK

\* A step of an editor disturbs at most SharingOK and LoadedContentIsLive.
LEMMA EditorFrame ==
  ASSUME IInv, TypeOK', SharingOK', LoadedContentIsLive',
         UNCHANGED <<account, requests, record>>
  PROVE  IInv'
<1>1. JournalOK' /\ NumbersOK' /\ RecordIsCoherent' /\ PointerOK'
  BY RecordFrame
<1>2. LocksOK'
  BY DEF IInv, requests, LocksOK
<1>3. LoadedOK'
  BY LoadedFrame DEF requests, record
<1>4. AcknowledgedIsStored'
  BY DEF IInv, requests, record, AcknowledgedIsStored
<1> QED
  BY <1>1, <1>2, <1>3, <1>4 DEF IInv

\* An answer gives up the locks of the request.
LEMMA AnswerFrame ==
  ASSUME IInv, NEW r \in Requests, NEW result, NEW n,
         stage[r] \in {"sent", "locked", "content"}, Answer(r, result, n)
  PROVE  LocksOK' /\ SharingOK' /\ LoadedContentIsLive'
<1>1. /\ stage'[r] = "answered"
      /\ \A q \in Requests : q # r => stage'[q] = stage[q] /\ loaded'[q] = loaded[q]
      /\ UNCHANGED <<account, content, author, body>>
  BY DEF Answer, IInv, TypeOK
<1>2. LocksOK'
  BY <1>1 DEF IInv, LocksOK
<1>3. SharingOK'
  BY <1>1 DEF IInv, SharingOK, LessonLocked, AuthorHolds
<1>4. LoadedContentIsLive'
  BY <1>1 DEF IInv, LoadedContentIsLive, LiveTopics, LiveExercises, content
<1> QED
  BY <1>2, <1>3, <1>4

LEMMA AnswerTypes ==
  ASSUME IInv, NEW r \in Requests, NEW result \in Replies, NEW n \in Nat,
         Answer(r, result, n)
  PROVE  /\ stage' \in [Requests -> {"idle", "sent", "locked", "content", "answered"}]
         /\ loaded' \in [Requests ->
              [topics : SUBSET Topics, exercises : SUBSET Exercises,
               version : 0 .. MaxVersion, stored : SUBSET EventType, latest : Nat]]
         /\ reply' \in [Requests -> [result : Replies, number : Nat]]
         /\ UNCHANGED <<account, content, author, body>>
BY ContentAssumption DEF IInv, TypeOK, Answer, Nothing, Null

LEMMA RefuseKeeps ==
  ASSUME IInv, NEW r \in Requests, NEW result \in Replies, result # "ok",
         stage[r] \in {"sent", "locked", "content"}, Refuse(r, result)
  PROVE  IInv'
<1>1. JournalOK' /\ NumbersOK' /\ RecordIsCoherent' /\ PointerOK'
  BY RecordFrame DEF Refuse
<1>2. LocksOK' /\ SharingOK' /\ LoadedContentIsLive'
  BY AnswerFrame DEF Refuse
<1>3. TypeOK'
  BY AnswerTypes DEF IInv, TypeOK, Refuse, content, record
<1>4. LoadedOK'
  BY LoadedFrame DEF IInv, TypeOK, Refuse, Answer, record
<1>5. AcknowledgedIsStored'
  BY DEF IInv, TypeOK, AcknowledgedIsStored, Refuse, Answer, record
<1> QED
  BY <1>1, <1>2, <1>3, <1>4, <1>5 DEF IInv

LEMMA ReplayKeeps ==
  ASSUME IInv, NEW r \in Requests, NEW stored \in SUBSET EventType,
         \A v \in stored : \E w \in events : w.body = v.body /\ w.number = v.number,
         stage[r] \in {"locked", "content"}, Replay(r, stored)
  PROVE  IInv'
<1> PICK v \in stored :
      LET result == ReplayResult(v, body[r])
      IN  Answer(r, result, IF result = "ok" THEN v.number ELSE 0) /\ UNCHANGED record
  BY DEF Replay
<1> DEFINE result == ReplayResult(v, body[r])
           n == IF result = "ok" THEN v.number ELSE 0
<1>0. result \in Replies /\ n \in Nat /\ Answer(r, result, n)
  BY DEF ReplayResult, Replies, EventType
<1>1. JournalOK' /\ NumbersOK' /\ RecordIsCoherent' /\ PointerOK'
  BY RecordFrame
<1>2. LocksOK' /\ SharingOK' /\ LoadedContentIsLive'
  BY <1>0, AnswerFrame
<1>3. TypeOK'
  BY <1>0, AnswerTypes DEF IInv, TypeOK, content, record
<1>4. LoadedOK'
  BY <1>0, LoadedFrame DEF IInv, TypeOK, Answer, record
<1>5. AcknowledgedIsStored'
  <2>1. reply'[r] = [result |-> result, number |-> n]
    BY <1>0 DEF Answer, IInv, TypeOK
  <2>2. result = "ok" => \E w \in events : w.body = body[r] /\ w.number = n
    BY DEF ReplayResult
  <2>3. \A q \in Requests : q # r => reply'[q] = reply[q]
    BY <1>0 DEF Answer, IInv, TypeOK
  <2>4. body' = body /\ events' = events
    BY <1>0 DEF Answer, record
  <2> QED
    BY <2>1, <2>2, <2>3, <2>4 DEF IInv, AcknowledgedIsStored
<1> QED
  BY <1>1, <1>2, <1>3, <1>4, <1>5 DEF IInv

(***************************************************************************)
(* What the operators of lesson-activity-progress.ts compute                *)
(***************************************************************************)

GraphType ==
  [topics : SUBSET Topics, exercises : SUBSET Exercises,
   version : 0 .. MaxVersion, stored : SUBSET EventType, latest : Nat]

LEMMA CompletionPercentInRange ==
  ASSUME NEW c \in Nat, NEW d \in Nat, c <= d
  PROVE  CompletionPercent(c, d) \in 0 .. 100
BY PercentInRange DEF CompletionPercent

LEMMA PartCounts ==
  ASSUME NEW S, IsFiniteSet(S), NEW T, T \subseteq S
  PROVE  /\ Cardinality(S) \in Nat /\ Cardinality(T) \in Nat
         /\ Cardinality(T) <= Cardinality(S)
         /\ T # {} => Cardinality(T) # 0
BY FS_Subset, FS_CardinalityType, FS_EmptySet

LEMMA PointerIs ==
  ASSUME NEW graph \in GraphType, NEW completed, NEW attempted
  PROVE  LET p == NextActivity(graph, completed, attempted)
         IN  /\ p.topic \in (graph.topics \ completed) \cup {Null}
             /\ p.exercise \in (graph.exercises \ attempted) \cup {Null}
             /\ p.topic \in Topics \cup {Null} /\ p.exercise \in Exercises \cup {Null}
<1> DEFINE t == FirstOrNull(graph.topics \ completed)
           E == InTopic(graph.exercises, t) \ attempted
<1>1. graph.topics \ completed \subseteq Nat /\ graph.topics \subseteq Topics
  BY ContentAssumption DEF GraphType
<1>2. E \subseteq Nat /\ E \subseteq graph.exercises \ attempted
      /\ graph.exercises \subseteq Exercises
  BY ContentAssumption DEF GraphType, InTopic
<1>3. t \in (graph.topics \ completed) \cup {Null}
  BY <1>1, FirstOrNullIs
<1>4. FirstOrNull(E) \in E \cup {Null}
  BY <1>2, FirstOrNullIs
<1>5. NextActivity(graph, completed, attempted) = [topic |-> t, exercise |-> FirstOrNull(E)]
  BY DEF NextActivity
<1>6. /\ NextActivity(graph, completed, attempted).topic = t
      /\ NextActivity(graph, completed, attempted).exercise = FirstOrNull(E)
  <2> HIDE DEF t, E
  <2> QED
    BY <1>5
<1>7. t \in Topics \cup {Null} /\ FirstOrNull(E) \in Exercises \cup {Null}
      /\ FirstOrNull(E) \in (graph.exercises \ attempted) \cup {Null}
  BY <1>1, <1>2, <1>3, <1>4
<1> HIDE DEF t, E
<1> QED
  BY <1>3, <1>6, <1>7

LEMMA ScoreType ==
  ASSUME NEW exercises \in SUBSET Exercises, NEW made
  PROVE  LessonScore(exercises, made) \in {NoScore} \cup 0 .. 100
<1> DEFINE scored == exercises \cap Attempted(made)
           right  == {e \in scored : \E a \in made : a.exercise = e /\ a.correct}
<1>1. IsFiniteSet(scored) /\ right \subseteq scored
  BY FS_Subset, ContentAssumption
<1>2. /\ Cardinality(scored) \in Nat /\ Cardinality(right) \in Nat
      /\ Cardinality(right) <= Cardinality(scored)
      /\ scored # {} => Cardinality(scored) # 0
  BY <1>1, PartCounts
<1>3. scored # {} =>
        RoundedQuotient(100 * Cardinality(right), Cardinality(scored)) \in 0 .. 100
  BY <1>2, PercentInRange
<1>4. LessonScore(exercises, made) =
        IF scored = {} THEN NoScore
        ELSE RoundedQuotient(100 * Cardinality(right), Cardinality(scored))
  BY DEF LessonScore
<1> HIDE DEF scored, right
<1> QED
  BY <1>3, <1>4

LEMMA TopicPercentType ==
  ASSUME NEW exercises \in SUBSET Exercises, NEW t, NEW attempted
  PROVE  CompletionPercent(Cardinality(InTopic(exercises, t) \cap attempted),
                           Cardinality(InTopic(exercises, t))) \in 0 .. 100
<1> DEFINE required == InTopic(exercises, t)
<1>1. IsFiniteSet(required) /\ required \cap attempted \subseteq required
  BY FS_Subset, ContentAssumption DEF InTopic
<1> HIDE DEF required
<1>2. CompletionPercent(Cardinality(required \cap attempted), Cardinality(required))
        \in 0 .. 100
  BY <1>1, PartCounts, CompletionPercentInRange
<1> QED
  BY <1>2 DEF required

LEMMA RecomputedTopicIs ==
  ASSUME IInv, NEW graph \in GraphType, NEW made, NEW t \in Topics
  PROVE  LET row == RecomputedTopic(t, graph, made)
         IN  /\ row \in [status : ProgressStatus, percent : 0 .. 100]
             /\ row.status = IF topicProgress[t].status = "done" THEN "done" ELSE "learning"
<1>1. topicProgress[t] \in [status : ProgressStatus, percent : 0 .. 100]
  BY DEF IInv, TypeOK
<1>2. graph.exercises \in SUBSET Exercises
  BY DEF GraphType
<1>3. CompletionPercent(Cardinality(InTopic(graph.exercises, t) \cap Attempted(made)),
                        Cardinality(InTopic(graph.exercises, t))) \in 0 .. 100
  BY <1>2, TopicPercentType
<1> QED
  BY <1>1, <1>3 DEF RecomputedTopic, ProgressStatus

RowType ==
  [status : ProgressStatus, percent : 0 .. 100, score : {NoScore} \cup 0 .. 100,
   topic : Topics \cup {Null}, exercise : Exercises \cup {Null}]

LEMMA RecomputedLessonIs ==
  ASSUME IInv, NEW l \in Lessons, NEW graph \in GraphType, NEW made, NEW rows
  PROVE  LET row == RecomputedLesson(l, graph, made, rows)
         IN  /\ row \in RowType
             /\ row.status = progress[l].status
             /\ row.topic # Null => row.topic \in graph.topics \ CompletedTopics(graph, rows)
             /\ row.exercise # Null => row.exercise \in graph.exercises \ Attempted(made)
<1> DEFINE standalone == InTopic(graph.exercises, Null)
           completed  == CompletedTopics(graph, rows)
           pointer    == NextActivity(graph, completed, Attempted(made))
           done       == progress[l].status = "done"
           c == Cardinality(completed) + Cardinality(standalone \cap Attempted(made))
           d == Cardinality(graph.topics) + Cardinality(standalone)
           row == [status |-> progress[l].status,
                   percent |-> IF done THEN 100 ELSE CompletionPercent(c, d),
                   score |-> LessonScore(graph.exercises, made),
                   topic |-> IF done THEN Null ELSE pointer.topic,
                   exercise |-> IF done THEN Null ELSE pointer.exercise]
<1>1. RecomputedLesson(l, graph, made, rows) = row
  BY DEF RecomputedLesson
<1>2. graph.topics \subseteq Topics /\ graph.exercises \subseteq Exercises
  BY DEF GraphType
<1>3. CompletionPercent(c, d) \in 0 .. 100
  <2>1. IsFiniteSet(graph.topics) /\ IsFiniteSet(standalone)
        /\ completed \subseteq graph.topics
    BY <1>2, FS_Subset, ContentAssumption DEF InTopic, CompletedTopics
  <2>2. /\ Cardinality(graph.topics) \in Nat /\ Cardinality(completed) \in Nat
        /\ Cardinality(completed) <= Cardinality(graph.topics)
    BY <2>1, PartCounts
  <2>3. /\ Cardinality(standalone) \in Nat
        /\ Cardinality(standalone \cap Attempted(made)) \in Nat
        /\ Cardinality(standalone \cap Attempted(made)) <= Cardinality(standalone)
    <3> HIDE DEF standalone
    <3> QED
      BY <2>1, PartCounts
  <2>4. c \in Nat /\ d \in Nat /\ c <= d
    <3> HIDE DEF standalone, completed
    <3> QED
      BY <2>2, <2>3
  <2> HIDE DEF c, d
  <2> QED
    BY <2>4, CompletionPercentInRange
<1>4. LessonScore(graph.exercises, made) \in {NoScore} \cup 0 .. 100
  BY <1>2, ScoreType
<1>5. /\ pointer.topic \in (graph.topics \ completed) \cup {Null}
      /\ pointer.exercise \in (graph.exercises \ Attempted(made)) \cup {Null}
  BY PointerIs
<1>6. progress[l].status \in ProgressStatus
  BY DEF IInv, TypeOK
<1>7. row \in RowType
  <2>1. (IF done THEN 100 ELSE CompletionPercent(c, d)) \in 0 .. 100
    BY <1>3
  <2>2. (IF done THEN Null ELSE pointer.topic) \in Topics \cup {Null}
    BY <1>2, <1>5
  <2>3. (IF done THEN Null ELSE pointer.exercise) \in Exercises \cup {Null}
    BY <1>2, <1>5
  <2> HIDE DEF c, d, pointer, completed, standalone, done
  <2> QED
    BY <1>4, <1>6, <2>1, <2>2, <2>3 DEF RowType
<1> HIDE DEF c, d, pointer, completed, standalone
<1> QED
  BY <1>1, <1>5, <1>7 DEF completed

(***************************************************************************)
(* The commits                                                              *)
(***************************************************************************)

\* A commit stores the first event of its key and gives up the locks.
LEMMA Committed ==
  ASSUME IInv, NEW r \in Requests, NEW n \in Nat,
         stage[r] = "content", loaded[r].stored = {}, Commit(r, n)
  PROVE  /\ LocksOK' /\ SharingOK' /\ LoadedContentIsLive' /\ LoadedOK'
         /\ KeysAreStoredOnce' /\ AcknowledgedIsStored'
         /\ events' \subseteq EventType /\ body[r] \in Bodies
<1> DEFINE new == [body |-> body[r], number |-> n, expired |-> FALSE]
<1>1. events' = events \cup {new} /\ Answer(r, "ok", n)
  BY DEF Commit
<1>2. LocksOK' /\ SharingOK' /\ LoadedContentIsLive'
  BY <1>1, AnswerFrame
<1>3. LoadedOK'
  <2>1. \A q \in Requests : stage'[q] # "content"
    BY <1>1 DEF Answer, IInv, TypeOK, LocksOK
  <2> QED
    BY <2>1 DEF LoadedOK
<1>4. body[r] \in Bodies /\ new \in EventType
  BY DEF IInv, TypeOK, EventType
<1>5. KeysAreStoredOnce'
  <2>1. \A v \in events : v.body.key # body[r].key
    BY DEF IInv, LoadedOK, EventsOf
  <2>2. new.body.key = body[r].key
    OBVIOUS
  <2> QED
    BY <1>1, <2>1, <2>2, Zenon DEF IInv, JournalOK, KeysAreStoredOnce
<1>6. AcknowledgedIsStored'
  <2>1. /\ reply'[r] = [result |-> "ok", number |-> n] /\ body' = body
        /\ \A q \in Requests : q # r => reply'[q] = reply[q]
    BY <1>1 DEF Answer, IInv, TypeOK
  <2>2. new \in events' /\ new.body = body'[r] /\ new.number = reply'[r].number
    BY <1>1, <2>1
  <2> HIDE DEF new
  <2>3. ASSUME NEW q \in Requests, q # r, reply'[q].result = "ok"
        PROVE  \E v \in events' : v.body = body'[q] /\ v.number = reply'[q].number
    BY <1>1, <2>1, <2>3 DEF IInv, AcknowledgedIsStored
  <2> QED
    BY <2>2, <2>3 DEF AcknowledgedIsStored
<1> QED
  BY <1>1, <1>2, <1>3, <1>4, <1>5, <1>6 DEF IInv, TypeOK

\* The types, for a commit that writes rows of the right types.
LEMMA CommitTypes ==
  ASSUME IInv, NEW r \in Requests, NEW n \in Nat,
         stage[r] = "content", loaded[r].stored = {}, Commit(r, n),
         progress' \in [Lessons -> RowType],
         topicProgress' \in [Topics -> [status : ProgressStatus, percent : 0 .. 100]],
         attempts' \subseteq
           [exercise : Exercises, number : Nat \ {0}, version : 1 .. MaxVersion,
            answer : 1 .. MaxVersion, correct : BOOLEAN, key : STRING],
         plan' \in [Lessons -> ItemStatus]
  PROVE  TypeOK'
<1>1. events' \subseteq EventType
  BY Committed
<1>2. /\ stage' \in [Requests -> {"idle", "sent", "locked", "content", "answered"}]
      /\ loaded' \in [Requests ->
           [topics : SUBSET Topics, exercises : SUBSET Exercises,
            version : 0 .. MaxVersion, stored : SUBSET EventType, latest : Nat]]
      /\ reply' \in [Requests -> [result : Replies, number : Nat]]
      /\ UNCHANGED <<account, content, author, body>>
  BY AnswerTypes DEF Commit, Replies
<1> QED
  BY <1>1, <1>2 DEF IInv, TypeOK, content, RowType

\* A write that stores no attempt leaves the journal in step with the attempts.
LEMMA PlainCommit ==
  ASSUME IInv, NEW r \in Requests,
         stage[r] = "content", loaded[r].stored = {}, Commit(r, 0),
         body[r].operation # "exercise.submit", UNCHANGED attempts
  PROVE  JournalOK' /\ NumbersOK'
<1>1. KeysAreStoredOnce'
  BY Committed
<1>2. AttemptsAreJournaled'
  BY DEF Commit, IInv, JournalOK, AttemptsAreJournaled
<1>3. NumbersOK'
  BY DEF IInv, NumbersOK, Numbers
<1> QED
  BY <1>1, <1>2, <1>3 DEF JournalOK

\* What a write reads under its locks: a piece of its own lesson.
LEMMA GraphIs ==
  ASSUME IInv, NEW r \in Requests, stage[r] = "content"
  PROVE  LET l == LessonOf(body[r])
         IN  /\ body[r] \in Bodies /\ l \in Lessons /\ loaded[r] \in GraphType
             /\ \A t \in loaded[r].topics : t \in Topics /\ LessonOfTopic[t] = l
             /\ \A e \in loaded[r].exercises : e \in Exercises /\ LessonOfExercise[e] = l
<1>1. body[r] \in Bodies /\ loaded[r] \in GraphType
  BY DEF IInv, TypeOK, GraphType
<1>2. loaded[r].topics = LiveTopics(LessonOf(body[r]))
  BY DEF IInv, LoadedContentIsLive
<1>3. \A e \in loaded[r].exercises : LessonOfExercise[e] = LessonOf(body[r])
  BY DEF IInv, LoadedOK
<1> QED
  BY <1>1, <1>2, <1>3, BodyFacts DEF LiveTopics, GraphType

LEMMA NullIsNoContent ==
  ASSUME IInv
  PROVE  /\ Null \notin Exercises /\ Null \notin Topics
         /\ \A a \in attempts : a.exercise \in Exercises /\ a.number \in Nat \ {0}
BY ContentAssumption DEF IInv, TypeOK

LEMMA StartLessonKeeps ==
  ASSUME IInv, NEW r \in Requests, StartLesson(r)
  PROVE  IInv'
<1> DEFINE l == body[r].target
           pointer == NextActivity(loaded[r], {}, {})
           row == [status |-> "learning", percent |-> 0, score |-> NoScore,
                   topic |-> pointer.topic, exercise |-> pointer.exercise]
<1>1. /\ stage[r] = "content" /\ loaded[r].stored = {} /\ Commit(r, 0)
      /\ body[r].operation = "lesson.start" /\ ~Started(l)
      /\ progress' = [progress EXCEPT ![l] = row]
      /\ plan' = IF plan[l] = "planned" THEN [plan EXCEPT ![l] = "in_progress"] ELSE plan
      /\ UNCHANGED <<topicProgress, attempts>>
  BY DEF StartLesson, Writing
<1>2. /\ l = LessonOf(body[r]) /\ l \in Lessons /\ loaded[r] \in GraphType
      /\ \A t \in loaded[r].topics : t \in Topics /\ LessonOfTopic[t] = l
      /\ \A e \in loaded[r].exercises : e \in Exercises /\ LessonOfExercise[e] = l
  <2>1. l = LessonOf(body[r])
    BY <1>1 DEF LessonOf
  <2> QED
    BY <1>1, <2>1, GraphIs
<1>3. /\ pointer.topic \in loaded[r].topics \cup {Null}
      /\ pointer.exercise \in loaded[r].exercises \cup {Null}
      /\ pointer.topic \in Topics \cup {Null} /\ pointer.exercise \in Exercises \cup {Null}
  BY <1>2, PointerIs
<1> HIDE DEF pointer
<1>4. row \in RowType
  BY <1>3 DEF RowType, ProgressStatus
<1>5. progress'[l] = row /\ \A k \in Lessons : k # l => progress'[k] = progress[k]
  BY <1>1, <1>2 DEF IInv, TypeOK
<1>6. TypeOK'
  <2>1. progress' \in [Lessons -> RowType]
    BY <1>1, <1>4 DEF IInv, TypeOK, RowType
  <2>2. plan' \in [Lessons -> ItemStatus]
    BY <1>1 DEF IInv, TypeOK, ItemStatus
  <2> QED
    BY <1>1, <2>1, <2>2, CommitTypes DEF IInv, TypeOK
<1>7. JournalOK' /\ NumbersOK'
  BY <1>1, PlainCommit
<1>8. \A k \in Lessons : Started(k)' <=> k = l \/ Started(k)
  BY <1>5 DEF Started
<1>9. RecordIsCoherent'
  <2>1. \A a \in attempts : Started(LessonOfExercise[a.exercise])'
    BY <1>8, ContentAssumption DEF IInv, TypeOK, RecordIsCoherent
  <2>2. \A t \in Topics : topicProgress[t].status # "none" => Started(LessonOfTopic[t])'
    BY <1>8, ContentAssumption DEF IInv, RecordIsCoherent
  <2>3. \A k \in Lessons : plan'[k] = "in_progress" => Started(k)'
    BY <1>1, <1>8 DEF IInv, TypeOK, RecordIsCoherent
  <2>4. \A k \in Lessons : plan'[k] = "completed" => progress'[k].status = "done"
    BY <1>1, <1>5 DEF IInv, TypeOK, RecordIsCoherent, Started
  <2> QED
    BY <1>1, <2>1, <2>2, <2>3, <2>4 DEF IInv, RecordIsCoherent
<1>10. PointerOK'
  <2>1. /\ pointer.exercise \notin Attempted(attempts)
        /\ pointer.topic # Null => topicProgress[pointer.topic].status # "done"
    <3>1. \A a \in attempts : a.exercise # pointer.exercise
      BY <1>1, <1>2, <1>3, NullIsNoContent DEF IInv, RecordIsCoherent
    <3>2. \A t \in Topics : LessonOfTopic[t] = l => topicProgress[t].status = "none"
      BY <1>1 DEF IInv, RecordIsCoherent
    <3> QED
      BY <1>2, <1>3, <3>1, <3>2 DEF Attempted
  <2>2. /\ pointer.topic # Null => LessonOfTopic[pointer.topic] = l
        /\ pointer.exercise # Null => LessonOfExercise[pointer.exercise] = l
    BY <1>2, <1>3
  <2>3. Attempted(attempts)' = Attempted(attempts)
    BY <1>1 DEF Attempted
  <2> QED
    BY <1>1, <1>5, <2>1, <2>2, <2>3 DEF IInv, PointerOK, PointerIsFresh
<1>11. LocksOK' /\ SharingOK' /\ LoadedContentIsLive' /\ LoadedOK' /\ AcknowledgedIsStored'
  BY <1>1, Committed
<1> QED
  BY <1>6, <1>7, <1>9, <1>10, <1>11 DEF IInv

LEMMA PointersAre ==
  ASSUME IInv, NEW k \in Lessons
  PROVE  /\ progress[k] \in RowType
         /\ progress[k].topic # Null =>
              /\ progress[k].topic \in Topics /\ LessonOfTopic[progress[k].topic] = k
              /\ topicProgress[progress[k].topic].status # "done"
         /\ progress[k].exercise # Null => LessonOfExercise[progress[k].exercise] = k
         /\ progress[k].exercise \notin Attempted(attempts)
<1>1. progress[k] \in RowType
  BY DEF IInv, TypeOK, RowType
<1> QED
  BY <1>1 DEF IInv, PointerOK, PointerIsFresh, RowType

LEMMA StartTopicKeeps ==
  ASSUME IInv, NEW r \in Requests, StartTopic(r)
  PROVE  IInv'
<1> DEFINE t == body[r].target
           l == LessonOfTopic[t]
           first == FirstOrNull(InTopic(loaded[r].exercises, t))
<1>1. /\ stage[r] = "content" /\ loaded[r].stored = {} /\ Commit(r, 0)
      /\ body[r].operation = "topic.start" /\ Started(l)
      /\ topicProgress[t].status = "none"
      /\ topicProgress' = [topicProgress EXCEPT ![t] = [status |-> "learning", percent |-> 0]]
      /\ progress' = [progress EXCEPT ![l].topic = t, ![l].exercise = first]
      /\ UNCHANGED <<attempts, plan>>
  BY DEF StartTopic, Writing
<1>2. /\ l = LessonOf(body[r]) /\ l \in Lessons /\ loaded[r] \in GraphType
      /\ t \in Topics
      /\ \A e \in loaded[r].exercises : e \in Exercises /\ LessonOfExercise[e] = l
  <2>1. l = LessonOf(body[r])
    BY <1>1 DEF LessonOf
  <2> QED
    BY <1>1, <2>1, GraphIs, BodyFacts
<1>3. first \in InTopic(loaded[r].exercises, t) \cup {Null}
  BY <1>2, ContentAssumption, FirstOrNullIs DEF InTopic
<1>4. /\ first # Null => /\ LessonOfExercise[first] = l /\ TopicOfExercise[first] = t
                         /\ first \in Exercises
      /\ first \notin Attempted(attempts)
  <2>1. first # Null => /\ LessonOfExercise[first] = l /\ TopicOfExercise[first] = t
                        /\ first \in Exercises
    BY <1>2, <1>3 DEF InTopic
  <2>2. \A a \in attempts : TopicOfExercise[a.exercise] # t
    BY <1>1, <1>2, NullIsNoContent DEF IInv, RecordIsCoherent
  <2> QED
    BY <2>1, <2>2, NullIsNoContent DEF Attempted
<1> HIDE DEF first
<1>5. /\ progress[l] \in RowType
      /\ progress'[l] = [progress[l] EXCEPT !.topic = t, !.exercise = first]
      /\ \A k \in Lessons : k # l => progress'[k] = progress[k]
      /\ topicProgress'[t] = [status |-> "learning", percent |-> 0]
      /\ \A u \in Topics : u # t => topicProgress'[u] = topicProgress[u]
  BY <1>1, <1>2 DEF IInv, TypeOK, RowType
<1>6. /\ progress'[l].status = progress[l].status /\ progress'[l].topic = t
      /\ progress'[l].exercise = first /\ progress'[l] \in RowType
  BY <1>2, <1>4, <1>5 DEF RowType
<1>7. TypeOK'
  <2>1. progress' \in [Lessons -> RowType]
    BY <1>1, <1>5, <1>6 DEF IInv, TypeOK, RowType
  <2>2. topicProgress' \in [Topics -> [status : ProgressStatus, percent : 0 .. 100]]
    <3>1. [status |-> "learning", percent |-> 0] \in [status : ProgressStatus, percent : 0 .. 100]
      BY DEF ProgressStatus
    <3>2. topicProgress \in [Topics -> [status : ProgressStatus, percent : 0 .. 100]]
      BY DEF IInv, TypeOK
    <3>3. ASSUME NEW row \in [status : ProgressStatus, percent : 0 .. 100]
          PROVE  [topicProgress EXCEPT ![t] = row] \in
                   [Topics -> [status : ProgressStatus, percent : 0 .. 100]]
      BY <3>2
    <3> QED
      BY <1>1, <3>1, <3>3
  <2> QED
    BY <1>1, <2>1, <2>2, CommitTypes DEF IInv, TypeOK
<1>8. JournalOK' /\ NumbersOK'
  BY <1>1, PlainCommit
<1>9. RecordIsCoherent'
  <2>1. \A k \in Lessons : progress'[k].status = progress[k].status
    BY <1>5, <1>6
  <2>2. \A u \in Topics : topicProgress[u].status # "none" => topicProgress'[u].status # "none"
    BY <1>5
  <2>3. \A k \in Lessons : Started(k)' <=> Started(k)
    BY <2>1 DEF Started
  <2>4. \A a \in attempts : a.exercise \in Exercises
    BY NullIsNoContent
  <2>5. \A a \in attempts : TopicOfExercise[a.exercise] # Null =>
          topicProgress'[TopicOfExercise[a.exercise]].status # "none"
    BY <2>2, <2>4, ContentAssumption DEF IInv, RecordIsCoherent
  <2>6. \A u \in Topics : topicProgress'[u].status # "none" => Started(LessonOfTopic[u])'
    BY <1>1, <1>2, <1>5, <2>3, ContentAssumption DEF IInv, RecordIsCoherent
  <2>7. \A a \in attempts : Started(LessonOfExercise[a.exercise])'
    BY <2>3, <2>4, ContentAssumption DEF IInv, RecordIsCoherent
  <2> QED
    BY <1>1, <2>1, <2>3, <2>5, <2>6, <2>7 DEF IInv, RecordIsCoherent
<1>10. PointerOK'
  <2>1. Attempted(attempts)' = Attempted(attempts)
    BY <1>1 DEF Attempted
  <2>2. ASSUME NEW k \in Lessons, k # l, progress'[k].topic # Null
        PROVE  topicProgress'[progress'[k].topic].status # "done"
    <3>1. progress'[k] = progress[k] /\ progress[k].topic \in Topics \ {t}
      BY <1>5, <2>2, PointersAre
    <3> QED
      BY <1>5, <3>1, <2>2, PointersAre
  <2>3. topicProgress'[t].status # "done"
    BY <1>5
  <2> QED
    <3>1. ASSUME NEW k \in Lessons
          PROVE  /\ progress'[k].exercise \notin Attempted(attempts)
                 /\ progress'[k].topic # Null =>
                      /\ topicProgress'[progress'[k].topic].status # "done"
                      /\ LessonOfTopic[progress'[k].topic] = k
                 /\ progress'[k].exercise # Null => LessonOfExercise[progress'[k].exercise] = k
      <4>1. CASE k = l
        BY <1>4, <1>6, <2>3, <4>1
      <4>2. CASE k # l
        BY <1>5, <2>2, <4>2, PointersAre
      <4> QED
        BY <4>1, <4>2
    <3> QED
      BY <2>1, <3>1 DEF PointerOK, PointerIsFresh
<1>11. LocksOK' /\ SharingOK' /\ LoadedContentIsLive' /\ LoadedOK' /\ AcknowledgedIsStored'
  BY <1>1, Committed
<1> QED
  BY <1>7, <1>8, <1>9, <1>10, <1>11 DEF IInv

LEMMA CompleteTopicKeeps ==
  ASSUME IInv, NEW r \in Requests, CompleteTopic(r)
  PROVE  IInv'
<1> DEFINE t == body[r].target
           l == LessonOfTopic[t]
           row == RecomputedLesson(l, loaded[r], attempts, topicProgress')
<1>1. /\ stage[r] = "content" /\ loaded[r].stored = {} /\ Commit(r, 0)
      /\ body[r].operation = "topic.complete" /\ Started(l)
      /\ topicProgress[t].status = "learning"
      /\ topicProgress' = [topicProgress EXCEPT ![t] = [status |-> "done", percent |-> 100]]
      /\ progress' = [progress EXCEPT ![l] = row]
      /\ UNCHANGED <<attempts, plan>>
  BY DEF CompleteTopic, Writing
<1>2. /\ l = LessonOf(body[r]) /\ l \in Lessons /\ loaded[r] \in GraphType
      /\ t \in Topics
      /\ \A u \in loaded[r].topics : u \in Topics /\ LessonOfTopic[u] = l
      /\ \A e \in loaded[r].exercises : e \in Exercises /\ LessonOfExercise[e] = l
  <2>1. l = LessonOf(body[r])
    BY <1>1 DEF LessonOf
  <2> QED
    BY <1>1, <2>1, GraphIs, BodyFacts
<1>3. /\ row \in RowType /\ row.status = progress[l].status
      /\ row.topic # Null =>
           row.topic \in loaded[r].topics \ CompletedTopics(loaded[r], topicProgress')
      /\ row.exercise # Null => row.exercise \in loaded[r].exercises \ Attempted(attempts)
  BY <1>2, RecomputedLessonIs
<1> HIDE DEF row
<1>5. /\ progress'[l] = row
      /\ \A k \in Lessons : k # l => progress'[k] = progress[k]
      /\ topicProgress'[t] = [status |-> "done", percent |-> 100]
      /\ \A u \in Topics : u # t => topicProgress'[u] = topicProgress[u]
  BY <1>1, <1>2 DEF IInv, TypeOK
<1>7. TypeOK'
  <2>1. progress' \in [Lessons -> RowType]
    BY <1>1, <1>3 DEF IInv, TypeOK, RowType
  <2>2. topicProgress' \in [Topics -> [status : ProgressStatus, percent : 0 .. 100]]
    <3>1. [status |-> "done", percent |-> 100] \in [status : ProgressStatus, percent : 0 .. 100]
      BY DEF ProgressStatus
    <3>2. topicProgress \in [Topics -> [status : ProgressStatus, percent : 0 .. 100]]
      BY DEF IInv, TypeOK
    <3>3. ASSUME NEW done \in [status : ProgressStatus, percent : 0 .. 100]
          PROVE  [topicProgress EXCEPT ![t] = done] \in
                   [Topics -> [status : ProgressStatus, percent : 0 .. 100]]
      BY <3>2
    <3> QED
      BY <1>1, <3>1, <3>3
  <2> QED
    BY <1>1, <2>1, <2>2, CommitTypes DEF IInv, TypeOK
<1>8. JournalOK' /\ NumbersOK'
  BY <1>1, PlainCommit
<1>9. RecordIsCoherent'
  <2>1. \A k \in Lessons : progress'[k].status = progress[k].status
    BY <1>3, <1>5
  <2>2. \A u \in Topics : topicProgress'[u].status # "none" <=> topicProgress[u].status # "none"
    BY <1>1, <1>5
  <2>3. \A k \in Lessons : Started(k)' <=> Started(k)
    BY <2>1 DEF Started
  <2>4. \A a \in attempts : a.exercise \in Exercises
    BY NullIsNoContent
  <2>5. \A a \in attempts : TopicOfExercise[a.exercise] # Null =>
          topicProgress'[TopicOfExercise[a.exercise]].status # "none"
    BY <2>2, <2>4, ContentAssumption DEF IInv, RecordIsCoherent
  <2>6. \A u \in Topics : topicProgress'[u].status # "none" => Started(LessonOfTopic[u])'
    BY <2>2, <2>3, ContentAssumption DEF IInv, RecordIsCoherent
  <2>7. \A a \in attempts : Started(LessonOfExercise[a.exercise])'
    BY <2>3, <2>4, ContentAssumption DEF IInv, RecordIsCoherent
  <2> QED
    BY <1>1, <2>1, <2>3, <2>5, <2>6, <2>7 DEF IInv, RecordIsCoherent
<1>10. PointerOK'
  <2>1. Attempted(attempts)' = Attempted(attempts)
    BY <1>1 DEF Attempted
  <2>2. ASSUME NEW k \in Lessons, k # l, progress'[k].topic # Null
        PROVE  topicProgress'[progress'[k].topic].status # "done"
    <3>1. progress'[k] = progress[k] /\ progress[k].topic \in Topics \ {t}
      BY <1>5, <2>2, PointersAre
    <3> QED
      BY <1>5, <3>1, <2>2, PointersAre
  <2>3. row.topic # Null => topicProgress'[row.topic].status # "done"
    BY <1>3 DEF CompletedTopics
  <2>4. row.exercise \notin Attempted(attempts)
    BY <1>3, NullIsNoContent DEF Attempted
  <2> QED
    BY <1>2, <1>3, <1>5, <2>1, <2>2, <2>3, <2>4 DEF IInv, PointerOK, PointerIsFresh
<1>11. LocksOK' /\ SharingOK' /\ LoadedContentIsLive' /\ LoadedOK' /\ AcknowledgedIsStored'
  BY <1>1, Committed
<1> QED
  BY <1>7, <1>8, <1>9, <1>10, <1>11 DEF IInv

LEMMA CompleteLessonKeeps ==
  ASSUME IInv, NEW r \in Requests, CompleteLesson(r)
  PROVE  IInv'
<1> DEFINE l == body[r].target
           row == [status |-> "done", percent |-> 100,
                   score |-> LessonScore(loaded[r].exercises, attempts),
                   topic |-> Null, exercise |-> Null]
<1>1. /\ stage[r] = "content" /\ loaded[r].stored = {} /\ Commit(r, 0)
      /\ body[r].operation = "lesson.complete"
      /\ progress[l].status = "learning"
      /\ progress' = [progress EXCEPT ![l] = row]
      /\ plan' = IF plan[l] = "none" THEN plan ELSE [plan EXCEPT ![l] = "completed"]
      /\ UNCHANGED <<topicProgress, attempts>>
  BY DEF CompleteLesson, Writing
<1>2. l \in Lessons /\ loaded[r] \in GraphType
  BY <1>1, GraphIs, BodyFacts
<1>3. row \in RowType
  <2>1. LessonScore(loaded[r].exercises, attempts) \in {NoScore} \cup 0 .. 100
    BY <1>2, ScoreType DEF GraphType
  <2> QED
    BY <2>1 DEF RowType, ProgressStatus
<1>4. /\ row.status = "done" /\ row.topic = Null /\ row.exercise = Null
  OBVIOUS
<1> HIDE DEF row
<1>5. /\ progress'[l] = row
      /\ \A k \in Lessons : k # l => progress'[k] = progress[k]
  BY <1>1, <1>2 DEF IInv, TypeOK
<1>6. TypeOK'
  <2>1. progress' \in [Lessons -> RowType]
    BY <1>1, <1>3 DEF IInv, TypeOK, RowType
  <2>2. plan' \in [Lessons -> ItemStatus]
    BY <1>1 DEF IInv, TypeOK, ItemStatus
  <2> QED
    BY <1>1, <2>1, <2>2, CommitTypes DEF IInv, TypeOK
<1>7. JournalOK' /\ NumbersOK'
  BY <1>1, PlainCommit
<1>8. RecordIsCoherent'
  <2>1. \A k \in Lessons : Started(k)' <=> Started(k)
    BY <1>1, <1>4, <1>5 DEF Started
  <2>2. \A a \in attempts : Started(LessonOfExercise[a.exercise])'
    BY <2>1, NullIsNoContent, ContentAssumption DEF IInv, RecordIsCoherent
  <2>3. \A t \in Topics : topicProgress[t].status # "none" => Started(LessonOfTopic[t])'
    BY <2>1, ContentAssumption DEF IInv, RecordIsCoherent
  <2>4. \A k \in Lessons : /\ plan'[k] = "in_progress" => Started(k)'
                           /\ plan'[k] = "completed" => progress'[k].status = "done"
    BY <1>1, <1>4, <1>5, <2>1 DEF IInv, TypeOK, RecordIsCoherent
  <2> QED
    BY <1>1, <2>2, <2>3, <2>4 DEF IInv, RecordIsCoherent
<1>9. PointerOK'
  <2>1. Attempted(attempts)' = Attempted(attempts) /\ Null \notin Attempted(attempts)
    BY <1>1, NullIsNoContent DEF Attempted
  <2> QED
    BY <1>1, <1>4, <1>5, <2>1 DEF IInv, PointerOK, PointerIsFresh
<1>10. LocksOK' /\ SharingOK' /\ LoadedContentIsLive' /\ LoadedOK' /\ AcknowledgedIsStored'
  BY <1>1, Committed
<1> QED
  BY <1>6, <1>7, <1>8, <1>9, <1>10 DEF IInv

LEMMA SubmitAttemptKeeps ==
  ASSUME IInv, NEW r \in Requests, SubmitAttempt(r)
  PROVE  IInv'
<1> DEFINE e == body[r].target
           l == LessonOfExercise[e]
           t == TopicOfExercise[e]
           n == loaded[r].latest + 1
           new == Scored(r, n)
           topicRow == RecomputedTopic(t, loaded[r], attempts \cup {new})
           row == RecomputedLesson(l, loaded[r], attempts \cup {new}, topicProgress')
<1>1. /\ stage[r] = "content" /\ loaded[r].stored = {} /\ Commit(r, n)
      /\ body[r].operation = "exercise.submit" /\ Started(l) /\ body[r].answer # Null
      /\ attempts' = attempts \cup {new}
      /\ topicProgress' =
           IF t = Null THEN topicProgress ELSE [topicProgress EXCEPT ![t] = topicRow]
      /\ progress' = [progress EXCEPT ![l] = row]
      /\ UNCHANGED plan
  BY DEF SubmitAttempt, Writing
<1>2. /\ l = LessonOf(body[r]) /\ l \in Lessons /\ loaded[r] \in GraphType
      /\ e \in Exercises /\ t \in Topics \cup {Null} /\ body[r] \in BodyType
      /\ t # Null => LessonOfTopic[t] = l
      /\ \A u \in loaded[r].topics : u \in Topics /\ LessonOfTopic[u] = l
      /\ \A f \in loaded[r].exercises : f \in Exercises /\ LessonOfExercise[f] = l
  <2>1. l = LessonOf(body[r])
    BY <1>1 DEF LessonOf
  <2> QED
    BY <1>1, <2>1, GraphIs, BodyFacts, ContentAssumption
<1>3. /\ loaded[r].latest \in Nat /\ n \in Nat \ {0}
      /\ Numbers(e) = 1 .. loaded[r].latest
      /\ loaded[r].version \in 1 .. MaxVersion
  BY <1>1, <1>2 DEF IInv, TypeOK, GraphType, LoadedOK, LoadedContentIsLive
<1>4. /\ new.exercise = e /\ new.number = n /\ new.key = body[r].key
      /\ new \in [exercise : Exercises, number : Nat \ {0}, version : 1 .. MaxVersion,
                  answer : 1 .. MaxVersion, correct : BOOLEAN, key : STRING]
  BY <1>1, <1>2, <1>3 DEF Scored, BodyType, Null
<1>5. /\ row \in RowType /\ row.status = progress[l].status
      /\ row.topic # Null =>
           row.topic \in loaded[r].topics \ CompletedTopics(loaded[r], topicProgress')
      /\ row.exercise # Null =>
           row.exercise \in loaded[r].exercises \ Attempted(attempts \cup {new})
  <2> HIDE DEF new
  <2> QED
    BY <1>2, RecomputedLessonIs
<1>6. t # Null =>
        /\ topicRow \in [status : ProgressStatus, percent : 0 .. 100]
        /\ topicRow.status = IF topicProgress[t].status = "done" THEN "done" ELSE "learning"
  <2> HIDE DEF new
  <2> QED
    BY <1>2, RecomputedTopicIs
<1> HIDE DEF row, topicRow, new, n
<1>7. /\ progress'[l] = row
      /\ \A k \in Lessons : k # l => progress'[k] = progress[k]
      /\ \A u \in Topics : u # t => topicProgress'[u] = topicProgress[u]
      /\ t # Null => topicProgress'[t] = topicRow
  BY <1>1, <1>2 DEF IInv, TypeOK
<1>8. TypeOK'
  <2>1. progress' \in [Lessons -> RowType]
    BY <1>1, <1>5 DEF IInv, TypeOK, RowType
  <2>2. topicProgress' \in [Topics -> [status : ProgressStatus, percent : 0 .. 100]]
    <3>1. topicProgress \in [Topics -> [status : ProgressStatus, percent : 0 .. 100]]
      BY DEF IInv, TypeOK
    <3> QED
      BY <1>1, <1>6, <3>1
  <2> QED
    BY <1>1, <1>3, <1>4, <2>1, <2>2, CommitTypes DEF IInv, TypeOK
<1>9. JournalOK'
  <2> DEFINE stored == [body |-> body[r], number |-> n, expired |-> FALSE]
  <2>1. events' = events \cup {stored}
    BY <1>1 DEF Commit
  <2>2. stored.body = body[r] /\ stored.number = n
    OBVIOUS
  <2> HIDE DEF stored
  <2>3. ASSUME NEW a \in attempts'
        PROVE  \E v \in events' :
                 /\ v.body.key = a.key /\ v.body.operation = "exercise.submit"
                 /\ v.body.target = a.exercise /\ v.number = a.number
    <3>1. CASE a = new
      BY <1>1, <1>4, <2>1, <2>2, <3>1
    <3>2. CASE a \in attempts
      BY <2>1, <3>2 DEF IInv, JournalOK, AttemptsAreJournaled
    <3> QED
      BY <1>1, <3>1, <3>2
  <2>4. ASSUME NEW v \in events', v.body.operation = "exercise.submit"
        PROVE  \E a \in attempts' : a.key = v.body.key /\ a.number = v.number
    <3>1. CASE v = stored
      BY <1>1, <1>4, <2>2, <3>1
    <3>2. CASE v \in events
      BY <1>1, <2>4, <3>2 DEF IInv, JournalOK, AttemptsAreJournaled
    <3> QED
      BY <2>1, <3>1, <3>2
  <2>5. KeysAreStoredOnce'
    BY <1>1, <1>3, Committed
  <2> QED
    BY <2>3, <2>4, <2>5 DEF JournalOK, AttemptsAreJournaled
<1>10. NumbersOK'
  <2>1. \A a \in attempts : a.exercise = e => a.number \in 1 .. loaded[r].latest
    BY <1>3 DEF Numbers
  <2>2. \A a \in attempts : a.exercise = e => a.number # n
    BY <1>3, <2>1 DEF n
  <2>3. ASSUME NEW f \in Exercises, f = e PROVE Numbers(f)' = 1 .. n
    <3>1. Numbers(f)' = Numbers(f) \cup {n}
      BY <1>1, <1>4, <2>3 DEF Numbers
    <3>2. Numbers(f) = 1 .. loaded[r].latest
      BY <1>3, <2>3
    <3> QED
      BY <1>3, <3>1, <3>2 DEF n
  <2>4. \A f \in Exercises : f # e => Numbers(f)' = Numbers(f)
    BY <1>1, <1>4 DEF Numbers
  <2>5. \A f \in Exercises : \E m \in Nat : Numbers(f)' = 1 .. m
    BY <1>2, <1>3, <2>3, <2>4 DEF IInv, NumbersOK
  <2>6. \A a, b \in attempts' : a.exercise = b.exercise /\ a.number = b.number => a = b
    BY <1>1, <1>4, <2>2 DEF IInv, NumbersOK
  <2> QED
    BY <2>5, <2>6 DEF NumbersOK
<1>11. RecordIsCoherent'
  <2>1. \A k \in Lessons : progress'[k].status = progress[k].status
    BY <1>5, <1>7
  <2>2. \A k \in Lessons : Started(k)' <=> Started(k)
    BY <2>1 DEF Started
  <2>3. \A u \in Topics : topicProgress[u].status # "none" => topicProgress'[u].status # "none"
    BY <1>6, <1>7, NullIsNoContent
  <2>4. t # Null => topicProgress'[t].status # "none"
    BY <1>6, <1>7
  <2>5. \A a \in attempts' : a.exercise \in Exercises
    BY <1>1, <1>2, <1>4, NullIsNoContent
  <2>6. \A a \in attempts' : Started(LessonOfExercise[a.exercise])'
    BY <1>1, <1>2, <1>4, <2>2, <2>5, ContentAssumption DEF IInv, RecordIsCoherent
  <2>7. \A a \in attempts' : TopicOfExercise[a.exercise] # Null =>
          topicProgress'[TopicOfExercise[a.exercise]].status # "none"
    BY <1>1, <1>4, <2>3, <2>4, <2>5, ContentAssumption DEF IInv, RecordIsCoherent
  <2>8. \A u \in Topics : topicProgress'[u].status # "none" => Started(LessonOfTopic[u])'
    BY <1>1, <1>2, <1>7, <2>2, ContentAssumption DEF IInv, RecordIsCoherent
  <2> QED
    BY <1>1, <2>1, <2>2, <2>6, <2>7, <2>8 DEF IInv, RecordIsCoherent
<1>12. PointerOK'
  <2>1. Attempted(attempts)' = Attempted(attempts \cup {new})
    BY <1>1 DEF Attempted
  <2>2. Attempted(attempts \cup {new}) = Attempted(attempts) \cup {e}
    BY <1>4 DEF Attempted
  <2>3. Null \notin Attempted(attempts) \cup {e}
    BY <1>2, NullIsNoContent DEF Attempted
  <2>4. ASSUME NEW k \in Lessons
        PROVE  /\ progress'[k].exercise \notin Attempted(attempts) \cup {e}
               /\ progress'[k].topic # Null =>
                    /\ topicProgress'[progress'[k].topic].status # "done"
                    /\ LessonOfTopic[progress'[k].topic] = k
               /\ progress'[k].exercise # Null => LessonOfExercise[progress'[k].exercise] = k
    <3>1. CASE k = l
      <4>1. row.topic # Null => topicProgress'[row.topic].status # "done"
        BY <1>5 DEF CompletedTopics
      <4> QED
        BY <1>2, <1>5, <1>7, <2>2, <2>3, <3>1, <4>1
    <3>2. CASE k # l
      <4>1. progress'[k] = progress[k]
        BY <1>7, <3>2
      <4>2. progress[k].topic # Null =>
              topicProgress'[progress[k].topic] = topicProgress[progress[k].topic]
        BY <1>2, <1>7, <3>2, PointersAre
      <4>3. progress[k].exercise # e
        BY <1>2, <2>3, <3>2, PointersAre
      <4> QED
        BY <4>1, <4>2, <4>3, PointersAre
    <3> QED
      BY <3>1, <3>2
  <2> QED
    BY <2>1, <2>2, <2>4 DEF PointerOK, PointerIsFresh
<1>13. LocksOK' /\ SharingOK' /\ LoadedContentIsLive' /\ LoadedOK' /\ AcknowledgedIsStored'
  BY <1>1, <1>3, Committed
<1> QED
  BY <1>8, <1>9, <1>10, <1>11, <1>12, <1>13 DEF IInv

(***************************************************************************)
(* The locks                                                                *)
(***************************************************************************)

LEMMA AuthorLocks ==
  ASSUME IInv
  PROVE  /\ AuthorHolds("lesson") <=> author.held = 2
         /\ AuthorHolds("actor") <=> author.held \in 1 .. 2
         /\ author.held \in 0 .. 2 /\ Len(LockOrder) = 2
         /\ author # Idle <=> author.exercise # Null
         /\ author # Idle => author \in [exercise : Exercises, held : 0 .. 2, own : BOOLEAN]
<1>1. /\ LockOrder[1] = "actor" /\ LockOrder[2] = "lesson" /\ Len(LockOrder) = 2
  BY DEF LockOrder
<1>2. /\ author \in [exercise : Exercises, held : 0 .. 2, own : BOOLEAN] \cup {Idle}
      /\ Idle.held = 0 /\ Idle.exercise = Null
  BY <1>1 DEF IInv, TypeOK, Idle
<1>3. author.held \in {0, 1, 2}
  BY <1>2
<1>4. 1 .. 0 = {} /\ 1 .. 1 = {1} /\ 1 .. 2 = {1, 2}
  OBVIOUS
<1>5. /\ AuthorHolds("lesson") <=> author.held = 2
      /\ AuthorHolds("actor") <=> author.held \in 1 .. 2
  BY <1>1, <1>3, <1>4 DEF AuthorHolds
<1> QED
  BY <1>1, <1>2, <1>3, <1>5, NullIsNoContent

\* Whoever has let the rows go locks no lesson.
LEMMA IdleLocksNothing ==
  ASSUME author' = Idle
  PROVE  SharingOK'
BY DEF SharingOK, LessonLocked, AuthorHolds, Idle

LEMMA SharingFrame ==
  ASSUME IInv, UNCHANGED <<author, requests>>
  PROVE  SharingOK'
BY DEF IInv, SharingOK, LessonLocked, LessonOf, AuthorHolds, requests

LEMMA LiveFrame ==
  ASSUME IInv, UNCHANGED <<topicContent, exerciseContent, version, recordings, requests>>
  PROVE  LoadedContentIsLive'
BY DEF IInv, LoadedContentIsLive, LiveTopics, LiveExercises, LessonOf, requests

LEMMA SendKeeps ==
  ASSUME IInv, NEW r \in Requests, NEW b \in Bodies, Send(r, b)
  PROVE  IInv'
<1>1. /\ stage[r] \in {"idle", "answered"} /\ stage'[r] = "sent" /\ body'[r] = b
      /\ reply'[r] = [result |-> "none", number |-> 0]
      /\ \A q \in Requests : q # r =>
           stage'[q] = stage[q] /\ body'[q] = body[q] /\ reply'[q] = reply[q]
      /\ UNCHANGED <<account, content, author, loaded, record>>
  BY DEF Send, IInv, TypeOK
<1>2. TypeOK'
  BY DEF IInv, TypeOK, Send, Replies, content, record
<1>3. JournalOK' /\ NumbersOK' /\ RecordIsCoherent' /\ PointerOK'
  BY <1>1, RecordFrame
<1>4. LocksOK'
  BY <1>1 DEF IInv, LocksOK
<1>5. SharingOK'
  BY <1>1 DEF IInv, SharingOK, LessonLocked, AuthorHolds
<1>6. LoadedContentIsLive'
  BY <1>1 DEF IInv, LoadedContentIsLive, LiveTopics, LiveExercises, content
<1>7. LoadedOK'
  BY <1>1, LoadedFrame DEF record
<1>8. AcknowledgedIsStored'
  BY <1>1 DEF IInv, AcknowledgedIsStored, record
<1> QED
  BY <1>2, <1>3, <1>4, <1>5, <1>6, <1>7, <1>8 DEF IInv

LEMMA LockUserKeeps ==
  ASSUME IInv, NEW r \in Requests, LockUser(r)
  PROVE  IInv'
<1>1. /\ stage'[r] = "locked" /\ account = "active"
      /\ \A q \in Requests : q # r => stage'[q] = stage[q]
      /\ \A q \in Requests : stage[q] \notin {"locked", "content"}
      /\ UNCHANGED <<account, content, author, body, loaded, reply, record>>
  BY DEF LockUser, UserLocked, IInv, TypeOK
<1>2. TypeOK'
  BY DEF IInv, TypeOK, LockUser, content, record
<1>3. JournalOK' /\ NumbersOK' /\ RecordIsCoherent' /\ PointerOK'
  BY <1>1, RecordFrame
<1>4. LocksOK'
  BY <1>1 DEF LocksOK
<1>5. \A q \in Requests : stage'[q] # "content"
  BY <1>1
<1>6. SharingOK' /\ LoadedContentIsLive' /\ LoadedOK'
  BY <1>5 DEF SharingOK, LoadedContentIsLive, LoadedOK
<1>7. AcknowledgedIsStored'
  BY <1>1 DEF IInv, AcknowledgedIsStored, record
<1> QED
  BY <1>2, <1>3, <1>4, <1>6, <1>7 DEF IInv

LEMMA LockContentKeeps ==
  ASSUME IInv, NEW r \in Requests, LockContent(r)
  PROVE  IInv'
<1> DEFINE b == body[r]
           l == LessonOf(b)
           graph == [topics    |-> LiveTopics(l),
                     exercises |-> LiveExercises(l),
                     version   |-> IF b.operation = "exercise.submit"
                                   THEN version[b.target] ELSE Null,
                     stored    |-> EventsOf(b.key),
                     latest    |-> IF b.operation = "exercise.submit"
                                   THEN LatestNumber(b.target) ELSE 0]
<1>1. /\ stage[r] = "locked" /\ ~LessonLocked(l)
      /\ stage' = [stage EXCEPT ![r] = "content"]
      /\ loaded' = [loaded EXCEPT ![r] = graph]
      /\ UNCHANGED <<account, content, author, body, reply, record>>
  BY DEF LockContent
<1>2. /\ b \in Bodies
      /\ b.operation = "exercise.submit" => b.target \in Exercises
  BY BodyFacts DEF IInv, TypeOK
<1>3. \A e \in Exercises : LatestNumber(e) \in Nat /\ Numbers(e) = 1 .. LatestNumber(e)
  BY LatestIs DEF IInv, NumbersOK
<1>4. graph \in GraphType
  <2>1. LiveTopics(l) \in SUBSET Topics /\ LiveExercises(l) \in SUBSET Exercises
    BY DEF LiveTopics, LiveExercises
  <2>2. EventsOf(b.key) \in SUBSET EventType
    BY DEF EventsOf, IInv, TypeOK
  <2>3. (IF b.operation = "exercise.submit" THEN version[b.target] ELSE Null) \in 0 .. MaxVersion
    <3>1. version \in [Exercises -> 1 .. MaxVersion] /\ MaxVersion \in Nat
      BY ContentAssumption DEF IInv, TypeOK
    <3>2. b.operation = "exercise.submit" => version[b.target] \in 0 .. MaxVersion
      BY <1>2, <3>1
    <3> QED
      BY <3>1, <3>2 DEF Null
  <2>4. (IF b.operation = "exercise.submit" THEN LatestNumber(b.target) ELSE 0) \in Nat
    BY <1>2, <1>3
  <2> QED
    BY <2>1, <2>2, <2>3, <2>4 DEF GraphType
<1>5. /\ graph.topics = LiveTopics(l) /\ graph.exercises = LiveExercises(l)
      /\ b.operation = "exercise.submit" => graph.version = version[b.target]
      /\ graph.stored = EventsOf(b.key)
      /\ b.operation = "exercise.submit" => graph.latest = LatestNumber(b.target)
  OBVIOUS
<1> HIDE DEF graph
<1>6. /\ stage'[r] = "content" /\ loaded'[r] = graph
      /\ \A q \in Requests : q # r => stage'[q] = stage[q] /\ loaded'[q] = loaded[q]
      /\ \A q \in Requests : q # r => stage'[q] # "content"
  BY <1>1 DEF IInv, TypeOK, LocksOK
<1>7. TypeOK'
  <2>1. loaded' \in [Requests -> GraphType]
    BY <1>1, <1>4 DEF IInv, TypeOK, GraphType
  <2>2. stage' \in [Requests -> {"idle", "sent", "locked", "content", "answered"}]
    BY <1>1 DEF IInv, TypeOK
  <2> QED
    BY <1>1, <2>1, <2>2 DEF IInv, TypeOK, GraphType, content, record
<1>8. JournalOK' /\ NumbersOK' /\ RecordIsCoherent' /\ PointerOK'
  BY <1>1, RecordFrame
<1>9. LocksOK'
  BY <1>1, <1>6 DEF IInv, LocksOK
<1>10. SharingOK'
  BY <1>1, <1>6 DEF SharingOK, LessonLocked, AuthorHolds, LessonOf
<1>11. LoadedContentIsLive'
  BY <1>1, <1>5, <1>6 DEF LoadedContentIsLive, LiveTopics, LiveExercises, LessonOf, content
<1>12. LoadedOK'
  <2>1. \A v \in graph.stored : v.body.key = b.key /\ v \in events
    BY <1>5 DEF EventsOf
  <2>2. b.operation = "exercise.submit" => Numbers(b.target) = 1 .. graph.latest
    BY <1>2, <1>3, <1>5
  <2>3. \A e \in graph.exercises : LessonOfExercise[e] = l
    BY <1>5 DEF LiveExercises
  <2>4. events' = events /\ attempts' = attempts /\ body' = body
    BY <1>1 DEF record
  <2> QED
    BY <1>5, <1>6, <2>1, <2>2, <2>3, <2>4 DEF LoadedOK, EventsOf, Numbers, LessonOf
<1>13. AcknowledgedIsStored'
  BY <1>1 DEF IInv, AcknowledgedIsStored, record
<1> QED
  BY <1>7, <1>8, <1>9, <1>10, <1>11, <1>12, <1>13 DEF IInv

LEMMA ReplaySubmissionKeeps ==
  ASSUME IInv, NEW r \in Requests, ReplaySubmission(r)
  PROVE  IInv'
<1>1. stage[r] = "locked" /\ Replay(r, EventsOf(body[r].key))
  BY DEF ReplaySubmission
<1>2. EventsOf(body[r].key) \in SUBSET EventType
  BY DEF EventsOf, IInv, TypeOK
<1>3. \A v \in EventsOf(body[r].key) : \E w \in events : w.body = v.body /\ w.number = v.number
  BY DEF EventsOf
<1> HIDE DEF EventsOf
<1> QED
  BY <1>1, <1>2, <1>3, ReplayKeeps

LEMMA ReplayWriteKeeps ==
  ASSUME IInv, NEW r \in Requests, ReplayWrite(r)
  PROVE  IInv'
<1>1. stage[r] = "content" /\ Replay(r, loaded[r].stored)
  BY DEF ReplayWrite
<1>2. loaded[r].stored \in SUBSET EventType
  BY DEF IInv, TypeOK
<1>3. \A v \in loaded[r].stored : \E w \in events : w.body = v.body /\ w.number = v.number
  BY <1>1 DEF IInv, LoadedOK
<1> QED
  BY <1>1, <1>2, <1>3, ReplayKeeps

LEMMA RefusalsKeep ==
  ASSUME IInv, NEW r \in Requests,
         \/ RefuseClosedAccount(r) \/ RefuseHiddenContent(r) \/ Abort(r)
         \/ RefuseStartLesson(r) \/ RefuseStartTopic(r) \/ RefuseSubmit(r)
         \/ RefuseCompleteTopic(r) \/ RefuseCompleteLesson(r)
  PROVE  IInv'
<1>1. /\ stage[r] \in {"sent", "locked", "content"}
      /\ \E result \in Replies \ {"ok"} : Refuse(r, result)
  BY DEF Replies, RefuseClosedAccount, RefuseHiddenContent, Abort, RefuseStartLesson,
         RefuseStartTopic, RefuseSubmit, RefuseCompleteTopic, RefuseCompleteLesson, Writing
<1> QED
  BY <1>1, RefuseKeeps

(***************************************************************************)
(* Time, the account, the plan and the editors                              *)
(***************************************************************************)

LEMMA ExpireKeyKeeps ==
  ASSUME IInv, NEW v \in events, ExpireKey(v)
  PROVE  IInv'
<1> DEFINE old == [v EXCEPT !.expired = TRUE]
<1>1. /\ events' = (events \ {v}) \cup {old}
      /\ UNCHANGED <<account, content, author, requests, progress, topicProgress,
                     attempts, plan>>
  BY DEF ExpireKey
<1>2. v \in EventType /\ old.body = v.body /\ old.number = v.number /\ old \in EventType
  <2>1. v \in EventType
    BY DEF IInv, TypeOK
  <2> QED
    BY <2>1 DEF EventType
<1> HIDE DEF old
<1>3. \A x \in events : \E y \in events' : y.body = x.body /\ y.number = x.number
  BY <1>1, <1>2
<1>4. \A y \in events' : \E x \in events : x.body = y.body /\ x.number = y.number
  BY <1>1, <1>2
<1>5. TypeOK'
  BY <1>1, <1>2 DEF IInv, TypeOK, content, requests
<1>6. JournalOK'
  <2>1. KeysAreStoredOnce'
    <3>1. \A x \in events \ {v} : x.body.key # old.body.key
      BY <1>2 DEF IInv, JournalOK, KeysAreStoredOnce
    <3> QED
      BY <1>1, <3>1, Zenon DEF IInv, JournalOK, KeysAreStoredOnce
  <2>2. AttemptsAreJournaled'
    <3>1. ASSUME NEW a \in attempts
          PROVE  \E y \in events' :
                   /\ y.body.key = a.key /\ y.body.operation = "exercise.submit"
                   /\ y.body.target = a.exercise /\ y.number = a.number
      <4>1. PICK x \in events :
              /\ x.body.key = a.key /\ x.body.operation = "exercise.submit"
              /\ x.body.target = a.exercise /\ x.number = a.number
        BY DEF IInv, JournalOK, AttemptsAreJournaled
      <4>2. PICK y \in events' : y.body = x.body /\ y.number = x.number
        BY <1>3
      <4> QED
        BY <4>1, <4>2
    <3>2. ASSUME NEW y \in events', y.body.operation = "exercise.submit"
          PROVE  \E a \in attempts : a.key = y.body.key /\ a.number = y.number
      <4>1. PICK x \in events : x.body = y.body /\ x.number = y.number
        BY <1>4
      <4> QED
        BY <3>2, <4>1 DEF IInv, JournalOK, AttemptsAreJournaled
    <3> QED
      BY <1>1, <3>1, <3>2 DEF AttemptsAreJournaled
  <2> QED
    BY <2>1, <2>2 DEF JournalOK
<1>7. NumbersOK' /\ RecordIsCoherent' /\ PointerOK'
  BY <1>1 DEF IInv, NumbersOK, Numbers, RecordIsCoherent, Started, PointerOK,
              PointerIsFresh, Attempted
<1>8. LocksOK' /\ SharingOK' /\ LoadedContentIsLive'
  BY <1>1, SharingFrame, LiveFrame DEF IInv, LocksOK, content, requests
<1>9. LoadedOK'
  <2>1. \A k : EventsOf(k) = {} => EventsOf(k)' = {}
    BY <1>4 DEF EventsOf
  <2>2. \A e : Numbers(e)' = Numbers(e)
    BY <1>1 DEF Numbers
  <2>3. ASSUME NEW q \in Requests, stage[q] = "content"
        PROVE  /\ \A x \in loaded[q].stored :
                    /\ x.body.key = body[q].key
                    /\ \E y \in events' : y.body = x.body /\ y.number = x.number
               /\ loaded[q].stored = {} => EventsOf(body[q].key)' = {}
               /\ body[q].operation = "exercise.submit" =>
                    Numbers(body[q].target)' = 1 .. loaded[q].latest
               /\ \A e \in loaded[q].exercises : LessonOfExercise[e] = LessonOf(body[q])
    <3>1. body' = body
      BY <1>1 DEF requests
    <3>2. ASSUME NEW x \in loaded[q].stored
          PROVE  /\ x.body.key = body[q].key
                 /\ \E y \in events' : y.body = x.body /\ y.number = x.number
      <4>1. PICK w \in events : w.body = x.body /\ w.number = x.number
        BY <2>3 DEF IInv, LoadedOK
      <4>2. PICK y \in events' : y.body = w.body /\ y.number = w.number
        BY <1>3
      <4> QED
        BY <2>3, <4>1, <4>2 DEF IInv, LoadedOK
    <3>3. loaded[q].stored = {} => EventsOf(body[q].key)' = {}
      BY <2>1, <2>3, <3>1 DEF IInv, LoadedOK, EventsOf
    <3>4. body[q].operation = "exercise.submit" =>
            Numbers(body[q].target)' = 1 .. loaded[q].latest
      <4>1. body[q].operation = "exercise.submit" =>
              Numbers(body[q].target) = 1 .. loaded[q].latest
        BY <2>3 DEF IInv, LoadedOK
      <4>2. Numbers(body[q].target)' = Numbers(body[q].target)
        BY <1>1, <3>1 DEF Numbers
      <4> QED
        BY <4>1, <4>2
    <3> QED
      BY <2>3, <3>2, <3>3, <3>4 DEF IInv, LoadedOK
  <2> QED
    BY <1>1, <2>3 DEF LoadedOK, requests, LessonOf
<1>10. AcknowledgedIsStored'
  <2>1. ASSUME NEW q \in Requests, reply[q].result = "ok"
        PROVE  \E y \in events' : y.body = body[q] /\ y.number = reply[q].number
    <3>1. PICK x \in events : x.body = body[q] /\ x.number = reply[q].number
      BY <2>1 DEF IInv, AcknowledgedIsStored
    <3> QED
      BY <1>3, <3>1
  <2> QED
    BY <1>1, <2>1 DEF AcknowledgedIsStored, requests
<1> QED
  BY <1>5, <1>6, <1>7, <1>8, <1>9, <1>10 DEF IInv

LEMMA SetAccountKeeps ==
  ASSUME IInv, NEW status \in {"active", "closed"}, SetAccount(status)
  PROVE  IInv'
<1>1. ~UserLocked /\ account' = status /\ UNCHANGED <<content, author, requests, record>>
  BY DEF SetAccount
<1>2. TypeOK'
  BY <1>1 DEF IInv, TypeOK, content, requests, record
<1>3. LocksOK'
  BY <1>1 DEF LocksOK, UserLocked, requests
<1>4. SharingOK' /\ LoadedContentIsLive'
  BY <1>1, SharingFrame, LiveFrame DEF content
<1>5. JournalOK' /\ NumbersOK' /\ RecordIsCoherent' /\ PointerOK'
  BY <1>1, RecordFrame
<1>6. LoadedOK'
  BY <1>1, LoadedFrame DEF requests, record
<1>7. AcknowledgedIsStored'
  BY <1>1 DEF IInv, AcknowledgedIsStored, requests, record
<1> QED
  BY <1>2, <1>3, <1>4, <1>5, <1>6, <1>7 DEF IInv

LEMMA GeneratePlanKeeps ==
  ASSUME IInv, GeneratePlan
  PROVE  IInv'
<1>1. /\ plan' \in [Lessons -> {"planned", "none"}]
      /\ UNCHANGED <<account, content, author, requests, progress, topicProgress,
                     attempts, events>>
  BY DEF GeneratePlan
<1>2. TypeOK'
  BY <1>1 DEF IInv, TypeOK, ItemStatus, content, requests
<1>3. LocksOK' /\ SharingOK' /\ LoadedContentIsLive'
  BY <1>1, SharingFrame, LiveFrame DEF IInv, LocksOK, content, requests
<1>4. JournalOK' /\ NumbersOK' /\ PointerOK'
  BY <1>1 DEF IInv, JournalOK, KeysAreStoredOnce, AttemptsAreJournaled, NumbersOK, Numbers,
              PointerOK, PointerIsFresh, Attempted
<1>5. RecordIsCoherent'
  <2>1. \A l \in Lessons : plan'[l] \notin {"in_progress", "completed"}
    BY <1>1
  <2> QED
    BY <1>1, <2>1 DEF IInv, RecordIsCoherent, Started
<1>6. LoadedOK'
  BY <1>1, LoadedFrame DEF requests
<1>7. AcknowledgedIsStored'
  BY <1>1 DEF IInv, AcknowledgedIsStored, requests
<1> QED
  BY <1>2, <1>3, <1>4, <1>5, <1>6, <1>7 DEF IInv

LEMMA EditorKeeps ==
  ASSUME IInv, EditorStep
  PROVE  IInv'
<1>1. ASSUME NEW l \in EditedLessons, PublishLesson(l) \/ ArchiveLesson(l)
      PROVE  IInv'
  <2>1. /\ lessonContent' \in [Lessons -> ContentStatus]
        /\ UNCHANGED <<account, topicContent, exerciseContent, version, recordings,
                       author, requests, record>>
    BY <1>1 DEF PublishLesson, ArchiveLesson, IInv, TypeOK, ContentStatus
  <2>2. TypeOK'
    BY <2>1 DEF IInv, TypeOK, requests, record
  <2>3. SharingOK' /\ LoadedContentIsLive'
    BY <2>1, SharingFrame, LiveFrame
  <2> QED
    BY <2>1, <2>2, <2>3, EditorFrame
<1>2. ASSUME NEW t \in EditedTopics, PublishTopic(t) \/ ArchiveTopic(t)
      PROVE  IInv'
  <2>1. /\ topicContent' \in [Topics -> ContentStatus] /\ LessonFree(LessonOfTopic[t])
        /\ \A u \in Topics : u # t => topicContent'[u] = topicContent[u]
        /\ UNCHANGED <<account, lessonContent, exerciseContent, version, recordings,
                       author, requests, record>>
    BY <1>2 DEF PublishTopic, ArchiveTopic, IInv, TypeOK, ContentStatus
  <2>2. TypeOK'
    BY <2>1 DEF IInv, TypeOK, requests, record
  <2>3. SharingOK'
    BY <2>1, SharingFrame
  <2>4. LoadedContentIsLive'
    <3>1. LessonOfTopic[t] \in Lessons /\ ~LessonShared(LessonOfTopic[t])
      BY <2>1, ContentAssumption DEF LessonFree
    <3> QED
      BY <2>1, <3>1, ContentFrame
  <2> QED
    BY <2>1, <2>2, <2>3, <2>4, EditorFrame
<1>3. ASSUME NEW e \in EditedExercises, BeginAuthoring(e)
      PROVE  IInv'
  <2>1. PICK own \in BOOLEAN : author' = [exercise |-> e, held |-> 0, own |-> own]
    BY <1>3, ContentAssumption DEF BeginAuthoring
  <2>5. /\ e \in Exercises
        /\ UNCHANGED <<account, content, requests, record>>
    BY <1>3, ContentAssumption DEF BeginAuthoring
  <2>2. TypeOK'
    BY <2>1, <2>5 DEF IInv, TypeOK, content, requests, record, LockOrder
  <2>3. SharingOK'
    BY <2>1, <2>5 DEF SharingOK, LessonLocked, AuthorHolds
  <2>4. LoadedContentIsLive'
    BY <2>1, <2>5, LiveFrame DEF content
  <2> QED
    BY <2>1, <2>5, <2>2, <2>3, <2>4, EditorFrame
<1>4. ASSUME NEW e \in Listening, WithdrawRecording(e)
      PROVE  IInv'
  <2>1. /\ recordings' = recordings \ {e}
        /\ UNCHANGED <<account, lessonContent, topicContent, exerciseContent, version,
                       author, requests, record>>
    BY <1>4 DEF WithdrawRecording
  <2>2. TypeOK'
    BY <2>1 DEF IInv, TypeOK, requests, record
  <2>3. SharingOK'
    BY <2>1, SharingFrame
  <2>4. LoadedContentIsLive'
    <3>1. \A l : LiveTopics(l)' = LiveTopics(l)
      BY <2>1 DEF LiveTopics
    <3>2. \A l : /\ LiveExercises(l)' \subseteq LiveExercises(l)
                 /\ LiveExercises(l) \ Listening \subseteq LiveExercises(l)'
      BY <1>4, <2>1 DEF LiveExercises
    <3>3. ASSUME NEW q \in Requests, stage[q] = "content"
          PROVE  LET l == LessonOf(body[q])
                 IN  /\ loaded[q].topics = LiveTopics(l)'
                     /\ LiveExercises(l)' \subseteq loaded[q].exercises
                     /\ loaded[q].exercises \ Listening \subseteq LiveExercises(l)'
                     /\ body[q].operation = "exercise.submit" =>
                          loaded[q].version = version'[body[q].target]
      <4>1. body' = body
        BY <2>1 DEF requests
      <4>2. PICK l : l = LessonOf(body[q])
        OBVIOUS
      <4>3. /\ loaded[q].topics = LiveTopics(l)'
            /\ LiveExercises(l)' \subseteq loaded[q].exercises
            /\ loaded[q].exercises \ Listening \subseteq LiveExercises(l)'
            /\ body[q].operation = "exercise.submit" =>
                 loaded[q].version = version'[body[q].target]
        BY <2>1, <3>1, <3>2, <3>3, <4>2 DEF IInv, LoadedContentIsLive
      <4> QED
        BY <4>1, <4>2, <4>3 DEF LessonOf, LiveTopics, LiveExercises
    <3> QED
      BY <2>1, <3>3 DEF LoadedContentIsLive, requests
  <2> QED
    BY <2>1, <2>2, <2>3, <2>4, EditorFrame
<1>5. ASSUME TakeLock
      PROVE  IInv'
  <2>1. /\ author' = [author EXCEPT !.held = @ + 1] /\ author # Idle
        /\ author \in [exercise : Exercises, held : 0 .. 2, own : BOOLEAN] /\ author.held < 2
        /\ author.held = 1 => ~LessonShared(LessonOfExercise[author.exercise])
        /\ UNCHANGED <<account, content, requests, record>>
    BY <1>5, AuthorLocks DEF TakeLock, LockOrder
  <2>2. author' \in [exercise : Exercises, held : 0 .. 2, own : BOOLEAN]
        /\ author'.held = author.held + 1 /\ author'.exercise = author.exercise
    BY <2>1
  <2>3. TypeOK'
    BY <2>1, <2>2, AuthorLocks DEF IInv, TypeOK, content, requests, record
  <2>4. SharingOK'
    <3>1. CASE author.held = 0
      <4>1. author'.held = 1 /\ 1 .. 1 = {1}
        BY <2>2, <3>1
      <4>2. ~AuthorHolds("lesson")'
        BY <4>1 DEF AuthorHolds, LockOrder
      <4> QED
        BY <4>2 DEF SharingOK, LessonLocked
    <3>2. CASE author.held = 1
      BY <2>1, <2>2, <3>2 DEF SharingOK, LessonLocked, LessonShared, LessonOf, requests
    <3> QED
      BY <2>1, <3>1, <3>2
  <2>5. LoadedContentIsLive'
    BY <2>1, LiveFrame DEF content
  <2> QED
    BY <2>1, <2>3, <2>4, <2>5, EditorFrame
<1>6. ASSUME PublishExercise \/ ArchiveExercise
      PROVE  IInv'
  <2> DEFINE e == author.exercise
             l == LessonOfExercise[e]
  <2>1. author # Idle /\ author.held = 2 /\ e \in Exercises /\ l \in Lessons
    BY <1>6, AuthorLocks, ContentAssumption DEF PublishExercise, ArchiveExercise, Editing
  <2>2. /\ exerciseContent' \in [Exercises -> ContentStatus]
        /\ version' \in [Exercises -> 1 .. MaxVersion]
        /\ recordings' \subseteq Listening
        /\ author' = Idle
        /\ \A f \in Exercises : f # e =>
             /\ exerciseContent'[f] = exerciseContent[f] /\ version'[f] = version[f]
             /\ f \in recordings' <=> f \in recordings
        /\ UNCHANGED <<account, lessonContent, topicContent, requests, record>>
    <3>1. CASE PublishExercise
      <4>1. version' \in [Exercises -> 1 .. MaxVersion]
        <5>1. version \in [Exercises -> 1 .. MaxVersion] /\ MaxVersion \in Nat
          BY ContentAssumption DEF IInv, TypeOK
        <5>2. CASE exerciseContent[e] = "published"
          <6>1. version[e] < MaxVersion /\ version' = [version EXCEPT ![e] = @ + 1]
            BY <3>1, <5>2 DEF PublishExercise
          <6>2. version[e] + 1 \in 1 .. MaxVersion
            BY <2>1, <5>1, <6>1
          <6> QED
            BY <5>1, <6>1, <6>2
        <5>3. CASE exerciseContent[e] # "published"
          BY <3>1, <5>1, <5>3 DEF PublishExercise
        <5> QED
          BY <5>2, <5>3
      <4> QED
        BY <2>1, <3>1, <4>1 DEF PublishExercise, IInv, TypeOK, ContentStatus
    <3>2. CASE ArchiveExercise
      BY <2>1, <3>2 DEF ArchiveExercise, IInv, TypeOK, ContentStatus
    <3> QED
      BY <1>6, <3>1, <3>2
  <2>3. TypeOK'
    BY <2>2 DEF IInv, TypeOK, requests, record
  <2>4. SharingOK'
    BY <2>2, IdleLocksNothing
  <2>5. ~LessonShared(l)
    BY <2>1, AuthorLocks DEF IInv, SharingOK, LessonShared, LessonLocked
  <2>6. LoadedContentIsLive'
    <3>1. \A t \in Topics : LessonOfTopic[t] # l => topicContent'[t] = topicContent[t]
      BY <2>2
    <3>2. \A f \in Exercises : LessonOfExercise[f] # l =>
            /\ exerciseContent'[f] = exerciseContent[f] /\ version'[f] = version[f]
            /\ f \in recordings' <=> f \in recordings
      BY <2>2
    <3> HIDE DEF l
    <3> QED
      BY <2>1, <2>2, <2>5, <3>1, <3>2, ContentFrame
  <2> QED
    BY <2>2, <2>3, <2>4, <2>6, EditorFrame
<1>7. ASSUME RefuseAuthor \/ AuthorGivesUp
      PROVE  IInv'
  <2>1. author' = Idle /\ UNCHANGED <<account, content, requests, record>>
    BY <1>7 DEF RefuseAuthor, AuthorGivesUp
  <2>2. TypeOK'
    BY <2>1 DEF IInv, TypeOK, content, requests, record
  <2>3. SharingOK' /\ LoadedContentIsLive'
    BY <2>1, IdleLocksNothing, LiveFrame DEF content
  <2> QED
    BY <2>1, <2>2, <2>3, EditorFrame
<1> QED
  BY <1>1, <1>2, <1>3, <1>4, <1>5, <1>6, <1>7 DEF EditorStep, AuthorStep

(***************************************************************************)
(* The theorems                                                             *)
(***************************************************************************)

LEMMA InitHolds == Init => IInv
<1> SUFFICES ASSUME Init PROVE IInv
  OBVIOUS
<1>1. /\ \A r \in Requests : stage[r] = "idle" /\ reply[r].result = "none"
      /\ \A l \in Lessons : progress[l] = NoProgress /\ plan[l] = "none"
      /\ \A t \in Topics : topicProgress[t].status = "none"
      /\ attempts = {} /\ events = {}
  BY DEF Init
<1>2. TypeOK
  <2>1. (CHOOSE b \in Bodies : TRUE) \in Bodies
    BY BodiesAssumption
  <2>2. NoProgress \in RowType /\ Nothing \in GraphType
    BY ContentAssumption DEF NoProgress, Nothing, RowType, GraphType, ProgressStatus, Null
  <2>3. /\ lessonContent \in [Lessons -> ContentStatus]
        /\ topicContent \in [Topics -> ContentStatus]
        /\ exerciseContent \in [Exercises -> ContentStatus]
        /\ version \in [Exercises -> 1 .. MaxVersion]
    BY ContentAssumption DEF Init, ContentStatus
  <2>4. /\ loaded \in [Requests -> GraphType] /\ progress \in [Lessons -> RowType]
        /\ body \in [Requests -> Bodies]
    BY <2>1, <2>2 DEF Init
  <2>5. /\ topicProgress \in [Topics -> [status : ProgressStatus, percent : 0 .. 100]]
        /\ reply \in [Requests -> [result : Replies, number : Nat]]
        /\ stage \in [Requests -> {"idle", "sent", "locked", "content", "answered"}]
        /\ plan \in [Lessons -> ItemStatus]
    BY DEF Init, ProgressStatus, Replies, ItemStatus
  <2> QED
    BY <2>3, <2>4, <2>5 DEF Init, TypeOK, RowType, GraphType
<1>3. LocksOK /\ SharingOK /\ LoadedContentIsLive /\ LoadedOK /\ AcknowledgedIsStored
  BY <1>1 DEF LocksOK, SharingOK, LoadedContentIsLive, LoadedOK, AcknowledgedIsStored
<1>4. JournalOK
  BY <1>1 DEF JournalOK, KeysAreStoredOnce, AttemptsAreJournaled
<1>5. NumbersOK
  <2>1. \A e : Numbers(e) = 1 .. 0
    BY <1>1 DEF Numbers
  <2> QED
    BY <1>1, <2>1 DEF NumbersOK
<1>6. RecordIsCoherent /\ PointerOK
  BY <1>1 DEF RecordIsCoherent, PointerOK, PointerIsFresh, Attempted, NoProgress, Null
<1> QED
  BY <1>2, <1>3, <1>4, <1>5, <1>6 DEF IInv

LEMMA NextKeeps == IInv /\ [Next]_vars => IInv'
<1> SUFFICES ASSUME IInv, [Next]_vars PROVE IInv'
  OBVIOUS
<1>1. ASSUME NEW r \in Requests, NEW b \in Bodies, Send(r, b) PROVE IInv'
  BY <1>1, SendKeeps
<1>2. ASSUME NEW r \in Requests, Finish(r) PROVE IInv'
  BY <1>2, ReplayWriteKeeps, StartLessonKeeps, StartTopicKeeps, SubmitAttemptKeeps,
     CompleteTopicKeeps, CompleteLessonKeeps, RefusalsKeep DEF Finish
<1>3. ASSUME NEW r \in Requests, RequestStep(r) \/ Abort(r) PROVE IInv'
  BY <1>2, <1>3, LockUserKeeps, LockContentKeeps, ReplaySubmissionKeeps, RefusalsKeep
  DEF RequestStep
<1>4. CASE UNCHANGED vars
  <2>1. UNCHANGED <<account, lessonContent, topicContent, exerciseContent, version,
                    recordings, author, stage, body, loaded, reply, progress,
                    topicProgress, attempts, events, plan>>
    BY <1>4 DEF vars, content, requests, record
  <2>2. TypeOK'
    BY <2>1 DEF IInv, TypeOK
  <2>3. SharingOK' /\ LoadedContentIsLive'
    BY <2>1, SharingFrame, LiveFrame DEF requests
  <2> QED
    BY <1>4, <2>2, <2>3, EditorFrame DEF vars
<1> QED
  BY <1>1, <1>3, <1>4, ExpireKeyKeeps, SetAccountKeeps, GeneratePlanKeeps, EditorKeeps
  DEF Next

THEOREM Invariant == Spec => []IInv
BY InitHolds, NextKeeps, PTL DEF Spec

\* Every variable keeps its type, percentages and scores in 0 .. 100 included,
\* in the rows that lesson-activity.service.ts writes and the editors touch.
THEOREM TypeCorrect == Spec => []TypeOK
<1>1. IInv => TypeOK
  BY DEF IInv
<1> QED
  BY <1>1, Invariant, PTL

\* Under the User lock an Idempotency-Key is stored once, whatever the devices
\* send and however often they retry.
THEOREM StoredOnce == Spec => []KeysAreStoredOnce
<1>1. IInv => KeysAreStoredOnce
  BY DEF IInv, JournalOK
<1> QED
  BY <1>1, Invariant, PTL

\* The attempts at an exercise are numbered 1, 2, 3, ... without a gap and
\* without a number given twice.
THEOREM Numbered == Spec => []AttemptsAreNumbered
<1>1. IInv => AttemptsAreNumbered
  <2> SUFFICES ASSUME IInv PROVE AttemptsAreNumbered
    OBVIOUS
  <2>1. \A e \in Exercises : Numbers(e) = 1 .. LatestNumber(e)
    BY LatestIs DEF IInv, NumbersOK
  <2> QED
    BY <2>1 DEF IInv, NumbersOK, AttemptsAreNumbered
<1> QED
  BY <1>1, Invariant, PTL

\* submitAttempt leaves no attempt without its event and no event without its
\* attempt.
THEOREM Journaled == Spec => []AttemptsAreJournaled
<1>1. IInv => AttemptsAreJournaled
  BY DEF IInv, JournalOK
<1> QED
  BY <1>1, Invariant, PTL

\* An acknowledged write is a stored one.
THEOREM Acknowledged == Spec => []AcknowledgedIsStored
<1>1. IInv => AcknowledgedIsStored
  BY DEF IInv
<1> QED
  BY <1>1, Invariant, PTL

\* What a write has read under its locks stays public until it commits, but
\* for a withdrawn recording.
THEOREM ContentStays == Spec => []LoadedContentIsLive
<1>1. IInv => LoadedContentIsLive
  BY DEF IInv
<1> QED
  BY <1>1, Invariant, PTL

\* The place a learner resumes at is never work already done.
THEOREM FreshPointer == Spec => []PointerIsFresh
<1>1. IInv => PointerIsFresh
  BY DEF IInv, PointerOK
<1> QED
  BY <1>1, Invariant, PTL

\* No row of a lesson is ahead of its Progress row.
THEOREM Coherent == Spec => []RecordIsCoherent
<1>1. IInv => RecordIsCoherent
  BY DEF IInv
<1> QED
  BY <1>1, Invariant, PTL

\* Nothing is written for the learner while the account is closed.
THEOREM Frozen == Spec => ClosedAccountIsFrozen
<1>1. ASSUME IInv, account # "active", [Next]_vars
      PROVE  UNCHANGED <<progress, topicProgress, attempts, plan>>
  <2>1. \A r \in Requests : stage[r] # "content"
    BY <1>1 DEF IInv, LocksOK
  <2>2. ASSUME NEW r \in Requests, RequestStep(r) PROVE UNCHANGED record
    BY <2>1, <2>2
    DEF RequestStep, LockUser, RefuseClosedAccount, ReplaySubmission, LockContent,
        RefuseHiddenContent, Refuse, Replay, Finish, ReplayWrite, Writing, StartLesson,
        RefuseStartLesson, StartTopic, RefuseStartTopic, SubmitAttempt, RefuseSubmit,
        CompleteTopic, RefuseCompleteTopic, CompleteLesson, RefuseCompleteLesson
  <2>3. CASE EditorStep
    BY <2>3
    DEF EditorStep, PublishLesson, ArchiveLesson, PublishTopic, ArchiveTopic,
        BeginAuthoring, WithdrawRecording, AuthorStep, TakeLock, RefuseAuthor,
        PublishExercise, ArchiveExercise, AuthorGivesUp, record
  <2>4. CASE ~EditorStep
    BY <1>1, <2>2, <2>4
    DEF Next, Send, Abort, Refuse, ExpireKey, SetAccount, GeneratePlan, vars, record
  <2> QED
    BY <2>3, <2>4
<1>2. IInv /\ [Next]_vars =>
        [account # "active" =>
           UNCHANGED <<progress, topicProgress, attempts, plan>>]_vars
  BY <1>1
<1> QED
  BY <1>2, Invariant, PTL DEF Spec, ClosedAccountIsFrozen

(***************************************************************************)
(* Steps that write nothing                                                 *)
(***************************************************************************)

Writes(r) ==
  \/ StartLesson(r) \/ StartTopic(r) \/ SubmitAttempt(r)
  \/ CompleteTopic(r) \/ CompleteLesson(r)

Journal(stored) == {<<v.body.key, v.body.operation, v.body.target>> : v \in stored}

LEMMA OtherSteps ==
  ASSUME IInv, [Next]_vars, \A r \in Requests : ~Writes(r)
  PROVE  UNCHANGED <<progress, topicProgress, attempts>> /\ Journal(events') = Journal(events)
<1>1. ASSUME NEW r \in Requests, RequestStep(r) PROVE UNCHANGED record
  BY <1>1
  DEF RequestStep, LockUser, RefuseClosedAccount, ReplaySubmission, LockContent,
      RefuseHiddenContent, Refuse, Replay, Finish, ReplayWrite, Writes,
      RefuseStartLesson, RefuseStartTopic, RefuseSubmit, RefuseCompleteTopic,
      RefuseCompleteLesson
<1>2. ASSUME NEW r \in Requests, Abort(r) \/ \E b \in Bodies : Send(r, b)
      PROVE  UNCHANGED record
  BY <1>2 DEF Abort, Refuse, Send
<1>3. CASE EditorStep
  BY <1>3
  DEF EditorStep, PublishLesson, ArchiveLesson, PublishTopic, ArchiveTopic,
      BeginAuthoring, WithdrawRecording, AuthorStep, TakeLock, RefuseAuthor,
      PublishExercise, ArchiveExercise, AuthorGivesUp, record
<1>4. ASSUME NEW v \in events, ExpireKey(v)
      PROVE  /\ UNCHANGED <<progress, topicProgress, attempts>>
             /\ Journal(events') = Journal(events)
  <2> DEFINE old == [v EXCEPT !.expired = TRUE]
  <2>1. v \in EventType /\ old.body = v.body
    BY DEF IInv, TypeOK, EventType
  <2>2. events' = (events \ {v}) \cup {old}
    BY <1>4 DEF ExpireKey
  <2> HIDE DEF old
  <2> QED
    BY <1>4, <2>1, <2>2 DEF ExpireKey, Journal
<1>5. CASE GeneratePlan \/ \E status \in {"active", "closed"} : SetAccount(status)
  BY <1>5 DEF GeneratePlan, SetAccount, record
<1>6. CASE UNCHANGED vars
  BY <1>6 DEF vars, record
<1> QED
  BY <1>1, <1>2, <1>3, <1>4, <1>5, <1>6 DEF Next, record

\* A lesson is completed only with its public topics done and its public
\* standalone exercises attempted, at the very moment of the COMMIT.
THEOREM Earned == Spec => CompletionIsEarned
<1>1. ASSUME IInv, [Next]_vars, NEW l \in Lessons,
             progress[l].status # "done", progress'[l].status = "done"
      PROVE  /\ \A t \in LiveTopics(l) : topicProgress[t].status = "done"
             /\ InTopic(LiveExercises(l), Null) \subseteq Attempted(attempts)
  <2>1. PICK r \in Requests : Writes(r)
    BY <1>1, OtherSteps
  <2>2. progress \in [Lessons -> RowType]
    BY <1>1 DEF IInv, TypeOK, RowType
  <2>3. ~StartLesson(r)
    BY <1>1, <2>2 DEF StartLesson
  <2>4. ~StartTopic(r)
    BY <1>1, <2>2 DEF StartTopic, RowType
  <2>5. ASSUME NEW graph \in GraphType, NEW made, NEW rows, NEW k \in Lessons,
               progress' = [progress EXCEPT ![k] = RecomputedLesson(k, graph, made, rows)]
        PROVE  FALSE
    <3>1. RecomputedLesson(k, graph, made, rows).status = progress[k].status
      BY <1>1, RecomputedLessonIs
    <3> QED
      BY <1>1, <2>2, <2>5, <3>1
  <2>6. ~SubmitAttempt(r) /\ ~CompleteTopic(r)
    <3>1. SUFFICES ASSUME SubmitAttempt(r) \/ CompleteTopic(r) PROVE FALSE
      OBVIOUS
    <3>2. stage[r] = "content" /\ body[r].operation \in {"exercise.submit", "topic.complete"}
      BY <3>1 DEF SubmitAttempt, CompleteTopic, Writing
    <3>3. /\ loaded[r] \in GraphType /\ body[r] \in Bodies
          /\ body[r].operation = "exercise.submit" =>
               LessonOfExercise[body[r].target] \in Lessons
          /\ body[r].operation = "topic.complete" =>
               LessonOfTopic[body[r].target] \in Lessons
      BY <1>1, <3>2, GraphIs, BodyFacts, ContentAssumption
    <3>4. CASE SubmitAttempt(r)
      BY <2>5, <3>3, <3>4 DEF SubmitAttempt, Writing
    <3>5. CASE CompleteTopic(r)
      BY <2>5, <3>3, <3>5 DEF CompleteTopic, Writing
    <3> QED
      BY <3>1, <3>4, <3>5
  <2>7. /\ stage[r] = "content" /\ body[r].operation = "lesson.complete"
        /\ Finished(loaded[r]) /\ body[r].target = l
    BY <1>1, <2>1, <2>2, <2>3, <2>4, <2>6 DEF Writes, CompleteLesson, Writing
  <2>8. loaded[r].topics = LiveTopics(l) /\ LiveExercises(l) \subseteq loaded[r].exercises
    BY <1>1, <2>7 DEF IInv, LoadedContentIsLive, LessonOf
  <2> QED
    BY <2>7, <2>8 DEF Finished, InTopic
<1>2. IInv /\ [Next]_vars =>
        [\A l \in Lessons :
           progress[l].status # "done" /\ progress'[l].status = "done" =>
             /\ \A t \in LiveTopics(l) : topicProgress[t].status = "done"
             /\ InTopic(LiveExercises(l), Null) \subseteq Attempted(attempts)]_vars
  BY <1>1
<1> QED
  BY <1>2, Invariant, PTL DEF Spec, CompletionIsEarned

\* A retry of a stored write is never told that its key or its work is taken: it
\* is replayed or too old, if no lock, time limit or rollback stops it.
THEOREM RetriesAgree == Spec => RetryIsNotAConflict
<1>1. ASSUME IInv, [Next]_vars, NEW r \in Requests, reply[r].result = "none",
             reply'[r].result \in {"conflict", "locked"}, NEW w \in events, w.body = body[r]
      PROVE  FALSE
  <2>1. reply \in [Requests -> [result : Replies, number : Nat]]
    BY <1>1 DEF IInv, TypeOK
  <2>2. ASSUME NEW q \in Requests, NEW result, NEW n, Answer(q, result, n)
        PROVE  q = r /\ result \in {"conflict", "locked"}
    BY <1>1, <2>1, <2>2 DEF Answer
  <2>3. ASSUME NEW q \in Requests, NEW v, v.body.key = body[q].key,
               \E x \in events : x.body = v.body,
               Answer(q, ReplayResult(v, body[q]),
                      IF ReplayResult(v, body[q]) = "ok" THEN v.number ELSE 0)
        PROVE  FALSE
    <3>1. q = r /\ ReplayResult(v, body[q]) \in {"conflict", "locked"}
      BY <2>2, <2>3
    <3>2. v.body = w.body
      BY <1>1, <2>3, <3>1 DEF IInv, JournalOK, KeysAreStoredOnce
    <3> QED
      BY <1>1, <3>1, <3>2 DEF ReplayResult
  <2>4. ASSUME NEW q \in Requests, ReplaySubmission(q) PROVE FALSE
    BY <2>3, <2>4 DEF ReplaySubmission, Replay, EventsOf
  <2>5. ASSUME NEW q \in Requests, ReplayWrite(q) PROVE FALSE
    BY <1>1, <2>3, <2>5 DEF ReplayWrite, Replay, IInv, LoadedOK
  <2>6. ASSUME NEW q \in Requests, stage[q] = "content", loaded[q].stored = {},
               NEW result, NEW n, Answer(q, result, n)
        PROVE  FALSE
    <3>1. q = r
      BY <2>2, <2>6
    <3> QED
      BY <1>1, <2>6, <3>1 DEF IInv, LoadedOK, EventsOf
  <2>7. ASSUME NEW q \in Requests, Finish(q) PROVE FALSE
    BY <2>5, <2>6, <2>7
    DEF Finish, Writing, Commit, Refuse, StartLesson, StartTopic, SubmitAttempt,
        CompleteTopic, CompleteLesson, RefuseStartLesson, RefuseStartTopic,
        RefuseSubmit, RefuseCompleteTopic, RefuseCompleteLesson
  <2>8. ASSUME NEW q \in Requests, NEW result, Refuse(q, result)
        PROVE  result \in {"conflict", "locked"}
    BY <2>2, <2>8 DEF Refuse
  <2>9. ASSUME NEW q \in Requests,
               RefuseClosedAccount(q) \/ RefuseHiddenContent(q) \/ Abort(q)
        PROVE  FALSE
    BY <2>8, <2>9 DEF RefuseClosedAccount, RefuseHiddenContent, Abort
  <2>10. reply' # reply
    BY <1>1
  <2>11. ASSUME NEW q \in Requests, NEW b \in Bodies, Send(q, b) PROVE FALSE
    BY <1>1, <2>1, <2>11 DEF Send
  <2>12. ASSUME NEW q \in Requests, LockUser(q) \/ LockContent(q) PROVE FALSE
    BY <2>10, <2>12 DEF LockUser, LockContent
  <2>13. ~EditorStep
    BY <2>10
    DEF EditorStep, PublishLesson, ArchiveLesson, PublishTopic, ArchiveTopic,
        BeginAuthoring, WithdrawRecording, AuthorStep, TakeLock, RefuseAuthor,
        PublishExercise, ArchiveExercise, AuthorGivesUp, requests
  <2> QED
    BY <1>1, <2>4, <2>7, <2>9, <2>10, <2>11, <2>12, <2>13
    DEF Next, RequestStep, ExpireKey, SetAccount, GeneratePlan, vars, requests
<1>2. IInv /\ [Next]_vars =>
        [\A r \in Requests :
           reply[r].result = "none" /\ reply'[r].result \in {"conflict", "locked"} =>
             ~\E v \in events : v.body = body[r]]_vars
  BY <1>1
<1> QED
  BY <1>2, Invariant, PTL DEF Spec, RetryIsNotAConflict

(***************************************************************************)
(* LessonActivity implements LearnerRecord                                  *)
(***************************************************************************)

LessonRows == [l \in Lessons |-> progress[l].status]
TopicRows  == [t \in Topics |-> topicProgress[t].status]
Submitted(made) == {<<a.exercise, a.number, a.key>> : a \in made}

\* A commit writes the first entry under its key.
LEMMA CommitJournals ==
  ASSUME IInv, NEW r \in Requests, NEW n, stage[r] = "content",
         loaded[r].stored = {}, Commit(r, n),
         NEW k, k = body[r].key, NEW o, o = body[r].operation, NEW x, x = body[r].target
  PROVE  Record!UsesKey(k) /\ Record!Journal(k, o, x)
<1>1. \A v \in events : v.body.key # body[r].key
  BY DEF IInv, LoadedOK, EventsOf
<1>2. \A entry \in Journal(events) : entry[1] # body[r].key
  BY <1>1 DEF Journal
<1>3. Journal(events') =
        Journal(events) \cup {<<body[r].key, body[r].operation, body[r].target>>}
  <2> DEFINE new == [body |-> body[r], number |-> n, expired |-> FALSE]
  <2>1. events' = events \cup {new} /\ new.body = body[r]
    BY DEF Commit
  <2> HIDE DEF new
  <2> QED
    BY <2>1 DEF Journal
<1>4. Record!Fresh(k)
  BY <1>2 DEF Record!Fresh, Journal
<1>5. ~Record!Fresh(k)'
  <2>1. <<k, o, x>> \in Journal(events') /\ <<k, o, x>>[1] = k
    BY <1>3
  <2> QED
    BY <2>1 DEF Record!Fresh, Journal
<1> QED
  BY <1>3, <1>4, <1>5 DEF Record!UsesKey, Record!Journal, Journal

LEMMA RecordStarted ==
  ASSUME NEW l \in Lessons
  PROVE  Record!Started(l) <=> Started(l)
BY DEF Record!Started, Started

LEMMA StartLessonRefines ==
  ASSUME IInv, NEW r \in Requests, StartLesson(r),
         NEW k, k = body[r].key, NEW l, l = body[r].target
  PROVE  Record!StartLesson(k, l)
<1> DEFINE row == [status |-> "learning", percent |-> 0, score |-> NoScore,
                   topic |-> NextActivity(loaded[r], {}, {}).topic,
                   exercise |-> NextActivity(loaded[r], {}, {}).exercise]
<1>1. /\ stage[r] = "content" /\ loaded[r].stored = {} /\ Commit(r, 0)
      /\ body[r].operation = "lesson.start" /\ ~Started(l)
      /\ progress' = [progress EXCEPT ![l] = row]
      /\ UNCHANGED <<topicProgress, attempts>>
  BY DEF StartLesson, Writing
<1>2. l \in Lessons /\ row.status = "learning"
  BY <1>1, GraphIs, BodyFacts
<1> HIDE DEF row
<1>3. LessonRows' = [LessonRows EXCEPT ![l] = "learning"]
  BY <1>1, <1>2 DEF IInv, TypeOK, LessonRows
<1>4. Record!Journal(k, "lesson.start", l)
  BY <1>1, CommitJournals
<1> QED
  BY <1>1, <1>2, <1>3, <1>4 DEF Record!StartLesson, Started, LessonRows

LEMMA StartTopicRefines ==
  ASSUME IInv, NEW r \in Requests, StartTopic(r),
         NEW k, k = body[r].key, NEW t, t = body[r].target
  PROVE  Record!StartTopic(k, t)
<1> DEFINE l == LessonOfTopic[t]
           first == FirstOrNull(InTopic(loaded[r].exercises, t))
           row == [status |-> "learning", percent |-> 0]
<1>1. /\ stage[r] = "content" /\ loaded[r].stored = {} /\ Commit(r, 0)
      /\ body[r].operation = "topic.start" /\ Started(l)
      /\ topicProgress[t].status = "none"
      /\ topicProgress' = [topicProgress EXCEPT ![t] = row]
      /\ progress' = [progress EXCEPT ![l].topic = t, ![l].exercise = first]
      /\ UNCHANGED attempts
  BY DEF StartTopic, Writing
<1>2. t \in Topics /\ l \in Lessons /\ row.status = "learning"
  BY <1>1, GraphIs, BodyFacts, ContentAssumption
<1> HIDE DEF row, first
<1>3. TopicRows' = [TopicRows EXCEPT ![t] = "learning"]
  BY <1>1, <1>2 DEF IInv, TypeOK, TopicRows
<1>4. LessonRows' = LessonRows
  <2>1. \A j \in Lessons : progress'[j].status = progress[j].status
    BY <1>1, <1>2 DEF IInv, TypeOK
  <2> QED
    BY <2>1 DEF LessonRows
<1>5. Record!Journal(k, "topic.start", t)
  BY <1>1, CommitJournals
<1>6. Record!Started(l)
  BY <1>1, <1>2, RecordStarted
<1> QED
  BY <1>1, <1>2, <1>3, <1>4, <1>5, <1>6 DEF Record!StartTopic, TopicRows, LessonRows

LEMMA CompleteTopicRefines ==
  ASSUME IInv, NEW r \in Requests, CompleteTopic(r),
         NEW k, k = body[r].key, NEW t, t = body[r].target
  PROVE  Record!CompleteTopic(k, t)
<1> DEFINE l == LessonOfTopic[t]
           row == [status |-> "done", percent |-> 100]
           lesson == RecomputedLesson(l, loaded[r], attempts, topicProgress')
<1>1. /\ stage[r] = "content" /\ loaded[r].stored = {} /\ Commit(r, 0)
      /\ body[r].operation = "topic.complete" /\ Started(l)
      /\ topicProgress[t].status = "learning"
      /\ topicProgress' = [topicProgress EXCEPT ![t] = row]
      /\ progress' = [progress EXCEPT ![l] = lesson]
      /\ UNCHANGED attempts
  BY DEF CompleteTopic, Writing
<1>2. /\ t \in Topics /\ l \in Lessons /\ row.status = "done"
      /\ loaded[r] \in GraphType
  BY <1>1, GraphIs, BodyFacts, ContentAssumption
<1>3. lesson.status = progress[l].status
  BY <1>2, RecomputedLessonIs
<1> HIDE DEF row, lesson
<1>4. TopicRows' = [TopicRows EXCEPT ![t] = "done"] /\ LessonRows' = LessonRows
  <2>1. \A j \in Lessons : progress'[j].status = progress[j].status
    BY <1>1, <1>2, <1>3 DEF IInv, TypeOK
  <2>2. TopicRows' = [TopicRows EXCEPT ![t] = "done"]
    BY <1>1, <1>2 DEF IInv, TypeOK, TopicRows
  <2> QED
    BY <2>1, <2>2 DEF LessonRows
<1>5. Record!Journal(k, "topic.complete", t)
  BY <1>1, CommitJournals
<1>6. Record!Started(l)
  BY <1>1, <1>2, RecordStarted
<1> QED
  BY <1>1, <1>2, <1>4, <1>5, <1>6 DEF Record!CompleteTopic, TopicRows, LessonRows

LEMMA CompleteLessonRefines ==
  ASSUME IInv, NEW r \in Requests, CompleteLesson(r),
         NEW k, k = body[r].key, NEW l, l = body[r].target
  PROVE  Record!CompleteLesson(k, l)
<1> DEFINE row == [status |-> "done", percent |-> 100,
                   score |-> LessonScore(loaded[r].exercises, attempts),
                   topic |-> Null, exercise |-> Null]
<1>1. /\ stage[r] = "content" /\ loaded[r].stored = {} /\ Commit(r, 0)
      /\ body[r].operation = "lesson.complete" /\ progress[l].status = "learning"
      /\ progress' = [progress EXCEPT ![l] = row]
      /\ UNCHANGED <<topicProgress, attempts>>
  BY DEF CompleteLesson, Writing
<1>2. l \in Lessons /\ row.status = "done"
  BY <1>1, GraphIs, BodyFacts
<1> HIDE DEF row
<1>3. LessonRows' = [LessonRows EXCEPT ![l] = "done"]
  BY <1>1, <1>2 DEF IInv, TypeOK, LessonRows
<1>4. Record!Journal(k, "lesson.complete", l)
  BY <1>1, CommitJournals
<1> QED
  BY <1>1, <1>2, <1>3, <1>4 DEF Record!CompleteLesson, LessonRows

LEMMA SubmitAttemptRefines ==
  ASSUME IInv, NEW r \in Requests, SubmitAttempt(r),
         NEW k, k = body[r].key, NEW e, e = body[r].target
  PROVE  Record!Submit(k, e)
<1> DEFINE l == LessonOfExercise[e]
           t == TopicOfExercise[e]
           m == loaded[r].latest
           new == Scored(r, m + 1)
           topicRow == RecomputedTopic(t, loaded[r], attempts \cup {new})
           row == RecomputedLesson(l, loaded[r], attempts \cup {new}, topicProgress')
           taken == {s[2] : s \in {x \in Submitted(attempts) : x[1] = e}}
<1>1. /\ stage[r] = "content" /\ loaded[r].stored = {} /\ Commit(r, m + 1)
      /\ body[r].operation = "exercise.submit" /\ Started(l)
      /\ attempts' = attempts \cup {new}
      /\ topicProgress' =
           IF t = Null THEN topicProgress ELSE [topicProgress EXCEPT ![t] = topicRow]
      /\ progress' = [progress EXCEPT ![l] = row]
  BY DEF SubmitAttempt, Writing
<1>2. /\ l \in Lessons /\ e \in Exercises /\ t \in Topics \cup {Null}
      /\ loaded[r] \in GraphType
  BY <1>1, GraphIs, BodyFacts, ContentAssumption
<1>3. m \in Nat /\ Numbers(e) = 1 .. m
  BY <1>1, <1>2 DEF IInv, LoadedOK, GraphType
<1>4. new.exercise = e /\ new.number = m + 1 /\ new.key = k
  BY DEF Scored
<1>5. row.status = progress[l].status
  <2> HIDE DEF new
  <2> QED
    BY <1>2, RecomputedLessonIs
<1>6. t # Null =>
        topicRow.status = IF topicProgress[t].status = "done" THEN "done" ELSE "learning"
  <2> HIDE DEF new
  <2> QED
    BY <1>2, RecomputedTopicIs
<1> HIDE DEF new, row, topicRow
<1>7. taken = 1 .. m
  <2>1. taken = Numbers(e)
    <3>1. ASSUME NEW a \in attempts, a.exercise = e PROVE a.number \in taken
      <4>1. <<a.exercise, a.number, a.key>> \in {x \in Submitted(attempts) : x[1] = e}
        BY <3>1 DEF Submitted
      <4> QED
        BY <4>1
    <3>2. ASSUME NEW j \in taken PROVE j \in Numbers(e)
      <4>1. PICK s \in Submitted(attempts) : s[1] = e /\ s[2] = j
        OBVIOUS
      <4>2. PICK a \in attempts : s = <<a.exercise, a.number, a.key>>
        BY DEF Submitted
      <4> QED
        BY <4>1, <4>2 DEF Numbers
    <3> HIDE DEF taken
    <3> QED
      BY <3>1, <3>2 DEF Numbers
  <2> QED
    BY <1>3, <2>1
<1>8. /\ m + 1 \in {1} \cup {i + 1 : i \in taken}
      /\ m + 1 \notin taken /\ 1 .. (m + 1) - 1 \subseteq taken
  <2>1. m = 0 \/ m \in taken
    BY <1>3, <1>7
  <2>2. m + 1 \notin 1 .. m /\ (m + 1) - 1 = m
    BY <1>3
  <2> HIDE DEF taken
  <2> QED
    BY <1>3, <1>7, <2>1, <2>2
<1>9. Submitted(attempts)' = Submitted(attempts) \cup {<<e, m + 1, k>>}
  BY <1>1, <1>4 DEF Submitted
<1>10. LessonRows' = LessonRows
  <2>1. \A j \in Lessons : progress'[j].status = progress[j].status
    BY <1>1, <1>2, <1>5 DEF IInv, TypeOK
  <2> QED
    BY <2>1 DEF LessonRows
<1>11. TopicRows' = [u \in Topics |->
         IF u = t /\ TopicRows[u] = "none" THEN "learning" ELSE TopicRows[u]]
  <2>1. ASSUME NEW u \in Topics
        PROVE  topicProgress'[u].status =
                 IF u = t /\ topicProgress[u].status = "none" THEN "learning"
                 ELSE topicProgress[u].status
    BY <1>1, <1>2, <1>6, <2>1, NullIsNoContent DEF IInv, TypeOK, ProgressStatus
  <2> QED
    BY <2>1 DEF TopicRows
<1>12. Record!Journal(k, "exercise.submit", e)
  BY <1>1, CommitJournals
<1>13. Record!Started(l)
  BY <1>1, <1>2, RecordStarted
<1> QED
  BY <1>8, <1>9, <1>10, <1>11, <1>12, <1>13
  DEF Record!Submit, TopicRows, LessonRows, Submitted

\* Whatever the devices and the editors do, the learner's rows change only as
\* the five operations of the record, each at most once per key, allow.
THEOREM RecordIsKept == Spec => RecordSpec
<1>1. Init => Record!Init
  BY DEF Init, Record!Init, NoProgress
<1>2. ASSUME IInv, [Next]_vars
      PROVE  [Record!Next]_<<LessonRows, TopicRows, Submitted(attempts), Journal(events)>>
  <2>1. CASE \A r \in Requests : ~Writes(r)
    BY <1>2, <2>1, OtherSteps DEF LessonRows, TopicRows, Submitted, Journal
  <2>2. ASSUME NEW r \in Requests, Writes(r) PROVE Record!Next
    <3>1. body[r] \in Bodies
      BY <1>2 DEF IInv, TypeOK
    <3>2. PICK k \in {b.key : b \in Bodies}, x \in {b.target : b \in Bodies} :
            k = body[r].key /\ x = body[r].target
      BY <3>1
    <3>3. Record!UsesKey(k)
      <4>1. PICK o \in {b.operation : b \in Bodies} : o = body[r].operation
        BY <3>1
      <4>2. /\ stage[r] = "content" /\ loaded[r].stored = {}
            /\ Commit(r, 0) \/ Commit(r, loaded[r].latest + 1)
        BY <2>2 DEF Writes, StartLesson, StartTopic, SubmitAttempt, CompleteTopic,
                    CompleteLesson, Writing
      <4> QED
        BY <1>2, <3>2, <4>1, <4>2, CommitJournals
    <3>7. Journal(events)' # Journal(events)
      BY <3>3 DEF Record!UsesKey, Record!Fresh, Journal
    <3>4. CASE StartLesson(r) \/ CompleteLesson(r)
      <4>1. x \in Lessons
        BY <3>1, <3>2, <3>4, BodyFacts DEF StartLesson, CompleteLesson, Writing
      <4> QED
        BY <1>2, <3>2, <3>3, <3>7, <3>4, <4>1, StartLessonRefines, CompleteLessonRefines DEF Record!Next, Journal
    <3>5. CASE StartTopic(r) \/ CompleteTopic(r)
      <4>1. x \in Topics
        BY <3>1, <3>2, <3>5, BodyFacts DEF StartTopic, CompleteTopic, Writing
      <4> QED
        BY <1>2, <3>2, <3>3, <3>7, <3>5, <4>1, StartTopicRefines, CompleteTopicRefines DEF Record!Next, Journal
    <3>6. CASE SubmitAttempt(r)
      <4>1. x \in Exercises
        BY <3>1, <3>2, <3>6, BodyFacts DEF SubmitAttempt, Writing
      <4> QED
        BY <1>2, <3>2, <3>3, <3>7, <3>6, <4>1, SubmitAttemptRefines DEF Record!Next, Journal
    <3> QED
      BY <2>2, <3>4, <3>5, <3>6 DEF Writes
  <2> QED
    BY <2>1, <2>2
<1>3. IInv /\ [Next]_vars => [Record!Next]_(Record!vars)
  BY <1>2 DEF Record!vars, LessonRows, TopicRows, Submitted, Journal
<1> QED
  BY <1>1, <1>3, Invariant, PTL DEF Spec, RecordSpec, Record!Spec
=============================================================================
