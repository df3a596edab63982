----------------------------- MODULE LearningPath -----------------------------
(***************************************************************************)
(* The learner's path: which lessons of a level are open, which one to      *)
(* continue, and the start of a lesson, which applies the unlock rule again *)
(* on the server.  The path is put together from queries that run side by   *)
(* side, outside any transaction, while lessons are started, completed,     *)
(* published, retired and moved.                                            *)
(* Source: backend/src/modules/learning/path/, the unlock check of          *)
(* learning/activity/lesson-activity.service.ts, and                        *)
(* backend/src/common/policies/lesson-readiness.policy.ts.                  *)
(*                                                                          *)
(* A lesson is its id and a level its orderIndex.                           *)
(***************************************************************************)
EXTENDS Integers, FiniteSets, FiniteSetsExt

CONSTANTS
  Lessons,    \* ids
  Levels,     \* orderIndex of the levels
  LevelAt,    \* the level of each lesson
  Places,     \* Lesson.orderIndex
  MaxEdits,   \* bound on the edits of the CMS
  MaxTime     \* bound on the clock of lastActivityAt

ASSUME LessonsAssumption ==
  /\ Lessons \subseteq Nat \ {0} /\ IsFiniteSet(Lessons) /\ Levels \subseteq Nat \ {0} /\ Places \subseteq Nat
  /\ LevelAt \in [Lessons -> Levels] /\ MaxEdits \in Nat /\ MaxTime \in Nat

Nothing == 0

Parts == {"goal", "levels", "lessons", "progress"}

VARIABLES
  listed,    \* the published levels
  public,    \* the lessons that are published and have a published topic or story
  place,     \* Lesson.orderIndex
  status,    \* Progress.status, "none" without a row
  active,    \* Progress.lastActivityAt, kept while the lesson is not done
  goal,      \* the level of the active goal
  clock,     \* the server's clock
  edits,     \* how often the content or the goal was changed
  pc,        \* a request for the path: "idle", "loading", "answered"
  unread,    \* the queries it still waits for
  copy,      \* what the others returned
  since,     \* what has changed since it began: "content", "progress"
  offer      \* the answer: the state of every lesson, and the next one

content == <<listed, public, place>>
personal == <<status, active, goal, clock>>
request == <<pc, unread, copy, offer>>
vars == <<content, personal, edits, since, request>>

NoOffer == [state |-> [l \in Lessons |-> "unlisted"], next |-> Nothing]

NoCopy == [goal |-> Nothing, levels |-> {}, lessons |-> {},
           place |-> [l \in Lessons |-> l],
           status |-> [l \in Lessons |-> "none"], active |-> [l \in Lessons |-> 0]]

\* buildLessonReadyWhere.
Ready == {l \in public : LevelAt[l] \in listed}

Init ==
  /\ listed = Levels /\ public \in SUBSET Lessons
  /\ place = [l \in Lessons |-> l]
  /\ status = [l \in Lessons |-> "none"] /\ active = [l \in Lessons |-> 0]
  /\ goal \in Levels \cup {Nothing} /\ clock = 0 /\ edits = 0
  /\ pc = "idle" /\ unread = {} /\ copy = NoCopy /\ since = {} /\ offer = NoOffer

-----------------------------------------------------------------------------
(* The unlock rule and the order of the lessons, over any copy of the rows. *)

\* Mutant: nothing but the lesson before opens a lesson.
UnlockedChained(isFirst, previous, own) == previous = "done" \/ own # "none"

\* isLessonUnlocked.
Unlocked(isFirst, previous, own) == isFirst \/ previous = "done" \/ own # "none"

\* compareReadyLessons.
Before(at, k, l) == at[k] < at[l] \/ (at[k] = at[l] /\ k < l)

Earlier(ready, at, l) == {k \in ready : LevelAt[k] = LevelAt[l] /\ Before(at, k, l)}

\* The last of the ready lessons before l.
Previous(ready, at, l) ==
  LET es == Earlier(ready, at, l) IN
  IF es = {} THEN Nothing ELSE CHOOSE k \in es : \A j \in es : j = k \/ Before(at, j, k)

Open(ready, at, progress, l) ==
  LET p == Previous(ready, at, l) IN
  Unlocked(p = Nothing, IF p = Nothing THEN "none" ELSE progress[p], progress[l])

\* Mutant: the lesson before is looked for among all lessons, ready or not.
AcceptsAfterAny(l) == l \in Ready /\ Open(Lessons, place, status, l)

\* assertLessonUnlocked, after the lesson was found to be ready.
Accepts(l) == l \in Ready /\ Open(Ready, place, status, l)

-----------------------------------------------------------------------------
(* What the path shows, from the copies of the rows.                        *)

Shown == {l \in copy.lessons : LevelAt[l] \in copy.levels}

Opened(l) == Open(copy.lessons, copy.place, copy.status, l)

\* The order of the path: level by level, and within a level by place.
Precedes(k, l) ==
  \/ LevelAt[k] < LevelAt[l]
  \/ LevelAt[k] = LevelAt[l] /\ Before(copy.place, k, l)

\* The most recently active of ls, the first in order among equals.
Latest(ls) ==
  CHOOSE l \in ls : \A k \in ls \ {l} :
    copy.active[k] < copy.active[l] \/ (copy.active[k] = copy.active[l] /\ Precedes(l, k))

Learning(ls) == {l \in ls : copy.status[l] = "learning"}

\* The lesson to continue on a level: the one last worked on, or the first open
\* one that is not done.
Current(level) ==
  LET ls == {l \in Shown : LevelAt[l] = level /\ Opened(l)}
      todo == {l \in ls : copy.status[l] # "done"}
  IN  IF Learning(ls) # {} THEN Latest(Learning(ls))
      ELSE IF todo = {} THEN Nothing
      ELSE CHOOSE l \in todo : \A k \in todo \ {l} : Precedes(l, k)

\* buildLevelPath.
StateOf(l) ==
  IF l \notin Shown THEN "unlisted"
  ELSE IF copy.status[l] = "done" THEN "done"
  ELSE IF l = Current(LevelAt[l]) THEN "current"
  ELSE IF Opened(l) THEN "available" ELSE "locked"

\* Mutant: only the level of the goal is looked at.
HigherNone == {}

\* The levels above the goal that have a lesson to continue.
Higher == {v \in copy.levels : v > copy.goal /\ Current(v) # Nothing}

\* selectNextLesson.
NextLesson ==
  IF Learning(Shown) # {} THEN Latest(Learning(Shown))
  ELSE IF copy.goal = Nothing THEN Nothing
  ELSE IF Current(copy.goal) # Nothing THEN Current(copy.goal)
  ELSE IF Higher = {} THEN Nothing ELSE Current(Min(Higher))

-----------------------------------------------------------------------------
(* GET /learning/path and the part of GET /learning/home that is the same.  *)

Ask ==
  /\ pc # "loading"
  /\ pc' = "loading" /\ unread' = Parts /\ copy' = NoCopy /\ offer' = NoOffer
  /\ since' = {}
  /\ UNCHANGED <<content, personal, edits>>

\* One of the queries of loadPathState, in any order.  Progress is read for the
\* lessons that are ready at that moment only.
Load(part) ==
  /\ pc = "loading" /\ part \in unread
  /\ unread' = unread \ {part}
  /\ copy' = CASE part = "goal" -> [copy EXCEPT !.goal = goal]
               [] part = "levels" -> [copy EXCEPT !.levels = listed]
               [] part = "lessons" -> [copy EXCEPT !.lessons = Ready, !.place = place]
               [] part = "progress" ->
                    [copy EXCEPT
                       !.status = [l \in Lessons |-> IF l \in Ready THEN status[l] ELSE "none"],
                       !.active = [l \in Lessons |-> IF l \in Ready THEN active[l] ELSE 0]]
  /\ UNCHANGED <<content, personal, edits, since, pc, offer>>

\* buildLevelPath for every level, and selectNextLesson.
Build ==
  /\ pc = "loading" /\ unread = {}
  /\ pc' = "answered" /\ copy' = NoCopy
  /\ offer' = [state |-> [l \in Lessons |-> StateOf(l)], next |-> NextLesson]
  /\ UNCHANGED <<content, personal, edits, since, unread>>

-----------------------------------------------------------------------------
(* The learner: the transactions of LessonActivity, one step each.          *)

Wrote(l, s) ==
  /\ status' = [status EXCEPT ![l] = s]
  /\ active' = [active EXCEPT ![l] = IF s = "done" THEN 0 ELSE clock]
  /\ since' = since \cup {"progress"}
  /\ UNCHANGED <<content, goal, clock, edits, request>>

Start(l) == status[l] = "none" /\ Accepts(l) /\ Wrote(l, "learning")

\* A topic or an exercise of the lesson.
Study(l) == status[l] = "learning" /\ l \in Ready /\ Wrote(l, "learning")

Complete(l) == status[l] = "learning" /\ l \in Ready /\ Wrote(l, "done")

\* What the answer offers.
Follow ==
  /\ pc = "answered"
  /\ \E l \in Lessons : l = offer.next /\ (Start(l) \/ Complete(l))

Tick ==
  /\ clock < MaxTime /\ clock' = clock + 1
  /\ UNCHANGED <<content, status, active, goal, edits, since, request>>

-----------------------------------------------------------------------------
(* The CMS, and the learner's goal.                                         *)

Changed(what) == edits < MaxEdits /\ edits' = edits + 1 /\ since' = since \cup what

\* A lesson is published, retired, or loses or gets its first topic.
Toggle(l) ==
  /\ Changed({"content"})
  /\ public' = IF l \in public THEN public \ {l} ELSE public \cup {l}
  /\ UNCHANGED <<listed, place, personal, request>>

ToggleLevel(v) ==
  /\ Changed({"content"})
  /\ listed' = IF v \in listed THEN listed \ {v} ELSE listed \cup {v}
  /\ UNCHANGED <<public, place, personal, request>>

\* The order within a level is unique.
Move(l) ==
  /\ Changed({"content"})
  /\ \E n \in Places :
       /\ \A k \in Lessons : LevelAt[k] = LevelAt[l] => place[k] # n
       /\ place' = [place EXCEPT ![l] = n]
  /\ UNCHANGED <<listed, public, personal, request>>

SetGoal(v) ==
  /\ Changed({}) /\ goal # v /\ goal' = v
  /\ UNCHANGED <<content, status, active, clock, request>>

Next ==
  \/ Ask \/ Build \/ Follow \/ Tick
  \/ \E part \in Parts : Load(part)
  \/ \E l \in Lessons : Start(l) \/ Study(l) \/ Complete(l) \/ Toggle(l) \/ Move(l)
  \/ \E v \in Levels : ToggleLevel(v) \/ SetGoal(v)

Spec == Init /\ [][Next]_vars

\* Requests are answered, and a learner asks again and again and does what is
\* offered.  An answer may be out of date; then the learner asks once more.
Fairness ==
  /\ WF_vars(Ask) /\ WF_vars(Build) /\ SF_vars(Follow)
  /\ \A part \in Parts : WF_vars(Load(part))

FairSpec == Spec /\ Fairness

-----------------------------------------------------------------------------
(* Properties.                                                              *)

\* What the path shows open the server opens, and what it shows locked the
\* server refuses: the path and startLesson find the lesson before in different
\* ways, and the path does so from rows read at different moments.  Only an edit
\* of the content may come in between, or, for a locked lesson, the learner's
\* own progress.  The lesson to continue is the current one of its level.
OffersAreHonoured ==
  pc = "answered" /\ "content" \notin since =>
    /\ \A l \in Lessons : offer.state[l] \in {"current", "available"} => Accepts(l)
    /\ \A l \in Lessons :
         offer.state[l] = "locked" /\ "progress" \notin since => ~Accepts(l)
    /\ offer.next # Nothing => offer.state[offer.next] = "current"

\* A learner who keeps doing what the path offers ends with every lesson that is
\* ready at the level of the goal and above it done, and none left half done:
\* the path never runs dry before, and never offers what is refused for ever.
FollowingFinishes ==
  <>[](\A l \in Ready :
         /\ status[l] # "learning"
         /\ goal # Nothing /\ LevelAt[l] >= goal => status[l] = "done")
=============================================================================
