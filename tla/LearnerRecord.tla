----------------------------- MODULE LearnerRecord -----------------------------
(***************************************************************************)
(* What lesson activity promises about a learner's record, without locks,   *)
(* retries or content: a journal entry for every change and at most one     *)
(* under a key, statuses that only move forward, attempts numbered in turn  *)
(* and never changed.                                                       *)
(***************************************************************************)
EXTENDS Integers

CONSTANTS Keys, Lessons, Topics, Exercises,
          LessonOfTopic, LessonOfExercise, TopicOfExercise
VARIABLES lessonStatus, topicStatus, submissions, journal
vars == <<lessonStatus, topicStatus, submissions, journal>>

Started(l) == lessonStatus[l] # "none"
Fresh(k) == \A entry \in journal : entry[1] # k
UsesKey(k) == Fresh(k) /\ ~Fresh(k)'
Journal(k, operation, target) == journal' = journal \cup {<<k, operation, target>>}

Init ==
  /\ lessonStatus = [l \in Lessons |-> "none"]
  /\ topicStatus = [t \in Topics |-> "none"]
  /\ submissions = {}
  /\ journal = {}

StartLesson(k, l) ==
  /\ lessonStatus[l] = "none"
  /\ lessonStatus' = [lessonStatus EXCEPT ![l] = "learning"]
  /\ Journal(k, "lesson.start", l)
  /\ UNCHANGED <<topicStatus, submissions>>

StartTopic(k, t) ==
  /\ Started(LessonOfTopic[t]) /\ topicStatus[t] = "none"
  /\ topicStatus' = [topicStatus EXCEPT ![t] = "learning"]
  /\ Journal(k, "topic.start", t)
  /\ UNCHANGED <<lessonStatus, submissions>>

\* The next attempt at e has the least number not yet given; the first one in
\* a topic also starts the topic.
Submit(k, e) ==
  LET t     == TopicOfExercise[e]
      taken == {s[2] : s \in {x \in submissions : x[1] = e}}
  IN  /\ Started(LessonOfExercise[e])
      /\ \E n \in {1} \cup {i + 1 : i \in taken} :
           /\ n \notin taken /\ 1 .. n - 1 \subseteq taken
           /\ submissions' = submissions \cup {<<e, n, k>>}
      /\ topicStatus' = [u \in Topics |->
           IF u = t /\ topicStatus[u] = "none" THEN "learning" ELSE topicStatus[u]]
      /\ Journal(k, "exercise.submit", e)
      /\ UNCHANGED lessonStatus

CompleteTopic(k, t) ==
  /\ Started(LessonOfTopic[t]) /\ topicStatus[t] = "learning"
  /\ topicStatus' = [topicStatus EXCEPT ![t] = "done"]
  /\ Journal(k, "topic.complete", t)
  /\ UNCHANGED <<lessonStatus, submissions>>

CompleteLesson(k, l) ==
  /\ lessonStatus[l] = "learning"
  /\ lessonStatus' = [lessonStatus EXCEPT ![l] = "done"]
  /\ Journal(k, "lesson.complete", l)
  /\ UNCHANGED <<topicStatus, submissions>>

\* Every step makes an entry, and uses up the key it is made under.
Next ==
  /\ journal' # journal
  /\ \E k \in Keys :
       /\ UsesKey(k)
       /\ \/ \E l \in Lessons : StartLesson(k, l) \/ CompleteLesson(k, l)
          \/ \E t \in Topics : StartTopic(k, t) \/ CompleteTopic(k, t)
          \/ \E e \in Exercises : Submit(k, e)

Spec == Init /\ [][Next]_vars
=============================================================================
