--------------------------- MODULE MCLessonActivity ---------------------------
(* Small courses and the requests the devices of one learner send about them. *)
EXTENDS LessonActivity

Say(key, operation, target, answer) ==
  [key |-> key, operation |-> operation, target |-> target, answer |-> answer]

None == {}
One == {1}
Second == {2}
Two == {1, 2}
InLessonOne == [x \in {1, 2} |-> 1]
Empty == [t \in {} |-> 1]
OnlyOne == [e \in {1} |-> 1]
Standalone == [e \in {1} |-> Null]

\* Exercise 1 belongs to topic 1, exercise 2 stands alone.
FirstInTopicOne == [e \in {1, 2} |-> IF e = 1 THEN 1 ELSE Null]

\* A whole lesson, every write under a key of its own.
Course ==
  {Say("a", "lesson.start", 1, Null), Say("b", "topic.start", 1, Null),
   Say("c", "exercise.submit", 1, 1), Say("d", "topic.complete", 1, Null),
   Say("e", "exercise.submit", 2, 1), Say("f", "lesson.complete", 1, Null)}

\* Two devices: the same exercise under two keys, one of them used a second
\* time with another answer, and the next lesson, locked until the first is done.
Devices ==
  {Say("a", "lesson.start", 1, Null), Say("b", "exercise.submit", 1, 1),
   Say("b", "exercise.submit", 1, 2), Say("c", "exercise.submit", 1, 1),
   Say("d", "lesson.complete", 1, Null), Say("e", "lesson.start", 2, Null)}

\* Two requests about one exercise while its author revises it.
Contended ==
  {Say("a", "lesson.start", 1, Null), Say("b", "exercise.submit", 1, 1)}
=============================================================================
