----------------------------- MODULE StudyStreak -----------------------------
(***************************************************************************)
(* The streak on the learner's home page: one request fixes its moment and  *)
(* its time zone, asks the database side by side for today's date and for   *)
(* the latest run of learning days, starts over in the default zone when    *)
(* the database does not know the learner's, and counts the run if it ends  *)
(* today or yesterday.                                                      *)
(* Source: backend/src/modules/learning/home/.                              *)
(*                                                                          *)
(* An instant belongs to a day of each zone.                                *)
(***************************************************************************)
EXTENDS Integers, FiniteSets, FiniteSetsExt

CONSTANTS
  DayLength,  \* instants in a day
  Shift,      \* by how many instants the days of the default zone begin sooner
  MaxTime     \* bound on the clock

Zones == {"own", "default"}
Day(zone, t) == (t + IF zone = "own" THEN 0 ELSE Shift) \div DayLength

Pending == [last |-> -2, length |-> -1]
NoneYet == [last |-> -2, length |-> 0]

VARIABLES
  instant,  \* the clock
  studied,  \* occurredAt of the lesson_completed, topic_completed and
            \* exercise_submitted events
  at,       \* the moment of the request, -1 between requests
  zone,     \* its zone
  known,    \* the database knows the learner's own zone
  today,    \* bounds.today, -1 until it is read
  run,      \* the latest run of learning days
  seen,     \* the events that query saw
  streak    \* streakDays of the answer, -1 until then

request == <<at, zone, known, today, run, seen, streak>>
vars == <<instant, studied, request>>

Init ==
  /\ instant = 0 /\ studied = {}
  /\ at = -1 /\ zone = "default" /\ known = TRUE
  /\ today = -1 /\ run = Pending /\ seen = {} /\ streak = -1

-----------------------------------------------------------------------------
Study ==
  /\ studied' = studied \cup {instant}
  /\ UNCHANGED <<instant, request>>

Tick ==
  /\ instant < MaxTime /\ instant' = instant + 1
  /\ UNCHANGED <<studied, request>>

\* getHome: the zone of the profile, or the default one when it is not valid.
GetHome ==
  /\ at = -1 \/ streak # -1
  /\ at' = instant /\ zone' \in Zones /\ known' \in BOOLEAN
  /\ today' = -1 /\ run' = Pending /\ seen' = {} /\ streak' = -1
  /\ UNCHANGED <<instant, studied>>

Asked == at # -1 /\ streak = -1
Accepted == zone = "default" \/ known

LoadToday ==
  /\ Asked /\ Accepted /\ today = -1
  /\ today' = Day(zone, at)
  /\ UNCHANGED <<instant, studied, at, zone, known, run, seen, streak>>

LearningDays(events) == {Day(zone, e) : e \in {x \in events : x <= at}}

\* day - ROW_NUMBER() OVER (ORDER BY day): the same for days in a row.
Island(days, d) == d - Cardinality({c \in days : c <= d})

\* The island with the greatest last day.
LoadLatestRun ==
  /\ Asked /\ Accepted /\ run = Pending
  /\ LET days == LearningDays(studied)
         latest == {d \in days : Island(days, d) = Island(days, Max(days))}
     IN  run' = IF days = {} THEN NoneYet
                ELSE [last |-> Max(days), length |-> Cardinality(latest)]
  /\ seen' = studied
  /\ UNCHANGED <<instant, studied, at, zone, known, today, streak>>

\* SQLSTATE 22023: both queries run again in the default zone.
Fallback ==
  /\ Asked /\ ~Accepted
  /\ zone' = "default" /\ today' = -1 /\ run' = Pending /\ seen' = {}
  /\ UNCHANGED <<instant, studied, at, known, streak>>

\* Mutant: a run that ended yesterday is broken.
CountsToday(r, day) == IF r.last = day THEN r.length ELSE 0

\* countStreak.
CountStreak(r, day) == IF r.last \in {day, day - 1} THEN r.length ELSE 0

Answer ==
  /\ Asked /\ today # -1 /\ run # Pending
  /\ streak' = CountStreak(run, today)
  /\ UNCHANGED <<instant, studied, at, zone, known, today, run, seen>>

Next ==
  Study \/ Tick \/ GetHome \/ LoadToday \/ LoadLatestRun \/ Fallback \/ Answer

Spec == Init /\ [][Next]_vars

-----------------------------------------------------------------------------
(* Property.                                                                *)

\* The streak is the number of learning days without a gap that end today or, as
\* long as nothing was done today, yesterday, in one and the same zone, as of the
\* moment of the request: days after it, days of the other zone, and older runs
\* do not count.
StreakIsExact ==
  streak # -1 =>
    LET days == LearningDays(seen)
        now == Day(zone, at)
        unbroken(n) == \E end \in {now - 1, now} : \A k \in 0 .. n - 1 : end - k \in days
    IN  /\ unbroken(streak)
        /\ \A n \in 0 .. Cardinality(days) : unbroken(n) => n <= streak
=============================================================================
