---------------------------- MODULE ExportSnapshot ----------------------------
(***************************************************************************)
(* How one run of the data export collects the learner's rows: a single     *)
(* REPEATABLE READ transaction that reads table after table, the long ones  *)
(* in pages by id, adds up the size as it goes, and gives up when the file  *)
(* would be too large; all the while the learner goes on studying.          *)
(* Source: backend/src/modules/user/jobs/data-export.job.ts; the writers    *)
(* are those of learning/activity/lesson-activity.service.ts and            *)
(* onboarding/onboarding.service.ts.                                        *)
(*                                                                          *)
(* The tables kept are those whose rows refer to one another or are read in *)
(* pages; every row counts one unit of size.  No code writes review events  *)
(* or exam answers yet, so their rows are there from the start.             *)
(***************************************************************************)
EXTENDS Integers, FiniteSets, Sequences

CONSTANTS
  Writes,     \* the learner's transactions during the run
  MaxOld,     \* bound on the review events and exam answers there are
  PageSize,   \* 1000: LIMIT of a page
  MaxSize     \* MAX_PRIVATE_MEDIA_OBJECT_BYTES, in rows

\* What a transaction inserts: a plan and its item, an exercise attempt and the
\* event that names it, or a finished lesson and its event.
Kinds == {"plan", "submit", "finish"}

Plain == {"plans", "items", "attempts", "progress"}
Paged == {"reviews", "answers", "events"}
Tables == Plain \cup Paged

VARIABLES
  kind,      \* what each transaction does
  tx,        \* "idle", "open" or "committed"
  eventId,   \* the LearningEvent.id it drew, 0 before
  nextId,    \* the sequence behind LearningEvent.id
  db,        \* the committed rows of every table; an event is <<id, write>>
  at,        \* the statement the run is at
  snap,      \* the snapshot its transaction reads
  got,       \* what it has collected
  last,      \* the greatest id of the page before
  estimate   \* estimatedBytes

writers == <<kind, tx, eventId, nextId, db>>
reader == <<at, snap, got, last, estimate>>
vars == <<writers, reader>>

NoRows == [t \in Tables |-> IF t \in Plain THEN {} ELSE <<>>]

Old(n) == {<<i, "old">> : i \in 1 .. n}

Init ==
  /\ kind \in [Writes -> Kinds]
  /\ tx = [w \in Writes |-> "idle"] /\ eventId = [w \in Writes |-> 0] /\ nextId = 1
  /\ \E r, a \in 0 .. MaxOld :
       db = [t \in Tables |-> CASE t = "reviews" -> Old(r) [] t = "answers" -> Old(a)
                                [] OTHER -> {}]
  /\ at = "begin" /\ snap = [t \in Tables |-> {}] /\ got = NoRows
  /\ last = 0 /\ estimate = 0

-----------------------------------------------------------------------------
(* The learner.  An event draws its id when it is inserted and is seen when *)
(* its transaction commits, so that ids become visible out of order.        *)

Insert(w) ==
  /\ tx[w] = "idle"
  /\ tx' = [tx EXCEPT ![w] = "open"]
  /\ IF kind[w] = "plan"
     THEN UNCHANGED <<eventId, nextId>>
     ELSE eventId' = [eventId EXCEPT ![w] = nextId] /\ nextId' = nextId + 1
  /\ UNCHANGED <<kind, db, reader>>

Commit(w) ==
  /\ tx[w] = "open"
  /\ tx' = [tx EXCEPT ![w] = "committed"]
  /\ db' = CASE kind[w] = "plan" ->
                  [db EXCEPT !["plans"] = @ \cup {w}, !["items"] = @ \cup {w}]
             [] kind[w] = "submit" ->
                  [db EXCEPT !["attempts"] = @ \cup {w},
                             !["events"] = @ \cup {<<eventId[w], w>>}]
             [] kind[w] = "finish" ->
                  [db EXCEPT !["progress"] = @ \cup {w},
                             !["events"] = @ \cup {<<eventId[w], w>>}]
  /\ UNCHANGED <<kind, eventId, nextId, reader>>

-----------------------------------------------------------------------------
(* The run.                                                                 *)

\* The order of the statements.
After(s) ==
  CASE s = "begin" -> "plans" [] s = "plans" -> "items" [] s = "items" -> "attempts"
    [] s = "attempts" -> "progress" [] s = "progress" -> "reviews"
    [] s = "reviews" -> "answers" [] s = "answers" -> "static"
    [] s = "static" -> "events" [] s = "events" -> "payload"

\* The rows of all the tables in ts that were collected.
Collected(ts) ==
  LET rows(t) == IF t \in Plain THEN Cardinality(got[t]) ELSE Len(got[t])
      sum[s \in SUBSET ts] ==
        IF s = {} THEN 0 ELSE LET t == CHOOSE x \in s : TRUE IN rows(t) + sum[s \ {t}]
  IN  sum[ts]

\* Mutant: READ COMMITTED, every statement sees what is committed by then.
ViewCommitted == db

\* REPEATABLE READ: every statement sees what the first one saw.
View == snap

\* BEGIN and the first statement, which takes the snapshot.
Begin ==
  /\ at = "begin"
  /\ snap' = db /\ at' = After(at)
  /\ UNCHANGED <<writers, got, last, estimate>>

\* A table read by one statement.
Read ==
  /\ at \in Plain
  /\ got' = [got EXCEPT ![at] = View[at]]
  /\ at' = After(at)
  /\ UNCHANGED <<writers, snap, last, estimate>>

\* Mutant: WHERE id >= the last one.
RestClosed == {row \in View[at] : row[1] >= last}

\* WHERE id > the last one.
Rest == {row \in View[at] : row[1] > last}

\* ORDER BY id ASC LIMIT PageSize.
Page ==
  LET n == IF Cardinality(Rest) < PageSize THEN Cardinality(Rest) ELSE PageSize
      before(row) == {x \in Rest : x[1] < row[1]}
  IN  [i \in 1 .. n |-> CHOOSE row \in Rest : Cardinality(before(row)) = i - 1]

\* A page: an empty one ends the table.  The size is checked after every page.
ReadPage ==
  /\ at \in Paged
  /\ IF Page = <<>>
     THEN at' = After(at) /\ last' = 0 /\ UNCHANGED <<got, estimate>>
     ELSE /\ last' = Page[Len(Page)][1]
          /\ got' = [got EXCEPT ![at] = @ \o Page]
          /\ estimate' = estimate + Len(Page)
          /\ at' = IF estimate' > MaxSize THEN "large" ELSE at
  /\ UNCHANGED <<writers, snap>>

\* estimatedBytes starts over: the rows read so far hold the pages counted before.
StaticEstimate(n) == n

Static ==
  /\ at = "static"
  /\ estimate' = StaticEstimate(Collected(Tables \ {"events"}))
  /\ at' = IF estimate' > MaxSize THEN "large" ELSE After(at)
  /\ UNCHANGED <<writers, snap, got, last>>

\* The commit, and the exact size of the file.
Payload ==
  /\ at = "payload"
  /\ at' = IF Collected(Tables) > MaxSize THEN "large" ELSE "file"
  /\ UNCHANGED <<writers, snap, got, last, estimate>>

Ended == at \in {"large", "file"}

\* A statement fails, or the worker dies: the next run starts from nothing.
Fail ==
  /\ ~Ended /\ at # "begin"
  /\ at' = "begin" /\ got' = NoRows /\ last' = 0 /\ estimate' = 0
  /\ snap' = [t \in Tables |-> {}]
  /\ UNCHANGED writers

Run == Begin \/ Read \/ ReadPage \/ Static \/ Payload \/ Fail

Next == (\E w \in Writes : Insert(w) \/ Commit(w)) \/ Run

Spec == Init /\ [][Next]_vars

-----------------------------------------------------------------------------
(* Properties.                                                              *)

IdsOf(rows) == [i \in DOMAIN rows |-> rows[i][1]]
Seen(rows) == {rows[i] : i \in DOMAIN rows}

\* The file describes one moment of the learner's history, however long the
\* reading took and whatever was committed meanwhile: the items of every plan,
\* and only those; the attempt of every event that names one, and the event of
\* every attempt; the finished lesson of every lesson_completed event, and the
\* event of every finished lesson.  No page repeats or skips a row.
CopyHangsTogether ==
  at = "file" =>
    LET of(k) == {e[2] : e \in {x \in Seen(got["events"]) : kind[x[2]] = k}}
    IN  /\ got["items"] = got["plans"]
        /\ got["attempts"] = of("submit")
        /\ got["progress"] = of("finish")
        /\ \A t \in Paged : \A i, j \in DOMAIN got[t] :
             i < j => IdsOf(got[t])[i] < IdsOf(got[t])[j]
        /\ Seen(got["reviews"]) = db["reviews"] /\ Seen(got["answers"]) = db["answers"]
=============================================================================
