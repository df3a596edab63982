------------------------------ MODULE MediaMetrics ------------------------------
(***************************************************************************)
(* The database gauges of the metrics endpoint of one backend process      *)
(* (media-observability.service.ts, media-metrics.server.ts).              *)
(*                                                                         *)
(* A scrape answers from a cached snapshot while it is fresh.  Else it     *)
(* awaits the active collection, or starts one: a transaction in           *)
(* PostgreSQL raced by a timer.  The driver's call goes on when the timer  *)
(* wins; a scrape that comes meanwhile falls back on the last snapshot.    *)
(*                                                                         *)
(* A promise that settles runs all its reactions, the scrapes that await   *)
(* it included, before any other callback: one action.                     *)
(***************************************************************************)
EXTENDS Naturals

CONSTANTS
  Scrapes,         \* connections of the metrics listener
  MaxCollections   \* bound on the collections started

VARIABLES
  last,     \* how many collections have been started
  driver,   \* the driver's call of each collection
  promise,  \* how each collection settled for the scrapes
  active,   \* activeCollection, or 0
  cache,    \* databaseCache: the collection it is of, or 0, and its age
  scrape    \* what each scrape awaits, and was rendered

vars == <<last, driver, promise, active, cache, scrape>>

Collections == 1 .. MaxCollections
NoAnswer == [available |-> FALSE, stale |-> FALSE, of |-> 0]

Init ==
  /\ last = 0 /\ active = 0
  /\ driver = [c \in Collections |-> "none"]
  /\ promise = [c \in Collections |-> "none"]
  /\ cache = [of |-> 0, age |-> "old"]
  /\ scrape = [s \in Scrapes |-> [pc |-> "idle", on |-> 0, answer |-> NoAnswer]]

Rendered(a) == [pc |-> "rendered", on |-> 0, answer |-> a]
Awaits(c) == [pc |-> "waiting", on |-> c, answer |-> NoAnswer]

\* The catch of databaseSnapshot: the last snapshot up to its stale age, or none.
Fallback ==
  IF cache.age = "old" THEN NoAnswer
  ELSE [available |-> FALSE, stale |-> TRUE, of |-> cache.of]

\* The cached snapshot is fresh.
ScrapeCached(s) ==
  /\ scrape[s].pc # "waiting" /\ cache.age = "fresh"
  /\ scrape' = [scrape EXCEPT ![s] =
       Rendered([available |-> TRUE, stale |-> FALSE, of |-> cache.of])]
  /\ UNCHANGED <<last, driver, promise, active, cache>>

\* A collection is active: await it, or fall back at once if its timer has won.
ScrapeJoins(s) ==
  /\ scrape[s].pc # "waiting" /\ cache.age # "fresh" /\ active # 0
  /\ scrape' = [scrape EXCEPT ![s] =
       IF promise[active] = "pending" THEN Awaits(active) ELSE Rendered(Fallback)]
  /\ UNCHANGED <<last, driver, promise, active, cache>>

\* No collection is active: start one.
ScrapeStarts(s) ==
  /\ scrape[s].pc # "waiting" /\ cache.age # "fresh" /\ active = 0
  /\ last < MaxCollections
  /\ last' = last + 1
  /\ active' = last'
  /\ driver' = [driver EXCEPT ![last'] = "running"]
  /\ promise' = [promise EXCEPT ![last'] = "pending"]
  /\ scrape' = [scrape EXCEPT ![s] = Awaits(last')]
  /\ UNCHANGED cache

\* The scrapes that await c are rendered with a.
Resume(c, a) ==
  scrape' = [s \in Scrapes |-> IF scrape[s].on = c THEN Rendered(a) ELSE scrape[s]]

\* Mutant. The success of a call its timer has given up is cached all the same.
CallEndsLate(c, ok) ==
  /\ driver[c] = "running"
  /\ driver' = [driver EXCEPT ![c] = "ended"]
  /\ active' = IF active = c THEN 0 ELSE active
  /\ cache' = IF ok THEN [of |-> c, age |-> "fresh"] ELSE cache
  /\ promise' = IF promise[c] = "pending"
                THEN [promise EXCEPT ![c] = IF ok THEN "success" ELSE "error"] ELSE promise
  /\ Resume(c, IF ok THEN [available |-> TRUE, stale |-> FALSE, of |-> c] ELSE Fallback)
  /\ UNCHANGED last

\* The driver's call ends.  If the timer has won, its result is dropped.
CallEnds(c, ok) ==
  /\ driver[c] = "running"
  /\ driver' = [driver EXCEPT ![c] = "ended"]
  /\ active' = IF active = c THEN 0 ELSE active
  /\ IF promise[c] # "pending" THEN UNCHANGED <<promise, cache, scrape>>
     ELSE IF ok
     THEN /\ promise' = [promise EXCEPT ![c] = "success"]
          /\ cache' = [of |-> c, age |-> "fresh"]
          /\ Resume(c, [available |-> TRUE, stale |-> FALSE, of |-> c])
     ELSE /\ promise' = [promise EXCEPT ![c] = "error"]
          /\ Resume(c, Fallback)
          /\ UNCHANGED cache
  /\ UNCHANGED last

\* Mutant. A timed-out collection is let go like one that failed.
TimeoutLetsGo(c) ==
  /\ promise[c] = "pending"
  /\ promise' = [promise EXCEPT ![c] = "timeout"]
  /\ active' = IF active = c THEN 0 ELSE active
  /\ Resume(c, Fallback)
  /\ UNCHANGED <<last, driver, cache>>

\* Mutant. The timer settles nothing.
TimeoutOnlyRecords(c) ==
  /\ promise[c] = "pending"
  /\ UNCHANGED vars

\* The timer of withTimeout wins: the collection stays active until its call ends.
Timeout(c) ==
  /\ promise[c] = "pending"
  /\ promise' = [promise EXCEPT ![c] = "timeout"]
  /\ Resume(c, Fallback)
  /\ UNCHANGED <<last, driver, active, cache>>

\* Time passes: beyond the cache's lifetime, then beyond its use as a stale one.
CacheAges ==
  /\ cache.age # "old"
  /\ cache' = [cache EXCEPT !.age = IF cache.age = "fresh" THEN "stale" ELSE "old"]
  /\ UNCHANGED <<last, driver, promise, active, scrape>>

Next ==
  \/ \E s \in Scrapes : ScrapeCached(s) \/ ScrapeJoins(s) \/ ScrapeStarts(s)
  \/ \E c \in Collections : (\E ok \in BOOLEAN : CallEnds(c, ok)) \/ Timeout(c)
  \/ CacheAges

Spec == Init /\ [][Next]_vars

\* A timer fires; a call of the driver may hang for ever.
Fairness == \A c \in Collections : WF_vars(Timeout(c))

-----------------------------------------------------------------------------
(* Properties *)

\* At most one call is under way in the driver's pool, also after timeouts.
OneCollection ==
  \A c, d \in Collections : driver[c] = "running" /\ driver[d] = "running" => c = d

\* A snapshot is rendered as available only if the latest collection completed
\* within its budget, and a stale one is of a collection that had completed.
AvailableIsTheLatest ==
  [][\A s \in Scrapes : scrape'[s].pc = "rendered" /\ scrape'[s] # scrape[s] =>
       LET a == scrape'[s].answer IN
       /\ a.available => a.of = last' /\ promise'[a.of] = "success"
       /\ a.stale => a.of # 0 /\ promise'[a.of] = "success"]_vars

\* A scrape is rendered whatever the database does.
ScrapesEnd == \A s \in Scrapes : (scrape[s].pc = "waiting") ~> (scrape[s].pc = "rendered")
=============================================================================
