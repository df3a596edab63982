------------------------- MODULE SessionRefreshProofs -------------------------
(***************************************************************************)
(* Proofs about the session cookies of a browser, for any number of tabs,   *)
(* frontend processes, sessions and faults.                                *)
(*                                                                         *)
(* That the reuse alarm never goes off without a lost answer is inductive   *)
(* only with an account of where the successor of a rotated session is: as  *)
(* long as the jar holds a rotated token, its flight, an answer under way   *)
(* or a logout is going to replace it, and once the grace is over neither   *)
(* the jar nor any request has the token left.                             *)
(*                                                                         *)
(* What a logout leaves of its sign-in needs a second account, of lineages: *)
(* at most one session of a sign-in is live, and when it is not the jar's   *)
(* an answer, a settled flight or a logout bears it (FamilyInv).            *)
(***************************************************************************)
EXTENDS SessionRefresh, FiniteSetTheorems, WellFoundedInduction, TLAPS

Rows == [status : {"none", "live", "rotated", "ended"}, grace : BOOLEAN,
         access : {"fresh", "expiring", "expired"}]
Messages == [pc : {"free", "sent", "flight", "handler", "refreshing", "revoking", "reply"},
             kind : AllKinds, srv : Servers, access : Cookie,
             refresh : Cookie, set : Cookie, clear : BOOLEAN]
Jars == [access : Cookie, refresh : Cookie]
Entries == [st : {"idle", "sent", "issued", "refused", "failed"}, new : Cookie]

\* The types of all variables but the history variable signIn.
CoreOK ==
  /\ session \in [Sessions -> Rows] /\ alarm \in BOOLEAN
  /\ jar \in Jars
  /\ req \in [Requests -> Messages]
  /\ flight \in [Servers -> [Sessions -> Entries]]
  /\ late \subseteq Sessions /\ faults \in 0 .. MaxFaults

LEMMA Typed ==
  CoreOK => /\ session \in [Sessions -> Rows] /\ alarm \in BOOLEAN
            /\ jar \in Jars
            /\ req \in [Requests -> Messages]
            /\ flight \in [Servers -> [Sessions -> Entries]]
            /\ late \subseteq Sessions /\ faults \in 0 .. MaxFaults
  BY DEF CoreOK

\* A set of numbers that is not empty has a least element.
LEMMA NatMin ==
  ASSUME NEW T \in SUBSET Nat, T # {}
  PROVE  \E x \in T : \A y \in T : x <= y
<1> DEFINE Below == {0..x : x \in T}
<1>1. Below \subseteq FiniteSubsetsOf(Nat) /\ Below # {}
  <2>1. ASSUME NEW x \in T PROVE 0..x \in FiniteSubsetsOf(Nat)
    <3>1. IsFiniteSet(0..x)
      BY FS_Interval
    <3>. QED
      BY <3>1 DEF FiniteSubsetsOf
  <2>. QED
    BY <2>1
<1>2. IsWellFoundedOn(StrictSubsetOrdering(Nat), FiniteSubsetsOf(Nat))
  BY FS_StrictSubsetOrderingWellFounded
<1>3. PICK b \in Below : \A c \in Below : ~(<<c, b>> \in StrictSubsetOrdering(Nat))
  <2> HIDE DEF Below
  <2>. QED
    BY <1>1, <1>2, WFMin, Zenon
<1>4. PICK x \in T : b = 0..x
  OBVIOUS
<1>5. \A y \in T : x <= y
  <2>1. SUFFICES ASSUME NEW y \in T, y < x PROVE FALSE
    OBVIOUS
  <2>2. <<0..y, b>> \in StrictSubsetOrdering(Nat)
    BY <1>4, <2>1 DEF StrictSubsetOrdering
  <2>. QED
    BY <1>3, <2>2
<1>. QED
  BY <1>5

LEMMA Names ==
  /\ Sessions \subseteq Nat /\ None \notin Sessions /\ Cookie = Sessions \cup {None}
  /\ 1 \in Sessions /\ MaxFaults \in Nat
  /\ \E w \in Servers : Free.srv = w
<1>1. PICK w : w \in Servers
  BY BoundsAssumption
<1>2. (CHOOSE v \in Servers : TRUE) \in Servers
  BY <1>1
<1> QED BY <1>2, BoundsAssumption DEF Sessions, None, Cookie, Free

LEMMA FreshIds ==
  ASSUME Unused # {}
  PROVE  NextSession \in Sessions /\ session[NextSession].status = "none"
<1>1. Unused \in SUBSET Nat
  BY Names DEF Unused
<1>2. \E s \in Unused : \A t \in Unused : s <= t
  BY <1>1, NatMin
<1>3. NextSession \in Unused
  BY <1>2, Zenon DEF NextSession
<1> QED BY <1>3 DEF Unused

\* The fields of a request that starts or moves on.
LEMMA Started ==
  \A k \in AllKinds, w \in Servers, c \in Jars :
    /\ Request(k, w, c) \in Messages
    /\ Request(k, w, c).pc \in {"sent", "handler"}
    /\ Request(k, w, c).kind = k /\ Request(k, w, c).srv = w
    /\ Request(k, w, c).access = c.access /\ Request(k, w, c).refresh = c.refresh
    /\ Request(k, w, c).set = None /\ Request(k, w, c).clear = FALSE
    /\ Request(k, w, c).pc = "sent" => k \in Proxied
<1> SUFFICES ASSUME NEW k \in AllKinds, NEW w \in Servers, NEW c \in Jars
             PROVE  /\ Request(k, w, c) \in Messages
                    /\ Request(k, w, c).pc \in {"sent", "handler"}
                    /\ Request(k, w, c).kind = k /\ Request(k, w, c).srv = w
                    /\ Request(k, w, c).access = c.access /\ Request(k, w, c).refresh = c.refresh
                    /\ Request(k, w, c).set = None /\ Request(k, w, c).clear = FALSE
                    /\ Request(k, w, c).pc = "sent" => k \in Proxied
  OBVIOUS
<1>1. PICK v : v = Request(k, w, c)
  OBVIOUS
<1>2. PICK p : p = IF k \in Proxied THEN "sent" ELSE "handler"
  OBVIOUS
<1>3. p \in {"sent", "handler"} /\ (p = "sent" => k \in Proxied)
  BY <1>2
<1>4. c.access \in Cookie /\ c.refresh \in Cookie /\ None \in Cookie
  BY Names DEF Jars
<1>5. v = [pc |-> p, kind |-> k, srv |-> w, access |-> c.access, refresh |-> c.refresh,
           set |-> None, clear |-> FALSE]
  BY <1>1, <1>2 DEF Request, Free
<1>6. /\ v \in Messages /\ v.pc \in {"sent", "handler"} /\ v.kind = k /\ v.srv = w
      /\ v.access = c.access /\ v.refresh = c.refresh /\ v.set = None /\ v.clear = FALSE
      /\ v.pc = "sent" => k \in Proxied
  BY <1>3, <1>4, <1>5 DEF Messages
<1> QED BY <1>1, <1>6

LEMMA FreeRequest ==
  Free \in Messages /\ Free.pc = "free" /\ Free.set = None /\ Free.clear = FALSE
  BY Names DEF Free, Messages, AllKinds

\* Everything but where a request stands, and its verdict on the cookies.
SameAs(v, q) ==
  v.kind = q.kind /\ v.srv = q.srv /\ v.access = q.access /\ v.refresh = q.refresh /\ v.set = q.set

LEMMA Moved ==
  ASSUME NEW q \in Messages
  PROVE  /\ \A p \in {"handler", "flight", "refreshing", "revoking"} :
              LET v == [q EXCEPT !.pc = p] IN v \in Messages /\ SameAs(v, q) /\ v.pc = p /\ v.clear = q.clear
         /\ Answered(q) \in Messages /\ SameAs(Answered(q), q)
         /\ Answered(q).pc = "reply" /\ Answered(q).clear = q.clear
         /\ Cleared(q) \in Messages /\ SameAs(Cleared(q), q)
         /\ Cleared(q).pc = "reply" /\ Cleared(q).clear = TRUE
  BY DEF Messages, SameAs, Answered, Cleared

LEMMA Refusing ==
  ASSUME NEW q \in Messages
  PROVE  /\ RefusedMe(q) \in Messages /\ RefusedMe(q).pc = "reply" /\ RefusedMe(q).set = q.set
         /\ RefusedMe(q).access = q.access /\ RefusedMe(q).refresh = q.refresh
         /\ q.kind # "me" => RefusedMe(q).clear = q.clear
         /\ RefusedMe(q).kind = q.kind \/ q.kind = "recover"
<1>1. CASE q.kind = "me"
  BY <1>1, Moved DEF RefusedMe, SameAs
<1>2. CASE q.kind = "recover"
  <2>1. PICK a, v : a = Answered(q) /\ v = [a EXCEPT !.kind = "invalid"]
    OBVIOUS
  <2>2. RefusedMe(q) = v
    BY <1>2, <2>1 DEF RefusedMe
  <2>3. a \in Messages /\ SameAs(a, q) /\ a.pc = "reply" /\ a.clear = q.clear
    BY <2>1, Moved
  <2>4. /\ v \in Messages /\ v.pc = a.pc /\ v.set = a.set /\ v.access = a.access
        /\ v.refresh = a.refresh /\ v.clear = a.clear
    BY <2>1, <2>3 DEF Messages, AllKinds
  <2> QED BY <1>2, <2>2, <2>3, <2>4 DEF SameAs
<1>3. CASE q.kind \notin {"me", "recover"}
  BY <1>3, Moved DEF RefusedMe, SameAs
<1> QED BY <1>1, <1>2, <1>3

LEMMA Forwarding ==
  ASSUME NEW q \in Messages, NEW f \in Entries
  PROVE  /\ Forwarded(q, f) \in Messages /\ Forwarded(q, f).pc = "handler"
         /\ Forwarded(q, f).kind = q.kind /\ Forwarded(q, f).clear = q.clear
         /\ f.st = "issued" => /\ Forwarded(q, f).access = f.new /\ Forwarded(q, f).refresh = f.new
                               /\ Forwarded(q, f).set = f.new
         /\ f.st # "issued" =>
              /\ Forwarded(q, f).set = q.set
              /\ \/ Forwarded(q, f).access = None /\ Forwarded(q, f).refresh = None
                 \/ Forwarded(q, f).access = q.access /\ Forwarded(q, f).refresh = q.refresh
<1>1. PICK p : p = [q EXCEPT !.pc = "handler"]
  OBVIOUS
<1>2. p \in Messages /\ SameAs(p, q) /\ p.pc = "handler" /\ p.clear = q.clear
  BY <1>1, Moved
<1>3. CASE f.st = "issued"
  <2>1. Forwarded(q, f) = [p EXCEPT !.access = f.new, !.refresh = f.new, !.set = f.new]
    BY <1>1, <1>3 DEF Forwarded
  <2> QED BY <1>2, <1>3, <2>1 DEF SameAs, Messages, Entries
<1>4. CASE f.st = "refused" /\ ~Unexpired(q.access)
  <2>1. Forwarded(q, f) = [p EXCEPT !.access = None, !.refresh = None]
    BY <1>1, <1>4 DEF Forwarded
  <2> QED BY <1>2, <1>4, <2>1, Names DEF SameAs, Messages
<1>5. CASE f.st # "issued" /\ ~(f.st = "refused" /\ ~Unexpired(q.access))
  <2>1. Forwarded(q, f) = p
    BY <1>1, <1>5 DEF Forwarded
  <2> QED BY <1>2, <1>5, <2>1 DEF SameAs
<1> QED BY <1>3, <1>4, <1>5

-----------------------------------------------------------------------------
(* The rows of the backend.                                                 *)

\* What a change of the rows leaves alone: ages, used sessions, and graces that
\* have ended.
RowsKept ==
  /\ session' \in [Sessions -> Rows]
  /\ \A s \in Sessions : session'[s].status = "none" => session[s].status = "none"
  /\ \A s \in Sessions : session[s].status # "none" => session'[s].access = session[s].access
  /\ \A s \in Sessions : session[s].status = "none" => session'[s].access \in {session[s].access, "fresh"}
  /\ \A s \in Sessions : session[s].status # "live" /\ session[s].status # "none" =>
       session'[s] = session[s]

LEMMA Inserting ==
  ASSUME NEW rows \in [Sessions -> Rows], NEW n \in Sessions
  PROVE  /\ Inserted(rows, n) \in [Sessions -> Rows]
         /\ \A t \in Sessions \ {n} : Inserted(rows, n)[t] = rows[t]
         /\ Inserted(rows, n)[n].status = "live" /\ Inserted(rows, n)[n].access = "fresh"
<1>1. PICK row : row = [NoRow EXCEPT !.status = "live"]
  OBVIOUS
<1>2. row \in Rows /\ row.status = "live" /\ row.access = "fresh"
  BY <1>1 DEF NoRow, Rows
<1>3. Inserted(rows, n) = [rows EXCEPT ![n] = row]
  BY <1>1 DEF Inserted
<1> QED BY <1>2, <1>3

\* Session s is neither created nor reopened, nor is its rotation undone.
NoBirth(s) ==
  /\ session'[s].status = "none" <=> session[s].status = "none"
  /\ session'[s].status = "live" => session[s].status = "live"
  /\ session[s].status = "rotated" => session'[s].status = "rotated"

\* A refresh that is not taken for a reuse.
LEMMA Refreshing ==
  ASSUME CoreOK, NEW s \in Sessions, NEW new \in Cookie, BackendRefresh(s, new)
  PROVE  /\ RowsKept /\ alarm' \in BOOLEAN
         /\ IsReuse(s) \/ alarm' = alarm
         /\ new = None => /\ ~Live(s) /\ ~Live(s)'
                          /\ \A t \in Sessions : session'[t].status = "rotated" => session[t].status = "rotated"
                          /\ signIn' = signIn /\ \A t \in Sessions : NoBirth(t)
         /\ new # None => /\ new \in Sessions /\ Live(s) /\ session[new].status = "none"
                          /\ session'[new].status = "live" /\ session'[new].access = "fresh"
                          /\ session'[s].status = "rotated" /\ session'[s].grace
                          /\ \A t \in Sessions \ {s, new} : session'[t] = session[t]
                          /\ signIn' = [signIn EXCEPT ![new] = signIn[s]]
<1>1. session \in [Sessions -> Rows] /\ alarm \in BOOLEAN
  BY Typed
<1>2. s # None /\ None \notin Sessions
  BY Names
<1>3. CASE /\ Live(s) /\ Unused # {} /\ new = NextSession /\ session' = Rotated(s) /\ alarm' = alarm
           /\ signIn' = [signIn EXCEPT ![NextSession] = signIn[s]]
  <2>1. PICK n : n = NextSession
    OBVIOUS
  <2>2. n \in Sessions /\ session[n].status = "none" /\ session[s].status = "live" /\ n # s
    BY <1>3, <2>1, FreshIds DEF Live
  <2>3. PICK rows : rows = [session EXCEPT ![s].status = "rotated", ![s].grace = TRUE]
    OBVIOUS
  <2>4. PICK row : row = session[s]
    OBVIOUS
  <2>5. PICK old : old = [[row EXCEPT !.status = "rotated"] EXCEPT !.grace = TRUE]
    OBVIOUS
  <2>6. old \in Rows /\ old.status = "rotated" /\ old.grace /\ old.access = row.access
    BY <1>1, <2>4, <2>5 DEF Rows
  <2>7. rows = [session EXCEPT ![s] = old]
    BY <1>1, <2>3, <2>4, <2>5
  <2>8. rows \in [Sessions -> Rows] /\ rows[s] = old /\ \A t \in Sessions \ {s} : rows[t] = session[t]
    BY <1>1, <2>6, <2>7
  <2>9. session' = Inserted(rows, n)
    BY <1>3, <2>1, <2>3 DEF Rotated
  <2>10. /\ session' \in [Sessions -> Rows] /\ session'[n].status = "live" /\ session'[n].access = "fresh"
         /\ session'[s] = old /\ \A t \in Sessions \ {s, n} : session'[t] = session[t]
    BY <2>2, <2>8, <2>9, Inserting
  <2>11. RowsKept
    BY <1>1, <2>2, <2>4, <2>6, <2>10 DEF RowsKept
  <2> QED BY <1>1, <1>2, <1>3, <2>1, <2>2, <2>6, <2>10, <2>11
<1>4. CASE /\ ~Live(s) /\ new = None /\ session' = Refused(s) /\ alarm' = (alarm \/ IsReuse(s))
           /\ signIn' = signIn
  <2>1. ASSUME NEW t \in Sessions
        PROVE  /\ session'[t] \in Rows
               /\ session[t].status = "live" =>
                    session'[t].status \in {"live", "ended"} /\ session'[t].access = session[t].access
               /\ session[t].status # "live" => session'[t] = session[t]
    <3>1. CASE IsReuse(s)
      <4>1. session'[t] = IF Live(t) THEN [session[t] EXCEPT !.status = "ended"] ELSE session[t]
        BY <1>4, <3>1 DEF Refused
      <4>2. Live(t) <=> session[t].status = "live"
        BY <1>2 DEF Live
      <4>3. PICK row : row = session[t]
        OBVIOUS
      <4>4. row \in Rows
        BY <1>1, <4>3
      <4>5. PICK v : v = [row EXCEPT !.status = "ended"]
        OBVIOUS
      <4>6. v \in Rows /\ v.status = "ended" /\ v.access = row.access
        BY <4>4, <4>5 DEF Rows
      <4> QED BY <4>1, <4>2, <4>3, <4>4, <4>5, <4>6
    <3>2. CASE ~IsReuse(s)
      BY <1>1, <1>4, <3>2 DEF Refused
    <3> QED BY <3>1, <3>2
  <2>2. session' \in [Sessions -> Rows]
    <3>1. session' = [t \in Sessions |-> session'[t]]
      <4>1. CASE IsReuse(s)
        BY <1>4, <4>1 DEF Refused
      <4>2. CASE ~IsReuse(s)
        BY <1>1, <1>4, <4>2 DEF Refused
      <4> QED BY <4>1, <4>2
    <3> QED BY <2>1, <3>1
  <2>3. RowsKept
    BY <2>1, <2>2 DEF RowsKept
  <2>4. ~Live(s)'
    BY <1>2, <1>4, <2>1 DEF Live
  <2>5. \A t \in Sessions : session'[t].status = "rotated" => session[t].status = "rotated"
    BY <2>1
  <2>6. alarm' \in BOOLEAN /\ (IsReuse(s) \/ alarm' = alarm)
    BY <1>1, <1>4 DEF IsReuse
  <2>7. \A t \in Sessions : NoBirth(t)
    BY <2>1 DEF NoBirth
  <2> QED BY <1>2, <1>4, <2>3, <2>4, <2>5, <2>6, <2>7
<1> QED BY <1>3, <1>4 DEF BackendRefresh

LEMMA Ending ==
  ASSUME CoreOK, NEW s \in Cookie, BackendLogout(s)
  PROVE  /\ RowsKept /\ \A t \in Sessions : session'[t].status = "rotated" => session[t].status = "rotated"
         /\ Unexpired(s) => ~Live(s)'
         /\ \A t \in Cookie : ~Live(t) => ~Live(t)'
         /\ \A t \in Sessions : NoBirth(t)
<1>1. session \in [Sessions -> Rows]
  BY Typed
<1>2. None \notin Sessions /\ Cookie = Sessions \cup {None}
  BY Names
<1>3. CASE Authenticates(s)
  <2>1. s \in Sessions /\ session[s].status = "live"
    BY <1>2, <1>3 DEF Authenticates, Live
  <2>2. PICK row, v : row = session[s] /\ v = [row EXCEPT !.status = "ended"]
    OBVIOUS
  <2>3. session' = [session EXCEPT ![s] = v]
    BY <1>1, <1>3, <2>2 DEF BackendLogout
  <2>4. v \in Rows /\ v.status = "ended" /\ v.access = row.access
    BY <1>1, <2>1, <2>2 DEF Rows
  <2>5. /\ session' \in [Sessions -> Rows] /\ session'[s] = v
        /\ \A t \in Sessions \ {s} : session'[t] = session[t]
    BY <1>1, <2>1, <2>3, <2>4
  <2> QED BY <1>1, <1>2, <2>1, <2>2, <2>4, <2>5 DEF RowsKept, Live, NoBirth
<1>4. CASE ~Authenticates(s)
  <2>1. session' = session
    BY <1>4 DEF BackendLogout
  <2> QED BY <1>1, <1>4, <2>1 DEF RowsKept, Live, Authenticates, NoBirth
<1> QED BY <1>3, <1>4

LEMMA Creating ==
  ASSUME CoreOK, Unused # {}, session' = Inserted(session, NextSession)
  PROVE  /\ RowsKept /\ NextSession \in Sessions /\ session[NextSession].status = "none"
         /\ session'[NextSession].status = "live" /\ session'[NextSession].access = "fresh"
         /\ \A t \in Sessions \ {NextSession} : session'[t] = session[t]
<1>1. session \in [Sessions -> Rows]
  BY Typed
<1>2. PICK n : n = NextSession
  OBVIOUS
<1>3. n \in Sessions /\ session[n].status = "none"
  BY <1>2, FreshIds
<1>4. /\ session' \in [Sessions -> Rows] /\ session'[n].status = "live" /\ session'[n].access = "fresh"
      /\ \A t \in Sessions \ {n} : session'[t] = session[t]
  BY <1>1, <1>2, <1>3, Inserting
<1> QED BY <1>1, <1>2, <1>3, <1>4 DEF RowsKept

-----------------------------------------------------------------------------
(* The inductive invariant.                                                 *)

\* The request has not finished with the cookies it presents.
Presents(q) == q.pc \in {"sent", "flight", "handler", "refreshing"}

\* The logout of a request that presented s is going to clear the cookies.
Clears(q, s) ==
  /\ q.kind = "logout" /\ q.refresh = s
  /\ \/ q.pc = "revoking"
     \/ q.pc = "reply" /\ q.clear

\* The two cookies are of one session, or the access token has been dropped.
CookiesMatch ==
  /\ jar.access \in {None, jar.refresh}
  /\ \A r \in Requests : Presents(req[r]) => req[r].access \in {None, req[r].refresh}

\* A logout refreshes a token it has, and when it is about to revoke another
\* session than the one it presented it has rotated that one.
Revoking(q) ==
  /\ q.pc = "refreshing" => q.kind = "logout" /\ q.refresh # None
  /\ q.pc = "revoking" /\ q.kind = "logout" /\ q.refresh # None =>
       q.refresh = q.access \/ session[q.refresh].status \in {"rotated", "ended"}

\* A session that has a successor, or was never used, is of the age this takes.
Aged ==
  \A s \in Sessions : /\ session[s].status = "none" => Fresh(s)
                      /\ session[s].status = "rotated" => ~Fresh(s)

\* A cookie that lacks its access token, or whose access token is refused, is not fresh.
RequestAged(q) ==
  /\ Presents(q) /\ q.access = None => ~Fresh(q.refresh)
  /\ q.pc = "refreshing" => ~Fresh(q.refresh)
  /\ q.set # None => q.pc # "free" /\ Fresh(q.set)

FlightAged(w, s) ==
  /\ flight[w][s].st = "sent" => ~Fresh(s)
  /\ flight[w][s].st = "issued" => Fresh(flight[w][s].new)
  /\ flight[w][s].st # "idle" => \E r \in Requests : Waits(r, w, s)

\* What is going to take the rotated token s out of the jar.
Replaced(s) ==
  \/ \E w \in Servers : flight[w][s].st = "issued"
  \/ \E r \in Requests : req[r].set # None \/ Clears(req[r], s)

\* The grace of s is over, and no one has the token left.
Retired(s) ==
  session[s].status = "rotated" /\ ~session[s].grace =>
    jar.refresh # s /\ \A r \in Requests : req[r].pc # "free" => req[r].refresh # s

\* As long as no call failed and no answer was lost.
Calm ==
  /\ ~alarm /\ late = {}
  /\ Aged
  /\ jar.access = None => ~Fresh(jar.refresh)
  /\ \A r \in Requests : RequestAged(req[r])
  /\ \A w \in Servers, s \in Sessions : FlightAged(w, s)
  /\ \A s \in Sessions : session[s].status = "rotated" /\ jar.refresh = s => Replaced(s)
  /\ \A s \in Sessions : Retired(s)

SessionInv ==
  /\ CoreOK /\ CookiesMatch
  /\ \A r \in Requests : Revoking(req[r])
  /\ faults = 0 => Calm

LEMMA Idling == SessionInv /\ UNCHANGED vars => SessionInv'
<1> SUFFICES ASSUME SessionInv, UNCHANGED vars PROVE SessionInv'
  OBVIOUS
<1>1. UNCHANGED <<session, alarm, jar, req, flight, late, faults>>
  BY DEF vars
<1>2. CoreOK' /\ CookiesMatch'
  BY <1>1 DEF SessionInv, CoreOK, CookiesMatch
<1>3. \A r \in Requests : Revoking(req[r])'
  BY <1>1 DEF SessionInv, Revoking
<1>4. Calm => Calm'
  BY <1>1 DEF Calm, Aged, RequestAged, FlightAged, Fresh, Replaced, Retired, Waits
<1> QED BY <1>1, <1>2, <1>3, <1>4 DEF SessionInv

LEMMA Starting == Init => SessionInv
<1> SUFFICES ASSUME Init PROVE SessionInv
  OBVIOUS
<1>1. 1 \in Sessions /\ 1 # None /\ Cookie = Sessions \cup {None} /\ MaxFaults \in Nat
  BY Names DEF None
<1>2. PICK row : row = [NoRow EXCEPT !.status = "live"]
  OBVIOUS
<1>3. /\ row \in Rows /\ row.status = "live" /\ row.access = "fresh"
      /\ NoRow \in Rows /\ NoRow.status = "none" /\ NoRow.access = "fresh"
  BY <1>2 DEF NoRow, Rows
<1>4. session \in [Sessions -> Rows] /\ session[1] = row /\ \A s \in Sessions \ {1} : session[s] = NoRow
  BY <1>1, <1>2, <1>3 DEF Init
<1>5. req \in [Requests -> Messages] /\ \A r \in Requests : req[r] = Free
  BY FreeRequest DEF Init
<1>6. Idle \in Entries /\ Idle.st = "idle"
  BY <1>1 DEF Idle, Entries
<1>7. flight \in [Servers -> [Sessions -> Entries]] /\ \A w \in Servers, s \in Sessions : flight[w][s] = Idle
  BY <1>6 DEF Init
<1>8. /\ ~alarm /\ alarm \in BOOLEAN /\ jar \in Jars /\ jar.access = 1 /\ jar.refresh = 1
      /\ late = {} /\ faults = 0 /\ faults \in 0 .. MaxFaults
  <2>1. jar = [access |-> 1, refresh |-> 1] /\ 1 \in Cookie
    BY <1>1 DEF Init
  <2>2. faults = 0 /\ 0 \in 0 .. MaxFaults
    BY <1>1 DEF Init
  <2>3. alarm = FALSE /\ late = {}
    BY DEF Init
  <2>4. alarm \in BOOLEAN
    BY <2>3
  <2>5. jar \in Jars /\ jar.access = 1 /\ jar.refresh = 1
    BY <2>1 DEF Jars
  <2> QED BY <2>2, <2>3, <2>4, <2>5
<1>9. CoreOK
  BY <1>4, <1>5, <1>7, <1>8 DEF CoreOK
<1>10. \A r \in Requests : ~Presents(req[r]) /\ Revoking(req[r]) /\ RequestAged(req[r])
  BY <1>5, FreeRequest DEF Presents, Revoking, RequestAged
<1>11. Aged /\ jar.access # None
  <2>1. \A s \in Sessions : s # None
    BY Names
  <2>2. \A s \in Sessions : session[s].status # "rotated" /\ session[s].access = "fresh"
    BY <1>3, <1>4
  <2> QED BY <1>1, <1>8, <2>1, <2>2 DEF Aged, Fresh
<1>12. \A s \in Sessions : session[s].status # "rotated"
  BY <1>3, <1>4
<1>13. \A w \in Servers, s \in Sessions : FlightAged(w, s)
  BY <1>6, <1>7 DEF FlightAged
<1> QED BY <1>8, <1>9, <1>10, <1>11, <1>12, <1>13 DEF SessionInv, CookiesMatch, Calm, Retired

LEMMA AgesKept ==
  ASSUME RowsKept, Aged
  PROVE  \A s \in Cookie : Fresh(s)' <=> Fresh(s)
BY Names DEF RowsKept, Aged, Fresh

\* The step of one request, with what it does to the rows.
LEMMA OneMoves ==
  ASSUME SessionInv, NEW r \in Requests, NEW v \in Messages,
         req' = [req EXCEPT ![r] = v], jar' = jar, flight' = flight,
         late' \subseteq Sessions, faults' \in 0 .. MaxFaults, alarm' \in BOOLEAN, RowsKept,
         Presents(v) => v.access \in {None, v.refresh},
         Revoking(v)',
         faults' = 0 =>
           /\ faults = 0 /\ late' = late /\ alarm' = alarm /\ req[r].pc # "flight"
           /\ Presents(v) /\ v.access = None => ~Fresh(v.refresh)
           /\ v.pc = "refreshing" => ~Fresh(v.refresh)
           /\ v.set # None => v.pc # "free" /\ Fresh(v.set)'
           /\ req[r].set # None => v.set # None
           /\ \A s \in Sessions : Clears(req[r], s) => Clears(v, s)
           /\ v.pc # "free" => \/ req[r].pc # "free" /\ v.refresh = req[r].refresh
                               \/ v.refresh = jar.refresh
           /\ \A s \in Sessions : session'[s].status = "rotated" =>
                \/ session[s].status = "rotated"
                \/ ~Fresh(s) /\ session'[s].grace /\ Clears(v, s)
  PROVE  SessionInv'
<1>1. /\ session \in [Sessions -> Rows] /\ jar \in Jars
      /\ req \in [Requests -> Messages] /\ flight \in [Servers -> [Sessions -> Entries]]
  BY Typed DEF SessionInv
<1>2. req' \in [Requests -> Messages] /\ req'[r] = v /\ \A x \in Requests \ {r} : req'[x] = req[x]
  BY <1>1
<1>3. CoreOK'
  <2>1. session' \in [Sessions -> Rows]
    BY DEF RowsKept
  <2> QED BY <1>1, <1>2, <2>1, Typed DEF CoreOK, Rows, Messages, Entries, Jars
<1>4. CookiesMatch'
  BY <1>2 DEF SessionInv, CookiesMatch
<1>5. \A x \in Requests : Revoking(req[x])'
  <2>1. ASSUME NEW x \in Requests \ {r} PROVE Revoking(req[x])'
    <3>1. PICK q : q = req[x]
      OBVIOUS
    <3>2. q \in Messages /\ q = req'[x] /\ Revoking(q)
      BY <1>1, <1>2, <3>1 DEF SessionInv
    <3>3. q.refresh # None => q.refresh \in Sessions
      BY <3>2, Names DEF Messages
    <3>4. Revoking(q)'
      BY <3>2, <3>3 DEF Revoking, RowsKept
    <3> QED BY <3>1, <3>2, <3>4 DEF Revoking
  <2> QED BY <1>2, <2>1 DEF Revoking
<1>6. ASSUME faults' = 0 PROVE Calm'
  <2>1. Calm /\ late' = late /\ alarm' = alarm /\ req[r].pc # "flight"
    BY <1>6 DEF SessionInv
  <2>2. \A s \in Cookie : Fresh(s)' <=> Fresh(s)
    BY <2>1, AgesKept DEF Calm
  <2>3. Sessions \subseteq Cookie
    BY Names
  <2>4. Aged'
    BY <1>6, <2>1, <2>2, <2>3 DEF Calm, Aged, RowsKept
  <2>5. ~alarm' /\ late' = {}
    BY <2>1 DEF Calm
  <2>6. jar'.access = None => ~Fresh(jar.refresh)'
    <3>1. PICK s : s = jar.refresh
      OBVIOUS
    <3>2. s \in Cookie /\ (jar.access = None => ~Fresh(s))
      BY <1>1, <2>1, <3>1 DEF Calm, Jars
    <3>3. jar.access = None => ~Fresh(s)'
      BY <2>2, <3>2
    <3> QED BY <3>1, <3>3 DEF Fresh
  <2>7. \A x \in Requests : RequestAged(req[x])'
    <3>1. ASSUME NEW q \in Messages, RequestAged(q) PROVE RequestAged(q)'
      BY <2>2, <3>1 DEF RequestAged, Messages
    <3>2. RequestAged(v)'
      BY <1>6, <2>2 DEF RequestAged, Messages
    <3>3. ASSUME NEW x \in Requests PROVE RequestAged(req[x])'
      <4>1. PICK q : q = req'[x]
        OBVIOUS
      <4>2. CASE x = r
        BY <1>2, <3>2, <4>1, <4>2 DEF RequestAged
      <4>3. CASE x # r
        <5>1. q \in Messages /\ RequestAged(q)
          BY <1>1, <1>2, <2>1, <4>1, <4>3 DEF Calm
        <5>2. RequestAged(q)'
          BY <5>1, <3>1
        <5> QED BY <4>1, <5>2 DEF RequestAged
      <4> QED BY <4>2, <4>3
    <3> QED BY <3>3
  <2>8. \A w \in Servers, s \in Sessions : FlightAged(w, s)'
    <3>1. SUFFICES ASSUME NEW w \in Servers, NEW s \in Sessions PROVE FlightAged(w, s)'
      OBVIOUS
    <3>2. FlightAged(w, s) /\ flight[w][s] \in Entries
      BY <1>1, <2>1 DEF Calm
    <3>3. \A x \in Requests : Waits(x, w, s) => Waits(x, w, s)'
      BY <1>2, <2>1 DEF Waits
    <3> QED BY <2>2, <2>3, <3>2, <3>3 DEF FlightAged, Entries
  <2>9. ASSUME NEW s \in Sessions, session'[s].status = "rotated", jar'.refresh = s PROVE Replaced(s)'
    <3>1. CASE session[s].status = "rotated"
      <4>1. Replaced(s)
        BY <2>1, <2>9, <3>1 DEF Calm
      <4>2. \A x \in Requests : req[x].set # None \/ Clears(req[x], s) => req'[x].set # None \/ Clears(req'[x], s)
        BY <1>2, <1>6
      <4> QED BY <4>1, <4>2 DEF Replaced
    <3>2. CASE session[s].status # "rotated"
      <4>1. Clears(v, s)
        BY <1>6, <2>9, <3>2
      <4> QED BY <1>2, <4>1 DEF Replaced
    <3> QED BY <3>1, <3>2
  <2>10. ASSUME NEW s \in Sessions PROVE Retired(s)'
    <3>1. SUFFICES ASSUME session'[s].status = "rotated", ~session'[s].grace
                   PROVE  jar.refresh # s /\ \A x \in Requests : req'[x].pc # "free" => req'[x].refresh # s
      BY DEF Retired
    <3>2. session[s].status = "rotated" /\ ~session[s].grace
      BY <1>6, <3>1 DEF RowsKept
    <3>3. jar.refresh # s /\ \A x \in Requests : req[x].pc # "free" => req[x].refresh # s
      BY <2>1, <3>2 DEF Calm, Retired
    <3> QED BY <1>2, <1>6, <3>3
  <2> QED BY <2>4, <2>5, <2>6, <2>7, <2>8, <2>9, <2>10 DEF Calm
<1> QED BY <1>3, <1>4, <1>5, <1>6 DEF SessionInv

-----------------------------------------------------------------------------
(* The steps of one request.                                                *)

LEMMA RowsStay == ASSUME CoreOK, session' = session PROVE RowsKept
BY Typed DEF RowsKept

LEMMA SendKeeps ==
  ASSUME SessionInv, NEW r \in Requests, NEW k \in Kinds, NEW w \in Servers, Send(r, k, w)
  PROVE  SessionInv'
<1>1. PICK v : v = Request(k, w, jar)
  OBVIOUS
<1>2. /\ req[r].pc = "free" /\ req' = [req EXCEPT ![r] = v]
      /\ UNCHANGED <<session, alarm, jar, flight, late, faults>>
  BY <1>1 DEF Send
<1>3. /\ CoreOK /\ RowsKept /\ late' \subseteq Sessions /\ faults' \in 0 .. MaxFaults /\ alarm' \in BOOLEAN
      /\ jar \in Jars
  BY <1>2, RowsStay, Typed DEF SessionInv
<1>4. k \in AllKinds
  BY BoundsAssumption DEF AllKinds
<1>5. /\ v \in Messages /\ v.pc \in {"sent", "handler"} /\ v.access = jar.access /\ v.refresh = jar.refresh
      /\ v.set = None
  <2>1. PICK c : c = jar
    OBVIOUS
  <2>2. /\ v \in Messages /\ v.pc \in {"sent", "handler"}
        /\ v.access = c.access /\ v.refresh = c.refresh /\ v.set = None
    <3>1. c \in Jars /\ v = Request(k, w, c)
      BY <1>1, <1>3, <2>1
    <3> QED BY <1>4, <3>1, Started
  <2> QED BY <2>1, <2>2
<1>6. Presents(v) => v.access \in {None, v.refresh}
  BY <1>5 DEF SessionInv, CookiesMatch
<1>7. Revoking(v)'
  BY <1>5 DEF Revoking
<1>8. ASSUME faults' = 0
      PROVE  /\ faults = 0 /\ late' = late /\ alarm' = alarm /\ req[r].pc # "flight"
             /\ Presents(v) /\ v.access = None => ~Fresh(v.refresh)
             /\ v.pc = "refreshing" => ~Fresh(v.refresh)
             /\ v.set # None => v.pc # "free" /\ Fresh(v.set)'
             /\ req[r].set # None => v.set # None
             /\ \A s \in Sessions : Clears(req[r], s) => Clears(v, s)
             /\ v.pc # "free" => \/ req[r].pc # "free" /\ v.refresh = req[r].refresh
                                 \/ v.refresh = jar.refresh
             /\ \A s \in Sessions : session'[s].status = "rotated" =>
                  \/ session[s].status = "rotated"
                  \/ ~Fresh(s) /\ session'[s].grace /\ Clears(v, s)
  <2>1. Calm
    BY <1>2, <1>8 DEF SessionInv
  <2>2. req[r].set = None /\ (jar.access = None => ~Fresh(jar.refresh))
    BY <1>2, <2>1 DEF Calm, RequestAged
  <2> QED BY <1>2, <1>5, <1>8, <2>2 DEF Clears
<1> QED BY <1>2, <1>3, <1>5, <1>6, <1>7, <1>8, OneMoves

\* A request that moves on with the cookies it has, and changes no row.
LEMMA OneGoesOn ==
  ASSUME SessionInv, NEW r \in Requests, NEW v \in Messages,
         req' = [req EXCEPT ![r] = v], UNCHANGED <<session, alarm, jar, flight, late, faults>>,
         req[r].pc \in {"sent", "handler"}, v.set = req[r].set,
         v.access = req[r].access, v.refresh = req[r].refresh,
         v.pc \in {"handler", "refreshing", "revoking", "reply"},
         v.pc \in {"refreshing", "revoking"} => v.kind = "logout" /\ req[r].pc = "handler",
         v.pc = "refreshing" => v.refresh # None /\ ~Unexpired(v.access),
         v.pc = "revoking" => Unexpired(v.access)
  PROVE  SessionInv'
<1>1. /\ CoreOK /\ RowsKept /\ late' \subseteq Sessions /\ faults' \in 0 .. MaxFaults /\ alarm' \in BOOLEAN
  BY RowsStay, Typed DEF SessionInv
<1>2. v.access \in {None, v.refresh}
  BY DEF SessionInv, CookiesMatch, Presents
<1>3. Revoking(v)'
  BY <1>2 DEF Revoking, Unexpired
<1>4. ASSUME faults' = 0
      PROVE  /\ faults = 0 /\ late' = late /\ alarm' = alarm /\ req[r].pc # "flight"
             /\ Presents(v) /\ v.access = None => ~Fresh(v.refresh)
             /\ v.pc = "refreshing" => ~Fresh(v.refresh)
             /\ v.set # None => v.pc # "free" /\ Fresh(v.set)'
             /\ req[r].set # None => v.set # None
             /\ \A s \in Sessions : Clears(req[r], s) => Clears(v, s)
             /\ v.pc # "free" => \/ req[r].pc # "free" /\ v.refresh = req[r].refresh
                                 \/ v.refresh = jar.refresh
             /\ \A s \in Sessions : session'[s].status = "rotated" =>
                  \/ session[s].status = "rotated"
                  \/ ~Fresh(s) /\ session'[s].grace /\ Clears(v, s)
  <2>1. RequestAged(req[r])
    BY <1>4 DEF SessionInv, Calm
  <2>2. req[r].access = None => ~Fresh(req[r].refresh)
    BY <2>1 DEF RequestAged, Presents
  <2>3. v.set # None => Fresh(v.set)'
    BY <2>1 DEF RequestAged, Fresh
  <2>4. v.pc = "refreshing" => ~Fresh(v.refresh)
    BY <1>2, <2>2 DEF Unexpired, Fresh
  <2> QED BY <1>4, <2>2, <2>3, <2>4 DEF Clears
<1> QED BY <1>1, <1>2, <1>3, <1>4, OneMoves

LEMMA GoingOnKeeps ==
  ASSUME SessionInv, NEW r \in Requests,
         PassThrough(r) \/ CurrentUser(r) \/ LogoutStarts(r) \/ LoginRefused(r)
  PROVE  SessionInv'
<1>1. PICK q : q = req[r]
  OBVIOUS
<1>2. q \in Messages
  BY <1>1, Typed DEF SessionInv
<1>3. CASE PassThrough(r)
  <2>1. PICK v : v = [q EXCEPT !.pc = "handler"]
    OBVIOUS
  <2>2. req' = [req EXCEPT ![r] = v] /\ q.pc = "sent" /\ UNCHANGED <<session, alarm, jar, flight, late, faults>>
    BY <1>1, <1>3, <2>1 DEF PassThrough
  <2>3. v \in Messages /\ SameAs(v, q) /\ v.pc = "handler"
    BY <1>2, <2>1, Moved
  <2> QED BY <1>1, <2>2, <2>3, OneGoesOn DEF SameAs
<1>4. CASE CurrentUser(r)
  <2>1. PICK v : v = IF q.access = None \/ Authenticates(q.access) THEN Answered(q) ELSE RefusedMe(q)
    OBVIOUS
  <2>2. req' = [req EXCEPT ![r] = v] /\ q.pc = "handler" /\ UNCHANGED <<session, alarm, jar, flight, late, faults>>
    BY <1>1, <1>4, <2>1 DEF CurrentUser
  <2>3. v \in Messages /\ v.pc = "reply" /\ v.set = q.set /\ v.access = q.access /\ v.refresh = q.refresh
    BY <1>2, <2>1, Moved, Refusing DEF SameAs
  <2> QED BY <1>1, <2>2, <2>3, OneGoesOn
<1>5. CASE LogoutStarts(r)
  <2>1. PICK v : v = CASE Unexpired(q.access) -> [q EXCEPT !.pc = "revoking"]
                       [] ~Unexpired(q.access) /\ q.refresh # None -> [q EXCEPT !.pc = "refreshing"]
                       [] OTHER -> Cleared(q)
    OBVIOUS
  <2>2. /\ req' = [req EXCEPT ![r] = v] /\ q.pc = "handler" /\ q.kind = "logout"
        /\ UNCHANGED <<session, alarm, jar, flight, late, faults>>
    BY <1>1, <1>5, <2>1 DEF LogoutStarts
  <2>3. \/ Unexpired(q.access) /\ v = [q EXCEPT !.pc = "revoking"]
        \/ ~Unexpired(q.access) /\ q.refresh # None /\ v = [q EXCEPT !.pc = "refreshing"]
        \/ v = Cleared(q)
    BY <2>1
  <2>4. /\ v \in Messages /\ SameAs(v, q) /\ v.pc \in {"revoking", "refreshing", "reply"}
        /\ v.pc = "revoking" => Unexpired(q.access)
        /\ v.pc = "refreshing" => ~Unexpired(q.access) /\ q.refresh # None
    <3>1. CASE Unexpired(q.access) /\ v = [q EXCEPT !.pc = "revoking"]
      <4>1. v \in Messages /\ SameAs(v, q) /\ v.pc = "revoking"
        BY <1>2, <3>1, Moved
      <4> QED BY <3>1, <4>1
    <3>2. CASE ~Unexpired(q.access) /\ q.refresh # None /\ v = [q EXCEPT !.pc = "refreshing"]
      <4>1. v \in Messages /\ SameAs(v, q) /\ v.pc = "refreshing"
        BY <1>2, <3>2, Moved
      <4> QED BY <3>2, <4>1
    <3>3. CASE v = Cleared(q)
      <4>1. v \in Messages /\ SameAs(v, q) /\ v.pc = "reply"
        BY <1>2, <3>3, Moved
      <4> QED BY <4>1
    <3> QED BY <2>3, <3>1, <3>2, <3>3
  <2> QED BY <1>1, <2>2, <2>4, OneGoesOn DEF SameAs
<1>6. CASE LoginRefused(r)
  <2>1. PICK v : v = Answered(q)
    OBVIOUS
  <2>2. req' = [req EXCEPT ![r] = v] /\ q.pc = "handler" /\ UNCHANGED <<session, alarm, jar, flight, late, faults>>
    BY <1>1, <1>6, <2>1 DEF LoginRefused
  <2>3. v \in Messages /\ v.pc = "reply" /\ v.set = q.set /\ v.access = q.access /\ v.refresh = q.refresh
    BY <1>2, <2>1, Moved DEF SameAs
  <2> QED BY <1>1, <2>2, <2>3, OneGoesOn
<1> QED BY <1>3, <1>4, <1>5, <1>6

\* The refresh and the revocation of a logout.
LEMMA LogoutKeeps ==
  ASSUME SessionInv, NEW r \in Requests, LogoutRefreshes(r) \/ LogoutRevokes(r)
  PROVE  SessionInv'
<1>1. PICK q : q = req[r]
  OBVIOUS
<1>2. q \in Messages /\ Revoking(q) /\ late \subseteq Sessions /\ faults \in 0 .. MaxFaults /\ alarm \in BOOLEAN
  BY <1>1, Typed DEF SessionInv
<1>3. CoreOK /\ Cookie = Sessions \cup {None}
  BY Names DEF SessionInv
<1>4. CASE LogoutRefreshes(r)
  <2>1. q.pc = "refreshing" /\ UNCHANGED <<jar, flight, late, faults>>
    BY <1>1, <1>4 DEF LogoutRefreshes
  <2>2. PICK s : s = q.refresh
    OBVIOUS
  <2>3. s \in Sessions /\ q.kind = "logout"
    BY <1>2, <1>3, <2>1, <2>2 DEF Revoking, Messages
  <2>4. PICK new \in Cookie :
          /\ BackendRefresh(s, new)
          /\ req' = [req EXCEPT ![r] =
               IF new # None THEN [q EXCEPT !.pc = "revoking", !.access = new] ELSE Cleared(q)]
    BY <1>1, <1>4, <2>2 DEF LogoutRefreshes
  <2>5. PICK v : v = IF new # None THEN [q EXCEPT !.pc = "revoking", !.access = new] ELSE Cleared(q)
    OBVIOUS
  <2>6. req' = [req EXCEPT ![r] = v]
    BY <2>4, <2>5
  <2>7. /\ v \in Messages /\ v.kind = q.kind /\ v.refresh = q.refresh /\ v.set = q.set
        /\ new # None => v.pc = "revoking"
        /\ new = None => v.pc = "reply" /\ v.clear
    <3>1. CASE new # None
      <4>1. v = [[q EXCEPT !.pc = "revoking"] EXCEPT !.access = new]
        BY <1>2, <2>5, <3>1 DEF Messages
      <4>2. PICK p : p = [q EXCEPT !.pc = "revoking"]
        OBVIOUS
      <4>3. p \in Messages /\ SameAs(p, q) /\ p.pc = "revoking" /\ v = [p EXCEPT !.access = new]
        BY <1>2, <4>1, <4>2, Moved
      <4>4. v \in Messages /\ v.kind = p.kind /\ v.refresh = p.refresh /\ v.set = p.set /\ v.pc = p.pc
        BY <4>3 DEF Messages
      <4> QED BY <3>1, <4>3, <4>4 DEF SameAs
    <3>2. CASE new = None
      BY <1>2, <2>5, <3>2, Moved DEF SameAs
    <3> QED BY <3>1, <3>2
  <2>8. /\ RowsKept /\ alarm' \in BOOLEAN
        /\ IsReuse(s) \/ alarm' = alarm
        /\ new = None => \A t \in Sessions : session'[t].status = "rotated" => session[t].status = "rotated"
        /\ new # None => /\ session'[new].status = "live" /\ session'[s].status = "rotated"
                         /\ session'[s].grace
                         /\ \A t \in Sessions \ {s, new} : session'[t] = session[t]
    BY <1>3, <2>3, <2>4, Refreshing
  <2>9. Revoking(v)' /\ ~Presents(v)
    BY <2>2, <2>7, <2>8 DEF Revoking, Presents
  <2>10. ASSUME faults' = 0
         PROVE  /\ faults = 0 /\ late' = late /\ alarm' = alarm /\ req[r].pc # "flight"
                /\ Presents(v) /\ v.access = None => ~Fresh(v.refresh)
                /\ v.pc = "refreshing" => ~Fresh(v.refresh)
                /\ v.set # None => v.pc # "free" /\ Fresh(v.set)'
                /\ req[r].set # None => v.set # None
                /\ \A t \in Sessions : Clears(req[r], t) => Clears(v, t)
                /\ v.pc # "free" => \/ req[r].pc # "free" /\ v.refresh = req[r].refresh
                                    \/ v.refresh = jar.refresh
                /\ \A t \in Sessions : session'[t].status = "rotated" =>
                     \/ session[t].status = "rotated"
                     \/ ~Fresh(t) /\ session'[t].grace /\ Clears(v, t)
    <3>1. faults = 0 /\ Calm
      BY <2>1, <2>10 DEF SessionInv
    <3>2. RequestAged(q) /\ Aged /\ Retired(s)
      BY <1>1, <2>3, <3>1 DEF Calm
    <3>3. ~Fresh(s)
      BY <2>1, <2>2, <3>2 DEF RequestAged
    <3>4. alarm' = alarm
      BY <1>1, <2>1, <2>2, <2>8, <3>2 DEF IsReuse, Retired
    <3>5. v.set # None => v.pc # "free" /\ Fresh(v.set)'
      <4>1. PICK n : n = v.set
        OBVIOUS
      <4>2. n \in Cookie /\ (n # None => Fresh(n))
        BY <2>7, <3>2, <4>1 DEF RequestAged, Messages
      <4>3. n # None => Fresh(n)'
        BY <2>8, <3>2, <4>2, AgesKept
      <4> QED BY <2>7, <4>1, <4>3 DEF Fresh
    <3>6. ASSUME NEW t \in Sessions, session'[t].status = "rotated"
          PROVE  session[t].status = "rotated" \/ (~Fresh(t) /\ session'[t].grace /\ Clears(v, t))
      <4>1. CASE new = None \/ t # s
        BY <2>8, <3>6, <4>1
      <4>2. CASE new # None /\ t = s
        BY <2>2, <2>3, <2>7, <2>8, <3>3, <4>2 DEF Clears
      <4> QED BY <4>1, <4>2
    <3>7. \A t \in Sessions : Clears(req[r], t) => Clears(v, t)
      BY <1>1, <2>1 DEF Clears
    <3> QED BY <1>1, <2>1, <2>7, <2>9, <3>1, <3>4, <3>5, <3>6, <3>7
  <2> QED BY <1>2, <2>1, <2>6, <2>7, <2>8, <2>9, <2>10, OneMoves
<1>5. CASE LogoutRevokes(r)
  <2>1. /\ q.pc = "revoking" /\ q.kind = "logout" /\ BackendLogout(q.access)
        /\ req' = [req EXCEPT ![r] = Cleared(q)] /\ UNCHANGED <<alarm, jar, flight, late, faults>>
    BY <1>1, <1>5 DEF LogoutRevokes
  <2>2. PICK v, s : v = Cleared(q) /\ s = q.access
    OBVIOUS
  <2>3. v \in Messages /\ SameAs(v, q) /\ v.pc = "reply" /\ v.clear = TRUE /\ s \in Cookie
    BY <1>2, <2>2, Moved DEF Messages
  <2>4. RowsKept /\ \A t \in Sessions : session'[t].status = "rotated" => session[t].status = "rotated"
    BY <1>3, <2>1, <2>2, <2>3, Ending
  <2>5. Revoking(v)' /\ ~Presents(v) /\ req' = [req EXCEPT ![r] = v]
    BY <2>1, <2>2, <2>3 DEF Revoking, Presents
  <2>6. ASSUME faults' = 0
        PROVE  /\ faults = 0 /\ late' = late /\ alarm' = alarm /\ req[r].pc # "flight"
               /\ Presents(v) /\ v.access = None => ~Fresh(v.refresh)
               /\ v.pc = "refreshing" => ~Fresh(v.refresh)
               /\ v.set # None => v.pc # "free" /\ Fresh(v.set)'
               /\ req[r].set # None => v.set # None
               /\ \A t \in Sessions : Clears(req[r], t) => Clears(v, t)
               /\ v.pc # "free" => \/ req[r].pc # "free" /\ v.refresh = req[r].refresh
                                   \/ v.refresh = jar.refresh
               /\ \A t \in Sessions : session'[t].status = "rotated" =>
                    \/ session[t].status = "rotated"
                    \/ ~Fresh(t) /\ session'[t].grace /\ Clears(v, t)
    <3>1. faults = 0 /\ Calm
      BY <2>1, <2>6 DEF SessionInv
    <3>2. RequestAged(q) /\ Aged
      BY <1>1, <3>1 DEF Calm
    <3>3. v.set # None => v.pc # "free" /\ Fresh(v.set)'
      <4>1. PICK n : n = v.set
        OBVIOUS
      <4>2. n \in Cookie /\ (n # None => Fresh(n))
        BY <2>3, <3>2, <4>1 DEF RequestAged, Messages, SameAs
      <4>3. n # None => Fresh(n)'
        BY <2>4, <3>2, <4>2, AgesKept
      <4> QED BY <2>3, <4>1, <4>3 DEF Fresh
    <3>4. \A t \in Sessions : Clears(req[r], t) => Clears(v, t)
      BY <1>1, <2>3 DEF Clears, SameAs
    <3> QED BY <1>1, <2>1, <2>3, <2>4, <2>5, <3>1, <3>3, <3>4 DEF SameAs
  <2> QED BY <1>2, <2>1, <2>3, <2>4, <2>5, <2>6, OneMoves
<1> QED BY <1>4, <1>5

\* Signing in, and giving up a session of the wrong role.
LEMMA LoginKeeps ==
  ASSUME SessionInv, NEW r \in Requests, Login(r)
  PROVE  SessionInv'
<1>1. PICK q : q = req[r]
  OBVIOUS
<1>2. q \in Messages /\ late \subseteq Sessions /\ faults \in 0 .. MaxFaults /\ alarm \in BOOLEAN
  BY <1>1, Typed DEF SessionInv
<1>3. CoreOK /\ Cookie = Sessions \cup {None} /\ None \notin Sessions
  BY Names DEF SessionInv
<1>4. /\ q.pc = "handler" /\ q.kind = "login" /\ Unused # {} /\ session' = Inserted(session, NextSession)
      /\ UNCHANGED <<alarm, jar, flight, late, faults>>
  BY <1>1 DEF Login
<1>5. PICK n : n = NextSession
  OBVIOUS
<1>6. /\ RowsKept /\ n \in Sessions /\ session[n].status = "none" /\ session'[n].status = "live"
      /\ session'[n].access = "fresh" /\ \A t \in Sessions \ {n} : session'[t] = session[t]
  BY <1>3, <1>4, <1>5, Creating
<1>7. PICK v : /\ req' = [req EXCEPT ![r] = v]
               /\ \/ v = [Answered(q) EXCEPT !.set = n]
                  \/ v = [q EXCEPT !.pc = "revoking", !.access = n]
  BY <1>1, <1>5 DEF Login
<1>8. /\ v \in Messages /\ v.kind = "login" /\ v.refresh = q.refresh /\ v.pc \in {"reply", "revoking"}
      /\ v.set \in {q.set, n}
  <2>1. CASE v = [Answered(q) EXCEPT !.set = n]
    <3>1. PICK p : p = Answered(q)
      OBVIOUS
    <3>2. p \in Messages /\ SameAs(p, q) /\ p.pc = "reply" /\ v = [p EXCEPT !.set = n]
      BY <1>2, <2>1, <3>1, Moved
    <3>3. v \in Messages /\ v.kind = p.kind /\ v.refresh = p.refresh /\ v.set = n /\ v.pc = p.pc
      BY <1>3, <1>6, <3>2 DEF Messages
    <3> QED BY <1>4, <3>2, <3>3 DEF SameAs
  <2>2. CASE v = [q EXCEPT !.pc = "revoking", !.access = n]
    <3>1. PICK p : p = [q EXCEPT !.pc = "revoking"]
      OBVIOUS
    <3>2. p \in Messages /\ SameAs(p, q) /\ p.pc = "revoking" /\ v = [p EXCEPT !.access = n]
      BY <1>2, <2>2, <3>1, Moved DEF Messages
    <3>3. v \in Messages /\ v.kind = p.kind /\ v.refresh = p.refresh /\ v.set = p.set /\ v.pc = p.pc
      BY <1>3, <1>6, <3>2 DEF Messages
    <3> QED BY <1>4, <3>2, <3>3 DEF SameAs
  <2> QED BY <1>7, <2>1, <2>2
<1>9. Revoking(v)' /\ ~Presents(v)
  BY <1>8 DEF Revoking, Presents
<1>10. ASSUME faults' = 0
       PROVE  /\ faults = 0 /\ late' = late /\ alarm' = alarm /\ req[r].pc # "flight"
              /\ Presents(v) /\ v.access = None => ~Fresh(v.refresh)
              /\ v.pc = "refreshing" => ~Fresh(v.refresh)
              /\ v.set # None => v.pc # "free" /\ Fresh(v.set)'
              /\ req[r].set # None => v.set # None
              /\ \A t \in Sessions : Clears(req[r], t) => Clears(v, t)
              /\ v.pc # "free" => \/ req[r].pc # "free" /\ v.refresh = req[r].refresh
                                  \/ v.refresh = jar.refresh
              /\ \A t \in Sessions : session'[t].status = "rotated" =>
                   \/ session[t].status = "rotated"
                   \/ ~Fresh(t) /\ session'[t].grace /\ Clears(v, t)
  <2>1. faults = 0 /\ Calm
    BY <1>4, <1>10 DEF SessionInv
  <2>2. RequestAged(q) /\ Aged
    BY <1>1, <2>1 DEF Calm
  <2>3. \A s \in Cookie : Fresh(s)' <=> Fresh(s)
    BY <1>6, <2>2, AgesKept
  <2>4. Fresh(n)'
    BY <1>3, <1>6 DEF Fresh
  <2>5. v.set # None => v.pc # "free" /\ Fresh(v.set)'
    <3>1. PICK x : x = v.set
      OBVIOUS
    <3>2. x = n \/ x = q.set
      BY <1>8, <3>1
    <3>3. x # None => Fresh(x)'
      <4>1. CASE x = n
        BY <2>4, <4>1 DEF Fresh
      <4>2. CASE x = q.set
        BY <1>2, <2>2, <2>3, <4>2 DEF RequestAged, Messages
      <4> QED BY <3>2, <4>1, <4>2
    <3> QED BY <1>8, <3>1, <3>3 DEF Fresh
  <2>6. req[r].set # None => v.set # None
    BY <1>1, <1>3, <1>6, <1>8
  <2>7. \A t \in Sessions : ~Clears(req[r], t)
    BY <1>1, <1>4 DEF Clears
  <2>8. \A t \in Sessions : session'[t].status = "rotated" => session[t].status = "rotated"
    BY <1>6
  <2> QED BY <1>1, <1>4, <1>8, <1>9, <2>1, <2>5, <2>6, <2>7, <2>8
<1> QED BY <1>2, <1>4, <1>6, <1>7, <1>8, <1>9, <1>10, OneMoves

LEMMA WrongRoleKeeps ==
  ASSUME SessionInv, NEW r \in Requests, WrongRoleRevokes(r)
  PROVE  SessionInv'
<1>1. PICK q : q = req[r]
  OBVIOUS
<1>2. q \in Messages /\ late \subseteq Sessions /\ faults \in 0 .. MaxFaults /\ alarm \in BOOLEAN
  BY <1>1, Typed DEF SessionInv
<1>3. CoreOK
  BY DEF SessionInv
<1>4. PICK v, s : v = Answered(q) /\ s = q.access
  OBVIOUS
<1>5. /\ q.pc = "revoking" /\ q.kind = "login" /\ req' = [req EXCEPT ![r] = v]
      /\ UNCHANGED <<alarm, jar, flight, late>>
      /\ \/ BackendLogout(s) /\ faults' = faults
         \/ faults < MaxFaults /\ faults' = faults + 1 /\ session' = session
  BY <1>1, <1>4 DEF WrongRoleRevokes, Fault
<1>6. v \in Messages /\ SameAs(v, q) /\ v.pc = "reply" /\ s \in Cookie
  BY <1>2, <1>4, Moved DEF Messages
<1>7. faults' \in 0 .. MaxFaults /\ (faults' = 0 => faults = 0)
  BY <1>2, <1>5, Names
<1>8. RowsKept /\ \A t \in Sessions : session'[t].status = "rotated" => session[t].status = "rotated"
  <2>1. CASE BackendLogout(s)
    BY <1>3, <1>6, <2>1, Ending
  <2>2. CASE session' = session
    BY <1>3, <2>2, RowsStay
  <2> QED BY <1>5, <2>1, <2>2
<1>9. Revoking(v)' /\ ~Presents(v)
  BY <1>6 DEF Revoking, Presents
<1>10. ASSUME faults' = 0
       PROVE  /\ faults = 0 /\ late' = late /\ alarm' = alarm /\ req[r].pc # "flight"
              /\ Presents(v) /\ v.access = None => ~Fresh(v.refresh)
              /\ v.pc = "refreshing" => ~Fresh(v.refresh)
              /\ v.set # None => v.pc # "free" /\ Fresh(v.set)'
              /\ req[r].set # None => v.set # None
              /\ \A t \in Sessions : Clears(req[r], t) => Clears(v, t)
              /\ v.pc # "free" => \/ req[r].pc # "free" /\ v.refresh = req[r].refresh
                                  \/ v.refresh = jar.refresh
              /\ \A t \in Sessions : session'[t].status = "rotated" =>
                   \/ session[t].status = "rotated"
                   \/ ~Fresh(t) /\ session'[t].grace /\ Clears(v, t)
  <2>1. faults = 0 /\ Calm
    BY <1>7, <1>10 DEF SessionInv
  <2>2. RequestAged(q) /\ Aged
    BY <1>1, <2>1 DEF Calm
  <2>3. v.set # None => v.pc # "free" /\ Fresh(v.set)'
    <3>1. PICK x : x = v.set
      OBVIOUS
    <3>2. x \in Cookie /\ (x # None => Fresh(x))
      BY <1>6, <2>2, <3>1 DEF RequestAged, Messages, SameAs
    <3>3. x # None => Fresh(x)'
      BY <1>8, <2>2, <3>2, AgesKept
    <3> QED BY <1>6, <3>1, <3>3 DEF Fresh
  <2>4. \A t \in Sessions : ~Clears(req[r], t)
    BY <1>1, <1>5 DEF Clears
  <2> QED BY <1>1, <1>5, <1>6, <1>8, <1>9, <2>1, <2>3, <2>4 DEF SameAs
<1> QED BY <1>2, <1>5, <1>6, <1>7, <1>8, <1>9, <1>10, OneMoves

\* A step that is a fault only has to keep the shape of the state.
LEMMA FaultMoves ==
  ASSUME SessionInv, Fault, NEW r \in Requests, NEW v \in Messages,
         req' = [req EXCEPT ![r] = v], UNCHANGED <<session, alarm, jar, flight>>,
         late' \subseteq Sessions,
         Presents(v) => Presents(req[r]) /\ v.access = req[r].access /\ v.refresh = req[r].refresh,
         v.pc \notin {"refreshing", "revoking"}
  PROVE  SessionInv'
<1>1. /\ CoreOK /\ RowsKept /\ alarm' \in BOOLEAN /\ faults' \in 0 .. MaxFaults /\ faults' # 0
  BY RowsStay, Typed, Names DEF SessionInv, Fault
<1>2. Presents(v) => v.access \in {None, v.refresh}
  BY DEF SessionInv, CookiesMatch
<1>3. Revoking(v)'
  BY DEF Revoking
<1> QED BY <1>1, <1>2, <1>3, OneMoves

LEMMA FailingKeeps ==
  ASSUME SessionInv, NEW r \in Requests, LoseAnswer(r) \/ CurrentUserFails(r) \/ LogoutFails(r)
  PROVE  SessionInv'
<1>1. PICK q : q = req[r]
  OBVIOUS
<1>2. q \in Messages /\ late \subseteq Sessions /\ Cookie = Sessions \cup {None} /\ Revoking(q)
  BY <1>1, Typed, Names DEF SessionInv
<1>3. CASE LoseAnswer(r)
  <2>1. PICK v : v = Free
    OBVIOUS
  <2>2. v \in Messages /\ v.pc = "free"
    BY <2>1, FreeRequest
  <2>3. Fault /\ req' = [req EXCEPT ![r] = v] /\ UNCHANGED <<session, alarm, jar, flight, late>>
    BY <1>3, <2>1 DEF LoseAnswer
  <2> QED BY <1>2, <2>2, <2>3, FaultMoves DEF Presents
<1>4. CASE CurrentUserFails(r)
  <2>1. PICK v : v = Answered(q)
    OBVIOUS
  <2>2. v \in Messages /\ v.pc = "reply"
    BY <1>2, <2>1, Moved
  <2>3. Fault /\ req' = [req EXCEPT ![r] = v] /\ UNCHANGED <<session, alarm, jar, flight, late>>
    BY <1>1, <1>4, <2>1 DEF CurrentUserFails
  <2> QED BY <1>2, <2>2, <2>3, FaultMoves DEF Presents
<1>5. CASE LogoutFails(r)
  <2>1. PICK v : v \in {Answered(q), Cleared(q)} /\ req' = [req EXCEPT ![r] = v]
    BY <1>1, <1>5 DEF LogoutFails
  <2>2. v \in Messages /\ v.pc = "reply"
    <3>1. CASE v = Answered(q)
      BY <1>2, <3>1, Moved
    <3>2. CASE v = Cleared(q)
      BY <1>2, <3>2, Moved
    <3> QED BY <2>1, <3>1, <3>2
  <2>3. Fault /\ UNCHANGED <<session, alarm, jar, flight>>
    BY <1>5 DEF LogoutFails
  <2>4. late' \subseteq Sessions
    <3>1. late' = IF q.pc = "refreshing" THEN late \cup {q.refresh} ELSE late
      BY <1>1, <1>5 DEF LogoutFails
    <3>2. q.pc = "refreshing" => q.refresh \in Sessions
      BY <1>2 DEF Revoking, Messages
    <3> QED BY <1>2, <3>1, <3>2
  <2> QED BY <2>1, <2>2, <2>3, <2>4, FaultMoves DEF Presents
<1> QED BY <1>3, <1>4, <1>5

-----------------------------------------------------------------------------
(* An answer reaches the jar.                                               *)

LEMMA ArriveKeeps ==
  ASSUME SessionInv, NEW r \in Requests, Arrive(r)
  PROVE  SessionInv'
<1>1. PICK q : q = req[r]
  OBVIOUS
<1>2. /\ session \in [Sessions -> Rows] /\ jar \in Jars /\ req \in [Requests -> Messages] /\ q \in Messages
      /\ flight \in [Servers -> [Sessions -> Entries]] /\ late \subseteq Sessions
      /\ faults \in 0 .. MaxFaults /\ alarm \in BOOLEAN
  BY <1>1, Typed DEF SessionInv
<1>3. Cookie = Sessions \cup {None} /\ None \notin Sessions
  BY Names
<1>4. /\ q.pc = "reply" /\ UNCHANGED <<session, alarm, flight, late, faults>>
      /\ \/ q.clear /\ jar' = [access |-> None, refresh |-> None]
         \/ /\ q.set # None
            /\ jar' = [access |-> IF Unexpired(q.set) THEN q.set ELSE None, refresh |-> q.set]
         \/ ~q.clear /\ q.set = None /\ jar' = jar
  BY <1>1 DEF Arrive
<1>5. /\ jar' \in Jars /\ jar'.access \in {None, jar'.refresh}
      /\ jar'.refresh \in {None, q.set, jar.refresh}
      /\ jar'.refresh # None /\ jar'.refresh # q.set => q.set = None /\ ~q.clear /\ jar' = jar
      /\ jar'.refresh # None /\ jar' # jar => jar'.refresh = q.set /\ (Unexpired(q.set) => jar'.access = q.set)
  <2>1. CASE q.clear /\ jar' = [access |-> None, refresh |-> None]
    BY <1>3, <2>1 DEF Jars
  <2>2. CASE q.set # None /\ jar' = [access |-> IF Unexpired(q.set) THEN q.set ELSE None, refresh |-> q.set]
    <3>1. PICK a, n : n = q.set /\ a = IF Unexpired(n) THEN n ELSE None
      OBVIOUS
    <3>2. jar' = [access |-> a, refresh |-> n] /\ a \in {None, n} /\ n \in Cookie
      BY <1>2, <2>2, <3>1 DEF Messages
    <3>3. jar' \in Jars /\ jar'.access = a /\ jar'.refresh = n
      BY <1>3, <3>2 DEF Jars
    <3> QED BY <3>1, <3>2, <3>3
  <2>3. CASE ~q.clear /\ q.set = None /\ jar' = jar
    BY <1>2, <2>3 DEF SessionInv, CookiesMatch
  <2> QED BY <1>4, <2>1, <2>2, <2>3
<1>6. PICK v : v = IF q.kind = "invalid" THEN Request("logout", q.srv, jar') ELSE Free
  OBVIOUS
<1>7. req' = [req EXCEPT ![r] = v]
  BY <1>1, <1>6 DEF Arrive
<1>8. /\ v \in Messages /\ v.set = None
      /\ v.pc # "free" => /\ v.pc \in {"sent", "handler"} /\ v.refresh = jar'.refresh
                          /\ v.access = jar'.access
  <2>1. CASE q.kind = "invalid"
    <3>1. PICK j, w : j = jar' /\ w = q.srv
      OBVIOUS
    <3>2. "logout" \in AllKinds /\ w \in Servers /\ j \in Jars /\ v = Request("logout", w, j)
      BY <1>2, <1>5, <1>6, <2>1, <3>1 DEF AllKinds, Messages
    <3>3. v \in Messages /\ v.pc \in {"sent", "handler"} /\ v.set = None /\ v.refresh = j.refresh /\ v.access = j.access
      BY <3>2, Started
    <3> QED BY <3>1, <3>3
  <2>2. CASE q.kind # "invalid"
    BY <1>6, <2>2, FreeRequest
  <2> QED BY <2>1, <2>2
<1>9. req' \in [Requests -> Messages] /\ req'[r] = v /\ \A x \in Requests \ {r} : req'[x] = req[x]
  BY <1>2, <1>7, <1>8
<1>10. CoreOK'
  BY <1>2, <1>4, <1>5, <1>9 DEF CoreOK, Rows, Messages, Entries, Jars
<1>11. CookiesMatch'
  <2>1. \A x \in Requests \ {r} : Presents(req'[x]) => req'[x].access \in {None, req'[x].refresh}
    BY <1>9 DEF SessionInv, CookiesMatch
  <2>2. Presents(v) => v.access \in {None, v.refresh}
    BY <1>5, <1>8 DEF Presents
  <2> QED BY <1>5, <1>9, <2>1, <2>2 DEF CookiesMatch
<1>12. \A x \in Requests : Revoking(req[x])'
  <2>1. Revoking(v)'
    BY <1>8 DEF Revoking
  <2>2. \A y \in Messages : Revoking(y) => Revoking(y)'
    BY <1>4 DEF Revoking
  <2>3. ASSUME NEW x \in Requests PROVE Revoking(req[x])'
    <3>1. PICK y : y = req'[x]
      OBVIOUS
    <3>2. Revoking(y)'
      <4>1. CASE x = r
        BY <1>9, <2>1, <3>1, <4>1
      <4>2. CASE x # r
        <5>1. y \in Messages /\ Revoking(y)
          BY <1>2, <1>9, <3>1, <4>2 DEF SessionInv
        <5> QED BY <5>1, <2>2
      <4> QED BY <4>1, <4>2
    <3> QED BY <3>1, <3>2 DEF Revoking
  <2> QED BY <2>3
<1>13. ASSUME faults' = 0 PROVE Calm'
  <2>1. Calm /\ RequestAged(q)
    BY <1>1, <1>4, <1>13 DEF SessionInv, Calm
  <2>2. \A s : Fresh(s)' <=> Fresh(s)
    BY <1>4 DEF Fresh
  <2>3. Aged' /\ ~alarm' /\ late' = {}
    BY <1>4, <2>1 DEF Calm, Aged, Fresh
  <2>4. jar'.refresh # None /\ jar' # jar => Fresh(jar'.refresh) /\ jar'.access # None
    BY <1>5, <2>1 DEF RequestAged, Fresh, Unexpired
  <2>5. jar'.access = None => ~Fresh(jar'.refresh)
    <3>1. CASE jar' = jar
      BY <2>1, <3>1 DEF Calm
    <3>2. CASE jar' # jar
      BY <2>4, <3>2 DEF Fresh
    <3> QED BY <3>1, <3>2
  <2>6. (jar.access = None => ~Fresh(jar.refresh))'
    BY <1>4, <2>5 DEF Fresh
  <2>7. \A x \in Requests : RequestAged(req[x])'
    <3>1. RequestAged(v)
      BY <1>8, <2>5 DEF RequestAged, Presents
    <3>2. ASSUME NEW x \in Requests PROVE RequestAged(req[x])'
      <4>1. PICK y : y = req'[x]
        OBVIOUS
      <4>2. RequestAged(y)
        BY <1>9, <2>1, <3>1, <4>1 DEF Calm
      <4> QED BY <1>4, <4>1, <4>2 DEF RequestAged, Fresh
    <3> QED BY <3>2
  <2>8. ASSUME NEW w \in Servers, NEW s \in Sessions PROVE FlightAged(w, s)'
    <3>1. FlightAged(w, s)
      BY <2>1 DEF Calm
    <3>2. \A x \in Requests : Waits(x, w, s) => Waits(x, w, s)'
      BY <1>1, <1>4, <1>9 DEF Waits
    <3> QED BY <1>4, <3>1, <3>2 DEF FlightAged, Fresh
  <2>9. ASSUME NEW s \in Sessions, session'[s].status = "rotated", jar'.refresh = s PROVE Replaced(s)'
    <3>1. ~Fresh(s) /\ s # None
      BY <1>3, <1>4, <2>1, <2>9 DEF Calm, Aged
    <3>2. jar' = jar /\ jar.refresh = s /\ q.set # s
      BY <2>1, <2>4, <2>9, <3>1 DEF RequestAged
    <3>3. q.set = None /\ ~q.clear
      BY <1>5, <2>9, <3>1, <3>2
    <3>4. Replaced(s) /\ ~Clears(q, s)
      BY <1>4, <2>1, <2>9, <3>2, <3>3 DEF Calm, Clears
    <3> QED BY <1>1, <1>4, <1>9, <3>3, <3>4 DEF Replaced
  <2>10. ASSUME NEW s \in Sessions PROVE Retired(s)'
    <3>1. SUFFICES ASSUME session[s].status = "rotated", ~session[s].grace
                   PROVE  jar'.refresh # s /\ \A x \in Requests : req'[x].pc # "free" => req'[x].refresh # s
      BY <1>4 DEF Retired
    <3>2. jar.refresh # s /\ ~Fresh(s) /\ \A x \in Requests : req[x].pc # "free" => req[x].refresh # s
      BY <2>1, <3>1 DEF Calm, Retired, Aged
    <3>3. jar'.refresh # s
      BY <1>3, <2>4, <3>2
    <3> QED BY <1>8, <1>9, <3>2, <3>3
  <2> QED BY <2>3, <2>6, <2>7, <2>8, <2>9, <2>10 DEF Calm
<1> QED BY <1>10, <1>11, <1>12, <1>13 DEF SessionInv

-----------------------------------------------------------------------------
(* The flights.                                                             *)

LEMMA ShapesKept ==
  ASSUME SessionInv, RowsKept, req' = req, jar' = jar
  PROVE  CookiesMatch' /\ \A r \in Requests : Revoking(req[r])'
<1>1. CookiesMatch'
  BY DEF SessionInv, CookiesMatch
<1>2. ASSUME NEW r \in Requests PROVE Revoking(req[r])'
  <2>1. PICK q : q = req[r]
    OBVIOUS
  <2>2. q \in Messages /\ Revoking(q)
    BY <2>1, Typed DEF SessionInv
  <2>3. q.refresh # None => q.refresh \in Sessions
    BY <2>2, Names DEF Messages
  <2>4. Revoking(q)'
    BY <2>2, <2>3 DEF Revoking, RowsKept
  <2> QED BY <2>1, <2>4 DEF Revoking
<1> QED BY <1>1, <1>2

LEMMA JoinKeeps ==
  ASSUME SessionInv, NEW r \in Requests, JoinFlight(r)
  PROVE  SessionInv'
<1>1. PICK q, w, s : q = req[r] /\ w = req[r].srv /\ s = req[r].refresh
  OBVIOUS
<1>2. /\ session \in [Sessions -> Rows] /\ jar \in Jars /\ req \in [Requests -> Messages] /\ q \in Messages
      /\ flight \in [Servers -> [Sessions -> Entries]] /\ late \subseteq Sessions
      /\ faults \in 0 .. MaxFaults /\ alarm \in BOOLEAN
  BY <1>1, Typed DEF SessionInv
<1>3. Cookie = Sessions \cup {None} /\ None \notin Sessions
  BY Names
<1>4. /\ q.pc = "sent" /\ s # None /\ ~Fresh(q.access) /\ UNCHANGED <<session, alarm, jar, late, faults>>
  BY <1>1 DEF JoinFlight, NeedsRefresh
<1>5. PICK v : v = [q EXCEPT !.pc = "flight"]
  OBVIOUS
<1>6. v \in Messages /\ SameAs(v, q) /\ v.pc = "flight" /\ v.clear = q.clear
  BY <1>2, <1>5, Moved
<1>7. /\ req' = [req EXCEPT ![r] = v]
      /\ flight' = IF flight[w][s].st = "idle" THEN [flight EXCEPT ![w][s].st = "sent"] ELSE flight
  BY <1>1, <1>5 DEF JoinFlight
<1>8. req' \in [Requests -> Messages] /\ req'[r] = v /\ \A x \in Requests \ {r} : req'[x] = req[x]
  BY <1>2, <1>6, <1>7
<1>9. w \in Servers /\ s \in Sessions
  BY <1>1, <1>2, <1>3, <1>4 DEF Messages
<1>10. /\ flight' \in [Servers -> [Sessions -> Entries]]
       /\ \A x \in Servers, t \in Sessions : ~(x = w /\ t = s) => flight'[x][t] = flight[x][t]
       /\ flight'[w][s].new = flight[w][s].new
       /\ IF flight[w][s].st = "idle" THEN flight'[w][s].st = "sent" ELSE flight'[w][s] = flight[w][s]
  <2>1. CASE flight[w][s].st = "idle"
    <3>1. PICK f, g : f = flight[w][s] /\ g = [f EXCEPT !.st = "sent"]
      OBVIOUS
    <3>2. f \in Entries
      BY <1>2, <1>9, <3>1
    <3>3. g \in Entries /\ g.st = "sent" /\ g.new = f.new
      BY <3>1, <3>2 DEF Entries
    <3>4. flight' = [flight EXCEPT ![w][s] = g]
      BY <1>2, <1>7, <1>9, <2>1, <3>1
    <3> QED BY <1>2, <1>9, <2>1, <3>1, <3>3, <3>4
  <2>2. CASE flight[w][s].st # "idle"
    BY <1>2, <1>7, <2>2
  <2> QED BY <2>1, <2>2
<1>11. CoreOK'
  BY <1>2, <1>4, <1>8, <1>10 DEF CoreOK, Rows, Messages, Entries, Jars
<1>12. CookiesMatch'
  <2>1. q.access \in {None, q.refresh}
    BY <1>1, <1>4 DEF SessionInv, CookiesMatch, Presents
  <2> QED BY <1>4, <1>6, <1>8, <2>1 DEF SessionInv, CookiesMatch, SameAs
<1>13. \A x \in Requests : Revoking(req[x])'
  <2>1. ASSUME NEW x \in Requests PROVE Revoking(req[x])'
    <3>1. PICK y : y = req'[x]
      OBVIOUS
    <3>2. Revoking(y)
      <4>1. CASE x = r
        BY <1>6, <1>8, <3>1, <4>1 DEF Revoking
      <4>2. CASE x # r
        BY <1>8, <3>1, <4>2 DEF SessionInv
      <4> QED BY <4>1, <4>2
    <3> QED BY <1>4, <3>1, <3>2 DEF Revoking
  <2> QED BY <2>1
<1>14. ASSUME faults' = 0 PROVE Calm'
  <2>1. Calm /\ RequestAged(q)
    BY <1>1, <1>4, <1>14 DEF SessionInv, Calm
  <2>2. ~Fresh(s)
    <3>1. q.access \in {None, s}
      BY <1>1, <1>4 DEF SessionInv, CookiesMatch, Presents
    <3>2. q.access = None => ~Fresh(s)
      BY <1>1, <1>4, <2>1 DEF RequestAged, Presents
    <3> QED BY <1>4, <3>1, <3>2
  <2>3. Aged' /\ ~alarm' /\ late' = {} /\ (jar.access = None => ~Fresh(jar.refresh))'
    BY <1>4, <2>1 DEF Calm, Aged, Fresh
  <2>4. ASSUME NEW x \in Requests PROVE RequestAged(req[x])'
    <3>1. PICK y : y = req'[x]
      OBVIOUS
    <3>2. RequestAged(y)
      <4>1. CASE x = r
        BY <1>1, <1>4, <1>6, <1>8, <2>1, <2>2, <3>1, <4>1 DEF RequestAged, SameAs
      <4>2. CASE x # r
        BY <1>8, <2>1, <3>1, <4>2 DEF Calm
      <4> QED BY <4>1, <4>2
    <3> QED BY <1>4, <3>1, <3>2 DEF RequestAged, Fresh
  <2>5. ASSUME NEW x \in Servers, NEW t \in Sessions PROVE FlightAged(x, t)'
    <3>1. FlightAged(x, t)
      BY <2>1 DEF Calm
    <3>2. \A y \in Requests : Waits(y, x, t) => Waits(y, x, t)'
      BY <1>1, <1>4, <1>8 DEF Waits
    <3>3. CASE x = w /\ t = s /\ flight[w][s].st = "idle"
      <4>1. Waits(r, w, s)'
        BY <1>1, <1>6, <1>8 DEF Waits, SameAs
      <4>2. ~Fresh(s)'
        BY <1>4, <2>2 DEF Fresh
      <4> QED BY <1>10, <3>3, <4>1, <4>2 DEF FlightAged
    <3>4. CASE ~(x = w /\ t = s /\ flight[w][s].st = "idle")
      <4>1. flight'[x][t] = flight[x][t]
        BY <1>10, <3>4
      <4> QED BY <1>4, <3>1, <3>2, <4>1 DEF FlightAged, Fresh
    <3> QED BY <3>3, <3>4
  <2>6. ASSUME NEW t \in Sessions, session'[t].status = "rotated", jar'.refresh = t PROVE Replaced(t)'
    <3>1. Replaced(t)
      BY <1>4, <2>1, <2>6 DEF Calm
    <3>2. \A x \in Servers : flight[x][t].st = "issued" => flight'[x][t].st = "issued"
      BY <1>9, <1>10, <2>6
    <3>3. \A x \in Requests : req[x].set # None \/ Clears(req[x], t) => req'[x].set # None \/ Clears(req'[x], t)
      BY <1>1, <1>4, <1>6, <1>8 DEF Clears, SameAs
    <3> QED BY <3>1, <3>2, <3>3 DEF Replaced
  <2>7. ASSUME NEW t \in Sessions PROVE Retired(t)'
    <3>1. Retired(t)
      BY <2>1 DEF Calm
    <3> QED BY <1>1, <1>4, <1>6, <1>8, <3>1 DEF Retired, SameAs
  <2> QED BY <2>3, <2>4, <2>5, <2>6, <2>7 DEF Calm
<1> QED BY <1>11, <1>12, <1>13, <1>14 DEF SessionInv

LEMMA AnsweredKeeps ==
  ASSUME SessionInv, NEW w \in Servers, NEW s \in Sessions, FlightAnswered(w, s)
  PROVE  SessionInv'
<1>1. /\ session \in [Sessions -> Rows] /\ jar \in Jars /\ req \in [Requests -> Messages]
      /\ flight \in [Servers -> [Sessions -> Entries]] /\ late \subseteq Sessions
      /\ faults \in 0 .. MaxFaults /\ alarm \in BOOLEAN /\ CoreOK
  BY Typed DEF SessionInv
<1>2. Cookie = Sessions \cup {None} /\ None \notin Sessions
  BY Names
<1>3. flight[w][s].st = "sent" /\ UNCHANGED <<jar, req, late, faults>>
  BY DEF FlightAnswered
<1>4. PICK new \in Cookie :
        /\ BackendRefresh(s, new)
        /\ flight' = [flight EXCEPT ![w][s] =
             [st |-> IF new # None THEN "issued" ELSE "refused", new |-> new]]
  BY DEF FlightAnswered
<1>5. PICK g : g = [st |-> IF new # None THEN "issued" ELSE "refused", new |-> new]
  OBVIOUS
<1>6. g \in Entries /\ g.new = new /\ g.st = IF new # None THEN "issued" ELSE "refused"
  BY <1>5 DEF Entries
<1>7. /\ flight' \in [Servers -> [Sessions -> Entries]] /\ flight'[w][s] = g
      /\ \A x \in Servers, t \in Sessions : ~(x = w /\ t = s) => flight'[x][t] = flight[x][t]
  BY <1>1, <1>4, <1>5, <1>6
<1>8. /\ RowsKept /\ alarm' \in BOOLEAN /\ (IsReuse(s) \/ alarm' = alarm)
      /\ new = None => \A t \in Sessions : session'[t].status = "rotated" => session[t].status = "rotated"
      /\ new # None => /\ new \in Sessions /\ session'[new].access = "fresh" /\ session'[new].status = "live"
                       /\ session'[s].status = "rotated" /\ session'[s].grace
                       /\ \A t \in Sessions \ {s, new} : session'[t] = session[t]
  BY <1>1, <1>4, Refreshing
<1>9. CoreOK'
  <2>1. session' \in [Sessions -> Rows]
    BY <1>8 DEF RowsKept
  <2> QED BY <1>1, <1>3, <1>7, <1>8, <2>1 DEF CoreOK, Rows, Messages, Entries, Jars
<1>10. CookiesMatch' /\ \A r \in Requests : Revoking(req[r])'
  BY <1>3, <1>8, ShapesKept
<1>11. ASSUME faults' = 0 PROVE Calm'
  <2>1. Calm /\ Aged /\ FlightAged(w, s) /\ Retired(s)
    BY <1>3, <1>11 DEF SessionInv, Calm
  <2>2. \A t \in Cookie : Fresh(t)' <=> Fresh(t)
    BY <1>8, <2>1, AgesKept
  <2>3. PICK r \in Requests : Waits(r, w, s)
    BY <1>3, <2>1 DEF FlightAged
  <2>4. ~IsReuse(s) /\ ~Fresh(s)
    BY <1>3, <2>1, <2>3 DEF FlightAged, Retired, Waits, IsReuse
  <2>5. ~alarm' /\ late' = {}
    BY <1>3, <1>8, <2>1, <2>4 DEF Calm
  <2>6. \A t \in Sessions : session'[t].status = "rotated" =>
          session[t].status = "rotated" \/ (t = s /\ new # None)
    BY <1>8
  <2>7. Aged'
    <3>1. ASSUME NEW t \in Sessions
          PROVE  /\ session'[t].status = "none" => Fresh(t)'
                 /\ session'[t].status = "rotated" => ~Fresh(t)'
      <4>1. session'[t].status = "none" => Fresh(t)
        BY <1>8, <2>1 DEF RowsKept, Aged
      <4>2. session'[t].status = "rotated" => ~Fresh(t)
        BY <2>1, <2>4, <2>6 DEF Aged
      <4> QED BY <1>2, <2>2, <4>1, <4>2
    <3> QED BY <3>1 DEF Aged
  <2>8. (jar.access = None => ~Fresh(jar.refresh))'
    <3>1. PICK t : t = jar.refresh
      OBVIOUS
    <3>2. t \in Cookie /\ (jar.access = None => ~Fresh(t))
      BY <1>1, <2>1, <3>1 DEF Calm, Jars
    <3> QED BY <1>3, <2>2, <3>1, <3>2 DEF Fresh
  <2>9. ASSUME NEW x \in Requests PROVE RequestAged(req[x])'
    <3>1. PICK q : q = req[x]
      OBVIOUS
    <3>2. q \in Messages /\ RequestAged(q)
      BY <1>1, <2>1, <3>1 DEF Calm
    <3>3. RequestAged(q)'
      BY <2>2, <3>2 DEF RequestAged, Messages
    <3> QED BY <1>3, <3>1, <3>3 DEF RequestAged
  <2>10. ASSUME NEW x \in Servers, NEW t \in Sessions PROVE FlightAged(x, t)'
    <3>1. \A y \in Requests : Waits(y, x, t) => Waits(y, x, t)'
      BY <1>3 DEF Waits
    <3>2. CASE x = w /\ t = s
      <4>1. new # None => Fresh(new)'
        BY <1>2, <1>8 DEF Fresh
      <4>2. Waits(r, w, s)'
        BY <2>3, <3>1, <3>2
      <4> QED BY <1>6, <1>7, <3>2, <4>1, <4>2 DEF FlightAged
    <3>3. CASE ~(x = w /\ t = s)
      <4>1. PICK f : f = flight[x][t]
        OBVIOUS
      <4>2. flight'[x][t] = f /\ f \in Entries /\ f.new \in Cookie
        BY <1>1, <1>7, <3>3, <4>1 DEF Entries
      <4>3. /\ f.st = "sent" => ~Fresh(t)'
            /\ f.st = "issued" => Fresh(f.new)'
            /\ f.st # "idle" => \E y \in Requests : Waits(y, x, t)
        BY <1>2, <2>1, <2>2, <4>1, <4>2 DEF Calm, FlightAged
      <4> QED BY <3>1, <4>2, <4>3 DEF FlightAged
    <3> QED BY <3>2, <3>3
  <2>11. ASSUME NEW t \in Sessions, session'[t].status = "rotated", jar'.refresh = t PROVE Replaced(t)'
    <3>1. CASE t = s /\ new # None
      BY <1>6, <1>7, <3>1 DEF Replaced
    <3>2. CASE ~(t = s /\ new # None)
      <4>1. session[t].status = "rotated" /\ Replaced(t)
        BY <1>3, <2>1, <2>6, <2>11, <3>2 DEF Calm
      <4>2. \A x \in Servers : flight[x][t].st = "issued" => flight'[x][t].st = "issued"
        BY <1>3, <1>7, <2>11
      <4> QED BY <1>3, <4>1, <4>2 DEF Replaced, Clears
    <3> QED BY <3>1, <3>2
  <2>12. ASSUME NEW t \in Sessions PROVE Retired(t)'
    <3>1. SUFFICES ASSUME session'[t].status = "rotated", ~session'[t].grace
                   PROVE  jar.refresh # t /\ \A x \in Requests : req[x].pc # "free" => req[x].refresh # t
      BY <1>3 DEF Retired
    <3>2. session[t].status = "rotated" /\ ~session[t].grace
      BY <1>8, <2>6, <3>1 DEF RowsKept
    <3> QED BY <2>1, <3>2 DEF Calm, Retired
  <2> QED BY <2>5, <2>7, <2>8, <2>9, <2>10, <2>11, <2>12 DEF Calm
<1> QED BY <1>9, <1>10, <1>11 DEF SessionInv

LEMMA SettlesKeeps ==
  ASSUME SessionInv, NEW w \in Servers, NEW s \in Sessions, FlightSettles(w, s)
  PROVE  SessionInv'
<1>1. /\ session \in [Sessions -> Rows] /\ jar \in Jars /\ req \in [Requests -> Messages]
      /\ flight \in [Servers -> [Sessions -> Entries]] /\ late \subseteq Sessions
      /\ faults \in 0 .. MaxFaults /\ alarm \in BOOLEAN
  BY Typed DEF SessionInv
<1>2. Cookie = Sessions \cup {None} /\ None \notin Sessions
  BY Names
<1>3. PICK f : f = flight[w][s]
  OBVIOUS
<1>4. /\ f \in Entries /\ f.st \in {"issued", "refused", "failed"}
      /\ req' = [r \in Requests |-> IF Waits(r, w, s) THEN Forwarded(req[r], f) ELSE req[r]]
      /\ flight' = [flight EXCEPT ![w][s] = Idle] /\ UNCHANGED <<session, alarm, jar, late, faults>>
  BY <1>1, <1>3 DEF FlightSettles
<1>5. Idle \in Entries /\ Idle.st = "idle"
  BY <1>2 DEF Idle, Entries
<1>6. /\ flight' \in [Servers -> [Sessions -> Entries]] /\ flight'[w][s].st = "idle"
      /\ \A x \in Servers, t \in Sessions : ~(x = w /\ t = s) => flight'[x][t] = flight[x][t]
  BY <1>1, <1>4, <1>5
<1>7. ASSUME NEW r \in Requests
      PROVE  /\ req'[r] \in Messages
             /\ ~Waits(r, w, s) => req'[r] = req[r]
             /\ Waits(r, w, s) =>
                  /\ req[r].pc = "flight" /\ req'[r].pc = "handler"
                  /\ f.st = "issued" => /\ req'[r].access = f.new /\ req'[r].refresh = f.new
                                        /\ req'[r].set = f.new
                  /\ f.st # "issued" =>
                       /\ req'[r].set = req[r].set
                       /\ \/ req'[r].access = None /\ req'[r].refresh = None
                          \/ req'[r].access = req[r].access /\ req'[r].refresh = req[r].refresh
  <2>1. PICK q, v : q = req[r] /\ v = Forwarded(q, f)
    OBVIOUS
  <2>2. q \in Messages
    BY <1>1, <2>1
  <2>3. /\ v \in Messages /\ v.pc = "handler"
        /\ f.st = "issued" => v.access = f.new /\ v.refresh = f.new /\ v.set = f.new
        /\ f.st # "issued" => /\ v.set = q.set
                              /\ \/ v.access = None /\ v.refresh = None
                                 \/ v.access = q.access /\ v.refresh = q.refresh
    BY <1>4, <2>1, <2>2, Forwarding
  <2>4. req'[r] = IF Waits(r, w, s) THEN v ELSE q
    BY <1>4, <2>1
  <2> QED BY <2>1, <2>2, <2>3, <2>4 DEF Waits
<1>8. req' \in [Requests -> Messages]
  <2>1. req' = [r \in Requests |-> req'[r]]
    BY <1>4
  <2> QED BY <1>7, <2>1
<1>9. CoreOK'
  BY <1>1, <1>4, <1>6, <1>8 DEF CoreOK, Rows, Messages, Entries, Jars
<1>10. CookiesMatch'
  <2>1. ASSUME NEW r \in Requests, Presents(req'[r]) PROVE req'[r].access \in {None, req'[r].refresh}
    <3>1. Presents(req[r]) => req[r].access \in {None, req[r].refresh}
      BY DEF SessionInv, CookiesMatch
    <3>2. CASE Waits(r, w, s)
      <4>1. Presents(req[r])
        BY <3>2 DEF Waits, Presents
      <4> QED BY <1>7, <3>1, <3>2, <4>1
    <3>3. CASE ~Waits(r, w, s)
      BY <1>7, <2>1, <3>1, <3>3
    <3> QED BY <3>2, <3>3
  <2> QED BY <1>4, <2>1 DEF SessionInv, CookiesMatch
<1>11. ASSUME NEW r \in Requests PROVE Revoking(req[r])'
  <2>1. PICK y : y = req'[r]
    OBVIOUS
  <2>2. Revoking(y)
    <3>1. CASE Waits(r, w, s)
      BY <1>7, <2>1, <3>1 DEF Revoking
    <3>2. CASE ~Waits(r, w, s)
      BY <1>7, <2>1, <3>2 DEF SessionInv
    <3> QED BY <3>1, <3>2
  <2> QED BY <1>4, <2>1, <2>2 DEF Revoking
<1>12. ASSUME faults' = 0 PROVE Calm'
  <2>1. Calm /\ FlightAged(w, s)
    BY <1>4, <1>12 DEF SessionInv, Calm
  <2>2. Aged' /\ ~alarm' /\ late' = {} /\ (jar.access = None => ~Fresh(jar.refresh))'
    BY <1>4, <2>1 DEF Calm, Aged, Fresh
  <2>3. f.st = "issued" => Fresh(f.new) /\ f.new # None
    BY <1>3, <2>1 DEF FlightAged, Fresh
  <2>4. PICK starter \in Requests : Waits(starter, w, s)
    BY <1>3, <1>4, <2>1 DEF FlightAged
  <2>5. ASSUME NEW r \in Requests PROVE RequestAged(req[r])'
    <3>1. PICK y : y = req'[r]
      OBVIOUS
    <3>2. RequestAged(req[r])
      BY <2>1 DEF Calm
    <3>3. RequestAged(y)
      <4>1. CASE Waits(r, w, s) /\ f.st = "issued"
        BY <1>7, <2>3, <3>1, <4>1 DEF RequestAged
      <4>2. CASE Waits(r, w, s) /\ f.st # "issued"
        <5>1. Presents(req[r])
          BY <4>2 DEF Waits, Presents
        <5>2. ~Fresh(None)
          BY DEF Fresh
        <5> QED BY <1>7, <3>1, <3>2, <4>2, <5>1, <5>2 DEF RequestAged
      <4>3. CASE ~Waits(r, w, s)
        BY <1>7, <3>1, <3>2, <4>3
      <4> QED BY <4>1, <4>2, <4>3
    <3> QED BY <1>4, <3>1, <3>3 DEF RequestAged, Fresh
  <2>6. ASSUME NEW x \in Servers, NEW t \in Sessions PROVE FlightAged(x, t)'
    <3>1. CASE x = w /\ t = s
      BY <1>6, <3>1 DEF FlightAged
    <3>2. CASE ~(x = w /\ t = s)
      <4>1. flight'[x][t] = flight[x][t] /\ FlightAged(x, t)
        BY <1>6, <2>1, <3>2 DEF Calm
      <4>2. \A y \in Requests : Waits(y, x, t) => Waits(y, x, t)'
        <5>1. \A y \in Requests : Waits(y, x, t) => ~Waits(y, w, s)
          BY <3>2 DEF Waits
        <5> QED BY <1>7, <5>1 DEF Waits
      <4> QED BY <1>4, <4>1, <4>2 DEF FlightAged, Fresh
    <3> QED BY <3>1, <3>2
  <2>7. ASSUME NEW t \in Sessions, session'[t].status = "rotated", jar'.refresh = t PROVE Replaced(t)'
    <3>1. Replaced(t)
      BY <1>4, <2>1, <2>7 DEF Calm
    <3>2. CASE \E x \in Servers : flight[x][t].st = "issued"
      <4>1. PICK x \in Servers : flight[x][t].st = "issued"
        BY <3>2
      <4>2. CASE x = w /\ t = s
        <5>1. req'[starter].set # None
          BY <1>3, <1>7, <2>3, <2>4, <4>1, <4>2
        <5> QED BY <5>1 DEF Replaced
      <4>3. CASE ~(x = w /\ t = s)
        BY <1>6, <2>7, <4>1, <4>3 DEF Replaced
      <4> QED BY <4>2, <4>3
    <3>3. CASE \E r \in Requests : req[r].set # None \/ Clears(req[r], t)
      <4>1. PICK r \in Requests : req[r].set # None \/ Clears(req[r], t)
        BY <3>3
      <4>2. req'[r].set # None \/ Clears(req'[r], t)
        <5>1. CASE Waits(r, w, s)
          BY <1>7, <2>3, <4>1, <5>1 DEF Clears
        <5>2. CASE ~Waits(r, w, s)
          BY <1>7, <4>1, <5>2
        <5> QED BY <5>1, <5>2
      <4> QED BY <4>2 DEF Replaced
    <3> QED BY <3>1, <3>2, <3>3 DEF Replaced
  <2>8. ASSUME NEW t \in Sessions PROVE Retired(t)'
    <3>1. SUFFICES ASSUME session[t].status = "rotated", ~session[t].grace, NEW r \in Requests,
                          req'[r].pc # "free", req'[r].refresh = t
                   PROVE  FALSE
      BY <1>4, <2>1 DEF Calm, Retired
    <3>2. ~Fresh(t) /\ t # None /\ (req[r].pc # "free" => req[r].refresh # t)
      BY <1>2, <2>1, <3>1 DEF Calm, Retired, Aged
    <3> QED BY <1>7, <2>3, <3>1, <3>2
  <2> QED BY <2>2, <2>5, <2>6, <2>7, <2>8 DEF Calm
<1> QED BY <1>9, <1>10, <1>11, <1>12 DEF SessionInv

\* The flights that fail, and the calls that were given up: faults all of them.
LEMMA BrokenKeeps ==
  ASSUME SessionInv, NEW w \in Servers, NEW s \in Sessions,
         FlightFails(w, s) \/ AnswerUnusable(w, s) \/ LateRefresh(s)
  PROVE  SessionInv'
<1>1. /\ session \in [Sessions -> Rows] /\ jar \in Jars /\ req \in [Requests -> Messages]
      /\ flight \in [Servers -> [Sessions -> Entries]] /\ late \subseteq Sessions
      /\ faults \in 0 .. MaxFaults /\ alarm \in BOOLEAN /\ CoreOK
  BY Typed DEF SessionInv
<1>2. Cookie = Sessions \cup {None} /\ MaxFaults \in Nat
  BY Names
<1>3. CASE FlightFails(w, s) \/ AnswerUnusable(w, s)
  <2>1. Fault /\ UNCHANGED <<session, alarm, jar, req>>
    BY <1>3 DEF FlightFails, AnswerUnusable
  <2>2. late' \subseteq Sessions
    BY <1>1, <1>3 DEF FlightFails, AnswerUnusable
  <2>3. flight' \in [Servers -> [Sessions -> Entries]]
    <3>1. CASE FlightFails(w, s)
      <4>1. PICK f, g : f = flight[w][s] /\ g = [f EXCEPT !.st = "failed"]
        OBVIOUS
      <4>2. g \in Entries
        BY <1>1, <4>1 DEF Entries
      <4>3. flight' = [flight EXCEPT ![w][s] = g]
        BY <1>1, <3>1, <4>1 DEF FlightFails
      <4> QED BY <1>1, <4>2, <4>3
    <3>2. CASE AnswerUnusable(w, s)
      <4>1. PICK g : g = [st |-> "failed", new |-> None]
        OBVIOUS
      <4>2. g \in Entries
        BY <1>2, <4>1 DEF Entries
      <4>3. flight' = [flight EXCEPT ![w][s] = g]
        BY <3>2, <4>1 DEF AnswerUnusable
      <4> QED BY <1>1, <4>2, <4>3
    <3> QED BY <1>3, <3>1, <3>2
  <2>4. faults' \in 0 .. MaxFaults /\ faults' # 0
    BY <1>1, <1>2, <2>1 DEF Fault
  <2>5. CoreOK'
    BY <1>1, <2>1, <2>2, <2>3, <2>4 DEF CoreOK, Rows, Messages, Entries, Jars
  <2>6. CookiesMatch' /\ \A r \in Requests : Revoking(req[r])'
    BY <1>1, <2>1, RowsStay, ShapesKept
  <2> QED BY <2>4, <2>5, <2>6 DEF SessionInv
<1>4. CASE LateRefresh(s)
  <2>1. s \in late /\ late' = late \ {s} /\ UNCHANGED <<jar, req, flight, faults>>
    BY <1>4 DEF LateRefresh
  <2>2. PICK new \in Cookie : BackendRefresh(s, new)
    BY <1>4 DEF LateRefresh
  <2>3. RowsKept /\ alarm' \in BOOLEAN
    BY <1>1, <2>2, Refreshing
  <2>4. CoreOK'
    <3>1. session' \in [Sessions -> Rows] /\ late' \subseteq Sessions
      BY <1>1, <2>1, <2>3 DEF RowsKept
    <3> QED BY <1>1, <2>1, <2>3, <3>1 DEF CoreOK, Rows, Messages, Entries, Jars
  <2>5. CookiesMatch' /\ \A r \in Requests : Revoking(req[r])'
    BY <2>1, <2>3, ShapesKept
  <2>6. faults' # 0
    BY <2>1 DEF SessionInv, Calm
  <2> QED BY <2>4, <2>5, <2>6 DEF SessionInv
<1> QED BY <1>3, <1>4

-----------------------------------------------------------------------------
(* Time.                                                                    *)

\* An access token gets older.
LEMMA AgesKeeps ==
  ASSUME SessionInv, NEW s \in Sessions, AccessAges(s)
  PROVE  SessionInv'
<1>1. /\ session \in [Sessions -> Rows] /\ jar \in Jars /\ req \in [Requests -> Messages]
      /\ flight \in [Servers -> [Sessions -> Entries]] /\ CoreOK
  BY Typed DEF SessionInv
<1>2. Cookie = Sessions \cup {None} /\ None \notin Sessions
  BY Names
<1>3. /\ session[s].status \in {"live", "rotated"} /\ session[s].access # "expired"
      /\ UNCHANGED <<alarm, req, flight, late, faults>>
  BY <1>2 DEF AccessAges, Unexpired
<1>4. PICK row : row = session[s]
  OBVIOUS
<1>5. PICK age : age = IF row.access = "fresh" THEN "expiring" ELSE "expired"
  OBVIOUS
<1>6. PICK old : old = [row EXCEPT !.access = age]
  OBVIOUS
<1>7. old \in Rows /\ old.status = row.status /\ old.grace = row.grace /\ old.access # "fresh"
  BY <1>1, <1>4, <1>5, <1>6 DEF Rows
<1>8. session' = [session EXCEPT ![s] = old]
  BY <1>1, <1>4, <1>5, <1>6 DEF AccessAges
<1>9. /\ session' \in [Sessions -> Rows] /\ session'[s] = old
      /\ \A t \in Sessions \ {s} : session'[t] = session[t]
      /\ \A t \in Sessions : session'[t].status = session[t].status /\ session'[t].grace = session[t].grace
  BY <1>1, <1>4, <1>7, <1>8
<1>10. /\ jar' \in Jars /\ jar'.refresh = jar.refresh
       /\ \/ jar'.access = jar.access
          \/ jar'.access = None /\ jar.access = s
  <2>1. CASE session[s].access = "expiring" /\ jar.access = s
    <3>1. jar' = [jar EXCEPT !.access = None]
      BY <2>1 DEF AccessAges
    <3> QED BY <1>1, <1>2, <2>1, <3>1 DEF Jars
  <2>2. CASE ~(session[s].access = "expiring" /\ jar.access = s)
    <3>1. jar' = jar
      BY <2>2 DEF AccessAges
    <3> QED BY <1>1, <3>1
  <2> QED BY <2>1, <2>2
<1>11. CoreOK'
  BY <1>1, <1>3, <1>9, <1>10 DEF CoreOK, Rows, Messages, Entries, Jars
<1>12. CookiesMatch'
  BY <1>3, <1>10 DEF SessionInv, CookiesMatch
<1>13. ASSUME NEW r \in Requests PROVE Revoking(req[r])'
  <2>1. PICK q : q = req[r]
    OBVIOUS
  <2>2. q \in Messages /\ Revoking(q)
    BY <1>1, <2>1 DEF SessionInv
  <2>3. q.refresh # None => q.refresh \in Sessions
    BY <1>2, <2>2 DEF Messages
  <2>4. Revoking(q)'
    BY <1>9, <2>2, <2>3 DEF Revoking
  <2> QED BY <1>3, <2>1, <2>4 DEF Revoking
<1>14. ASSUME faults' = 0 PROVE Calm'
  <2>1. Calm
    BY <1>3, <1>14 DEF SessionInv
  <2>2. /\ \A t \in Cookie : Fresh(t)' => Fresh(t)
        /\ \A t \in Cookie : t # s /\ Fresh(t) => Fresh(t)'
        /\ ~Fresh(s)'
    BY <1>2, <1>7, <1>9 DEF Fresh
  <2>3. Fresh(s) => /\ \A r \in Requests : ~Concerns(r, s)
                    /\ \A w \in Servers, t \in Sessions : flight[w][t].new # s
    BY DEF AccessAges
  <2>4. ~alarm' /\ late' = {}
    BY <1>3, <2>1 DEF Calm
  <2>5. Aged'
    <3>1. ASSUME NEW t \in Sessions
          PROVE  (session'[t].status = "none" => Fresh(t)') /\ (session'[t].status = "rotated" => ~Fresh(t)')
      <4>1. (session[t].status = "none" => Fresh(t)) /\ (session[t].status = "rotated" => ~Fresh(t))
        BY <2>1 DEF Calm, Aged
      <4> QED BY <1>2, <1>3, <1>9, <2>2, <4>1
    <3> QED BY <3>1 DEF Aged
  <2>6. jar'.access = None => ~Fresh(jar.refresh)'
    <3>1. PICK t : t = jar.refresh
      OBVIOUS
    <3>2. t \in Cookie /\ jar.access \in {None, t} /\ (jar.access = None => ~Fresh(t))
      BY <1>1, <2>1, <3>1 DEF Jars, Calm, SessionInv, CookiesMatch
    <3>3. jar'.access = None => ~Fresh(t)'
      BY <1>2, <1>10, <2>2, <3>2
    <3> QED BY <1>10, <3>1, <3>3 DEF Fresh
  <2>7. ASSUME NEW r \in Requests PROVE RequestAged(req[r])'
    <3>1. PICK q : q = req[r]
      OBVIOUS
    <3>2. q \in Messages /\ RequestAged(q)
      BY <1>1, <2>1, <3>1 DEF Calm
    <3>3. q.refresh \in Cookie /\ q.set \in Cookie
      BY <3>2 DEF Messages
    <3>4. q.set # None => q.pc # "free" /\ Fresh(q.set) /\ q.set # s
      BY <2>3, <3>1, <3>2 DEF RequestAged, Concerns
    <3>5. RequestAged(q)'
      BY <2>2, <3>2, <3>3, <3>4 DEF RequestAged
    <3> QED BY <1>3, <3>1, <3>5 DEF RequestAged, Fresh
  <2>8. ASSUME NEW w \in Servers, NEW t \in Sessions PROVE FlightAged(w, t)'
    <3>1. FlightAged(w, t) /\ flight[w][t].new \in Cookie /\ t \in Cookie
      BY <1>1, <1>2, <2>1 DEF Calm, Entries
    <3>2. flight[w][t].st = "issued" => Fresh(flight[w][t].new) /\ flight[w][t].new # s
      BY <2>3, <3>1 DEF FlightAged
    <3>3. \A x \in Requests : Waits(x, w, t) => Waits(x, w, t)'
      BY <1>3 DEF Waits
    <3> QED BY <1>3, <2>2, <3>1, <3>2, <3>3 DEF FlightAged
  <2>9. ASSUME NEW t \in Sessions, session'[t].status = "rotated", jar'.refresh = t PROVE Replaced(t)'
    <3>1. Replaced(t)
      BY <1>9, <1>10, <2>1, <2>9 DEF Calm
    <3> QED BY <1>3, <3>1 DEF Replaced
  <2>10. ASSUME NEW t \in Sessions PROVE Retired(t)'
    <3>1. Retired(t)
      BY <2>1 DEF Calm
    <3> QED BY <1>3, <1>9, <1>10, <3>1 DEF Retired
  <2> QED BY <2>4, <2>5, <2>6, <2>7, <2>8, <2>9, <2>10 DEF Calm
<1> QED BY <1>11, <1>12, <1>13, <1>14 DEF SessionInv

\* The grace of a rotated session is over: nobody has its token left.
LEMMA GraceKeeps ==
  ASSUME SessionInv, NEW s \in Sessions, GraceEnds(s)
  PROVE  SessionInv'
<1>1. /\ session \in [Sessions -> Rows] /\ jar \in Jars /\ req \in [Requests -> Messages]
      /\ flight \in [Servers -> [Sessions -> Entries]] /\ CoreOK
  BY Typed DEF SessionInv
<1>2. /\ session[s].status = "rotated" /\ UNCHANGED <<alarm, jar, req, flight, late, faults>>
      /\ \A w \in Servers : flight[w][s].st = "idle"
      /\ \A r \in Requests : ~Concerns(r, s) /\ req[r].set = None
  BY DEF GraceEnds
<1>3. PICK row, old : row = session[s] /\ old = [row EXCEPT !.grace = FALSE]
  OBVIOUS
<1>4. old \in Rows /\ old.status = row.status /\ old.access = row.access
  BY <1>1, <1>3 DEF Rows
<1>5. session' = [session EXCEPT ![s] = old]
  BY <1>1, <1>3 DEF GraceEnds
<1>6. /\ session' \in [Sessions -> Rows]
      /\ \A t \in Sessions \ {s} : session'[t] = session[t]
      /\ \A t \in Sessions : session'[t].status = session[t].status /\ session'[t].access = session[t].access
  BY <1>1, <1>3, <1>4, <1>5
<1>7. CoreOK'
  BY <1>1, <1>2, <1>6 DEF CoreOK, Rows, Messages, Entries, Jars
<1>8. CookiesMatch'
  BY <1>2 DEF SessionInv, CookiesMatch
<1>9. ASSUME NEW r \in Requests PROVE Revoking(req[r])'
  <2>1. PICK q : q = req[r]
    OBVIOUS
  <2>2. q \in Messages /\ Revoking(q)
    BY <1>1, <2>1 DEF SessionInv
  <2>3. q.refresh # None => q.refresh \in Sessions
    BY <2>2, Names DEF Messages
  <2>4. Revoking(q)'
    BY <1>6, <2>2, <2>3 DEF Revoking
  <2> QED BY <1>2, <2>1, <2>4 DEF Revoking
<1>10. ASSUME faults' = 0 PROVE Calm'
  <2>1. Calm
    BY <1>2, <1>10 DEF SessionInv
  <2>2. \A t \in Cookie : Fresh(t)' <=> Fresh(t)
    BY <1>6, Names DEF Fresh
  <2>3. jar.refresh \in Cookie /\ Sessions \subseteq Cookie
    BY <1>1, Names DEF Jars
  <2>4. Aged' /\ ~alarm' /\ late' = {}
    BY <1>2, <1>6, <2>1, <2>2, <2>3 DEF Calm, Aged
  <2>5. jar'.access = None => ~Fresh(jar.refresh)'
    <3>1. PICK t : t = jar.refresh
      OBVIOUS
    <3>2. jar.access = None => ~Fresh(t)'
      BY <2>1, <2>2, <2>3, <3>1 DEF Calm
    <3> QED BY <1>2, <3>1, <3>2 DEF Fresh
  <2>6. ASSUME NEW r \in Requests PROVE RequestAged(req[r])'
    <3>1. PICK q : q = req[r]
      OBVIOUS
    <3>2. q \in Messages /\ RequestAged(q)
      BY <1>1, <2>1, <3>1 DEF Calm
    <3>3. RequestAged(q)'
      BY <2>2, <3>2 DEF RequestAged, Messages
    <3> QED BY <1>2, <3>1, <3>3 DEF RequestAged, Fresh
  <2>7. ASSUME NEW w \in Servers, NEW t \in Sessions PROVE FlightAged(w, t)'
    <3>1. FlightAged(w, t) /\ flight[w][t].new \in Cookie /\ t \in Cookie
      BY <1>1, <2>1, <2>3 DEF Calm, Entries
    <3>2. \A x \in Requests : Waits(x, w, t) => Waits(x, w, t)'
      BY <1>2 DEF Waits
    <3> QED BY <1>2, <2>2, <3>1, <3>2 DEF FlightAged
  <2>8. ASSUME NEW t \in Sessions, session'[t].status = "rotated", jar'.refresh = t PROVE Replaced(t)'
    <3>1. Replaced(t)
      BY <1>2, <1>6, <2>1, <2>8 DEF Calm
    <3> QED BY <1>2, <3>1 DEF Replaced
  <2>9. ~Replaced(s)
    BY <1>2 DEF Replaced, Clears, Concerns
  <2>10. ASSUME NEW t \in Sessions PROVE Retired(t)'
    <3>1. CASE t = s
      <4>1. jar.refresh # s
        BY <1>2, <2>1, <2>9 DEF Calm
      <4>2. \A r \in Requests : req[r].pc # "free" => req[r].refresh # s
        BY <1>2 DEF Concerns
      <4> QED BY <1>2, <3>1, <4>1, <4>2 DEF Retired
    <3>2. CASE t # s
      <4>1. Retired(t) /\ session'[t] = session[t]
        BY <1>6, <2>1, <3>2 DEF Calm
      <4> QED BY <1>2, <4>1 DEF Retired
    <3> QED BY <3>1, <3>2
  <2> QED BY <2>4, <2>5, <2>6, <2>7, <2>8, <2>10 DEF Calm
<1> QED BY <1>7, <1>8, <1>9, <1>10 DEF SessionInv

-----------------------------------------------------------------------------
(* The theorems.                                                            *)

LEMMA Steps == SessionInv /\ [Next]_vars => SessionInv'
<1> SUFFICES ASSUME SessionInv, [Next]_vars PROVE SessionInv'
  OBVIOUS
<1>1. CASE UNCHANGED vars
  BY <1>1, Idling
<1>2. CASE \E r \in Requests, k \in Kinds, w \in Servers : Send(r, k, w)
  BY <1>2, SendKeeps
<1>3. CASE \E r \in Requests : Serve(r) \/ Arrive(r)
  <2>1. PICK r \in Requests : Serve(r) \/ Arrive(r)
    BY <1>3
  <2>2. CASE PassThrough(r) \/ CurrentUser(r) \/ LogoutStarts(r) \/ LoginRefused(r)
    BY <2>2, GoingOnKeeps
  <2>3. CASE LogoutRefreshes(r) \/ LogoutRevokes(r)
    BY <2>3, LogoutKeeps
  <2>4. CASE JoinFlight(r)
    BY <2>4, JoinKeeps
  <2>5. CASE WrongRoleRevokes(r)
    BY <2>5, WrongRoleKeeps
  <2>6. CASE Arrive(r)
    BY <2>6, ArriveKeeps
  <2> QED BY <2>1, <2>2, <2>3, <2>4, <2>5, <2>6 DEF Serve
<1>4. CASE \E r \in Requests : Login(r) \/ LoseAnswer(r) \/ CurrentUserFails(r) \/ LogoutFails(r)
  <2>1. PICK r \in Requests : Login(r) \/ LoseAnswer(r) \/ CurrentUserFails(r) \/ LogoutFails(r)
    BY <1>4
  <2> QED BY <2>1, LoginKeeps, FailingKeeps
<1>5. CASE \E w \in Servers, s \in Sessions :
             \/ FlightAnswered(w, s) \/ FlightFails(w, s) \/ AnswerUnusable(w, s)
             \/ FlightSettles(w, s)
  <2>1. PICK w \in Servers, s \in Sessions :
          \/ FlightAnswered(w, s) \/ FlightFails(w, s) \/ AnswerUnusable(w, s)
          \/ FlightSettles(w, s)
    BY <1>5
  <2> QED BY <2>1, AnsweredKeeps, BrokenKeeps, SettlesKeeps
<1>6. CASE \E s \in Sessions : LateRefresh(s) \/ AccessAges(s) \/ GraceEnds(s)
  <2>1. PICK s \in Sessions : LateRefresh(s) \/ AccessAges(s) \/ GraceEnds(s)
    BY <1>6
  <2>2. PICK w : w \in Servers
    BY BoundsAssumption
  <2> QED BY <2>1, <2>2, BrokenKeeps, AgesKeeps, GraceKeeps
<1> QED BY <1>1, <1>2, <1>3, <1>4, <1>5, <1>6 DEF Next

\* The inductive invariant: a rotated session that the jar still holds is about
\* to be replaced, and one past its grace has no token left anywhere, as long as
\* no call failed (session-refresh.ts:60-130, auth.service.ts:430-480).
THEOREM SessionInvariance == Spec => []SessionInv
BY Starting, Steps, PTL DEF Spec

\* Concurrent refreshes of one token, from tabs, processes and logouts, never
\* pass for the reuse of a stolen token: the alarm that ends every session of
\* the user takes a failed call or a lost answer (auth.service.ts:446-470).
THEOREM NoFalseAlarms == Spec => []NoFalseAlarm
<1>1. SessionInv => NoFalseAlarm
  <2> SUFFICES ASSUME SessionInv, alarm PROVE faults > 0
    BY DEF NoFalseAlarm
  <2>1. faults \in Nat
    BY Typed, Names DEF SessionInv
  <2>2. faults # 0
    BY DEF SessionInv, Calm
  <2> QED BY <2>1, <2>2
<1> QED BY <1>1, SessionInvariance, PTL

\* The steps by which an answer comes to clear the cookies.
LEMMA Clearing ==
  ASSUME CoreOK, Next, NEW r \in Requests, ~req[r].clear, req'[r].clear
  PROVE  \/ CurrentUser(r) /\ req[r].kind = "me" /\ ~Authenticates(req[r].access)
         \/ LogoutStarts(r) \/ LogoutRefreshes(r) \/ LogoutRevokes(r) \/ LogoutFails(r)
<1>1. /\ req \in [Requests -> Messages] /\ jar \in Jars
      /\ flight \in [Servers -> [Sessions -> Entries]]
  BY Typed
<1>2. ASSUME NEW x \in Requests, NEW v \in Messages, req' = [req EXCEPT ![x] = v],
             v.clear = FALSE \/ v.clear = req[x].clear
      PROVE  FALSE
  BY <1>1, <1>2
<1>3. ASSUME req' = req PROVE FALSE
  BY <1>3
<1>4. ASSUME NEW x \in Requests, req' = [req EXCEPT ![x] = req'[x]] PROVE x = r
  BY <1>1, <1>4
<1>5. CASE \E x \in Requests, k \in Kinds, w \in Servers : Send(x, k, w)
  <2>1. PICK x \in Requests, k \in Kinds, w \in Servers : Send(x, k, w)
    BY <1>5
  <2>2. PICK v : v = Request(k, w, jar)
    OBVIOUS
  <2>3. req' = [req EXCEPT ![x] = v]
    BY <2>1, <2>2 DEF Send
  <2>4. k \in AllKinds
    BY BoundsAssumption DEF AllKinds
  <2>5. PICK c : c = jar
    OBVIOUS
  <2>6. v \in Messages /\ v.clear = FALSE
    <3>1. c \in Jars /\ v = Request(k, w, c)
      BY <1>1, <2>2, <2>5
    <3> QED BY <2>4, <3>1, Started
  <2> QED BY <1>2, <2>3, <2>6
<1>6. CASE \E x \in Requests : Serve(x) \/ Arrive(x)
  <2>1. PICK x \in Requests : Serve(x) \/ Arrive(x)
    BY <1>6
  <2>2. PICK q : q = req[x]
    OBVIOUS
  <2>3. q \in Messages
    BY <1>1, <2>2
  <2>4. CASE PassThrough(x) \/ JoinFlight(x)
    <3>1. PICK p \in {"handler", "flight"} : req' = [req EXCEPT ![x] = [q EXCEPT !.pc = p]]
      <4>1. CASE PassThrough(x)
        BY <1>1, <2>2, <4>1 DEF PassThrough
      <4>2. CASE JoinFlight(x)
        BY <1>1, <2>2, <4>2 DEF JoinFlight
      <4> QED BY <2>4, <4>1, <4>2
    <3>2. PICK v : v = [q EXCEPT !.pc = p]
      OBVIOUS
    <3>3. v \in Messages /\ v.clear = q.clear
      BY <2>3, <3>2 DEF Messages
    <3> QED BY <1>2, <2>2, <3>1, <3>2, <3>3
  <2>5. CASE CurrentUser(x)
    <3>1. PICK v : v = IF q.access = None \/ Authenticates(q.access) THEN Answered(q) ELSE RefusedMe(q)
      OBVIOUS
    <3>2. req' = [req EXCEPT ![x] = v]
      BY <2>2, <2>5, <3>1 DEF CurrentUser
    <3>3. CASE q.kind = "me" /\ ~Authenticates(q.access)
      <4>1. v \in Messages
        BY <2>3, <3>1, Moved, Refusing
      <4>2. req'[x] = v
        BY <1>1, <3>2, <4>1
      <4>3. x = r
        BY <1>4, <3>2, <4>2
      <4> QED BY <2>2, <2>5, <3>3, <4>3
    <3>4. CASE ~(q.kind = "me" /\ ~Authenticates(q.access))
      <4>1. v \in Messages /\ v.clear = q.clear
        BY <2>3, <3>1, <3>4, Moved, Refusing
      <4> QED BY <1>2, <2>2, <3>2, <4>1
    <3> QED BY <3>3, <3>4
  <2>6. CASE LogoutStarts(x) \/ LogoutRefreshes(x) \/ LogoutRevokes(x)
    <3>1. \E v : req' = [req EXCEPT ![x] = v]
      BY <2>6, Zenon DEF LogoutStarts, LogoutRefreshes, LogoutRevokes
    <3>2. req' = [req EXCEPT ![x] = req'[x]]
      BY <1>1, <3>1
    <3>3. x = r
      BY <1>4, <3>2
    <3> QED BY <2>6, <3>3
  <2>7. CASE LoginRefused(x) \/ WrongRoleRevokes(x)
    <3>1. PICK v : v = Answered(q)
      OBVIOUS
    <3>2. req' = [req EXCEPT ![x] = v]
      BY <2>2, <2>7, <3>1 DEF LoginRefused, WrongRoleRevokes
    <3>3. v \in Messages /\ v.clear = q.clear
      BY <2>3, <3>1, Moved
    <3> QED BY <1>2, <2>2, <3>2, <3>3
  <2>8. CASE Arrive(x)
    <3>1. q.kind = "invalid" \/ req' = [req EXCEPT ![x] = Free]
      BY <2>2, <2>8 DEF Arrive
    <3>2. CASE q.kind = "invalid"
      <4>1. PICK c : c = jar'
        OBVIOUS
      <4>2. PICK v : v = Request("logout", q.srv, c)
        OBVIOUS
      <4>3. req' = [req EXCEPT ![x] = v]
        BY <2>2, <2>8, <3>2, <4>1, <4>2 DEF Arrive
      <4>4. v.clear = FALSE
        BY <4>2 DEF Request, Free
      <4>5. req'[r] = IF x = r THEN v ELSE req[r]
        BY <1>1, <4>3
      <4> QED BY <4>4, <4>5
    <3> QED BY <1>2, <3>1, <3>2, FreeRequest
  <2> QED BY <2>1, <2>4, <2>5, <2>6, <2>7, <2>8 DEF Serve
<1>7. CASE \E x \in Requests : Login(x) \/ LoseAnswer(x) \/ CurrentUserFails(x) \/ LogoutFails(x)
  <2>1. PICK x \in Requests : Login(x) \/ LoseAnswer(x) \/ CurrentUserFails(x) \/ LogoutFails(x)
    BY <1>7
  <2>2. PICK q : q = req[x]
    OBVIOUS
  <2>3. q \in Messages
    BY <1>1, <2>2
  <2>4. CASE Login(x)
    <3>1. PICK n : n = NextSession
      OBVIOUS
    <3>2. Unused # {}
      BY <2>4 DEF Login
    <3>3. n \in Cookie
      BY <3>1, <3>2, FreshIds, Names
    <3>4. PICK a, v : a = [Answered(q) EXCEPT !.set = n] /\ v = [q EXCEPT !.pc = "revoking", !.access = n]
      OBVIOUS
    <3>5. req' = [req EXCEPT ![x] = a] \/ req' = [req EXCEPT ![x] = v]
      BY <2>2, <2>4, <3>1, <3>4 DEF Login
    <3>6. PICK b : b = Answered(q)
      OBVIOUS
    <3>7. b \in Messages /\ b.clear = q.clear
      BY <2>3, <3>6, Moved
    <3>8. a \in Messages /\ a.clear = q.clear /\ v \in Messages /\ v.clear = q.clear
      BY <2>3, <3>3, <3>4, <3>6, <3>7 DEF Messages
    <3> QED BY <1>2, <2>2, <3>5, <3>8
  <2>5. CASE LoseAnswer(x)
    <3>1. req' = [req EXCEPT ![x] = Free]
      BY <2>5 DEF LoseAnswer
    <3> QED BY <1>2, <3>1, FreeRequest
  <2>6. CASE CurrentUserFails(x)
    <3>1. PICK v : v = Answered(q)
      OBVIOUS
    <3>2. req' = [req EXCEPT ![x] = v]
      BY <1>1, <2>2, <2>6, <3>1 DEF CurrentUserFails
    <3>3. v \in Messages /\ v.clear = q.clear
      BY <2>3, <3>1, Moved
    <3> QED BY <1>2, <2>2, <3>2, <3>3
  <2>7. CASE LogoutFails(x)
    <3>1. \E v : req' = [req EXCEPT ![x] = v]
      BY <2>7, Zenon DEF LogoutFails
    <3>2. req' = [req EXCEPT ![x] = req'[x]]
      BY <1>1, <3>1
    <3>3. x = r
      BY <1>4, <3>2
    <3> QED BY <2>7, <3>3
  <2> QED BY <2>1, <2>4, <2>5, <2>6, <2>7
<1>8. CASE \E w \in Servers, s \in Sessions :
             \/ FlightAnswered(w, s) \/ FlightFails(w, s) \/ AnswerUnusable(w, s)
             \/ FlightSettles(w, s)
  <2>1. PICK w \in Servers, s \in Sessions :
          \/ FlightAnswered(w, s) \/ FlightFails(w, s) \/ AnswerUnusable(w, s)
          \/ FlightSettles(w, s)
    BY <1>8
  <2>2. CASE FlightSettles(w, s)
    <3>1. PICK q, f : q = req[r] /\ f = flight[w][s]
      OBVIOUS
    <3>2. q \in Messages /\ f \in Entries
      BY <1>1, <3>1
    <3>3. req'[r] = Forwarded(q, f) \/ req'[r] = q
      BY <2>2, <3>1 DEF FlightSettles
    <3>4. Forwarded(q, f).clear = q.clear
      BY <3>2, Forwarding
    <3> QED BY <3>1, <3>3, <3>4
  <2>3. CASE ~FlightSettles(w, s)
    BY <1>3, <2>1, <2>3 DEF FlightAnswered, FlightFails, AnswerUnusable
  <2> QED BY <2>2, <2>3
<1>9. CASE \E s \in Sessions : LateRefresh(s) \/ AccessAges(s) \/ GraceEnds(s)
  BY <1>3, <1>9 DEF LateRefresh, AccessAges, GraceEnds
<1> QED BY <1>5, <1>6, <1>7, <1>8, <1>9 DEF Next

\* An outage signs nobody out: auth/me clears the cookies of a session only
\* after the backend refused its token (session-route-handlers.ts:190-225).
THEOREM OnlyVerdicts == Spec => OnlyAVerdictClears
<1>1. SessionInv /\ [Next]_vars =>
        [\A r \in Requests :
           (req[r].pc = "handler" /\ req[r].kind = "me" /\ ~req[r].clear /\ req'[r].clear)
             => ~Authenticates(req[r].access)]_vars
  <2> SUFFICES ASSUME SessionInv, Next, NEW r \in Requests,
                      req[r].pc = "handler", req[r].kind = "me", ~req[r].clear, req'[r].clear
               PROVE  ~Authenticates(req[r].access)
    OBVIOUS
  <2>1. ~(LogoutStarts(r) \/ LogoutRefreshes(r) \/ LogoutRevokes(r) \/ LogoutFails(r))
    BY DEF LogoutStarts, LogoutRefreshes, LogoutRevokes, LogoutFails
  <2> QED BY <2>1, Clearing DEF SessionInv
<1> QED BY <1>1, SessionInvariance, PTL DEF Spec, OnlyAVerdictClears

-----------------------------------------------------------------------------
(* The sessions of one sign-in.                                             *)

\* Of the sessions that descend from one login at most one is live, and while
\* one is, the others were rotated.
LineageOK ==
  /\ signIn \in [Sessions -> Cookie]
  /\ \A s \in Sessions : session[s].status = "none" <=> signIn[s] = None
  /\ \A s, t \in Sessions : signIn[s] = t => session[t].status # "none"
  /\ \A s, t \in Sessions :
       s # t /\ Live(t) /\ signIn[s] = signIn[t] => session[s].status = "rotated"

\* Only an answer to a refresh or a login carries new cookies.
Settable(q) ==
  /\ q.set # None => /\ q.pc \in {"handler", "reply"} /\ q.kind # "logout"
                     /\ q.kind = "login" => q.pc = "reply"
  /\ q.pc \in {"sent", "flight"} => q.kind \notin {"login", "logout"}

\* A logout that revokes another session than the one it presented has just got it.
RevokesNew(q) ==
  q.kind = "logout" /\ q.pc = "revoking" /\ q.access # q.refresh => Fresh(q.access)

\* Session s is on its way to the browser, or to its end.
Bears(q, s) ==
  \/ req[q].set = s
  \/ /\ req[q].pc = "flight" /\ req[q].refresh # None
     /\ flight[req[q].srv][req[q].refresh].st = "issued"
     /\ flight[req[q].srv][req[q].refresh].new = s
  \/ req[q].kind = "logout" /\ req[q].pc = "revoking" /\ req[q].access = s /\ req[q].refresh # s

\* A live session of the sign-in the jar holds, other than the jar's, is borne
\* by a request.
TrailOK ==
  \A s \in Sessions :
    jar.refresh # None /\ Live(s) /\ s # jar.refresh /\ signIn[s] = signIn[jar.refresh]
      => \E q \in Requests : Bears(q, s)

FamilyInv ==
  /\ LineageOK
  /\ \A r \in Requests : Settable(req[r]) /\ RevokesNew(req[r])
  /\ faults = 0 => TrailOK

LEMMA LineageKept ==
  ASSUME CoreOK, LineageOK, signIn' = signIn, \A s \in Sessions : NoBirth(s)
  PROVE  LineageOK'
BY Names DEF LineageOK, NoBirth, Live

\* A session n is created: of a new sign-in, or in the place of session s.
LEMMA LineageGrows ==
  ASSUME CoreOK, LineageOK, NEW n \in Sessions, session[n].status = "none",
         session'[n].status = "live", NEW f,
         signIn' = [signIn EXCEPT ![n] = f],
         \/ f = n /\ \A t \in Sessions \ {n} : session'[t] = session[t]
         \/ \E s \in Sessions :
              /\ Live(s) /\ f = signIn[s] /\ session'[s].status = "rotated"
              /\ \A t \in Sessions \ {s, n} : session'[t] = session[t]
  PROVE  LineageOK'
<1>1. /\ signIn \in [Sessions -> Cookie] /\ Cookie = Sessions \cup {None} /\ None \notin Sessions
      /\ signIn[n] = None
  BY Names DEF LineageOK
<1>2. CASE f = n /\ \A t \in Sessions \ {n} : session'[t] = session[t]
  <2>1. /\ signIn' \in [Sessions -> Cookie] /\ signIn'[n] = n
        /\ \A t \in Sessions \ {n} : signIn'[t] = signIn[t]
    BY <1>1, <1>2
  <2>2. \A t \in Sessions : signIn[t] # n
    BY DEF LineageOK
  <2> QED BY <1>1, <1>2, <2>1, <2>2 DEF LineageOK, Live
<1>3. ASSUME NEW s \in Sessions, Live(s), f = signIn[s], session'[s].status = "rotated",
             \A t \in Sessions \ {s, n} : session'[t] = session[t]
      PROVE  LineageOK'
  <2>1. s # n /\ f \in Sessions /\ session[s].status = "live"
    BY <1>1, <1>3 DEF LineageOK, Live
  <2>2. /\ signIn' \in [Sessions -> Cookie] /\ signIn'[n] = f /\ signIn'[s] = f
        /\ \A t \in Sessions \ {n} : signIn'[t] = signIn[t]
    BY <1>1, <1>3, <2>1
  <2>3. \A t \in Sessions : session'[t].status = "none" <=> signIn'[t] = None
    BY <1>1, <1>3, <2>1, <2>2 DEF LineageOK
  <2>4. \A t, u \in Sessions : signIn'[t] = u => session'[u].status # "none"
    BY <1>1, <1>3, <2>1, <2>2 DEF LineageOK
  <2>5. \A t, u \in Sessions :
          t # u /\ Live(u)' /\ signIn'[t] = signIn'[u] => session'[t].status = "rotated"
    BY <1>1, <1>3, <2>1, <2>2 DEF LineageOK, Live
  <2> QED BY <2>2, <2>3, <2>4, <2>5 DEF LineageOK
<1> QED BY <1>2, <1>3

LEMMA TrailStays ==
  ASSUME CoreOK, TrailOK, jar'.refresh = jar.refresh, signIn' = signIn,
         \A s \in Sessions : NoBirth(s),
         \A q \in Requests, s \in Sessions : Bears(q, s) /\ Live(s)' => \E x \in Requests : Bears(x, s)'
  PROVE  TrailOK'
<1> SUFFICES ASSUME NEW s \in Sessions, jar'.refresh # None, Live(s)', s # jar'.refresh,
                    signIn'[s] = signIn'[jar'.refresh]
             PROVE  \E q \in Requests : Bears(q, s)'
  BY DEF TrailOK
<1>1. Live(s)
  BY DEF Live, NoBirth
<1>2. \E q \in Requests : Bears(q, s)
  BY <1>1 DEF TrailOK
<1> QED BY <1>2

\* The step of one request that creates no session.
LEMMA OneStays ==
  ASSUME CoreOK, FamilyInv, NEW r \in Requests, NEW v \in Messages,
         req' = [req EXCEPT ![r] = v], flight' = flight, jar'.refresh = jar.refresh,
         signIn' = signIn, RowsKept, \A s \in Sessions : NoBirth(s),
         Settable(v), RevokesNew(v)',
         faults' = 0 => faults = 0 /\ \A s \in Sessions : Bears(r, s) /\ Live(s)' => v.set = s
  PROVE  FamilyInv'
<1>1. req' \in [Requests -> Messages] /\ req'[r] = v /\ \A x \in Requests \ {r} : req'[x] = req[x]
  BY Typed
<1>2. LineageOK'
  BY LineageKept DEF FamilyInv
<1>3. \A t \in Cookie : Fresh(t) => Fresh(t)'
  BY Names DEF RowsKept, Fresh
<1>4. ASSUME NEW x \in Requests PROVE Settable(req'[x]) /\ RevokesNew(req[x])'
  <2>1. CASE x = r
    BY <1>1, <2>1 DEF RevokesNew, Fresh
  <2>2. CASE x # r
    <3>1. req'[x] = req[x] /\ req[x] \in Messages /\ Settable(req[x]) /\ RevokesNew(req[x])
      BY <1>1, <2>2, Typed DEF FamilyInv
    <3>2. req[x].access \in Cookie
      BY <3>1 DEF Messages
    <3> QED BY <1>3, <3>1, <3>2 DEF RevokesNew, Fresh
  <2> QED BY <2>1, <2>2
<1>5. ASSUME faults' = 0 PROVE TrailOK'
  <2>1. TrailOK
    BY <1>5 DEF FamilyInv
  <2>2. ASSUME NEW q \in Requests, NEW s \in Sessions, Bears(q, s), Live(s)'
        PROVE  \E x \in Requests : Bears(x, s)'
    <3>1. CASE q = r
      <4>1. req'[r].set = s
        BY <1>1, <1>5, <2>2, <3>1
      <4> QED BY <4>1 DEF Bears
    <3>2. CASE q # r
      <4>1. req'[q] = req[q]
        BY <1>1, <3>2
      <4>2. Bears(q, s)'
        BY <2>2, <4>1 DEF Bears
      <4> QED BY <4>2
    <3> QED BY <3>1, <3>2
  <2> QED BY <2>1, <2>2, TrailStays
<1> QED BY <1>2, <1>4, <1>5 DEF FamilyInv, Settable

LEMMA NoneBorn ==
  ASSUME CoreOK, session' = session
  PROVE  RowsKept /\ \A s \in Sessions : NoBirth(s)
BY RowsStay DEF NoBirth

\* The request goes on, with what it bears.
LEMMA FamilyOneGoesOn ==
  ASSUME SessionInv, FamilyInv, NEW r \in Requests,
         PassThrough(r) \/ CurrentUser(r) \/ LogoutStarts(r) \/ LoginRefused(r)
  PROVE  FamilyInv'
<1>1. PICK q : q = req[r]
  OBVIOUS
<1>2. /\ q \in Messages /\ Settable(q) /\ CoreOK
      /\ Presents(q) => q.access \in {None, q.refresh}
  BY <1>1, Typed DEF SessionInv, FamilyInv, CookiesMatch
<1>3. /\ UNCHANGED <<session, alarm, jar, flight, late, signIn, faults>>
      /\ q.pc \in {"sent", "handler"}
  BY <1>1 DEF PassThrough, CurrentUser, LogoutStarts, LoginRefused
<1>4. RowsKept /\ \A s \in Sessions : NoBirth(s)
  BY <1>2, <1>3, NoneBorn
<1>5. PICK v \in Messages :
        /\ req' = [req EXCEPT ![r] = v] /\ v.set = q.set
        /\ v.set # None => v.pc \in {"handler", "reply"}
        /\ v.pc \notin {"sent", "flight"}
        /\ v.kind = q.kind \/ (q.kind = "recover" /\ v.kind = "invalid")
        /\ q.kind = "login" => v.pc = "reply" \/ v.set = None
        /\ v.pc = "revoking" => v.access = v.refresh
  <2>1. CASE PassThrough(r)
    <3>1. PICK v : v = [q EXCEPT !.pc = "handler"]
      OBVIOUS
    <3>2. v \in Messages /\ SameAs(v, q) /\ v.pc = "handler" /\ q.pc = "sent"
      BY <1>1, <1>2, <2>1, <3>1, Moved DEF PassThrough
    <3>3. req' = [req EXCEPT ![r] = v]
      BY <1>1, <2>1, <3>1, Typed DEF PassThrough, SessionInv
    <3> QED BY <1>2, <3>2, <3>3 DEF SameAs, Settable
  <2>2. CASE CurrentUser(r)
    <3>1. PICK v : v = IF q.access = None \/ Authenticates(q.access) THEN Answered(q) ELSE RefusedMe(q)
      OBVIOUS
    <3>2. req' = [req EXCEPT ![r] = v] /\ q.kind \in Proxied
      BY <1>1, <2>2, <3>1 DEF CurrentUser
    <3>3. /\ v \in Messages /\ v.pc = "reply" /\ v.set = q.set
          /\ v.kind = q.kind \/ (q.kind = "recover" /\ v.kind = "invalid")
      <4>1. CASE v = Answered(q)
        BY <1>2, <4>1, Moved DEF SameAs
      <4>2. CASE v = RefusedMe(q)
        <5>1. RefusedMe(q).kind = q.kind \/ (q.kind = "recover" /\ RefusedMe(q).kind = "invalid")
          <6>1. CASE q.kind = "recover"
            <7>1. PICK a, b : a = Answered(q) /\ b = [a EXCEPT !.kind = "invalid"]
              OBVIOUS
            <7>2. RefusedMe(q) = b /\ a \in Messages
              BY <1>2, <6>1, <7>1, Moved DEF RefusedMe
            <7> QED BY <6>1, <7>1, <7>2 DEF Messages
          <6>2. CASE q.kind # "recover"
            BY <1>2, <6>2, Refusing
          <6> QED BY <6>1, <6>2
        <5> QED BY <1>2, <4>2, <5>1, Refusing
      <4> QED BY <3>1, <4>1, <4>2
    <3> QED BY <3>2, <3>3 DEF Proxied
  <2>3. CASE LogoutStarts(r)
    <3>1. PICK v : v = CASE Unexpired(q.access) -> [q EXCEPT !.pc = "revoking"]
                       [] ~Unexpired(q.access) /\ q.refresh # None -> [q EXCEPT !.pc = "refreshing"]
                       [] OTHER -> Cleared(q)
      OBVIOUS
    <3>2. req' = [req EXCEPT ![r] = v] /\ q.kind = "logout" /\ q.pc = "handler"
      BY <1>1, <2>3, <3>1 DEF LogoutStarts
    <3>3. q.set = None
      BY <1>2, <3>2 DEF Settable
    <3>4. CASE Unexpired(q.access)
      <4>1. v = [q EXCEPT !.pc = "revoking"]
        BY <3>1, <3>4
      <4>2. v \in Messages /\ SameAs(v, q) /\ v.pc = "revoking"
        BY <1>2, <4>1, Moved
      <4>3. q.access = q.refresh
        BY <1>2, <3>2, <3>4 DEF Presents, Unexpired
      <4> QED BY <3>2, <3>3, <4>2, <4>3 DEF SameAs
    <3>5. CASE ~Unexpired(q.access) /\ q.refresh # None
      <4>1. v = [q EXCEPT !.pc = "refreshing"]
        BY <3>1, <3>5
      <4>2. v \in Messages /\ SameAs(v, q) /\ v.pc = "refreshing"
        BY <1>2, <4>1, Moved
      <4> QED BY <3>2, <3>3, <4>2 DEF SameAs
    <3>6. CASE ~Unexpired(q.access) /\ q.refresh = None
      <4>1. v = Cleared(q)
        BY <3>1, <3>6
      <4>2. v \in Messages /\ SameAs(v, q) /\ v.pc = "reply"
        BY <1>2, <4>1, Moved
      <4> QED BY <3>2, <3>3, <4>2 DEF SameAs
    <3> QED BY <3>4, <3>5, <3>6
  <2>4. CASE LoginRefused(r)
    <3>1. PICK v : v = Answered(q)
      OBVIOUS
    <3>2. v \in Messages /\ SameAs(v, q) /\ v.pc = "reply"
      BY <1>2, <3>1, Moved
    <3>3. req' = [req EXCEPT ![r] = v]
      BY <1>1, <2>4, <3>1 DEF LoginRefused
    <3> QED BY <3>2, <3>3 DEF SameAs
  <2> QED BY <2>1, <2>2, <2>3, <2>4
<1>6. Settable(v)
  BY <1>2, <1>5 DEF Settable
<1>7. RevokesNew(v)'
  BY <1>5 DEF RevokesNew
<1>8. \A s \in Sessions : Bears(r, s) => v.set = s
  BY <1>1, <1>3, <1>5 DEF Bears
<1> QED BY <1>2, <1>3, <1>4, <1>5, <1>6, <1>7, <1>8, OneStays

LEMMA FamilyJoin ==
  ASSUME SessionInv, FamilyInv, NEW r \in Requests, JoinFlight(r)
  PROVE  FamilyInv'
<1>1. PICK q, w, s : q = req[r] /\ w = req[r].srv /\ s = req[r].refresh
  OBVIOUS
<1>2. /\ q \in Messages /\ Settable(q) /\ CoreOK /\ req \in [Requests -> Messages]
      /\ flight \in [Servers -> [Sessions -> Entries]]
  BY <1>1, Typed DEF SessionInv, FamilyInv
<1>3. /\ q.pc = "sent" /\ s # None /\ UNCHANGED <<session, alarm, jar, late, signIn, faults>>
      /\ req' = [req EXCEPT ![r].pc = "flight"]
      /\ flight' = IF flight[w][s].st = "idle"
                   THEN [flight EXCEPT ![w][s].st = "sent"] ELSE flight
  BY <1>1 DEF JoinFlight, NeedsRefresh
<1>4. s \in Sessions /\ w \in Servers
  BY <1>1, <1>2, <1>3, Names DEF Messages
<1>5. \A x \in Servers, t \in Sessions :
        flight[x][t].st # "idle" => flight'[x][t] = flight[x][t]
  <2>1. CASE flight[w][s].st = "idle"
    <3>1. PICK e : e = [flight[w][s] EXCEPT !.st = "sent"]
      OBVIOUS
    <3>2. flight' = [flight EXCEPT ![w][s] = e]
      BY <1>2, <1>3, <1>4, <2>1, <3>1
    <3> QED BY <1>2, <1>4, <2>1, <3>2
  <2>2. CASE flight[w][s].st # "idle"
    BY <1>3, <2>2
  <2> QED BY <2>1, <2>2
<1>6. PICK v : v = [q EXCEPT !.pc = "flight"]
  OBVIOUS
<1>7. v \in Messages /\ SameAs(v, q) /\ v.pc = "flight"
  BY <1>2, <1>6, Moved
<1>8. req' = [req EXCEPT ![r] = v]
  BY <1>1, <1>2, <1>3, <1>6
<1>9. req'[r] = v /\ \A x \in Requests \ {r} : req'[x] = req[x]
  BY <1>2, <1>7, <1>8
<1>10. q.set = None
  BY <1>2, <1>3 DEF Settable
<1>11. LineageOK' /\ \A t \in Sessions : NoBirth(t)
  BY <1>2, <1>3, NoneBorn, LineageKept DEF FamilyInv
<1>12. ASSUME NEW x \in Requests PROVE Settable(req'[x]) /\ RevokesNew(req[x])'
  <2>1. CASE x = r
    BY <1>2, <1>3, <1>7, <1>9, <1>10, <2>1 DEF SameAs, Settable, RevokesNew
  <2>2. CASE x # r
    BY <1>3, <1>9, <2>2 DEF FamilyInv, RevokesNew, Fresh
  <2> QED BY <2>1, <2>2
<1>13. ASSUME faults' = 0 PROVE TrailOK'
  <2>1. TrailOK
    BY <1>3, <1>13 DEF FamilyInv
  <2>2. ASSUME NEW x \in Requests, NEW t \in Sessions, Bears(x, t) PROVE Bears(x, t)'
    <3>1. x # r
      BY <1>1, <1>3, <1>10, <2>2, Names DEF Bears
    <3>2. req'[x] = req[x] /\ req[x] \in Messages
      BY <1>2, <1>9, <3>1
    <3>3. CASE req[x].pc = "flight" /\ req[x].refresh # None
               /\ flight[req[x].srv][req[x].refresh].st = "issued"
               /\ flight[req[x].srv][req[x].refresh].new = t
      <4>1. req[x].srv \in Servers /\ req[x].refresh \in Sessions
        BY <3>2, <3>3, Names DEF Messages
      <4> QED BY <1>5, <3>2, <3>3, <4>1 DEF Bears
    <3>4. CASE ~(req[x].pc = "flight" /\ req[x].refresh # None
                 /\ flight[req[x].srv][req[x].refresh].st = "issued"
                 /\ flight[req[x].srv][req[x].refresh].new = t)
      BY <2>2, <3>2, <3>4 DEF Bears
    <3> QED BY <3>3, <3>4
  <2> QED BY <1>2, <1>3, <1>11, <2>1, <2>2, TrailStays
<1> QED BY <1>11, <1>12, <1>13 DEF FamilyInv, Settable

\* The revocation of a logout takes the session it bears.
LEMMA FamilyRevokes ==
  ASSUME SessionInv, FamilyInv, NEW r \in Requests, LogoutRevokes(r) \/ WrongRoleRevokes(r)
  PROVE  FamilyInv'
<1>1. PICK q, v, a : q = req[r] /\ v = (IF q.kind = "logout" THEN Cleared(q) ELSE Answered(q)) /\ a = q.access
  OBVIOUS
<1>2. q \in Messages /\ Settable(q) /\ RevokesNew(q) /\ CoreOK /\ a \in Cookie /\ faults \in Nat
  <2>1. q \in Messages /\ Settable(q) /\ RevokesNew(q) /\ CoreOK /\ faults \in Nat
    BY <1>1, Typed, Names DEF SessionInv, FamilyInv
  <2> QED BY <1>1, <2>1 DEF Messages
<1>3. /\ q.pc = "revoking" /\ req' = [req EXCEPT ![r] = v] /\ q.kind \in {"logout", "login"}
      /\ UNCHANGED <<alarm, jar, flight, late, signIn>>
      /\ \/ BackendLogout(a) /\ faults' = faults
         \/ q.kind = "login" /\ session' = session /\ faults' = faults + 1
  BY <1>1 DEF LogoutRevokes, WrongRoleRevokes, Fault
<1>4. v \in Messages /\ SameAs(v, q) /\ v.pc = "reply"
  BY <1>1, <1>2, Moved
<1>5. q.set = None
  BY <1>2, <1>3 DEF Settable
<1>6. /\ RowsKept /\ \A s \in Sessions : NoBirth(s)
      /\ BackendLogout(a) /\ Unexpired(a) => ~Live(a)'
  BY <1>2, <1>3, Ending, NoneBorn
<1>7. Settable(v) /\ RevokesNew(v)'
  BY <1>4, <1>5 DEF SameAs, Settable, RevokesNew
<1>8. ASSUME faults' = 0, NEW s \in Sessions, Bears(r, s), Live(s)' PROVE v.set = s
  <2>1. q.kind = "logout" /\ a = s /\ q.refresh # s
    BY <1>1, <1>3, <1>5, <1>8, Names DEF Bears
  <2>2. Fresh(a)
    BY <1>1, <1>2, <1>3, <2>1 DEF RevokesNew
  <2>3. ~Live(a)'
    BY <1>3, <1>6, <2>1, <2>2 DEF Fresh, Unexpired
  <2> QED BY <1>8, <2>1, <2>3
<1>9. faults' = 0 => faults = 0
  BY <1>2, <1>3
<1> QED BY <1>2, <1>3, <1>4, <1>6, <1>7, <1>8, <1>9, OneStays

\* The fields of a request that a failed call or a lost answer moves on.
LEMMA FamilyFails ==
  ASSUME SessionInv, FamilyInv, NEW r \in Requests,
         LoseAnswer(r) \/ CurrentUserFails(r) \/ LogoutFails(r)
  PROVE  FamilyInv'
<1>1. PICK q : q = req[r]
  OBVIOUS
<1>2. q \in Messages /\ Settable(q) /\ CoreOK /\ faults \in Nat
  BY <1>1, Typed, Names DEF SessionInv, FamilyInv
<1>3. faults' = faults + 1 /\ UNCHANGED <<session, jar, flight, signIn>>
  BY DEF LoseAnswer, CurrentUserFails, LogoutFails, Fault
<1>4. PICK v \in {Free, Answered(q), Cleared(q)} : req' = [req EXCEPT ![r] = v]
  <2>1. CASE LoseAnswer(r)
    BY <2>1 DEF LoseAnswer
  <2>2. CASE CurrentUserFails(r)
    BY <1>1, <2>2, Typed DEF CurrentUserFails, SessionInv
  <2>3. CASE LogoutFails(r)
    BY <1>1, <2>3 DEF LogoutFails
  <2> QED BY <2>1, <2>2, <2>3
<1>5. v \in Messages /\ (v = Free \/ (SameAs(v, q) /\ v.pc = "reply"))
  <2>1. CASE v = Free
    BY <2>1, FreeRequest
  <2>2. CASE v = Answered(q)
    <3>1. Answered(q) \in Messages /\ SameAs(Answered(q), q) /\ Answered(q).pc = "reply"
      BY <1>2, Moved
    <3> QED BY <2>2, <3>1
  <2>3. CASE v = Cleared(q)
    <3>1. Cleared(q) \in Messages /\ SameAs(Cleared(q), q) /\ Cleared(q).pc = "reply"
      BY <1>2, Moved
    <3> QED BY <2>3, <3>1
  <2> QED BY <1>4, <2>1, <2>2, <2>3
<1>6. Settable(v) /\ RevokesNew(v)'
  BY <1>2, <1>5, FreeRequest DEF SameAs, Settable, RevokesNew
<1>7. RowsKept /\ \A s \in Sessions : NoBirth(s)
  BY <1>2, <1>3, NoneBorn
<1>8. faults' # 0
  BY <1>2, <1>3
<1> QED BY <1>2, <1>3, <1>4, <1>5, <1>6, <1>7, <1>8, OneStays

LEMMA FamilySend ==
  ASSUME SessionInv, FamilyInv, NEW r \in Requests, NEW k \in Kinds, NEW w \in Servers, Send(r, k, w)
  PROVE  FamilyInv'
<1>1. PICK v, c : c = jar /\ v = Request(k, w, c)
  OBVIOUS
<1>2. CoreOK /\ c \in Jars /\ k \in AllKinds
  BY <1>1, BoundsAssumption, Typed DEF SessionInv, AllKinds
<1>3. /\ v \in Messages /\ v.pc \in {"sent", "handler"} /\ v.set = None
      /\ v.pc = "sent" => v.kind \notin {"login", "logout"}
  BY <1>1, <1>2, Started DEF Proxied
<1>4. /\ req[r].pc = "free" /\ req' = [req EXCEPT ![r] = v]
      /\ UNCHANGED <<session, alarm, jar, flight, late, signIn, faults>>
  BY <1>1 DEF Send
<1>5. RowsKept /\ \A s \in Sessions : NoBirth(s)
  BY <1>2, <1>4, NoneBorn
<1>6. Settable(v) /\ RevokesNew(v)'
  BY <1>3 DEF Settable, RevokesNew
<1>7. \A s \in Sessions : ~Bears(r, s)
  BY <1>4, Names DEF Bears, FamilyInv, Settable
<1> QED BY <1>2, <1>3, <1>4, <1>5, <1>6, <1>7, OneStays

\* A session that an answer carries is fresh, so it has not been rotated.
LEMMA FamilyArrive ==
  ASSUME SessionInv, FamilyInv, NEW r \in Requests, Arrive(r)
  PROVE  FamilyInv'
<1>1. PICK q : q = req[r]
  OBVIOUS
<1>2. /\ q \in Messages /\ Settable(q) /\ CoreOK /\ jar \in Jars
      /\ req \in [Requests -> Messages]
      /\ None \notin Sessions /\ Cookie = Sessions \cup {None}
  BY <1>1, Typed, Names DEF SessionInv, FamilyInv
<1>3. q.pc = "reply" /\ UNCHANGED <<session, alarm, flight, late, signIn, faults>>
  BY <1>1 DEF Arrive
<1>5. /\ jar' \in Jars
      /\ \/ jar'.refresh = None
         \/ q.set # None /\ jar'.refresh = q.set
         \/ q.set = None /\ jar'.refresh = jar.refresh
  <2>1. CASE q.clear /\ jar' = [access |-> None, refresh |-> None]
    BY <1>2, <2>1 DEF Jars
  <2>2. CASE q.set # None /\ jar' = [access |-> IF Unexpired(q.set) THEN q.set ELSE None, refresh |-> q.set]
    <3>1. PICK a, n : n = q.set /\ a = IF Unexpired(n) THEN n ELSE None
      OBVIOUS
    <3>2. jar' = [access |-> a, refresh |-> n] /\ a \in {None, n} /\ n \in Cookie
      BY <1>2, <2>2, <3>1 DEF Messages
    <3>3. jar' \in Jars /\ jar'.refresh = n
      BY <1>2, <3>2 DEF Jars
    <3> QED BY <2>2, <3>1, <3>3
  <2>3. CASE ~q.clear /\ q.set = None /\ jar' = jar
    BY <1>2, <2>3
  <2> QED BY <1>1, <2>1, <2>2, <2>3 DEF Arrive
<1>6. PICK v, c : c = jar' /\ v = IF q.kind = "invalid" THEN Request("logout", q.srv, c) ELSE Free
  OBVIOUS
<1>7. v \in Messages /\ v.set = None /\ v.pc \in {"free", "handler"}
  <2>1. CASE q.kind = "invalid"
    <3>1. PICK w : w = q.srv
      OBVIOUS
    <3>2. "logout" \in AllKinds /\ w \in Servers /\ c \in Jars /\ v = Request("logout", w, c)
      BY <1>2, <1>5, <1>6, <2>1, <3>1 DEF AllKinds, Messages
    <3> QED BY <3>2, Started DEF Proxied
  <2>2. CASE q.kind # "invalid"
    BY <1>6, <2>2, FreeRequest
  <2> QED BY <2>1, <2>2
<1>8. req' = [req EXCEPT ![r] = v]
  BY <1>1, <1>6 DEF Arrive
<1>9. req'[r] = v /\ \A x \in Requests \ {r} : req'[x] = req[x]
  BY <1>2, <1>7, <1>8
<1>10. LineageOK' /\ \A t \in Sessions : NoBirth(t)
  BY <1>2, <1>3, NoneBorn, LineageKept DEF FamilyInv
<1>11. ASSUME NEW x \in Requests PROVE Settable(req'[x]) /\ RevokesNew(req[x])'
  BY <1>3, <1>7, <1>9 DEF Settable, RevokesNew, FamilyInv, Fresh
<1>12. ASSUME faults' = 0 PROVE TrailOK'
  <2>1. TrailOK /\ Calm
    BY <1>3, <1>12 DEF FamilyInv, SessionInv
  <2>2. CASE jar'.refresh = None
    BY <2>2 DEF TrailOK
  <2>3. CASE q.set # None /\ jar'.refresh = q.set
    <3>1. q.set \in Sessions /\ Fresh(q.set) /\ session[q.set].status # "rotated"
      BY <1>1, <1>2, <2>1, <2>3 DEF Messages, Calm, RequestAged, Aged
    <3>2. ASSUME NEW s \in Sessions, Live(s)', s # jar'.refresh, signIn'[s] = signIn'[jar'.refresh]
          PROVE  FALSE
      <4>1. Live(s) /\ s # q.set /\ signIn[s] = signIn[q.set]
        BY <1>3, <2>3, <3>2 DEF Live
      <4> QED BY <3>1, <4>1 DEF FamilyInv, LineageOK
    <3> QED BY <3>2 DEF TrailOK
  <2>4. CASE q.set = None /\ jar'.refresh = jar.refresh
    <3>1. \A s \in Sessions : ~Bears(r, s)
      BY <1>1, <1>2, <1>3, <2>4 DEF Bears
    <3>2. ASSUME NEW x \in Requests, NEW s \in Sessions, Bears(x, s) PROVE Bears(x, s)'
      <4>1. req'[x] = req[x]
        BY <1>9, <3>1, <3>2
      <4> QED BY <1>3, <3>2, <4>1 DEF Bears
    <3> QED BY <1>2, <1>3, <1>10, <2>1, <2>4, <3>2, TrailStays
  <2> QED BY <1>5, <2>2, <2>3, <2>4
<1> QED BY <1>10, <1>11, <1>12 DEF FamilyInv, Settable

\* A refresh gives its sign-in a new session, which the flight or the logout bears.
LEMMA TrailGrows ==
  ASSUME CoreOK, FamilyInv, TrailOK, LineageOK', jar' = jar, NEW s \in Sessions, NEW new \in Sessions,
         session[new].status = "none", Live(s), session'[s].status = "rotated",
         \A t \in Sessions \ {s, new} : session'[t] = session[t],
         signIn' = [signIn EXCEPT ![new] = signIn[s]],
         \E x \in Requests : Bears(x, new)',
         \A q \in Requests, t \in Sessions : Bears(q, t) => Bears(q, t)'
  PROVE  TrailOK'
<1> SUFFICES ASSUME NEW t \in Sessions, jar'.refresh # None, Live(t)', t # jar'.refresh,
                    signIn'[t] = signIn'[jar'.refresh]
             PROVE  \E q \in Requests : Bears(q, t)'
  BY DEF TrailOK
<1>1. CASE t = new
  BY <1>1
<1>2. CASE t # new
  <2>1. /\ signIn \in [Sessions -> Cookie] /\ jar.refresh \in Sessions
        /\ None \notin Sessions /\ jar.refresh = jar'.refresh
    BY Typed, Names DEF FamilyInv, LineageOK, Jars
  <2>2. t # s /\ Live(t)
    BY <1>2 DEF Live
  <2>3. CASE jar.refresh # new
    <3>1. signIn[t] = signIn[jar.refresh]
      BY <1>2, <2>1, <2>3
    <3> QED BY <2>1, <2>2, <3>1 DEF TrailOK
  <2>4. CASE jar.refresh = new
    <3>1. session'[new].status = "rotated"
      BY <2>1, <2>4 DEF LineageOK
    <3>2. signIn'[t] = signIn[s] /\ signIn'[t] = signIn[t]
      BY <1>2, <2>1, <2>4
    <3>3. session[t].status = "rotated"
      BY <2>2, <3>2 DEF FamilyInv, LineageOK
    <3> QED BY <2>2, <3>3 DEF Live
  <2> QED BY <2>3, <2>4
<1> QED BY <1>1, <1>2

LEMMA FreshStays ==
  ASSUME CoreOK, RowsKept, req \in [Requests -> Messages]
  PROVE  \A q \in Messages : RevokesNew(q) => RevokesNew(q)'
<1>1. \A t \in Cookie : Fresh(t) => Fresh(t)'
  BY Names DEF RowsKept, Fresh
<1>2. \A q \in Messages : q.access \in Cookie
  BY DEF Messages
<1> QED BY <1>1, <1>2 DEF RevokesNew, Fresh

LEMMA RefreshLineage ==
  ASSUME CoreOK, LineageOK, NEW s \in Sessions, NEW new \in Cookie, BackendRefresh(s, new)
  PROVE  LineageOK'
<1>1. CASE new = None
  BY <1>1, Refreshing, LineageKept
<1>2. CASE new # None
  <2>1. /\ new \in Sessions /\ Live(s) /\ session[new].status = "none"
        /\ session'[new].status = "live" /\ session'[s].status = "rotated"
        /\ \A t \in Sessions \ {s, new} : session'[t] = session[t]
        /\ signIn' = [signIn EXCEPT ![new] = signIn[s]]
    BY <1>2, Refreshing
  <2> QED BY <2>1, LineageGrows
<1> QED BY <1>1, <1>2

\* An answered flight bears the session it was issued through its waiters.
LEMMA FamilyAnswered ==
  ASSUME SessionInv, FamilyInv, NEW w \in Servers, NEW s \in Sessions, FlightAnswered(w, s)
  PROVE  FamilyInv'
<1>1. /\ CoreOK /\ req \in [Requests -> Messages] /\ s # None
      /\ flight \in [Servers -> [Sessions -> Entries]]
  BY Typed, Names DEF SessionInv
<1>2. PICK new \in Cookie :
        /\ BackendRefresh(s, new)
        /\ flight' = [flight EXCEPT ![w][s] =
             [st |-> IF new # None THEN "issued" ELSE "refused", new |-> new]]
  BY DEF FlightAnswered
<1>3. flight[w][s].st = "sent" /\ UNCHANGED <<jar, req, late, faults>>
  BY DEF FlightAnswered
<1>4. PICK e : /\ e = [st |-> IF new # None THEN "issued" ELSE "refused", new |-> new]
             /\ flight' = [flight EXCEPT ![w][s] = e]
  BY <1>2
<1>5. /\ flight'[w][s] = e
      /\ \A x \in Servers, t \in Sessions : ~(x = w /\ t = s) => flight'[x][t] = flight[x][t]
  BY <1>1, <1>4
<1>6. RowsKept /\ LineageOK'
  BY <1>1, <1>2, Refreshing, RefreshLineage DEF FamilyInv
<1>7. ASSUME NEW x \in Requests PROVE Settable(req'[x]) /\ RevokesNew(req[x])'
  BY <1>1, <1>3, <1>6, FreshStays DEF FamilyInv, RevokesNew, Settable
<1>8. ASSUME NEW x \in Requests, NEW t \in Sessions, Bears(x, t) PROVE Bears(x, t)'
  <2>1. req[x].srv \in Servers /\ req[x].refresh \in Cookie /\ Cookie = Sessions \cup {None}
    BY <1>1, Names DEF Messages
  <2>2. CASE req[x].srv = w /\ req[x].refresh = s
    BY <1>3, <1>8, <2>2 DEF Bears
  <2>3. CASE ~(req[x].srv = w /\ req[x].refresh = s)
    <3>1. req[x].refresh # None => flight'[req[x].srv][req[x].refresh] = flight[req[x].srv][req[x].refresh]
      BY <1>5, <2>1, <2>3
    <3> QED BY <1>3, <1>8, <3>1 DEF Bears
  <2> QED BY <2>2, <2>3
<1>9. ASSUME faults' = 0 PROVE TrailOK'
  <2>1. TrailOK /\ Calm
    BY <1>3, <1>9 DEF FamilyInv, SessionInv
  <2>2. PICK x \in Requests : Waits(x, w, s)
    BY <1>3, <2>1 DEF Calm, FlightAged
  <2>3. CASE new = None
    <3>1. \A t \in Sessions : NoBirth(t)
      BY <1>1, <1>2, <2>3, Refreshing
    <3>2. signIn' = signIn
      BY <1>1, <1>2, <2>3, Refreshing
    <3> QED BY <1>1, <1>3, <1>8, <2>1, <3>1, <3>2, TrailStays
  <2>4. CASE new # None
    <3>1. /\ new \in Sessions /\ Live(s) /\ session[new].status = "none" /\ session'[s].status = "rotated"
          /\ \A t \in Sessions \ {s, new} : session'[t] = session[t]
          /\ signIn' = [signIn EXCEPT ![new] = signIn[s]]
      BY <1>1, <1>2, <2>4, Refreshing
    <3>2. e.st = "issued" /\ e.new = new
      BY <1>4, <2>4
    <3>3. Bears(x, new)'
      BY <1>1, <1>3, <1>5, <2>2, <3>2 DEF Bears, Waits
    <3> QED BY <1>1, <1>3, <1>6, <1>8, <2>1, <3>1, <3>3, TrailGrows
  <2> QED BY <2>3, <2>4
<1> QED BY <1>6, <1>7, <1>9 DEF FamilyInv, Settable

\* A broken call changes no session.
LEMMA FamilyBroken ==
  ASSUME SessionInv, FamilyInv, NEW w \in Servers, NEW s \in Sessions,
         FlightFails(w, s) \/ AnswerUnusable(w, s)
  PROVE  FamilyInv'
<1>1. CoreOK /\ faults \in Nat
  BY Typed, Names DEF SessionInv
<1>2. UNCHANGED <<session, req, signIn>> /\ faults' = faults + 1
  BY DEF FlightFails, AnswerUnusable, Fault
<1>3. LineageOK'
  BY <1>1, <1>2, NoneBorn, LineageKept DEF FamilyInv
<1>4. ASSUME NEW x \in Requests PROVE Settable(req'[x]) /\ RevokesNew(req[x])'
  BY <1>2 DEF FamilyInv, RevokesNew, Fresh
<1>5. faults' # 0
  BY <1>1, <1>2
<1> QED BY <1>2, <1>3, <1>4, <1>5 DEF FamilyInv, Settable

LEMMA FamilyLate ==
  ASSUME SessionInv, FamilyInv, NEW s \in Sessions, LateRefresh(s)
  PROVE  FamilyInv'
<1>1. CoreOK /\ req \in [Requests -> Messages]
  BY Typed DEF SessionInv
<1>2. PICK new \in Cookie : BackendRefresh(s, new)
  BY DEF LateRefresh
<1>3. s \in late /\ UNCHANGED <<req, faults>>
  BY DEF LateRefresh
<1>4. RowsKept /\ LineageOK'
  BY <1>1, <1>2, Refreshing, RefreshLineage DEF FamilyInv
<1>5. ASSUME NEW x \in Requests PROVE Settable(req'[x]) /\ RevokesNew(req[x])'
  BY <1>1, <1>3, <1>4, FreshStays DEF FamilyInv, RevokesNew, Settable
<1>6. faults' # 0
  BY <1>3 DEF SessionInv, Calm
<1> QED BY <1>3, <1>4, <1>5, <1>6 DEF FamilyInv, Settable

\* The promise settles: what the flight bore its waiters carry.
LEMMA FamilySettles ==
  ASSUME SessionInv, FamilyInv, NEW w \in Servers, NEW s \in Sessions, FlightSettles(w, s)
  PROVE  FamilyInv'
<1>1. /\ CoreOK /\ req \in [Requests -> Messages] /\ s # None
      /\ flight \in [Servers -> [Sessions -> Entries]]
  BY Typed, Names DEF SessionInv
<1>2. PICK f, idle : f = flight[w][s] /\ idle = Idle
  OBVIOUS
<1>3. /\ f \in Entries /\ flight' = [flight EXCEPT ![w][s] = idle]
      /\ req' = [r \in Requests |-> IF Waits(r, w, s) THEN Forwarded(req[r], f) ELSE req[r]]
      /\ UNCHANGED <<session, alarm, jar, late, signIn, faults>>
  BY <1>1, <1>2 DEF FlightSettles
<1>4. \A x \in Servers, t \in Sessions : ~(x = w /\ t = s) => flight'[x][t] = flight[x][t]
  BY <1>1, <1>3
<1>5. ASSUME NEW x \in Requests
      PROVE  /\ Settable(req'[x]) /\ RevokesNew(req[x])'
             /\ \A t \in Sessions : Bears(x, t) => Bears(x, t)'
  <2>1. PICK q : q = req[x]
    OBVIOUS
  <2>2. q \in Messages /\ Settable(q) /\ RevokesNew(q)
    BY <1>1, <2>1 DEF FamilyInv
  <2>3. CASE Waits(x, w, s)
    <3>1. PICK v : v = Forwarded(q, f)
      OBVIOUS
    <3>2. req'[x] = v /\ q.pc = "flight" /\ q.srv = w /\ q.refresh = s
      BY <1>3, <2>1, <2>3, <3>1 DEF Waits
    <3>3. q.set = None
      BY <2>2, <3>2 DEF Settable
    <3>4. /\ v.pc = "handler" /\ v.kind = q.kind
          /\ f.st = "issued" => v.set = f.new
          /\ f.st # "issued" => v.set = None
      BY <1>3, <2>2, <3>1, <3>3, Forwarding
    <3>5. \A t \in Sessions : Bears(x, t) => f.st = "issued" /\ f.new = t
      BY <1>2, <2>1, <3>2, <3>3, Names DEF Bears
    <3>6. \A t \in Sessions : Bears(x, t) => Bears(x, t)'
      BY <3>2, <3>4, <3>5 DEF Bears
    <3>7. q.kind \notin {"login", "logout"}
      BY <2>2, <3>2 DEF Settable
    <3> QED BY <3>2, <3>4, <3>6, <3>7 DEF Settable, RevokesNew
  <2>4. CASE ~Waits(x, w, s)
    <3>1. req'[x] = req[x]
      BY <1>3, <2>4
    <3>2. ASSUME NEW t \in Sessions, Bears(x, t) PROVE Bears(x, t)'
      <4>1. CASE q.pc = "flight" /\ q.refresh # None
        <5>1. q.srv \in Servers /\ q.refresh \in Sessions
          BY <2>2, <4>1, Names DEF Messages
        <5>2. flight'[q.srv][q.refresh] = flight[q.srv][q.refresh]
          BY <1>4, <2>1, <2>4, <4>1, <5>1 DEF Waits
        <5> QED BY <2>1, <3>1, <3>2, <5>2 DEF Bears
      <4>2. CASE ~(q.pc = "flight" /\ q.refresh # None)
        BY <2>1, <3>1, <3>2, <4>2 DEF Bears
      <4> QED BY <4>1, <4>2
    <3> QED BY <1>3, <2>1, <2>2, <3>1, <3>2 DEF RevokesNew, Fresh
  <2> QED BY <2>3, <2>4
<1>6. LineageOK' /\ \A t \in Sessions : NoBirth(t)
  BY <1>1, <1>3, NoneBorn, LineageKept DEF FamilyInv
<1>7. ASSUME faults' = 0 PROVE TrailOK'
  <2>1. TrailOK
    BY <1>3, <1>7 DEF FamilyInv
  <2> QED BY <1>1, <1>3, <1>5, <1>6, <2>1, TrailStays
<1> QED BY <1>5, <1>6, <1>7 DEF FamilyInv, Settable

LEMMA FamilyAges ==
  ASSUME SessionInv, FamilyInv, NEW s \in Sessions, AccessAges(s) \/ GraceEnds(s)
  PROVE  FamilyInv'
<1>1. /\ CoreOK /\ req \in [Requests -> Messages] /\ session \in [Sessions -> Rows]
      /\ Cookie = Sessions \cup {None} /\ None \notin Sessions
  BY Typed, Names DEF SessionInv
<1>2. UNCHANGED <<req, flight, signIn, faults>>
  BY DEF AccessAges, GraceEnds
<1>3. jar'.refresh = jar.refresh
  <2>1. jar \in Jars
    BY <1>1, Typed
  <2> QED BY <2>1 DEF AccessAges, GraceEnds, Jars
<1>4. /\ \A t \in Sessions : session'[t].status = session[t].status
      /\ \A t \in Sessions \ {s} : session'[t] = session[t]
      /\ session'[s].access = session[s].access \/ AccessAges(s)
  <2>1. PICK row, age : row = session[s] /\ age = IF row.access = "fresh" THEN "expiring" ELSE "expired"
    OBVIOUS
  <2>2. row \in Rows
    BY <1>1, <2>1
  <2>3. CASE AccessAges(s)
    <3>1. PICK v : v = [row EXCEPT !.access = age]
      OBVIOUS
    <3>2. session' = [session EXCEPT ![s] = v]
      BY <1>1, <2>1, <2>3, <3>1 DEF AccessAges
    <3>3. v.status = row.status
      BY <2>2, <3>1 DEF Rows
    <3> QED BY <1>1, <2>1, <2>3, <3>2, <3>3
  <2>4. CASE GraceEnds(s)
    <3>1. PICK v : v = [row EXCEPT !.grace = FALSE]
      OBVIOUS
    <3>2. session' = [session EXCEPT ![s] = v]
      BY <1>1, <2>1, <2>4, <3>1 DEF GraceEnds
    <3>3. v.status = row.status /\ v.access = row.access
      BY <2>2, <3>1 DEF Rows
    <3> QED BY <1>1, <2>1, <3>2, <3>3
  <2> QED BY <2>3, <2>4
<1>5. LineageOK' /\ \A t \in Sessions : NoBirth(t)
  <2>1. \A t \in Sessions : NoBirth(t)
    BY <1>4 DEF NoBirth
  <2> QED BY <1>1, <1>2, <2>1, LineageKept DEF FamilyInv
<1>6. ASSUME NEW x \in Requests PROVE Settable(req'[x]) /\ RevokesNew(req[x])'
  <2>1. Settable(req[x]) /\ RevokesNew(req[x]) /\ req[x].access \in Cookie
    BY <1>1 DEF FamilyInv, Messages
  <2>2. ASSUME req[x].kind = "logout", req[x].pc = "revoking", req[x].access # req[x].refresh
        PROVE  Fresh(req[x].access)'
    <3>1. Fresh(req[x].access)
      BY <2>1, <2>2 DEF RevokesNew
    <3>2. CASE req[x].access = s /\ AccessAges(s)
      <4>1. Concerns(x, s)
        BY <2>2, <3>2 DEF Concerns
      <4> QED BY <3>1, <3>2, <4>1 DEF AccessAges
    <3>3. CASE ~(req[x].access = s /\ AccessAges(s))
      BY <1>1, <1>2, <1>4, <2>1, <3>1, <3>3 DEF Fresh
    <3> QED BY <3>2, <3>3
  <2> QED BY <1>2, <2>1, <2>2 DEF RevokesNew
<1>7. ASSUME faults' = 0 PROVE TrailOK'
  <2>1. TrailOK
    BY <1>2, <1>7 DEF FamilyInv
  <2>2. \A x \in Requests, t \in Sessions : Bears(x, t) => Bears(x, t)'
    BY <1>2 DEF Bears
  <2> QED BY <1>1, <1>2, <1>3, <1>5, <2>1, <2>2, TrailStays
<1> QED BY <1>5, <1>6, <1>7 DEF FamilyInv, Settable

\* The request of a logout bears the session its refresh was issued.
LEMMA FamilyLogout ==
  ASSUME SessionInv, FamilyInv, NEW r \in Requests, LogoutRefreshes(r)
  PROVE  FamilyInv'
<1>1. PICK q, s : q = req[r] /\ s = req[r].refresh
  OBVIOUS
<1>2. /\ q \in Messages /\ Settable(q) /\ CoreOK /\ req \in [Requests -> Messages]
      /\ q.pc = "refreshing" /\ q.kind = "logout" /\ s \in Sessions
  <2>1. q \in Messages /\ Settable(q) /\ CoreOK /\ req \in [Requests -> Messages] /\ Revoking(q)
    BY <1>1, Typed DEF SessionInv, FamilyInv
  <2>2. q.pc = "refreshing"
    BY <1>1 DEF LogoutRefreshes
  <2> QED BY <1>1, <2>1, <2>2, Names DEF Revoking, Messages
<1>3. PICK new \in Cookie :
        /\ BackendRefresh(s, new)
        /\ req' = [req EXCEPT ![r] =
             IF new # None THEN [q EXCEPT !.pc = "revoking", !.access = new] ELSE Cleared(q)]
  BY <1>1 DEF LogoutRefreshes
<1>4. UNCHANGED <<jar, flight, late, faults>>
  BY DEF LogoutRefreshes
<1>5. RowsKept /\ LineageOK' /\ q.set = None
  BY <1>2, <1>3, Refreshing, RefreshLineage DEF FamilyInv, Settable
<1>6. \A t \in Sessions : ~Bears(r, t)
  BY <1>1, <1>2, <1>5, Names DEF Bears
<1>7. CASE new = None
  <2>1. PICK v : v = Cleared(q)
    OBVIOUS
  <2>2. v \in Messages /\ SameAs(v, q) /\ v.pc = "reply"
    BY <1>2, <2>1, Moved
  <2>3. req' = [req EXCEPT ![r] = v]
    BY <1>3, <1>7, <2>1
  <2>4. Settable(v) /\ RevokesNew(v)'
    BY <1>5, <2>2 DEF SameAs, Settable, RevokesNew
  <2>5. signIn' = signIn /\ \A t \in Sessions : NoBirth(t)
    BY <1>2, <1>3, <1>7, Refreshing
  <2> QED BY <1>2, <1>4, <1>5, <1>6, <2>2, <2>3, <2>4, <2>5, OneStays
<1>8. CASE new # None
  <2>1. /\ new \in Sessions /\ Live(s) /\ session[new].status = "none" /\ session'[s].status = "rotated"
        /\ \A t \in Sessions \ {s, new} : session'[t] = session[t]
        /\ signIn' = [signIn EXCEPT ![new] = signIn[s]]
        /\ session'[new].access = "fresh"
    BY <1>2, <1>3, <1>8, Refreshing
  <2>2. PICK v : v = [q EXCEPT !.pc = "revoking", !.access = new]
    OBVIOUS
  <2>3. /\ v \in Messages /\ v.pc = "revoking" /\ v.kind = "logout" /\ v.set = None
        /\ v.access = new /\ v.refresh = s
    BY <1>1, <1>2, <1>5, <2>2 DEF Messages
  <2>4. req'[r] = v /\ \A x \in Requests \ {r} : req'[x] = req[x]
    BY <1>2, <1>3, <1>8, <2>2
  <2>5. Settable(v) /\ RevokesNew(v)'
    BY <2>1, <2>3, Names DEF Settable, RevokesNew, Fresh
  <2>6. ASSUME NEW x \in Requests PROVE Settable(req'[x]) /\ RevokesNew(req[x])'
    <3>1. CASE x = r
      BY <2>4, <2>5, <3>1 DEF RevokesNew
    <3>2. CASE x # r
      <4>1. req[x] \in Messages /\ Settable(req[x]) /\ RevokesNew(req[x])
        BY <1>2 DEF FamilyInv
      <4>2. PICK y : y = req[x]
        OBVIOUS
      <4>3. y \in Messages /\ RevokesNew(y)
        BY <4>1, <4>2
      <4>4. RevokesNew(y)'
        BY <1>2, <1>5, <4>3, FreshStays
      <4>5. req'[x] = y
        BY <2>4, <3>2, <4>2
      <4> QED BY <4>1, <4>2, <4>4, <4>5 DEF RevokesNew
    <3> QED BY <3>1, <3>2
  <2>7. ASSUME faults' = 0 PROVE TrailOK'
    <3>1. TrailOK
      BY <1>4, <2>7 DEF FamilyInv
    <3>2. ASSUME NEW x \in Requests, NEW t \in Sessions, Bears(x, t) PROVE Bears(x, t)'
      <4>1. req'[x] = req[x]
        BY <1>6, <2>4, <3>2
      <4> QED BY <1>4, <3>2, <4>1 DEF Bears
    <3>3. new # s
      BY <2>1 DEF Live
    <3>4. Bears(r, new)'
      BY <2>3, <2>4, <3>3 DEF Bears
    <3> QED BY <1>2, <1>4, <1>5, <2>1, <3>1, <3>2, <3>4, TrailGrows
  <2> QED BY <1>5, <2>6, <2>7 DEF FamilyInv, Settable
<1> QED BY <1>7, <1>8

\* A new sign-in has no session but its own.
LEMMA FamilyLogin ==
  ASSUME SessionInv, FamilyInv, NEW r \in Requests, Login(r)
  PROVE  FamilyInv'
<1>1. PICK q, n : q = req[r] /\ n = NextSession
  OBVIOUS
<1>2. /\ q \in Messages /\ Settable(q) /\ CoreOK /\ req \in [Requests -> Messages]
      /\ None \notin Sessions /\ Cookie = Sessions \cup {None}
  BY <1>1, Typed, Names DEF SessionInv, FamilyInv
<1>3. /\ q.pc = "handler" /\ q.kind = "login" /\ Unused # {}
      /\ session' = Inserted(session, NextSession) /\ signIn' = [signIn EXCEPT ![n] = n]
      /\ UNCHANGED <<alarm, jar, flight, late, faults>>
  BY <1>1 DEF Login
<1>4. /\ RowsKept /\ n \in Sessions /\ session[n].status = "none" /\ session'[n].status = "live"
      /\ session'[n].access = "fresh" /\ \A t \in Sessions \ {n} : session'[t] = session[t]
  BY <1>1, <1>2, <1>3, Creating
<1>5. LineageOK' /\ q.set = None
  BY <1>2, <1>3, <1>4, LineageGrows DEF FamilyInv, Settable
<1>6. PICK v : /\ req' = [req EXCEPT ![r] = v]
               /\ \/ v = [Answered(q) EXCEPT !.set = n]
                  \/ v = [q EXCEPT !.pc = "revoking", !.access = n]
  BY <1>1 DEF Login
<1>7. v.kind = "login" /\ v.pc \in {"reply", "revoking"} /\ (v.pc = "revoking" => v.set = None)
  <2>1. CASE v = [q EXCEPT !.pc = "revoking", !.access = n]
    BY <1>2, <1>3, <1>5, <2>1 DEF Messages
  <2>2. CASE v = [Answered(q) EXCEPT !.set = n]
    <3>1. PICK a : a = Answered(q)
      OBVIOUS
    <3>2. a \in Messages /\ a.pc = "reply" /\ a.kind = "login"
      BY <1>2, <1>3, <3>1, Moved DEF SameAs
    <3> QED BY <2>2, <3>1, <3>2 DEF Messages
  <2> QED BY <1>6, <2>1, <2>2
<1>8. req'[r] = v /\ \A x \in Requests \ {r} : req'[x] = req[x]
  BY <1>2, <1>6
<1>9. Settable(v) /\ RevokesNew(v)'
  BY <1>7 DEF Settable, RevokesNew
<1>10. ASSUME NEW x \in Requests PROVE Settable(req'[x]) /\ RevokesNew(req[x])'
  <2>1. CASE x = r
    BY <1>8, <1>9, <2>1 DEF RevokesNew
  <2>2. CASE x # r
    <3>1. PICK y : y = req[x]
      OBVIOUS
    <3>2. y \in Messages /\ Settable(y) /\ RevokesNew(y)
      BY <1>2, <3>1 DEF FamilyInv
    <3>3. RevokesNew(y)'
      BY <1>2, <1>4, <3>2, FreshStays
    <3>4. req'[x] = y
      BY <1>8, <2>2, <3>1
    <3> QED BY <3>2, <3>3, <3>4 DEF RevokesNew
  <2> QED BY <2>1, <2>2
<1>11. \A t \in Sessions : ~Bears(r, t)
  BY <1>1, <1>2, <1>3, <1>5 DEF Bears
<1>12. ASSUME faults' = 0, NEW t \in Sessions, jar'.refresh # None, Live(t)', t # jar'.refresh,
              signIn'[t] = signIn'[jar'.refresh]
       PROVE  \E x \in Requests : Bears(x, t)'
  <2>1. /\ TrailOK /\ signIn \in [Sessions -> Cookie] /\ jar.refresh \in Sessions /\ jar' = jar
    BY <1>2, <1>3, <1>12, Typed DEF FamilyInv, LineageOK, Jars
  <2>2. \A u \in Sessions : signIn[u] # n
    BY <1>4 DEF FamilyInv, LineageOK
  <2>3. t # n /\ jar.refresh # n
    BY <1>3, <1>4, <1>12, <2>1, <2>2
  <2>4. Live(t) /\ signIn[t] = signIn[jar.refresh]
    BY <1>3, <1>4, <1>12, <2>1, <2>3 DEF Live
  <2>5. PICK x \in Requests : Bears(x, t)
    BY <1>12, <2>1, <2>4 DEF TrailOK
  <2>6. req'[x] = req[x]
    BY <1>8, <1>11, <2>5
  <2>7. Bears(x, t)'
    BY <1>3, <2>5, <2>6 DEF Bears
  <2> QED BY <2>7
<1> QED BY <1>5, <1>10, <1>12 DEF FamilyInv, Settable, TrailOK

LEMMA FamilyStarts == Init => FamilyInv
<1> SUFFICES ASSUME Init PROVE FamilyInv
  OBVIOUS
<1>1. 1 \in Sessions /\ None \notin Sessions /\ Cookie = Sessions \cup {None}
  BY Names
<1>2. /\ signIn \in [Sessions -> Cookie] /\ signIn[1] = 1
      /\ \A s \in Sessions \ {1} : signIn[s] = None
  BY <1>1 DEF Init
<1>3. PICK row : row = [NoRow EXCEPT !.status = "live"]
  OBVIOUS
<1>4. row.status = "live" /\ NoRow.status = "none"
  BY <1>3 DEF NoRow
<1>5. session[1] = row /\ \A s \in Sessions \ {1} : session[s] = NoRow
  BY <1>1, <1>3 DEF Init
<1>6. LineageOK
  BY <1>1, <1>2, <1>4, <1>5 DEF LineageOK, Live
<1>7. \A r \in Requests : req[r] = Free
  BY DEF Init
<1>8. \A r \in Requests : Settable(req[r]) /\ RevokesNew(req[r])
  BY <1>7, FreeRequest DEF Settable, RevokesNew
<1>9. TrailOK
  BY <1>1, <1>4, <1>5 DEF TrailOK, Live, Init
<1> QED BY <1>6, <1>8, <1>9 DEF FamilyInv

LEMMA FamilyIdles == FamilyInv /\ UNCHANGED vars => FamilyInv'
  BY DEF vars, FamilyInv, LineageOK, Live, Settable, RevokesNew, Fresh, TrailOK, Bears

LEMMA FamilySteps == SessionInv /\ FamilyInv /\ [Next]_vars => FamilyInv'
<1> SUFFICES ASSUME SessionInv, FamilyInv, [Next]_vars PROVE FamilyInv'
  OBVIOUS
<1>1. CASE UNCHANGED vars
  BY <1>1, FamilyIdles
<1>2. CASE \E r \in Requests, k \in Kinds, w \in Servers : Send(r, k, w)
  BY <1>2, FamilySend
<1>3. CASE \E r \in Requests : Serve(r) \/ Arrive(r)
  <2>1. PICK r \in Requests : Serve(r) \/ Arrive(r)
    BY <1>3
  <2>2. CASE Arrive(r)
    BY <2>2, FamilyArrive
  <2>3. CASE Serve(r)
    <3>1. CASE PassThrough(r) \/ CurrentUser(r) \/ LogoutStarts(r) \/ LoginRefused(r)
      BY <3>1, FamilyOneGoesOn
    <3>2. CASE JoinFlight(r)
      BY <3>2, FamilyJoin
    <3>3. CASE LogoutRefreshes(r)
      BY <3>3, FamilyLogout
    <3>4. CASE LogoutRevokes(r) \/ WrongRoleRevokes(r)
      BY <3>4, FamilyRevokes
    <3> QED BY <2>3, <3>1, <3>2, <3>3, <3>4 DEF Serve
  <2> QED BY <2>1, <2>2, <2>3
<1>4. CASE \E r \in Requests : Login(r) \/ LoseAnswer(r) \/ CurrentUserFails(r) \/ LogoutFails(r)
  BY <1>4, FamilyLogin, FamilyFails
<1>5. CASE \E w \in Servers, s \in Sessions :
             \/ FlightAnswered(w, s) \/ FlightFails(w, s) \/ AnswerUnusable(w, s)
             \/ FlightSettles(w, s)
  BY <1>5, FamilyAnswered, FamilyBroken, FamilySettles
<1>6. CASE \E s \in Sessions : LateRefresh(s) \/ AccessAges(s) \/ GraceEnds(s)
  BY <1>6, FamilyLate, FamilyAges
<1> QED BY <1>1, <1>2, <1>3, <1>4, <1>5, <1>6 DEF Next

\* In every state the live session of the jar's sign-in is the jar's own, or a
\* request bears it (the rotation of auth.service.ts:385-470).
THEOREM FamilyInvariance == Spec => [](SessionInv /\ FamilyInv)
<1>1. Init => SessionInv /\ FamilyInv
  BY Starting, FamilyStarts
<1>2. (SessionInv /\ FamilyInv) /\ [Next]_vars => (SessionInv /\ FamilyInv)'
  BY Steps, FamilySteps
<1> QED BY <1>1, <1>2, PTL DEF Spec

LEMMA BearerCarries ==
  ASSUME FamilyInv, NEW q \in Requests, NEW s \in Sessions, Bears(q, s)
  PROVE  Carries(q, s)
  BY Names DEF FamilyInv, Settable, Bears, Carries

\* What is left of its sign-in when a logout clears the cookies: the session it
\* presented and the one it revoked are not live, and the trail leads from any
\* other live one to a request that carries it.
LEMMA LogoutLeaves ==
  ASSUME SessionInv, FamilyInv, Next, NEW r \in Requests, NEW s \in Sessions,
         req[r].kind = "logout", ~req[r].clear, req'[r].clear, faults' = 0,
         req[r].refresh # None, req[r].refresh = jar.refresh,
         req[r].pc = "revoking" => Unexpired(req[r].access),
         Live(s)', signIn'[s] = signIn[req[r].refresh]
  PROVE  \E q \in Requests \ {r} : Carries(q, s)
<1>1. PICK q, p, a : q = req[r] /\ p = req[r].refresh /\ a = req[r].access
  OBVIOUS
<1>2. /\ q \in Messages /\ CoreOK /\ Settable(q) /\ Revoking(q) /\ faults \in Nat
      /\ None \notin Sessions /\ Cookie = Sessions \cup {None}
  BY <1>1, Typed, Names DEF SessionInv, FamilyInv
<1>3. a \in Cookie /\ p \in Sessions /\ p = jar.refresh /\ p # None
  BY <1>1, <1>2 DEF Messages
<1>4. LogoutStarts(r) \/ LogoutRefreshes(r) \/ LogoutRevokes(r) \/ LogoutFails(r)
  BY <1>2, Clearing
<1>5. CASE LogoutStarts(r)
  <2>1. CASE Unexpired(a)
    <3>1. PICK v : v = [q EXCEPT !.pc = "revoking"]
      OBVIOUS
    <3>2. req'[r] = v
      BY <1>1, <1>2, <1>5, <2>1, <3>1, Typed DEF LogoutStarts
    <3> QED BY <1>1, <1>2, <3>1, <3>2 DEF Messages
  <2>2. CASE ~Unexpired(a)
    <3>1. PICK v : v = [q EXCEPT !.pc = "refreshing"]
      OBVIOUS
    <3>2. req'[r] = v
      BY <1>1, <1>2, <1>3, <1>5, <2>2, <3>1, Typed DEF LogoutStarts
    <3> QED BY <1>1, <1>2, <3>1, <3>2 DEF Messages
  <2> QED BY <2>1, <2>2
<1>6. CASE LogoutFails(r)
  BY <1>2, <1>6 DEF LogoutFails, Fault
<1>7. ASSUME signIn' = signIn, \A t \in Sessions : NoBirth(t), faults' = faults, s # p, ~Bears(r, s)
      PROVE  \E x \in Requests \ {r} : Carries(x, s)
  <2>1. TrailOK /\ Live(s) /\ signIn[s] = signIn[p]
    BY <1>1, <1>2, <1>7 DEF FamilyInv, Live, NoBirth
  <2>2. PICK x \in Requests : Bears(x, s)
    BY <1>3, <1>7, <2>1 DEF TrailOK
  <2> QED BY <1>7, <2>2, BearerCarries
<1>8. CASE LogoutRefreshes(r)
  <2>1. PICK new \in Cookie :
          /\ BackendRefresh(p, new)
          /\ req' = [req EXCEPT ![r] =
               IF new # None THEN [q EXCEPT !.pc = "revoking", !.access = new] ELSE Cleared(q)]
    BY <1>1, <1>8 DEF LogoutRefreshes
  <2>2. new = None
    <3>1. SUFFICES ASSUME new # None PROVE FALSE
      OBVIOUS
    <3>2. PICK v : v = [q EXCEPT !.pc = "revoking", !.access = new]
      OBVIOUS
    <3>3. v.clear = q.clear /\ req'[r] = v
      BY <1>2, <2>1, <3>1, <3>2, Typed DEF Messages
    <3> QED BY <1>1, <3>3
  <2>3. ~Live(p)' /\ signIn' = signIn /\ \A t \in Sessions : NoBirth(t)
    BY <1>2, <1>3, <2>1, <2>2, Refreshing
  <2>4. s # p
    BY <2>3
  <2>5. q.pc = "refreshing" /\ q.set = None /\ faults' = faults
    BY <1>1, <1>2, <1>8 DEF LogoutRefreshes, Settable
  <2>6. ~Bears(r, s)
    BY <1>1, <1>2, <2>5 DEF Bears
  <2> QED BY <1>7, <2>3, <2>4, <2>5, <2>6
<1>9. CASE LogoutRevokes(r)
  <2>1. BackendLogout(a) /\ q.pc = "revoking" /\ signIn' = signIn /\ faults' = faults /\ Unexpired(a)
    BY <1>1, <1>9 DEF LogoutRevokes
  <2>2. ~Live(a)' /\ \A t \in Sessions : NoBirth(t)
    BY <1>2, <1>3, <2>1, Ending
  <2>3. s # a /\ Live(s)
    BY <2>2 DEF Live, NoBirth
  <2>4. s # p
    BY <1>1, <1>2, <1>3, <2>1, <2>3 DEF Revoking, Live
  <2>5. ~Bears(r, s)
    BY <1>1, <1>2, <2>1, <2>3 DEF Bears, Settable
  <2> QED BY <1>7, <2>1, <2>2, <2>4, <2>5
<1> QED BY <1>4, <1>5, <1>6, <1>8, <1>9

\* A logout without a failed call leaves of its sign-in only what another
\* request of the browser carries, while its cookies are the jar's and its
\* access token lasts (session-route-handlers.ts:236-300).
THEOREM LogoutsEnd == Spec => LogoutEndsTheSignIn
<1>1. SessionInv /\ FamilyInv /\ [Next]_vars =>
        [\A r \in Requests, s \in Sessions :
           (/\ req[r].kind = "logout" /\ ~req[r].clear /\ req'[r].clear /\ faults' = 0
            /\ req[r].refresh # None /\ req[r].refresh = jar.refresh
            /\ req[r].pc = "revoking" => Unexpired(req[r].access)
            /\ Live(s)' /\ signIn'[s] = signIn[req[r].refresh])
           => \E q \in Requests \ {r} : Carries(q, s)]_vars
  BY LogoutLeaves
<1> QED BY <1>1, FamilyInvariance, PTL DEF Spec, LogoutEndsTheSignIn
=============================================================================
