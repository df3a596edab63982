---------------------------- MODULE SessionRefresh ----------------------------
(***************************************************************************)
(* The session cookies of one browser, the frontend processes (BFF) that   *)
(* refresh them, and the session rows of the backend.                      *)
(*                                                                         *)
(*   browser --request(cookies)--> proxy.ts: sessionRefresh                *)
(*       single flight per refresh token and process --> POST auth/refresh *)
(*   proxy --forwarded cookies--> route handler --> GET auth/me, logout    *)
(*   response --Set-Cookie--> browser                                      *)
(*                                                                         *)
(* A token is named by the session it belongs to: the access token and the *)
(* refresh token of session s are both s.  Time is abstracted to the two   *)
(* thresholds the code reads: an access token is "fresh" (more than 120 s  *)
(* left), "expiring" or "expired", and a rotated session is within or past *)
(* the ten seconds of grace.                                               *)
(***************************************************************************)
EXTENDS Naturals, FiniteSets

CONSTANTS
  Requests,      \* request slots of the browser (its tabs)
  Kinds,         \* the requests its tabs make
  Servers,       \* frontend processes, each with its own singleFlightMap
  MaxSessions,   \* bound on the sessions the backend ever creates
  MaxFaults      \* bound on failed calls and lost answers

ASSUME BoundsAssumption ==
  /\ Kinds \subseteq {"page", "me", "recover", "logout", "login"}
  /\ MaxSessions \in Nat \ {0} /\ MaxFaults \in Nat /\ Servers # {}

Sessions == 1..MaxSessions
None == 0
Cookie == Sessions \cup {None}

VARIABLES
  session,  \* UserSession rows, with the age of their access token
  alarm,    \* some refresh was taken for a reuse of a stolen token
  jar,      \* the browser's two cookies
  req,      \* the requests under way
  flight,   \* flight[w][s]: the entry of token s in the map of process w
  late,     \* refresh calls given up by the BFF that may still reach the backend
  signIn,   \* history: signIn[s] is the session of the login that s descends from
  faults

vars == <<session, alarm, jar, req, flight, late, signIn, faults>>

\* "invalid" is a recovery whose answer makes the client log out.
AllKinds == {"page", "me", "recover", "invalid", "logout", "login"}
Proxied == {"page", "me", "recover"}     \* config.matcher of proxy.ts
Idle == [st |-> "idle", new |-> None]
Free == [pc |-> "free", kind |-> "page", srv |-> CHOOSE w \in Servers : TRUE,
         access |-> None, refresh |-> None, set |-> None, clear |-> FALSE]
NoRow == [status |-> "none", grace |-> FALSE, access |-> "fresh"]

TypeOK ==
  /\ session \in [Sessions -> [status : {"none", "live", "rotated", "ended"},
                               grace : BOOLEAN,
                               access : {"fresh", "expiring", "expired"}]]
  /\ alarm \in BOOLEAN
  /\ jar \in [access : Cookie, refresh : Cookie]
  /\ req \in [Requests -> [pc : {"free", "sent", "flight", "handler", "refreshing",
                                 "revoking", "reply"},
                           kind : AllKinds, srv : Servers, access : Cookie,
                           refresh : Cookie, set : Cookie, clear : BOOLEAN]]
  /\ flight \in [Servers -> [Sessions ->
                   [st : {"idle", "sent", "issued", "refused", "failed"}, new : Cookie]]]
  /\ late \subseteq Sessions
  /\ signIn \in [Sessions -> Cookie]
  /\ faults \in 0..MaxFaults

Init ==
  /\ session = [s \in Sessions |-> IF s = 1 THEN [NoRow EXCEPT !.status = "live"] ELSE NoRow]
  /\ alarm = FALSE
  /\ jar = [access |-> 1, refresh |-> 1]
  /\ req = [r \in Requests |-> Free]
  /\ flight = [w \in Servers |-> [s \in Sessions |-> Idle]]
  /\ late = {}
  /\ signIn = [s \in Sessions |-> IF s = 1 THEN 1 ELSE None]
  /\ faults = 0

-----------------------------------------------------------------------------
(* The backend: AuthService.refresh, AuthService.logout, JwtStrategy.       *)

Live(s) == s # None /\ session[s].status = "live"
Fresh(s) == s # None /\ session[s].access = "fresh"
Unexpired(s) == s # None /\ session[s].access # "expired"

\* validate: the row of the token's sid is neither revoked nor expired; the
\* signature check before it has refused an expired token.
Authenticates(s) == Live(s) /\ Unexpired(s)

Unused == {s \in Sessions : session[s].status = "none"}
NextSession == CHOOSE s \in Unused : \A t \in Unused : s <= t

\* insertSession
Inserted(rows, n) == [rows EXCEPT ![n] = [NoRow EXCEPT !.status = "live"]]

\* Mutant. A row without a status.
RotatedBad(s) ==
  Inserted([session EXCEPT ![s].status = "revoked", ![s].grace = TRUE], NextSession)

\* The claiming UPDATE and the insert of the successor, one transaction.
Rotated(s) ==
  Inserted([session EXCEPT ![s].status = "rotated", ![s].grace = TRUE], NextSession)

\* Mutant. No grace: a token that was already rotated is always taken for a reuse.
IsReuseNoGrace(s) == session[s].status = "rotated"

\* A token that was not claimed: past the grace every live session of the user goes.
IsReuse(s) == session[s].status = "rotated" /\ ~session[s].grace

Refused(s) ==
  IF IsReuse(s)
  THEN [t \in Sessions |-> IF Live(t) THEN [session[t] EXCEPT !.status = "ended"]
                                      ELSE session[t]]
  ELSE session

\* One POST auth/refresh with token s; `new` is the session it returns, if any.
BackendRefresh(s, new) ==
  \/ /\ Live(s) /\ Unused # {}
     /\ new = NextSession
     /\ session' = Rotated(s)
     /\ signIn' = [signIn EXCEPT ![NextSession] = signIn[s]]
     /\ UNCHANGED alarm
  \/ /\ ~Live(s)
     /\ new = None
     /\ session' = Refused(s)
     /\ alarm' = (alarm \/ IsReuse(s))
     /\ UNCHANGED signIn

\* logout revokes the row of the access token's sid when it authenticates.
BackendLogout(s) ==
  session' = IF Authenticates(s) THEN [session EXCEPT ![s].status = "ended"] ELSE session

Fault == faults < MaxFaults /\ faults' = faults + 1

-----------------------------------------------------------------------------
(* The browser.                                                             *)

Request(k, w, cookies) ==
  [Free EXCEPT !.pc = IF k \in Proxied THEN "sent" ELSE "handler", !.kind = k,
               !.srv = w, !.access = cookies.access, !.refresh = cookies.refresh]

\* Bound: a request leaves only while the sessions it, the others under way and
\* the calls given up can create fit in MaxSessions.
RoomFor(k) ==
  LET Busy == {r \in Requests : req[r].pc # "free"}
      Twice == {r \in Busy : req[r].kind \in {"recover", "invalid"}} IN
  Cardinality(Unused) >= Cardinality(Busy) + Cardinality(Twice) + Cardinality(late)
                         + (MaxFaults - faults) + (IF k = "recover" THEN 2 ELSE 1)

\* A tab sends a request with the cookies the jar holds now.
Send(r, k, w) ==
  /\ req[r].pc = "free" /\ RoomFor(k)
  /\ k \in Proxied => jar.refresh # None
  /\ req' = [req EXCEPT ![r] = Request(k, w, jar)]
  /\ UNCHANGED <<session, alarm, jar, flight, late, signIn, faults>>

\* The Set-Cookie headers of an answer reach the jar.  When the proxy set
\* cookies and the handler cleared them, one of the two headers prevails.
\* A recovery answered "invalid" posts a logout (recoverSession).
Arrive(r) ==
  /\ req[r].pc = "reply"
  /\ \/ /\ req[r].clear
        /\ jar' = [access |-> None, refresh |-> None]
     \/ /\ req[r].set # None
        /\ jar' = [access  |-> IF Unexpired(req[r].set) THEN req[r].set ELSE None,
                   refresh |-> req[r].set]
     \/ /\ ~req[r].clear /\ req[r].set = None
        /\ UNCHANGED jar
  /\ req' = [req EXCEPT ![r] = IF req[r].kind = "invalid"
                               THEN Request("logout", req[r].srv, jar') ELSE Free]
  /\ UNCHANGED <<session, alarm, flight, late, signIn, faults>>

\* The tab is closed or the connection breaks before the answer is read.
LoseAnswer(r) ==
  /\ req[r].pc = "reply"
  /\ Fault
  /\ req' = [req EXCEPT ![r] = Free]
  /\ UNCHANGED <<session, alarm, jar, flight, late, signIn>>

-----------------------------------------------------------------------------
(* The proxy: sessionRefresh.                                               *)

NeedsRefresh(r) ==
  req[r].refresh # None /\ ~Fresh(req[r].access)

PassThrough(r) ==
  /\ req[r].pc = "sent" /\ ~NeedsRefresh(r)
  /\ req' = [req EXCEPT ![r].pc = "handler"]
  /\ UNCHANGED <<session, alarm, jar, flight, late, signIn, faults>>

\* The request joins the flight of its token in this process, or starts it.
JoinFlight(r) ==
  LET w == req[r].srv  s == req[r].refresh IN
  /\ req[r].pc = "sent" /\ NeedsRefresh(r)
  /\ req' = [req EXCEPT ![r].pc = "flight"]
  /\ flight' = IF flight[w][s].st = "idle"
               THEN [flight EXCEPT ![w][s].st = "sent"] ELSE flight
  /\ UNCHANGED <<session, alarm, jar, late, signIn, faults>>

FlightAnswered(w, s) ==
  /\ flight[w][s].st = "sent"
  /\ \E new \in Cookie :
       /\ BackendRefresh(s, new)
       /\ flight' = [flight EXCEPT ![w][s] =
            [st |-> IF new # None THEN "issued" ELSE "refused", new |-> new]]
  /\ UNCHANGED <<jar, req, late, faults>>

\* 429, 5xx or the client's timeout; a timed-out call may still be executed.
FlightFails(w, s) ==
  /\ flight[w][s].st = "sent"
  /\ Fault
  /\ flight' = [flight EXCEPT ![w][s].st = "failed"]
  /\ \/ UNCHANGED late
     \/ late' = late \cup {s}
  /\ UNCHANGED <<session, alarm, jar, req, signIn>>

\* The new tokens cannot be used: an unreadable body, or a SessionTokenError.
AnswerUnusable(w, s) ==
  /\ flight[w][s].st = "issued"
  /\ Fault
  /\ flight' = [flight EXCEPT ![w][s] = [st |-> "failed", new |-> None]]
  /\ UNCHANGED <<session, alarm, jar, req, late, signIn>>

LateRefresh(s) ==
  /\ s \in late
  /\ late' = late \ {s}
  /\ \E new \in Cookie : BackendRefresh(s, new)
  /\ UNCHANGED <<jar, req, flight, faults>>

\* What the proxy forwards for a request whose flight has settled as f.
Forwarded(q, f) ==
  LET passed == [q EXCEPT !.pc = "handler"] IN
  CASE f.st = "issued" ->
         [passed EXCEPT !.access = f.new, !.refresh = f.new, !.set = f.new]
    [] f.st = "refused" /\ ~Unexpired(q.access) ->
         [passed EXCEPT !.access = None, !.refresh = None]
    [] OTHER -> passed

Waits(r, w, s) == req[r].pc = "flight" /\ req[r].srv = w /\ req[r].refresh = s

\* Mutant. Only the request that started the flight is resumed.
FlightSettlesStarter(w, s) ==
  /\ flight[w][s].st \in {"issued", "refused", "failed"}
  /\ LET Waiting == {r \in Requests : Waits(r, w, s)}
         one == CHOOSE r \in Waiting : TRUE IN
     req' = [req EXCEPT ![one] = Forwarded(@, flight[w][s])]
  /\ flight' = [flight EXCEPT ![w][s] = Idle]
  /\ UNCHANGED <<session, alarm, jar, late, signIn, faults>>

\* The promise settles: its entry goes and every request that awaits it proceeds.
FlightSettles(w, s) ==
  /\ flight[w][s].st \in {"issued", "refused", "failed"}
  /\ req' = [r \in Requests |->
               IF Waits(r, w, s) THEN Forwarded(req[r], flight[w][s]) ELSE req[r]]
  /\ flight' = [flight EXCEPT ![w][s] = Idle]
  /\ UNCHANGED <<session, alarm, jar, late, signIn, faults>>

-----------------------------------------------------------------------------
(* The route handlers.                                                      *)

Answered(q) == [q EXCEPT !.pc = "reply"]
Cleared(q) == [q EXCEPT !.pc = "reply", !.clear = TRUE]

\* auth/me answered 401 or 403.
RefusedMe(q) ==
  CASE q.kind = "me" -> Cleared(q)
    [] q.kind = "recover" -> [Answered(q) EXCEPT !.kind = "invalid"]
    [] OTHER -> Answered(q)

\* handleSessionMe, handleSessionRecovery, getServerAdminSession.
CurrentUser(r) ==
  LET q == req[r] IN
  /\ q.pc = "handler" /\ q.kind \in Proxied
  /\ req' = [req EXCEPT ![r] =
       IF q.access = None \/ Authenticates(q.access) THEN Answered(q) ELSE RefusedMe(q)]
  /\ UNCHANGED <<session, alarm, jar, flight, late, signIn, faults>>

\* Mutant. Any failure of auth/me ends the session.
CurrentUserFailsClears(r) ==
  /\ req[r].pc = "handler" /\ req[r].kind \in Proxied /\ req[r].access # None
  /\ Fault
  /\ req' = [req EXCEPT ![r] = RefusedMe(@)]
  /\ UNCHANGED <<session, alarm, jar, flight, late, signIn>>

\* The backend is down or slow: 500 or 503, no cookie is touched.
CurrentUserFails(r) ==
  /\ req[r].pc = "handler" /\ req[r].kind \in Proxied /\ req[r].access # None
  /\ Fault
  /\ req' = [req EXCEPT ![r] = Answered(@)]
  /\ UNCHANGED <<session, alarm, jar, flight, late, signIn>>

\* Mutant. A logout whose access token has expired just clears the cookies.
LogoutStartsNoRefresh(r) ==
  LET q == req[r] IN
  /\ q.pc = "handler" /\ q.kind = "logout"
  /\ req' = [req EXCEPT ![r] = IF Unexpired(q.access) THEN [q EXCEPT !.pc = "revoking"]
                                                     ELSE Cleared(q)]
  /\ UNCHANGED <<session, alarm, jar, flight, late, signIn, faults>>

\* handleLogout and handleLearnerLogout: which token is going to be revoked.
LogoutStarts(r) ==
  LET q == req[r] IN
  /\ q.pc = "handler" /\ q.kind = "logout"
  /\ req' = [req EXCEPT ![r] =
       CASE Unexpired(q.access) -> [q EXCEPT !.pc = "revoking"]
         [] ~Unexpired(q.access) /\ q.refresh # None -> [q EXCEPT !.pc = "refreshing"]
         [] OTHER -> Cleared(q)]
  /\ UNCHANGED <<session, alarm, jar, flight, late, signIn, faults>>

\* The refresh of a logout is its own call, not the proxy's flight; a refused
\* one ends the logout with cleared cookies in both portals.
LogoutRefreshes(r) ==
  LET q == req[r] IN
  /\ q.pc = "refreshing"
  /\ \E new \in Cookie :
       /\ BackendRefresh(q.refresh, new)
       /\ req' = [req EXCEPT ![r] =
            IF new # None THEN [q EXCEPT !.pc = "revoking", !.access = new] ELSE Cleared(q)]
  /\ UNCHANGED <<jar, flight, late, faults>>

LogoutRevokes(r) ==
  /\ req[r].pc = "revoking" /\ req[r].kind = "logout"
  /\ BackendLogout(req[r].access)
  /\ req' = [req EXCEPT ![r] = Cleared(@)]
  /\ UNCHANGED <<alarm, jar, flight, late, signIn, faults>>

\* A failed call: the console answers 503 and keeps the cookies for a retry,
\* the learner's logout is best effort and clears them.  The portal is not fixed.
LogoutFails(r) ==
  LET q == req[r] IN
  /\ q.kind = "logout" /\ q.pc \in {"refreshing", "revoking"}
  /\ Fault
  /\ \/ req' = [req EXCEPT ![r] = Answered(q)]
     \/ req' = [req EXCEPT ![r] = Cleared(q)]
  /\ late' = IF q.pc = "refreshing" THEN late \cup {q.refresh} ELSE late
  /\ UNCHANGED <<session, alarm, jar, flight, signIn>>

\* handleLogin, handleLearnerLogin, handleLearnerRegister: a new session for
\* the account; one with the other portal's role is revoked again.
Login(r) ==
  LET q == req[r] IN
  /\ q.pc = "handler" /\ q.kind = "login" /\ Unused # {}
  /\ session' = Inserted(session, NextSession)
  /\ signIn' = [signIn EXCEPT ![NextSession] = NextSession]
  /\ \E rightRole \in BOOLEAN :
       req' = [req EXCEPT ![r] = IF rightRole
                 THEN [Answered(q) EXCEPT !.set = NextSession]
                 ELSE [q EXCEPT !.pc = "revoking", !.access = NextSession]]
  /\ UNCHANGED <<alarm, jar, flight, late, faults>>

\* Wrong password, locked account, a failing backend.
LoginRefused(r) ==
  /\ req[r].pc = "handler" /\ req[r].kind = "login"
  /\ req' = [req EXCEPT ![r] = Answered(@)]
  /\ UNCHANGED <<session, alarm, jar, flight, late, signIn, faults>>

WrongRoleRevokes(r) ==
  /\ req[r].pc = "revoking" /\ req[r].kind = "login"
  /\ \/ BackendLogout(req[r].access) /\ UNCHANGED faults
     \/ Fault /\ UNCHANGED session
  /\ req' = [req EXCEPT ![r] = Answered(@)]
  /\ UNCHANGED <<alarm, jar, flight, late, signIn>>

-----------------------------------------------------------------------------
(* Time.                                                                    *)

\* The request may still present token s, or its answer set it.
Concerns(r, s) == req[r].pc # "free" /\ s \in {req[r].access, req[r].refresh, req[r].set}

\* The browser drops an access cookie when its token expires (maxAge).  A
\* request with a fresh token, or an answer that sets one, is over before the
\* token has 120 s left, so the code sees the same ages when the step waits.
AccessAges(s) ==
  /\ session[s].status \in {"live", "rotated"} /\ Unexpired(s)
  /\ Fresh(s) => 
       /\ \A r \in Requests : ~Concerns(r, s)
       /\ \A w \in Servers, t \in Sessions : flight[w][t].new # s
  /\ session' = [session EXCEPT ![s].access =
       IF @ = "fresh" THEN "expiring" ELSE "expired"]
  /\ jar' = IF session[s].access = "expiring" /\ jar.access = s
            THEN [jar EXCEPT !.access = None] ELSE jar
  /\ UNCHANGED <<alarm, req, flight, late, signIn, faults>>

\* Ten seconds after a rotation: by then the new cookies have arrived, and a
\* request that left with the old ones before has reached the backend.  An
\* answer that takes longer is the lost answer of LoseAnswer.
GraceEnds(s) ==
  /\ session[s].status = "rotated" /\ session[s].grace
  /\ s \notin late
  /\ \A w \in Servers : flight[w][s].st = "idle"
  /\ \A r \in Requests : ~Concerns(r, s) /\ req[r].set = None
  /\ session' = [session EXCEPT ![s].grace = FALSE]
  /\ UNCHANGED <<alarm, jar, req, flight, late, signIn, faults>>

-----------------------------------------------------------------------------
Serve(r) ==
  \/ PassThrough(r) \/ JoinFlight(r) \/ CurrentUser(r)
  \/ LogoutStarts(r) \/ LogoutRefreshes(r) \/ LogoutRevokes(r)
  \/ LoginRefused(r) \/ WrongRoleRevokes(r)

Next ==
  \/ \E r \in Requests, k \in Kinds, w \in Servers : Send(r, k, w)
  \/ \E r \in Requests : Serve(r) \/ Arrive(r)
  \/ \E r \in Requests : Login(r) \/ LoseAnswer(r) \/ CurrentUserFails(r) \/ LogoutFails(r)
  \/ \E w \in Servers, s \in Sessions :
       FlightAnswered(w, s) \/ FlightFails(w, s) \/ AnswerUnusable(w, s)
       \/ FlightSettles(w, s)
  \/ \E s \in Sessions : LateRefresh(s) \/ AccessAges(s) \/ GraceEnds(s)

Spec == Init /\ [][Next]_vars

\* Every call of the BFF ends, by its answer or by the client's timer, and a
\* running process serves its requests.
FairSpec ==
  /\ Spec
  /\ \A r \in Requests : WF_vars(Serve(r)) /\ WF_vars(Arrive(r))
  /\ \A w \in Servers, s \in Sessions :
       WF_vars(FlightAnswered(w, s)) /\ WF_vars(FlightSettles(w, s))

-----------------------------------------------------------------------------
(* Properties.                                                              *)

\* The reuse alarm, which ends every session of the user, goes off only after
\* an answer was lost: tabs and processes that refresh one token at the same
\* time, logouts included, never trigger it (auth.service.ts:446-470).
NoFalseAlarm == alarm => faults > 0

\* An outage signs nobody out: auth/me clears the cookies only when the backend
\* does not accept the session the request presented.  The jar may by then hold
\* another one: WinnerIsKept (session-route-handlers.ts:206).
OnlyAVerdictClears ==
  [][\A r \in Requests :
       (req[r].pc = "handler" /\ req[r].kind = "me" /\ ~req[r].clear /\ req'[r].clear)
         => ~Authenticates(req[r].access)]_vars

\* Request q carries session s, or its flight has just been issued it.
Carries(q, s) ==
  \/ req[q].pc # "free" /\ s \in {req[q].access, req[q].refresh, req[q].set}
  \/ req[q].pc = "flight" /\ flight[req[q].srv][req[q].refresh].new = s

\* Without a failed call, a logout that clears the cookies leaves of its sign-in
\* no session alive but one that another request of the browser carries.  Two cases
\* are excepted, though no call fails in them: an answer has meanwhile changed the
\* cookies this logout presented, or its access token expired on the way.  There the
\* refresh or the revocation is answered 401 and the cookies are cleared all the
\* same, while a session of the sign-in lives on (session-route-handlers.ts:254-290).
LogoutEndsTheSignIn ==
  [][\A r \in Requests, s \in Sessions :
       (/\ req[r].kind = "logout" /\ ~req[r].clear /\ req'[r].clear /\ faults' = 0
        /\ req[r].refresh # None /\ req[r].refresh = jar.refresh
        /\ req[r].pc = "revoking" => Unexpired(req[r].access)
        /\ Live(s)' /\ signIn'[s] = signIn[req[r].refresh])
       => \E q \in Requests \ {r} : Carries(q, s)]_vars

\* Every request is answered: none waits for ever on a flight another request
\* started (session-refresh.ts:93-104).
RequestsAreAnswered == \A r \in Requests : req[r].pc # "free" ~> req[r].pc = "free"

\* api.md:167-177 and the comment of session-refresh.ts:162: losing a refresh
\* race is harmless.  An answer to a request that presented the rotated token
\* does not take away the cookies of the live session that replaced it.
WinnerIsKept ==
  [][\A r \in Requests :
       (/\ req[r].pc = "reply" /\ req[r].kind = "me" /\ req'[r].pc = "free"
        /\ req[r].refresh # None /\ session[req[r].refresh].status = "rotated"
        /\ jar.refresh # None /\ jar'.refresh = None)
       => ~Live(jar.refresh)]_vars
=============================================================================
