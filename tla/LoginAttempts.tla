----------------------------- MODULE LoginAttempts -----------------------------
(***************************************************************************)
(* Sign-in attempts on one e-mail address, and the two counters that bound *)
(* them: the throttle's counter of the address (RateLimitCounter), and the *)
(* failures and the lock of the account's row.  Each counter is changed by *)
(* single statements on one row, by the database's clock; the attempts of  *)
(* all backend processes interleave between the statements.                *)
(***************************************************************************)
EXTENDS Integers, FiniteSets

CONSTANTS
  Attempts,   \* sign-in requests
  Limit,      \* LOGIN_EMAIL_FAILURE_LIMIT
  Window,     \* LOGIN_EMAIL_WINDOW_MS, the window and the block
  MaxLogin,   \* MAX_LOGIN_ATTEMPTS
  Lockout,    \* LOCKOUT_MINUTES
  MaxTime     \* bound on the clock

VARIABLES
  now,       \* the database's clock
  counter,   \* the counter's row: its points and when it expires; 0 points is no row
  user,      \* failedLoginAttempts and lockUntil, 0 for null
  attempt,   \* where each attempt is
  blocked,   \* history: when the present block began, or -1
  passed,    \* history: attempts that passed the throttle within the last window, and when
  tried      \* history: passwords looked at within the last lock's time, since a success, and when

vars == <<now, counter, user, attempt, blocked, passed, tried>>

NoRow == [points |-> 0, expireAt |-> 0]

Init ==
  /\ now = 1
  /\ counter = NoRow /\ user = [failed |-> 0, lockUntil |-> 0]
  /\ attempt = [a \in Attempts |-> "idle"]
  /\ blocked = -1 /\ passed = {} /\ tried = {}

Goto(a, pc) == attempt' = [attempt EXCEPT ![a] = pc]

Tick ==
  /\ now < MaxTime
  /\ now' = now + 1
  /\ blocked' = IF now' < blocked + Window THEN blocked ELSE -1
  /\ passed' = {p \in passed : p[2] > now' - Window}
  /\ tried' = {p \in tried : p[2] > now' - Lockout}
  /\ UNCHANGED <<counter, user, attempt>>

-----------------------------------------------------------------------------
(* The throttle's counter *)

\* Mutant. The window still counts at the instant it expires.
OverLate == counter.points = 0 \/ counter.expireAt < now

\* The counter has no row, or its window or block is over.
Over == counter.points = 0 \/ counter.expireAt <= now

\* INSERT ... ON CONFLICT DO UPDATE: a new window, a hit of a block, the hit
\* that starts a block, one more hit.  Here the window and the block are as long.
Incremented ==
  IF Over THEN [points |-> 1, expireAt |-> now + Window]
  ELSE IF counter.points > Limit THEN counter
  ELSE [points |-> counter.points + 1,
        expireAt |-> IF counter.points + 1 > Limit THEN now + Window ELSE counter.expireAt]

\* A sign-in is counted against its address, before any look at the account.
Consume(a) ==
  /\ attempt[a] = "idle"
  /\ counter' = Incremented
  /\ IF counter'.points > Limit
     THEN /\ Goto(a, "throttled")
          /\ blocked' = IF blocked < 0 THEN now ELSE blocked
          /\ UNCHANGED passed
     ELSE /\ Goto(a, "claim")
          /\ passed' = passed \cup {<<a, now>>}
          /\ UNCHANGED blocked
  /\ UNCHANGED <<now, user, tried>>

\* Expired counters are deleted in batches, by every process.
Purge ==
  /\ counter.points > 0 /\ counter.expireAt <= now
  /\ counter' = NoRow
  /\ UNCHANGED <<now, user, attempt, blocked, passed, tried>>

-----------------------------------------------------------------------------
(* The account's row *)

\* The account is unknown or inactive: a decoy is verified, and 401.
Decoy(a) ==
  /\ attempt[a] = "claim"
  /\ Goto(a, "answered")
  /\ UNCHANGED <<now, counter, user, blocked, passed, tried>>

\* One UPDATE: one more failure, or the first after a lock; the last one locks.
Claimed ==
  LET n == IF user.lockUntil = 0 THEN user.failed + 1 ELSE 1 IN
  [failed |-> n, lockUntil |-> IF n >= MaxLogin THEN now + Lockout ELSE 0]

\* Mutant. The statement claims whether or not the account is locked.
UnlockedAlways == user.lockUntil >= 0

Unlocked == user.lockUntil = 0 \/ user.lockUntil <= now

\* A verification is claimed before the password is looked at.
Claim(a) ==
  /\ attempt[a] = "claim" /\ Unlocked
  /\ user' = Claimed
  /\ tried' = tried \cup {<<a, now>>}
  /\ Goto(a, "verify")
  /\ UNCHANGED <<now, counter, blocked, passed>>

\* The account is locked: 403, without a verification.
Locked(a) ==
  /\ attempt[a] = "claim" /\ ~Unlocked
  /\ Goto(a, "answered")
  /\ UNCHANGED <<now, counter, user, blocked, passed, tried>>

\* The password is wrong: 401, and the claim stays as a failure.
Wrong(a) ==
  /\ attempt[a] = "verify"
  /\ Goto(a, "answered")
  /\ UNCHANGED <<now, counter, user, blocked, passed, tried>>

\* The password is right: the account's counter and lock are reset.
ResetUser(a) ==
  /\ attempt[a] = "verify"
  /\ user' = [failed |-> 0, lockUntil |-> 0]
  /\ tried' = {}
  /\ Goto(a, "reset")
  /\ UNCHANGED <<now, counter, blocked, passed>>

\* Then the counter of the address is deleted, and a session is opened.
ResetThrottle(a) ==
  /\ attempt[a] = "reset"
  /\ counter' = NoRow
  /\ blocked' = -1 /\ passed' = {}
  /\ Goto(a, "answered")
  /\ UNCHANGED <<now, user, tried>>

\* A statement fails: the guard fails closed, the counters stay as they are.
Fails(a) ==
  /\ attempt[a] \in {"idle", "claim", "verify", "reset"}
  /\ Goto(a, "answered")
  /\ UNCHANGED <<now, counter, user, blocked, passed, tried>>

-----------------------------------------------------------------------------
Next ==
  \/ Tick \/ Purge
  \/ \E a \in Attempts :
       Consume(a) \/ Decoy(a) \/ Claim(a) \/ Locked(a) \/ Wrong(a)
       \/ ResetUser(a) \/ ResetThrottle(a) \/ Fails(a)

Spec == Init /\ [][Next]_vars

-----------------------------------------------------------------------------
(* Properties *)

TypeOK ==
  /\ now \in Nat /\ blocked \in Int
  /\ counter \in [points : Nat, expireAt : Nat]
  /\ user \in [failed : Nat, lockUntil : Nat]
  /\ attempt \in [Attempts -> {"idle", "claim", "verify", "reset", "answered", "throttled"}]
  /\ passed \in SUBSET (Attempts \X Nat) /\ tried \in SUBSET (Attempts \X Nat)

\* Both limits bite as announced, however the attempts interleave.  A block of the
\* address lasts from the attempt that exceeded the limit to its very end: none passes
\* before, none is refused from its end on, and it begins only after Limit attempts
\* passed within one window.  A password is looked at only while, since the last
\* success, fewer than MaxLogin were looked at within the time of a lock, whatever
\* locks and counts have begun and ended in between
\* (postgres-throttler.storage.ts:57-92, auth.service.ts:262-292).
LimitsAreExact ==
  [][\A a \in Attempts :
       /\ attempt[a] = "idle" /\ attempt'[a] = "claim" => blocked < 0
       /\ attempt[a] = "idle" /\ attempt'[a] = "throttled" =>
            blocked >= 0 \/ Cardinality(passed) >= Limit
       /\ attempt[a] = "claim" /\ attempt'[a] = "verify" => Cardinality(tried) < MaxLogin]_vars
=============================================================================
