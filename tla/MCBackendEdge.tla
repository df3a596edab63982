----------------------------- MODULE MCBackendEdge -----------------------------
(***************************************************************************)
(* Five small protocols at the edge of the backend: uploads, signed links, *)
(* metric scrapes, mailed links and sign-in attempts.  They share no       *)
(* variable, so a behaviour explores one side and leaves the others at     *)
(* rest: the product would show nothing more.                              *)
(***************************************************************************)
EXTENDS UploadAdmission
CONSTANTS
  None,
  Scrapes, MaxCollections,
  Links, Reads, LearnerTtl, AdminTtl, MaxRotations, LinkTime,
  Requests, Confirms, MaxRetries, MaxTokens,
  Attempts, AddressLimit, Window, MaxLogin, Lockout, LoginTime

\* What the validation of the configuration and the defaults of the code guarantee.
ASSUME EdgeAssumption ==
  /\ MaxCollections \in Nat
  /\ LearnerTtl \in Nat /\ AdminTtl \in Nat /\ LearnerTtl <= AdminTtl
  /\ LinkTime \in Nat /\ MaxRotations \in Nat
  /\ None \notin Nat /\ None \notin [expires : Nat, secret : Nat]
  /\ MaxRetries \in Nat /\ MaxTokens \in Nat
  /\ AddressLimit \in Nat /\ Window \in Nat \ {0} /\ MaxLogin \in Nat \ {0} /\ Lockout \in Nat \ {0}

VARIABLES side,
  last, driver, promise, active, cache, scrape,
  clock, secret, previous, rotated, ready, published, object, link, read, stream,
  kind, account, userLock, request, job, worker, tokens, mailed, spoiled, confirm,
  now, counter, user, attempt, blocked, passed, tried

M == INSTANCE MediaMetrics
A == INSTANCE MediaAccess WITH MaxTime <- LinkTime
T == INSTANCE AccountMail
L == INSTANCE LoginAttempts WITH Limit <- AddressLimit, MaxTime <- LoginTime

scrapeVars == <<last, driver, promise, active, cache, scrape>>
linkVars == <<clock, secret, previous, rotated, ready, published, object, link, read, stream>>
mailVars == <<kind, account, userLock, request, job, worker, tokens, mailed, spoiled, confirm>>
loginVars == <<now, counter, user, attempt, blocked, passed, tried>>

MCInit ==
  /\ Init /\ M!Init /\ A!Init /\ T!Init /\ L!Init
  /\ side \in {"uploads", "scrapes", "links", "mail", "logins"}
  /\ side # "uploads" => enabled /\ row.old
  /\ side # "links" => published /\ object = "ingested"
  /\ side # "mail" => kind = "reset"

MCNext ==
  /\ UNCHANGED side
  /\ \/ /\ side = "uploads" /\ Next
        /\ UNCHANGED <<scrapeVars, linkVars, mailVars, loginVars>>
     \/ /\ side = "scrapes" /\ M!Next
        /\ UNCHANGED <<vars, linkVars, mailVars, loginVars>>
     \/ /\ side = "links" /\ A!Next
        /\ UNCHANGED <<vars, scrapeVars, mailVars, loginVars>>
     \/ /\ side = "mail" /\ T!Next
        /\ UNCHANGED <<vars, scrapeVars, linkVars, loginVars>>
     \/ /\ side = "logins" /\ L!Next
        /\ UNCHANGED <<vars, scrapeVars, linkVars, mailVars>>

\* The properties of scrapes, links and logins are safety: they need no fairness.
MCSpec ==
  /\ MCInit /\ [][MCNext]_<<side, vars, scrapeVars, linkVars, mailVars, loginVars>>
  /\ Fairness /\ T!Fairness

\* At most one call is under way in the driver's pool, also after timeouts.
OneCollection == M!OneCollection

\* A link that has not expired is refused only because its media was withdrawn.
LinksSurviveRotation == A!LinksSurviveRotation

\* No response body of the object store is left open once its request is answered.
StreamsAreClosed == A!StreamsAreClosed

\* A mailed link changes the account at most once.
LinksWorkOnce == T!LinksWorkOnce

\* After a reset, or a closing of the account, links mailed before do nothing.
OldLinksAreDead == T!OldLinksAreDead

\* Every request for a link is settled, its job run or given up.
RequestsSettle == T!RequestsSettle

\* The block of an address and the lock of an account hold from beginning to end.
LimitsAreExact == L!LimitsAreExact
=============================================================================
