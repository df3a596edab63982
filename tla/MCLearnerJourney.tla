--------------------------- MODULE MCLearnerJourney ---------------------------
(***************************************************************************)
(* A learner's way through the application: onboarding and the path.  The  *)
(* two are modelled apart; a behaviour explores one of them and leaves the  *)
(* other at rest, in a state none of its steps leaves.                      *)
(***************************************************************************)
EXTENDS LearningPath
CONSTANTS GoalLevels, MaxChanges, MaxFaults
VARIABLES
  side,
  published, ready, target, plan, session, page, step, choice, offered, settled,
  bff, sent, late, changes, faults

O == INSTANCE Onboarding
       WITH Levels <- GoalLevels, MaxEdits <- MaxChanges,
            listed <- published, goal <- target, edits <- changes

onboardingVars ==
  <<published, ready, target, plan, session, page, step, choice, offered, settled,
    bff, sent, late, changes, faults>>

\* Three lessons, two of them on the first level.
MCLevelOf == <<1, 1, 2>>

\* Every lesson is public to begin with, or all but the first; the goal is the
\* first level, or there is none yet.
PathInit ==
  Init /\ <<public, goal>> \in {<<Lessons, 1>>, <<Lessons, Nothing>>, <<Lessons \ {1}, 1>>}

PathAtRest ==
  /\ listed = {} /\ public = {} /\ place = [l \in Lessons |-> l]
  /\ status = [l \in Lessons |-> "none"] /\ active = [l \in Lessons |-> 0]
  /\ goal = Nothing /\ clock = 0 /\ edits = 0
  /\ pc = "loading" /\ unread = {"rest"} /\ copy = NoCopy /\ since = {} /\ offer = NoOffer

OnboardingAtRest ==
  /\ published = {} /\ ready = [l \in GoalLevels |-> 0]
  /\ target = O!NoGoal /\ plan = O!NoPlan /\ session = FALSE
  /\ page = "learn" /\ step = "rest" /\ choice = Nothing /\ offered = {} /\ settled = TRUE
  /\ bff = "none" /\ sent = Nothing /\ late = {} /\ changes = 0 /\ faults = 0

MCInit ==
  \/ side = "path" /\ PathInit /\ OnboardingAtRest
  \/ side = "onboarding" /\ PathAtRest /\ O!Init

MCNext ==
  \/ side = "path" /\ Next /\ UNCHANGED <<side, onboardingVars>>
  \/ side = "onboarding" /\ O!Next /\ UNCHANGED <<side, vars>>

MCSpec ==
  /\ MCInit /\ [][MCNext]_<<side, vars, onboardingVars>>
  /\ Fairness /\ O!Fairness

\* A learner who perseveres gets to the home page.
LearnersArrive == O!LearnersArrive
=============================================================================
