------------------------------ MODULE Onboarding ------------------------------
(***************************************************************************)
(* How a learner sets a goal and gets a plan: the pages, which send the     *)
(* browser on to one another according to the status they read, the two     *)
(* forms, the BFF that turns one submission into a chain of backend calls,  *)
(* and the two transactions of the backend, while the content is edited     *)
(* and another tab writes.                                                   *)
(* Source: frontend/src/app/(learner)/, frontend/src/features/onboarding/,  *)
(* backend/src/modules/onboarding/onboarding.service.ts.                    *)
(*                                                                          *)
(* A level stands for its bands too, and the start date of the goals is the *)
(* same throughout.                                                         *)
(***************************************************************************)
EXTENDS Integers, FiniteSets

CONSTANTS
  Levels,
  MaxEdits,   \* bound on the changes of content and session
  MaxFaults   \* bound on the calls that fail, time out or lose their answer

Nothing == 0

Pages == {"sign-in", "learn", "goal", "plan"}

VARIABLES
  listed,   \* the published levels
  ready,    \* the levels with a lesson that is ready, and how its list changed
  goal,     \* the level of the active goal, and whether it has a purpose
  plan,     \* the level of the active plan, and the list it was made from
  session,  \* the cookie holds a live session
  page,     \* the page of the tab
  step,     \* how far it is: "open", "read", "goal", "shown", "sent", "told", "failed"
  choice,   \* the level in its address
  offered,  \* the levels a goal page was made with
  bff,      \* the call the BFF is at for its submission, or the answer
  sent,     \* the level of that submission
  settled,  \* the learner has stopped wandering about
  late,     \* backend calls nobody waits for: given up on, or of a form that was left
  edits, faults

content == <<listed, ready>>
account == <<goal, plan>>
view == <<page, step, choice, offered, settled>>
serving == <<bff, sent, late>>
vars == <<content, account, session, view, serving, edits, faults>>

NoGoal == [level |-> Nothing, purpose |-> FALSE]
NoPlan == [level |-> Nothing, list |-> 0]

\* The lists of ready lessons a level can have; 0 is the empty one.
Lists == 0 .. 2

Init ==
  /\ listed = Levels /\ ready = [l \in Levels |-> 1]
  /\ goal \in {NoGoal} \cup [level : Levels, purpose : BOOLEAN] /\ plan = NoPlan
  /\ session \in BOOLEAN
  /\ page = "learn" /\ step = "open"
  /\ choice = Nothing /\ offered = {} /\ settled = FALSE
  /\ bff = "none" /\ sent = Nothing
  /\ late = {} /\ edits = 0 /\ faults = 0

HasReady(l) == l \in listed /\ ready[l] # 0

Usable == plan.level = goal.level /\ plan.list = ready[goal.level]

\* OnboardingService.getStatus.
NextStep ==
  IF goal = NoGoal THEN "set_goal"
  ELSE IF ~HasReady(goal.level) THEN "content_unavailable"
  ELSE IF Usable THEN "ready" ELSE "generate_plan"

-----------------------------------------------------------------------------
(* The pages.                                                               *)

At(p, s) == page = p /\ step = s

\* A page is asked for, by the learner or by a redirect.
Open(p, l) ==
  page' = p /\ step' = "open" /\ choice' = l /\ offered' = {} /\ UNCHANGED settled

Goes(s) == step' = s /\ UNCHANGED <<page, choice, offered, settled>>

Fault == faults < MaxFaults /\ faults' = faults + 1

\* getServerLearnerSession: /auth/me, or the error page.
Enter ==
  /\ step = "open"
  /\ \/ /\ page = "sign-in"
        /\ IF session THEN Open("learn", Nothing) ELSE Goes("shown")
        /\ UNCHANGED faults
     \/ /\ page # "sign-in"
        /\ IF session THEN Goes("read") ELSE Open("sign-in", Nothing)
        /\ UNCHANGED faults
     \/ Fault /\ Goes("failed")
  /\ UNCHANGED <<content, account, session, serving, edits>>

\* What the page reads next; the session may have ended since, and the backend
\* may fail.
Reads(s, then) ==
  /\ step = s
  /\ \/ session /\ then /\ UNCHANGED faults
     \/ ~session /\ Open("sign-in", Nothing) /\ UNCHANGED faults
     \/ Fault /\ Goes("failed")
  /\ UNCHANGED <<content, account, session, serving, edits>>

\* routeForOnboarding, the goal being the one read after the status.
Route(next) ==
  CASE next \in {"set_goal", "content_unavailable"} -> Open("goal", Nothing)
    [] next = "generate_plan" ->
         IF goal.purpose THEN Open("plan", goal.level) ELSE Open("goal", goal.level)

\* /learn, and /learn/path: home is shown only when the status is ready.
ReadStatus ==
  /\ page = "learn"
  /\ Reads("read",
       CASE NextStep = "ready" -> Goes("shown")
         [] NextStep = "generate_plan" -> Goes("goal")
         [] OTHER -> Route(NextStep))

\* /learn reads the goal once the status says that only the plan is missing.
ReadGoal == page = "learn" /\ Reads("goal", Route("generate_plan"))

Shows(levels) == step' = "shown" /\ offered' = levels /\ UNCHANGED <<page, choice, settled>>

\* Mutant: a learner who has a goal is sent on from the goal page.
ReadLevelsSkipped ==
  /\ page = "goal"
  /\ Reads("read", IF goal # NoGoal THEN Open("learn", Nothing)
                   ELSE Shows(listed))

\* /onboarding/goal is shown whatever the status is.
ReadLevels ==
  /\ page = "goal"
  /\ Reads("read", Shows(listed))

\* /onboarding/plan needs a choice in its address.
ChecksChoice ==
  /\ page = "plan"
  /\ IF choice = Nothing
     THEN /\ step = "read" /\ Open("goal", Nothing)
          /\ UNCHANGED <<content, account, session, serving, edits, faults>>
     ELSE Reads("read", Goes("shown"))

PageStep == Enter \/ ReadStatus \/ ReadGoal \/ ReadLevels \/ ChecksChoice

\* The learner opens a page, or reloads one; one who has settled only goes back to
\* the goal page, from there too, when there is nothing else to do.
Visit(p) ==
  /\ step \in {"shown", "told", "failed"}
  /\ settled => p = "goal" /\ (step # "shown" \/ page = "goal")
  /\ Open(p, Nothing)
  /\ UNCHANGED <<content, account, session, serving, edits, faults>>

SettleDown ==
  /\ ~settled /\ settled' = TRUE
  /\ UNCHANGED <<content, account, session, page, step, choice, offered, serving, edits, faults>>

SignIn ==
  /\ At("sign-in", "shown")
  /\ session' = TRUE /\ Open("learn", Nothing)
  /\ UNCHANGED <<content, account, serving, edits, faults>>

-----------------------------------------------------------------------------
(* The forms.                                                               *)

\* Continue on the goal page, for a level that was listed when it was read.
Choose(l) ==
  /\ At("goal", "shown") /\ l \in offered
  /\ Open("plan", l)
  /\ UNCHANGED <<content, account, session, serving, edits, faults>>

\* The button is dead from here on.
Submit ==
  /\ At("plan", "shown") \/ (At("plan", "told") /\ ~settled)
  /\ Goes("sent")
  /\ bff' = "levels" /\ sent' = choice
  /\ UNCHANGED <<content, account, session, late, edits, faults>>

\* Mutant: the flag of a submission under way is kept after a failure.
FailsSubmitting == Goes("sent")

\* submittingRef and pending are reset, and a message is shown.
Fails == Goes("told")

\* The answer reaches the form: home after a 200, sign-in after a 401, or a
\* message, with a link to the goal page when the level or its content is missing.
Receive ==
  /\ bff \in {"ok", "unauthorized", "unavailable", "conflict", "failed"}
  /\ bff' = "none" /\ sent' = Nothing
  /\ session' = (session /\ bff # "unauthorized")
  /\ IF bff = "ok" THEN Open("learn", Nothing)
     ELSE IF bff = "unauthorized" THEN Open("sign-in", Nothing)
     ELSE Fails
  /\ UNCHANGED <<content, account, late, edits, faults>>

\* The learner leaves the form, or its answer is lost: the chain goes on.
Leave(p) ==
  /\ step = "sent" /\ Fault
  /\ Open(p, Nothing) \/ Fails
  /\ bff' = "none" /\ sent' = Nothing
  /\ late' = late \cup (CASE bff \in {"levels", "goals"} -> {<<"chain", sent>>}
                          [] bff = "plans" -> {<<"plan", Nothing>>}
                          [] OTHER -> {})
  /\ UNCHANGED <<content, account, session, edits>>

-----------------------------------------------------------------------------
(* handleOnboardingComplete.                                                *)

Answers(a) == bff' = a /\ UNCHANGED sent

\* A call fails, or is given up on and may still be carried out.
Breaks(call) ==
  /\ Fault /\ Answers("failed")
  /\ late' \in {late, late \cup call}
  /\ UNCHANGED account

Calls(s) ==
  /\ bff = s
  /\ UNCHANGED <<content, session, view, edits>>

GetLevels ==
  /\ Calls("levels")
  /\ \/ /\ Answers(IF ~session THEN "unauthorized"
                      ELSE IF sent \in listed THEN "goals" ELSE "unavailable")
        /\ UNCHANGED <<account, late, faults>>
     \/ Breaks({})

\* The transaction of setGoal: the same goal is kept.
SetGoal(l) == goal' = [level |-> l, purpose |-> TRUE] /\ UNCHANGED plan

PostGoal ==
  /\ Calls("goals")
  /\ \/ /\ IF ~session THEN Answers("unauthorized") /\ UNCHANGED account
           ELSE IF sent \in listed THEN SetGoal(sent) /\ Answers("plans")
           ELSE Answers("unavailable") /\ UNCHANGED account
        /\ UNCHANGED <<late, faults>>
     \/ Breaks({<<"goal", sent>>})

\* Mutant: a plan for the same level is kept whatever lessons it holds.
GeneratePlanOnce ==
  /\ plan' = IF plan.level = goal.level THEN plan
             ELSE [level |-> goal.level, list |-> ready[goal.level]]
  /\ UNCHANGED goal

\* The transaction of generateLearningPlan: for the goal of that moment, and only
\* if the plan there is does not suit it: then it is the same plan again.
GeneratePlan ==
  /\ plan' = [level |-> goal.level, list |-> ready[goal.level]]
  /\ UNCHANGED goal

PostPlan ==
  /\ Calls("plans")
  /\ \/ /\ IF ~session THEN Answers("unauthorized") /\ UNCHANGED account
           ELSE IF HasReady(goal.level) THEN GeneratePlan /\ Answers("ok")
           ELSE Answers("status") /\ UNCHANGED account
        /\ UNCHANGED <<late, faults>>
     \/ Breaks({<<"plan", Nothing>>})

\* Which of the conflicts it was; a conflict when the status cannot be read.
GetStatus ==
  /\ Calls("status")
  /\ \/ /\ Answers(IF session /\ NextStep = "content_unavailable" THEN "unavailable"
                   ELSE "conflict")
        /\ UNCHANGED faults
     \/ Fault /\ Answers("conflict")
  /\ UNCHANGED <<account, late>>

\* A call nobody waits for is carried out; a chain goes on with the plan.
Lands(call) ==
  /\ call \in late
  /\ late' = (late \ {call}) \cup
       (IF call[1] = "chain" /\ call[2] \in listed THEN {<<"plan", Nothing>>} ELSE {})
  /\ IF call[1] = "plan"
     THEN IF goal # NoGoal /\ HasReady(goal.level) THEN GeneratePlan ELSE UNCHANGED account
     ELSE IF call[2] \in listed THEN SetGoal(call[2]) ELSE UNCHANGED account
  /\ UNCHANGED <<content, session, view, bff, sent, edits, faults>>

BffStep == GetLevels \/ PostGoal \/ PostPlan \/ GetStatus

-----------------------------------------------------------------------------
(* The content changes, the session ends, another tab or device writes.      *)

Edit == edits < MaxEdits /\ edits' = edits + 1 /\ UNCHANGED <<view, serving, faults>>

Publish(l) ==
  /\ Edit /\ listed' = (IF l \in listed THEN listed \ {l} ELSE listed \cup {l})
  /\ UNCHANGED <<ready, account, session>>

EditLessons(l, list) ==
  /\ Edit /\ list # ready[l] /\ ready' = [ready EXCEPT ![l] = list]
  /\ UNCHANGED <<listed, account, session>>

SessionEnds == Edit /\ session /\ session' = FALSE /\ UNCHANGED <<content, account>>

OtherTab(l) == Edit /\ l \in listed /\ SetGoal(l) /\ UNCHANGED <<content, session>>

Next ==
  \/ PageStep \/ SettleDown \/ SignIn \/ Submit \/ Receive \/ BffStep
  \/ \E p \in Pages : Visit(p) \/ Leave(p)
  \/ \E call \in late : Lands(call)
  \/ \E l \in Levels : Choose(l) \/ Publish(l) \/ OtherTab(l)
  \/ \E l \in Levels, list \in Lists : EditLessons(l, list)
  \/ SessionEnds

Spec == Init /\ [][Next]_vars

\* Pages, calls and answers get on, and the learner settles down and perseveres:
\* signs in, submits, goes back to the goal page, and tries every level.
Fairness ==
  /\ WF_vars(PageStep) /\ WF_vars(BffStep) /\ WF_vars(Receive)
  /\ WF_vars(SettleDown) /\ WF_vars(SignIn) /\ WF_vars(Submit) /\ WF_vars(Visit("goal"))
  /\ \A l \in Levels : SF_vars(Choose(l))

FairSpec == Spec /\ Fairness

-----------------------------------------------------------------------------
(* Properties.                                                              *)

\* Every page that is asked for is shown in the end, and every form that is sent
\* comes back: no status sends the browser round in a circle, and no answer
\* leaves the button dead.
PagesSettle == []<>(step \notin {"open", "read", "goal", "sent"})

\* A learner who perseveres gets to the home page, as long as some level keeps
\* ready lessons, and gets back there when the plan is out of date: whatever
\* was chosen before, whatever half of a submission was
\* lost, and whatever another tab does, no page is a dead end.
LearnersArrive ==
  (<>[](\E l \in Levels : HasReady(l))) => []<>At("learn", "shown")
=============================================================================
