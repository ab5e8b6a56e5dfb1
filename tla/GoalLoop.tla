------------------------------ MODULE GoalLoop ------------------------------
(***************************************************************************)
(* The autonomous loop of one goal (services/app/src/autonomy).            *)
(*                                                                         *)
(* decomposeGoal (goals.ts) turns a goal into tasks.  The clock            *)
(* (scheduler.ts) then repeats a cycle: pause at the budget cap           *)
(* (budget.ts), let the loop guard look at the goal (loop-guard.ts), judge *)
(* it and close it or generate retries (progress.ts), and dispatch its     *)
(* open tasks as runs (tick.ts).  People trigger the judgement and the     *)
(* dispatch by hand too, so several processes execute the same code on the *)
(* same rows.  One action is one database statement; everything a process  *)
(* keeps between two statements is in its proc record and may be stale.    *)
(*                                                                         *)
(* A task is dispatchable throughout: assigned to an agent, in a thread    *)
(* whose repository has a token and is not on monitor-only.                *)
(***************************************************************************)
EXTENDS Naturals, FiniteSets, Sequences

CONSTANTS
  Roots,          \* criteria of the goal, one task each
  RealWorld,      \* those whose wording matches REAL_WORLD_RE
  LiveUrl,        \* those whose wording matches LIVE_URL_RE
  Clock,          \* the scheduler's process
  Planners,       \* POST /goals/:id/decompose requests
  Advances,       \* POST /goals/:id/run requests
  Ticks,          \* POST /orgs/:id/tick requests
  MAX_ITERATIONS, \* rounds of generated tasks (progress.ts: 3)
  budgetMax,      \* dispatches per tick (tick.ts: 5)
  maxIterations,  \* cycles the loop guard allows (scheduler.ts: 15)
  repeatWindow,   \* equal fingerprints that trip it (loop-guard.ts: 3)
  Outcomes,       \* how runs may end: merged, failed, held for a person
  EditStates,     \* the states people may give a task
  CanDeploy,      \* whether a deploy of the goal may succeed
  MaxTasks,       \* bound: tasks of the goal
  MaxFaults,      \* bound: failed statements and crashes of the server
  MaxEdits        \* bound: changes people make to tasks and to autonomy

Procs == {Clock} \cup Planners \cup Advances \cup Ticks
Tasks == 1..MaxTasks
RunIds == Tasks \X (0..(budgetMax - 1))   \* run-<task>-<position in its tick>

ASSUME CriteriaAssumption ==
  RealWorld \subseteq Roots /\ LiveUrl \subseteq Roots /\ "none" \notin Roots
ASSUME ProcessesAssumption ==
  /\ Clock \notin Planners \cup Advances \cup Ticks
  /\ Planners \cap (Advances \cup Ticks) = {} /\ Advances \cap Ticks = {}
ASSUME ChoicesAssumption ==
  /\ Outcomes \subseteq {"merged", "failed", "held"} /\ CanDeploy \in BOOLEAN
  /\ EditStates \subseteq {"open", "in_progress", "merged", "blocked", "done", "shelved"}
ASSUME LimitsAssumption ==
  /\ MAX_ITERATIONS \in Nat /\ budgetMax \in Nat \ {0}
  /\ maxIterations \in Nat /\ repeatWindow \in Nat \ {0}
  /\ MaxTasks \in Nat /\ MaxFaults \in Nat /\ MaxEdits \in Nat

VARIABLES
  \* ---- Postgres ----
  goal,       \* goals.state
  autonomy,   \* goals.autonomy
  iterations, \* goals.iterations
  liveUrl,    \* goals.liveUrl is set
  task,       \* tasks.state; "none" = no such row
  title,      \* tasks.title: the criterion, and whether "retry: " precedes it
  made,       \* rows of tasks
  run,        \* runs: "active" stands for every state before the outcome
  spent,      \* the metered cost has reached the cap
  \* ---- Temporal and the runs ----
  started,    \* runs whose workflow was started
  unwritten,  \* outcomes recorded in runs and not in tasks yet
  \* ---- the server ----
  trail,      \* the loop guard's record of the goal
  proc,       \* every process: where it is and what it remembers
  \* ---- history and bounds ----
  faults, edits,
  vouched,    \* tasks a person marked done
  overspent,  \* runs the clock dispatched after the cap was reached
  quiet       \* guard checks since a task last changed

goalVars == <<goal, autonomy, iterations, liveUrl>>
taskVars == <<task, title, made>>
runVars  == <<run, started, unwritten>>
bookVars == <<faults, edits, vouched, overspent>>
\* quiet is set by Next, for every step alike.
vars == <<goalVars, taskVars, runVars, spent, trail, proc, bookVars,
          quiet>>

Titles == [root : Roots \cup {"none"}, retry : BOOLEAN]
NoTitle == [root |-> "none", retry |-> FALSE]
\* "shelved" stands for backlog, todo, in_review and cancelled.
TaskStates == {"open", "in_progress", "merged", "blocked", "done", "shelved"}
ACTIVE == {"open", "in_progress"}
Rows == [Tasks -> TaskStates \cup {"none"}]

NoTrail == [n |-> 0, last |-> <<>>]

Fresh(at) ==
  [pc |-> at, seen |-> [t \in Tasks |-> "none"], todo |-> {}, cur |-> 0,
   n |-> 0, iterations |-> 0, liveUrl |-> FALSE]

\* Where a process starts, and where it is when its work ended or was aborted.
First(p) ==
  IF p \in Planners THEN "plan"
  ELSE IF p \in Advances THEN "goal"
  ELSE IF p \in Ticks THEN "tick" ELSE "idle"
End(p) == IF p = Clock THEN "idle" ELSE "done"

At(p, at) == proc[p].pc = at
Goto(p, at) == proc' = [proc EXCEPT ![p].pc = at]
\* A block of code ends and its locals with it.
Leave(p, at) == proc' = [proc EXCEPT ![p] = Fresh(at)]

Init ==
  /\ goal = "open" /\ autonomy \in BOOLEAN /\ iterations = 0 /\ liveUrl = FALSE
  /\ task = [t \in Tasks |-> "none"] /\ title = [t \in Tasks |-> NoTitle]
  /\ made = 0
  /\ run = [id \in RunIds |-> "none"] /\ started = {} /\ unwritten = {}
  /\ spent = FALSE
  /\ trail = NoTrail
  /\ proc = [p \in Procs |-> Fresh(First(p))]
  /\ faults = 0 /\ edits = 0 /\ vouched = {} /\ overspent = 0 /\ quiet = 0

\* A new row of tasks, open, for a criterion or its retry.
Insert(ti) ==
  /\ made < MaxTasks
  /\ made' = made + 1
  /\ task' = [task EXCEPT ![made + 1] = "open"]
  /\ title' = [title EXCEPT ![made + 1] = ti]

(***************************************************************************)
(* decomposeGoal                                                           *)
(***************************************************************************)

\* The check that makes a second call a no-op.
Plan(p) ==
  /\ At(p, "plan")
  /\ IF goal = "open"
     THEN proc' = [proc EXCEPT ![p].pc = "fill", ![p].todo = Roots]
     ELSE Leave(p, "done")
  /\ UNCHANGED <<goalVars, taskVars, runVars, spent, trail, bookVars>>

\* One task per criterion, in any order.
Fill(p) ==
  /\ At(p, "fill")
  /\ \E r \in proc[p].todo :
       /\ Insert([root |-> r, retry |-> FALSE])
       /\ proc' = [proc EXCEPT ![p].todo = @ \ {r}]
  /\ UNCHANGED <<goalVars, runVars, spent, trail, bookVars>>

ActivateGoal(p) ==
  /\ At(p, "fill") /\ proc[p].todo = {}
  /\ goal' = "active"
  /\ Leave(p, "done")
  /\ UNCHANGED <<autonomy, iterations, liveUrl, taskVars, runVars, spent, trail, bookVars>>

(***************************************************************************)
(* runAutonomyCycle                                                        *)
(***************************************************************************)

AutonomousGoal == goal = "active" /\ autonomy

\* orgsWithAutonomy; without a self-driving goal the cycle does nothing.
CycleStart ==
  /\ At(Clock, "idle") /\ AutonomousGoal
  /\ Goto(Clock, "budget")
  /\ UNCHANGED <<goalVars, taskVars, runVars, spent, trail, bookVars>>

\* enforceBudget: at the cap pause the goal and skip the organisation.
CycleBudget ==
  /\ At(Clock, "budget")
  /\ IF spent
     THEN /\ autonomy' = (autonomy /\ goal # "active")
          /\ Goto(Clock, "idle")
     ELSE /\ Goto(Clock, "list")
          /\ UNCHANGED autonomy
  /\ UNCHANGED <<goal, iterations, liveUrl, taskVars, runVars, spent, trail, bookVars>>

\* autonomousGoals: the goals this cycle looks at.
ListGoals ==
  /\ At(Clock, "list")
  /\ Goto(Clock, IF AutonomousGoal THEN "guard" ELSE "tick")
  /\ UNCHANGED <<goalVars, taskVars, runVars, spent, trail, bookVars>>

\* How many unfinished tasks bear each title.
Fingerprint ==
  [ti \in Titles |->
     Cardinality({t \in Tasks : /\ task[t] \in {"open", "in_progress", "blocked"}
                                /\ title[t] = ti})]

\* LoopGuard.check: what the guard remembers after it looked, and its verdict.
Looked(fp) ==
  LET all == Append(trail.last, fp)
  IN  [n |-> trail.n + 1,
       last |-> IF Len(all) > repeatWindow THEN Tail(all) ELSE all]

\* Mutant: repetition does not trip the guard.
Trips_OnlyCap(tr) == tr.n > maxIterations

Trips(tr) ==
  \/ tr.n > maxIterations
  \/ /\ Len(tr.last) = repeatWindow
     /\ \A i \in 1..repeatWindow : tr.last[i] = tr.last[1]

CycleGuard ==
  /\ At(Clock, "guard")
  /\ trail' = Looked(Fingerprint)
  /\ Goto(Clock, IF Trips(trail') THEN "pause" ELSE "goal")
  /\ UNCHANGED <<goalVars, taskVars, runVars, spent, bookVars>>

\* Mutant: the trip is reported and nothing is suspended.
PauseGoal_Reports ==
  /\ At(Clock, "pause")
  /\ trail' = NoTrail
  /\ Goto(Clock, "tick")
  /\ UNCHANGED <<goalVars, taskVars, runVars, spent, bookVars>>

\* A trip suspends the goal and clears its trail.
PauseGoal ==
  /\ At(Clock, "pause")
  /\ autonomy' = FALSE
  /\ trail' = NoTrail
  /\ Goto(Clock, "tick")
  /\ UNCHANGED <<goal, iterations, liveUrl, taskVars, runVars, spent, bookVars>>

(***************************************************************************)
(* progressGoal, by the clock or by a person                               *)
(***************************************************************************)

\* Where a process is once progressGoal returned.
Judged(p) == IF p = Clock THEN "tick" ELSE "done"

ReadGoal(p) ==
  /\ At(p, "goal")
  /\ IF goal = "active"
     THEN proc' = [proc EXCEPT ![p].pc = "rows", ![p].liveUrl = liveUrl,
                               ![p].iterations = iterations]
     ELSE Leave(p, Judged(p))
  /\ UNCHANGED <<goalVars, taskVars, runVars, spent, trail, bookVars>>

In(rows, states) == {t \in Tasks : rows[t] \in states}

\* Mutant: every merged task is taken for pure code.
Verifiable_AllMerged(rows) == In(rows, {"merged"})

\* Merged work whose merge is all the verification it needs.
Verifiable(rows) == {t \in In(rows, {"merged"}) : title[t].root \notin RealWorld}

\* Rows a deployed goal verifies.
Deployable(rows) ==
  {t \in In(rows, TaskStates \ {"done"}) : title[t].root \in LiveUrl}

\* Mutant: what has merged counts as verified.
Verdict_MergedIsDone(rows, rounds) ==
  IF In(rows, TaskStates \ {"done", "merged"}) = {} THEN "close"
  ELSE IF \/ In(rows, ACTIVE) # {}
          \/ rounds >= MAX_ITERATIONS
       THEN "leave"
  ELSE "insert"

\* What the judgement of a goal's rows comes to: close it, generate more
\* tasks, or leave it (in flight, awaiting verification, or stuck).
Verdict(rows, rounds) ==
  IF In(rows, TaskStates \ {"done"}) = {} THEN "close"
  ELSE IF \/ In(rows, ACTIVE \cup {"merged"}) # {}
          \/ rounds >= MAX_ITERATIONS
       THEN "leave"
  ELSE "insert"

\* The process goes on with the verdict on the rows it holds.
Decide(p, rows) ==
  LET verdict == Verdict(rows, proc[p].iterations)
  IN  IF verdict = "leave" THEN Leave(p, Judged(p))
      ELSE proc' = [proc EXCEPT ![p] =
                      [Fresh(verdict) EXCEPT !.iterations = proc[p].iterations,
                                             !.todo = In(rows, {"blocked"})]]

\* Promotions come first: merged code, then one task a deploy made live.
JudgeRows(p, rows) ==
  IF Verifiable(rows) # {}
  THEN proc' = [proc EXCEPT ![p].pc = "promote", ![p].seen = rows]
  ELSE IF proc[p].liveUrl /\ Deployable(rows) # {}
  THEN proc' = [proc EXCEPT ![p].pc = "live", ![p].seen = rows]
  ELSE Decide(p, rows)

ReadRows(p) ==
  /\ At(p, "rows")
  /\ IF made = 0 THEN Leave(p, Judged(p)) ELSE JudgeRows(p, task)
  /\ UNCHANGED <<goalVars, taskVars, runVars, spent, trail, bookVars>>

Promote(p) ==
  /\ At(p, "promote")
  /\ \E t \in Verifiable(proc[p].seen) :
       /\ task' = [task EXCEPT ![t] = "done"]
       /\ JudgeRows(p, [proc[p].seen EXCEPT ![t] = "done"])
  /\ UNCHANGED <<goalVars, title, made, runVars, spent, trail, bookVars>>

PromoteLive(p) ==
  /\ At(p, "live")
  /\ \E t \in Deployable(proc[p].seen) :
       /\ task' = [task EXCEPT ![t] = "done"]
       /\ Decide(p, [proc[p].seen EXCEPT ![t] = "done"])
  /\ UNCHANGED <<goalVars, title, made, runVars, spent, trail, bookVars>>

\* The clock also clears the guard's trail of a goal it closed.
CloseGoal(p) ==
  /\ At(p, "close")
  /\ goal' = "done"
  /\ trail' = IF p = Clock THEN NoTrail ELSE trail
  /\ Leave(p, Judged(p))
  /\ UNCHANGED <<autonomy, iterations, liveUrl, taskVars, runVars, spent, bookVars>>

\* retryUnmet: one task for every blocked row, whether a retry itself or not.
InsertRetry(p) ==
  /\ At(p, "insert")
  /\ \E t \in proc[p].todo :
       /\ Insert([root |-> title[t].root, retry |-> TRUE])
       /\ proc' = [proc EXCEPT ![p].todo = @ \ {t}]
  /\ UNCHANGED <<goalVars, runVars, spent, trail, bookVars>>

\* Mutant: the round is not counted.
BumpIterations_Lost(p) ==
  /\ At(p, "insert") /\ proc[p].todo = {}
  /\ Leave(p, Judged(p))
  /\ UNCHANGED <<goalVars, taskVars, runVars, spent, trail, bookVars>>

BumpIterations(p) ==
  /\ At(p, "insert") /\ proc[p].todo = {}
  /\ iterations' = proc[p].iterations + 1
  /\ Leave(p, Judged(p))
  /\ UNCHANGED <<goal, autonomy, liveUrl, taskVars, runVars, spent, trail, bookVars>>

(***************************************************************************)
(* tick, by the clock (autonomousOnly) or by a person                      *)
(***************************************************************************)

ReadOpen(p) ==
  /\ At(p, "tick")
  /\ proc' = [proc EXCEPT ![p].todo = In(task, {"open"}),
                          ![p].pc = IF p = Clock THEN "allow" ELSE "pick"]
  /\ UNCHANGED <<goalVars, taskVars, runVars, spent, trail, bookVars>>

\* allowGoals, read once for the whole tick.
AllowGoals ==
  /\ At(Clock, "allow")
  /\ IF AutonomousGoal THEN Goto(Clock, "pick") ELSE Leave(Clock, "idle")
  /\ UNCHANGED <<goalVars, taskVars, runVars, spent, trail, bookVars>>

ActiveRuns(t) == {id \in RunIds : id[1] = t /\ run[id] = "active"}

\* Mutant: the tick trusts the task's state alone.
PickTask_Blindly(p) ==
  /\ At(p, "pick") /\ proc[p].n < budgetMax
  /\ \E t \in proc[p].todo :
       proc' = [proc EXCEPT ![p].todo = @ \ {t}, ![p].cur = t, ![p].pc = "row"]
  /\ UNCHANGED <<goalVars, taskVars, runVars, spent, trail, bookVars>>

\* One turn of the loop: the next open task is skipped when a run of it is active.
PickTask(p) ==
  /\ At(p, "pick") /\ proc[p].n < budgetMax
  /\ \E t \in proc[p].todo :
       proc' = [proc EXCEPT ![p].todo = @ \ {t},
                            ![p].cur = t,
                            ![p].pc = IF ActiveRuns(t) = {} THEN "row" ELSE "pick"]
  /\ UNCHANGED <<goalVars, taskVars, runVars, spent, trail, bookVars>>

\* Nothing is left, or the budget is: the tick returns.
TickEnds(p) ==
  /\ At(p, "pick")
  /\ proc[p].todo = {} \/ proc[p].n >= budgetMax
  /\ Leave(p, End(p))
  /\ UNCHANGED <<goalVars, taskVars, runVars, spent, trail, bookVars>>

NextId(p) == <<proc[p].cur, proc[p].n>>

\* The id is the primary key: a second row of that id aborts the tick.
InsertRun(p) ==
  /\ At(p, "row")
  /\ IF run[NextId(p)] = "none"
     THEN /\ run' = [run EXCEPT ![NextId(p)] = "active"]
          /\ Goto(p, "flip")
          /\ overspent' = IF spent /\ p = Clock THEN overspent + 1 ELSE overspent
     ELSE /\ Leave(p, End(p))
          /\ UNCHANGED <<run, overspent>>
  /\ UNCHANGED <<goalVars, taskVars, started, unwritten, spent, trail, faults, edits, vouched>>

FlipTask(p) ==
  /\ At(p, "flip")
  /\ task' = [task EXCEPT ![proc[p].cur] = "in_progress"]
  /\ Goto(p, "start")
  /\ UNCHANGED <<goalVars, title, made, runVars, spent, trail, bookVars>>

StartRun(p) ==
  /\ At(p, "start")
  /\ started' = started \cup {NextId(p)}
  /\ proc' = [proc EXCEPT ![p].n = @ + 1, ![p].cur = 0, ![p].pc = "pick"]
  /\ UNCHANGED <<goalVars, taskVars, run, unwritten, spent, trail, bookVars>>

(***************************************************************************)
(* The runs, the people and the faults                                     *)
(***************************************************************************)

\* transitionRun records an outcome in runs ...
RunEnds(id) ==
  /\ id \in started /\ run[id] = "active"
  /\ \E o \in Outcomes :
       /\ run' = [run EXCEPT ![id] = o]
       /\ unwritten' = unwritten \cup {[task |-> id[1], outcome |-> o]}
  /\ UNCHANGED <<goalVars, taskVars, started, spent, trail, proc, bookVars>>

\* ... and a person may land what was held ...
LandHeld(id) ==
  /\ run[id] = "held"
  /\ run' = [run EXCEPT ![id] = "merged"]
  /\ unwritten' = unwritten \cup {[task |-> id[1], outcome |-> "merged"]}
  /\ UNCHANGED <<goalVars, taskVars, started, spent, trail, proc, bookVars>>

\* ... and the task follows in a statement of its own.
RunWritesTask(w) ==
  /\ w \in unwritten
  /\ task' = [task EXCEPT ![w.task] = IF w.outcome = "merged" THEN "merged" ELSE "blocked"]
  /\ unwritten' = unwritten \ {w}
  /\ UNCHANGED <<goalVars, title, made, run, started, spent, trail, proc, bookVars>>

SetAutonomy(on) ==
  /\ edits < MaxEdits /\ autonomy # on
  /\ autonomy' = on /\ edits' = edits + 1
  /\ UNCHANGED <<goal, iterations, liveUrl, taskVars, runVars, spent, trail, proc, faults, vouched, overspent>>

EditTask(t, s) ==
  /\ edits < MaxEdits /\ t <= made /\ task[t] # s
  /\ task' = [task EXCEPT ![t] = s] /\ edits' = edits + 1
  /\ vouched' = IF s = "done" THEN vouched \cup {t} ELSE vouched
  /\ UNCHANGED <<goalVars, title, made, runVars, spent, trail, proc, faults, overspent>>

Deploy ==
  /\ CanDeploy /\ ~liveUrl
  /\ liveUrl' = TRUE
  /\ UNCHANGED <<goal, autonomy, iterations, taskVars, runVars, spent, trail, proc, bookVars>>

CapReached ==
  /\ ~spent /\ spent' = TRUE
  /\ UNCHANGED <<goalVars, taskVars, runVars, trail, proc, bookVars>>

\* A statement or the start of a workflow fails: the process gives up, and
\* what it had written stays.
Fails(p) ==
  /\ faults < MaxFaults /\ proc[p].pc \notin {First(p), End(p)}
  /\ faults' = faults + 1
  /\ Leave(p, End(p))
  /\ UNCHANGED <<goalVars, taskVars, runVars, spent, trail, edits, vouched, overspent>>

\* The server restarts: every process is gone, and the guard's memory too.
Crash ==
  /\ faults < MaxFaults /\ faults' = faults + 1
  /\ proc' = [p \in Procs |-> IF At(p, First(p)) THEN proc[p] ELSE Fresh(End(p))]
  /\ trail' = NoTrail
  /\ UNCHANGED <<goalVars, taskVars, runVars, spent, edits, vouched, overspent>>

PlannerStep(p) == Plan(p) \/ Fill(p) \/ ActivateGoal(p)
ProgressStep(p) ==
  \/ ReadGoal(p) \/ ReadRows(p) \/ Promote(p) \/ PromoteLive(p)
  \/ CloseGoal(p) \/ InsertRetry(p) \/ BumpIterations(p)
TickStep(p) ==
  \/ ReadOpen(p) \/ PickTask(p) \/ TickEnds(p)
  \/ InsertRun(p) \/ FlipTask(p) \/ StartRun(p)
CycleStep ==
  \/ CycleStart \/ CycleBudget \/ ListGoals \/ CycleGuard \/ PauseGoal
  \/ AllowGoals
RunStep ==
  \/ \E id \in RunIds : RunEnds(id) \/ LandHeld(id)
  \/ \E w \in unwritten : RunWritesTask(w)
PeopleStep ==
  \/ \E on \in BOOLEAN : SetAutonomy(on)
  \/ \E t \in Tasks, s \in EditStates : EditTask(t, s)
  \/ Deploy
Fault == Crash \/ \E p \in Procs : Fails(p)

Step ==
  \/ \E p \in Procs : PlannerStep(p) \/ ProgressStep(p) \/ TickStep(p)
  \/ CycleStep \/ RunStep \/ PeopleStep \/ CapReached \/ Fault

\* Checks of the guard since its trail was cleared or a task changed.
CountQuiet ==
  quiet' = IF task' # task \/ trail'.n = 0 THEN 0
           ELSE IF trail'.n > trail.n THEN quiet + 1 ELSE quiet

Next == Step /\ CountQuiet

Spec == Init /\ [][Next]_vars

ClockStep == CycleStep \/ ProgressStep(Clock) \/ TickStep(Clock)

\* The timer fires again and again and a cycle that is not disturbed goes on.
FairSpec == Spec /\ WF_vars(ClockStep /\ CountQuiet)

(***************************************************************************)
(* Properties                                                              *)
(***************************************************************************)

TypeOK ==
  /\ goal \in {"open", "active", "done"} /\ autonomy \in BOOLEAN
  /\ iterations \in 0..MAX_ITERATIONS /\ liveUrl \in BOOLEAN
  /\ task \in Rows /\ title \in [Tasks -> Titles] /\ made \in 0..MaxTasks
  /\ \A t \in Tasks : task[t] = "none" <=> t > made
  /\ run \in [RunIds -> Outcomes \cup {"none", "active", "merged"}]
  /\ started \subseteq {id \in RunIds : run[id] # "none"}
  /\ unwritten \subseteq [task : Tasks, outcome : Outcomes \cup {"merged"}]
  /\ spent \in BOOLEAN
  /\ trail.n \in 0..(maxIterations + 1 + MaxFaults)
  /\ trail.last \in Seq([Titles -> 0..MaxTasks]) /\ Len(trail.last) <= repeatWindow
  /\ \A p \in Procs :
       /\ proc[p].seen \in Rows
       /\ proc[p].todo \subseteq Tasks \cup Roots
       /\ proc[p].cur \in 0..made /\ proc[p].n \in 0..budgetMax
       /\ At(p, "row") \/ At(p, "flip") \/ At(p, "start") =>
            proc[p].cur # 0 /\ proc[p].n < budgetMax
  /\ faults \in 0..MaxFaults /\ edits \in 0..MaxEdits
  /\ vouched \subseteq Tasks
  /\ overspent \in Nat /\ quiet \in 0..trail.n

\* A task is never worked on by two runs at once (tick.ts:53-56).
OneActiveRun == \A t \in Tasks : Cardinality(ActiveRuns(t)) <= 1

\* Every round at most doubles the tasks, only MAX_ITERATIONS rounds count,
\* and a fault loses at most the count of the round it interrupts
\* (progress.ts:15, 94-111).
GenerationBounded ==
  made <= Cardinality(Roots) * 2^(MAX_ITERATIONS + faults)

\* A task that touches the real world is done only when a person said so or
\* the goal was deployed, however its runs end (progress.ts:57-67).
RealWorldVerified ==
  \A t \in In(task, {"done"}) :
    title[t].root \in RealWorld => t \in vouched \/ liveUrl

\* Once the cap is reached the clock dispatches at most what the tick already
\* under way may (scheduler.ts:54-60).
OverspendBounded == overspent <= budgetMax

\* An autonomous goal stays within its bounds, whoever judges it at the same time:
\* the tasks of a goal and the runs dispatched beyond the cap (TypeOK bounds the rest).
AutonomyBounded == TypeOK /\ GenerationBounded /\ OverspendBounded

\* After repeatWindow checks during which no task changed the clock does not
\* judge the goal again (loop-guard.ts:31-34).
StallIsCaught ==
  quiet >= repeatWindow =>
    proc[Clock].pc \notin {"goal", "rows", "promote", "live", "close", "insert"}

\* Left alone by people, an autonomous goal is closed or suspended in the end
\* (scheduler.ts:14-15).
AutonomyStops == AutonomousGoal ~> ~AutonomousGoal

\* Not kept when a deploy overtakes a run, see README section 6: a goal that is
\* done has only tasks that are done, "the goal's state is a pure function of its
\* tasks' states" (progress.ts:13).
DoneGoalIsMet == goal = "done" => In(task, TaskStates \ {"done"}) = {}

\* A criterion one of whose tasks is done is no gap to generate a retry for
\* (progress.ts:6-8, 25-26).
RetriesOnlyTheGap ==
  \A p \in Procs : At(p, "insert") =>
    \A t \in proc[p].todo, u \in In(task, {"done"}) : title[t].root # title[u].root

\* Not kept when a task is cancelled, see README section 6: a round of generation
\* starts from at least one blocked task, "the blocked tasks are the gap"
\* (progress.ts:93).
RoundsHaveGap ==
  [][\A p \in Procs : ~At(p, "insert") /\ proc'[p].pc = "insert"
       => proc'[p].todo # {}]_vars

\* The guard suspends for repetition only a goal none of whose tasks changed
\* since the first of the cycles it compares (scheduler.ts:14-15).
TripMeansNoProgress ==
  [][At(Clock, "guard") /\ proc'[Clock].pc = "pause" /\ trail'.n <= maxIterations
       => quiet' >= repeatWindow]_vars

\* Not kept when a task is reopened, see README section 6: an open task without an
\* active run can be dispatched (tick.ts:26-28).
DispatchHasFreshRun ==
  \A p \in Procs : At(p, "row") => run[NextId(p)] = "none"

\* Not kept with two callers, see README section 6: a goal is decomposed once,
\* however often it is asked for (goals.ts:38-39).
PlannedOnce ==
  \A r \in Roots :
    Cardinality({t \in Tasks : title[t] = [root |-> r, retry |-> FALSE]}) <= 1

Contract == INSTANCE GoalContract WITH verified <- In(task, {"done"})

\* Without deploys, edits and manual triggers the loop keeps the goal contract,
\* although it reads, judges and closes in separate statements.
KeepsContract == Contract!Spec

=============================================================================
