------------------------- MODULE GoalLoopInvariant -------------------------
(***************************************************************************)
(* The inductive invariants of GoalLoop, in parts:                         *)
(*                                                                         *)
(*   Shape, TodoKinds  the kinds of what is stored and of what a process   *)
(*                     remembers;                                          *)
(*   SawDeploy         a process that promotes a live task saw the deploy; *)
(*   PickStillTrue     what the clock found of a task holds at its insert, *)
(*                     when only the clock dispatches (ClockDispatches);   *)
(*   Existing, Known   a task, run or outcome anybody refers to exists;    *)
(*   Within            the counters and dials that have a limit;           *)
(*   Watching          the guard's last records describe the goal as it is,*)
(*                     as many as there were checks without a change;      *)
(*   Capped            what the clock overspent, by where it is;           *)
(*   Growing           how far a round under way may still grow the goal;  *)
(*   Roles, RunsTracked, TickTracked, JudgeTracked, PlanTracked (Tracked): *)
(*                     who works on the goal, which task a run, an outcome *)
(*                     or the clock's tick is about, and what the rows the *)
(*                     clock judged say of the tasks by now.               *)
(*                                                                         *)
(* Growing holds for one decomposition and no judgement by hand; Tracked   *)
(* also needs that nobody dispatches by hand, edits a task, deploys or     *)
(* holds a run.                                                            *)
(***************************************************************************)
EXTENDS GoalLoop

\* Powers of two, which the provers know nothing about.
ASSUME PowersAssumption ==
  \A k \in 0..(MAX_ITERATIONS + MaxFaults) :
    /\ 2^k \in Nat \ {0} /\ 2^(k + 1) = 2 * 2^k
    /\ \A j \in 0..k : 2^j <= 2^k

PCs == {"idle", "budget", "list", "guard", "pause", "goal", "rows", "promote",
        "live", "close", "insert", "tick", "allow", "pick", "row", "flip",
        "start", "plan", "fill", "done"}
ProgressPcs == {"goal", "rows", "promote", "live", "close", "insert"}

Locals == [pc : PCs, seen : Rows, todo : SUBSET (Tasks \cup Roots),
           cur : Nat, n : Nat, iterations : Nat, liveUrl : BOOLEAN]

Shape ==
  /\ made \in Nat /\ iterations \in Nat /\ liveUrl \in BOOLEAN
  /\ task \in Rows
  /\ title \in [Tasks -> Titles]
  /\ run \in [RunIds -> {"none", "active", "merged", "failed", "held"}]
  /\ proc \in [Procs -> Locals]

\* The criteria to plan are told apart from the tasks to go through.
TodoKinds ==
  \A p \in Procs :
    proc[p].todo \subseteq (IF At(p, "fill") THEN Roots ELSE Tasks)

\* A process that is about to promote a live task saw the goal deployed.
SawDeploy ==
  \A p \in Procs :
    /\ proc[p].liveUrl => liveUrl
    /\ At(p, "live") => proc[p].liveUrl

\* Only the clock dispatches, ...
ClockDispatches ==
  \A p \in Procs \ {Clock} :
    proc[p].pc \in {"plan", "fill", "goal", "rows", "promote", "live", "close",
                    "insert", "done"}

\* ... and what it found when it picked a task is true until it inserts.
PickStillTrue ==
  At(Clock, "row") => \A id \in RunIds : id[1] = proc[Clock].cur => run[id] # "active"

Exclusive ==
  \A x, y \in RunIds : x[1] = y[1] /\ run[x] = "active" /\ run[y] = "active" => x = y

VerifiedInv == Shape /\ TodoKinds /\ SawDeploy /\ RealWorldVerified
DispatchInv == Shape /\ TodoKinds /\ ClockDispatches /\ PickStillTrue /\ Exclusive

-----------------------------------------------------------------------------
(***************************************************************************)
(* The bounds of the loop                                                  *)
(***************************************************************************)

\* The rows are numbered 1..made, and a run or an outcome is of one of them.
Existing ==
  /\ made <= MaxTasks
  /\ \A t \in Tasks : task[t] = "none" <=> t > made
  /\ \A id \in RunIds : run[id] # "none" => id[1] <= made
  /\ run \in [RunIds -> Outcomes \cup {"none", "active", "merged"}]
  /\ started \subseteq {id \in RunIds : run[id] # "none"}
  /\ unwritten \subseteq [task : 1..made, outcome : Outcomes \cup {"merged"}]

\* What process p remembers is of tasks that exist, within the limits it checked.
Known(p) ==
  /\ \A t \in Tasks : proc[p].seen[t] # "none" => t <= made
  /\ ~At(p, "fill") => proc[p].todo \subseteq 1..made
  /\ proc[p].cur <= made /\ proc[p].n <= budgetMax
  /\ proc[p].pc \in {"row", "flip", "start"} => proc[p].cur # 0 /\ proc[p].n < budgetMax
  /\ proc[p].pc \in {"flip", "start"} => run[NextId(p)] # "none"
  /\ At(p, "insert") => proc[p].iterations < MAX_ITERATIONS

Within ==
  /\ goal \in {"open", "active", "done"} /\ autonomy \in BOOLEAN /\ spent \in BOOLEAN
  /\ iterations <= MAX_ITERATIONS
  /\ faults \in 0..MaxFaults /\ edits \in 0..MaxEdits
  /\ vouched \subseteq Tasks

\* The last quiet entries of the trail are the fingerprint the goal has now.
Watching ==
  /\ trail.n \in Nat /\ trail.last \in Seq([Titles -> 0..MaxTasks])
  /\ Len(trail.last) = IF trail.n < repeatWindow THEN trail.n ELSE repeatWindow
  /\ quiet \in 0..trail.n
  /\ trail.n <= maxIterations + faults + (IF At(Clock, "pause") THEN 1 ELSE 0)
  /\ \A i \in 1..Len(trail.last) :
       i + quiet > Len(trail.last) => trail.last[i] = Fingerprint
  /\ StallIsCaught

\* Before the tick nothing is overspent, in it at most a run for each dispatch.
Capped ==
  /\ overspent \in 0..budgetMax
  /\ ~spent => overspent = 0
  /\ proc[Clock].pc \in {"list", "guard", "pause", "tick", "allow"} \cup ProgressPcs
       => overspent = 0
  /\ proc[Clock].pc \in {"pick", "row"} => overspent <= proc[Clock].n
  /\ proc[Clock].pc \in {"flip", "start"} => overspent <= proc[Clock].n + 1

BoundedInv ==
  /\ VerifiedInv /\ Existing /\ (\A p \in Procs : Known(p))
  /\ Within /\ Watching /\ Capped

\* The tasks of a goal after k rounds, at most.
Room(k) == Cardinality(Roots) * 2^k

\* Only the planner and the clock are at work on the goal, ...
OneJudge ==
  \A p \in Procs :
    /\ proc[p].pc \in {"plan", "fill"} => p \in Planners
    /\ proc[p].pc \in ProgressPcs => p = Clock
    /\ At(p, "plan") => made = 0
    /\ At(p, "fill") =>
         goal = "open" /\ made + Cardinality(proc[p].todo) <= Cardinality(Roots)

\* ... and the clock counts from the round it read.
Growing ==
  /\ OneJudge
  /\ proc[Clock].pc \in ProgressPcs \ {"goal"} =>
       goal # "open" /\ proc[Clock].iterations = iterations
  /\ ~At(Clock, "insert") => made <= Room(iterations + faults)
  /\ At(Clock, "insert") =>
       made + Cardinality(proc[Clock].todo) <= Room(iterations + faults + 1)

-----------------------------------------------------------------------------
(***************************************************************************)
(* One decomposition, one clock, and nobody's hand on the tasks            *)
(***************************************************************************)

TickingPcs == {"tick", "allow", "pick", "row", "flip", "start"}

\* Who plans, who judges and who dispatches.
Roles ==
  \A p \in Procs :
    /\ proc[p].pc \in {"plan", "fill"} => p \in Planners
    /\ proc[p].pc \in ProgressPcs \cup TickingPcs => p = Clock

\* A task has one run at most; it is under way until the task has its outcome.
RunsTracked ==
  /\ \A id \in RunIds : run[id] # "none" /\ id \notin started => run[id] = "active"
  /\ \A x, y \in RunIds : x[1] = y[1] /\ run[x] # "none" /\ run[y] # "none" => x = y
  /\ \A id \in started : /\ task[id[1]] # "open"
                         /\ run[id] = "active" => task[id[1]] = "in_progress"
  /\ \A w \in unwritten :
       /\ task[w.task] = "in_progress"
       /\ \E id \in RunIds : id[1] = w.task /\ run[id] = w.outcome

\* What the clock's tick has still to dispatch is open, what it dispatches had
\* no run before.
TickTracked ==
  /\ proc[Clock].pc \in {"allow", "pick", "row", "flip", "start"} =>
       \A t \in proc[Clock].todo : task[t] = "open"
  /\ proc[Clock].pc \in {"row", "flip", "start"} =>
       /\ proc[Clock].cur \notin proc[Clock].todo
       /\ NextId(Clock) \notin started
       /\ task[proc[Clock].cur] = IF At(Clock, "start") THEN "in_progress" ELSE "open"
  /\ At(Clock, "row") => \A id \in RunIds : id[1] = proc[Clock].cur => run[id] = "none"

\* The clock judges an active goal, on rows that only gained outcomes since.
JudgeTracked ==
  /\ proc[Clock].pc \in ProgressPcs \ {"goal"} => goal = "active"
  /\ At(Clock, "promote") => \A t \in Tasks :
       /\ proc[Clock].seen[t] = "none" => task[t] = "none"
       /\ proc[Clock].seen[t] \in {"merged", "done"} => task[t] = proc[Clock].seen[t]
  /\ At(Clock, "close") => \A t \in Tasks : task[t] \in {"none", "done"}

PlanTracked ==
  \A p \in Procs : At(p, "fill") => goal = "open" /\ (made > 0 \/ proc[p].todo = Roots)

Tracked ==
  ~liveUrl /\ Roles /\ RunsTracked /\ TickTracked /\ JudgeTracked /\ PlanTracked

=============================================================================
