--------------------------- MODULE GoalLoopProofs ---------------------------
(***************************************************************************)
(* What holds of the autonomous loop for every number of criteria, tasks,  *)
(* requests, edits and faults.                                             *)
(*                                                                         *)
(* RealWorldVerified follows from what a process remembers of the deploy.  *)
(* OneActiveRun is not inductive: it rests on the clock being the only     *)
(* process that inserts runs, so that what it found of a task (no active   *)
(* run) is still true at its insert.                                       *)
(*                                                                         *)
(* StallIsCaught needs the bounds of everything the guard's fingerprint    *)
(* counts, and that only the guard lets the clock judge.  AutonomyBounded  *)
(* adds the argument that a round at most doubles the tasks and that a     *)
(* round a fault interrupted is paid for by the fault.  KeepsContract      *)
(* maps every step to a step of GoalContract or to none: a task is tracked *)
(* from the tick that picks it to the outcome its one run writes, so that  *)
(* nothing the clock saw done is undone before it closes the goal.         *)
(***************************************************************************)
EXTENDS GoalLoopInvariant, FiniteSetTheorems, SequenceTheorems, TLAPS

\* What a step of process p leaves of the processes, ...
Moves(p) ==
  /\ proc' \in [Procs -> Locals] /\ TodoKinds'
  /\ \A q \in Procs \ {p} : proc'[q] = proc[q]
  /\ proc'[p].liveUrl => proc[p].liveUrl \/ liveUrl
  /\ proc'[p].pc = "live" => proc'[p].liveUrl

\* ... and which tasks it may have done.
KeepsData(p) ==
  /\ liveUrl' = liveUrl /\ vouched' = vouched
  /\ \A t \in Tasks : task'[t] = "done" =>
       /\ title'[t] = title[t]
       /\ task[t] = "done" \/ title[t].root \notin RealWorld \/ proc[p].liveUrl

USE DEF At, Goto, Leave

-----------------------------------------------------------------------------
\* What the operators of the judgement return.

LEMMA FreshLocals ==
  ASSUME NEW at \in PCs
  PROVE  /\ Fresh(at) \in Locals /\ Fresh(at).pc = at /\ Fresh(at).todo = {}
         /\ Fresh(at).liveUrl = FALSE /\ Fresh(at).cur = 0
BY DEF Fresh, Locals, Rows, TaskStates

LEMMA VerdictKinds ==
  ASSUME NEW rows, NEW rounds
  PROVE  Verdict(rows, rounds) \in {"close", "leave", "insert"}
BY DEF Verdict

LEMMA InTasks == ASSUME NEW rows, NEW S PROVE In(rows, S) \subseteq Tasks
BY DEF In

-----------------------------------------------------------------------------
(***************************************************************************)
(* How a step changes its process                                          *)
(***************************************************************************)

LEMMA InitShape == Init => Shape /\ TodoKinds
<1> SUFFICES ASSUME Init PROVE Shape /\ TodoKinds
  OBVIOUS
<1>1. \A p \in Procs : First(p) \in PCs
  BY DEF First, PCs
<1>2. proc \in [Procs -> Locals] /\ TodoKinds
  BY <1>1, FreshLocals DEF Init, TodoKinds
<1>3. title \in [Tasks -> Titles] /\ task \in Rows
  BY DEF Init, Titles, NoTitle, Rows, TaskStates
<1> QED BY <1>2, <1>3 DEF Init, Shape

\* A process that goes on with a record of the right kind moves, ...
LEMMA LoopShape ==
  ASSUME Shape, TodoKinds, NEW p \in Procs, NEW r \in Locals,
         proc' = [proc EXCEPT ![p] = r],
         r.todo \subseteq (IF r.pc = "fill" THEN Roots ELSE Tasks),
         r.liveUrl => proc[p].liveUrl \/ liveUrl,
         r.pc = "live" => r.liveUrl
  PROVE  Moves(p) /\ proc'[p] = r
<1>1. \A q \in Procs \ {p} : proc'[q] = proc[q]
  BY DEF Shape
<1>2. proc'[p] = r
  BY DEF Shape
<1>3. proc' \in [Procs -> Locals]
  BY DEF Shape
<1>4. TodoKinds'
  BY <1>1, <1>2 DEF TodoKinds
<1> QED BY <1>1, <1>2, <1>3, <1>4 DEF Moves

\* ... so one that only goes elsewhere, ...
LEMMA GotoShape ==
  ASSUME Shape, TodoKinds, NEW p \in Procs, NEW at \in PCs \ {"fill", "live"},
         Goto(p, at), ~At(p, "fill")
  PROVE  /\ Moves(p)
         /\ proc'[p].pc = at /\ proc'[p].cur = proc[p].cur /\ proc'[p].n = proc[p].n
<1> DEFINE r == [proc[p] EXCEPT !.pc = at]
<1>1. proc[p] \in Locals /\ proc[p].todo \subseteq Tasks
  BY DEF Shape, TodoKinds
<1>2. proc' = [proc EXCEPT ![p] = r]
  BY <1>1 DEF Shape, Locals
<1>3. /\ r \in Locals /\ r.pc = at /\ r.todo = proc[p].todo
      /\ r.liveUrl = proc[p].liveUrl /\ r.cur = proc[p].cur /\ r.n = proc[p].n
  BY <1>1 DEF Locals
<1>4. /\ r.todo \subseteq (IF r.pc = "fill" THEN Roots ELSE Tasks)
      /\ r.pc # "live" /\ (r.liveUrl => proc[p].liveUrl)
  BY <1>1, <1>3
<1> HIDE DEF r
<1>5. Moves(p) /\ proc'[p] = r
  BY <1>2, <1>3, <1>4, LoopShape
<1> QED BY <1>3, <1>5

\* ... and one that leaves.
LEMMA LeaveShape ==
  ASSUME Shape, TodoKinds, NEW p \in Procs, NEW at \in PCs \ {"live"}, Leave(p, at)
  PROVE  Moves(p) /\ proc'[p].pc = at
<1>1. proc' = [proc EXCEPT ![p] = Fresh(at)]
  OBVIOUS
<1>2. /\ Fresh(at) \in Locals /\ Fresh(at).todo = {} /\ Fresh(at).pc = at
      /\ Fresh(at).liveUrl = FALSE
  BY FreshLocals
<1>3. Moves(p) /\ proc'[p] = Fresh(at)
  BY <1>1, <1>2, LoopShape
<1> QED BY <1>2, <1>3

\* A judgement leaves, or goes on to one of four steps.
LEMMA DecideShape ==
  ASSUME Shape, TodoKinds, NEW p \in Procs, NEW rows \in Rows, Decide(p, rows)
  PROVE  Moves(p) /\ proc'[p].pc \in {"close", "insert", Judged(p)}
<1> DEFINE v == Verdict(rows, proc[p].iterations)
<1>0. proc[p] \in Locals
  BY DEF Shape
<1>1. CASE v = "leave"
  <2>1. Leave(p, Judged(p))
    BY <1>1 DEF Decide
  <2>2. Judged(p) \in PCs /\ Judged(p) # "live"
    BY DEF Judged, PCs
  <2> QED BY <2>1, <2>2, LeaveShape
<1>2. CASE v # "leave"
  <2>1. v \in {"close", "insert"}
    BY <1>2, VerdictKinds
  <2> DEFINE r == [Fresh(v) EXCEPT !.iterations = proc[p].iterations,
                                   !.todo = In(rows, {"blocked"})]
  <2>2. proc' = [proc EXCEPT ![p] = r]
    BY <1>2 DEF Decide
  <2>3. /\ r \in Locals /\ r.pc = v /\ r.todo = In(rows, {"blocked"})
        /\ r.liveUrl = FALSE
    BY <1>0, <2>1, InTasks DEF Fresh, Locals, Rows, TaskStates, PCs
  <2>4. r.todo \subseteq (IF r.pc = "fill" THEN Roots ELSE Tasks)
    BY <2>1, <2>3, InTasks
  <2> HIDE DEF r
  <2>5. Moves(p) /\ proc'[p] = r
    BY <2>1, <2>2, <2>3, <2>4, LoopShape
  <2> QED BY <2>1, <2>3, <2>5
<1> QED BY <1>1, <1>2

LEMMA JudgeRowsShape ==
  ASSUME Shape, TodoKinds, NEW p \in Procs, NEW rows \in Rows, JudgeRows(p, rows),
         ~At(p, "fill")
  PROVE  Moves(p) /\ proc'[p].pc \in {"promote", "live", "close", "insert", Judged(p)}
<1>0. proc[p] \in Locals /\ proc[p].todo \subseteq Tasks
  BY DEF Shape, TodoKinds
<1>1. CASE Verifiable(rows) # {}
  <2> DEFINE r == [proc[p] EXCEPT !.pc = "promote", !.seen = rows]
  <2>1. proc' = [proc EXCEPT ![p] = r]
    BY <1>0, <1>1 DEF JudgeRows, Shape, Locals
  <2>2. /\ r \in Locals /\ r.pc = "promote" /\ r.todo = proc[p].todo
        /\ r.liveUrl = proc[p].liveUrl
    BY <1>0 DEF Locals, PCs
  <2> HIDE DEF r
  <2>3. Moves(p) /\ proc'[p] = r
    BY <1>0, <2>1, <2>2, LoopShape
  <2> QED BY <2>2, <2>3
<1>2. CASE Verifiable(rows) = {} /\ proc[p].liveUrl /\ Deployable(rows) # {}
  <2> DEFINE r == [proc[p] EXCEPT !.pc = "live", !.seen = rows]
  <2>1. proc' = [proc EXCEPT ![p] = r]
    <3>1. proc' = [proc EXCEPT ![p].pc = "live", ![p].seen = rows]
      BY <1>2 DEF JudgeRows
    <3> QED BY <3>1 DEF Shape
  <2>2. /\ r \in Locals /\ r.pc = "live" /\ r.todo = proc[p].todo
        /\ r.liveUrl = proc[p].liveUrl
    BY <1>0 DEF Locals, PCs
  <2> HIDE DEF r
  <2>3. Moves(p) /\ proc'[p] = r
    BY <1>0, <1>2, <2>1, <2>2, LoopShape
  <2> QED BY <2>2, <2>3
<1>3. CASE Verifiable(rows) = {} /\ ~(proc[p].liveUrl /\ Deployable(rows) # {})
  <2>1. Decide(p, rows)
    BY <1>3 DEF JudgeRows
  <2> QED BY <2>1, DecideShape
<1> QED BY <1>1, <1>2, <1>3

LEMMA InsertShape ==
  ASSUME Shape, NEW ti \in Titles, Insert(ti)
  PROVE  /\ made' \in Nat /\ task' \in Rows /\ title' \in [Tasks -> Titles]
         /\ \A t \in Tasks : task'[t] = "done" =>
              task[t] = "done" /\ title'[t] = title[t]
<1>1. made + 1 \in Tasks
  BY LimitsAssumption DEF Insert, Shape, Tasks
<1> QED BY <1>1 DEF Insert, Shape, Rows, TaskStates

-----------------------------------------------------------------------------
(***************************************************************************)
(* What the steps of a process do, in the three loops of the code          *)
(***************************************************************************)

LEMMA PlannerShape ==
  ASSUME Shape, TodoKinds, NEW p \in Procs, PlannerStep(p)
  PROVE  /\ Shape' /\ Moves(p) /\ KeepsData(p) /\ run' = run
         /\ proc[p].pc \in {"plan", "fill"} /\ proc'[p].pc \in {"fill", "done"}
<1>0. proc[p] \in Locals
  BY DEF Shape
<1>1. CASE Plan(p)
  <2>1. UNCHANGED <<goalVars, taskVars, runVars, bookVars>> /\ proc[p].pc = "plan"
    BY <1>1 DEF Plan
  <2>2. CASE goal = "open"
    <3> DEFINE r == [proc[p] EXCEPT !.pc = "fill", !.todo = Roots]
    <3>1. proc' = [proc EXCEPT ![p] = r]
      BY <1>1, <2>2, <1>0 DEF Plan, Shape, Locals
    <3>2. /\ r \in Locals /\ r.todo = Roots /\ r.pc = "fill"
          /\ r.liveUrl = proc[p].liveUrl
      BY <1>0 DEF Locals, PCs
    <3> HIDE DEF r
    <3>3. Moves(p) /\ proc'[p] = r
      BY <3>1, <3>2, LoopShape
    <3> QED BY <2>1, <3>2, <3>3
            DEF Moves, KeepsData, Shape, goalVars, taskVars, runVars, bookVars
  <2>3. CASE goal # "open"
    <3>1. Leave(p, "done") /\ "done" \in PCs \ {"live"}
      BY <1>1, <2>3 DEF Plan, PCs
    <3>2. Moves(p) /\ proc'[p].pc = "done"
      BY <3>1, LeaveShape
    <3> QED BY <2>1, <3>2
            DEF Moves, KeepsData, Shape, goalVars, taskVars, runVars, bookVars
  <2> QED BY <2>2, <2>3
<1>2. CASE Fill(p)
  <2>1. PICK c \in proc[p].todo :
          /\ Insert([root |-> c, retry |-> FALSE])
          /\ proc' = [proc EXCEPT ![p].todo = @ \ {c}]
    BY <1>2 DEF Fill
  <2>2. c \in Roots /\ proc[p].pc = "fill" /\ proc[p].todo \subseteq Roots
    BY <1>2 DEF TodoKinds, Fill
  <2> DEFINE r == [proc[p] EXCEPT !.todo = @ \ {c}]
  <2>3. /\ r \in Locals /\ r.todo \subseteq Roots /\ r.pc = "fill"
        /\ r.liveUrl = proc[p].liveUrl
    BY <1>0, <2>2 DEF Locals
  <2>4. proc' = [proc EXCEPT ![p] = r]
    BY <2>1, <1>0 DEF Shape, Locals
  <2> HIDE DEF r
  <2>5. Moves(p) /\ proc'[p] = r
    BY <2>3, <2>4, LoopShape
  <2>6. [root |-> c, retry |-> FALSE] \in Titles
    BY <2>2 DEF Titles
  <2>7. /\ made' \in Nat /\ task' \in Rows /\ title' \in [Tasks -> Titles]
        /\ \A t \in Tasks : task'[t] = "done" =>
             task[t] = "done" /\ title'[t] = title[t]
    BY <2>1, <2>6, InsertShape
  <2>8. UNCHANGED <<goalVars, runVars, bookVars>>
    BY <1>2 DEF Fill
  <2> QED BY <2>2, <2>3, <2>5, <2>7, <2>8
          DEF Moves, KeepsData, Shape, goalVars, runVars, bookVars
<1>3. CASE ActivateGoal(p)
  <2>1. Leave(p, "done") /\ "done" \in PCs \ {"live"} /\ proc[p].pc = "fill"
    BY <1>3 DEF ActivateGoal, PCs
  <2>2. Moves(p) /\ proc'[p].pc = "done"
    BY <2>1, LeaveShape
  <2>3. UNCHANGED <<iterations, liveUrl, taskVars, runVars, bookVars>>
    BY <1>3 DEF ActivateGoal
  <2> QED BY <2>1, <2>2, <2>3 DEF Moves, KeepsData, Shape, taskVars, runVars, bookVars
<1> QED BY <1>1, <1>2, <1>3 DEF PlannerStep

LEMMA ProgressShape ==
  ASSUME Shape, TodoKinds, SawDeploy, NEW p \in Procs, ProgressStep(p)
  PROVE  /\ Shape' /\ Moves(p) /\ KeepsData(p) /\ run' = run
         /\ proc[p].pc \in ProgressPcs
         /\ proc'[p].pc \in ProgressPcs \cup {Judged(p)}
<1>0. proc[p] \in Locals
  BY DEF Shape
<1>j. Judged(p) \in PCs \ {"live"}
  BY DEF Judged, PCs
<1>1. CASE ReadGoal(p)
  <2>1. UNCHANGED <<goalVars, taskVars, runVars, bookVars>> /\ proc[p].pc = "goal"
    BY <1>1 DEF ReadGoal
  <2>2. CASE goal = "active"
    <3> DEFINE r == [proc[p] EXCEPT !.pc = "rows", !.liveUrl = liveUrl,
                                    !.iterations = iterations]
    <3>1. proc' = [proc EXCEPT ![p] = r]
      BY <1>1, <2>2, <1>0 DEF ReadGoal, Shape, Locals
    <3>2. /\ r \in Locals /\ r.todo = proc[p].todo /\ r.pc = "rows"
          /\ r.liveUrl = liveUrl
      BY <1>0 DEF Locals, PCs, Shape
    <3>3. proc[p].todo \subseteq Tasks
      BY <2>1 DEF TodoKinds
    <3> HIDE DEF r
    <3>4. Moves(p) /\ proc'[p] = r
      BY <3>1, <3>2, <3>3, LoopShape
    <3> QED BY <2>1, <3>2, <3>4
            DEF Moves, KeepsData, Shape, goalVars, taskVars, runVars, bookVars, ProgressPcs
  <2>3. CASE goal # "active"
    <3>1. Leave(p, Judged(p))
      BY <1>1, <2>3 DEF ReadGoal
    <3>2. Moves(p) /\ proc'[p].pc = Judged(p)
      BY <3>1, <1>j, LeaveShape
    <3> QED BY <2>1, <3>2
            DEF Moves, KeepsData, Shape, goalVars, taskVars, runVars, bookVars, ProgressPcs
  <2> QED BY <2>2, <2>3
<1>2. CASE ReadRows(p)
  <2>1. UNCHANGED <<goalVars, taskVars, runVars, bookVars>> /\ proc[p].pc = "rows"
    BY <1>2 DEF ReadRows
  <2>2. CASE made = 0
    <3>1. Leave(p, Judged(p))
      BY <1>2, <2>2 DEF ReadRows
    <3>2. Moves(p) /\ proc'[p].pc = Judged(p)
      BY <3>1, <1>j, LeaveShape
    <3> QED BY <2>1, <3>2
            DEF Moves, KeepsData, Shape, goalVars, taskVars, runVars, bookVars, ProgressPcs
  <2>3. CASE made # 0
    <3>1. JudgeRows(p, task) /\ task \in Rows
      BY <1>2, <2>3 DEF ReadRows, Shape
    <3>2. Moves(p) /\ proc'[p].pc \in {"promote", "live", "close", "insert", Judged(p)}
      BY <2>1, <3>1, JudgeRowsShape
    <3> QED BY <2>1, <3>2
            DEF Moves, KeepsData, Shape, goalVars, taskVars, runVars, bookVars, ProgressPcs
  <2> QED BY <2>2, <2>3
<1>3. CASE Promote(p)
  <2>1. PICK t \in Verifiable(proc[p].seen) :
          /\ task' = [task EXCEPT ![t] = "done"]
          /\ JudgeRows(p, [proc[p].seen EXCEPT ![t] = "done"])
    BY <1>3 DEF Promote
  <2>2. UNCHANGED <<goalVars, title, made, runVars, bookVars>> /\ proc[p].pc = "promote"
    BY <1>3 DEF Promote
  <2>3. t \in Tasks /\ title[t].root \notin RealWorld
    BY DEF Verifiable, In
  <2>4. [proc[p].seen EXCEPT ![t] = "done"] \in Rows
    BY <1>0, <2>3 DEF Locals, Rows, TaskStates
  <2>5. Moves(p) /\ proc'[p].pc \in {"promote", "live", "close", "insert", Judged(p)}
    BY <2>1, <2>2, <2>4, JudgeRowsShape
  <2>6. task' \in Rows /\ \A u \in Tasks \ {t} : task'[u] = task[u]
    BY <2>1, <2>3 DEF Shape, Rows, TaskStates
  <2> QED BY <2>2, <2>3, <2>5, <2>6
          DEF Moves, KeepsData, Shape, goalVars, runVars, bookVars, ProgressPcs
<1>4. CASE PromoteLive(p)
  <2>1. PICK t \in Deployable(proc[p].seen) :
          /\ task' = [task EXCEPT ![t] = "done"]
          /\ Decide(p, [proc[p].seen EXCEPT ![t] = "done"])
    BY <1>4 DEF PromoteLive
  <2>2. UNCHANGED <<goalVars, title, made, runVars, bookVars>> /\ proc[p].pc = "live"
    BY <1>4 DEF PromoteLive
  <2>3. t \in Tasks
    BY DEF Deployable, In
  <2>4. [proc[p].seen EXCEPT ![t] = "done"] \in Rows
    BY <1>0, <2>3 DEF Locals, Rows, TaskStates
  <2>5. Moves(p) /\ proc'[p].pc \in {"close", "insert", Judged(p)}
    BY <2>1, <2>4, DecideShape
  <2>6. task' \in Rows /\ \A u \in Tasks \ {t} : task'[u] = task[u]
    BY <2>1, <2>3 DEF Shape, Rows, TaskStates
  <2>7. proc[p].liveUrl
    BY <2>2 DEF SawDeploy
  <2> QED BY <2>2, <2>5, <2>6, <2>7
          DEF Moves, KeepsData, Shape, goalVars, runVars, bookVars, ProgressPcs
<1>5. CASE CloseGoal(p)
  <2>1. Leave(p, Judged(p)) /\ proc[p].pc = "close"
    BY <1>5 DEF CloseGoal
  <2>2. Moves(p) /\ proc'[p].pc = Judged(p)
    BY <2>1, <1>j, LeaveShape
  <2>3. UNCHANGED <<iterations, liveUrl, taskVars, runVars, bookVars>>
    BY <1>5 DEF CloseGoal
  <2> QED BY <2>1, <2>2, <2>3
          DEF Moves, KeepsData, Shape, taskVars, runVars, bookVars, ProgressPcs
<1>6. CASE InsertRetry(p)
  <2>1. PICK t \in proc[p].todo :
          /\ Insert([root |-> title[t].root, retry |-> TRUE])
          /\ proc' = [proc EXCEPT ![p].todo = @ \ {t}]
    BY <1>6 DEF InsertRetry
  <2>2. proc[p].pc = "insert" /\ proc[p].todo \subseteq Tasks /\ t \in Tasks
    BY <1>6, <2>1 DEF TodoKinds, InsertRetry
  <2> DEFINE r == [proc[p] EXCEPT !.todo = @ \ {t}]
  <2>3. /\ r \in Locals /\ r.todo \subseteq Tasks /\ r.pc = "insert"
        /\ r.liveUrl = proc[p].liveUrl
    BY <1>0, <2>2 DEF Locals
  <2>4. proc' = [proc EXCEPT ![p] = r]
    BY <2>1, <1>0 DEF Shape, Locals
  <2> HIDE DEF r
  <2>5. Moves(p) /\ proc'[p] = r
    BY <2>3, <2>4, LoopShape
  <2>6. [root |-> title[t].root, retry |-> TRUE] \in Titles
    BY <2>2 DEF Titles, Shape
  <2>7. /\ made' \in Nat /\ task' \in Rows /\ title' \in [Tasks -> Titles]
        /\ \A u \in Tasks : task'[u] = "done" =>
             task[u] = "done" /\ title'[u] = title[u]
    BY <2>1, <2>6, InsertShape
  <2>8. UNCHANGED <<goalVars, runVars, bookVars>>
    BY <1>6 DEF InsertRetry
  <2> QED BY <2>2, <2>3, <2>5, <2>7, <2>8
          DEF Moves, KeepsData, Shape, goalVars, runVars, bookVars, ProgressPcs
<1>7. CASE BumpIterations(p)
  <2>1. Leave(p, Judged(p)) /\ proc[p].pc = "insert"
    BY <1>7 DEF BumpIterations
  <2>2. Moves(p) /\ proc'[p].pc = Judged(p)
    BY <2>1, <1>j, LeaveShape
  <2>3. UNCHANGED <<liveUrl, taskVars, runVars, bookVars>> /\ iterations' \in Nat
    BY <1>0, <1>7 DEF BumpIterations, Locals
  <2> QED BY <2>1, <2>2, <2>3
          DEF Moves, KeepsData, Shape, taskVars, runVars, bookVars, ProgressPcs
<1> QED BY <1>1, <1>2, <1>3, <1>4, <1>5, <1>6, <1>7 DEF ProgressStep

TickPcs == {"tick", "pick", "row", "flip", "start"}

\* A tick inserts at most one run, of the task it picked, ...
InsertsPicked(p) ==
  \/ run' = run
  \/ /\ proc[p].pc = "row" /\ proc'[p].pc # "row"
     /\ \A id \in RunIds : run'[id] # run[id] => id = NextId(p)

\* ... and it picks a task without an active run.
PicksIdle(p) ==
  proc'[p].pc = "row" =>
    /\ run' = run
    /\ \A id \in RunIds : id[1] = proc'[p].cur => run[id] # "active"

LEMMA TickShape ==
  ASSUME Shape, TodoKinds, NEW p \in Procs, TickStep(p)
  PROVE  /\ Shape' /\ Moves(p) /\ KeepsData(p) /\ InsertsPicked(p) /\ PicksIdle(p)
         /\ proc[p].pc \in TickPcs
<1>0. proc[p] \in Locals
  BY DEF Shape
<1>e. End(p) \in PCs \ {"live", "row"}
  BY DEF End, PCs
<1>1. CASE ReadOpen(p)
  <2>1. UNCHANGED <<goalVars, taskVars, runVars, bookVars>> /\ proc[p].pc = "tick"
    BY <1>1 DEF ReadOpen
  <2> DEFINE r == [proc[p] EXCEPT !.todo = In(task, {"open"}),
                                  !.pc = IF p = Clock THEN "allow" ELSE "pick"]
  <2>2. proc' = [proc EXCEPT ![p] = r]
    BY <1>0, <1>1 DEF ReadOpen, Shape, Locals
  <2>3. /\ r \in Locals /\ r.todo \subseteq Tasks /\ r.pc \in {"allow", "pick"}
        /\ r.liveUrl = proc[p].liveUrl
    BY <1>0, InTasks DEF Locals, PCs
  <2> HIDE DEF r
  <2>4. Moves(p) /\ proc'[p] = r
    BY <2>2, <2>3, LoopShape
  <2> QED BY <2>1, <2>3, <2>4
          DEF Moves, KeepsData, Shape, goalVars, taskVars, runVars, bookVars,
              InsertsPicked, PicksIdle, TickPcs
<1>2. CASE PickTask(p)
  <2>1. UNCHANGED <<goalVars, taskVars, runVars, bookVars>> /\ proc[p].pc = "pick"
    BY <1>2 DEF PickTask
  <2>2. PICK t \in proc[p].todo :
          proc' = [proc EXCEPT ![p].todo = @ \ {t}, ![p].cur = t,
                     ![p].pc = IF ActiveRuns(t) = {} THEN "row" ELSE "pick"]
    BY <1>2 DEF PickTask
  <2>3. t \in Tasks /\ proc[p].todo \subseteq Tasks
    BY <2>1, <2>2 DEF TodoKinds
  <2> DEFINE at == IF ActiveRuns(t) = {} THEN "row" ELSE "pick"
  <2>a. at \in {"row", "pick"} /\ (at = "row" => ActiveRuns(t) = {})
    OBVIOUS
  <2>b. proc' = [proc EXCEPT ![p].todo = @ \ {t}, ![p].cur = t, ![p].pc = at]
    BY <2>2
  <2>c. t \in Nat
    BY <2>3, LimitsAssumption DEF Tasks
  <2> HIDE DEF at
  <2> DEFINE r == [proc[p] EXCEPT !.todo = @ \ {t}, !.cur = t, !.pc = at]
  <2>4. proc' = [proc EXCEPT ![p] = r]
    BY <1>0, <2>b DEF Shape, Locals
  <2>5. /\ r \in Locals /\ r.todo \subseteq Tasks /\ r.pc = at
        /\ r.liveUrl = proc[p].liveUrl /\ r.cur = t
    BY <1>0, <2>3, <2>a, <2>c DEF Locals, PCs
  <2> HIDE DEF r
  <2>6. Moves(p) /\ proc'[p] = r
    BY <2>4, <2>5, <2>a, LoopShape
  <2> QED BY <2>1, <2>5, <2>6, <2>a
          DEF Moves, KeepsData, Shape, goalVars, taskVars, runVars, bookVars,
              InsertsPicked, PicksIdle, TickPcs, ActiveRuns
<1>3. CASE TickEnds(p)
  <2>1. /\ UNCHANGED <<goalVars, taskVars, runVars, bookVars>> /\ proc[p].pc = "pick"
        /\ Leave(p, End(p))
    BY <1>3 DEF TickEnds
  <2>2. Moves(p) /\ proc'[p].pc = End(p)
    BY <1>e, <2>1, LeaveShape
  <2> QED BY <1>e, <2>1, <2>2
          DEF Moves, KeepsData, Shape, goalVars, taskVars, runVars, bookVars,
              InsertsPicked, PicksIdle, TickPcs
<1>4. CASE InsertRun(p)
  <2>1. UNCHANGED <<goalVars, taskVars, vouched>> /\ proc[p].pc = "row"
    BY <1>4 DEF InsertRun
  <2>2. CASE run[NextId(p)] = "none"
    <3>1. Goto(p, "flip") /\ run' = [run EXCEPT ![NextId(p)] = "active"]
      BY <1>4, <2>2 DEF InsertRun
    <3>2. Moves(p) /\ proc'[p].pc = "flip"
      BY <2>1, <3>1, GotoShape DEF PCs
    <3>3. run' \in [RunIds -> {"none", "active", "merged", "failed", "held"}]
      BY <3>1 DEF Shape
    <3>4. \A id \in RunIds : run'[id] # run[id] => id = NextId(p)
      BY <3>1 DEF Shape
    <3> QED BY <2>1, <3>2, <3>3, <3>4
            DEF Moves, KeepsData, Shape, goalVars, taskVars, InsertsPicked, PicksIdle, TickPcs
  <2>3. CASE run[NextId(p)] # "none"
    <3>1. Leave(p, End(p)) /\ run' = run
      BY <1>4, <2>3 DEF InsertRun
    <3>2. Moves(p) /\ proc'[p].pc = End(p)
      BY <1>e, <3>1, LeaveShape
    <3> QED BY <1>e, <2>1, <3>1, <3>2
            DEF Moves, KeepsData, Shape, goalVars, taskVars, InsertsPicked, PicksIdle, TickPcs
  <2> QED BY <2>2, <2>3
<1>5. CASE FlipTask(p)
  <2>1. /\ UNCHANGED <<goalVars, title, made, runVars, bookVars>> /\ proc[p].pc = "flip"
        /\ Goto(p, "start") /\ task' = [task EXCEPT ![proc[p].cur] = "in_progress"]
    BY <1>5 DEF FlipTask
  <2>2. Moves(p) /\ proc'[p].pc = "start"
    BY <2>1, GotoShape DEF PCs
  <2>3. task' \in Rows /\ \A t \in Tasks : task'[t] = "done" => task[t] = "done"
    BY <2>1 DEF Shape, Rows, TaskStates
  <2> QED BY <2>1, <2>2, <2>3
          DEF Moves, KeepsData, Shape, goalVars, runVars, bookVars,
              InsertsPicked, PicksIdle, TickPcs
<1>6. CASE StartRun(p)
  <2>1. /\ UNCHANGED <<goalVars, taskVars, run, bookVars>> /\ proc[p].pc = "start"
        /\ proc' = [proc EXCEPT ![p].n = @ + 1, ![p].cur = 0, ![p].pc = "pick"]
    BY <1>6 DEF StartRun
  <2> DEFINE m == proc[p].n + 1
  <2>a. m \in Nat
    BY <1>0 DEF Locals
  <2>b. proc' = [proc EXCEPT ![p].n = m, ![p].cur = 0, ![p].pc = "pick"]
    BY <2>1
  <2> HIDE DEF m
  <2> DEFINE r == [proc[p] EXCEPT !.n = m, !.cur = 0, !.pc = "pick"]
  <2>2. proc' = [proc EXCEPT ![p] = r]
    BY <1>0, <2>b DEF Shape, Locals
  <2>3. /\ r \in Locals /\ r.todo = proc[p].todo /\ r.pc = "pick"
        /\ r.liveUrl = proc[p].liveUrl
    BY <1>0, <2>a DEF Locals, PCs
  <2>4. proc[p].todo \subseteq Tasks
    BY <2>1 DEF TodoKinds
  <2> HIDE DEF r
  <2>5. Moves(p) /\ proc'[p] = r
    BY <2>2, <2>3, <2>4, LoopShape
  <2> QED BY <2>1, <2>3, <2>5
          DEF Moves, KeepsData, Shape, goalVars, taskVars, bookVars,
              InsertsPicked, PicksIdle, TickPcs
<1> QED BY <1>1, <1>2, <1>3, <1>4, <1>5, <1>6 DEF TickStep

LEMMA CycleShape ==
  ASSUME Shape, TodoKinds, CycleStep
  PROVE  Shape' /\ Moves(Clock) /\ KeepsData(Clock) /\ run' = run /\ proc'[Clock].pc # "row"
<1>0. Clock \in Procs
  BY DEF Procs
<1>1. UNCHANGED <<iterations, liveUrl, taskVars, runVars, bookVars>>
  BY DEF CycleStep, CycleStart, CycleBudget, ListGoals, CycleGuard, PauseGoal,
         AllowGoals, goalVars
<1>2. ~At(Clock, "fill")
  BY DEF CycleStep, CycleStart, CycleBudget, ListGoals, CycleGuard, PauseGoal, AllowGoals
<1>3. PICK at \in PCs \ {"fill", "live", "row"} : Goto(Clock, at) \/ Leave(Clock, at)
  <2>1. CASE CycleStart
    BY <2>1 DEF CycleStart, PCs
  <2>2. CASE CycleBudget
    BY <2>2 DEF CycleBudget, PCs
  <2>3. CASE ListGoals
    BY <2>3 DEF ListGoals, PCs
  <2>4. CASE CycleGuard
    <3>1. Goto(Clock, "pause") \/ Goto(Clock, "goal")
      BY <2>4 DEF CycleGuard
    <3> QED BY <3>1 DEF PCs
  <2>5. CASE PauseGoal
    BY <2>5 DEF PauseGoal, PCs
  <2>6. CASE AllowGoals
    BY <2>6 DEF AllowGoals, PCs
  <2> QED BY <2>1, <2>2, <2>3, <2>4, <2>5, <2>6 DEF CycleStep
<1>4. Moves(Clock) /\ proc'[Clock].pc = at
  BY <1>0, <1>2, <1>3, GotoShape, LeaveShape
<1> QED BY <1>1, <1>4 DEF Moves, KeepsData, Shape, taskVars, runVars, bookVars

\* Runs, people and the meter touch no process, and only a person makes a
\* task done.
LEMMA WorldShape ==
  ASSUME Shape, RunStep \/ PeopleStep \/ CapReached
  PROVE  /\ Shape' /\ proc' = proc
         /\ liveUrl => liveUrl'
         /\ \A id \in RunIds : run'[id] = "active" => run[id] = "active"
         /\ \A t \in Tasks : task'[t] = "done" =>
              title'[t] = title[t] /\ (task[t] = "done" \/ t \in vouched')
         /\ vouched \subseteq vouched'
<1>1. ASSUME NEW id \in RunIds, RunEnds(id) \/ LandHeld(id)
      PROVE  /\ UNCHANGED <<goalVars, taskVars, proc, bookVars>>
             /\ run' \in [RunIds -> {"none", "active", "merged", "failed", "held"}]
             /\ \A x \in RunIds : run'[x] = "active" => run[x] = "active"
  BY <1>1, ChoicesAssumption DEF RunEnds, LandHeld, Shape
<1>2. ASSUME NEW w \in unwritten, RunWritesTask(w)
      PROVE  /\ UNCHANGED <<goalVars, title, made, run, proc, bookVars>>
             /\ task' \in Rows
             /\ \A t \in Tasks : task'[t] = "done" => task[t] = "done"
  BY <1>2 DEF RunWritesTask, Shape, Rows, TaskStates
<1>3. ASSUME NEW t \in Tasks, NEW st \in EditStates, EditTask(t, st)
      PROVE  /\ UNCHANGED <<goalVars, title, made, runVars, proc>>
             /\ task' \in Rows /\ vouched \subseteq vouched'
             /\ \A u \in Tasks : task'[u] = "done" => task[u] = "done" \/ u \in vouched'
  BY <1>3, ChoicesAssumption DEF EditTask, Shape, Rows, TaskStates
<1>4. ASSUME \/ \E on \in BOOLEAN : SetAutonomy(on)
             \/ CapReached
      PROVE  UNCHANGED <<iterations, liveUrl, taskVars, runVars, proc, vouched>>
  BY <1>4 DEF SetAutonomy, CapReached, goalVars, bookVars
<1>5. ASSUME Deploy
      PROVE  /\ UNCHANGED <<iterations, taskVars, runVars, proc, vouched>>
             /\ liveUrl' = TRUE
  BY <1>5 DEF Deploy, bookVars
<1>6. CASE \E id \in RunIds : RunEnds(id) \/ LandHeld(id)
  BY <1>1, <1>6 DEF Shape, goalVars, taskVars, bookVars
<1>7. CASE \E w \in unwritten : RunWritesTask(w)
  BY <1>2, <1>7 DEF Shape, goalVars, bookVars
<1>8. CASE \E t \in Tasks, st \in EditStates : EditTask(t, st)
  BY <1>3, <1>8 DEF Shape, goalVars, runVars
<1>9. CASE (\E on \in BOOLEAN : SetAutonomy(on)) \/ CapReached
  BY <1>4, <1>9 DEF Shape, taskVars, runVars
<1>10. CASE Deploy
  BY <1>5, <1>10 DEF Shape, taskVars, runVars
<1> QED BY <1>6, <1>7, <1>8, <1>9, <1>10 DEF RunStep, PeopleStep

\* A fault leaves every process as it was or at its end, and the rows alone.
LEMMA FaultShape ==
  ASSUME Shape, TodoKinds, Fault
  PROVE  /\ Shape' /\ TodoKinds' /\ UNCHANGED <<goalVars, taskVars, runVars, vouched>>
         /\ \A q \in Procs : proc'[q] = proc[q] \/ proc'[q] = Fresh(End(q))
<1>e. \A q \in Procs : End(q) \in PCs /\ Fresh(End(q)) \in Locals /\ Fresh(End(q)).todo = {}
  BY FreshLocals DEF End, PCs
<1>1. CASE Crash
  <2>1. /\ UNCHANGED <<goalVars, taskVars, runVars, vouched>>
        /\ proc' = [q \in Procs |-> IF At(q, First(q)) THEN proc[q] ELSE Fresh(End(q))]
    BY <1>1 DEF Crash
  <2>2. \A q \in Procs : proc'[q] = proc[q] \/ proc'[q] = Fresh(End(q))
    BY <2>1
  <2>3. proc' \in [Procs -> Locals] /\ TodoKinds'
    BY <1>e, <2>1, <2>2 DEF Shape, TodoKinds
  <2> QED BY <2>1, <2>2, <2>3 DEF Shape, goalVars, taskVars, runVars
<1>2. CASE \E p \in Procs : Fails(p)
  <2>1. PICK p \in Procs : Fails(p)
    BY <1>2
  <2>2. /\ UNCHANGED <<goalVars, taskVars, runVars, vouched>>
        /\ proc' = [proc EXCEPT ![p] = Fresh(End(p))]
    BY <2>1 DEF Fails
  <2>3. \A q \in Procs : proc'[q] = proc[q] \/ proc'[q] = Fresh(End(q))
    BY <2>2 DEF Shape
  <2>4. proc' \in [Procs -> Locals] /\ TodoKinds'
    BY <1>e, <2>2, <2>3 DEF Shape, TodoKinds
  <2> QED BY <2>2, <2>3, <2>4 DEF Shape, goalVars, taskVars, runVars
<1> QED BY <1>1, <1>2 DEF Fault

-----------------------------------------------------------------------------
(***************************************************************************)
(* Real-world work is done only when vouched for                           *)
(***************************************************************************)

LEMMA InitVerified == Init => VerifiedInv
<1> SUFFICES ASSUME Init PROVE VerifiedInv
  OBVIOUS
<1>1. Shape /\ TodoKinds
  BY InitShape
<1>2. \A p \in Procs : First(p) \in PCs /\ First(p) # "live"
  BY DEF First, PCs
<1>3. SawDeploy
  BY <1>2, FreshLocals DEF Init, SawDeploy
<1>4. RealWorldVerified
  BY DEF Init, RealWorldVerified, In
<1> QED BY <1>1, <1>3, <1>4 DEF VerifiedInv

\* A step of a process keeps the invariant when it moves and keeps data.
LEMMA ProcessVerified ==
  ASSUME VerifiedInv, NEW p \in Procs, Shape', Moves(p), KeepsData(p)
  PROVE  VerifiedInv'
<1>1. SawDeploy'
  BY DEF VerifiedInv, SawDeploy, Moves, KeepsData
<1>2. RealWorldVerified'
  <2> SUFFICES ASSUME NEW t \in Tasks, task'[t] = "done", title'[t].root \in RealWorld
               PROVE  t \in vouched' \/ liveUrl'
    BY DEF RealWorldVerified, In
  <2>1. title'[t] = title[t] /\ (task[t] = "done" \/ proc[p].liveUrl)
    BY DEF KeepsData
  <2> QED BY <2>1 DEF KeepsData, VerifiedInv, RealWorldVerified, SawDeploy, In
<1> QED BY <1>1, <1>2 DEF VerifiedInv, Moves

LEMMA StepVerified == VerifiedInv /\ [Next]_vars => VerifiedInv'
<1> SUFFICES ASSUME VerifiedInv, [Next]_vars PROVE VerifiedInv'
  OBVIOUS
<1> USE DEF VerifiedInv
<1>1. ASSUME NEW p \in Procs, PlannerStep(p) \/ ProgressStep(p) \/ TickStep(p)
      PROVE  VerifiedInv'
  BY <1>1, PlannerShape, ProgressShape, TickShape, ProcessVerified
<1>2. CASE CycleStep
  BY <1>2, CycleShape, ProcessVerified DEF Procs
<1>3. CASE RunStep \/ PeopleStep \/ CapReached
  <2>1. /\ Shape' /\ proc' = proc /\ (liveUrl => liveUrl')
        /\ \A t \in Tasks : task'[t] = "done" =>
             title'[t] = title[t] /\ (task[t] = "done" \/ t \in vouched')
        /\ vouched \subseteq vouched'
    BY <1>3, WorldShape
  <2>2. TodoKinds' /\ SawDeploy'
    BY <2>1 DEF TodoKinds, SawDeploy
  <2>3. RealWorldVerified'
    BY <2>1 DEF RealWorldVerified, In
  <2> QED BY <2>1, <2>2, <2>3
<1>4. CASE Fault
  <2>1. /\ Shape' /\ TodoKinds' /\ UNCHANGED <<goalVars, taskVars, runVars, vouched>>
        /\ \A q \in Procs : proc'[q] = proc[q] \/ proc'[q] = Fresh(End(q))
    BY <1>4, FaultShape
  <2>2. \A q \in Procs : /\ Fresh(End(q)).liveUrl = FALSE
                         /\ Fresh(End(q)).pc # "live"
    BY FreshLocals DEF End, PCs
  <2>3. SawDeploy'
    BY <2>1, <2>2 DEF SawDeploy, goalVars
  <2>4. RealWorldVerified'
    BY <2>1 DEF RealWorldVerified, In, goalVars, taskVars
  <2> QED BY <2>1, <2>3, <2>4
<1>5. CASE UNCHANGED vars
  <2>1. UNCHANGED <<goalVars, taskVars, run, proc, vouched>>
    BY <1>5 DEF vars, runVars, bookVars
  <2>2. Shape' /\ TodoKinds' /\ SawDeploy' /\ RealWorldVerified'
    BY <2>1 DEF Shape, TodoKinds, SawDeploy, RealWorldVerified, In, goalVars, taskVars
  <2> QED BY <2>2
<1> QED BY <1>1, <1>2, <1>3, <1>4, <1>5 DEF Next, Step

\* A task that touches the real world is done only because a person said so
\* or the goal was deployed, however many processes judge the goal.
THEOREM RealWorldVerifiedHolds == Spec => []RealWorldVerified
<1>1. VerifiedInv => RealWorldVerified
  BY DEF VerifiedInv
<1> QED BY <1>1, InitVerified, StepVerified, PTL DEF Spec

-----------------------------------------------------------------------------
(***************************************************************************)
(* The clock alone never has two runs of a task                            *)
(***************************************************************************)

LEMMA InitDispatch == ASSUME Ticks = {} PROVE Init => DispatchInv
<1> SUFFICES ASSUME Init PROVE DispatchInv
  OBVIOUS
<1>1. Shape /\ TodoKinds
  BY InitShape
<1>2. \A p \in Procs : First(p) \in PCs /\ First(p) # "row"
  BY DEF First, PCs
<1>3. \A p \in Procs : proc[p].pc = First(p)
  BY <1>2, FreshLocals DEF Init
<1>4. ClockDispatches
  BY <1>3 DEF ClockDispatches, First, Procs
<1>5. PickStillTrue /\ Exclusive
  BY <1>2, <1>3 DEF PickStillTrue, Exclusive, Init, Procs
<1> QED BY <1>1, <1>4, <1>5 DEF DispatchInv

\* Steps of a process that insert no run.
LEMMA QuietDispatch ==
  ASSUME DispatchInv, NEW p \in Procs, Shape', Moves(p), run' = run,
         p = Clock => proc'[p].pc # "row",
         p # Clock => proc'[p].pc \in ProgressPcs \cup {"fill", "done"}
  PROVE  DispatchInv'
<1>1. ClockDispatches'
  BY DEF DispatchInv, ClockDispatches, Moves, ProgressPcs
<1>2. PickStillTrue'
  <2>1. CASE p = Clock
    BY <2>1 DEF PickStillTrue
  <2>2. CASE p # Clock
    <3>1. proc'[Clock] = proc[Clock]
      BY <2>2 DEF Moves, Procs
    <3> QED BY <3>1 DEF DispatchInv, PickStillTrue
  <2> QED BY <2>1, <2>2
<1>3. Exclusive'
  BY DEF DispatchInv, Exclusive
<1> QED BY <1>1, <1>2, <1>3 DEF DispatchInv, Moves

\* A step of the clock's own tick.
LEMMA TickDispatch ==
  ASSUME DispatchInv, Shape', Moves(Clock), InsertsPicked(Clock), PicksIdle(Clock)
  PROVE  DispatchInv'
<1>1. ClockDispatches'
  BY DEF DispatchInv, ClockDispatches, Moves
<1>2. PickStillTrue'
  BY DEF PickStillTrue, PicksIdle
<1>3. Exclusive'
  <2>1. CASE run' = run
    BY <2>1 DEF DispatchInv, Exclusive
  <2>2. CASE run' # run
    <3> SUFFICES ASSUME NEW x \in RunIds, NEW y \in RunIds, x[1] = y[1],
                        run'[x] = "active", run'[y] = "active", x # y
                 PROVE  FALSE
      BY DEF Exclusive
    <3>1. /\ proc[Clock].pc = "row"
          /\ \A id \in RunIds : run'[id] # run[id] => id = NextId(Clock)
      BY <2>2 DEF InsertsPicked
    <3>2. \A id \in RunIds : id[1] = NextId(Clock)[1] => run[id] # "active"
      BY <3>1 DEF DispatchInv, PickStillTrue, NextId
    <3>3. x # NextId(Clock) \/ y # NextId(Clock)
      OBVIOUS
    <3>4. CASE x = NextId(Clock)
      BY <3>1, <3>2, <3>3, <3>4
    <3>5. CASE y = NextId(Clock)
      BY <3>1, <3>2, <3>3, <3>5
    <3>6. CASE x # NextId(Clock) /\ y # NextId(Clock)
      BY <3>1, <3>6 DEF DispatchInv, Exclusive
    <3> QED BY <3>4, <3>5, <3>6
  <2> QED BY <2>1, <2>2
<1> QED BY <1>1, <1>2, <1>3 DEF DispatchInv, Moves

LEMMA StepDispatch == DispatchInv /\ SawDeploy /\ [Next]_vars => DispatchInv'
<1> SUFFICES ASSUME DispatchInv, SawDeploy, [Next]_vars PROVE DispatchInv'
  OBVIOUS
<1>0. Shape /\ TodoKinds
  BY DEF DispatchInv
<1>1. ASSUME NEW p \in Procs, PlannerStep(p) PROVE DispatchInv'
  BY <1>0, <1>1, PlannerShape, QuietDispatch DEF ProgressPcs
<1>2. ASSUME NEW p \in Procs, ProgressStep(p) PROVE DispatchInv'
  <2>1. /\ Shape' /\ Moves(p) /\ run' = run
        /\ proc'[p].pc \in ProgressPcs \cup {Judged(p)}
    BY <1>0, <1>2, ProgressShape
  <2>2. proc'[p].pc # "row"
    BY <2>1 DEF ProgressPcs, Judged
  <2>3. p # Clock => proc'[p].pc \in ProgressPcs \cup {"fill", "done"}
    BY <2>1 DEF Judged
  <2> QED BY <2>1, <2>2, <2>3, QuietDispatch
<1>3. ASSUME NEW p \in Procs, TickStep(p) PROVE DispatchInv'
  <2>1. /\ Shape' /\ Moves(p) /\ InsertsPicked(p) /\ PicksIdle(p)
        /\ proc[p].pc \in TickPcs
    BY <1>0, <1>3, TickShape
  <2>2. p = Clock
    BY <2>1 DEF DispatchInv, ClockDispatches, TickPcs
  <2> QED BY <2>1, <2>2, TickDispatch
<1>4. CASE CycleStep
  <2>1. Shape' /\ Moves(Clock) /\ run' = run /\ proc'[Clock].pc # "row" /\ Clock \in Procs
    BY <1>0, <1>4, CycleShape DEF Procs
  <2> QED BY <2>1, QuietDispatch
<1>5. CASE RunStep \/ PeopleStep \/ CapReached
  <2>1. /\ Shape' /\ proc' = proc
        /\ \A id \in RunIds : run'[id] = "active" => run[id] = "active"
    BY <1>0, <1>5, WorldShape
  <2>2. TodoKinds' /\ ClockDispatches'
    BY <1>0, <2>1 DEF DispatchInv, TodoKinds, ClockDispatches
  <2>3. PickStillTrue' /\ Exclusive'
    BY <2>1 DEF DispatchInv, PickStillTrue, Exclusive
  <2> QED BY <2>1, <2>2, <2>3 DEF DispatchInv
<1>6. CASE Fault
  <2>1. /\ Shape' /\ TodoKinds' /\ UNCHANGED <<goalVars, taskVars, runVars, vouched>>
        /\ \A q \in Procs : proc'[q] = proc[q] \/ proc'[q] = Fresh(End(q))
    BY <1>0, <1>6, FaultShape
  <2>2. \A q \in Procs : Fresh(End(q)).pc = End(q)
    BY FreshLocals DEF End, PCs
  <2>3. ClockDispatches'
    BY <2>1, <2>2 DEF DispatchInv, ClockDispatches, End
  <2>4. run' = run /\ Clock \in Procs /\ End(Clock) # "row"
    BY <2>1 DEF runVars, Procs, End
  <2>5. PickStillTrue' /\ Exclusive'
    BY <2>1, <2>2, <2>4 DEF DispatchInv, PickStillTrue, Exclusive
  <2> QED BY <2>1, <2>3, <2>5 DEF DispatchInv
<1>7. CASE UNCHANGED vars
  <2>1. UNCHANGED <<goalVars, taskVars, run, proc>>
    BY <1>7 DEF vars, runVars
  <2>2. DispatchInv'
    BY <2>1 DEF DispatchInv, Shape, TodoKinds, ClockDispatches, PickStillTrue,
                Exclusive, goalVars, taskVars
  <2> QED BY <2>2
<1> QED BY <1>1, <1>2, <1>3, <1>4, <1>5, <1>6, <1>7 DEF Next, Step

\* No two runs of a task at once means at most one.
LEMMA ExclusiveCounts == Shape /\ Exclusive => OneActiveRun
<1> SUFFICES ASSUME Exclusive, NEW t \in Tasks PROVE Cardinality(ActiveRuns(t)) <= 1
  BY DEF OneActiveRun
<1>1. CASE ActiveRuns(t) = {}
  BY <1>1, FS_EmptySet
<1>2. CASE ActiveRuns(t) # {}
  <2>1. PICK x \in ActiveRuns(t) : TRUE
    BY <1>2
  <2>2. ActiveRuns(t) = {x}
    BY <2>1 DEF ActiveRuns, Exclusive
  <2>3. Cardinality({x}) = 1
    BY FS_Singleton
  <2> QED BY <2>2, <2>3
<1> QED BY <1>1, <1>2

\* When nobody triggers ticks by hand, a task never has two runs at once,
\* through crashes, failed starts, edits and late outcomes.
THEOREM OneActiveRunHolds == ASSUME Ticks = {} PROVE Spec => []OneActiveRun
<1>1. Init => DispatchInv /\ VerifiedInv
  BY InitDispatch, InitVerified
<1>2. DispatchInv /\ VerifiedInv /\ [Next]_vars => (DispatchInv /\ VerifiedInv)'
  BY StepDispatch, StepVerified DEF VerifiedInv
<1>3. DispatchInv /\ VerifiedInv => OneActiveRun
  BY ExclusiveCounts DEF DispatchInv
<1> QED BY <1>1, <1>2, <1>3, PTL DEF Spec


-----------------------------------------------------------------------------
(***************************************************************************)
(* What a step leaves in the record of its process                         *)
(***************************************************************************)

Others(p) == \A q \in Procs \ {p} : proc'[q] = proc[q]

\* The record of p but for its place.
Keeps(p) ==
  /\ proc'[p].seen = proc[p].seen /\ proc'[p].todo = proc[p].todo
  /\ proc'[p].cur = proc[p].cur /\ proc'[p].n = proc[p].n
  /\ proc'[p].iterations = proc[p].iterations /\ proc'[p].liveUrl = proc[p].liveUrl

\* A process that goes elsewhere keeps what it remembers.
LEMMA GotoEffect ==
  ASSUME Shape, NEW p \in Procs, NEW at, Goto(p, at)
  PROVE  Others(p) /\ Keeps(p) /\ proc'[p].pc = at
<1>1. proc[p] \in Locals /\ proc' = [proc EXCEPT ![p].pc = at]
  BY DEF Shape
<1>2. proc'[p] = [proc[p] EXCEPT !.pc = at]
  BY <1>1 DEF Shape
<1>3. Others(p)
  BY <1>1 DEF Shape, Others
<1> QED BY <1>1, <1>2, <1>3 DEF Locals, Keeps

\* One that leaves keeps nothing.
LEMMA LeaveEffect ==
  ASSUME Shape, NEW p \in Procs, NEW at, Leave(p, at)
  PROVE  Others(p) /\ proc'[p] = Fresh(at)
BY DEF Shape, Others

LEMMA FreshFields ==
  ASSUME NEW at
  PROVE  /\ Fresh(at).pc = at /\ Fresh(at).seen = [t \in Tasks |-> "none"]
         /\ Fresh(at).todo = {} /\ Fresh(at).cur = 0 /\ Fresh(at).n = 0
         /\ Fresh(at).iterations = 0 /\ Fresh(at).liveUrl = FALSE
BY DEF Fresh

\* A verdict is about the rows that were judged.
LEMMA VerdictMeans ==
  ASSUME NEW rows, NEW rounds \in Nat
  PROVE  /\ Verdict(rows, rounds) = "close" => In(rows, TaskStates \ {"done"}) = {}
         /\ Verdict(rows, rounds) = "insert" => rounds < MAX_ITERATIONS
BY LimitsAssumption DEF Verdict

\* Where a decision leads, and what the process takes along.
LEMMA DecideEffect ==
  ASSUME Shape, NEW p \in Procs, NEW rows \in Rows, Decide(p, rows)
  PROVE  /\ Others(p)
         /\ \/ proc'[p] = Fresh(Judged(p))
            \/ /\ proc'[p].pc \in {"close", "insert"}
               /\ proc'[p].pc = "close" => In(rows, TaskStates \ {"done"}) = {}
               /\ proc'[p].pc = "insert" => proc[p].iterations < MAX_ITERATIONS
               /\ proc'[p].seen = [t \in Tasks |-> "none"]
               /\ proc'[p].todo = In(rows, {"blocked"})
               /\ proc'[p].cur = 0 /\ proc'[p].n = 0
               /\ proc'[p].iterations = proc[p].iterations
<1> DEFINE v == Verdict(rows, proc[p].iterations)
<1>0. proc[p].iterations \in Nat
  BY DEF Shape, Locals
<1>1. CASE v = "leave"
  BY <1>1, LeaveEffect DEF Decide
<1>2. CASE v # "leave"
  <2>1. /\ v \in {"close", "insert"}
        /\ v = "close" => In(rows, TaskStates \ {"done"}) = {}
        /\ v = "insert" => proc[p].iterations < MAX_ITERATIONS
    BY <1>0, <1>2, VerdictKinds, VerdictMeans
  <2>2. proc' = [proc EXCEPT ![p] = [Fresh(v) EXCEPT !.iterations = proc[p].iterations,
                                                     !.todo = In(rows, {"blocked"})]]
    BY <1>2 DEF Decide
  <2> HIDE DEF v
  <2>3. /\ Others(p)
        /\ proc'[p] = [Fresh(v) EXCEPT !.iterations = proc[p].iterations,
                                       !.todo = In(rows, {"blocked"})]
    BY <2>2 DEF Shape, Others
  <2> QED BY <2>1, <2>3 DEF Fresh
<1> QED BY <1>1, <1>2

\* Promotions come first, and go through the rows that were read.
LEMMA JudgeEffect ==
  ASSUME Shape, NEW p \in Procs, NEW rows \in Rows, JudgeRows(p, rows)
  PROVE  \/ Decide(p, rows)
         \/ /\ Others(p) /\ proc'[p].pc \in {"promote", "live"}
            /\ proc'[p].pc = "live" => proc[p].liveUrl
            /\ proc'[p].seen = rows
            /\ proc'[p].todo = proc[p].todo /\ proc'[p].cur = proc[p].cur
            /\ proc'[p].n = proc[p].n /\ proc'[p].iterations = proc[p].iterations
<1>0. proc[p] \in Locals
  BY DEF Shape
<1>1. ASSUME NEW at, proc' = [proc EXCEPT ![p].pc = at, ![p].seen = rows]
      PROVE  /\ Others(p) /\ proc'[p].pc = at /\ proc'[p].seen = rows
             /\ proc'[p].todo = proc[p].todo /\ proc'[p].cur = proc[p].cur
             /\ proc'[p].n = proc[p].n /\ proc'[p].iterations = proc[p].iterations
  <2>1. proc'[p] = [proc[p] EXCEPT !.pc = at, !.seen = rows]
    BY <1>1 DEF Shape
  <2>2. Others(p)
    BY <1>1 DEF Shape, Others
  <2> QED BY <1>0, <2>1, <2>2 DEF Locals
<1>2. CASE Verifiable(rows) # {}
  BY <1>1, <1>2 DEF JudgeRows
<1>3. CASE Verifiable(rows) = {} /\ proc[p].liveUrl /\ Deployable(rows) # {}
  BY <1>1, <1>3 DEF JudgeRows
<1>4. CASE Verifiable(rows) = {} /\ ~(proc[p].liveUrl /\ Deployable(rows) # {})
  BY <1>4 DEF JudgeRows
<1> QED BY <1>2, <1>3, <1>4


-----------------------------------------------------------------------------
(***************************************************************************)
(* Whatever is referred to exists                                          *)
(***************************************************************************)

AllKnown == \A p \in Procs : Known(p)

LEMMA TasksNat == Tasks \subseteq Nat \ {0} /\ \A t \in Nat \ {0} : t <= MaxTasks => t \in Tasks
BY LimitsAssumption DEF Tasks

\* Rows, runs and outcomes that nobody touched exist as before.
LEMMA SameRows ==
  ASSUME Existing, UNCHANGED <<task, made, runVars>>
  PROVE  Existing'
BY DEF Existing, runVars

\* A row that exists may get any state, ...
LEMMA RowSet ==
  ASSUME Shape, Existing, NEW t \in Tasks, t <= made, NEW s \in TaskStates,
         task' = [task EXCEPT ![t] = s], made' = made,
         UNCHANGED <<run, started>>, unwritten' \subseteq unwritten
  PROVE  Existing'
<1>1. s # "none"
  BY DEF TaskStates
<1>2. \A u \in Tasks : task'[u] = "none" <=> u > made'
  BY <1>1, TasksNat DEF Shape, Existing, Rows
<1> QED BY <1>2 DEF Existing

\* ... and a new row is the next one.
LEMMA RowNew ==
  ASSUME Shape, Existing, NEW ti, Insert(ti), UNCHANGED runVars
  PROVE  /\ Existing' /\ made' = made + 1 /\ made + 1 \in Tasks
         /\ task[made + 1] = "none" /\ task'[made + 1] = "open"
         /\ \A t \in Tasks \ {made + 1} : task'[t] = task[t] /\ title'[t] = title[t]
<1>1. made < MaxTasks /\ made' = made + 1 /\ task' = [task EXCEPT ![made + 1] = "open"]
  BY DEF Insert
<1>2. made \in Nat /\ made + 1 \in Tasks
  BY <1>1, LimitsAssumption, TasksNat DEF Shape
<1>3. /\ task'[made + 1] = "open"
      /\ \A t \in Tasks \ {made + 1} : task'[t] = task[t] /\ title'[t] = title[t]
  BY <1>1, <1>2 DEF Shape, Rows, Insert
<1>4. \A t \in Tasks : task'[t] = "none" <=> t > made'
  BY <1>1, <1>2, <1>3, TasksNat DEF Existing
<1>5. task[made + 1] = "none"
  BY <1>2 DEF Existing
<1>6. made' <= MaxTasks
  BY <1>1, <1>2, LimitsAssumption
<1>7. \A id \in RunIds : run'[id] # "none" => id[1] <= made'
  <2>1. \A id \in RunIds : id[1] \in Nat
    BY TasksNat DEF RunIds
  <2> QED BY <1>1, <1>2, <2>1 DEF Existing, runVars
<1>8. unwritten' \subseteq [task : 1..made', outcome : Outcomes \cup {"merged"}]
  BY <1>1, <1>2 DEF Existing, runVars
<1> QED BY <1>1, <1>2, <1>3, <1>4, <1>5, <1>6, <1>7, <1>8 DEF Existing, runVars

\* The run a process is about to start is one of the runs.
LEMMA NextIdExists ==
  ASSUME Shape, Existing, NEW p \in Procs, Known(p),
         proc[p].pc \in {"row", "flip", "start"}
  PROVE  NextId(p) \in RunIds
<1>1. /\ proc[p].cur \in Nat \ {0} /\ proc[p].cur <= made /\ made <= MaxTasks
      /\ proc[p].n \in Nat /\ proc[p].n < budgetMax
  BY DEF Known, Existing, Shape, Locals
<1>2. proc[p].cur \in Tasks
  BY <1>1, TasksNat, LimitsAssumption DEF Shape
<1>3. proc[p].n \in 0..(budgetMax - 1)
  BY <1>1, LimitsAssumption
<1> QED BY <1>2, <1>3 DEF NextId, RunIds

\* No run is ever forgotten.
RunsStay == \A id \in RunIds : run[id] # "none" => run'[id] # "none"

\* The goal loses no task and no run, so what the others know stays known.
LEMMA OthersKnown ==
  ASSUME Shape, Existing, AllKnown, NEW p \in Procs, Others(p),
         made' \in {made, made + 1}, RunsStay, Known(p)'
  PROVE  AllKnown'
<1> SUFFICES ASSUME NEW q \in Procs, q # p PROVE Known(q)'
  BY DEF AllKnown
<1>1. proc'[q] = proc[q] /\ Known(q) /\ proc[q] \in Locals
  BY DEF Others, AllKnown, Shape
<1>2. made \in Nat /\ made' \in Nat /\ made' >= made
  BY DEF Shape
<1>3. \A t \in Tasks : proc'[q].seen[t] # "none" => t <= made'
  BY <1>1, <1>2, TasksNat DEF Known
<1>4. proc'[q].cur <= made'
  BY <1>1, <1>2 DEF Known, Locals
<1>5. ~At(q, "fill")' => proc'[q].todo \subseteq 1..made'
  BY <1>1, <1>2 DEF Known
<1>6. proc'[q].pc \in {"flip", "start"} => run'[NextId(q)'] # "none"
  BY <1>1, NextIdExists DEF Known, RunsStay, NextId
<1> QED BY <1>1, <1>3, <1>4, <1>5, <1>6 DEF Known

\* A process that begins anew remembers nothing.
LEMMA FreshKnown ==
  ASSUME NEW p \in Procs, NEW at, at \notin {"row", "flip", "start", "insert"},
         proc'[p] = Fresh(at), made' \in Nat
  PROVE  Known(p)'
<1>1. /\ proc'[p].pc = at /\ proc'[p].seen = [t \in Tasks |-> "none"]
      /\ proc'[p].todo = {} /\ proc'[p].cur = 0 /\ proc'[p].n = 0
  BY DEF Fresh
<1>2. 0 <= made' /\ 0 <= budgetMax
  BY LimitsAssumption
<1>3. \A t \in Tasks : proc'[p].seen[t] = "none"
  BY <1>1
<1>4. proc'[p].pc \notin {"row", "flip", "start", "insert"}
  BY <1>1
<1> QED BY <1>1, <1>2, <1>3, <1>4 DEF Known

\* A judged row exists, so what a decision takes along does.
LEMMA DecideKnown ==
  ASSUME Shape, NEW p \in Procs, NEW rows \in Rows, Decide(p, rows),
         \A t \in Tasks : rows[t] # "none" => t <= made, made' = made
  PROVE  Others(p) /\ Known(p)'
<1>j. Judged(p) \notin {"row", "flip", "start", "insert"}
  BY DEF Judged
<1>1. CASE proc'[p] = Fresh(Judged(p))
  BY <1>1, <1>j, DecideEffect, FreshKnown DEF Shape
<1>2. CASE proc'[p] # Fresh(Judged(p))
  <2>1. /\ Others(p) /\ proc'[p].pc \in {"close", "insert"}
        /\ proc'[p].pc = "insert" => proc[p].iterations < MAX_ITERATIONS
        /\ proc'[p].seen = [t \in Tasks |-> "none"]
        /\ proc'[p].todo = In(rows, {"blocked"})
        /\ proc'[p].cur = 0 /\ proc'[p].n = 0
        /\ proc'[p].iterations = proc[p].iterations
    BY <1>2, DecideEffect
  <2>2. In(rows, {"blocked"}) \subseteq 1..made
    <3> SUFFICES ASSUME NEW t \in In(rows, {"blocked"}) PROVE t \in 1..made
      OBVIOUS
    <3>1. t \in Tasks /\ rows[t] # "none"
      BY DEF In
    <3>2. t \in Nat \ {0} /\ t <= made /\ made \in Nat
      BY <3>1, TasksNat DEF Shape
    <3> QED BY <3>2
  <2>3. 0 <= made' /\ 0 <= budgetMax
    BY LimitsAssumption DEF Shape
  <2> QED BY <2>1, <2>2, <2>3 DEF Known
<1> QED BY <1>1, <1>2

LEMMA JudgeKnown ==
  ASSUME Shape, NEW p \in Procs, NEW rows \in Rows, JudgeRows(p, rows), Known(p),
         proc[p].pc \in ProgressPcs,
         \A t \in Tasks : rows[t] # "none" => t <= made, made' = made
  PROVE  Others(p) /\ Known(p)'
<1>1. CASE Decide(p, rows)
  BY <1>1, DecideKnown
<1>2. CASE ~Decide(p, rows)
  <2>1. /\ Others(p) /\ proc'[p].pc \in {"promote", "live"} /\ proc'[p].seen = rows
        /\ proc'[p].todo = proc[p].todo /\ proc'[p].cur = proc[p].cur
        /\ proc'[p].n = proc[p].n
    BY <1>2, JudgeEffect
  <2> QED BY <2>1 DEF Known, ProgressPcs
<1> QED BY <1>1, <1>2

\* Going elsewhere than to a dispatch or a round.
LEMMA GotoKnown ==
  ASSUME Shape, NEW p \in Procs, Known(p), ~At(p, "fill"),
         NEW at, at \notin {"row", "flip", "start", "insert", "fill"}, Goto(p, at), made' = made
  PROVE  Others(p) /\ Known(p)'
BY GotoEffect DEF Known, Keeps

LEMMA RunsKept == ASSUME UNCHANGED runVars PROVE RunsStay
BY DEF runVars, RunsStay

LEMMA PlannerKnown ==
  ASSUME Shape, TodoKinds, Existing, AllKnown, NEW p \in Procs, PlannerStep(p)
  PROVE  Existing' /\ AllKnown'
<1>0. proc[p] \in Locals /\ Known(p)
  BY DEF Shape, AllKnown
<1>1. CASE Plan(p)
  <2>1. UNCHANGED <<task, made, runVars>> /\ At(p, "plan")
    BY <1>1 DEF Plan, taskVars
  <2>2. CASE goal = "open"
    <3>1. proc' = [proc EXCEPT ![p].pc = "fill", ![p].todo = Roots]
      BY <1>1, <2>2 DEF Plan
    <3>2. Others(p) /\ proc'[p] = [proc[p] EXCEPT !.pc = "fill", !.todo = Roots]
      BY <3>1 DEF Shape, Others
    <3>3. Known(p)'
      BY <1>0, <2>1, <3>2 DEF Known, Locals
    <3> QED BY <2>1, <3>2, <3>3, SameRows, OthersKnown, RunsKept
  <2>3. CASE goal # "open"
    <3>1. Others(p) /\ proc'[p] = Fresh("done")
      BY <1>1, <2>3, LeaveEffect DEF Plan
    <3>2. Known(p)'
      BY <2>1, <3>1, FreshKnown DEF Shape
    <3> QED BY <2>1, <3>1, <3>2, SameRows, OthersKnown, RunsKept
  <2> QED BY <2>2, <2>3
<1>2. CASE Fill(p)
  <2>1. PICK c \in proc[p].todo :
          /\ Insert([root |-> c, retry |-> FALSE])
          /\ proc' = [proc EXCEPT ![p].todo = @ \ {c}]
    BY <1>2 DEF Fill
  <2>2. UNCHANGED runVars /\ At(p, "fill")
    BY <1>2 DEF Fill
  <2>3. Existing' /\ made' = made + 1
    BY <2>1, <2>2, RowNew
  <2>4. Others(p) /\ proc'[p] = [proc[p] EXCEPT !.todo = @ \ {c}]
    BY <2>1 DEF Shape, Others
  <2>5. made \in Nat /\ proc[p].cur \in Nat
    BY <1>0 DEF Shape, Locals
  <2>6. /\ proc'[p].seen = proc[p].seen /\ proc'[p].pc = "fill"
        /\ proc'[p].cur = proc[p].cur /\ proc'[p].n = proc[p].n
    BY <1>0, <2>2, <2>4 DEF Locals
  <2>7. \A t \in Tasks : proc'[p].seen[t] # "none" => t <= made'
    BY <1>0, <2>3, <2>5, <2>6, TasksNat DEF Known
  <2>8. Known(p)'
    BY <1>0, <2>3, <2>5, <2>6, <2>7 DEF Known
  <2> QED BY <2>2, <2>3, <2>4, <2>8, OthersKnown, RunsKept
<1>3. CASE ActivateGoal(p)
  <2>1. /\ UNCHANGED <<task, made, runVars>> /\ Others(p) /\ proc'[p] = Fresh("done")
    BY <1>3, LeaveEffect DEF ActivateGoal, taskVars
  <2>2. Known(p)'
    BY <2>1, FreshKnown DEF Shape
  <2> QED BY <2>1, <2>2, SameRows, OthersKnown, RunsKept
<1> QED BY <1>1, <1>2, <1>3 DEF PlannerStep

LEMMA ProgressKnown ==
  ASSUME Shape, TodoKinds, Existing, AllKnown, NEW p \in Procs, ProgressStep(p)
  PROVE  Existing' /\ AllKnown'
<1>0. proc[p] \in Locals /\ Known(p)
  BY DEF Shape, AllKnown
<1>j. Judged(p) \notin {"row", "flip", "start", "insert", "fill"}
  BY DEF Judged
<1>l. ASSUME UNCHANGED <<task, made, runVars>>, Others(p), proc'[p] = Fresh(Judged(p))
      PROVE  Existing' /\ AllKnown'
  <2>1. Known(p)'
    BY <1>l, <1>j, FreshKnown DEF Shape
  <2> QED BY <1>l, <2>1, SameRows, OthersKnown, RunsKept
<1>1. CASE ReadGoal(p)
  <2>1. UNCHANGED <<task, made, runVars>> /\ At(p, "goal")
    BY <1>1 DEF ReadGoal, taskVars
  <2>2. CASE goal = "active"
    <3>1. proc' = [proc EXCEPT ![p].pc = "rows", ![p].liveUrl = liveUrl,
                               ![p].iterations = iterations]
      BY <1>1, <2>2 DEF ReadGoal
    <3>2. /\ Others(p)
          /\ proc'[p] = [proc[p] EXCEPT !.pc = "rows", !.liveUrl = liveUrl,
                                        !.iterations = iterations]
      BY <3>1 DEF Shape, Others
    <3>3. Known(p)'
      BY <1>0, <2>1, <3>2 DEF Known, Locals
    <3> QED BY <2>1, <3>2, <3>3, SameRows, OthersKnown, RunsKept
  <2>3. CASE goal # "active"
    <3>1. Others(p) /\ proc'[p] = Fresh(Judged(p))
      BY <1>1, <2>3, LeaveEffect DEF ReadGoal
    <3> QED BY <1>l, <2>1, <3>1
  <2> QED BY <2>2, <2>3
<1>2. CASE ReadRows(p)
  <2>1. UNCHANGED <<task, made, runVars>> /\ At(p, "rows")
    BY <1>2 DEF ReadRows, taskVars
  <2>2. CASE made = 0
    <3>1. Others(p) /\ proc'[p] = Fresh(Judged(p))
      BY <1>2, <2>2, LeaveEffect DEF ReadRows
    <3> QED BY <1>l, <2>1, <3>1
  <2>3. CASE made # 0
    <3>1. JudgeRows(p, task) /\ task \in Rows
      BY <1>2, <2>3 DEF ReadRows, Shape
    <3>2. \A t \in Tasks : task[t] # "none" => t <= made
      BY TasksNat DEF Existing, Shape
    <3>3. Others(p) /\ Known(p)'
      BY <1>0, <2>1, <3>1, <3>2, JudgeKnown DEF ProgressPcs
    <3> QED BY <2>1, <3>3, SameRows, OthersKnown, RunsKept
  <2> QED BY <2>2, <2>3
<1>3. CASE Promote(p)
  <2>1. PICK t \in Verifiable(proc[p].seen) :
          /\ task' = [task EXCEPT ![t] = "done"]
          /\ JudgeRows(p, [proc[p].seen EXCEPT ![t] = "done"])
    BY <1>3 DEF Promote
  <2>2. made' = made /\ UNCHANGED runVars /\ At(p, "promote")
    BY <1>3 DEF Promote
  <2>3. t \in Tasks /\ proc[p].seen[t] # "none" /\ proc[p].seen \in Rows
    BY <1>0 DEF Verifiable, In, Locals
  <2>4. t <= made
    BY <1>0, <2>3 DEF Known
  <2>5. Existing'
    BY <2>1, <2>2, <2>3, <2>4, RowSet DEF TaskStates, runVars
  <2> DEFINE rows == [proc[p].seen EXCEPT ![t] = "done"]
  <2>6. rows \in Rows /\ \A u \in Tasks : rows[u] # "none" => u <= made
    BY <1>0, <2>3, <2>4 DEF Known, Rows, TaskStates
  <2> HIDE DEF rows
  <2>7. Others(p) /\ Known(p)'
    BY <1>0, <2>1, <2>2, <2>6, JudgeKnown DEF ProgressPcs, rows
  <2> QED BY <2>2, <2>5, <2>7, OthersKnown, RunsKept
<1>4. CASE PromoteLive(p)
  <2>1. PICK t \in Deployable(proc[p].seen) :
          /\ task' = [task EXCEPT ![t] = "done"]
          /\ Decide(p, [proc[p].seen EXCEPT ![t] = "done"])
    BY <1>4 DEF PromoteLive
  <2>2. made' = made /\ UNCHANGED runVars
    BY <1>4 DEF PromoteLive
  <2>3. t \in Tasks /\ proc[p].seen[t] # "none" /\ proc[p].seen \in Rows
    BY <1>0 DEF Deployable, In, Locals, TaskStates
  <2>4. t <= made
    BY <1>0, <2>3 DEF Known
  <2>5. Existing'
    BY <2>1, <2>2, <2>3, <2>4, RowSet DEF TaskStates, runVars
  <2> DEFINE rows == [proc[p].seen EXCEPT ![t] = "done"]
  <2>6. rows \in Rows /\ \A u \in Tasks : rows[u] # "none" => u <= made
    BY <1>0, <2>3, <2>4 DEF Known, Rows, TaskStates
  <2> HIDE DEF rows
  <2>7. Others(p) /\ Known(p)'
    BY <2>1, <2>2, <2>6, DecideKnown DEF rows
  <2> QED BY <2>2, <2>5, <2>7, OthersKnown, RunsKept
<1>5. CASE CloseGoal(p)
  <2>1. UNCHANGED <<task, made, runVars>> /\ Others(p) /\ proc'[p] = Fresh(Judged(p))
    BY <1>5, LeaveEffect DEF CloseGoal, taskVars
  <2> QED BY <1>l, <2>1
<1>6. CASE InsertRetry(p)
  <2>1. PICK t \in proc[p].todo :
          /\ Insert([root |-> title[t].root, retry |-> TRUE])
          /\ proc' = [proc EXCEPT ![p].todo = @ \ {t}]
    BY <1>6 DEF InsertRetry
  <2>2. UNCHANGED runVars /\ At(p, "insert")
    BY <1>6 DEF InsertRetry
  <2>3. Existing' /\ made' = made + 1
    BY <2>1, <2>2, RowNew
  <2>4. Others(p) /\ proc'[p] = [proc[p] EXCEPT !.todo = @ \ {t}]
    BY <2>1 DEF Shape, Others
  <2>5. made \in Nat /\ proc[p].cur \in Nat
    BY <1>0 DEF Shape, Locals
  <2>6. /\ proc'[p].seen = proc[p].seen /\ proc'[p].pc = "insert"
        /\ proc'[p].cur = proc[p].cur /\ proc'[p].n = proc[p].n
        /\ proc'[p].todo \subseteq proc[p].todo
        /\ proc'[p].iterations = proc[p].iterations
    BY <1>0, <2>2, <2>4 DEF Locals
  <2>7. \A u \in Tasks : proc'[p].seen[u] # "none" => u <= made'
    BY <1>0, <2>3, <2>5, <2>6, TasksNat DEF Known
  <2>8. proc'[p].todo \subseteq 1..made'
    BY <1>0, <2>2, <2>3, <2>5, <2>6 DEF Known
  <2>9. Known(p)'
    BY <1>0, <2>2, <2>3, <2>5, <2>6, <2>7, <2>8 DEF Known
  <2> QED BY <2>2, <2>3, <2>4, <2>9, OthersKnown, RunsKept
<1>7. CASE BumpIterations(p)
  <2>1. UNCHANGED <<task, made, runVars>> /\ Others(p) /\ proc'[p] = Fresh(Judged(p))
    BY <1>7, LeaveEffect DEF BumpIterations, taskVars
  <2> QED BY <1>l, <2>1
<1> QED BY <1>1, <1>2, <1>3, <1>4, <1>5, <1>6, <1>7 DEF ProgressStep


LEMMA TickKnown ==
  ASSUME Shape, TodoKinds, Existing, AllKnown, NEW p \in Procs, TickStep(p)
  PROVE  Existing' /\ AllKnown'
<1>0. proc[p] \in Locals /\ Known(p)
  BY DEF Shape, AllKnown
<1>e. End(p) \notin {"row", "flip", "start", "insert"}
  BY DEF End
<1>l. ASSUME UNCHANGED <<task, made, runVars>>, Others(p), proc'[p] = Fresh(End(p))
      PROVE  Existing' /\ AllKnown'
  <2>1. Known(p)'
    BY <1>l, <1>e, FreshKnown DEF Shape
  <2> QED BY <1>l, <2>1, SameRows, OthersKnown, RunsKept
<1>1. CASE ReadOpen(p)
  <2>1. UNCHANGED <<task, made, runVars>> /\ At(p, "tick")
    BY <1>1 DEF ReadOpen, taskVars
  <2> DEFINE at == IF p = Clock THEN "allow" ELSE "pick"
  <2>2. proc' = [proc EXCEPT ![p].todo = In(task, {"open"}), ![p].pc = at]
    BY <1>1 DEF ReadOpen
  <2>3. at \in {"allow", "pick"}
    OBVIOUS
  <2> HIDE DEF at
  <2>4. Others(p) /\ proc'[p] = [proc[p] EXCEPT !.todo = In(task, {"open"}), !.pc = at]
    BY <2>2 DEF Shape, Others
  <2>5. In(task, {"open"}) \subseteq 1..made
    <3> SUFFICES ASSUME NEW t \in In(task, {"open"}) PROVE t \in 1..made
      OBVIOUS
    <3>1. t \in Tasks /\ task[t] # "none"
      BY DEF In
    <3> QED BY <3>1, TasksNat DEF Existing, Shape
  <2>6. Known(p)'
    BY <1>0, <2>1, <2>3, <2>4, <2>5 DEF Known, Locals
  <2> QED BY <2>1, <2>4, <2>6, SameRows, OthersKnown, RunsKept
<1>2. CASE PickTask(p)
  <2>1. UNCHANGED <<task, made, runVars>> /\ At(p, "pick") /\ proc[p].n < budgetMax
    BY <1>2 DEF PickTask, taskVars
  <2>2. PICK t \in proc[p].todo :
          proc' = [proc EXCEPT ![p].todo = @ \ {t}, ![p].cur = t,
                     ![p].pc = IF ActiveRuns(t) = {} THEN "row" ELSE "pick"]
    BY <1>2 DEF PickTask
  <2> DEFINE at == IF ActiveRuns(t) = {} THEN "row" ELSE "pick"
  <2>3. at \in {"row", "pick"}
    OBVIOUS
  <2>4. proc' = [proc EXCEPT ![p].todo = @ \ {t}, ![p].cur = t, ![p].pc = at]
    BY <2>2
  <2> HIDE DEF at
  <2>5. /\ Others(p)
        /\ proc'[p] = [proc[p] EXCEPT !.todo = @ \ {t}, !.cur = t, !.pc = at]
    BY <2>4 DEF Shape, Others
  <2>6. t \in 1..made /\ proc[p].todo \subseteq 1..made
    BY <1>0, <2>1, <2>2 DEF Known
  <2>7. /\ proc'[p].seen = proc[p].seen /\ proc'[p].todo \subseteq proc[p].todo
        /\ proc'[p].cur = t /\ proc'[p].n = proc[p].n /\ proc'[p].pc = at
    BY <1>0, <2>5 DEF Locals
  <2>8. t # 0 /\ t <= made /\ made' = made
    BY <2>1, <2>6
  <2>9. Known(p)'
    BY <1>0, <2>1, <2>3, <2>6, <2>7, <2>8 DEF Known
  <2> QED BY <2>1, <2>5, <2>9, SameRows, OthersKnown, RunsKept
<1>3. CASE TickEnds(p)
  <2>1. UNCHANGED <<task, made, runVars>> /\ Others(p) /\ proc'[p] = Fresh(End(p))
    BY <1>3, LeaveEffect DEF TickEnds, taskVars
  <2> QED BY <1>l, <2>1
<1>4. CASE InsertRun(p)
  <2>1. UNCHANGED <<task, made, started, unwritten>> /\ At(p, "row")
    BY <1>4 DEF InsertRun, taskVars
  <2>2. CASE run[NextId(p)] = "none"
    <3>1. Goto(p, "flip") /\ run' = [run EXCEPT ![NextId(p)] = "active"]
      BY <1>4, <2>2 DEF InsertRun
    <3>2. Others(p) /\ Keeps(p) /\ proc'[p].pc = "flip"
      BY <3>1, GotoEffect
    <3>0. NextId(p) \in RunIds /\ run'[NextId(p)] = "active" /\ NextId(p)' = NextId(p)
      BY <1>0, <2>1, <3>1, <3>2, NextIdExists DEF Shape, NextId, Keeps
    <3>3. Known(p)'
      BY <1>0, <2>1, <3>0, <3>2 DEF Known, Keeps
    <3>4. NextId(p)[1] = proc[p].cur /\ proc[p].cur <= made
      BY <1>0 DEF NextId, Known
    <3>5. Existing'
      BY <2>1, <3>1, <3>4 DEF Existing
    <3>6. RunsStay
      BY <3>1 DEF RunsStay, Shape
    <3> QED BY <2>1, <3>2, <3>3, <3>5, <3>6, OthersKnown
  <2>3. CASE run[NextId(p)] # "none"
    <3>1. UNCHANGED <<task, made, runVars>> /\ Others(p) /\ proc'[p] = Fresh(End(p))
      BY <1>4, <2>1, <2>3, LeaveEffect DEF InsertRun, runVars
    <3> QED BY <1>l, <3>1
  <2> QED BY <2>2, <2>3
<1>5. CASE FlipTask(p)
  <2>1. /\ UNCHANGED <<made, run, started, unwritten>> /\ At(p, "flip")
        /\ Goto(p, "start") /\ task' = [task EXCEPT ![proc[p].cur] = "in_progress"]
    BY <1>5 DEF FlipTask, runVars
  <2>2. proc[p].cur \in Tasks /\ proc[p].cur <= made
    BY <1>0, <2>1, TasksNat, LimitsAssumption DEF Known, Existing, Locals, Shape
  <2>3. Existing'
    BY <2>1, <2>2, RowSet DEF TaskStates
  <2>4. Others(p) /\ Keeps(p) /\ proc'[p].pc = "start"
    BY <2>1, GotoEffect
  <2>5. NextId(p)' = NextId(p)
    BY <2>4 DEF NextId, Keeps
  <2>6. Known(p)'
    BY <1>0, <2>1, <2>4, <2>5 DEF Known, Keeps
  <2> QED BY <2>1, <2>3, <2>4, <2>6, OthersKnown DEF RunsStay
<1>6. CASE StartRun(p)
  <2>1. /\ UNCHANGED <<task, made, run, unwritten>> /\ At(p, "start")
        /\ started' = started \cup {NextId(p)}
        /\ proc' = [proc EXCEPT ![p].n = @ + 1, ![p].cur = 0, ![p].pc = "pick"]
    BY <1>6 DEF StartRun, taskVars
  <2>2. /\ Others(p)
        /\ proc'[p] = [proc[p] EXCEPT !.n = @ + 1, !.cur = 0, !.pc = "pick"]
    BY <2>1 DEF Shape, Others
  <2>3. /\ proc'[p].seen = proc[p].seen /\ proc'[p].todo = proc[p].todo
        /\ proc'[p].cur = 0 /\ proc'[p].n = proc[p].n + 1 /\ proc'[p].pc = "pick"
    BY <1>0, <2>2 DEF Locals
  <2>4. proc[p].n \in Nat /\ proc[p].n < budgetMax /\ 0 <= made
    BY <1>0, <2>1 DEF Known, Locals, Shape
  <2>5. proc'[p].n <= budgetMax
    BY <2>3, <2>4, LimitsAssumption
  <2>6. Known(p)'
    BY <1>0, <2>1, <2>3, <2>4, <2>5 DEF Known
  <2>7. NextId(p) \in RunIds /\ run[NextId(p)] # "none"
    BY <1>0, <2>1, NextIdExists DEF Known
  <2>8. Existing'
    BY <2>1, <2>7 DEF Existing
  <2> QED BY <2>1, <2>2, <2>6, <2>8, OthersKnown DEF RunsStay
<1> QED BY <1>1, <1>2, <1>3, <1>4, <1>5, <1>6 DEF TickStep


\* The clock's own steps only lead it elsewhere.
LEMMA CycleMoves ==
  ASSUME CycleStep
  PROVE  /\ UNCHANGED <<taskVars, runVars, spent, bookVars>>
         /\ ~At(Clock, "fill")
         /\ \E at \in {"idle", "budget", "list", "guard", "pause", "goal", "tick", "pick"} :
              Goto(Clock, at) \/ Leave(Clock, at)
<1> DEFINE places == {"idle", "budget", "list", "guard", "pause", "goal", "tick", "pick"}
<1>1. CASE CycleStart
  BY <1>1 DEF CycleStart
<1>2. CASE CycleBudget
  BY <1>2 DEF CycleBudget
<1>3. CASE ListGoals
  BY <1>3 DEF ListGoals
<1>4. CASE CycleGuard
  <2>1. UNCHANGED <<taskVars, runVars, spent, bookVars>> /\ At(Clock, "guard")
    BY <1>4 DEF CycleGuard
  <2>2. Goto(Clock, "pause") \/ Goto(Clock, "goal")
    BY <1>4 DEF CycleGuard
  <2> QED BY <2>1, <2>2
<1>5. CASE PauseGoal
  BY <1>5 DEF PauseGoal
<1>6. CASE AllowGoals
  BY <1>6 DEF AllowGoals
<1> QED BY <1>1, <1>2, <1>3, <1>4, <1>5, <1>6 DEF CycleStep

LEMMA CycleKnown ==
  ASSUME Shape, Existing, AllKnown, CycleStep
  PROVE  Existing' /\ AllKnown'
<1>0. Clock \in Procs /\ Known(Clock)
  BY DEF Procs, AllKnown
<1>1. UNCHANGED <<task, made, runVars>> /\ ~At(Clock, "fill")
  BY CycleMoves DEF taskVars
<1>2. PICK at \in {"idle", "budget", "list", "guard", "pause", "goal", "tick", "pick"} :
        Goto(Clock, at) \/ Leave(Clock, at)
  BY CycleMoves
<1>3. at \notin {"row", "flip", "start", "insert", "fill"}
  OBVIOUS
<1>4. CASE Goto(Clock, at)
  BY <1>0, <1>1, <1>3, <1>4, GotoKnown, SameRows, OthersKnown, RunsKept
<1>5. CASE Leave(Clock, at)
  <2>1. Others(Clock) /\ proc'[Clock] = Fresh(at)
    BY <1>0, <1>5, LeaveEffect
  <2>2. Known(Clock)'
    BY <1>0, <1>1, <1>3, <2>1, FreshKnown DEF Shape
  <2> QED BY <1>0, <1>1, <2>1, <2>2, SameRows, OthersKnown, RunsKept
<1> QED BY <1>2, <1>4, <1>5

\* Who only stays where he is knows what he knew.
LEMMA StillKnown ==
  ASSUME Shape, Existing, AllKnown, proc' = proc, made' = made, RunsStay
  PROVE  AllKnown'
<1> SUFFICES ASSUME NEW p \in Procs PROVE Known(p)'
  BY DEF AllKnown
<1>1. Known(p) /\ proc'[p] = proc[p] /\ NextId(p)' = NextId(p)
  BY DEF AllKnown, NextId
<1>2. proc'[p].pc \in {"flip", "start"} => run'[NextId(p)'] # "none"
  BY <1>1, NextIdExists DEF Known, RunsStay
<1> QED BY <1>1, <1>2 DEF Known

\* Runs, people and deploys speak of tasks and runs that exist.
LEMMA WorldKnown ==
  ASSUME Shape, Existing, AllKnown, RunStep \/ PeopleStep \/ CapReached
  PROVE  Existing' /\ AllKnown'
<1>r. ASSUME NEW id \in RunIds, NEW o \in Outcomes \cup {"merged"}, run[id] # "none",
             run' = [run EXCEPT ![id] = o], UNCHANGED <<task, made, started, proc>>,
             unwritten' = unwritten \cup {[task |-> id[1], outcome |-> o]}
      PROVE  Existing' /\ AllKnown'
  <2>1. id[1] \in 1..made
    <3>1. id[1] \in Nat \ {0}
      BY TasksNat DEF RunIds
    <3> QED BY <1>r, <3>1 DEF Existing, Shape
  <2>2. o # "none"
    BY ChoicesAssumption
  <2>3. RunsStay
    BY <1>r, <2>2 DEF RunsStay, Shape
  <2>4. \A x \in RunIds : run'[x] # "none" => x[1] <= made'
    BY <1>r DEF Existing, Shape
  <2>5. run' \in [RunIds -> Outcomes \cup {"none", "active", "merged"}]
    BY <1>r DEF Existing
  <2>6. started' \subseteq {x \in RunIds : run'[x] # "none"}
    BY <1>r, <2>3 DEF Existing, RunsStay
  <2>7. unwritten' \subseteq [task : 1..made', outcome : Outcomes \cup {"merged"}]
    BY <1>r, <2>1 DEF Existing
  <2>8. Existing'
    BY <1>r, <2>4, <2>5, <2>6, <2>7 DEF Existing
  <2> QED BY <1>r, <2>3, <2>8, StillKnown
<1>s. ASSUME NEW t \in Tasks, t <= made, NEW s \in TaskStates,
             task' = [task EXCEPT ![t] = s], UNCHANGED <<made, run, started, proc>>,
             unwritten' \subseteq unwritten
      PROVE  Existing' /\ AllKnown'
  BY <1>s, RowSet, StillKnown DEF RunsStay
<1>n. ASSUME UNCHANGED <<task, made, runVars, proc>>
      PROVE  Existing' /\ AllKnown'
  BY <1>n, SameRows, StillKnown, RunsKept
<1>1. ASSUME NEW id \in RunIds, RunEnds(id) PROVE Existing' /\ AllKnown'
  <2>1. PICK o \in Outcomes : /\ run' = [run EXCEPT ![id] = o]
                              /\ unwritten' = unwritten \cup {[task |-> id[1], outcome |-> o]}
    BY <1>1 DEF RunEnds
  <2>2. run[id] # "none" /\ UNCHANGED <<task, made, started, proc>>
    BY <1>1 DEF RunEnds, taskVars
  <2> QED BY <1>r, <2>1, <2>2
<1>2. ASSUME NEW id \in RunIds, LandHeld(id) PROVE Existing' /\ AllKnown'
  <2>1. /\ run' = [run EXCEPT ![id] = "merged"] /\ run[id] # "none"
        /\ unwritten' = unwritten \cup {[task |-> id[1], outcome |-> "merged"]}
        /\ UNCHANGED <<task, made, started, proc>>
    BY <1>2 DEF LandHeld, taskVars
  <2> QED BY <1>r, <2>1
<1>3. ASSUME NEW w \in unwritten, RunWritesTask(w) PROVE Existing' /\ AllKnown'
  <2> DEFINE s == IF w.outcome = "merged" THEN "merged" ELSE "blocked"
  <2>1. /\ task' = [task EXCEPT ![w.task] = s] /\ unwritten' \subseteq unwritten
        /\ UNCHANGED <<made, run, started, proc>>
    BY <1>3 DEF RunWritesTask
  <2>2. s \in TaskStates
    BY DEF TaskStates
  <2> HIDE DEF s
  <2>3. w.task \in Tasks /\ w.task <= made
    BY TasksNat, LimitsAssumption DEF Existing, Shape
  <2> QED BY <1>s, <2>1, <2>2, <2>3
<1>4. ASSUME NEW t \in Tasks, NEW s \in EditStates, EditTask(t, s)
      PROVE  Existing' /\ AllKnown'
  <2>1. s \in TaskStates
    BY ChoicesAssumption DEF TaskStates
  <2>2. /\ t <= made /\ task' = [task EXCEPT ![t] = s]
        /\ UNCHANGED <<made, run, started, unwritten, proc>>
    BY <1>4 DEF EditTask, runVars
  <2> QED BY <1>s, <2>1, <2>2
<1>5. CASE (\E on \in BOOLEAN : SetAutonomy(on)) \/ Deploy \/ CapReached
  <2>1. UNCHANGED <<task, made, runVars, proc>>
    BY <1>5 DEF SetAutonomy, Deploy, CapReached, taskVars
  <2> QED BY <1>n, <2>1
<1> QED BY <1>1, <1>2, <1>3, <1>4, <1>5 DEF RunStep, PeopleStep

\* A process that is cut off is at its end and remembers nothing.
LEMMA FaultKnown ==
  ASSUME Shape, TodoKinds, Existing, AllKnown, Fault
  PROVE  Existing' /\ AllKnown'
<1>1. /\ UNCHANGED <<task, made, runVars>>
      /\ \A q \in Procs : proc'[q] = proc[q] \/ proc'[q] = Fresh(End(q))
  BY FaultShape DEF taskVars
<1> SUFFICES ASSUME NEW q \in Procs PROVE Known(q)'
  BY <1>1, SameRows DEF AllKnown
<1>2. CASE proc'[q] = Fresh(End(q))
  BY <1>1, <1>2, FreshKnown DEF End, Shape
<1>3. CASE proc'[q] = proc[q]
  BY <1>1, <1>3 DEF Known, AllKnown, NextId, runVars
<1> QED BY <1>1, <1>2, <1>3


-----------------------------------------------------------------------------
(***************************************************************************)
(* Counters and dials                                                      *)
(***************************************************************************)

\* A statement of the loop changes the goal and its counter only so: ...
LEMMA StepWithin ==
  ASSUME Shape, Within, AllKnown, Step
  PROVE  Within'
<1>1. ASSUME NEW p \in Procs, PlannerStep(p) PROVE Within'
  <2>1. UNCHANGED <<autonomy, iterations, spent, bookVars>> /\ goal' \in {goal, "active"}
    BY <1>1 DEF PlannerStep, Plan, Fill, ActivateGoal, goalVars
  <2> QED BY <2>1 DEF Within, bookVars
<1>2. ASSUME NEW p \in Procs, ProgressStep(p) PROVE Within'
  <2>1. CASE BumpIterations(p)
    <3>1. /\ UNCHANGED <<goal, autonomy, spent, bookVars>>
          /\ iterations' = proc[p].iterations + 1
      BY <2>1 DEF BumpIterations
    <3>2. proc[p].iterations < MAX_ITERATIONS /\ proc[p].iterations \in Nat
      BY <2>1 DEF BumpIterations, AllKnown, Known, Shape, Locals
    <3>3. iterations' <= MAX_ITERATIONS
      BY <3>1, <3>2, LimitsAssumption
    <3> QED BY <3>1, <3>3 DEF Within, bookVars
  <2>2. CASE ~BumpIterations(p)
    <3>1. UNCHANGED <<autonomy, iterations, spent, bookVars>> /\ goal' \in {goal, "done"}
      BY <1>2, <2>2 DEF ProgressStep, ReadGoal, ReadRows, Promote, PromoteLive, CloseGoal,
                        InsertRetry, goalVars
    <3> QED BY <3>1 DEF Within, bookVars
  <2> QED BY <2>1, <2>2
<1>3. ASSUME NEW p \in Procs, TickStep(p) PROVE Within'
  <2>1. UNCHANGED <<goalVars, spent, faults, edits, vouched>>
    BY <1>3 DEF TickStep, ReadOpen, PickTask, TickEnds, InsertRun, FlipTask, StartRun, bookVars
  <2> QED BY <2>1 DEF Within, goalVars
<1>4. CASE CycleStep
  <2>1. UNCHANGED <<goal, iterations, spent, bookVars>>
    BY <1>4 DEF CycleStep, CycleStart, CycleBudget, ListGoals, CycleGuard, PauseGoal,
                AllowGoals, goalVars
  <2>2. autonomy' \in BOOLEAN
    BY <1>4 DEF CycleStep, CycleStart, CycleBudget, ListGoals, CycleGuard, PauseGoal,
                AllowGoals, goalVars, Within
  <2> QED BY <2>1, <2>2 DEF Within, bookVars
<1>5. CASE RunStep
  <2>1. UNCHANGED <<goalVars, spent, bookVars>>
    BY <1>5 DEF RunStep, RunEnds, LandHeld, RunWritesTask
  <2> QED BY <2>1 DEF Within, goalVars, bookVars
<1>6. ASSUME NEW on \in BOOLEAN, SetAutonomy(on) PROVE Within'
  <2>1. /\ UNCHANGED <<goal, iterations, spent, faults, vouched>>
        /\ autonomy' = on /\ edits < MaxEdits /\ edits' = edits + 1
    BY <1>6 DEF SetAutonomy
  <2> QED BY <2>1, LimitsAssumption DEF Within
<1>7. ASSUME NEW t \in Tasks, NEW s \in EditStates, EditTask(t, s) PROVE Within'
  <2>1. /\ UNCHANGED <<goalVars, spent, faults>> /\ edits < MaxEdits /\ edits' = edits + 1
        /\ vouched' \in {vouched, vouched \cup {t}}
    BY <1>7 DEF EditTask
  <2> QED BY <2>1, LimitsAssumption DEF Within, goalVars
<1>8. CASE Deploy \/ CapReached
  <2>1. UNCHANGED <<goal, autonomy, iterations, bookVars>> /\ spent' \in BOOLEAN
    BY <1>8 DEF Deploy, CapReached, goalVars, Within
  <2> QED BY <2>1 DEF Within, bookVars
<1>9. CASE Fault
  <2>1. UNCHANGED <<goalVars, spent, edits, vouched>> /\ faults < MaxFaults /\ faults' = faults + 1
    BY <1>9 DEF Fault, Crash, Fails
  <2> QED BY <2>1, LimitsAssumption DEF Within, goalVars
<1> QED BY <1>1, <1>2, <1>3, <1>4, <1>5, <1>6, <1>7, <1>8, <1>9 DEF Step, PeopleStep

-----------------------------------------------------------------------------
(***************************************************************************)
(* The guard and what it remembers                                         *)
(***************************************************************************)

\* A title is given with its row, and a new row changes the rows.
LEMMA TitlesFollowRows ==
  ASSUME Shape, Existing, Step, task' = task
  PROVE  title' = title
<1>1. ASSUME NEW ti, Insert(ti) PROVE FALSE
  <2>1. made \in Nat /\ made < MaxTasks /\ made + 1 \in Tasks
    BY <1>1, LimitsAssumption, TasksNat DEF Insert, Shape
  <2>2. task[made + 1] = "none"
    BY <2>1 DEF Existing
  <2>3. task' = [task EXCEPT ![made + 1] = "open"]
    BY <1>1 DEF Insert
  <2>4. task'[made + 1] = "open"
    BY <2>1, <2>3 DEF Shape, Rows
  <2> QED BY <2>2, <2>4
<1>2. ASSUME NEW p \in Procs, PlannerStep(p) PROVE title' = title
  BY <1>1, <1>2 DEF PlannerStep, Plan, Fill, ActivateGoal, taskVars
<1>3. ASSUME NEW p \in Procs, ProgressStep(p) PROVE title' = title
  BY <1>1, <1>3 DEF ProgressStep, ReadGoal, ReadRows, Promote, PromoteLive, CloseGoal,
                    InsertRetry, BumpIterations, taskVars
<1>4. ASSUME NEW p \in Procs, TickStep(p) PROVE title' = title
  BY <1>4 DEF TickStep, ReadOpen, PickTask, TickEnds, InsertRun, FlipTask, StartRun, taskVars
<1>5. CASE CycleStep
  BY <1>5, CycleMoves DEF taskVars
<1>6. CASE RunStep \/ PeopleStep \/ CapReached
  BY <1>6 DEF RunStep, RunEnds, LandHeld, RunWritesTask, PeopleStep, SetAutonomy, EditTask,
              Deploy, CapReached, taskVars
<1>7. CASE Fault
  BY <1>7 DEF Fault, Crash, Fails, taskVars
<1> QED BY <1>2, <1>3, <1>4, <1>5, <1>6, <1>7 DEF Step

\* A fingerprint counts tasks.
LEMMA FingerprintKind ==
  /\ Fingerprint \in [Titles -> 0..MaxTasks]
  /\ task' = task /\ title' = title => Fingerprint' = Fingerprint
<1>1. ASSUME NEW S \in SUBSET Tasks PROVE Cardinality(S) \in 0..MaxTasks
  <2>1. IsFiniteSet(Tasks) /\ Cardinality(Tasks) = MaxTasks
    BY FS_Interval, LimitsAssumption DEF Tasks
  <2>2. IsFiniteSet(S) /\ Cardinality(S) <= MaxTasks
    BY <2>1, FS_Subset
  <2> QED BY <2>2, FS_CardinalityType, LimitsAssumption
<1>2. Fingerprint \in [Titles -> 0..MaxTasks]
  BY <1>1 DEF Fingerprint
<1> QED BY <1>2 DEF Fingerprint

\* Only the guard adds to the trail, and only the clock and a restart clear it.
LEMMA TrailSteps ==
  ASSUME Step
  PROVE  trail' = trail \/ trail' = NoTrail \/ CycleGuard
<1>1. ASSUME NEW p \in Procs, PlannerStep(p) PROVE trail' = trail
  BY <1>1 DEF PlannerStep, Plan, Fill, ActivateGoal
<1>2. ASSUME NEW p \in Procs, ProgressStep(p) PROVE trail' = trail \/ trail' = NoTrail
  BY <1>2 DEF ProgressStep, ReadGoal, ReadRows, Promote, PromoteLive, CloseGoal,
              InsertRetry, BumpIterations
<1>3. ASSUME NEW p \in Procs, TickStep(p) PROVE trail' = trail
  BY <1>3 DEF TickStep, ReadOpen, PickTask, TickEnds, InsertRun, FlipTask, StartRun
<1>4. CASE CycleStep
  BY <1>4 DEF CycleStep, CycleStart, CycleBudget, ListGoals, PauseGoal, AllowGoals
<1>5. CASE RunStep \/ PeopleStep \/ CapReached
  BY <1>5 DEF RunStep, RunEnds, LandHeld, RunWritesTask, PeopleStep, SetAutonomy, EditTask,
              Deploy, CapReached
<1>6. CASE Fault
  BY <1>6 DEF Fault, Crash, Fails
<1> QED BY <1>1, <1>2, <1>3, <1>4, <1>5, <1>6 DEF Step

\* A tick goes through its own places.
LEMMA TickPlaces ==
  ASSUME Shape, NEW p \in Procs, TickStep(p)
  PROVE  Others(p) /\ proc'[p].pc \in {"allow", "pick", "row", "flip", "start", End(p)}
<1>0. proc[p] \in Locals
  BY DEF Shape
<1>1. CASE ReadOpen(p)
  <2>1. \E at \in {"allow", "pick"} :
          proc' = [proc EXCEPT ![p].todo = In(task, {"open"}), ![p].pc = at]
    BY <1>1 DEF ReadOpen
  <2>2. PICK at \in {"allow", "pick"} :
          proc' = [proc EXCEPT ![p].todo = In(task, {"open"}), ![p].pc = at]
    BY <2>1
  <2>3. Others(p) /\ proc'[p] = [proc[p] EXCEPT !.todo = In(task, {"open"}), !.pc = at]
    BY <2>2 DEF Shape, Others
  <2> QED BY <1>0, <2>3 DEF Locals
<1>2. CASE PickTask(p)
  <2>1. \E at \in {"row", "pick"}, t \in proc[p].todo :
          proc' = [proc EXCEPT ![p].todo = @ \ {t}, ![p].cur = t, ![p].pc = at]
    BY <1>2 DEF PickTask
  <2>2. PICK at \in {"row", "pick"}, t \in proc[p].todo :
          proc' = [proc EXCEPT ![p].todo = @ \ {t}, ![p].cur = t, ![p].pc = at]
    BY <2>1
  <2>3. Others(p) /\ proc'[p] = [proc[p] EXCEPT !.todo = @ \ {t}, !.cur = t, !.pc = at]
    BY <2>2 DEF Shape, Others
  <2> QED BY <1>0, <2>3 DEF Locals
<1>3. CASE TickEnds(p)
  <2>1. Others(p) /\ proc'[p] = Fresh(End(p))
    BY <1>3, LeaveEffect DEF TickEnds
  <2>2. proc'[p].pc = End(p)
    BY <2>1 DEF Fresh
  <2> QED BY <2>1, <2>2
<1>4. CASE InsertRun(p)
  <2>1. CASE Goto(p, "flip")
    BY <2>1, GotoEffect
  <2>2. CASE Leave(p, End(p))
    <3>1. Others(p) /\ proc'[p] = Fresh(End(p))
      BY <2>2, LeaveEffect
    <3>2. proc'[p].pc = End(p)
      BY <3>1 DEF Fresh
    <3> QED BY <3>1, <3>2
  <2> QED BY <1>4, <2>1, <2>2 DEF InsertRun
<1>5. CASE FlipTask(p)
  BY <1>5, GotoEffect DEF FlipTask
<1>6. CASE StartRun(p)
  <2>1. proc' = [proc EXCEPT ![p].n = @ + 1, ![p].cur = 0, ![p].pc = "pick"]
    BY <1>6 DEF StartRun
  <2>2. Others(p) /\ proc'[p] = [proc[p] EXCEPT !.n = @ + 1, !.cur = 0, !.pc = "pick"]
    BY <2>1 DEF Shape, Others
  <2> QED BY <1>0, <2>2 DEF Locals
<1> QED BY <1>1, <1>2, <1>3, <1>4, <1>5, <1>6 DEF TickStep


\* Only the guard lets the clock judge, ...
LEMMA ClockEnters ==
  ASSUME Shape, TodoKinds, SawDeploy, Step, ~CycleGuard, proc'[Clock].pc \in ProgressPcs
  PROVE  proc[Clock].pc \in ProgressPcs
<1>0. Clock \in Procs
  BY DEF Procs
<1>o. ASSUME NEW p \in Procs, Others(p), p # Clock PROVE proc'[Clock] = proc[Clock]
  BY <1>0, <1>o DEF Others
<1>1. ASSUME NEW p \in Procs, PlannerStep(p) PROVE proc[Clock].pc \in ProgressPcs
  <2>1. Others(p) /\ proc'[p].pc \in {"fill", "done"}
    BY <1>1, PlannerShape DEF Moves, Others
  <2> QED BY <1>o, <2>1 DEF ProgressPcs
<1>2. ASSUME NEW p \in Procs, ProgressStep(p) PROVE proc[Clock].pc \in ProgressPcs
  <2>1. Others(p) /\ proc[p].pc \in ProgressPcs
    BY <1>2, ProgressShape DEF Moves, Others
  <2> QED BY <1>o, <2>1
<1>3. ASSUME NEW p \in Procs, TickStep(p) PROVE proc[Clock].pc \in ProgressPcs
  <2>1. Others(p) /\ proc'[p].pc \in {"allow", "pick", "row", "flip", "start", End(p)}
    BY <1>3, TickPlaces
  <2> QED BY <1>o, <2>1 DEF ProgressPcs, End
<1>4. CASE CycleStep
  <2>1. PICK at \in {"idle", "budget", "list", "guard", "pause", "tick", "pick"} :
          Goto(Clock, at) \/ Leave(Clock, at)
    <3>1. ASSUME CycleStart PROVE Goto(Clock, "budget")
      BY <3>1 DEF CycleStart
    <3>2. ASSUME CycleBudget PROVE Goto(Clock, "idle") \/ Goto(Clock, "list")
      BY <3>2 DEF CycleBudget
    <3>3. ASSUME ListGoals PROVE Goto(Clock, "guard") \/ Goto(Clock, "tick")
      BY <3>3 DEF ListGoals
    <3>4. ASSUME PauseGoal PROVE Goto(Clock, "tick")
      BY <3>4 DEF PauseGoal
    <3>5. ASSUME AllowGoals PROVE Goto(Clock, "pick") \/ Leave(Clock, "idle")
      BY <3>5 DEF AllowGoals
    <3> HIDE DEF Goto, Leave
    <3> QED BY <1>4, <3>1, <3>2, <3>3, <3>4, <3>5 DEF CycleStep
  <2>2. proc'[Clock].pc = at
    BY <1>0, <2>1, GotoEffect, LeaveEffect, FreshFields
  <2> QED BY <2>2 DEF ProgressPcs
<1>5. CASE RunStep \/ PeopleStep \/ CapReached
  BY <1>5, WorldShape
<1>6. CASE Fault
  <2>1. proc'[Clock] = proc[Clock] \/ proc'[Clock] = Fresh(End(Clock))
    BY <1>0, <1>6, FaultShape
  <2>2. Fresh(End(Clock)).pc = "idle"
    BY DEF Fresh, End
  <2> QED BY <2>1, <2>2 DEF ProgressPcs
<1> QED BY <1>1, <1>2, <1>3, <1>4, <1>5, <1>6 DEF Step

\* ... and a trip ends with a cleared trail or with a fault.
LEMMA LeavesPause ==
  ASSUME Shape, TodoKinds, SawDeploy, Step, At(Clock, "pause"), proc'[Clock].pc # "pause"
  PROVE  trail' = NoTrail \/ faults' = faults + 1
<1>0. Clock \in Procs
  BY DEF Procs
<1>o. ASSUME NEW p \in Procs, Moves(p), proc[p].pc # "pause" PROVE FALSE
  <2>1. p # Clock
    BY <1>o
  <2> QED BY <1>0, <1>o, <2>1 DEF Moves
<1>1. ASSUME NEW p \in Procs, PlannerStep(p) PROVE FALSE
  BY <1>1, <1>o, PlannerShape
<1>2. ASSUME NEW p \in Procs, ProgressStep(p) PROVE FALSE
  BY <1>2, <1>o, ProgressShape DEF ProgressPcs
<1>3. ASSUME NEW p \in Procs, TickStep(p) PROVE FALSE
  BY <1>3, <1>o, TickShape DEF TickPcs
<1>4. CASE CycleStep
  BY <1>4 DEF CycleStep, CycleStart, CycleBudget, ListGoals, CycleGuard, PauseGoal, AllowGoals
<1>5. CASE RunStep \/ PeopleStep \/ CapReached
  BY <1>5, WorldShape
<1>6. CASE Fault
  BY <1>6 DEF Fault, Crash, Fails
<1> QED BY <1>1, <1>2, <1>3, <1>4, <1>5, <1>6 DEF Step

\* Where the guard leads, and that faults are none of its steps.
LEMMA GuardEffect ==
  ASSUME Shape, CycleGuard
  PROVE  /\ trail' = Looked(Fingerprint) /\ proc[Clock].pc = "guard"
         /\ proc'[Clock].pc = (IF Trips(trail') THEN "pause" ELSE "goal")
         /\ UNCHANGED <<task, title, faults>>
<1>1. /\ trail' = Looked(Fingerprint) /\ proc[Clock].pc = "guard"
      /\ Goto(Clock, IF Trips(trail') THEN "pause" ELSE "goal")
      /\ UNCHANGED <<task, title, faults>>
  BY DEF CycleGuard, taskVars, bookVars
<1>2. Clock \in Procs
  BY DEF Procs
<1> QED BY <1>1, <1>2, GotoEffect

\* What Looked adds to a trail.
LEMMA LookedEffect ==
  ASSUME Watching, NEW fp \in [Titles -> 0..MaxTasks], trail' = Looked(fp)
  PROVE  /\ trail'.n = trail.n + 1
         /\ trail'.last \in Seq([Titles -> 0..MaxTasks])
         /\ Len(trail'.last) = IF trail.n + 1 < repeatWindow THEN trail.n + 1 ELSE repeatWindow
         /\ Len(trail'.last) >= 1 /\ trail'.last[Len(trail'.last)] = fp
         /\ \A i \in 1..(Len(trail'.last) - 1) :
              trail'.last[i] = trail.last[i + Len(trail.last) - Len(trail'.last) + 1]
<1> DEFINE Fps == [Titles -> 0..MaxTasks]
           old == trail.last
           all == Append(old, fp)
           k == Len(old)
           M == Len(trail'.last)
<1>1. old \in Seq(Fps) /\ k \in Nat /\ trail.n \in Nat
  BY DEF Watching
<1>2. /\ all \in Seq(Fps) /\ Len(all) = k + 1 /\ all[k + 1] = fp
      /\ \A i \in 1..k : all[i] = old[i]
  BY <1>1, AppendProperties
<1>3. trail'.n = trail.n + 1 /\ trail'.last = IF Len(all) > repeatWindow THEN Tail(all) ELSE all
  BY DEF Looked
<1>4. k = IF trail.n < repeatWindow THEN trail.n ELSE repeatWindow
  BY DEF Watching
<1>5. /\ Tail(all) \in Seq(Fps) /\ Len(Tail(all)) = k
      /\ \A i \in 1..k : Tail(all)[i] = all[i + 1]
  BY <1>1, <1>2, HeadTailProperties
<1> SUFFICES /\ trail'.last \in Seq(Fps) /\ M >= 1 /\ trail'.last[M] = fp
             /\ M = IF trail.n + 1 < repeatWindow THEN trail.n + 1 ELSE repeatWindow
             /\ \A i \in 1..(M - 1) : trail'.last[i] = old[i + k - M + 1]
  BY <1>3
<1> HIDE DEF all, k, old, M
<1>6. CASE k + 1 > repeatWindow
  <2>1. trail'.last = Tail(all) /\ k = repeatWindow /\ k >= 1 /\ ~(trail.n + 1 < repeatWindow)
    BY <1>1, <1>2, <1>3, <1>4, <1>6, LimitsAssumption
  <2>2. trail'.last[k] = fp
    BY <1>1, <1>2, <1>5, <2>1
  <2>3. \A i \in 1..(k - 1) : trail'.last[i] = old[i + 1]
    BY <1>1, <1>2, <1>5, <2>1
  <2>4. M = k /\ M = IF trail.n + 1 < repeatWindow THEN trail.n + 1 ELSE repeatWindow
    BY <1>5, <2>1 DEF M
  <2>5. \A i \in 1..(M - 1) : trail'.last[i] = old[i + k - M + 1]
    <3> SUFFICES ASSUME NEW i \in 1..(M - 1) PROVE trail'.last[i] = old[i + k - M + 1]
      OBVIOUS
    <3>1. i \in 1..(k - 1) /\ i + k - M + 1 = i + 1
      BY <1>1, <2>4
    <3> QED BY <2>3, <3>1
  <2> QED BY <1>5, <2>1, <2>2, <2>4, <2>5
<1>7. CASE ~(k + 1 > repeatWindow)
  <2>1. trail'.last = all /\ k = trail.n
    BY <1>1, <1>2, <1>3, <1>4, <1>7, LimitsAssumption
  <2>2. Len(trail'.last) = k + 1
    BY <1>2, <2>1
  <2>3. k + 1 = IF trail.n + 1 < repeatWindow THEN trail.n + 1 ELSE repeatWindow
    BY <1>1, <1>7, <2>1, LimitsAssumption
  <2>5. M = k + 1 /\ M = IF trail.n + 1 < repeatWindow THEN trail.n + 1 ELSE repeatWindow
    BY <2>2, <2>3 DEF M
  <2>6. \A i \in 1..(M - 1) : trail'.last[i] = old[i + k - M + 1]
    <3> SUFFICES ASSUME NEW i \in 1..(M - 1) PROVE trail'.last[i] = old[i + k - M + 1]
      OBVIOUS
    <3>1. i \in 1..k /\ i + k - M + 1 = i
      BY <1>1, <2>5
    <3> QED BY <1>2, <2>1, <3>1
  <2>7. M >= 1 /\ trail'.last[M] = fp
    BY <1>1, <1>2, <2>1, <2>5
  <2> QED BY <1>2, <2>1, <2>5, <2>6, <2>7
<1> QED BY <1>6, <1>7

\* A check of the guard: enough equal records trip it.
LEMMA GuardWatches ==
  ASSUME Shape, Within, Watching, CycleGuard, CountQuiet
  PROVE  Watching'
<1> DEFINE L == Len(trail.last)
           M == Len(trail'.last)
<1>1. /\ trail' = Looked(Fingerprint)
      /\ proc'[Clock].pc = (IF Trips(trail') THEN "pause" ELSE "goal")
      /\ proc[Clock].pc = "guard" /\ UNCHANGED <<task, title, faults>>
  BY GuardEffect
<1>2. Fingerprint \in [Titles -> 0..MaxTasks] /\ Fingerprint' = Fingerprint
  BY <1>1, FingerprintKind
<1>3. /\ trail'.n = trail.n + 1
      /\ trail'.last \in Seq([Titles -> 0..MaxTasks])
      /\ M = IF trail.n + 1 < repeatWindow THEN trail.n + 1 ELSE repeatWindow
      /\ M >= 1 /\ trail'.last[M] = Fingerprint
      /\ \A i \in 1..(M - 1) : trail'.last[i] = trail.last[i + L - M + 1]
  BY <1>1, <1>2, LookedEffect
<1>4. /\ trail.n \in Nat /\ quiet \in 0..trail.n /\ L \in Nat
      /\ L = IF trail.n < repeatWindow THEN trail.n ELSE repeatWindow
      /\ \A i \in 1..L : i + quiet > L => trail.last[i] = Fingerprint
  BY DEF Watching
<1>w. trail.n <= maxIterations + faults
  BY <1>1, LimitsAssumption DEF Watching, Within
<1>5. quiet' = quiet + 1
  BY <1>1, <1>3, <1>4 DEF CountQuiet
<1>m. /\ M = IF trail.n + 1 < repeatWindow THEN trail.n + 1 ELSE repeatWindow
      /\ L = IF trail.n < repeatWindow THEN trail.n ELSE repeatWindow
      /\ trail.n \in Nat
  BY <1>3, <1>4
<1> HIDE DEF L, M
<1>6. \A i \in 1..M : i + quiet' > M => trail'.last[i] = Fingerprint'
  <2> SUFFICES ASSUME NEW i \in 1..M, i + quiet' > M PROVE trail'.last[i] = Fingerprint
    BY <1>2
  <2>1. CASE i = M
    BY <1>3, <2>1
  <2>2. CASE i # M
    <3> DEFINE j == i + L - M + 1
    <3>1. M \in Nat /\ i \in 1..(M - 1)
      BY <1>3, <1>4, <2>2, LimitsAssumption
    <3>2. j \in 1..L /\ j + quiet > L
      <4>1. M = L \/ M = L + 1
        BY <1>m, LimitsAssumption
      <4>2. i + quiet + 1 > M /\ i \in Nat /\ quiet \in Nat
        BY <1>4, <1>5, <3>1
      <4>3. CASE M = L
        <5>1. j = i + 1
          BY <1>4, <4>2, <4>3
        <5> QED BY <1>4, <3>1, <4>2, <4>3, <5>1
      <4>4. CASE M = L + 1
        <5>1. j = i
          BY <1>4, <4>2, <4>4
        <5> QED BY <1>4, <3>1, <4>2, <4>4, <5>1
      <4> QED BY <4>1, <4>3, <4>4
    <3> QED BY <1>3, <1>4, <3>1, <3>2
  <2> QED BY <2>1, <2>2
<1>7. quiet' >= repeatWindow => Trips(trail')
  <2> SUFFICES ASSUME quiet' >= repeatWindow PROVE Trips(trail')
    OBVIOUS
  <2>1. M = repeatWindow
    BY <1>3, <1>4, <1>5, LimitsAssumption
  <2>2. \A i \in 1..repeatWindow : trail'.last[i] = Fingerprint
    BY <1>2, <1>4, <1>5, <1>6, <2>1, LimitsAssumption
  <2>3. \A i \in 1..repeatWindow : trail'.last[i] = trail'.last[1]
    BY <2>2, LimitsAssumption
  <2> QED BY <2>1, <2>3 DEF Trips, M
<1>8. StallIsCaught'
  BY <1>1, <1>7 DEF StallIsCaught
<1>9. faults \in Nat
  BY DEF Within
<1>10. trail'.n <= maxIterations + faults' + (IF At(Clock, "pause")' THEN 1 ELSE 0)
  <2>1. CASE Trips(trail')
    BY <1>1, <1>3, <1>4, <1>w, <1>9, <2>1, LimitsAssumption
  <2>2. CASE ~Trips(trail')
    BY <1>1, <1>3, <1>4, <1>9, <2>2, LimitsAssumption DEF Trips
  <2> QED BY <2>1, <2>2
<1>11. quiet' \in 0..trail'.n /\ trail'.n \in Nat
  BY <1>3, <1>4, <1>5
<1> QED BY <1>3, <1>6, <1>8, <1>10, <1>11 DEF Watching, M

LEMMA StepWatching ==
  ASSUME Shape, TodoKinds, SawDeploy, Existing, Within, Within', Watching, Step, CountQuiet,
         faults' = faults \/ faults' = faults + 1
  PROVE  Watching'
<1>0. faults \in Nat /\ faults' \in Nat /\ faults' >= faults
  BY DEF Within
<1>1. CASE CycleGuard
  BY <1>1, GuardWatches
<1>2. CASE trail' = NoTrail
  <2>1. trail'.n = 0 /\ trail'.last = <<>> /\ quiet' = 0
    BY <1>2 DEF NoTrail, CountQuiet
  <2>2. Len(trail'.last) = 0 /\ trail'.last \in Seq([Titles -> 0..MaxTasks])
    BY <2>1
  <2>3. StallIsCaught'
    BY <2>1, LimitsAssumption DEF StallIsCaught
  <2>4. 0 <= maxIterations + faults' + (IF At(Clock, "pause")' THEN 1 ELSE 0)
    <3>1. maxIterations \in Nat
      BY LimitsAssumption
    <3>2. \A x, y \in Nat : 0 <= x + y + 1 /\ 0 <= x + y + 0
      OBVIOUS
    <3> QED BY <1>0, <3>1, <3>2
  <2>5. Len(trail'.last) = IF trail'.n < repeatWindow THEN trail'.n ELSE repeatWindow
    BY <2>1, <2>2, LimitsAssumption
  <2>6. \A i \in 1..Len(trail'.last) : FALSE
    BY <2>2
  <2>7. trail'.n \in Nat /\ quiet' \in 0..trail'.n
    BY <2>1
  <2>8. trail'.n <= maxIterations + faults' + (IF At(Clock, "pause")' THEN 1 ELSE 0)
    BY <2>1, <2>4
  <2>9. \A i \in 1..Len(trail'.last) :
          i + quiet' > Len(trail'.last) => trail'.last[i] = Fingerprint'
    BY <2>6
  <2> QED BY <2>2, <2>3, <2>5, <2>7, <2>8, <2>9 DEF Watching
<1>3. CASE ~CycleGuard /\ trail' # NoTrail
  <2>1. trail' = trail
    BY <1>3, TrailSteps
  <2>2. trail.n \in Nat /\ quiet \in 0..trail.n
    BY DEF Watching
  <2>3. quiet' = IF task' # task THEN 0 ELSE quiet
    BY <2>1, <2>2 DEF CountQuiet
  <2>4. \A i \in 1..Len(trail.last) :
          i + quiet' > Len(trail.last) => trail.last[i] = Fingerprint'
    <3>1. CASE task' # task
      <4>1. quiet' = 0 /\ Len(trail.last) \in Nat
        BY <2>3, <3>1 DEF Watching
      <4> QED BY <4>1
    <3>2. CASE task' = task
      <4>1. Fingerprint' = Fingerprint
        BY <3>2, TitlesFollowRows, FingerprintKind
      <4> QED BY <2>3, <3>2, <4>1 DEF Watching
    <3> QED BY <3>1, <3>2
  <2>5. trail.n <= maxIterations + faults' + (IF At(Clock, "pause")' THEN 1 ELSE 0)
    <3>1. CASE At(Clock, "pause") /\ proc'[Clock].pc # "pause"
      <4>1. faults' = faults + 1
        BY <1>3, <3>1, LeavesPause
      <4> QED BY <1>0, <2>2, <3>1, <4>1, LimitsAssumption DEF Watching
    <3>2. CASE ~(At(Clock, "pause") /\ proc'[Clock].pc # "pause")
      BY <1>0, <2>2, <3>2, LimitsAssumption DEF Watching
    <3> QED BY <3>1, <3>2
  <2>6. StallIsCaught'
    <3> SUFFICES ASSUME quiet' >= repeatWindow PROVE proc'[Clock].pc \notin ProgressPcs
      BY DEF StallIsCaught, ProgressPcs
    <3>1. quiet >= repeatWindow
      BY <2>2, <2>3, LimitsAssumption
    <3>2. proc[Clock].pc \notin ProgressPcs
      BY <3>1 DEF Watching, StallIsCaught, ProgressPcs
    <3> QED BY <1>3, <3>2, ClockEnters
  <2> QED BY <2>1, <2>2, <2>3, <2>4, <2>5, <2>6 DEF Watching
<1> QED BY <1>1, <1>2, <1>3


-----------------------------------------------------------------------------
(***************************************************************************)
(* What the clock dispatches beyond the cap                                *)
(***************************************************************************)

\* Nobody but the clock's insert overspends.
LEMMA CapKept ==
  ASSUME Capped, UNCHANGED <<overspent, spent>>, proc'[Clock] = proc[Clock]
  PROVE  Capped'
BY DEF Capped

\* A tick of the clock, statement by statement.
LEMMA TickCapped ==
  ASSUME Shape, AllKnown, Capped, TickStep(Clock)
  PROVE  Capped'
<1>0. Clock \in Procs /\ proc[Clock] \in Locals /\ End(Clock) = "idle" /\ Known(Clock)
  BY DEF Procs, Shape, End, AllKnown
<1>n. /\ overspent \in Nat /\ proc[Clock].n \in Nat /\ budgetMax \in Nat
      /\ overspent <= budgetMax /\ proc[Clock].n <= budgetMax
  BY <1>0, LimitsAssumption DEF Capped, Locals, Known
<1>e. ASSUME proc'[Clock] = Fresh("idle"), UNCHANGED <<overspent, spent>>
      PROVE  Capped'
  <2>1. proc'[Clock].pc = "idle"
    BY <1>e DEF Fresh
  <2> QED BY <1>e, <2>1 DEF Capped, ProgressPcs
<1>1. CASE ReadOpen(Clock)
  <2>1. /\ UNCHANGED <<overspent, spent>> /\ At(Clock, "tick")
        /\ proc' = [proc EXCEPT ![Clock].todo = In(task, {"open"}), ![Clock].pc = "allow"]
    BY <1>1 DEF ReadOpen, bookVars
  <2>2. proc'[Clock] = [proc[Clock] EXCEPT !.todo = In(task, {"open"}), !.pc = "allow"]
    BY <1>0, <2>1 DEF Shape
  <2>3. proc'[Clock].pc = "allow" /\ overspent = 0
    BY <1>0, <2>1, <2>2 DEF Locals, Capped
  <2> QED BY <2>1, <2>3, LimitsAssumption DEF Capped, ProgressPcs
<1>2. CASE PickTask(Clock)
  <2>1. \E at \in {"row", "pick"}, t \in proc[Clock].todo :
          proc' = [proc EXCEPT ![Clock].todo = @ \ {t}, ![Clock].cur = t, ![Clock].pc = at]
    BY <1>2 DEF PickTask
  <2>2. PICK at \in {"row", "pick"}, t \in proc[Clock].todo :
          proc' = [proc EXCEPT ![Clock].todo = @ \ {t}, ![Clock].cur = t, ![Clock].pc = at]
    BY <2>1
  <2>3. proc'[Clock] = [proc[Clock] EXCEPT !.todo = @ \ {t}, !.cur = t, !.pc = at]
    BY <1>0, <2>2 DEF Shape
  <2>4. proc'[Clock].pc = at /\ proc'[Clock].n = proc[Clock].n
    BY <1>0, <2>3 DEF Locals
  <2>5. UNCHANGED <<overspent, spent>> /\ At(Clock, "pick")
    BY <1>2 DEF PickTask, bookVars
  <2> QED BY <2>4, <2>5 DEF Capped, ProgressPcs
<1>3. CASE TickEnds(Clock)
  <2>1. UNCHANGED <<overspent, spent>> /\ proc'[Clock] = Fresh("idle")
    BY <1>0, <1>3, LeaveEffect DEF TickEnds, bookVars
  <2> QED BY <1>e, <2>1
<1>4. CASE InsertRun(Clock)
  <2>1. At(Clock, "row") /\ spent' = spent /\ overspent <= proc[Clock].n
        /\ proc[Clock].n < budgetMax
    BY <1>0, <1>4 DEF InsertRun, Capped, Known
  <2>2. CASE run[NextId(Clock)] = "none"
    <3>1. Goto(Clock, "flip") /\ overspent' = IF spent THEN overspent + 1 ELSE overspent
      BY <1>4, <2>2 DEF InsertRun
    <3>2. proc'[Clock].pc = "flip" /\ proc'[Clock].n = proc[Clock].n
      BY <1>0, <3>1, GotoEffect DEF Keeps
    <3>3. overspent' <= proc[Clock].n + 1 /\ overspent' \in 0..budgetMax
      BY <1>n, <2>1, <3>1
    <3> QED BY <2>1, <3>1, <3>2, <3>3 DEF Capped, ProgressPcs
  <2>3. CASE run[NextId(Clock)] # "none"
    <3>1. proc'[Clock] = Fresh("idle") /\ overspent' = overspent
      BY <1>0, <1>4, <2>3, LeaveEffect DEF InsertRun
    <3> QED BY <1>e, <2>1, <3>1
  <2> QED BY <2>2, <2>3
<1>5. CASE FlipTask(Clock)
  <2>1. UNCHANGED <<overspent, spent>> /\ At(Clock, "flip") /\ Goto(Clock, "start")
    BY <1>5 DEF FlipTask, bookVars
  <2>2. proc'[Clock].pc = "start" /\ proc'[Clock].n = proc[Clock].n
    BY <1>0, <2>1, GotoEffect DEF Keeps
  <2> QED BY <2>1, <2>2 DEF Capped, ProgressPcs
<1>6. CASE StartRun(Clock)
  <2>1. /\ UNCHANGED <<overspent, spent>> /\ At(Clock, "start")
        /\ proc' = [proc EXCEPT ![Clock].n = @ + 1, ![Clock].cur = 0, ![Clock].pc = "pick"]
    BY <1>6 DEF StartRun, bookVars
  <2>2. proc'[Clock] = [proc[Clock] EXCEPT !.n = @ + 1, !.cur = 0, !.pc = "pick"]
    BY <1>0, <2>1 DEF Shape
  <2>3. proc'[Clock].pc = "pick" /\ proc'[Clock].n = proc[Clock].n + 1
    BY <1>0, <2>2 DEF Locals
  <2> QED BY <2>1, <2>3 DEF Capped, ProgressPcs
<1> QED BY <1>1, <1>2, <1>3, <1>4, <1>5, <1>6 DEF TickStep

\* The clock passes the budget check only below the cap, with nothing overspent.
LEMMA CycleCapped ==
  ASSUME Shape, Capped, CycleStep
  PROVE  Capped'
<1>0. Clock \in Procs /\ proc[Clock] \in Locals
  BY DEF Procs, Shape
<1>1. UNCHANGED <<overspent, spent>>
  BY CycleMoves DEF bookVars
<1>2. CASE CycleStart
  <2>1. proc'[Clock].pc = "budget"
    BY <1>0, <1>2, GotoEffect DEF CycleStart
  <2> QED BY <1>1, <2>1 DEF Capped, ProgressPcs
<1>3. CASE CycleBudget
  <2>1. Goto(Clock, "idle") \/ (Goto(Clock, "list") /\ ~spent)
    BY <1>3 DEF CycleBudget
  <2>2. proc'[Clock].pc = "idle" \/ (proc'[Clock].pc = "list" /\ ~spent)
    BY <1>0, <2>1, GotoEffect
  <2> QED BY <1>1, <2>2 DEF Capped, ProgressPcs
<1>4. CASE ListGoals \/ CycleGuard \/ PauseGoal
  <2>1. /\ proc[Clock].pc \in {"list", "guard", "pause"}
        /\ \E at \in {"guard", "tick", "pause", "goal"} : Goto(Clock, at)
    BY <1>4 DEF ListGoals, CycleGuard, PauseGoal
  <2>2. PICK at \in {"guard", "tick", "pause", "goal"} : Goto(Clock, at)
    BY <2>1
  <2>3. proc'[Clock].pc = at /\ overspent = 0
    BY <1>0, <2>1, <2>2, GotoEffect DEF Capped
  <2> QED BY <1>1, <2>3, LimitsAssumption DEF Capped, ProgressPcs
<1>5. CASE AllowGoals
  <2>1. At(Clock, "allow") /\ (Goto(Clock, "pick") \/ Leave(Clock, "idle"))
    BY <1>5 DEF AllowGoals
  <2>2. overspent = 0 /\ proc[Clock].n \in Nat
    BY <1>0, <2>1 DEF Capped, Locals
  <2>3. CASE Goto(Clock, "pick")
    <3>1. proc'[Clock].pc = "pick" /\ proc'[Clock].n = proc[Clock].n
      BY <1>0, <2>3, GotoEffect DEF Keeps
    <3> QED BY <1>1, <2>2, <3>1, LimitsAssumption DEF Capped, ProgressPcs
  <2>4. CASE Leave(Clock, "idle")
    <3>0. proc'[Clock] = Fresh("idle")
      BY <1>0, <2>4, LeaveEffect
    <3>1. proc'[Clock].pc = "idle"
      BY <3>0 DEF Fresh
    <3> QED BY <1>1, <3>1 DEF Capped, ProgressPcs
  <2> QED BY <2>1, <2>3, <2>4
<1> QED BY <1>2, <1>3, <1>4, <1>5 DEF CycleStep

LEMMA StepCapped ==
  ASSUME Shape, TodoKinds, SawDeploy, AllKnown, Capped, Step
  PROVE  Capped'
<1>0. Clock \in Procs
  BY DEF Procs
<1>1. ASSUME NEW p \in Procs, PlannerStep(p) PROVE Capped'
  <2>1. Others(p) /\ proc'[p].pc \in {"fill", "done"}
    BY <1>1, PlannerShape DEF Moves, Others
  <2>2. UNCHANGED <<overspent, spent>>
    BY <1>1 DEF PlannerStep, Plan, Fill, ActivateGoal, bookVars
  <2>3. CASE p = Clock
    BY <2>1, <2>2, <2>3 DEF Capped, ProgressPcs
  <2>4. CASE p # Clock
    BY <1>0, <2>1, <2>2, <2>4, CapKept DEF Others
  <2> QED BY <2>3, <2>4
<1>2. ASSUME NEW p \in Procs, ProgressStep(p) PROVE Capped'
  <2>1. /\ Others(p) /\ proc[p].pc \in ProgressPcs
        /\ proc'[p].pc \in ProgressPcs \cup {Judged(p)}
    BY <1>2, ProgressShape DEF Moves, Others
  <2>2. UNCHANGED <<overspent, spent>>
    BY <1>2 DEF ProgressStep, ReadGoal, ReadRows, Promote, PromoteLive, CloseGoal,
                InsertRetry, BumpIterations, bookVars
  <2>3. CASE p = Clock
    <3>1. overspent = 0 /\ proc'[Clock].pc \in ProgressPcs \cup {"tick"}
      BY <2>1, <2>3 DEF Capped, Judged
    <3> QED BY <2>2, <3>1, LimitsAssumption DEF Capped, ProgressPcs
  <2>4. CASE p # Clock
    BY <1>0, <2>1, <2>2, <2>4, CapKept DEF Others
  <2> QED BY <2>3, <2>4
<1>3. ASSUME NEW p \in Procs, TickStep(p) PROVE Capped'
  <2>1. CASE p = Clock
    BY <1>3, <2>1, TickCapped
  <2>2. CASE p # Clock
    <3>1. Others(p)
      BY <1>3, TickPlaces
    <3>2. UNCHANGED <<overspent, spent>>
      BY <1>3, <2>2 DEF TickStep, ReadOpen, PickTask, TickEnds, InsertRun, FlipTask, StartRun,
                        bookVars
    <3> QED BY <1>0, <2>2, <3>1, <3>2, CapKept DEF Others
  <2> QED BY <2>1, <2>2
<1>4. CASE CycleStep
  BY <1>4, CycleCapped
<1>5. CASE RunStep \/ PeopleStep
  <2>1. proc' = proc /\ UNCHANGED <<overspent, spent>>
    BY <1>5 DEF RunStep, RunEnds, LandHeld, RunWritesTask, PeopleStep, SetAutonomy, EditTask,
                Deploy, bookVars
  <2> QED BY <2>1, CapKept
<1>6. CASE CapReached
  BY <1>6 DEF CapReached, Capped, bookVars
<1>7. CASE Fault
  <2>1. UNCHANGED <<overspent, spent>>
    BY <1>7 DEF Fault, Crash, Fails
  <2>2. proc'[Clock] = proc[Clock] \/ proc'[Clock] = Fresh(End(Clock))
    BY <1>0, <1>7, FaultShape
  <2>3. Fresh(End(Clock)).pc = "idle"
    BY DEF Fresh, End
  <2>4. CASE proc'[Clock] = Fresh(End(Clock))
    BY <2>1, <2>3, <2>4 DEF Capped, ProgressPcs
  <2> QED BY <2>1, <2>2, <2>4, CapKept
<1> QED BY <1>1, <1>2, <1>3, <1>4, <1>5, <1>6, <1>7 DEF Step

-----------------------------------------------------------------------------
(***************************************************************************)
(* The bounds together                                                     *)
(***************************************************************************)

LEMMA FaultsCount == ASSUME Step PROVE faults' = faults \/ faults' = faults + 1
<1>1. ASSUME NEW p \in Procs, PlannerStep(p) PROVE faults' = faults
  BY <1>1 DEF PlannerStep, Plan, Fill, ActivateGoal, bookVars
<1>2. ASSUME NEW p \in Procs, ProgressStep(p) PROVE faults' = faults
  BY <1>2 DEF ProgressStep, ReadGoal, ReadRows, Promote, PromoteLive, CloseGoal,
              InsertRetry, BumpIterations, bookVars
<1>3. ASSUME NEW p \in Procs, TickStep(p) PROVE faults' = faults
  BY <1>3 DEF TickStep, ReadOpen, PickTask, TickEnds, InsertRun, FlipTask, StartRun, bookVars
<1>4. CASE CycleStep
  BY <1>4, CycleMoves DEF bookVars
<1>5. CASE RunStep \/ PeopleStep \/ CapReached
  BY <1>5 DEF RunStep, RunEnds, LandHeld, RunWritesTask, PeopleStep, SetAutonomy, EditTask,
              Deploy, CapReached, bookVars
<1>6. CASE Fault
  BY <1>6 DEF Fault, Crash, Fails
<1> QED BY <1>1, <1>2, <1>3, <1>4, <1>5, <1>6 DEF Step

LEMMA InitBounded == Init => BoundedInv
<1> SUFFICES ASSUME Init PROVE BoundedInv
  OBVIOUS
<1>1. VerifiedInv
  BY InitVerified
<1>2. \A p \in Procs : proc[p] = Fresh(First(p))
  BY DEF Init
<1>3. \A p \in Procs : First(p) \in {"plan", "goal", "tick", "idle"}
  BY DEF First
<1>4. Existing
  <2>1. \A t \in Tasks : task[t] = "none" /\ t > made
    BY TasksNat DEF Init
  <2> QED BY <2>1, LimitsAssumption DEF Init, Existing
<1>5. ASSUME NEW p \in Procs PROVE Known(p)
  <2>1. /\ proc[p].pc \in {"plan", "goal", "tick", "idle"}
        /\ proc[p].seen = [t \in Tasks |-> "none"] /\ proc[p].todo = {}
        /\ proc[p].cur = 0 /\ proc[p].n = 0
    <3>1. proc[p] = Fresh(First(p)) /\ First(p) \in {"plan", "goal", "tick", "idle"}
      BY <1>2, <1>3
    <3>2. PICK at \in {"plan", "goal", "tick", "idle"} : proc[p] = Fresh(at)
      BY <3>1
    <3> QED BY <3>2 DEF Fresh
  <2>2. \A t \in Tasks : proc[p].seen[t] = "none"
    BY <2>1
  <2>3. 0 <= made /\ 0 <= budgetMax
    BY LimitsAssumption DEF Init
  <2> QED BY <2>1, <2>2, <2>3 DEF Known
<1>6. Within
  <2>1. autonomy \in BOOLEAN /\ spent \in BOOLEAN /\ goal = "open" /\ vouched \subseteq Tasks
    BY DEF Init
  <2>2. iterations <= MAX_ITERATIONS /\ faults \in 0..MaxFaults /\ edits \in 0..MaxEdits
    BY LimitsAssumption DEF Init
  <2> QED BY <2>1, <2>2 DEF Within
<1>7. Watching
  <2>1. trail.n = 0 /\ trail.last = <<>> /\ quiet = 0 /\ faults = 0
    BY DEF Init, NoTrail
  <2>2. Len(trail.last) = 0 /\ trail.last \in Seq([Titles -> 0..MaxTasks])
    BY <2>1
  <2>3. StallIsCaught
    BY <2>1, LimitsAssumption DEF StallIsCaught
  <2> QED BY <2>1, <2>2, <2>3, LimitsAssumption DEF Watching
<1>8. Capped
  <2>1. Clock \in Procs /\ First(Clock) = "idle"
    BY ProcessesAssumption DEF Procs, First
  <2>2. proc[Clock].pc = "idle" /\ overspent = 0
    BY <1>2, <2>1 DEF Fresh, Init
  <2> QED BY <2>2, LimitsAssumption DEF Capped, ProgressPcs
<1> QED BY <1>1, <1>4, <1>5, <1>6, <1>7, <1>8 DEF BoundedInv

LEMMA StepBounded == BoundedInv /\ [Next]_vars => BoundedInv'
<1> SUFFICES ASSUME BoundedInv, [Next]_vars PROVE BoundedInv'
  OBVIOUS
<1>0. /\ VerifiedInv /\ Shape /\ TodoKinds /\ SawDeploy /\ Existing /\ AllKnown
      /\ Within /\ Watching /\ Capped
  BY DEF BoundedInv, VerifiedInv, AllKnown
<1>1. VerifiedInv'
  BY <1>0, StepVerified
<1>2. CASE Next
  <2>1. Step /\ CountQuiet
    BY <1>2 DEF Next
  <2>2. Within'
    BY <1>0, <2>1, StepWithin
  <2>3. Watching'
    BY <1>0, <2>1, <2>2, FaultsCount, StepWatching
  <2>4. Capped'
    BY <1>0, <2>1, StepCapped
  <2>5. Existing' /\ AllKnown'
    BY <1>0, <2>1, PlannerKnown, ProgressKnown, TickKnown, CycleKnown, WorldKnown, FaultKnown
       DEF Step
  <2> QED BY <1>1, <2>2, <2>3, <2>4, <2>5 DEF BoundedInv, AllKnown
<1>3. CASE UNCHANGED vars
  <2>1. /\ UNCHANGED <<goalVars, taskVars, runVars, spent, trail, proc, bookVars, quiet>>
    BY <1>3 DEF vars
  <2>2. UNCHANGED <<goal, autonomy, iterations, liveUrl, task, title, made, run, started,
                    unwritten, faults, edits, vouched, overspent>>
    BY <2>1 DEF goalVars, taskVars, runVars, bookVars
  <2>3. Existing' /\ AllKnown'
    BY <1>0, <2>1, SameRows, StillKnown, RunsKept DEF taskVars
  <2>4. Within' /\ Capped'
    BY <1>0, <2>1, <2>2 DEF Within, Capped
  <2>5. Fingerprint' = Fingerprint
    BY <2>2, FingerprintKind
  <2>6. Watching'
    BY <1>0, <2>1, <2>2, <2>5 DEF Watching, StallIsCaught
  <2> QED BY <1>1, <2>3, <2>4, <2>6 DEF BoundedInv, AllKnown
<1> QED BY <1>2, <1>3

\* A goal nothing of which changed during repeatWindow checks is not judged
\* again, whatever the processes, people, runs and faults do in between.
THEOREM StallIsCaughtHolds == Spec => []StallIsCaught
<1>1. BoundedInv => StallIsCaught
  BY DEF BoundedInv, Watching
<1> QED BY <1>1, InitBounded, StepBounded, PTL DEF Spec

-----------------------------------------------------------------------------
(***************************************************************************)
(* How far a goal grows, decomposed by one process and judged by the clock *)
(***************************************************************************)

Rounds == 0..(MAX_ITERATIONS + MaxFaults)

LEMMA Doubles == ASSUME NEW K \in Nat, NEW P \in Nat PROVE K * (2 * P) = 2 * (K * P)
OBVIOUS

LEMMA TimesSome == ASSUME NEW K \in Nat, NEW P \in Nat, P >= 1 PROVE K * P \in Nat /\ K <= K * P
OBVIOUS

LEMMA TimesMore ==
  ASSUME NEW K \in Nat, NEW P \in Nat, NEW Q \in Nat, P <= Q
  PROVE  K * P <= K * Q
OBVIOUS

\* A round doubles the room; there is always enough for the criteria.
LEMMA RoomGrows ==
  ASSUME IsFiniteSet(Roots), NEW k \in Rounds
  PROVE  /\ Room(k) \in Nat /\ Room(k + 1) = 2 * Room(k)
         /\ Cardinality(Roots) <= Room(k)
         /\ \A j \in 0..k : Room(j) <= Room(k)
<1> DEFINE K == Cardinality(Roots)
<1>1. K \in Nat
  BY FS_CardinalityType
<1>2. 2^k \in Nat /\ 2^k >= 1 /\ 2^(k + 1) = 2 * 2^k
  BY PowersAssumption DEF Rounds
<1>3. \A j \in 0..k : j \in Rounds /\ 2^j \in Nat /\ 2^j <= 2^k
  BY PowersAssumption, LimitsAssumption DEF Rounds
<1> HIDE DEF K
<1>4. K * 2^k \in Nat /\ K <= K * 2^k
  BY <1>1, <1>2, TimesSome
<1>5. K * 2^(k + 1) = 2 * (K * 2^k)
  BY <1>1, <1>2, Doubles
<1>6. \A j \in 0..k : K * 2^j <= K * 2^k
  BY <1>1, <1>2, <1>3, TimesMore
<1> QED BY <1>4, <1>5, <1>6 DEF Room, K

\* What a process has still to insert is counted.
LEMMA TodoCounted ==
  ASSUME Shape, NEW S, S \subseteq 1..made
  PROVE  IsFiniteSet(S) /\ Cardinality(S) \in Nat /\ Cardinality(S) <= made
<1>1. IsFiniteSet(1..made) /\ Cardinality(1..made) = made
  BY FS_Interval DEF Shape
<1> QED BY <1>1, FS_Subset, FS_CardinalityType

LEMMA OneLess ==
  ASSUME NEW S, IsFiniteSet(S), NEW e \in S
  PROVE  Cardinality(S \ {e}) + 1 = Cardinality(S) /\ Cardinality(S \ {e}) \in Nat
<1>1. IsFiniteSet(S \ {e}) /\ Cardinality(S \ {e}) = Cardinality(S) - 1
  BY FS_RemoveElement
<1> QED BY <1>1, FS_CardinalityType

LEMMA RoundNow ==
  ASSUME Shape, Within
  PROVE  /\ iterations + faults \in Rounds /\ faults \in Nat /\ iterations \in Nat /\ made \in Nat
         /\ iterations < MAX_ITERATIONS => iterations + faults + 1 \in Rounds
         /\ faults < MaxFaults => iterations + faults + 1 \in Rounds
BY LimitsAssumption DEF Shape, Within, Rounds

\* Nobody inserted and the clock entered no round: there is room as before, and
\* a round that a fault interrupted counts as a fault.
LEMMA GrowingKept ==
  ASSUME Shape, Within, Within', AllKnown, Growing, IsFiniteSet(Roots),
         UNCHANGED <<goal, iterations, made>>,
         \A q \in Procs : \/ proc'[q] = proc[q]
                          \/ proc'[q].pc \notin ProgressPcs \cup {"plan", "fill"}
                          \/ q = Clock /\ proc'[q].pc = "goal",
         \/ faults' = faults /\ (proc'[Clock] = proc[Clock] \/ ~At(Clock, "insert"))
         \/ faults' = faults + 1
  PROVE  Growing'
<1>0. Clock \in Procs
  BY DEF Procs
<1>1. OneJudge'
  BY DEF Growing, OneJudge, ProgressPcs
<1>2. proc'[Clock].pc \in ProgressPcs \ {"goal"} =>
        goal' # "open" /\ proc'[Clock].iterations = iterations'
  BY <1>0 DEF Growing
<1> DEFINE k == iterations + faults
<1>3. /\ k \in Rounds /\ k \in Nat /\ made \in Nat
      /\ At(Clock, "insert") => iterations < MAX_ITERATIONS
      /\ iterations < MAX_ITERATIONS => k + 1 \in Rounds
  BY <1>0, RoundNow DEF Rounds, AllKnown, Known, Growing, ProgressPcs
<1>4. ~At(Clock, "insert") => made <= Room(k)
  BY DEF Growing
<1>5. At(Clock, "insert") => /\ Cardinality(proc[Clock].todo) \in Nat
                             /\ made + Cardinality(proc[Clock].todo) <= Room(k + 1)
  BY <1>0, TodoCounted DEF Growing, AllKnown, Known
<1>6. Room(k) \in Nat
  BY <1>3, RoomGrows
<1>7. k + 1 \in Rounds => Room(k + 1) \in Nat /\ Room(k) <= Room(k + 1)
  BY <1>3, RoomGrows
<1>8. CASE faults' = faults
  <2>1. iterations' + faults' = k
    BY <1>8
  <2> HIDE DEF k
  <2>2. ~At(Clock, "insert")' => made' <= Room(k)
    BY <1>0, <1>4, <1>8, RoundNow
  <2>3. At(Clock, "insert")' => proc'[Clock] = proc[Clock] /\ At(Clock, "insert")
    BY <1>0, <1>8 DEF ProgressPcs
  <2> QED BY <1>1, <1>2, <1>5, <2>1, <2>2, <2>3 DEF Growing
<1>9. CASE faults' = faults + 1
  <2>0. faults \in Nat /\ faults + 1 <= MaxFaults /\ iterations \in Nat
    <3>1. faults \in 0..MaxFaults /\ faults' \in 0..MaxFaults
      BY DEF Within
    <3> QED BY <1>9, <3>1, LimitsAssumption DEF Shape
  <2>1. k + 1 \in Rounds /\ iterations' + faults' = k + 1
    <3>1. faults < MaxFaults
      BY <2>0, LimitsAssumption
    <3>2. k + 1 \in Rounds
      BY <3>1, RoundNow
    <3>3. iterations + (faults + 1) = k + 1
      BY <2>0
    <3> QED BY <1>9, <3>2, <3>3
  <2>2. At(Clock, "insert") => k + 1 + 1 \in Rounds
    BY <1>3, <2>0, LimitsAssumption DEF Rounds
  <2> HIDE DEF k
  <2>3. k + 1 + 1 \in Rounds => Room(k + 1) <= Room(k + 1 + 1) /\ Room(k + 1 + 1) \in Nat
    BY <1>3, RoomGrows
  <2>4. ~At(Clock, "insert")' => made' <= Room(k + 1)
    BY <1>3, <1>4, <1>5, <1>6, <1>7, <2>1
  <2>5. At(Clock, "insert")' => proc'[Clock] = proc[Clock] /\ At(Clock, "insert")
    BY <1>0 DEF ProgressPcs
  <2>6. At(Clock, "insert")' => made' + Cardinality(proc'[Clock].todo) <= Room(k + 1 + 1)
    BY <1>3, <1>5, <1>7, <2>1, <2>2, <2>3, <2>5
  <2> QED BY <1>1, <1>2, <2>1, <2>4, <2>6 DEF Growing
<1> QED BY <1>8, <1>9

\* The clock goes on with the rows it holds: a round it starts adds at most a
\* task for every one there is.
LEMMA JudgeGrows ==
  ASSUME Shape, Within, AllKnown, Growing, IsFiniteSet(Roots), NEW rows \in Rows,
         \A t \in Tasks : rows[t] # "none" => t <= made,
         proc[Clock].pc \in {"rows", "promote", "live"},
         JudgeRows(Clock, rows) \/ Decide(Clock, rows),
         UNCHANGED <<goal, iterations, made, faults>>
  PROVE  Growing'
<1>0. Clock \in Procs
  BY DEF Procs
<1>1. /\ Others(Clock)
      /\ \/ proc'[Clock] = Fresh("tick")
         \/ /\ proc'[Clock].pc \in {"promote", "live", "close", "insert"}
            /\ proc'[Clock].iterations = proc[Clock].iterations
            /\ proc'[Clock].pc = "insert" =>
                 /\ proc[Clock].iterations < MAX_ITERATIONS
                 /\ proc'[Clock].todo = In(rows, {"blocked"})
  BY <1>0, JudgeEffect, DecideEffect DEF Judged
<1>2. Fresh("tick").pc = "tick"
  BY DEF Fresh
<1>3. goal # "open" /\ proc[Clock].iterations = iterations /\ made <= Room(iterations + faults)
  BY DEF Growing, ProgressPcs
<1>4. OneJudge'
  BY <1>1, <1>2 DEF Growing, OneJudge, Others, ProgressPcs
<1>5. proc'[Clock].pc \in ProgressPcs \ {"goal"} =>
        goal' # "open" /\ proc'[Clock].iterations = iterations'
  BY <1>1, <1>2, <1>3 DEF ProgressPcs
<1>6. ASSUME At(Clock, "insert")'
      PROVE  made' + Cardinality(proc'[Clock].todo) <= Room(iterations' + faults' + 1)
  <2>1. proc'[Clock].todo = In(rows, {"blocked"}) /\ iterations < MAX_ITERATIONS
    BY <1>1, <1>2, <1>3, <1>6
  <2>2. proc'[Clock].todo \subseteq 1..made
    <3> SUFFICES ASSUME NEW t \in In(rows, {"blocked"}) PROVE t \in 1..made
      BY <2>1
    <3>1. t \in Tasks /\ rows[t] # "none"
      BY DEF In
    <3>2. t \in Nat \ {0} /\ t <= made /\ made \in Nat
      BY <3>1, TasksNat DEF Shape
    <3> QED BY <3>2
  <2> DEFINE k == iterations + faults
             c == Cardinality(proc'[Clock].todo)
  <2>3. c \in Nat /\ c <= made /\ made \in Nat
    BY <2>2, TodoCounted DEF Shape
  <2>4. k \in Rounds
    BY RoundNow
  <2>5. Room(k) \in Nat /\ Room(k + 1) = 2 * Room(k)
    BY <2>4, RoomGrows
  <2>6. made <= Room(k) /\ iterations' + faults' + 1 = k + 1 /\ made' = made
    BY <1>3
  <2> HIDE DEF k, c
  <2>7. made + c <= Room(k + 1)
    BY <2>3, <2>5, <2>6
  <2> QED BY <2>6, <2>7 DEF c
<1>7. made' <= Room(iterations' + faults')
  BY <1>3
<1> QED BY <1>4, <1>5, <1>6, <1>7 DEF Growing

LEMMA PlannerGrows ==
  ASSUME Shape, TodoKinds, Within, AllKnown, Growing, IsFiniteSet(Roots),
         NEW p0, Planners \subseteq {p0}, NEW p \in Procs, PlannerStep(p)
  PROVE  Growing'
<1>0. Clock \in Procs /\ p \in Planners /\ p # Clock /\ proc[p] \in Locals
      /\ \A q \in Procs \ {p} : proc[q].pc \notin {"plan", "fill"}
  <2>1. proc[p].pc \in {"plan", "fill"}
    BY PlannerShape
  <2> QED BY <2>1, ProcessesAssumption DEF Procs, Growing, OneJudge, Shape
<1>1. CASE Plan(p)
  <2>1. UNCHANGED <<goal, iterations, made, faults>> /\ At(p, "plan")
    BY <1>1 DEF Plan, goalVars, taskVars, bookVars
  <2>2. CASE goal = "open"
    <3>1. proc' = [proc EXCEPT ![p].pc = "fill", ![p].todo = Roots]
      BY <1>1, <2>2 DEF Plan
    <3>2. Others(p) /\ proc'[p] = [proc[p] EXCEPT !.pc = "fill", !.todo = Roots]
      BY <3>1 DEF Shape, Others
    <3>3. proc'[p].pc = "fill" /\ proc'[p].todo = Roots
      BY <1>0, <3>2 DEF Locals
    <3>4. proc'[Clock] = proc[Clock]
      BY <1>0, <3>2 DEF Others
    <3>5. made = 0 /\ made' + Cardinality(Roots) <= Cardinality(Roots)
      BY <1>0, <2>1, FS_CardinalityType DEF Growing, OneJudge
    <3>6. OneJudge'
      BY <1>0, <2>1, <2>2, <3>2, <3>3, <3>5 DEF Growing, OneJudge, Others, ProgressPcs
    <3> QED BY <2>1, <3>4, <3>6 DEF Growing
  <2>3. CASE goal # "open"
    <3>1. Others(p) /\ proc'[p] = Fresh("done")
      BY <1>1, <2>3, LeaveEffect DEF Plan
    <3>2. proc'[p].pc = "done"
      BY <3>1 DEF Fresh
    <3>3. /\ \A q \in Procs : proc'[q] = proc[q] \/ proc'[q].pc = "done"
          /\ proc'[Clock] = proc[Clock]
      BY <1>0, <3>1, <3>2 DEF Others
    <3> HIDE DEF ProgressPcs
    <3>4. Within'
      BY <2>1, <1>1 DEF Within, Plan, goalVars, bookVars
    <3> QED BY <2>1, <3>3, <3>4, GrowingKept DEF ProgressPcs
  <2> QED BY <2>2, <2>3
<1>2. CASE Fill(p)
  <2>1. PICK c \in proc[p].todo :
          /\ Insert([root |-> c, retry |-> FALSE])
          /\ proc' = [proc EXCEPT ![p].todo = @ \ {c}]
    BY <1>2 DEF Fill
  <2>2. UNCHANGED <<goal, iterations, faults>> /\ At(p, "fill") /\ made' = made + 1
    BY <1>2, <2>1 DEF Fill, Insert, goalVars, bookVars
  <2>3. Others(p) /\ proc'[p] = [proc[p] EXCEPT !.todo = @ \ {c}]
    BY <2>1 DEF Shape, Others
  <2>4. proc'[p].todo = proc[p].todo \ {c} /\ proc'[p].pc = "fill"
    BY <1>0, <2>2, <2>3 DEF Locals
  <2>5. proc[p].todo \subseteq Roots
    BY <2>2 DEF TodoKinds
  <2>6. IsFiniteSet(proc[p].todo)
    BY <2>5, FS_Subset
  <2> DEFINE a == Cardinality(proc[p].todo)
             b == Cardinality(proc'[p].todo)
             R == Cardinality(Roots)
  <2>7. b + 1 = a /\ b \in Nat
    BY <2>4, <2>6, OneLess
  <2>8. goal = "open" /\ made + a <= R
    BY <2>2 DEF Growing, OneJudge
  <2>9. made \in Nat /\ R \in Nat
    BY FS_CardinalityType DEF Shape
  <2>10. Room(iterations + faults) \in Nat /\ R <= Room(iterations + faults)
    BY RoundNow, RoomGrows
  <2>11. proc'[Clock] = proc[Clock] /\ ~At(Clock, "insert")
    BY <1>0, <2>3, <2>8 DEF Others, Growing, ProgressPcs
  <2> HIDE DEF a, b, R
  <2>12. made' + b <= R
    BY <2>2, <2>7, <2>8, <2>9
  <2>13. made' <= Room(iterations' + faults')
    BY <2>2, <2>7, <2>9, <2>10, <2>12
  <2>14. OneJudge'
    <3>1. /\ p \in Planners /\ proc'[p].pc = "fill" /\ goal' = "open"
          /\ made' + Cardinality(proc'[p].todo) <= Cardinality(Roots)
      BY <1>0, <2>2, <2>4, <2>8, <2>12 DEF b, R
    <3>2. \A q \in Procs \ {p} : proc'[q] = proc[q] /\ proc[q].pc \notin {"plan", "fill"}
      BY <1>0, <2>3 DEF Others
    <3>3. \A q \in Procs : proc'[q].pc \in ProgressPcs => q = Clock
      BY <3>1, <3>2 DEF Growing, OneJudge, ProgressPcs
    <3>4. ASSUME NEW q \in Procs
          PROVE  /\ proc'[q].pc \in {"plan", "fill"} => q \in Planners
                 /\ proc'[q].pc # "plan"
                 /\ proc'[q].pc = "fill" => q = p
      BY <3>1, <3>2
    <3> QED BY <3>1, <3>3, <3>4 DEF OneJudge
  <2> QED BY <2>2, <2>8, <2>11, <2>13, <2>14 DEF Growing
<1>3. CASE ActivateGoal(p)
  <2>1. /\ UNCHANGED <<iterations, made, faults>> /\ goal' = "active"
        /\ Others(p) /\ proc'[p] = Fresh("done")
    BY <1>3, LeaveEffect DEF ActivateGoal, taskVars, bookVars
  <2>2. proc'[p].pc = "done"
    BY <2>1 DEF Fresh
  <2>3. proc'[Clock] = proc[Clock]
    BY <1>0, <2>1 DEF Others
  <2>4. OneJudge'
    BY <1>0, <2>1, <2>2 DEF Growing, OneJudge, Others, ProgressPcs
  <2> QED BY <2>1, <2>3, <2>4 DEF Growing
<1> QED BY <1>1, <1>2, <1>3 DEF PlannerStep

LEMMA ProgressGrows ==
  ASSUME Shape, TodoKinds, SawDeploy, Existing, Within, Within', AllKnown, Growing,
         IsFiniteSet(Roots), NEW p \in Procs, ProgressStep(p)
  PROVE  Growing'
<1>0. p = Clock /\ proc[p] \in Locals /\ Known(p)
  <2>1. proc[p].pc \in ProgressPcs
    BY ProgressShape
  <2> QED BY <2>1 DEF Growing, OneJudge, Shape, AllKnown
<1>n. /\ iterations \in Nat /\ faults \in Nat /\ made \in Nat
      /\ ProgressPcs = {"goal", "rows", "promote", "live", "close", "insert"}
  BY RoundNow DEF ProgressPcs
<1>r. ASSUME NEW t \in Tasks, proc[p].seen[t] \in TaskStates
      PROVE  LET rows == [proc[p].seen EXCEPT ![t] = "done"]
             IN  rows \in Rows /\ \A u \in Tasks : rows[u] # "none" => u <= made
  <2>1. proc[p].seen \in Rows /\ proc[p].seen[t] # "none"
    BY <1>0, <1>r DEF Locals, TaskStates
  <2>2. t <= made
    BY <1>0, <2>1 DEF Known
  <2> QED BY <1>0, <2>1, <2>2 DEF Known, Rows, TaskStates
<1>1. CASE ReadGoal(p)
  <2>1. UNCHANGED <<goal, iterations, made, faults>> /\ At(p, "goal")
    BY <1>1 DEF ReadGoal, goalVars, taskVars, bookVars
  <2>2. CASE goal = "active"
    <3>1. proc' = [proc EXCEPT ![p].pc = "rows", ![p].liveUrl = liveUrl,
                               ![p].iterations = iterations]
      BY <1>1, <2>2 DEF ReadGoal
    <3>2. /\ Others(p)
          /\ proc'[p] = [proc[p] EXCEPT !.pc = "rows", !.liveUrl = liveUrl,
                                        !.iterations = iterations]
      BY <3>1 DEF Shape, Others
    <3>3. proc'[p].pc = "rows" /\ proc'[p].iterations = iterations
      BY <1>0, <3>2 DEF Locals
    <3>4. \A q \in Procs : proc'[q] = proc[q] \/ (q = Clock /\ proc'[q].pc = "rows")
      BY <1>0, <3>2, <3>3 DEF Others
    <3>5. OneJudge'
      BY <2>1, <3>4 DEF Growing, OneJudge, ProgressPcs
    <3> QED BY <1>0, <2>1, <2>2, <3>3, <3>5 DEF Growing
  <2>3. CASE goal # "active"
    <3>1. Others(p) /\ proc'[p] = Fresh("tick")
      BY <1>0, <1>1, <2>3, LeaveEffect DEF ReadGoal, Judged
    <3>2. proc'[p].pc = "tick"
      BY <3>1 DEF Fresh
    <3> QED BY <1>0, <1>n, <2>1, <3>1, <3>2, GrowingKept DEF Others
  <2> QED BY <2>2, <2>3
<1>2. CASE ReadRows(p)
  <2>1. UNCHANGED <<goal, iterations, made, faults>> /\ At(p, "rows")
    BY <1>2 DEF ReadRows, goalVars, taskVars, bookVars
  <2>2. CASE made = 0
    <3>1. Others(p) /\ proc'[p] = Fresh("tick")
      BY <1>0, <1>2, <2>2, LeaveEffect DEF ReadRows, Judged
    <3>2. proc'[p].pc = "tick"
      BY <3>1 DEF Fresh
    <3> QED BY <1>0, <1>n, <2>1, <3>1, <3>2, GrowingKept DEF Others
  <2>3. CASE made # 0
    <3>1. JudgeRows(p, task) /\ task \in Rows
      BY <1>2, <2>3 DEF ReadRows, Shape
    <3>2. \A t \in Tasks : task[t] # "none" => t <= made
      BY TasksNat DEF Existing, Shape
    <3> QED BY <1>0, <2>1, <3>1, <3>2, JudgeGrows
  <2> QED BY <2>2, <2>3
<1>3. CASE Promote(p)
  <2>1. PICK t \in Verifiable(proc[p].seen) : JudgeRows(p, [proc[p].seen EXCEPT ![t] = "done"])
    BY <1>3 DEF Promote
  <2>2. UNCHANGED <<goal, iterations, made, faults>> /\ At(p, "promote")
    BY <1>3 DEF Promote, goalVars, bookVars
  <2>3. t \in Tasks /\ proc[p].seen[t] \in TaskStates
    BY DEF Verifiable, In, TaskStates
  <2> DEFINE rows == [proc[p].seen EXCEPT ![t] = "done"]
  <2>4. rows \in Rows /\ \A u \in Tasks : rows[u] # "none" => u <= made
    BY <1>r, <2>3
  <2>5. JudgeRows(p, rows)
    BY <2>1
  <2> HIDE DEF rows
  <2> QED BY <1>0, <2>2, <2>4, <2>5, JudgeGrows
<1>4. CASE PromoteLive(p)
  <2>1. PICK t \in Deployable(proc[p].seen) : Decide(p, [proc[p].seen EXCEPT ![t] = "done"])
    BY <1>4 DEF PromoteLive
  <2>2. UNCHANGED <<goal, iterations, made, faults>> /\ At(p, "live")
    BY <1>4 DEF PromoteLive, goalVars, bookVars
  <2>3. t \in Tasks /\ proc[p].seen[t] \in TaskStates
    BY DEF Deployable, In
  <2> DEFINE rows == [proc[p].seen EXCEPT ![t] = "done"]
  <2>4. rows \in Rows /\ \A u \in Tasks : rows[u] # "none" => u <= made
    BY <1>r, <2>3
  <2>5. Decide(p, rows)
    BY <2>1
  <2> HIDE DEF rows
  <2> QED BY <1>0, <2>2, <2>4, <2>5, JudgeGrows
<1>5. CASE CloseGoal(p)
  <2>1. /\ UNCHANGED <<iterations, made, faults>> /\ goal' = "done" /\ At(p, "close")
        /\ Others(p) /\ proc'[p] = Fresh("tick")
    BY <1>0, <1>5, LeaveEffect DEF CloseGoal, taskVars, bookVars, Judged
  <2>2. proc'[p].pc = "tick"
    BY <2>1 DEF Fresh
  <2>3. goal # "open" /\ made <= Room(iterations + faults)
    BY <1>0, <2>1 DEF Growing, ProgressPcs
  <2>4. OneJudge'
    BY <1>0, <2>1, <2>2, <2>3 DEF Growing, OneJudge, Others, ProgressPcs
  <2> QED BY <1>0, <1>n, <2>1, <2>2, <2>3, <2>4 DEF Growing
<1>6. CASE InsertRetry(p)
  <2>1. PICK t \in proc[p].todo :
          /\ Insert([root |-> title[t].root, retry |-> TRUE])
          /\ proc' = [proc EXCEPT ![p].todo = @ \ {t}]
    BY <1>6 DEF InsertRetry
  <2>2. UNCHANGED <<goal, iterations, faults>> /\ At(p, "insert") /\ made' = made + 1
    BY <1>6, <2>1 DEF InsertRetry, Insert, goalVars, bookVars
  <2>3. Others(p) /\ proc'[p] = [proc[p] EXCEPT !.todo = @ \ {t}]
    BY <2>1 DEF Shape, Others
  <2>4. /\ proc'[p].todo = proc[p].todo \ {t} /\ proc'[p].pc = "insert"
        /\ proc'[p].iterations = proc[p].iterations
    BY <1>0, <2>2, <2>3 DEF Locals
  <2>5. proc[p].todo \subseteq 1..made
    BY <1>0, <2>2 DEF Known
  <2> DEFINE a == Cardinality(proc[p].todo)
             b == Cardinality(proc'[p].todo)
  <2>6. b + 1 = a /\ b \in Nat /\ made \in Nat /\ made # 0
    BY <2>4, <2>5, <1>n, TodoCounted, OneLess
  <2>7. /\ goal # "open" /\ proc[p].iterations = iterations
        /\ made + a <= Room(iterations + faults + 1)
    BY <1>0, <2>2 DEF Growing, ProgressPcs
  <2> HIDE DEF a, b
  <2>8. made' + b <= Room(iterations' + faults' + 1)
    BY <2>2, <2>6, <2>7
  <2>9. OneJudge'
    <3>1. \A q \in Procs : proc[q].pc \notin {"plan", "fill"}
      BY <2>6, <2>7 DEF Growing, OneJudge
    <3>2. \A q \in Procs : proc'[q] = proc[q] \/ (q = Clock /\ proc'[q].pc = "insert")
      BY <1>0, <2>3, <2>4 DEF Others
    <3>3. \A q \in Procs : proc'[q].pc \notin {"plan", "fill"}
      BY <3>1, <3>2
    <3>4. \A q \in Procs : proc'[q].pc \in ProgressPcs => q = Clock
      BY <3>2 DEF Growing, OneJudge
    <3> QED BY <3>3, <3>4 DEF OneJudge
  <2> QED BY <1>0, <2>2, <2>4, <2>7, <2>8, <2>9 DEF Growing, b
<1>7. CASE BumpIterations(p)
  <2>1. /\ UNCHANGED <<goal, made, faults>> /\ At(p, "insert") /\ proc[p].todo = {}
        /\ iterations' = proc[p].iterations + 1
        /\ Others(p) /\ proc'[p] = Fresh("tick")
    BY <1>0, <1>7, LeaveEffect DEF BumpIterations, taskVars, bookVars, Judged
  <2>2. proc'[p].pc = "tick"
    BY <2>1 DEF Fresh
  <2>3. proc[p].iterations = iterations /\ made + 0 <= Room(iterations + faults + 1)
    BY <1>0, <2>1, FS_EmptySet DEF Growing, ProgressPcs
  <2>4. iterations' + faults' = iterations + faults + 1 /\ made' = made + 0
    BY <1>n, <2>1, <2>3
  <2>5. OneJudge'
    BY <1>0, <2>1, <2>2 DEF Growing, OneJudge, Others, ProgressPcs
  <2> QED BY <1>0, <1>n, <2>2, <2>3, <2>4, <2>5 DEF Growing
<1> QED BY <1>1, <1>2, <1>3, <1>4, <1>5, <1>6, <1>7 DEF ProgressStep

LEMMA InitGrowing == ASSUME Advances = {}, IsFiniteSet(Roots) PROVE Init => Growing
<1> SUFFICES ASSUME Init PROVE Growing
  OBVIOUS
<1>1. \A p \in Procs : proc[p] = Fresh(First(p))
  BY DEF Init
<1>2. \A p \in Procs : /\ First(p) \in {"plan", "tick", "idle"}
                       /\ First(p) = "plan" => p \in Planners
  BY DEF First
<1>3. ASSUME NEW p \in Procs PROVE proc[p].pc = First(p)
  <2>1. PICK at \in {"plan", "tick", "idle"} : at = First(p)
    BY <1>2
  <2>2. proc[p] = Fresh(at)
    BY <1>1, <2>1
  <2> QED BY <2>1, <2>2 DEF Fresh
<1>4. OneJudge
  BY <1>2, <1>3 DEF OneJudge, ProgressPcs, Init
<1>5. Clock \in Procs
  BY DEF Procs
<1>6. 0 \in Rounds /\ iterations + faults = 0 /\ made = 0
  BY LimitsAssumption DEF Rounds, Init
<1>7. Cardinality(Roots) \in Nat /\ Cardinality(Roots) <= Room(0) /\ Room(0) \in Nat
  BY <1>6, RoomGrows, FS_CardinalityType
<1>8. made <= Room(iterations + faults)
  BY <1>6, <1>7
<1> QED BY <1>2, <1>3, <1>4, <1>5, <1>8 DEF Growing, ProgressPcs

LEMMA StepGrowing ==
  ASSUME BoundedInv, BoundedInv', Growing, IsFiniteSet(Roots), NEW p0, Planners \subseteq {p0},
         [Next]_vars
  PROVE  Growing'
<1>0. /\ Shape /\ TodoKinds /\ SawDeploy /\ Existing /\ AllKnown /\ Within /\ Within'
  BY DEF BoundedInv, VerifiedInv, AllKnown
<1>n. /\ ProgressPcs = {"goal", "rows", "promote", "live", "close", "insert"}
      /\ Clock \in Procs
  BY DEF ProgressPcs, Procs
<1>1. ASSUME NEW p \in Procs, PlannerStep(p) PROVE Growing'
  BY <1>0, <1>1, PlannerGrows
<1>2. ASSUME NEW p \in Procs, ProgressStep(p) PROVE Growing'
  BY <1>0, <1>2, ProgressGrows
<1>3. ASSUME NEW p \in Procs, TickStep(p) PROVE Growing'
  <2>1. Others(p) /\ proc'[p].pc \in {"allow", "pick", "row", "flip", "start", "idle", "done"}
    BY <1>0, <1>3, TickPlaces DEF End
  <2>2. UNCHANGED <<goal, iterations, made, faults>>
    BY <1>3 DEF TickStep, ReadOpen, PickTask, TickEnds, InsertRun, FlipTask, StartRun,
                goalVars, taskVars, bookVars
  <2>3. proc[p].pc # "insert"
    BY <1>0, <1>3, TickShape DEF TickPcs
  <2> QED BY <1>0, <1>n, <2>1, <2>2, <2>3, GrowingKept DEF Others
<1>4. CASE CycleStep
  <2>1. UNCHANGED <<iterations, made, faults>>
    BY <1>4, CycleMoves DEF taskVars, bookVars, CycleStep, CycleStart, CycleBudget, ListGoals,
                            CycleGuard, PauseGoal, AllowGoals, goalVars
  <2>2. goal' = goal /\ ~At(Clock, "insert")
    BY <1>4 DEF CycleStep, CycleStart, CycleBudget, ListGoals, CycleGuard, PauseGoal, AllowGoals,
                goalVars
  <2>3. PICK at \in {"idle", "budget", "list", "guard", "pause", "goal", "tick", "pick"} :
          Goto(Clock, at) \/ Leave(Clock, at)
    BY <1>4, CycleMoves
  <2>4. Others(Clock) /\ proc'[Clock].pc = at
    <3>1. Others(Clock) /\ (proc'[Clock].pc = at \/ proc'[Clock] = Fresh(at))
      BY <1>0, <1>n, <2>3, GotoEffect, LeaveEffect
    <3> QED BY <3>1 DEF Fresh
  <2> QED BY <1>0, <1>n, <2>1, <2>2, <2>4, GrowingKept DEF Others
<1>5. CASE RunStep \/ PeopleStep \/ CapReached
  <2>1. UNCHANGED <<goal, iterations, made, proc, faults>>
    BY <1>5 DEF RunStep, RunEnds, LandHeld, RunWritesTask, PeopleStep, SetAutonomy, EditTask,
                Deploy, CapReached, goalVars, taskVars, bookVars
  <2> QED BY <1>0, <2>1, GrowingKept
<1>6. CASE Fault
  <2>1. UNCHANGED <<goal, iterations, made>> /\ faults' = faults + 1
    BY <1>6 DEF Fault, Crash, Fails, goalVars, taskVars
  <2>2. \A q \in Procs : proc'[q] = proc[q] \/ proc'[q] = Fresh(End(q))
    BY <1>0, <1>6, FaultShape
  <2>3. \A q \in Procs : Fresh(End(q)).pc \in {"idle", "done"}
    BY DEF Fresh, End
  <2>4. \A q \in Procs : proc'[q] = proc[q] \/ proc'[q].pc \in {"idle", "done"}
    BY <2>2, <2>3
  <2> QED BY <1>0, <1>n, <2>1, <2>4, GrowingKept
<1>7. CASE UNCHANGED vars
  <2>1. UNCHANGED <<goal, iterations, made, proc, faults>>
    BY <1>7 DEF vars, goalVars, taskVars, bookVars
  <2> QED BY <1>0, <2>1, GrowingKept
<1> QED BY <1>1, <1>2, <1>3, <1>4, <1>5, <1>6, <1>7 DEF Next, Step

\* The rounds that count, and those that faults interrupted, are room enough.
LEMMA RoomEnough ==
  ASSUME Shape, Within, AllKnown, Growing, IsFiniteSet(Roots)
  PROVE  GenerationBounded
<1> DEFINE k == iterations + faults
           m == MAX_ITERATIONS + faults
<1>0. Clock \in Procs
  BY DEF Procs
<1>1. /\ k \in Rounds /\ m \in Rounds /\ k \in 0..m /\ made \in Nat
      /\ iterations < MAX_ITERATIONS => k + 1 \in 0..m
  BY LimitsAssumption DEF Shape, Within, Rounds
<1>2. Room(m) \in Nat /\ \A j \in 0..m : Room(j) <= Room(m) /\ Room(j) \in Nat
  <2>1. \A j \in 0..m : j \in Rounds
    BY LimitsAssumption DEF Within, Rounds
  <2> HIDE DEF m
  <2> QED BY <1>1, <2>1, RoomGrows
<1>3. CASE At(Clock, "insert")
  <2>1. iterations < MAX_ITERATIONS
    BY <1>0, <1>3 DEF AllKnown, Known, Growing, ProgressPcs
  <2>2. proc[Clock].todo \subseteq 1..made
    BY <1>0, <1>3 DEF AllKnown, Known
  <2>3. Cardinality(proc[Clock].todo) \in Nat /\ made + Cardinality(proc[Clock].todo) <= Room(k + 1)
    BY <1>3, <2>2, TodoCounted DEF Growing
  <2> HIDE DEF k, m
  <2>4. Room(k + 1) <= Room(m) /\ Room(k + 1) \in Nat
    BY <1>1, <1>2, <2>1
  <2>5. made <= Room(m)
    BY <1>1, <1>2, <2>3, <2>4
  <2> QED BY <2>5 DEF GenerationBounded, Room, m
<1>4. CASE ~At(Clock, "insert")
  <2>1. made <= Room(k)
    BY <1>4 DEF Growing
  <2> HIDE DEF k, m
  <2>2. made <= Room(m)
    BY <1>1, <1>2, <2>1
  <2> QED BY <2>2 DEF GenerationBounded, Room, m
<1> QED BY <1>3, <1>4

LEMMA BoundedTypes == BoundedInv => TypeOK
<1> SUFFICES ASSUME BoundedInv PROVE TypeOK
  OBVIOUS
<1>0. Shape /\ TodoKinds /\ SawDeploy /\ Existing /\ AllKnown /\ Within /\ Watching /\ Capped
  BY DEF BoundedInv, VerifiedInv, AllKnown
<1>1. goal \in {"open", "active", "done"} /\ liveUrl \in BOOLEAN /\ task \in Rows
  BY <1>0 DEF Within, Shape
<1>2. autonomy \in BOOLEAN /\ spent \in BOOLEAN
  BY <1>0 DEF Within
<1>3. iterations \in 0..MAX_ITERATIONS /\ title \in [Tasks -> Titles] /\ made \in 0..MaxTasks
  BY <1>0, LimitsAssumption DEF Within, Shape, Existing
<1>4. /\ \A t \in Tasks : task[t] = "none" <=> t > made
      /\ run \in [RunIds -> Outcomes \cup {"none", "active", "merged"}]
      /\ started \subseteq {id \in RunIds : run[id] # "none"}
  BY <1>0 DEF Existing
<1>5. unwritten \subseteq [task : Tasks, outcome : Outcomes \cup {"merged"}]
  <2>1. 1..made \subseteq Tasks
    BY <1>3, LimitsAssumption DEF Tasks
  <2> QED BY <1>0, <2>1 DEF Existing
<1>6. /\ trail.n \in 0..(maxIterations + 1 + MaxFaults)
      /\ trail.last \in Seq([Titles -> 0..MaxTasks]) /\ Len(trail.last) <= repeatWindow
  BY <1>0, LimitsAssumption DEF Watching, Within
<1>7. ASSUME NEW p \in Procs
      PROVE  /\ proc[p].seen \in Rows
             /\ proc[p].todo \subseteq Tasks \cup Roots
             /\ proc[p].cur \in 0..made /\ proc[p].n \in 0..budgetMax
             /\ At(p, "row") \/ At(p, "flip") \/ At(p, "start") =>
                  proc[p].cur # 0 /\ proc[p].n < budgetMax
  <2>1. proc[p] \in Locals /\ Known(p)
    BY <1>0 DEF Shape, AllKnown
  <2>2. proc[p].seen \in Rows /\ proc[p].todo \subseteq Tasks \cup Roots
    BY <2>1 DEF Locals
  <2>3. proc[p].cur \in 0..made /\ proc[p].n \in 0..budgetMax
    BY <1>3, <2>1, LimitsAssumption DEF Locals, Known
  <2> QED BY <2>1, <2>2, <2>3 DEF Known
<1>8. faults \in 0..MaxFaults /\ edits \in 0..MaxEdits /\ vouched \subseteq Tasks
  BY <1>0 DEF Within
<1>9. overspent \in Nat /\ quiet \in 0..trail.n
  BY <1>0, LimitsAssumption DEF Capped, Watching
<1> QED BY <1>1, <1>2, <1>3, <1>4, <1>5, <1>6, <1>7, <1>8, <1>9 DEF TypeOK

\* One goal stays within its bounds whatever the people, the runs and the faults
\* do, and however ticks by hand meet the clock's: a task for each criterion, at
\* most twice as many after each of MAX_ITERATIONS rounds or an interrupted one,
\* and at most budgetMax runs dispatched beyond the cap.
THEOREM AutonomyBoundedHolds ==
  ASSUME Advances = {}, IsFiniteSet(Roots), NEW p0, Planners \subseteq {p0}
  PROVE  Spec => []AutonomyBounded
<1>1. Init => BoundedInv /\ Growing
  BY InitBounded, InitGrowing
<1>2. BoundedInv /\ Growing /\ [Next]_vars => (BoundedInv /\ Growing)'
  BY StepBounded, StepGrowing
<1>3. BoundedInv /\ Growing => AutonomyBounded
  <2> SUFFICES ASSUME BoundedInv, Growing PROVE AutonomyBounded
    OBVIOUS
  <2>1. /\ Shape /\ TodoKinds /\ SawDeploy /\ Existing /\ AllKnown /\ Within /\ Watching /\ Capped
    BY DEF BoundedInv, VerifiedInv, AllKnown
  <2>2. TypeOK
    BY BoundedTypes
  <2>3. GenerationBounded
    BY <2>1, RoomEnough
  <2>4. OverspendBounded
    BY <2>1, LimitsAssumption DEF Capped, OverspendBounded
  <2> QED BY <2>2, <2>3, <2>4 DEF AutonomyBounded
<1> QED BY <1>1, <1>2, <1>3, PTL DEF Spec


-----------------------------------------------------------------------------
(***************************************************************************)
(* The contract, when only the planner, the clock and the runs touch tasks *)
(***************************************************************************)

ContractStep == [Contract!Next]_(Contract!vars)
Verified == In(task, {"done"})

LEMMA SameContract ==
  ASSUME UNCHANGED <<goal, made>>, \A t \in Tasks : task'[t] = "done" <=> task[t] = "done"
  PROVE  ContractStep
<1>1. Verified' = Verified
  BY DEF Verified, In
<1> QED BY <1>1 DEF ContractStep, Contract!vars, Verified

\* A row inserted is open.
LEMMA AddsTask ==
  ASSUME goal' = goal, goal # "done", made' = made + 1,
         \A t \in Tasks : task'[t] = "done" <=> task[t] = "done"
  PROVE  ContractStep
<1>1. Verified' = Verified
  BY DEF Verified, In
<1> QED BY <1>1 DEF ContractStep, Contract!Next, Contract!Add, Verified

\* Rows that exist stay, but for merged ones that are verified.
RowsStay ==
  \A t \in Tasks : t <= made =>
    task'[t] = task[t] \/ (task[t] = "merged" /\ task'[t] = "done")

LEMMA RunsTaskExist ==
  ASSUME Existing, Shape
  PROVE  /\ \A id \in RunIds : id[1] \in Tasks
         /\ \A id \in started : id \in RunIds /\ id[1] \in Tasks /\ id[1] <= made
         /\ \A w \in unwritten : /\ w.task \in Tasks /\ w.task <= made
                                 /\ w.outcome \in Outcomes \cup {"merged"}
<1>1. \A id \in RunIds : id[1] \in Tasks
  BY DEF RunIds
<1>2. 1..made \subseteq Tasks /\ \A t \in 1..made : t <= made
  BY LimitsAssumption DEF Existing, Shape, Tasks
<1>3. \A id \in started : id \in RunIds /\ id[1] <= made
  BY DEF Existing
<1>4. \A w \in unwritten : w.task \in 1..made /\ w.outcome \in Outcomes \cup {"merged"}
  BY DEF Existing
<1> QED BY <1>1, <1>2, <1>3, <1>4

LEMMA RunsTrackedKept ==
  ASSUME Shape, Existing, RunsTracked, RowsStay, UNCHANGED runVars
  PROVE  RunsTracked'
<1>1. UNCHANGED <<run, started, unwritten>>
  BY DEF runVars
<1>2. \A id \in started : task'[id[1]] = task[id[1]] \/
                          (task[id[1]] = "merged" /\ task'[id[1]] = "done")
  BY RunsTaskExist DEF RowsStay
<1>3. \A id \in started : /\ task'[id[1]] # "open"
                          /\ run[id] = "active" => task'[id[1]] = "in_progress"
  BY <1>2 DEF RunsTracked
<1>4. \A w \in unwritten : task'[w.task] = "in_progress"
  <2>1. \A w \in unwritten : task'[w.task] = task[w.task] \/ task[w.task] = "merged"
    BY RunsTaskExist DEF RowsStay
  <2> QED BY <2>1 DEF RunsTracked
<1> QED BY <1>1, <1>3, <1>4 DEF RunsTracked

\* What the tick holds is of rows that exist.
LEMMA TickHolds ==
  ASSUME Shape, Existing, Known(Clock), proc[Clock].pc \in TickingPcs
  PROVE  /\ \A t \in proc[Clock].todo : t \in Tasks /\ t <= made
         /\ proc[Clock].pc \in {"row", "flip", "start"} =>
              proc[Clock].cur \in Tasks /\ proc[Clock].cur <= made
<1>0. Clock \in Procs
  BY DEF Procs
<1>1. \A t \in 1..made : t \in Tasks /\ t <= made
  BY LimitsAssumption DEF Existing, Shape, Tasks
<1>2. proc[Clock].todo \subseteq 1..made
  BY DEF Known, TickingPcs
<1>3. proc[Clock].pc \in {"row", "flip", "start"} => proc[Clock].cur \in 1..made
  <2>1. proc[Clock].cur \in Nat /\ made \in Nat
    BY <1>0 DEF Shape, Locals
  <2> QED BY <2>1 DEF Known
<1> QED BY <1>1, <1>2, <1>3

LEMMA TickTrackedKept ==
  ASSUME Shape, Existing, Known(Clock), TickTracked, proc'[Clock] = proc[Clock],
         UNCHANGED <<run, started>>, RowsStay
  PROVE  TickTracked'
<1>1. proc[Clock].pc \in {"allow", "pick", "row", "flip", "start"} =>
        \A t \in proc[Clock].todo : task'[t] = "open"
  BY TickHolds DEF TickTracked, RowsStay, TickingPcs
<1>2. proc[Clock].pc \in {"row", "flip", "start"} =>
        task'[proc[Clock].cur] = task[proc[Clock].cur]
  BY TickHolds DEF TickTracked, RowsStay, TickingPcs
<1>3. NextId(Clock)' = NextId(Clock)
  BY DEF NextId
<1> QED BY <1>1, <1>2, <1>3 DEF TickTracked

LEMMA RolesKept ==
  ASSUME Roles, NEW p \in Procs, Others(p),
         proc'[p].pc \in {"plan", "fill"} => p \in Planners,
         proc'[p].pc \in ProgressPcs \cup TickingPcs => p = Clock
  PROVE  Roles'
BY DEF Roles, Others

LEMMA JudgeTrackedKept ==
  ASSUME Shape, JudgeTracked, proc'[Clock] = proc[Clock],
         goal = "open" \/ (goal' = goal /\ \A t \in Tasks : task'[t] = task[t])
  PROVE  JudgeTracked'
<1>1. CASE goal = "open"
  BY <1>1 DEF JudgeTracked, ProgressPcs
<1>2. CASE goal' = goal /\ \A t \in Tasks : task'[t] = task[t]
  BY <1>2 DEF JudgeTracked
<1> QED BY <1>1, <1>2

LEMMA PlanTrackedKept ==
  ASSUME PlanTracked, NEW p \in Procs, Others(p), proc'[p].pc # "fill",
         UNCHANGED <<goal, made>>
  PROVE  PlanTracked'
BY DEF PlanTracked, Others

\* Nobody plans a goal that is active.
LEMMA NoPlanning ==
  ASSUME PlanTracked, goal = "active", NEW p \in Procs, Others(p), proc'[p].pc # "fill"
  PROVE  PlanTracked'
BY DEF PlanTracked, Others

LEMMA InsertAdds ==
  ASSUME Shape, Existing, NEW ti, Insert(ti), UNCHANGED runVars
  PROVE  /\ RowsStay /\ made' = made + 1
         /\ \A t \in Tasks : task'[t] = "done" <=> task[t] = "done"
<1>1. /\ made' = made + 1 /\ made + 1 \in Tasks
      /\ task[made + 1] = "none" /\ task'[made + 1] = "open"
      /\ \A t \in Tasks \ {made + 1} : task'[t] = task[t]
  BY RowNew
<1>2. \A t \in Tasks : t <= made => t # made + 1
  BY TasksNat DEF Shape
<1> QED BY <1>1, <1>2 DEF RowsStay

LEMMA PlannerTracked ==
  ASSUME Shape, TodoKinds, Existing, AllKnown, Tracked, NEW p0, Planners \subseteq {p0},
         Roots # {}, NEW p \in Procs, PlannerStep(p)
  PROVE  Tracked' /\ ContractStep
<1>0. /\ Clock \in Procs /\ p # Clock /\ p \in Planners /\ proc[p] \in Locals
      /\ Known(Clock) /\ \A q \in Procs \ {p} : proc[q].pc \notin {"plan", "fill"}
  <2>1. proc[p].pc \in {"plan", "fill"}
    BY PlannerShape
  <2> QED BY <2>1, ProcessesAssumption DEF Procs, Tracked, Roles, Shape, AllKnown
<1>1. Others(p) /\ proc'[p].pc \in {"fill", "done"} /\ proc'[Clock] = proc[Clock]
  BY <1>0, PlannerShape DEF Moves, Others
<1>2. Roles'
  BY <1>0, <1>1, RolesKept DEF Tracked, ProgressPcs, TickingPcs
<1>3. UNCHANGED runVars /\ UNCHANGED <<run, started, liveUrl>> /\ ~liveUrl
  BY DEF PlannerStep, Plan, Fill, ActivateGoal, runVars, goalVars, Tracked
<1>4. SUFFICES RowsStay /\ JudgeTracked' /\ PlanTracked' /\ ContractStep
  BY <1>0, <1>1, <1>2, <1>3, RunsTrackedKept, TickTrackedKept DEF Tracked
<1>5. CASE Plan(p)
  <2>1. UNCHANGED <<goal, made, task>> /\ At(p, "plan")
    BY <1>5 DEF Plan, goalVars, taskVars
  <2>2. RowsStay /\ JudgeTracked' /\ ContractStep
    BY <1>1, <2>1, JudgeTrackedKept, SameContract DEF RowsStay, Tracked
  <2>3. CASE goal = "open"
    <3>1. proc' = [proc EXCEPT ![p].pc = "fill", ![p].todo = Roots]
      BY <1>5, <2>3 DEF Plan
    <3>2. proc'[p] = [proc[p] EXCEPT !.pc = "fill", !.todo = Roots]
      BY <3>1 DEF Shape
    <3>3. proc'[p].todo = Roots
      BY <1>0, <3>2 DEF Locals
    <3>4. PlanTracked'
      BY <1>1, <2>1, <2>3, <3>3 DEF PlanTracked, Tracked, Others
    <3> QED BY <2>2, <3>4
  <2>4. CASE goal # "open"
    <3>1. proc'[p] = Fresh("done")
      BY <1>5, <2>4, LeaveEffect DEF Plan
    <3>2. proc'[p].pc # "fill"
      BY <3>1 DEF Fresh
    <3> QED BY <1>1, <2>1, <2>2, <3>2, PlanTrackedKept DEF Tracked
  <2> QED BY <2>3, <2>4
<1>6. CASE Fill(p)
  <2>1. PICK c \in proc[p].todo : Insert([root |-> c, retry |-> FALSE])
    BY <1>6 DEF Fill
  <2>2. goal' = goal /\ goal = "open"
    BY <1>0, <1>6 DEF Fill, goalVars, Tracked, PlanTracked
  <2>3. /\ RowsStay /\ made' = made + 1
        /\ \A t \in Tasks : task'[t] = "done" <=> task[t] = "done"
    BY <1>3, <2>1, InsertAdds
  <2>4. ContractStep
    BY <2>2, <2>3, AddsTask
  <2>5. made' > 0
    BY <2>3 DEF Shape
  <2>6. PlanTracked'
    BY <1>0, <1>1, <2>2, <2>5 DEF PlanTracked, Tracked, Others
  <2> QED BY <1>1, <2>2, <2>3, <2>4, <2>6, JudgeTrackedKept DEF Tracked
<1>7. CASE ActivateGoal(p)
  <2>1. /\ UNCHANGED <<made, task>> /\ goal' = "active" /\ At(p, "fill") /\ proc[p].todo = {}
        /\ proc'[p] = Fresh("done")
    BY <1>7, LeaveEffect DEF ActivateGoal, taskVars
  <2>2. goal = "open" /\ made > 0
    BY <1>0, <2>1 DEF Tracked, PlanTracked
  <2>3. PlanTracked'
    <3>1. proc'[p].pc # "fill"
      BY <2>1 DEF Fresh
    <3> QED BY <1>0, <1>1, <3>1 DEF PlanTracked, Others
  <2>4. ContractStep
    BY <2>1, <2>2 DEF ContractStep, Contract!Next, Contract!Activate
  <2> QED BY <1>1, <2>1, <2>2, <2>3, <2>4, JudgeTrackedKept DEF RowsStay, Tracked
<1> QED BY <1>5, <1>6, <1>7 DEF PlannerStep

\* The clock goes on with rows that are as it saw them.
AsSeen(rows) ==
  \A t \in Tasks : /\ rows[t] = "none" => task'[t] = "none"
                   /\ rows[t] \in {"merged", "done"} => task'[t] = rows[t]

LEMMA JudgeTracks ==
  ASSUME Shape, SawDeploy, ~liveUrl, NEW rows \in Rows, AsSeen(rows),
         JudgeRows(Clock, rows), goal = "active", goal' = goal
  PROVE  JudgeTracked' /\ proc'[Clock].pc \in {"promote", "close", "insert", "tick"}
<1>0. Clock \in Procs /\ ~proc[Clock].liveUrl
  BY DEF Procs, SawDeploy
<1>1. CASE Decide(Clock, rows)
  <2>1. \/ proc'[Clock] = Fresh("tick")
        \/ /\ proc'[Clock].pc \in {"close", "insert"}
           /\ proc'[Clock].pc = "close" => In(rows, TaskStates \ {"done"}) = {}
    BY <1>0, <1>1, DecideEffect DEF Judged
  <2>2. Fresh("tick").pc = "tick"
    BY DEF Fresh
  <2>3. proc'[Clock].pc \in {"close", "insert", "tick"}
    BY <2>1, <2>2
  <2>4. proc'[Clock].pc = "close" => \A t \in Tasks : task'[t] \in {"none", "done"}
    <3> SUFFICES ASSUME In(rows, TaskStates \ {"done"}) = {}, NEW t \in Tasks
                 PROVE  task'[t] \in {"none", "done"}
      BY <2>1, <2>2
    <3>1. rows[t] \in TaskStates \cup {"none"} /\ rows[t] \notin TaskStates \ {"done"}
      BY DEF Rows, In
    <3> QED BY <3>1 DEF AsSeen
  <2> QED BY <2>3, <2>4 DEF JudgeTracked, ProgressPcs
<1>2. CASE ~Decide(Clock, rows)
  <2>1. proc'[Clock].pc = "promote" /\ proc'[Clock].seen = rows
    BY <1>0, <1>2, JudgeEffect
  <2> QED BY <2>1 DEF JudgeTracked, AsSeen, ProgressPcs
<1> QED BY <1>1, <1>2

LEMMA ProgressTracked ==
  ASSUME Shape, TodoKinds, SawDeploy, Existing, AllKnown, Tracked, NEW p \in Procs,
         ProgressStep(p)
  PROVE  Tracked' /\ ContractStep
<1>0. /\ p = Clock /\ proc[Clock] \in Locals /\ Known(Clock) /\ Clock \in Procs
      /\ proc[Clock].pc \in ProgressPcs
  <2>1. proc[p].pc \in ProgressPcs
    BY ProgressShape
  <2> QED BY <2>1 DEF Tracked, Roles, Shape, AllKnown, Procs
<1>1. Others(Clock) /\ proc'[Clock].pc \in ProgressPcs \cup {"tick"}
  BY <1>0, ProgressShape DEF Moves, Others, Judged
<1>2. Roles'
  BY <1>0, <1>1, RolesKept DEF Tracked, ProgressPcs, TickingPcs
<1>3. UNCHANGED runVars /\ UNCHANGED <<run, started, liveUrl>> /\ ~liveUrl
  BY DEF ProgressStep, ReadGoal, ReadRows, Promote, PromoteLive, CloseGoal,
         InsertRetry, BumpIterations, runVars, goalVars, Tracked
<1>4. TickTracked'
  BY <1>1 DEF TickTracked, ProgressPcs
<1>5. SUFFICES RowsStay /\ JudgeTracked' /\ PlanTracked' /\ ContractStep
  BY <1>2, <1>3, <1>4, RunsTrackedKept DEF Tracked
<1>6. /\ proc'[Clock].pc # "fill"
      /\ proc[Clock].pc # "goal" => goal = "active"
      /\ proc[Clock].pc # "live"
  BY <1>0, <1>1, <1>3 DEF ProgressPcs, Tracked, JudgeTracked, SawDeploy
<1>7. ASSUME proc'[Clock] = Fresh("tick") PROVE JudgeTracked'
  <2>1. proc'[Clock].pc = "tick"
    BY <1>7 DEF Fresh
  <2> QED BY <2>1 DEF JudgeTracked, ProgressPcs
<1>8. CASE ReadGoal(Clock)
  <2>1. UNCHANGED <<goal, made, task>>
    BY <1>8 DEF ReadGoal, goalVars, taskVars
  <2>2. RowsStay /\ PlanTracked' /\ ContractStep
    BY <1>0, <1>1, <1>6, <2>1, PlanTrackedKept, SameContract DEF RowsStay, Tracked
  <2>3. CASE goal = "active"
    <3>1. proc' = [proc EXCEPT ![Clock].pc = "rows", ![Clock].liveUrl = liveUrl,
                               ![Clock].iterations = iterations]
      BY <1>8, <2>3 DEF ReadGoal
    <3>2. proc'[Clock] = [proc[Clock] EXCEPT !.pc = "rows", !.liveUrl = liveUrl,
                                             !.iterations = iterations]
      BY <1>0, <3>1 DEF Shape
    <3>3. proc'[Clock].pc = "rows"
      BY <1>0, <3>2 DEF Locals
    <3> QED BY <2>1, <2>2, <2>3, <3>3 DEF JudgeTracked
  <2>4. CASE goal # "active"
    <3>1. proc'[Clock] = Fresh("tick")
      BY <1>0, <1>8, <2>4, LeaveEffect DEF ReadGoal, Judged
    <3> QED BY <1>7, <2>2, <3>1
  <2> QED BY <2>3, <2>4
<1>9. CASE ReadRows(Clock)
  <2>1. UNCHANGED <<goal, made, task>> /\ goal = "active"
    BY <1>6, <1>9 DEF ReadRows, goalVars, taskVars
  <2>2. RowsStay /\ PlanTracked' /\ ContractStep
    BY <1>0, <1>1, <1>6, <2>1, PlanTrackedKept, SameContract DEF RowsStay, Tracked
  <2>3. CASE made = 0
    <3>1. proc'[Clock] = Fresh("tick")
      BY <1>0, <1>9, <2>3, LeaveEffect DEF ReadRows, Judged
    <3> QED BY <1>7, <2>2, <3>1
  <2>4. CASE made # 0
    <3>1. JudgeRows(Clock, task) /\ task \in Rows /\ AsSeen(task)
      BY <1>9, <2>1, <2>4 DEF ReadRows, Shape, AsSeen
    <3> QED BY <1>3, <2>1, <2>2, <3>1, JudgeTracks
  <2> QED BY <2>3, <2>4
<1>10. CASE Promote(Clock)
  <2>1. PICK t \in Verifiable(proc[Clock].seen) :
          /\ task' = [task EXCEPT ![t] = "done"]
          /\ JudgeRows(Clock, [proc[Clock].seen EXCEPT ![t] = "done"])
    BY <1>10 DEF Promote
  <2>2. UNCHANGED <<goal, made>> /\ goal = "active" /\ At(Clock, "promote")
    BY <1>6, <1>10 DEF Promote, goalVars
  <2>3. t \in Tasks /\ proc[Clock].seen[t] = "merged" /\ proc[Clock].seen \in Rows
    BY <1>0 DEF Verifiable, In, Locals
  <2>4. task[t] = "merged" /\ task \in Rows
    BY <2>2, <2>3 DEF Tracked, JudgeTracked, Shape
  <2>5. task'[t] = "done" /\ \A u \in Tasks \ {t} : task'[u] = task[u]
    BY <2>1, <2>3, <2>4 DEF Rows
  <2>6. RowsStay
    BY <2>4, <2>5 DEF RowsStay
  <2>7. PlanTracked'
    BY <1>0, <1>1, <1>6, <2>2, PlanTrackedKept DEF Tracked
  <2> DEFINE rows == [proc[Clock].seen EXCEPT ![t] = "done"]
  <2>8. rows \in Rows /\ rows[t] = "done" /\ \A u \in Tasks \ {t} : rows[u] = proc[Clock].seen[u]
    BY <2>3 DEF Rows, TaskStates
  <2>9. JudgeRows(Clock, rows)
    BY <2>1
  <2> HIDE DEF rows
  <2>10. AsSeen(rows)
    BY <2>2, <2>5, <2>8 DEF AsSeen, Tracked, JudgeTracked
  <2>11. JudgeTracked'
    BY <1>3, <2>2, <2>8, <2>9, <2>10, JudgeTracks
  <2>12. ContractStep
    <3>1. t <= made
      BY <1>0, <2>3 DEF Known
    <3>2. t \in 1..made
      BY <2>3, <3>1, TasksNat DEF Shape
    <3>3. Verified' = Verified \cup {t}
      BY <2>3, <2>5 DEF Verified, In
    <3> QED BY <2>2, <3>2, <3>3 DEF ContractStep, Contract!Next, Contract!Verify, Verified
  <2> QED BY <2>6, <2>7, <2>11, <2>12
<1>11. CASE PromoteLive(Clock)
  BY <1>6, <1>11 DEF PromoteLive
<1>12. CASE CloseGoal(Clock)
  <2>1. /\ UNCHANGED <<made, task>> /\ goal' = "done" /\ goal = "active" /\ At(Clock, "close")
        /\ proc'[Clock] = Fresh("tick")
    BY <1>0, <1>6, <1>12, LeaveEffect DEF CloseGoal, taskVars, Judged
  <2>2. Verified = 1..made
    <3>1. \A t \in Tasks : task[t] \in {"none", "done"} /\ (task[t] = "none" <=> t > made)
      BY <2>1 DEF Tracked, JudgeTracked, Existing
    <3>2. \A t \in Tasks : t \in Verified <=> ~(t > made)
      BY <3>1 DEF Verified, In
    <3>3. Verified \subseteq Tasks
      BY DEF Verified, In
    <3>4. Tasks = 1..MaxTasks /\ made <= MaxTasks /\ made \in Nat /\ MaxTasks \in Nat
      BY LimitsAssumption DEF Tasks, Existing, Shape
    <3>5. \A t \in 1..made : t \in Tasks /\ ~(t > made)
      BY <3>4
    <3>6. \A t \in Tasks : ~(t > made) => t \in 1..made
      BY <3>4
    <3> QED BY <3>2, <3>3, <3>5, <3>6
  <2>3. ContractStep
    BY <2>1, <2>2 DEF ContractStep, Contract!Next, Contract!Close, Verified
  <2>4. PlanTracked'
    BY <1>0, <1>1, <1>6, <2>1, NoPlanning DEF Tracked
  <2> QED BY <1>7, <2>1, <2>3, <2>4 DEF RowsStay
<1>13. CASE InsertRetry(Clock)
  <2>1. PICK t \in proc[Clock].todo :
          /\ Insert([root |-> title[t].root, retry |-> TRUE])
          /\ proc' = [proc EXCEPT ![Clock].todo = @ \ {t}]
    BY <1>13 DEF InsertRetry
  <2>2. goal' = goal /\ goal = "active" /\ At(Clock, "insert")
    BY <1>6, <1>13 DEF InsertRetry, goalVars
  <2>3. /\ RowsStay /\ made' = made + 1
        /\ \A u \in Tasks : task'[u] = "done" <=> task[u] = "done"
    BY <1>3, <2>1, InsertAdds
  <2>4. ContractStep
    BY <2>2, <2>3, AddsTask
  <2>5. proc'[Clock] = [proc[Clock] EXCEPT !.todo = @ \ {t}]
    BY <1>0, <2>1 DEF Shape
  <2>6. proc'[Clock].pc = "insert"
    BY <1>0, <2>2, <2>5 DEF Locals
  <2>7. JudgeTracked'
    BY <2>2, <2>6 DEF JudgeTracked
  <2>8. PlanTracked'
    BY <1>0, <1>1, <1>6, <2>2, NoPlanning DEF Tracked
  <2> QED BY <2>3, <2>4, <2>7, <2>8
<1>14. CASE BumpIterations(Clock)
  <2>1. UNCHANGED <<goal, made, task>> /\ proc'[Clock] = Fresh("tick")
    BY <1>0, <1>14, LeaveEffect DEF BumpIterations, taskVars, Judged
  <2>2. RowsStay /\ PlanTracked' /\ ContractStep
    BY <1>0, <1>1, <1>6, <2>1, PlanTrackedKept, SameContract DEF RowsStay, Tracked
  <2> QED BY <1>7, <2>1, <2>2
<1> QED BY <1>0, <1>8, <1>9, <1>10, <1>11, <1>12, <1>13, <1>14 DEF ProgressStep

LEMMA TickTracks ==
  ASSUME Shape, TodoKinds, Existing, AllKnown, Tracked, NEW p \in Procs, TickStep(p)
  PROVE  Tracked' /\ ContractStep
<1>0. /\ p = Clock /\ proc[Clock] \in Locals /\ Known(Clock) /\ Clock \in Procs
      /\ proc[Clock].pc \in TickingPcs
  <2>1. proc[p].pc \in TickPcs
    BY TickShape
  <2> QED BY <2>1 DEF Tracked, Roles, Shape, AllKnown, Procs, TickPcs, TickingPcs
<1>1. /\ Others(Clock)
      /\ proc'[Clock].pc \in {"allow", "pick", "row", "flip", "start", "idle"}
  BY <1>0, TickPlaces DEF End
<1>2. Roles'
  BY <1>0, <1>1, RolesKept DEF Tracked, ProgressPcs, TickingPcs
<1>3. /\ UNCHANGED <<goal, made, liveUrl, title>> /\ ~liveUrl
  BY DEF TickStep, ReadOpen, PickTask, TickEnds, InsertRun, FlipTask, StartRun,
         goalVars, taskVars, Tracked
<1>4. JudgeTracked' /\ PlanTracked'
  BY <1>0, <1>1, <1>3, PlanTrackedKept DEF Tracked, JudgeTracked, ProgressPcs
<1>5. SUFFICES /\ RunsTracked' /\ TickTracked'
               /\ \A t \in Tasks : task'[t] = "done" <=> task[t] = "done"
  BY <1>2, <1>3, <1>4, SameContract DEF Tracked
<1>6. RunsTracked /\ TickTracked
  BY DEF Tracked
<1>7. ASSUME UNCHANGED <<task, made, runVars>>
      PROVE  RunsTracked' /\ \A t \in Tasks : task'[t] = "done" <=> task[t] = "done"
  BY <1>6, <1>7, RunsTrackedKept DEF RowsStay
<1>8. ASSUME UNCHANGED <<task, made, runVars>>, proc'[Clock] = Fresh("idle")
      PROVE  TickTracked'
  <2>1. proc'[Clock].pc = "idle"
    BY <1>8 DEF Fresh
  <2> QED BY <2>1 DEF TickTracked
<1>9. CASE ReadOpen(Clock)
  <2>1. UNCHANGED <<task, made, runVars>>
    BY <1>9 DEF ReadOpen, taskVars
  <2>2. proc' = [proc EXCEPT ![Clock].todo = In(task, {"open"}), ![Clock].pc = "allow"]
    BY <1>9 DEF ReadOpen
  <2>3. proc'[Clock] = [proc[Clock] EXCEPT !.todo = In(task, {"open"}), !.pc = "allow"]
    BY <1>0, <2>2 DEF Shape
  <2>4. proc'[Clock].todo = In(task, {"open"}) /\ proc'[Clock].pc = "allow"
    BY <1>0, <2>3 DEF Locals
  <2>5. TickTracked'
    BY <2>1, <2>4 DEF TickTracked, In
  <2> QED BY <1>7, <2>1, <2>5
<1>10. CASE PickTask(Clock)
  <2>1. UNCHANGED <<task, made, runVars>> /\ At(Clock, "pick")
    BY <1>10 DEF PickTask, taskVars
  <2>2. PICK t \in proc[Clock].todo :
          proc' = [proc EXCEPT ![Clock].todo = @ \ {t}, ![Clock].cur = t,
                     ![Clock].pc = IF ActiveRuns(t) = {} THEN "row" ELSE "pick"]
    BY <1>10 DEF PickTask
  <2> DEFINE at == IF ActiveRuns(t) = {} THEN "row" ELSE "pick"
  <2>3. (at = "row" /\ ActiveRuns(t) = {}) \/ at = "pick"
    OBVIOUS
  <2>4. proc' = [proc EXCEPT ![Clock].todo = @ \ {t}, ![Clock].cur = t, ![Clock].pc = at]
    BY <2>2
  <2> HIDE DEF at
  <2>5. proc'[Clock] = [proc[Clock] EXCEPT !.todo = @ \ {t}, !.cur = t, !.pc = at]
    BY <1>0, <2>4 DEF Shape
  <2>6. /\ proc'[Clock].todo = proc[Clock].todo \ {t} /\ proc'[Clock].cur = t
        /\ proc'[Clock].pc = at /\ proc'[Clock].n = proc[Clock].n
    BY <1>0, <2>5 DEF Locals
  <2>7. \A u \in proc[Clock].todo : task[u] = "open"
    BY <1>6, <2>1 DEF TickTracked
  <2>8. \A id \in started : id[1] # t
    BY <1>6, <2>7 DEF RunsTracked
  <2>9. at = "row" => \A id \in RunIds : id[1] = t => run[id] = "none"
    BY <1>6, <2>3, <2>8 DEF RunsTracked, ActiveRuns
  <2>10. NextId(Clock)'[1] = t
    BY <2>6 DEF NextId
  <2>11. NextId(Clock)' \notin started
    BY <2>8, <2>10
  <2>12. UNCHANGED <<run, started>>
    BY <2>1 DEF runVars
  <2>13. TickTracked'
    BY <2>1, <2>3, <2>6, <2>7, <2>9, <2>11, <2>12 DEF TickTracked
  <2> QED BY <1>7, <2>1, <2>13
<1>11. CASE TickEnds(Clock)
  <2>1. UNCHANGED <<task, made, runVars>> /\ proc'[Clock] = Fresh("idle")
    BY <1>0, <1>11, LeaveEffect DEF TickEnds, taskVars, End
  <2> QED BY <1>7, <1>8, <2>1
<1>12. CASE InsertRun(Clock)
  <2>1. UNCHANGED <<task, made, started, unwritten>> /\ At(Clock, "row")
    BY <1>12 DEF InsertRun, taskVars
  <2> DEFINE id0 == NextId(Clock)
  <2>2. CASE run[id0] = "none"
    <3>1. Goto(Clock, "flip") /\ run' = [run EXCEPT ![id0] = "active"]
      BY <1>12, <2>2 DEF InsertRun
    <3>2. Keeps(Clock) /\ proc'[Clock].pc = "flip"
      BY <1>0, <3>1, GotoEffect
    <3>3. id0 \in RunIds /\ id0[1] = proc[Clock].cur /\ id0 \notin started
      BY <1>0, <1>6, <2>1, NextIdExists DEF NextId, TickTracked
    <3>4. NextId(Clock)' = id0
      BY <3>2 DEF NextId, Keeps
    <3> HIDE DEF id0
    <3>5. run'[id0] = "active" /\ \A id \in RunIds \ {id0} : run'[id] = run[id]
      BY <3>1, <3>3 DEF Shape
    <3>6. \A id \in RunIds : id[1] = id0[1] => run[id] = "none"
      BY <1>6, <2>1, <3>3 DEF TickTracked
    <3>7. \A id \in started : id \in RunIds /\ run'[id] = run[id]
      BY <3>3, <3>5, RunsTaskExist
    <3>8. \A w \in unwritten : \E id \in RunIds : id[1] = w.task /\ run'[id] = w.outcome
      <4> SUFFICES ASSUME NEW w \in unwritten
                   PROVE  \E id \in RunIds : id[1] = w.task /\ run'[id] = w.outcome
        OBVIOUS
      <4>1. PICK id \in RunIds : id[1] = w.task /\ run[id] = w.outcome
        BY <1>6 DEF RunsTracked
      <4>2. w.outcome \in {"merged", "failed", "held"}
        BY RunsTaskExist, ChoicesAssumption
      <4>3. id # id0
        BY <2>2, <4>1, <4>2 DEF id0
      <4> QED BY <3>5, <4>1, <4>3
    <3>9. \A x, y \in RunIds : x[1] = y[1] /\ run'[x] # "none" /\ run'[y] # "none" => x = y
      BY <1>6, <3>5, <3>6 DEF RunsTracked
    <3>10. \A id \in RunIds : run'[id] # "none" /\ id \notin started => run'[id] = "active"
      BY <1>6, <3>5 DEF RunsTracked
    <3>11. RunsTracked'
      BY <1>6, <2>1, <3>7, <3>8, <3>9, <3>10 DEF RunsTracked
    <3>12. TickTracked'
      BY <1>6, <2>1, <3>2, <3>3, <3>4 DEF TickTracked, Keeps
    <3> QED BY <2>1, <3>11, <3>12
  <2>3. CASE run[id0] # "none"
    <3>1. UNCHANGED <<task, made, runVars>> /\ proc'[Clock] = Fresh("idle")
      BY <1>0, <1>12, <2>1, <2>3, LeaveEffect DEF InsertRun, runVars, End
    <3> QED BY <1>7, <1>8, <3>1
  <2> QED BY <2>2, <2>3
<1>13. CASE FlipTask(Clock)
  <2>1. /\ UNCHANGED <<made, run, started, unwritten>> /\ At(Clock, "flip")
        /\ Goto(Clock, "start") /\ task' = [task EXCEPT ![proc[Clock].cur] = "in_progress"]
    BY <1>13 DEF FlipTask, runVars
  <2> DEFINE c == proc[Clock].cur
  <2>2. /\ c \in Tasks /\ \A t \in proc[Clock].todo : t \in Tasks
    BY <1>0, <2>1, TickHolds
  <2>3. Keeps(Clock) /\ proc'[Clock].pc = "start"
    BY <1>0, <2>1, GotoEffect
  <2>4. /\ task[c] = "open" /\ c \notin proc[Clock].todo /\ NextId(Clock) \notin started
        /\ \A t \in proc[Clock].todo : task[t] = "open"
    BY <1>6, <2>1 DEF TickTracked
  <2>5. task'[c] = "in_progress" /\ \A t \in Tasks \ {c} : task'[t] = task[t]
    BY <2>1, <2>2 DEF Shape, Rows
  <2>6. NextId(Clock)' = NextId(Clock) /\ proc'[Clock].cur = c
        /\ proc'[Clock].todo = proc[Clock].todo
    BY <2>3 DEF NextId, Keeps
  <2> HIDE DEF c
  <2>7. \A id \in started : task'[id[1]] = task[id[1]] \/ task'[id[1]] = "in_progress"
    BY <2>5, RunsTaskExist
  <2>8. \A w \in unwritten : task'[w.task] = task[w.task] \/ task'[w.task] = "in_progress"
    BY <2>5, RunsTaskExist
  <2>9. RunsTracked'
    BY <1>6, <2>1, <2>7, <2>8 DEF RunsTracked
  <2>10. \A t \in proc[Clock].todo : task'[t] = "open"
    BY <2>2, <2>4, <2>5
  <2>11. TickTracked'
    BY <2>1, <2>3, <2>4, <2>5, <2>6, <2>10 DEF TickTracked
  <2>12. \A t \in Tasks : task'[t] = "done" <=> task[t] = "done"
    BY <2>4, <2>5
  <2> QED BY <2>9, <2>11, <2>12
<1>14. CASE StartRun(Clock)
  <2>1. /\ UNCHANGED <<task, made, run, unwritten>> /\ At(Clock, "start")
        /\ started' = started \cup {NextId(Clock)}
        /\ proc' = [proc EXCEPT ![Clock].n = @ + 1, ![Clock].cur = 0, ![Clock].pc = "pick"]
    BY <1>14 DEF StartRun, taskVars
  <2>2. proc'[Clock] = [proc[Clock] EXCEPT !.n = @ + 1, !.cur = 0, !.pc = "pick"]
    BY <1>0, <2>1 DEF Shape
  <2>3. proc'[Clock].todo = proc[Clock].todo /\ proc'[Clock].pc = "pick"
    BY <1>0, <2>2 DEF Locals
  <2>4. NextId(Clock)[1] = proc[Clock].cur /\ task[proc[Clock].cur] = "in_progress"
    BY <1>6, <2>1 DEF NextId, TickTracked
  <2>5. RunsTracked'
    BY <1>6, <2>1, <2>4 DEF RunsTracked
  <2>6. TickTracked'
    BY <1>6, <2>1, <2>3 DEF TickTracked
  <2> QED BY <2>1, <2>5, <2>6
<1> QED BY <1>0, <1>9, <1>10, <1>11, <1>12, <1>13, <1>14 DEF TickStep

LEMMA CycleTracks ==
  ASSUME Shape, Existing, AllKnown, Tracked, CycleStep
  PROVE  Tracked' /\ ContractStep
<1>0. Clock \in Procs
  BY DEF Procs
<1>1. UNCHANGED <<goal, liveUrl>>
  BY DEF CycleStep, CycleStart, CycleBudget, ListGoals, CycleGuard, PauseGoal, AllowGoals,
         goalVars
<1>2. UNCHANGED <<task, made, run, started, unwritten>> /\ UNCHANGED runVars /\ RowsStay
  BY CycleMoves DEF taskVars, runVars, RowsStay
<1>3. /\ Others(Clock)
      /\ proc'[Clock].pc \in {"idle", "budget", "list", "guard", "pause", "goal", "tick", "pick"}
  <2>1. PICK at \in {"idle", "budget", "list", "guard", "pause", "goal", "tick", "pick"} :
          Goto(Clock, at) \/ Leave(Clock, at)
    BY CycleMoves
  <2>2. Others(Clock) /\ (proc'[Clock].pc = at \/ proc'[Clock] = Fresh(at))
    BY <1>0, <2>1, GotoEffect, LeaveEffect
  <2> QED BY <2>2 DEF Fresh
<1>4. TickTracked'
  <2>1. CASE AllowGoals /\ Goto(Clock, "pick")
    <3>1. Keeps(Clock) /\ proc'[Clock].pc = "pick" /\ At(Clock, "allow")
      BY <1>0, <2>1, GotoEffect DEF AllowGoals
    <3> QED BY <1>2, <3>1 DEF Tracked, TickTracked, Keeps
  <2>2. CASE ~(AllowGoals /\ Goto(Clock, "pick"))
    <3>1. \E at \in {"idle", "budget", "list", "guard", "pause", "goal", "tick"} :
            Goto(Clock, at) \/ Leave(Clock, at)
      BY <2>2 DEF CycleStep, CycleStart, CycleBudget, ListGoals, CycleGuard, PauseGoal, AllowGoals
    <3>2. PICK at \in {"idle", "budget", "list", "guard", "pause", "goal", "tick"} :
            Goto(Clock, at) \/ Leave(Clock, at)
      BY <3>1
    <3>3. proc'[Clock].pc = at \/ proc'[Clock] = Fresh(at)
      BY <1>0, <3>2, GotoEffect, LeaveEffect
    <3>4. proc'[Clock].pc = at
      BY <3>3 DEF Fresh
    <3> QED BY <3>4 DEF TickTracked
  <2> QED BY <2>1, <2>2
<1>5. Roles' /\ JudgeTracked' /\ PlanTracked' /\ RunsTracked'
  BY <1>0, <1>1, <1>2, <1>3, RolesKept, PlanTrackedKept, RunsTrackedKept
     DEF Tracked, JudgeTracked, ProgressPcs
<1> QED BY <1>1, <1>2, <1>4, <1>5, SameContract DEF Tracked

LEMMA WorldTracks ==
  ASSUME Shape, Existing, AllKnown, Tracked, EditStates = {}, CanDeploy = FALSE,
         "held" \notin Outcomes, RunStep \/ PeopleStep \/ CapReached
  PROVE  Tracked' /\ ContractStep
<1>0. Clock \in Procs /\ Known(Clock)
  BY DEF Procs, AllKnown
<1>1. UNCHANGED <<goal, made, liveUrl, proc, started>>
  BY DEF RunStep, RunEnds, LandHeld, RunWritesTask, PeopleStep, SetAutonomy, EditTask,
         Deploy, CapReached, goalVars, taskVars, runVars
<1>2. Roles' /\ PlanTracked'
  BY <1>1 DEF Tracked, Roles, PlanTracked
<1>3. RunsTracked /\ TickTracked /\ JudgeTracked
  BY DEF Tracked
<1>4. SUFFICES /\ RunsTracked' /\ TickTracked' /\ JudgeTracked'
               /\ \A t \in Tasks : task'[t] = "done" <=> task[t] = "done"
  BY <1>1, <1>2, SameContract DEF Tracked
<1>5. NextId(Clock)' = NextId(Clock)
  BY <1>1 DEF NextId
<1>6. ASSUME NEW id \in RunIds, RunEnds(id)
      PROVE  /\ RunsTracked' /\ TickTracked' /\ JudgeTracked'
             /\ \A t \in Tasks : task'[t] = "done" <=> task[t] = "done"
  <2>1. PICK o \in Outcomes :
          /\ run' = [run EXCEPT ![id] = o]
          /\ unwritten' = unwritten \cup {[task |-> id[1], outcome |-> o]}
    BY <1>6 DEF RunEnds
  <2>2. id \in started /\ run[id] = "active" /\ task' = task /\ o \in {"merged", "failed"}
    BY <1>6, ChoicesAssumption DEF RunEnds, taskVars
  <2>3. run'[id] = o /\ \A x \in RunIds \ {id} : run'[x] = run[x]
    BY <2>1 DEF Shape
  <2>4. \A x \in RunIds : /\ run'[x] # "none" <=> run[x] # "none"
                          /\ run'[x] = "active" => run[x] = "active" /\ x # id
    BY <2>2, <2>3
  <2>5. \A w \in unwritten' :
          /\ task[w.task] = "in_progress"
          /\ \E x \in RunIds : x[1] = w.task /\ run'[x] = w.outcome
    <3>1. ASSUME NEW w \in unwritten
          PROVE  /\ task[w.task] = "in_progress"
                 /\ \E x \in RunIds : x[1] = w.task /\ run'[x] = w.outcome
      <4>1. PICK x \in RunIds : x[1] = w.task /\ run[x] = w.outcome
        BY <1>3 DEF RunsTracked
      <4>2. w.outcome \in {"merged", "failed", "held"}
        BY RunsTaskExist, ChoicesAssumption
      <4>3. run'[x] = w.outcome
        BY <2>2, <2>3, <4>1, <4>2
      <4> QED BY <1>3, <4>1, <4>3 DEF RunsTracked
    <3>2. task[id[1]] = "in_progress" /\ id[1] = id[1] /\ run'[id] = o
      BY <1>3, <2>2, <2>3 DEF RunsTracked
    <3> QED BY <2>1, <3>1, <3>2
  <2>6. \A x \in started : x \in RunIds
    BY RunsTaskExist
  <2>7. \A x \in RunIds : run'[x] # "none" /\ x \notin started => run'[x] = "active"
    BY <1>3, <2>2, <2>3 DEF RunsTracked
  <2>8. RunsTracked'
    BY <1>1, <1>3, <2>2, <2>4, <2>5, <2>6, <2>7 DEF RunsTracked
  <2>9. TickTracked'
    BY <1>1, <1>3, <1>5, <2>2, <2>4 DEF TickTracked
  <2>10. JudgeTracked'
    BY <1>1, <1>3, <2>2, JudgeTrackedKept
  <2> QED BY <2>2, <2>8, <2>9, <2>10
<1>7. ASSUME NEW w \in unwritten, RunWritesTask(w)
      PROVE  /\ RunsTracked' /\ TickTracked' /\ JudgeTracked'
             /\ \A t \in Tasks : task'[t] = "done" <=> task[t] = "done"
  <2>1. /\ task' = [task EXCEPT ![w.task] = IF w.outcome = "merged" THEN "merged" ELSE "blocked"]
        /\ unwritten' = unwritten \ {w} /\ run' = run
    BY <1>7 DEF RunWritesTask
  <2>2. w.task \in Tasks /\ task[w.task] = "in_progress"
    BY <1>3, RunsTaskExist DEF RunsTracked
  <2>3. /\ task'[w.task] \in {"merged", "blocked"}
        /\ \A t \in Tasks \ {w.task} : task'[t] = task[t]
    BY <2>1, <2>2 DEF Shape, Rows
  <2>4. PICK x \in RunIds : x[1] = w.task /\ run[x] = w.outcome
    BY <1>3 DEF RunsTracked
  <2>5. run[x] \notin {"none", "active"} /\ x \in started
    <3>1. run[x] \notin {"none", "active"}
      BY <2>4, RunsTaskExist, ChoicesAssumption
    <3> QED BY <1>3, <3>1 DEF RunsTracked
  <2>6. \A y \in RunIds : y[1] = w.task /\ run[y] # "none" => y = x
    BY <1>3, <2>4, <2>5 DEF RunsTracked
  <2>7. ASSUME NEW v \in unwritten \ {w} PROVE v.task # w.task
    <3> SUFFICES ASSUME v.task = w.task PROVE FALSE
      OBVIOUS
    <3>1. PICK y \in RunIds : y[1] = v.task /\ run[y] = v.outcome
      BY <1>3 DEF RunsTracked
    <3>2. v.outcome # "none"
      BY RunsTaskExist, ChoicesAssumption
    <3>3. v.outcome = w.outcome
      BY <2>4, <2>6, <3>1, <3>2
    <3>4. /\ v \in [task : 1..made, outcome : Outcomes \cup {"merged"}]
          /\ w \in [task : 1..made, outcome : Outcomes \cup {"merged"}]
      BY DEF Existing
    <3> QED BY <3>3, <3>4
  <2>8. \A id \in started : /\ task'[id[1]] # "open"
                            /\ run[id] = "active" => task'[id[1]] = "in_progress"
    <3> SUFFICES ASSUME NEW id \in started
                 PROVE  /\ task'[id[1]] # "open"
                        /\ run[id] = "active" => task'[id[1]] = "in_progress"
      OBVIOUS
    <3>1. id \in RunIds /\ id[1] \in Tasks
      BY RunsTaskExist
    <3>2. id[1] = w.task /\ run[id] = "active" => id = x
      BY <2>6, <3>1
    <3> QED BY <1>3, <2>3, <2>5, <3>1, <3>2 DEF RunsTracked
  <2>9. \A v \in unwritten' : task'[v.task] = "in_progress"
    BY <1>3, <2>1, <2>3, <2>7, RunsTaskExist DEF RunsTracked
  <2>10. RunsTracked'
    BY <1>1, <1>3, <2>1, <2>8, <2>9 DEF RunsTracked
  <2>11. TickTracked'
    <3>1. proc[Clock].pc \in {"allow", "pick", "row", "flip", "start"} =>
            \A t \in proc[Clock].todo : task'[t] = "open"
      BY <1>0, <1>3, <2>2, <2>3, TickHolds DEF TickTracked, TickingPcs
    <3>2. At(Clock, "start") => proc[Clock].cur # w.task
      <4> SUFFICES ASSUME At(Clock, "start"), proc[Clock].cur = w.task PROVE FALSE
        OBVIOUS
      <4>1. NextId(Clock) \in RunIds /\ run[NextId(Clock)] # "none"
        BY <1>0, NextIdExists DEF Known
      <4>2. NextId(Clock)[1] = w.task /\ NextId(Clock) \notin started
        BY <1>3 DEF NextId, TickTracked
      <4> QED BY <2>5, <2>6, <4>1, <4>2
    <3>3. proc[Clock].pc \in {"row", "flip", "start"} =>
            task'[proc[Clock].cur] = task[proc[Clock].cur]
      BY <1>0, <1>3, <2>2, <2>3, <3>2, TickHolds DEF TickTracked, TickingPcs
    <3> QED BY <1>1, <1>3, <1>5, <2>1, <3>1, <3>3 DEF TickTracked
  <2>12. JudgeTracked'
    BY <1>1, <1>3, <2>2, <2>3 DEF JudgeTracked
  <2> QED BY <2>2, <2>3, <2>10, <2>11, <2>12
<1>8. ASSUME NEW id \in RunIds, LandHeld(id) PROVE FALSE
  BY <1>8 DEF LandHeld, Existing
<1>9. CASE RunStep
  BY <1>6, <1>7, <1>8, <1>9 DEF RunStep
<1>10. CASE PeopleStep \/ CapReached
  <2>1. UNCHANGED <<task, made, runVars, goal, proc>>
    BY <1>1, <1>10 DEF PeopleStep, SetAutonomy, EditTask, Deploy, CapReached, taskVars
  <2>2. UNCHANGED <<run, started>> /\ RowsStay
    BY <2>1 DEF runVars, RowsStay
  <2> QED BY <1>0, <1>3, <2>1, <2>2, RunsTrackedKept, TickTrackedKept, JudgeTrackedKept
<1> QED BY <1>9, <1>10

\* What a fault leaves behind is what was there.
LEMMA IdleTracks ==
  ASSUME Shape, Existing, AllKnown, Tracked, UNCHANGED <<goal, made, task, runVars, liveUrl>>,
         \A q \in Procs : proc'[q] = proc[q] \/ proc'[q].pc \in {"idle", "done"}
  PROVE  Tracked' /\ ContractStep
<1>0. Clock \in Procs /\ Known(Clock)
  BY DEF Procs, AllKnown
<1>1. UNCHANGED <<run, started>> /\ RowsStay
  BY DEF runVars, RowsStay
<1>2. Roles'
  BY DEF Tracked, Roles, ProgressPcs, TickingPcs
<1>3. PlanTracked'
  BY DEF Tracked, PlanTracked
<1>4. RunsTracked'
  BY <1>1, RunsTrackedKept DEF Tracked
<1>5. CASE proc'[Clock] = proc[Clock]
  <2>1. TickTracked' /\ JudgeTracked'
    BY <1>0, <1>1, <1>5, TickTrackedKept, JudgeTrackedKept DEF Tracked
  <2> QED BY <1>2, <1>3, <1>4, <2>1, SameContract DEF Tracked
<1>6. CASE proc'[Clock].pc \in {"idle", "done"}
  <2>1. TickTracked' /\ JudgeTracked'
    BY <1>6 DEF TickTracked, JudgeTracked, ProgressPcs
  <2> QED BY <1>2, <1>3, <1>4, <2>1, SameContract DEF Tracked
<1> QED BY <1>0, <1>5, <1>6

LEMMA InitTracked == ASSUME Advances = {}, Ticks = {} PROVE Init => Tracked
<1> SUFFICES ASSUME Init PROVE Tracked
  OBVIOUS
<1>1. \A p \in Procs : /\ First(p) \in {"plan", "idle"}
                       /\ First(p) = "plan" => p \in Planners
  BY DEF First
<1>2. ASSUME NEW p \in Procs PROVE proc[p].pc = First(p)
  <2>1. PICK at \in {"plan", "idle"} : at = First(p)
    BY <1>1
  <2>2. proc[p] = Fresh(at)
    BY <2>1 DEF Init
  <2> QED BY <2>1, <2>2 DEF Fresh
<1>3. Clock \in Procs /\ First(Clock) = "idle"
  BY ProcessesAssumption DEF Procs, First
<1>4. Roles
  BY <1>1, <1>2 DEF Roles, ProgressPcs, TickingPcs
<1>5. RunsTracked
  BY DEF Init, RunsTracked
<1>6. TickTracked /\ JudgeTracked
  BY <1>2, <1>3 DEF TickTracked, JudgeTracked, ProgressPcs
<1>7. PlanTracked
  BY <1>1, <1>2 DEF PlanTracked
<1> QED BY <1>4, <1>5, <1>6, <1>7 DEF Init, Tracked

LEMMA StepTracked ==
  ASSUME BoundedInv, Tracked, NEW p0, Planners \subseteq {p0}, Roots # {},
         EditStates = {}, CanDeploy = FALSE, "held" \notin Outcomes, [Next]_vars
  PROVE  Tracked' /\ ContractStep
<1>0. Shape /\ TodoKinds /\ SawDeploy /\ Existing /\ AllKnown
  BY DEF BoundedInv, VerifiedInv, AllKnown
<1>1. ASSUME NEW p \in Procs, PlannerStep(p) PROVE Tracked' /\ ContractStep
  BY <1>0, <1>1, PlannerTracked
<1>2. ASSUME NEW p \in Procs, ProgressStep(p) PROVE Tracked' /\ ContractStep
  BY <1>0, <1>2, ProgressTracked
<1>3. ASSUME NEW p \in Procs, TickStep(p) PROVE Tracked' /\ ContractStep
  BY <1>0, <1>3, TickTracks
<1>4. CASE CycleStep
  BY <1>0, <1>4, CycleTracks
<1>5. CASE RunStep \/ PeopleStep \/ CapReached
  BY <1>0, <1>5, WorldTracks
<1>6. CASE Fault
  <2>1. UNCHANGED <<goal, made, task, runVars, liveUrl>>
    BY <1>0, <1>6, FaultShape DEF goalVars, taskVars
  <2>2. \A q \in Procs : proc'[q] = proc[q] \/ proc'[q] = Fresh(End(q))
    BY <1>0, <1>6, FaultShape
  <2>3. \A q \in Procs : Fresh(End(q)).pc \in {"idle", "done"}
    BY DEF Fresh, End
  <2>4. \A q \in Procs : proc'[q] = proc[q] \/ proc'[q].pc \in {"idle", "done"}
    BY <2>2, <2>3
  <2> QED BY <1>0, <2>1, <2>4, IdleTracks
<1>7. CASE UNCHANGED vars
  <2>1. UNCHANGED <<goal, made, task, runVars, liveUrl, proc>>
    BY <1>7 DEF vars, goalVars, taskVars
  <2> QED BY <1>0, <2>1, IdleTracks
<1> QED BY <1>1, <1>2, <1>3, <1>4, <1>5, <1>6, <1>7 DEF Next, Step

\* The loop implements the goal contract step by step: what the clock judges in
\* one statement and closes in another is true when it closes, also when the
\* server crashes in between, as long as the goal is decomposed once and nobody
\* edits its tasks, triggers it by hand, deploys it or holds its runs.
THEOREM KeepsContractHolds ==
  ASSUME Advances = {}, Ticks = {}, NEW p0, Planners \subseteq {p0}, Roots # {},
         EditStates = {}, CanDeploy = FALSE, "held" \notin Outcomes
  PROVE  Spec => KeepsContract
<1>1. Init => BoundedInv /\ Tracked
  BY InitBounded, InitTracked
<1>2. BoundedInv /\ Tracked /\ [Next]_vars =>
        (BoundedInv /\ Tracked)' /\ [Contract!Next]_(Contract!vars)
  BY StepBounded, StepTracked DEF ContractStep
<1>3. Init => Contract!Init
  BY DEF Init, Contract!Init, In
<1> QED BY <1>1, <1>2, <1>3, PTL DEF Spec, KeepsContract, Contract!Spec

=============================================================================
