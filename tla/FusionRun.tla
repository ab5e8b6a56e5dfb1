----------------------------- MODULE FusionRun -----------------------------
(***************************************************************************)
(* One coding-agent run, end to end.                                       *)
(*                                                                         *)
(* A Temporal workflow (services/app/src/fusion/workflows.ts) dispatches   *)
(* attempts of one activity (fusion/activities.ts).  An attempt drives     *)
(* runFusion (services/orchestrator/src/core/run-fusion.ts): ask the       *)
(* sandbox to edit and push a branch, open a pull request, poll CI, repair *)
(* a red build, pass the merge gate, merge.  Every event it emits goes     *)
(* through the sink (fusion/events.ts), a sequence of separate database    *)
(* statements that deduplicates by event key and moves the Run row.        *)
(*                                                                         *)
(* An attempt can stop between any two statements (a thrown error or a     *)
(* dead worker), and Temporal can declare it timed out while its process   *)
(* keeps going: attempts of one run therefore overlap.  People approve or  *)
(* reject a plan and approve a held pull request through HTTP requests     *)
(* that interleave with the attempts.                                      *)
(***************************************************************************)
EXTENDS Naturals, FiniteSets, RunStateTable, MergePolicy

CONSTANTS
  MaxAttempts,  \* attempts Temporal makes per execution (workflows.ts: 3)
  MaxStarts,    \* bound: attempts over all executions of the run
  MaxPolls,     \* CI polls per commit (start.ts: 24)
  MaxFix,       \* agent repairs of a red build (CI_FIX_ATTEMPTS, default 2)
  Requests,     \* HTTP requests of people acting on the run
  PlanModes,    \* the plan-mode flags a run may be started with
  Autonomies    \* the positions of the autonomy dial a repository may have

ASSUME BoundsAssumption ==
  /\ MaxAttempts \in Nat \ {0}
  /\ MaxStarts \in Nat \ {0}
  /\ MaxPolls \in Nat \ {0}
  /\ MaxFix \in Nat
ASSUME ModesAssumption ==
  /\ PlanModes \subseteq BOOLEAN
  /\ Autonomies \subseteq {"monitor-only", "resolve-ci", "autopilot-merge"}
ASSUME RequestsAssumption == Requests \cap (1..MaxStarts) = {}

VARIABLES
  \* ---- Postgres ----
  runState,   \* runs.state
  task,       \* state of the task the run works on
  log,        \* run_events rows: their logical key and their seq
  cards,      \* keys whose message has been posted to the thread
  ckpts,      \* commits of the run_checkpoints rows
  charged,    \* rows meter() added to the credit ledger for this run
  rep,        \* times recordOutcome counted this run for its agent
  \* ---- GitHub ----
  autonomy,   \* the repository's dial
  remote,     \* commits on branch agent/<run id>; 0 = the branch is not there
  pr,         \* its pull request
  green,      \* heads CI was seen to report success for
  landedBy,   \* who merged the pull request
  \* ---- Temporal ----
  wf,         \* the workflow execution: "open", "completed" or "failed"
  tries,      \* attempts of this execution so far
  cur,        \* the attempt Temporal awaits; 0 = none
  nAtt,       \* attempts over all executions
  late,       \* attempts Temporal gave up on while they kept running
  plan,       \* planMode of this execution
  result,     \* outcome the last completed execution returned
  \* ---- processes: attempts of the activity and HTTP requests ----
  pc,         \* where each of them is
  evt,        \* the event an attempt emits or emitted last
  seq,        \* the seq an attempt read for it
  polls,      \* loop counter of runFusion
  fixes,      \* repairs made by the attempt
  sha,        \* head the attempt's last push produced; 0 = it pushed nothing
  inflight,   \* attempts whose /run request the sandbox still works on
  wish,       \* the run state a request wants
  asked,      \* the run was started in plan mode
  planOk      \* a person approved the plan

dbVars  == <<runState, task, log, cards, ckpts, charged, rep>>
ghVars  == <<autonomy, remote, pr, green, landedBy>>
wfVars  == <<wf, tries, cur, nAtt, late, plan, result>>
attVars == <<evt, seq, polls, fixes, sha, inflight>>
reqVars == <<wish, asked, planOk>>
vars    == <<dbVars, ghVars, wfVars, pc, attVars, reqVars>>

Attempts == 1..MaxStarts
Actors   == Attempts \cup Requests

(***************************************************************************)
(* Events and their identity                                               *)
(***************************************************************************)

EventTypes    == {"plan_proposed", "sandbox_started", "branch_pushed",
                  "pr_opened", "checks", "ci_fix_attempt", "outcome"}
ChecksStatus  == {"pending", "success", "failure"}
FusionOutcome == {"merged", "checks_failed", "timeout", "held_for_human",
                  "awaiting_plan"}

Event(type, status, attempt, outcome) ==
  [type |-> type, status |-> status, attempt |-> attempt, outcome |-> outcome]

Plain(type)       == Event(type, "-", 0, "-")
Checks(status)    == Event("checks", status, 0, "-")
FixAttempt(n)     == Event("ci_fix_attempt", "-", n, "-")
Outcome(o)        == Event("outcome", "-", 0, o)
NoEvent           == Plain("none")

\* The logical identity the sink deduplicates by: the status counts for a
\* checks event, the number for a repair, the type alone for everything else.
eventKey(e) == [type |-> e.type, status |-> e.status, attempt |-> e.attempt]

LoggedKeys == {row.key : row \in log}
LoggedSeqs == {row.seq : row \in log}

\* Events that carry a commit and so leave a checkpoint.
HasCommit(e) ==
  \/ e.type = "branch_pushed"
  \/ e.type = "outcome" /\ e.outcome # "awaiting_plan"

\* The run state the sink moves the run to after an event.
Target(e) ==
  IF e.type = "sandbox_started" THEN "running"
  ELSE IF e.outcome = "awaiting_plan" THEN "awaiting_plan_approval"
  ELSE e.outcome

\* Mutant: the sink forgets to move the run on an outcome.
MovesRun_OnlyStart(e) == e.type = "sandbox_started"

MovesRun(e) == e.type \in {"sandbox_started", "outcome"}

TaskStateFor(s) == IF s = "merged" THEN "merged" ELSE "blocked"

Init ==
  /\ runState = "pending" /\ task = "in_progress"
  /\ log = {} /\ cards = {} /\ ckpts = {}
  /\ charged = 0 /\ rep = 0
  /\ autonomy \in Autonomies
  /\ remote = 0 /\ pr = "none" /\ green = {} /\ landedBy = "nobody"
  /\ wf = "open" /\ tries = 0 /\ cur = 0 /\ nAtt = 0 /\ late = {}
  /\ asked \in PlanModes /\ plan = asked /\ planOk = FALSE
  /\ result = "none"
  /\ pc = [x \in Actors |-> "idle"]
  /\ evt = [a \in Attempts |-> NoEvent]
  /\ seq = [a \in Attempts |-> 0]
  /\ polls = [a \in Attempts |-> 0]
  /\ fixes = [a \in Attempts |-> 0]
  /\ sha = [a \in Attempts |-> 0]
  /\ inflight = {}
  /\ wish = [q \in Requests |-> "none"]

(***************************************************************************)
(* Temporal (external): attempts are dispatched one after the other, the   *)
(* next one when the awaited one failed or timed out, MaxAttempts in all.  *)
(***************************************************************************)

Ended == {"completed", "aborted", "rejected"}
Live(a) == pc[a] \notin Ended \cup {"idle"}

Goto(x, there) == pc' = [pc EXCEPT ![x] = there]
At(x, here) == pc[x] = here

\* An attempt hands an event to the sink; it returns at "ret".
Emit(a, e) == evt' = [evt EXCEPT ![a] = e] /\ Goto(a, "check")
Returned(a, type) == At(a, "ret") /\ evt[a].type = type

\* How a failure of attempt a reaches the workflow: not at all when Temporal
\* has stopped waiting for it.
Report(a) ==
  IF a = cur
  THEN /\ cur' = 0
       /\ wf' = IF tries < MaxAttempts THEN wf ELSE "failed"
  ELSE UNCHANGED <<cur, wf>>

Throw(a, end) ==
  /\ Goto(a, end)
  /\ Report(a)
  /\ UNCHANGED <<tries, nAtt, late, plan, result>>

Dispatch ==
  /\ wf = "open" /\ cur = 0
  /\ tries < MaxAttempts /\ nAtt < MaxStarts
  /\ LET a == nAtt + 1 IN
       /\ nAtt' = a /\ cur' = a /\ tries' = tries + 1
       /\ IF plan THEN Goto(a, "plan") /\ UNCHANGED evt
                  ELSE Emit(a, Plain("sandbox_started"))
  /\ UNCHANGED <<dbVars, ghVars, wf, late, plan, result, seq, polls, fixes,
                 sha, inflight, reqVars>>

\* startToCloseTimeout: the activity's process is not told and goes on.
TimeOut(a) ==
  /\ a = cur /\ Live(a)
  /\ late' = late \cup {a}
  /\ Report(a)
  /\ UNCHANGED <<dbVars, ghVars, tries, nAtt, plan, result, pc, attVars, reqVars>>

\* An await throws (HTTP, database, GitHub) or the worker dies.
Abort(a) ==
  /\ Live(a)
  /\ Throw(a, "aborted")
  /\ UNCHANGED <<dbVars, ghVars, attVars, reqVars>>

(***************************************************************************)
(* The sink: one action per database statement.                            *)
(***************************************************************************)

\* Mutant: the seq counts the messages posted, not the events persisted.
SinkCheck_SeqFromCards(a) ==
  /\ At(a, "check")
  /\ IF eventKey(evt[a]) \in LoggedKeys
     THEN Goto(a, "ret") /\ UNCHANGED seq
     ELSE Goto(a, "insert") /\ seq' = [seq EXCEPT ![a] = Cardinality(cards)]
  /\ UNCHANGED <<dbVars, ghVars, wfVars, evt, polls, fixes, sha, inflight, reqVars>>

\* Look the event up by its key; when it is not there, count the rows.
SinkCheck(a) ==
  /\ At(a, "check")
  /\ IF eventKey(evt[a]) \in LoggedKeys
     THEN Goto(a, "ret") /\ UNCHANGED seq
     ELSE Goto(a, "insert") /\ seq' = [seq EXCEPT ![a] = Cardinality(log)]
  /\ UNCHANGED <<dbVars, ghVars, wfVars, evt, polls, fixes, sha, inflight, reqVars>>

\* ON CONFLICT DO NOTHING, over the primary key and over (run_id, seq).
Conflicts(key, s) == key \in LoggedKeys \/ s \in LoggedSeqs

SinkInsert(a) ==
  /\ At(a, "insert")
  /\ LET key == eventKey(evt[a]) IN
       IF Conflicts(key, seq[a])
       THEN Goto(a, "ret") /\ UNCHANGED log
       ELSE Goto(a, "card") /\ log' = log \cup {[key |-> key, seq |-> seq[a]]}
  /\ UNCHANGED <<runState, task, cards, ckpts, charged, rep, ghVars, wfVars,
                 attVars, reqVars>>

\* What follows the card: a checkpoint, a move of the run, or neither.
AfterCard(e) ==
  IF HasCommit(e) THEN "ckpt" ELSE IF MovesRun(e) THEN "trCheck" ELSE "ret"

SinkCard(a) ==
  /\ At(a, "card")
  /\ cards' = cards \cup {eventKey(evt[a])}
  /\ Goto(a, AfterCard(evt[a]))
  /\ UNCHANGED <<runState, task, log, ckpts, charged, rep, ghVars, wfVars,
                 attVars, reqVars>>

SinkCheckpoint(a) ==
  /\ At(a, "ckpt")
  /\ ckpts' = ckpts \cup {sha[a]}
  /\ Goto(a, IF MovesRun(evt[a]) THEN "trCheck" ELSE "ret")
  /\ UNCHANGED <<runState, task, log, cards, charged, rep, ghVars, wfVars,
                 attVars, reqVars>>

(***************************************************************************)
(* transitionRun: read the row and check the move, write the row, and for  *)
(* a terminal state write the task; three statements and no transaction.   *)
(***************************************************************************)

Wanted(x) == IF x \in Attempts THEN Target(evt[x]) ELSE wish[x]

\* Where the caller of transitionRun goes on.
AfterTransition(x) ==
  IF x \in Attempts THEN "ret"
  ELSE IF Wanted(x) = "running" THEN "start" ELSE "idle"

\* Mutant: the move is not checked against the table.
TransitionCheck_Unchecked(x) ==
  /\ At(x, "trCheck")
  /\ Goto(x, "trWrite") /\ UNCHANGED wfVars
  /\ UNCHANGED <<dbVars, ghVars, attVars, reqVars>>

\* Mutant: an illegal move is swallowed instead of thrown.
TransitionCheck_Swallows(x) ==
  /\ At(x, "trCheck")
  /\ IF runState = Wanted(x) \/ canTransition(runState, Wanted(x))
     THEN Goto(x, "trWrite")
     ELSE Goto(x, AfterTransition(x))
  /\ UNCHANGED <<dbVars, ghVars, wfVars, attVars, reqVars>>

TransitionCheck(x) ==
  /\ At(x, "trCheck")
  /\ IF runState = Wanted(x) \/ canTransition(runState, Wanted(x))
     THEN Goto(x, "trWrite") /\ UNCHANGED wfVars
     ELSE IF x \in Attempts
          THEN Throw(x, "rejected")
          ELSE Goto(x, "idle") /\ UNCHANGED wfVars
  /\ UNCHANGED <<dbVars, ghVars, attVars, reqVars>>

TransitionWrite(x) ==
  /\ At(x, "trWrite")
  /\ runState' = Wanted(x)
  /\ Goto(x, IF isTerminal(Wanted(x)) THEN "trTask" ELSE AfterTransition(x))
  /\ UNCHANGED <<task, log, cards, ckpts, charged, rep, ghVars, wfVars,
                 attVars, reqVars>>

TransitionTask(x) ==
  /\ At(x, "trTask")
  /\ task' = TaskStateFor(Wanted(x))
  /\ Goto(x, AfterTransition(x))
  /\ UNCHANGED <<runState, log, cards, ckpts, charged, rep, ghVars, wfVars,
                 attVars, reqVars>>

(***************************************************************************)
(* runFusion                                                               *)
(***************************************************************************)

\* Plan mode: sandbox.plan is read-only.
ProposePlan(a) ==
  /\ At(a, "plan")
  /\ Emit(a, Plain("plan_proposed"))
  /\ UNCHANGED <<dbVars, ghVars, wfVars, seq, polls, fixes, sha, inflight, reqVars>>

\* Mutant: the plan gate approves by itself.
ParkPlan_Approves(a) ==
  /\ Returned(a, "plan_proposed")
  /\ Emit(a, Plain("sandbox_started"))
  /\ UNCHANGED <<dbVars, ghVars, wfVars, seq, polls, fixes, sha, inflight, reqVars>>

\* The activity's plan gate always declines: the run parks.
ParkPlan(a) ==
  /\ Returned(a, "plan_proposed")
  /\ Emit(a, Outcome("awaiting_plan"))
  /\ UNCHANGED <<dbVars, ghVars, wfVars, seq, polls, fixes, sha, inflight, reqVars>>

\* Mutant: the run is charged when its sandbox starts.
CallSandbox_Charges(a) ==
  /\ Returned(a, "sandbox_started")
  /\ inflight' = inflight \cup {a}
  /\ charged' = charged + 1
  /\ Goto(a, "sandbox")
  /\ UNCHANGED <<runState, task, log, cards, ckpts, rep, ghVars, wfVars, evt,
                 seq, polls, fixes, sha, reqVars>>

\* runFusion asks the sandbox to edit and push.
CallSandbox(a) ==
  /\ Returned(a, "sandbox_started")
  /\ inflight' = inflight \cup {a}
  /\ Goto(a, "sandbox")
  /\ UNCHANGED <<dbVars, ghVars, wfVars, evt, seq, polls, fixes, sha, reqVars>>

\* Mutant: git push --force.
PushAccepted_Forced == TRUE

\* The push of the sandbox is not forced: it succeeds for a new branch only.
PushAccepted == remote = 0

\* The sandbox finishes a request, whether or not its caller still waits.
SandboxPush(a) ==
  /\ a \in inflight
  /\ inflight' = inflight \ {a}
  /\ IF PushAccepted
     THEN /\ remote' = remote + 1
          /\ sha' = [sha EXCEPT ![a] = remote + 1]
          /\ UNCHANGED wfVars
          /\ IF At(a, "sandbox")
             THEN Emit(a, Plain("branch_pushed"))
             ELSE UNCHANGED <<pc, evt>>
     ELSE /\ UNCHANGED <<remote, sha, evt>>
          /\ IF At(a, "sandbox")
             THEN Throw(a, "rejected")
             ELSE UNCHANGED <<wfVars, pc>>
  /\ UNCHANGED <<dbVars, autonomy, pr, green, landedBy, seq, polls, fixes, reqVars>>

\* The agent fails, or the request dies in the sandbox before the push.
SandboxFails(a) ==
  /\ a \in inflight
  /\ inflight' = inflight \ {a}
  /\ IF At(a, "sandbox")
     THEN Throw(a, "aborted")
     ELSE UNCHANGED <<wfVars, pc>>
  /\ UNCHANGED <<dbVars, ghVars, evt, seq, polls, fixes, sha, reqVars>>

\* Find an open pull request for the branch, else go and open one.
FindPr(a) ==
  /\ Returned(a, "branch_pushed")
  /\ IF pr = "open"
     THEN Emit(a, Plain("pr_opened"))
     ELSE Goto(a, "openPr") /\ UNCHANGED evt
  /\ UNCHANGED <<dbVars, ghVars, wfVars, seq, polls, fixes, sha, inflight, reqVars>>

\* GitHub refuses a second pull request for a branch.
OpenPr(a) ==
  /\ At(a, "openPr")
  /\ IF pr = "none"
     THEN pr' = "open" /\ Emit(a, Plain("pr_opened")) /\ UNCHANGED wfVars
     ELSE Throw(a, "rejected") /\ UNCHANGED <<pr, evt>>
  /\ UNCHANGED <<dbVars, autonomy, remote, green, landedBy, seq, polls, fixes,
                 sha, inflight, reqVars>>

\* The top of the polling loop; CI (external) may report anything.
Poll(a) ==
  /\ Returned(a, "pr_opened") \/ At(a, "loop")
  /\ \E status \in ChecksStatus :
       /\ Emit(a, Checks(status))
       /\ green' = IF status = "success" THEN green \cup {sha[a]} ELSE green
  /\ UNCHANGED <<dbVars, autonomy, remote, pr, landedBy, wfVars, seq, polls,
                 fixes, sha, inflight, reqVars>>

\* Still pending: sleep and poll again, until the poll budget is spent.
ChecksPending(a) ==
  /\ Returned(a, "checks") /\ evt[a].status = "pending"
  /\ IF polls[a] + 1 < MaxPolls
     THEN /\ polls' = [polls EXCEPT ![a] = @ + 1]
          /\ Goto(a, "loop") /\ UNCHANGED evt
     ELSE Emit(a, Outcome("timeout")) /\ UNCHANGED polls
  /\ UNCHANGED <<dbVars, ghVars, wfVars, seq, fixes, sha, inflight, reqVars>>

\* Green: the merge gate looks at the diff and decides.
Gate(a) ==
  /\ Returned(a, "checks") /\ evt[a].status = "success"
  /\ \E f \in Findings :
       IF mergeGate(autonomy, f)
       THEN Goto(a, "merge") /\ UNCHANGED evt
       ELSE Emit(a, Outcome("held_for_human"))
  /\ UNCHANGED <<dbVars, ghVars, wfVars, seq, polls, fixes, sha, inflight, reqVars>>

\* mergeIdempotent: a pull request that is merged already counts as success.
Merge(a) ==
  /\ At(a, "merge")
  /\ \/ pr = "open" /\ pr' = "merged" /\ landedBy' = "policy"
     \/ pr = "merged" /\ UNCHANGED <<pr, landedBy>>
  /\ \/ Emit(a, Outcome("merged")) /\ UNCHANGED wfVars
     \/ Throw(a, "aborted") /\ UNCHANGED evt       \* the answer was lost
  /\ UNCHANGED <<dbVars, autonomy, remote, green, seq, polls, fixes, sha,
                 inflight, reqVars>>

\* Red: repair while the budget lasts, else give up.
ChecksFailed(a) ==
  /\ Returned(a, "checks") /\ evt[a].status = "failure"
  /\ IF fixes[a] < MaxFix
     THEN /\ fixes' = [fixes EXCEPT ![a] = @ + 1]
          /\ Emit(a, FixAttempt(fixes[a] + 1))
     ELSE Emit(a, Outcome("checks_failed")) /\ UNCHANGED fixes
  /\ UNCHANGED <<dbVars, ghVars, wfVars, seq, polls, sha, inflight, reqVars>>

\* Mutant: the loop goes on polling the commit from before the repair.
CiFix_StaleSha(a) ==
  /\ Returned(a, "ci_fix_attempt")
  /\ remote' = remote + 1
  /\ polls' = [polls EXCEPT ![a] = 0]
  /\ \/ Goto(a, "loop") /\ UNCHANGED wfVars
     \/ Throw(a, "aborted")
  /\ UNCHANGED <<dbVars, autonomy, pr, green, landedBy, evt, seq, fixes, sha,
                 inflight, reqVars>>

\* sandbox.feedback commits on top of the branch and pushes; the loop starts
\* over on the new commit with a fresh poll budget.
CiFix(a) ==
  /\ Returned(a, "ci_fix_attempt")
  /\ remote' = remote + 1
  /\ sha' = [sha EXCEPT ![a] = remote + 1]
  /\ polls' = [polls EXCEPT ![a] = 0]
  /\ \/ Goto(a, "loop") /\ UNCHANGED wfVars
     \/ Throw(a, "aborted")                        \* the answer was lost
  /\ UNCHANGED <<dbVars, autonomy, pr, green, landedBy, evt, seq, fixes,
                 inflight, reqVars>>

(***************************************************************************)
(* The tail of the activity, after runFusion returned.                     *)
(***************************************************************************)

Decisive(e) == e.outcome \in {"merged", "checks_failed", "timeout"}

\* The credit ledger row has a fresh id each time.
Meter(a) ==
  /\ Returned(a, "outcome")
  /\ charged' = charged + 1
  /\ Goto(a, IF Decisive(evt[a]) THEN "reputation" ELSE "return")
  /\ UNCHANGED <<runState, task, log, cards, ckpts, rep, ghVars, wfVars,
                 attVars, reqVars>>

CountReputation(a) ==
  /\ At(a, "reputation")
  /\ rep' = rep + 1
  /\ Goto(a, "escalate")
  /\ UNCHANGED <<runState, task, log, cards, ckpts, charged, ghVars, wfVars,
                 attVars, reqVars>>

\* UPDATE ... WHERE state = 'in_progress'.
EscalateTask(a) ==
  /\ At(a, "escalate")
  /\ task' = IF task = "in_progress" THEN TaskStateFor(evt[a].outcome) ELSE task
  /\ Goto(a, "return")
  /\ UNCHANGED <<runState, log, cards, ckpts, charged, rep, ghVars, wfVars,
                 attVars, reqVars>>

Complete(a) ==
  /\ At(a, "return")
  /\ Goto(a, "completed")
  /\ IF a = cur
     THEN wf' = "completed" /\ cur' = 0 /\ result' = evt[a].outcome
     ELSE UNCHANGED <<wf, cur, result>>
  /\ UNCHANGED <<dbVars, ghVars, tries, nAtt, late, plan, attVars, reqVars>>

(***************************************************************************)
(* HTTP requests of people: approve or reject a proposed plan, approve a   *)
(* held pull request.  (Declining one only posts a message.)               *)
(***************************************************************************)

\* approve-plan and reject-plan load the run only while it awaits approval.
LoadPlan(q, verdict) ==
  /\ At(q, "idle")
  /\ runState = "awaiting_plan_approval"
  /\ wish' = [wish EXCEPT ![q] = verdict]
  /\ planOk' = (planOk \/ verdict = "running")
  /\ Goto(q, "trCheck")
  /\ UNCHANGED <<dbVars, ghVars, wfVars, attVars, asked>>

\* approve-plan starts an execution with planMode off under the run's own
\* workflow id; Temporal (external) refuses while that id is running.
StartExecution(q) ==
  /\ At(q, "start")
  /\ IF wf = "open"
     THEN UNCHANGED <<wf, tries, cur, plan>>
     ELSE wf' = "open" /\ tries' = 0 /\ cur' = 0 /\ plan' = FALSE
  /\ Goto(q, "idle")
  /\ UNCHANGED <<dbVars, ghVars, nAtt, late, result, attVars, reqVars>>

LoadHeld(q) ==
  /\ At(q, "idle")
  /\ runState = "held_for_human"
  /\ wish' = [wish EXCEPT ![q] = "merged"]
  /\ Goto(q, "land")
  /\ UNCHANGED <<dbVars, ghVars, wfVars, attVars, asked, planOk>>

\* github.merge is called as it is: a merged pull request makes it throw.
LandHeld(q) ==
  /\ At(q, "land")
  /\ IF pr = "open"
     THEN pr' = "merged" /\ landedBy' = "human" /\ Goto(q, "trCheck")
     ELSE UNCHANGED <<pr, landedBy>> /\ Goto(q, "idle")
  /\ UNCHANGED <<dbVars, autonomy, remote, green, wfVars, attVars, reqVars>>

\* The request dies between two of its statements.
AbortRequest(q) ==
  /\ ~At(q, "idle")
  /\ Goto(q, "idle")
  /\ UNCHANGED <<dbVars, ghVars, wfVars, attVars, reqVars>>

(***************************************************************************)

Sink(a) == SinkCheck(a) \/ SinkInsert(a) \/ SinkCard(a) \/ SinkCheckpoint(a)

Transition(x) == TransitionCheck(x) \/ TransitionWrite(x) \/ TransitionTask(x)

Fusion(a) ==
  \/ ProposePlan(a) \/ ParkPlan(a) \/ CallSandbox(a)
  \/ FindPr(a) \/ OpenPr(a) \/ Poll(a)
  \/ ChecksPending(a) \/ Gate(a) \/ Merge(a) \/ ChecksFailed(a) \/ CiFix(a)

Tail(a) == Meter(a) \/ CountReputation(a) \/ EscalateTask(a) \/ Complete(a)

\* What the process of an attempt does when nothing goes wrong.
AttemptStep(a) == Sink(a) \/ Transition(a) \/ Fusion(a) \/ Tail(a)

Fault(a) == Abort(a) \/ TimeOut(a) \/ SandboxFails(a)

RequestStep(q) ==
  \/ \E verdict \in {"running", "error"} : LoadPlan(q, verdict)
  \/ LoadHeld(q) \/ LandHeld(q) \/ StartExecution(q) \/ Transition(q)
  \/ AbortRequest(q)

Next ==
  \/ Dispatch
  \/ \E a \in Attempts : AttemptStep(a) \/ SandboxPush(a) \/ Fault(a)
  \/ \E q \in Requests : RequestStep(q)

\* Temporal dispatches what it owes, a process that is not interrupted goes
\* on, and the sandbox answers.  Nothing obliges people, faults or timeouts.
Fairness ==
  /\ WF_vars(Dispatch)
  /\ \A a \in Attempts : WF_vars(AttemptStep(a)) /\ WF_vars(SandboxPush(a))

Spec == Init /\ [][Next]_vars
FairSpec == Spec /\ Fairness

(***************************************************************************)
(* Properties                                                              *)
(***************************************************************************)

Keys == [type : EventTypes, status : ChecksStatus \cup {"-"}, attempt : 0..MaxFix]
Events == [type : EventTypes \cup {"none"}, status : ChecksStatus \cup {"-"},
           attempt : 0..MaxFix, outcome : FusionOutcome \cup {"-"}]
AttemptPc == Ended \cup
  {"idle", "plan", "check", "insert", "card", "ckpt", "trCheck", "trWrite",
   "trTask", "ret", "sandbox", "openPr", "loop", "merge", "reputation",
   "escalate", "return"}
RequestPc == {"idle", "trCheck", "trWrite", "trTask", "land", "start"}

TypeDb ==
  /\ runState \in RunStates
  /\ task \in {"in_progress", "merged", "blocked"}
  /\ log \subseteq [key : Keys, seq : Nat]
  /\ cards \subseteq Keys
  /\ ckpts \subseteq Nat
  /\ charged \in Nat /\ rep \in Nat

TypeGh ==
  /\ autonomy \in Autonomies
  /\ remote \in Nat /\ green \subseteq Nat
  /\ pr \in {"none", "open", "merged"}
  /\ landedBy \in {"nobody", "policy", "human"}

TypeWf ==
  /\ wf \in {"open", "completed", "failed"}
  /\ tries \in 0..MaxAttempts /\ nAtt \in 0..MaxStarts /\ cur \in 0..nAtt
  /\ late \subseteq Attempts
  /\ plan \in BOOLEAN
  /\ result \in FusionOutcome \cup {"none", "-"}

TypePc == pc \in [Actors -> AttemptPc \cup RequestPc]

TypeAtt ==
  /\ evt \in [Attempts -> Events]
  /\ seq \in [Attempts -> Nat]
  /\ polls \in [Attempts -> 0..MaxPolls]
  /\ fixes \in [Attempts -> 0..MaxFix]
  /\ sha \in [Attempts -> Nat]
  /\ inflight \subseteq Attempts

TypeReq ==
  /\ wish \in [Requests -> {"none", "running", "error", "merged"}]
  /\ asked \in BOOLEAN /\ planOk \in BOOLEAN

\* The type invariant: the rows, the repository, the workflow, the processes
\* and the requests people make.
TypeOK == TypeDb /\ TypeGh /\ TypeWf /\ TypePc /\ TypeAtt /\ TypeReq

\* At most one attempt of a run ever gets a commit onto the branch, however
\* attempts are retried and however long timed-out ones live on.  This is
\* what makes the retry policy of workflows.ts safe: everything after the
\* push (pull request, repairs, merge, accounting) has a single actor.
SinglePusher ==
  \A a, b \in Attempts : sha[a] > 0 /\ sha[b] > 0 => a = b

\* The pull request lands only at a head CI reported green for, and without a
\* person only where the dial says autopilot-merge: run-fusion.ts never merges
\* a repair it has not polled again, and approve never lands an unchecked one.
LandsGreenAndLicensed ==
  pr = "merged" =>
    /\ remote \in green
    /\ landedBy = "policy" => autonomy = "autopilot-merge"
    /\ landedBy # "nobody"

\* A run asked for in plan mode has no commit anywhere before a person
\* approved its plan (run-fusion.ts: "no edits, no PR").
NoEditsBeforeApproval == asked /\ remote > 0 => planOk

\* The unique index on (run_id, seq) never swallows an event: when the sink is
\* about to insert a key that is not in the log, the seq it counted is free.
NoEventSwallowed ==
  \A a \in Attempts :
    At(a, "insert") /\ eventKey(evt[a]) \notin LoggedKeys
      => seq[a] \notin LoggedSeqs

\* The events of a run are numbered 0..N-1, one row per logical event, in an
\* order any reader of run_events can rely on.
EventLogDense ==
  /\ LoggedSeqs = 0..(Cardinality(log) - 1)
  /\ Cardinality(LoggedKeys) = Cardinality(log)

\* A run is counted once in its agent's track record, and a run that was not
\* planned is charged once, even when the activity is retried after its tail.
AccountedOnce == rep <= 1 /\ (~asked => charged <= 1)

\* A held run always has its pr_card in the thread, which carries the run id
\* the approve button needs.
HeldRunHasCard ==
  runState = "held_for_human" => eventKey(Outcome("held_for_human")) \in cards

\* When an execution returns a final outcome the run row holds that outcome
\* (or the merge a person added to a hold).
OutcomeRecorded ==
  result \in FusionOutcome \ {"awaiting_plan"} =>
    \/ runState = result
    \/ result = "held_for_human" /\ runState = "merged"

\* A checkpoint people may restore names a commit that is on the branch.
CheckpointsArePushed == ckpts \subseteq 1..remote

\* The log of a run tells its story whole, though every event is a select and then
\* inserts without a transaction and several attempts write (events.ts:66-80): no
\* event is lost or numbered twice, a hold can be approved, a checkpoint restored.
EventLogSound == NoEventSwallowed /\ EventLogDense /\ HeldRunHasCard /\ CheckpointsArePushed

\* The run row follows the transition table of runs.ts.
Lifecycle == INSTANCE RunLifecycle WITH state <- runState
RunImplementsLifecycle == Lifecycle!Spec

\* The run, whatever its retries, implements the landing contract.
Contract == INSTANCE LandingContract WITH head <- remote
ImplementsContract == Contract!Spec

\* Every execution ends: repairs, polls and attempts are all bounded.
ExecutionEnds == wf = "open" ~> wf # "open"

\* A run started without plan mode whose first attempt is not disturbed ends
\* in a terminal state.
Disturbed == late # {} \/ \E a \in Attempts : At(a, "aborted")
DirectRunSettles == ~asked ~> (isTerminal(runState) \/ Disturbed)

\* Whatever CI answers, an execution comes to an end, and one that nothing disturbed
\* brings its run to a terminal state (run-fusion.ts:105-215).
ExecutionSettles == ExecutionEnds /\ DirectRunSettles

\* A retry absorbs a transient failure: an execution fails only when each of
\* its attempts was itself disturbed (workflows.ts:6-9: "so a transient
\* sandbox/GitHub blip can be retried instead of killing the run").
RetryAbsorbsBlip ==
  wf = "failed" =>
    \A a \in (nAtt - tries + 1)..nAtt : At(a, "aborted") \/ a \in late

\* The code does not keep this one, see README section 6: a run that failed for
\* good has escalated its task (activities.ts:174-176: "instead of leaving it
\* stuck in_progress").
FailedRunEscalates ==
  wf = "failed" /\ (\A x \in Actors : pc[x] \in Ended \cup {"idle"})
    => task # "in_progress"

\* A terminal run state other than held_for_human is final (runs.ts:6-9).
TerminalIsFinal ==
  [][isTerminal(runState) /\ runState # "held_for_human"
       => runState' = runState]_vars

\* Not kept either, see README section 6: a merged run leaves its task merged
\* once nobody is writing (tasks.ts:186: "a merged run LANDS the task at merged").
MergedTaskLands ==
  runState = "merged" /\ (\A x \in Actors : pc[x] \notin {"trWrite", "trTask"})
    => task = "merged"

\* Not kept either, see README section 6: a run that awaits the approval of its
\* plan has the plan_card people approve it with (events.ts:77-78).
PlanHasCard ==
  runState = "awaiting_plan_approval" => eventKey(Plain("plan_proposed")) \in cards

=============================================================================
