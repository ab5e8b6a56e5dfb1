----------------------------- MODULE TaskBoard ------------------------------
(***************************************************************************)
(* The tasks of one thread, the runs competing for them and the requests   *)
(* that open both (services/app/src/tasks/tasks.ts and the routes around   *)
(* it): mentions of agents and teams, hand-off, fan-out, restoring a       *)
(* checkpoint, choosing a winner, editing and bulk creation.  Beside them  *)
(* the fusion activity moves the runs it was given and, as in              *)
(* transitionRun, the task of a run that ended.                            *)
(*                                                                         *)
(* Everything is in one org and one thread: a row of another org is        *)
(* invisible to every query, and Unknown stands for its id.  Titles,       *)
(* bodies, priorities, due dates and model settings are left out.          *)
(***************************************************************************)
EXTENDS ThreadRepos, RunStateTable, Sequences, FiniteSets, SequencesExt

CONSTANTS
  Agents,       \* agents of the org
  Unknown,      \* an id or a handle that the org does not have
  Team,         \* the handle of a team, and in Members its agents
  Members,
  Permits,      \* <<agent, repo>>: shared, or in the repo's workspace
  Tokens,       \* the repos whose token is in the environment
  Board,        \* the thread the tasks belong to
  Bodies,       \* what people and agents write: sequences of handles
  BulkCreateMax,
  MaxDepth,     \* MAX_DEPTH of a mention chain
  MaxTasks,     \* bound: rows of tasks
  MaxRuns,      \* bound: rows of runs
  Outcomes,     \* bound: the states runs are moved to
  MaxMoves,     \* bound: state changes of runs
  MaxFaults     \* bound: requests and transitions that die halfway

ASSUME BoardAssumption ==
  /\ Members \subseteq Agents /\ Permits \subseteq Agents \X Repos
  /\ Tokens \subseteq Repos /\ Board \in Threads
  /\ {MaxDepth, MaxRuns, BulkCreateMax} \subseteq Nat /\ MaxTasks \in Nat \ {0}
  /\ Unknown \notin Agents /\ Team \notin Agents

Human == "human"
TASK_STATES == {"open", "backlog", "todo", "in_progress", "in_review",
                "merged", "blocked", "done", "cancelled"}

VARIABLES
  task,     \* tasks: the rows in the order they were inserted
  run,      \* runs, likewise
  link,     \* task_relations
  wf,       \* the workflows Temporal was asked to start, and with what
  owed,     \* runs that ended and whose task is not written yet
  skipped,  \* runs whose request found no repo or token to start them on
  chat,     \* system messages, one per kind and request
  edited,   \* tasks whose state a person set (PATCH or bulk create)
  moves, faults

boardVars == <<task, run, link, wf, skipped, owed, chat, edited, moves, faults>>
board == <<repoVars, boardVars>>
vars == <<req, board>>

TaskRow == [state : TASK_STATES, assignee : Agents \cup {"none"}]
RunRow == [task : 1..MaxTasks, state : RunStates, selected : BOOLEAN,
           parent : 0..MaxRuns]
Workflow == [run : 1..MaxRuns, agent : Agents \cup {"none"}, by : Reqs,
             repo : Tokens, base : 0..MaxRuns, depth : Nat, role : STRING \cup {"none"}]

Tasks == 1..Len(task)
Runs == 1..Len(run)
RunsOf(t) == {r \in Runs : run[r].task = t}
NewRun(t, parent) ==
  [task |-> t, state |-> "pending", selected |-> FALSE, parent |-> parent]

\* A task was written on the board before.
Init ==
  /\ \E plan \in Plans : req = Planned(plan)
  /\ \E r \in Tokens \cup {NoRepo} :
       /\ repoId = [t \in {Board} |-> r]
       /\ attached = IF r = NoRepo THEN {} ELSE {<<Board, r, TRUE>>}
  /\ task = <<[state |-> "backlog", assignee |-> "none"]>> /\ run = <<>> /\ link = {}
  /\ wf = {} /\ skipped = {} /\ owed = {}
  /\ chat = {} /\ edited = {} /\ moves = 0 /\ faults = 0

-----------------------------------------------------------------------------
(* Mentions. *)

\* A person posts in the thread: depth 0.
PostMessage(q) ==
  /\ \E body \in Bodies, directive \in BOOLEAN :
       Enter(q, "post", [at |-> "mentions", author |-> Human, todo |-> body, depth |-> 0,
                 directive |-> directive, seen |-> {}])
  /\ UNCHANGED board

\* An agent's run writes to the thread, at the depth of that run.
PostAgentMessage(q) ==
  /\ \E w \in wf, body \in Bodies :
       /\ w.agent \in Agents
       /\ Enter(q, "agentPost", [at |-> "mentions", author |-> w.agent, todo |-> body,
                    depth |-> w.depth, directive |-> FALSE, seen |-> {}])
  /\ UNCHANGED board

\* handleMentions before its loop: the depth guard, and the directive to a
\* business, which drafts into the funnel (MoneyPath) and starts no run.
HandleMentions(q) ==
  /\ At(q, "mentions")
  /\ \/ /\ req[q].depth >= MaxDepth /\ Return(q) /\ UNCHANGED chat
     \/ /\ req[q].depth < MaxDepth /\ req[q].directive
        /\ ToSet(req[q].todo) \cap Agents # {}
        /\ Return(q) /\ chat' = chat \cup {<<"drafted", q>>}
     \/ /\ req[q].depth < MaxDepth
        /\ req[q].directive => ToSet(req[q].todo) \cap Agents = {}
        /\ GotoWith(q, "each", [repo |-> repoId[Board]]) /\ UNCHANGED chat
  /\ UNCHANGED <<repoVars, task, run, link, wf, skipped, owed, edited, moves, faults>>

\* One handle: an agent, a team (its agents take its place), or neither.
ResolveMention(q) ==
  /\ At(q, "each") /\ req[q].todo # <<>> /\ Head(req[q].todo) \notin Agents
  /\ LET team == IF Head(req[q].todo) = Team THEN SetToSeq(Members) ELSE <<>>
     IN  GotoWith(q, "each", [todo |-> team \o Tail(req[q].todo)])
  /\ UNCHANGED board

\* Mutant: no dedup.
StartForAgent_NoDedup(q) ==
  /\ At(q, "each") /\ req[q].todo # <<>> /\ Head(req[q].todo) \in Agents
  /\ LET a == Head(req[q].todo)
     IN  IF a = req[q].author \/ <<a, req[q].repo>> \notin Permits \/ req[q].repo \notin Tokens
         THEN GotoWith(q, "each", [todo |-> Tail(req[q].todo)])
         ELSE GotoWith(q, "open", [agent |-> a, base |-> 0, next |-> "each"])
  /\ UNCHANGED board

\* startForAgent: reached before in this message, itself, not permitted, no
\* repo or no token: skipped.
StartForAgent(q) ==
  /\ At(q, "each") /\ req[q].todo # <<>> /\ Head(req[q].todo) \in Agents
  /\ LET a == Head(req[q].todo)
     IN  IF \/ a \in req[q].seen \/ a = req[q].author
            \/ <<a, req[q].repo>> \notin Permits \/ req[q].repo \notin Tokens
         THEN GotoWith(q, "each", [todo |-> Tail(req[q].todo)])
         ELSE GotoWith(q, "open", [agent |-> a, base |-> 0, next |-> "each"])
  /\ UNCHANGED board

\* openTaskForMention: the task, then the run.
OpenTask(q) ==
  /\ At(q, "open") /\ Len(task) < MaxTasks
  /\ task' = Append(task, [state |-> "in_progress", assignee |-> req[q].agent])
  /\ GotoWith(q, "run", [task |-> Len(task) + 1, parent |-> 0])
  /\ UNCHANGED <<repoVars, run, link, wf, skipped, owed, chat, edited, moves, faults>>

\* Mutant: the run is recorded and the caller goes on without starting it.
OpenRun_ForgetsStart(q) ==
  /\ At(q, "run") /\ Len(run) < MaxRuns
  /\ run' = Append(run, NewRun(req[q].task, req[q].parent))
  /\ Goto(q, req[q].next)
  /\ UNCHANGED <<repoVars, task, link, wf, skipped, owed, chat, edited, moves, faults>>

\* The insert every path shares.  Mentions and fan-out have looked the repo up
\* before, hand-off and restore do so only now.
OpenRun(q) ==
  /\ At(q, "run") /\ Len(run) < MaxRuns
  /\ run' = Append(run, NewRun(req[q].task, req[q].parent))
  /\ GotoWith(q, IF "repo" \in DOMAIN req[q] THEN "start" ELSE "repo",
              [run |-> Len(run) + 1])
  /\ UNCHANGED <<repoVars, task, link, wf, skipped, owed, chat, edited, moves, faults>>

ReadRepo(q) ==
  /\ At(q, "repo") /\ GotoWith(q, "start", [repo |-> repoId[Board]])
  /\ UNCHANGED board

\* The run is recorded, but there is no repo or no token to start it on.
SkipStart(q) ==
  /\ At(q, "start") /\ req[q].repo \notin Tokens
  /\ skipped' = skipped \cup {req[q].run} /\ Goto(q, req[q].next)
  /\ UNCHANGED <<repoVars, task, run, link, wf, owed, chat, edited, moves, faults>>

\* startFusionRun, and what the caller notes when it returns.
StartFusionRun(q) ==
  /\ At(q, "start") /\ req[q].repo \in Tokens
  /\ wf' = wf \cup {[run |-> req[q].run, agent |-> req[q].agent, by |-> q,
                     repo |-> req[q].repo, base |-> req[q].base,
                     role |-> IF "order" \in DOMAIN req[q] THEN Head(req[q].order) ELSE "none",
                     depth |-> IF "depth" \in DOMAIN req[q]
                               THEN req[q].depth + 1 ELSE 0]}
  /\ IF "todo" \in DOMAIN req[q]
     THEN GotoWith(q, req[q].next, [todo |-> Tail(req[q].todo),
                                    seen |-> req[q].seen \cup {req[q].agent}])
     ELSE Goto(q, req[q].next)
  /\ UNCHANGED <<repoVars, task, run, link, skipped, owed, chat, edited, moves, faults>>

MentionsDone(q) == At(q, "each") /\ req[q].todo = <<>> /\ Return(q) /\ UNCHANGED board

-----------------------------------------------------------------------------
(* Hand-off, fan-out, restore, select. *)

\* POST /tasks/:id/reassign: the parent run is looked up first.
Reassign(q) ==
  /\ \E t \in Tasks, a \in Agents, p \in {0} \cup Runs :
       Enter(q, "reassign", [at |-> "assign", task |-> t, agent |-> a, parent |-> p,
                 base |-> p, next |-> "post", note |-> "handed_off"])
  /\ UNCHANGED board

\* reassignTask: the task row, whatever state it is in; the run comes next.
AssignTask(q) ==
  /\ At(q, "assign")
  /\ task' = [task EXCEPT ![req[q].task] =
                [state |-> "in_progress", assignee |-> req[q].agent]]
  /\ Goto(q, "run")
  /\ UNCHANGED <<repoVars, run, link, wf, skipped, owed, chat, edited, moves, faults>>

\* POST /tasks/:id/fan-out, for ids that may repeat or be unknown.
FanOut(q) ==
  /\ \E t \in Tasks, ids \in Bodies :
       Enter(q, "fanOut", [at |-> "fan", task |-> t, todo |-> ids, seen |-> {}, parent |-> 0,
                 base |-> 0, repo |-> repoId[Board], note |-> "fanned_out"])
  /\ UNCHANGED board

\* One id of fanOutTask's loop.
FanOutNext(q) ==
  /\ At(q, "fan")
  /\ IF req[q].todo = <<>> THEN Goto(q, "post")
     ELSE LET a == Head(req[q].todo)
          IN  IF a \in req[q].seen \/ a \notin Agents
              THEN GotoWith(q, "fan", [todo |-> Tail(req[q].todo),
                                       seen |-> req[q].seen \cup {a}])
              ELSE GotoWith(q, "run", [agent |-> a, next |-> "fan",
                                       seen |-> req[q].seen \cup {a}])
  /\ UNCHANGED board

\* POST /runs/:id/checkpoints/:cpId/restore: a run that had a commit pushed; the
\* new run works for whoever the task is assigned to now.
Restore(q) ==
  /\ \E r \in Runs :
       /\ run[r].state \notin {"pending", "awaiting_plan_approval"}
       /\ Enter(q, "restore", [at |-> "run", task |-> run[r].task, parent |-> 0, base |-> r,
                    agent |-> task[run[r].task].assignee, next |-> "post",
                    note |-> "restored"])
  /\ UNCHANGED board

\* The system message all four end with.
Announce(q) ==
  /\ At(q, "post")
  /\ chat' = chat \cup {<<req[q].note, q>>}
  /\ Return(q)
  /\ UNCHANGED <<repoVars, task, run, link, wf, skipped, owed, edited, moves, faults>>

\* selectRun's transaction has these rows locked until it commits.
Locked(r) == \E q \in Reqs : At(q, "set") /\ r \in req[q].rows

SelectRun(q) ==
  /\ \E r \in Runs : Enter(q, "select", [at |-> "clear", run |-> r, note |-> "selected"])
  /\ UNCHANGED board

\* Mutant: without the transaction, two statements.
ClearSiblings_NoTransaction(q) ==
  /\ At(q, "clear") /\ GotoWith(q, "set", [rows |-> {}])
  /\ run' = [r \in Runs |-> [run[r] EXCEPT !.selected = @ /\ run[r].task # run[req[q].run].task]]
  /\ UNCHANGED <<repoVars, task, link, wf, skipped, owed, chat, edited, moves, faults>>

\* update runs set selected = false where task_id = ...; it waits for the rows,
\* and nobody sees it before the commit.
ClearSiblings(q) ==
  /\ At(q, "clear")
  /\ LET rows == RunsOf(run[req[q].run].task)
     IN  /\ \A r \in rows : ~Locked(r)
         /\ GotoWith(q, "set", [rows |-> rows])
  /\ UNCHANGED board

SetWinner(q) ==
  /\ At(q, "set")
  /\ run' = [r \in Runs |-> IF r \in req[q].rows \cup {req[q].run}
                            THEN [run[r] EXCEPT !.selected = (r = req[q].run)]
                            ELSE run[r]]
  /\ Goto(q, "post")
  /\ UNCHANGED <<repoVars, task, link, wf, skipped, owed, chat, edited, moves, faults>>

-----------------------------------------------------------------------------
(* Edits. *)

UpdateTask(q) ==
  /\ Called(q, "edit") /\ Return(q)
  /\ \E t \in Tasks, state \in {"todo", "done"} :
       task' = [task EXCEPT ![t].state = state] /\ edited' = edited \cup {t}
  /\ UNCHANGED <<repoVars, run, link, wf, skipped, owed, chat, moves, faults>>

\* All rows in one transaction; a task of this kind has no assignee.
BulkCreateTasks(q) ==
  /\ Called(q, "bulk") /\ Return(q)
  /\ \E n \in 1..BulkCreateMax :
       /\ Len(task) + n <= MaxTasks
       /\ task' = task \o [i \in 1..n |-> [state |-> "backlog", assignee |-> "none"]]
       /\ edited' = edited \cup (Len(task) + 1 .. Len(task) + n)
  /\ UNCHANGED <<repoVars, run, link, wf, skipped, owed, chat, moves, faults>>

\* Adding a relation again changes nothing.
AddTaskRelation(q) ==
  /\ Called(q, "relate") /\ Return(q)
  /\ \E from, to \in Tasks, relation \in {"blocks", "duplicate"} :
       link' = link \cup {<<from, to, relation>>}
  /\ UNCHANGED <<repoVars, task, run, wf, skipped, owed, chat, edited, moves, faults>>

TaskDetailRoutes(q) == UpdateTask(q) \/ BulkCreateTasks(q) \/ AddTaskRelation(q)

-----------------------------------------------------------------------------
(* The fusion activity of a started run: transitionRun, row by row. *)

MoveRun(r, to) ==
  /\ \E w \in wf : w.run = r
  /\ canTransition(run[r].state, to) /\ ~Locked(r) /\ r \notin owed
  /\ moves < MaxMoves /\ moves' = moves + 1
  /\ run' = [run EXCEPT ![r].state = to]
  /\ owed' = IF isTerminal(to) THEN owed \cup {r} ELSE owed
  /\ UNCHANGED <<req, repoVars, task, link, wf, skipped, chat, edited, faults>>

\* Mutant: whatever is not failed counts as merged.
TaskOfRun_HeldIsMerged(r) ==
  /\ r \in owed /\ owed' = owed \ {r}
  /\ task' = [task EXCEPT ![run[r].task].state =
                IF run[r].state = "failed" THEN "blocked" ELSE "merged"]
  /\ UNCHANGED <<req, repoVars, run, link, wf, skipped, chat, edited, moves, faults>>

TaskOfRun(r) ==
  /\ r \in owed /\ owed' = owed \ {r}
  /\ task' = [task EXCEPT ![run[r].task].state =
                IF run[r].state = "merged" THEN "merged" ELSE "blocked"]
  /\ UNCHANGED <<req, repoVars, run, link, wf, skipped, chat, edited, moves, faults>>

\* A handler dies; a transition dies before it wrote the task.
Crash(q) ==
  /\ faults < MaxFaults /\ faults' = faults + 1 /\ Die(q)
  /\ UNCHANGED <<repoVars, task, run, link, wf, skipped, owed, chat, edited, moves>>
LoseTaskWrite(r) ==
  /\ faults < MaxFaults /\ faults' = faults + 1
  /\ r \in owed /\ owed' = owed \ {r}
  /\ UNCHANGED <<req, repoVars, task, run, link, wf, skipped, chat, edited, moves>>

Handler(q) ==
  \/ PostMessage(q) \/ PostAgentMessage(q) \/ HandleMentions(q) \/ ResolveMention(q)
  \/ StartForAgent(q) \/ OpenTask(q) \/ OpenRun(q) \/ ReadRepo(q)
  \/ SkipStart(q) \/ StartFusionRun(q)
  \/ MentionsDone(q)
  \/ Reassign(q) \/ AssignTask(q) \/ FanOut(q) \/ FanOutNext(q) \/ Restore(q)
  \/ TaskDetailRoutes(q)
  \/ SelectRun(q) \/ ClearSiblings(q) \/ SetWinner(q) \/ Announce(q)
  \/ Crash(q)

Next ==
  \/ \E q \in Reqs :
       \/ Handler(q)
       \/ RepoHandler(q) /\ UNCHANGED boardVars
  \/ \E r \in Runs, to \in Outcomes : MoveRun(r, to)
  \/ \E r \in Runs : TaskOfRun(r) \/ LoseTaskWrite(r)

Spec == Init /\ [][Next]_vars

-----------------------------------------------------------------------------
(* Properties. *)

\* Rows and workflow inputs have their types, and refer to rows that exist.
TypeOK ==
  /\ task \in Seq(TaskRow) /\ Len(task) <= MaxTasks
  /\ run \in Seq(RunRow) /\ Len(run) <= MaxRuns
  /\ \A r \in Runs : run[r].task \in Tasks /\ run[r].parent < r
  /\ RepoRowType /\ skipped \subseteq Runs
  /\ wf \subseteq Workflow /\ \A w \in wf : w.run \in Runs
  /\ owed \subseteq Runs /\ edited \subseteq Tasks

\* However selections, new runs and transitions interleave, at most one run of a
\* task is selected (selectRun, tasks.ts:151-155).
OneWinner == \A t \in Tasks : Cardinality({r \in RunsOf(t) : run[r].selected}) <= 1

\* One message or one fan-out starts an agent once, though it may be named by
\* its handle, by its team and twice (dedup and seen); a team of roles starts each
\* role once.
StartedOnce ==
  \A v, w \in wf : v.by = w.by /\ v.agent = w.agent /\ v.role = w.role => v.run = w.run

\* Agents that mention each other stop: no run is deeper than MAX_DEPTH in the
\* chain that began with a person's message.
ChainBounded == \A w \in wf : w.depth <= MaxDepth

\* Mentions start what they name, once, and come to an end, in rows of their types
\* (mentions.ts).
MentionsBounded == TypeOK /\ StartedOnce /\ ChainBounded

Opened(q, r) == {"run", "next"} \subseteq DOMAIN req[q] /\ req[q].run = r

\* A run row without a workflow is about to get one, or has no repo to work on,
\* or its request died between the row and the start: nothing else strands it.
StrandedExplained ==
  \A r \in Runs :
    \/ \E w \in wf : w.run = r
    \/ r \in skipped
    \/ \E q \in Reqs : req[q].at \in {"repo", "start", "dead"} /\ Opened(q, r)

\* A task is shown as merged only if one of its runs merged: a run that lost the
\* fan-out, or whose task write was lost, cannot make it so.
MergedIsTrue ==
  \A t \in Tasks : task[t].state = "merged" => \E r \in RunsOf(t) : run[r].state = "merged"

=============================================================================
