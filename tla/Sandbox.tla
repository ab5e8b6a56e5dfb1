------------------------------ MODULE Sandbox -------------------------------
(***************************************************************************)
(* The sandbox runner (services/sandbox-runner): four HTTP handlers that   *)
(* share a semaphore, each cloning a repo into a directory of its own and  *)
(* running git, a setup script and an agent CLI there.                     *)
(*                                                                         *)
(* A clone is what matters of its tree: for each path that the runner or   *)
(* the agent may touch, whose content is there.  Branches are the sequence *)
(* of commits on them.  Subprocesses fail at any time, always once the     *)
(* request's context is over (its deadline, or the client hung up).        *)
(***************************************************************************)
EXTENDS Requests, Sequences, FiniteSets

CONSTANTS
  Inputs,           \* the bodies that are sent
  MaxConcurrent,    \* ACP_MAX_CONCURRENT_RUNS
  AllowExec,        \* ACP_ALLOW_EXEC
  AllowFileRepo,    \* ACP_ALLOW_FILE_REPO
  AllowedAdapters,  \* ACP_ALLOWED_ADAPTERS
  Registered,       \* the adapters there are
  AllowedMcp,       \* ACP_ALLOWED_MCP
  Branches,
  MaxCommits        \* bound: commits on a branch

ASSUME SandboxAssumption ==
  /\ MaxConcurrent \in Nat /\ {AllowExec, AllowFileRepo} \subseteq BOOLEAN
  /\ MaxCommits \in Nat
  /\ \A r \in Inputs : r.branch \in Branches

VARIABLES
  slots,    \* the semaphore: requests that hold a slot
  clone,    \* the temp directories: request -> tree of its clone
  stash,    \* what quarantine moved aside: request -> path -> content
  remote,   \* branch -> the trees of its commits
  over,     \* requests whose context is done
  answer    \* what the client got: 200 with a result, or an error

sandboxVars == <<slots, clone, stash, remote, over, answer>>

\* Paths: those coding agents take instructions from, the MCP config, the rest.
agentConfigPaths == {".claude", "CLAUDE.md"}
Paths == agentConfigPaths \cup {".mcp.json", "src"}
Owners == {"none", "repo", "platform", "agent"}
Tree == [Paths -> Owners]

mcpCatalog == [git |-> "safe", github |-> "sensitive", stripe |-> "money"]
mcpAuthorized(name) ==
  name \in DOMAIN mcpCatalog /\ (mcpCatalog[name] = "safe" \/ name \in AllowedMcp)
adapterAuthorized(name) == name = "fake" \/ name \in AllowedAdapters

\* Names that become arguments: not a flag, no white space or shell characters.
Clean(name) == name \notin {"-flag", "a b"}
GoodUrl(url) == url = "https" \/ (url = "file" /\ AllowFileRepo)
GoodOptions(r) == Clean(r.model) /\ \A n \in r.mcp : Clean(n) /\ n # ""

ValidRun(r) == GoodUrl(r.url) /\ r.text # "" /\ GoodOptions(r) /\ Clean(r.branch)
ValidPlan(r) == GoodUrl(r.url) /\ r.text # "" /\ GoodOptions(r)
ValidExec(r) == GoodUrl(r.url) /\ r.text # ""
ValidFeedback(r) == GoodUrl(r.url) /\ r.text # "" /\ GoodOptions(r) /\ Clean(r.branch)

\* f without q.
Drop(f, q) == [p \in DOMAIN f \ {q} |-> f[p]]

\* main has one commit of the repo's own.
SandboxInit ==
  /\ slots = {} /\ clone = <<>> /\ stash = <<>> /\ over = {} /\ answer = <<>>
  /\ \E tree \in {[p \in Paths |-> "repo"], [p \in Paths |-> IF p = "src" THEN "repo" ELSE "none"]} :
       remote = [b \in Branches \cup {"main"} |-> IF b = "main" THEN <<tree>> ELSE <<>>]

-----------------------------------------------------------------------------
(* The handlers. *)

\* Every way out: the answer, and the deferred calls (the directory is removed,
\* the slot released).
Respond(q, result) ==
  /\ answer' = Put(answer, q, result)
  /\ clone' = Drop(clone, q) /\ stash' = Drop(stash, q)
  /\ slots' = slots \ {q} /\ over' = over \ {q}
  /\ Return(q)

Fail(q) == Respond(q, <<"error">>) /\ UNCHANGED remote

\* newSemaphore: at least one.
SlotCount == IF MaxConcurrent < 1 THEN 1 ELSE MaxConcurrent

\* The front of each handler: the slot, the body, the adapter.
Accept(q, kind, valid, first) ==
  /\ Called(q, kind)
  /\ \E r \in Inputs :
       IF Cardinality(slots) < SlotCount /\ r \in valid
       THEN /\ Enter(q, kind, [at |-> first, call |-> kind, body |-> r, failed |-> FALSE,
                                written |-> {}, pushed |-> <<>>])
            /\ slots' = slots \cup {q} /\ UNCHANGED <<clone, stash, over, answer>>
       ELSE Fail(q)
  /\ UNCHANGED remote

KnownAdapter(r) == adapterAuthorized(r.adapter) /\ r.adapter \in Registered

HandleRun(q) == Accept(q, "run", {r \in Inputs : ValidRun(r) /\ KnownAdapter(r)}, "prepare")
HandlePlan(q) == Accept(q, "plan", {r \in Inputs : ValidPlan(r) /\ KnownAdapter(r)}, "clone")
HandleExec(q) == Accept(q, "exec", {r \in Inputs : AllowExec /\ ValidExec(r)}, "clone")
HandleFeedback(q) ==
  Accept(q, "feedback", {r \in Inputs : ValidFeedback(r) /\ KnownAdapter(r)}, "clone")

\* A subprocess or a check: it may fail; it does when the context is over.
Step(q, place, next) ==
  /\ At(q, place)
  /\ \/ q \notin over /\ Goto(q, next) /\ UNCHANGED sandboxVars
     \/ Fail(q)

\* Looking for the CLI on the PATH (before the clone in /run, after it elsewhere).
Prepare(q) == Step(q, "prepare", IF q \in DOMAIN clone THEN "work" ELSE "clone")

Base(q) == IF req[q].call = "feedback" THEN req[q].body.branch ELSE "main"

CloneInto(q) ==
  /\ At(q, "clone")
  /\ \/ /\ q \notin over /\ remote[Base(q)] # <<>>
        /\ Goto(q, "size")
        /\ LET commits == remote[Base(q)]
           IN  clone' = Put(clone, q, [tree |-> commits[Len(commits)], parent |-> Len(commits)])
        /\ UNCHANGED <<slots, stash, remote, over, answer>>
     \/ Fail(q)

checkRepoSize(q) ==
  Step(q, "size", CASE req[q].call = "run" -> "setup"
                    [] req[q].call = "feedback" -> "setup"
                    [] req[q].call = "plan" -> "prepare"
                    [] OTHER -> "command")

\* Output is read by lines of at most 1 MiB: after a longer one nobody reads the
\* pipe, Wait waits for the copy into it, and killing the child changes nothing.
Stuck(q) ==
  /\ req[q].at \in {"setup", "command"} \/ (At(q, "agent") /\ req[q].call # "plan")
  /\ req[q].body.longLine /\ Goto(q, "stuck") /\ UNCHANGED sandboxVars

runSetupScript(q) ==
  Step(q, "setup", IF req[q].call = "feedback" THEN "prepare" ELSE "work")

Exec(q) ==
  /\ At(q, "command")
  /\ \/ q \notin over /\ Respond(q, <<"result">>) /\ UNCHANGED remote
     \/ Fail(q)

-----------------------------------------------------------------------------
(* The agent: runAgentShared and planShared. *)

SetTree(q, tree) == clone' = [clone EXCEPT ![q].tree = tree]

\* Moved aside to a temp directory; if that cannot be made, nothing is moved.
quarantineRepoConfig(q) ==
  /\ At(q, "work") /\ req[q].body.adapter # "fake"
  /\ LET tree == clone[q].tree
         moved == {p \in agentConfigPaths : tree[p] # "none"}
     IN  \/ /\ stash' = Put(stash, q, [p \in moved |-> tree[p]])
            /\ SetTree(q, [p \in Paths |-> IF p \in moved THEN "none" ELSE tree[p]])
         \/ UNCHANGED <<stash, clone>>
  /\ Goto(q, "provision") /\ UNCHANGED <<slots, remote, over, answer>>

\* .mcp.json when a requested server is authorized: written over what the clone
\* had there.
provisionMcpConfig(names, tree) ==
  IF \E n \in names : mcpAuthorized(n) THEN [tree EXCEPT ![".mcp.json"] = "platform"] ELSE tree

\* The built-in skills and the MCP servers.
ProvisionConfig(q) ==
  /\ At(q, "provision") /\ Goto(q, "agent")
  /\ SetTree(q, provisionMcpConfig(req[q].body.mcp,
       [clone[q].tree EXCEPT ![".claude"] = IF @ = "none" THEN "platform" ELSE @]))
  /\ UNCHANGED <<slots, stash, remote, over, answer>>

\* What the CLI may write; nothing in plan mode (planShared).
Writes(q) == IF req[q].call = "plan" THEN {{}}
             ELSE {{}, {"src"}, {"src", "CLAUDE.md"}, {"src", ".claude"}}

\* The CLI edits files, perhaps its own configuration too, and fails or not; the
\* deferred clean-up comes after it either way.
AgentEdits(q) ==
  /\ At(q, "agent")
  /\ \E written \in Writes(q), failed \in BOOLEAN :
       /\ q \in over => failed
       /\ SetTree(q, [p \in Paths |-> IF p \in written THEN "agent" ELSE clone[q].tree[p]])
       /\ req' = [req EXCEPT ![q].at = "restore", ![q].failed = failed, ![q].written = written]
  /\ UNCHANGED <<slots, stash, remote, over, answer>>

\* Mutant: what was moved aside is forgotten.
RestoreConfig_Forgets(q) ==
  /\ At(q, "restore")
  /\ SetTree(q, [p \in Paths |->
       IF clone[q].tree[p] = "platform" THEN "none" ELSE clone[q].tree[p]])
  /\ stash' = Drop(stash, q)
  /\ Goto(q, "finish") /\ UNCHANGED <<slots, remote, over, answer>>

\* What was provisioned is removed, then what was moved aside is moved back: over
\* a file, but a directory the agent has put things in stays as it is.
RestoreConfig(q) ==
  /\ At(q, "restore")
  /\ LET tree == clone[q].tree
         aside == IF q \in DOMAIN stash THEN stash[q] ELSE [p \in {} |-> "none"]
         removed == [p \in Paths |-> IF tree[p] = "platform" THEN "none" ELSE tree[p]]
     IN  SetTree(q, [p \in Paths |->
           IF p \in DOMAIN aside /\ ~(p = ".claude" /\ removed[p] # "none")
           THEN aside[p] ELSE removed[p]])
  /\ stash' = Drop(stash, q)
  /\ Goto(q, "finish") /\ UNCHANGED <<slots, remote, over, answer>>

\* FakeAdapter: it writes a file, in place.
FakeAgent(q) ==
  /\ At(q, "work") /\ req[q].body.adapter = "fake"
  /\ req' = [req EXCEPT ![q].at = "finish", ![q].written = {"src"}]
  /\ IF req[q].call = "plan" THEN UNCHANGED clone
     ELSE SetTree(q, [clone[q].tree EXCEPT !["src"] = "agent"])
  /\ UNCHANGED <<slots, stash, remote, over, answer>>

Finish(q) ==
  /\ At(q, "finish")
  /\ IF req[q].failed \/ q \in over THEN Fail(q)
     ELSE IF req[q].call = "plan" THEN Respond(q, <<"result">>) /\ UNCHANGED remote
     ELSE Goto(q, "commit") /\ UNCHANGED sandboxVars

\* add -A and commit: nothing to commit is an error.
Commit(q) ==
  /\ At(q, "commit")
  /\ \/ q \notin over /\ req[q].written # {} /\ Goto(q, "push") /\ UNCHANGED sandboxVars
     \/ Fail(q)

\* Mutant: git push --force.
Push_Forces(q) ==
  /\ At(q, "push")
  /\ LET b == req[q].body.branch
         parent == IF req[q].call = "feedback" THEN clone[q].parent ELSE 0
     IN  \/ /\ q \notin over
            /\ remote' = [remote EXCEPT ![b] = Append(SubSeq(@, 1, parent), clone[q].tree)]
            /\ req' = [req EXCEPT ![q].at = "sha", ![q].pushed = <<"pushed", b, parent + 1>>]
            /\ UNCHANGED <<slots, clone, stash, over, answer>>
         \/ Fail(q)

\* /run pushes a branch it made off main, /feedback the branch it cloned.  git
\* refuses unless the commit is ahead of what is there.
Push(q) ==
  /\ At(q, "push")
  /\ LET b == req[q].body.branch
         parent == IF req[q].call = "feedback" THEN clone[q].parent ELSE 0
     IN  \/ /\ q \notin over /\ Len(remote[b]) = parent /\ parent < MaxCommits
            /\ remote' = [remote EXCEPT ![b] = Append(@, clone[q].tree)]
            /\ req' = [req EXCEPT ![q].at = "sha", ![q].pushed = <<"pushed", b, parent + 1>>]
            /\ UNCHANGED <<slots, clone, stash, over, answer>>
         \/ Fail(q)

\* rev-parse, then the answer: the push may be done and the client get an error.
Report(q) ==
  /\ At(q, "sha")
  /\ \/ q \notin over /\ Respond(q, req[q].pushed) /\ UNCHANGED remote
     \/ Fail(q)

\* The deadline passes, or the app's connection closes.
ContextOver(q) ==
  /\ q \in slots \ over /\ over' = over \cup {q}
  /\ UNCHANGED <<req, slots, clone, stash, remote, answer>>

runAgentShared(q) ==
  quarantineRepoConfig(q) \/ ProvisionConfig(q) \/ AgentEdits(q) \/ RestoreConfig(q)

Work(q) ==
  \/ Prepare(q) \/ CloneInto(q) \/ checkRepoSize(q) \/ runSetupScript(q) \/ Exec(q)
  \/ runAgentShared(q)
  \/ FakeAgent(q) \/ Finish(q) \/ Commit(q) \/ Push(q) \/ Report(q)

SandboxHandler(q) ==
  \/ HandleRun(q) \/ HandlePlan(q) \/ HandleExec(q) \/ HandleFeedback(q)
  \/ Work(q) \/ Stuck(q) \/ ContextOver(q)

Init == SandboxInit /\ \E plan \in Plans : req = Planned(plan)
Next == \E q \in Reqs : SandboxHandler(q)
Spec == Init /\ [][Next]_<<req, sandboxVars>>

\* The handlers' goroutines run.
FairSpec == Spec /\ \A q \in Reqs : WF_<<req, sandboxVars>>(Work(q))

-----------------------------------------------------------------------------
(* Properties. *)

SandboxTypeOK ==
  /\ slots \subseteq Reqs /\ Cardinality(slots) <= SlotCount
  /\ \A q \in Reqs : q \in slots <=> Busy(q)
  /\ over \subseteq slots /\ DOMAIN clone \subseteq slots /\ DOMAIN stash \subseteq slots
  /\ \A q \in DOMAIN clone : clone[q].tree \in Tree
  /\ \A b \in DOMAIN remote : remote[b] \in Seq(Tree)

\* While the agent is at work none of the repo's own instruction files is where
\* it would read it, unless moving them aside was impossible.
AgentSeesNoRepoConfig ==
  \A q \in DOMAIN stash : At(q, "agent") =>
    \A p \in agentConfigPaths : clone[q].tree[p] # "repo"

\* The commit has every instruction file as it was cloned, if the agent did not
\* write it itself ("moves them back", quarantine.go:16-18), whether the agent
\* failed or the deadline passed meanwhile.
ConfigComesBack ==
  \A b \in DOMAIN remote : \A i \in 1..Len(remote[b]) : \A p \in agentConfigPaths :
    remote[b][i][p] \in {remote["main"][1][p], "agent"}

\* The repo's instruction files are out of the agent's sight and back in the commit
\* (quarantine.go:12-18), wherever the deadline falls.
RepoConfigQuarantined == SandboxTypeOK /\ AgentSeesNoRepoConfig /\ ConfigComesBack

\* A run or feedback that is reported as done has its commit on the branch, and
\* nobody pushes over it.
ReportedIsPushed ==
  \A q \in DOMAIN answer : answer[q][1] = "pushed" =>
    answer[q][3] \in 1..Len(remote[answer[q][2]])

\* "The committed tree stays clean" (mcp.go:95-97): what the platform puts in for
\* the agent does not show in the commit, neither its files nor their absence.
CommittedTreeClean ==
  \A b \in DOMAIN remote : \A i \in 1..Len(remote[b]) : \A p \in Paths :
    remote[b][i][p] \in {remote["main"][1][p], "agent"}

\* Every request gives its slot back ("keep reading (so the pipe never blocks the
\* command)", exec.go:113-114): the deadline sees to it.
SlotComesBack == \A q \in Reqs : q \in slots ~> q \notin slots

=============================================================================
