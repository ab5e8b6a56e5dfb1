------------------------------- MODULE Roster -------------------------------
(***************************************************************************)
(* Who works in an org and with what (services/app/src/agents, skillopt,   *)
(* delegation/reputation-store, billing/plans, repos, tools): agents, the  *)
(* workspaces' assistants, their skill documents and the optimiser that    *)
(* edits them, track records, connected repos and the issues taken in as   *)
(* goals, internal tools.  The caller has passed the role check.           *)
(*                                                                         *)
(* Nothing here is in a transaction: what a handler read may be old when   *)
(* it writes.  A skill document is the lessons in it and whose text it is. *)
(***************************************************************************)
EXTENDS Requests, FiniteSets, Integers

CONSTANTS
  Workspaces,
  AgentLimit,    \* agents of the org's plan; -1: unlimited
  Issues,        \* open issues of a repo
  MaxMade        \* bound: rows made by counting

ASSUME RosterAssumption ==
  AgentLimit \in Int /\ MaxMade \in Nat /\ Workspaces \cap 1..MaxMade = {}

Lessons == {"checks_failed", "timeout", "error", "default"}

VARIABLES
  agent,      \* agents: the assistants by workspace, others by number
  skill,      \* skill_documents
  reputation, \* agent_reputation of one agent
  outcomes,   \* outcomes of its runs that were recorded
  repo,       \* repos: the name, by number
  goalTitle,  \* goals: the title, by number
  tool,       \* tools: published, by number
  made,       \* the last number given to a row
  hadNone,    \* workspaces that asked for their assistant and got no row
  overlapped  \* calls of which two were under way at once

rosterVars == <<agent, skill, reputation, outcomes, repo, goalTitle, tool, made,
                hadNone, overlapped>>

AgentRow == [handle : {"iris", "ada"} \cup Workspaces, model : BOOLEAN,
             prompt : BOOLEAN, dirs : BOOLEAN, shared : BOOLEAN]
SkillRow == [version : Nat \ {0}, lessons : SUBSET Lessons, text : {"none", "ours"},
             parent : SUBSET Lessons, optimised : BOOLEAN]
ReputationRow == [success : Nat, fail : Nat]

RosterInit ==
  /\ agent = <<>> /\ skill = {} /\ reputation = <<>> /\ outcomes = [success |-> 0, fail |-> 0]
  /\ repo = <<>> /\ goalTitle = <<>> /\ tool = <<>> /\ made = 0 /\ hadNone = {} /\ overlapped = {}

Next1 == made + 1
Make == made < MaxMade /\ made' = Next1

\* The call begins, perhaps while another of its kind is under way.
Begin(q, call, rec) ==
  /\ Enter(q, call, Put(rec, "kind", call))
  /\ overlapped' = IF \E p \in Reqs \ {q} : Busy(p) /\ "kind" \in DOMAIN req[p] /\ req[p].kind = call
                   THEN overlapped \cup {call} ELSE overlapped

-----------------------------------------------------------------------------
(* Agents. *)

checkQuota(limit) == limit < 0 \/ Cardinality(DOMAIN agent) < limit
HandleFree(h) == \A a \in DOMAIN agent : agent[a].handle # h
NewAgent(h, configured) == [handle |-> h, model |-> configured, prompt |-> FALSE, dirs |-> FALSE,
                            shared |-> FALSE]

\* POST /agents: 402 at the limit.
CreateAgent(q) ==
  /\ IF checkQuota(AgentLimit) THEN Begin(q, "agent", [at |-> "insertAgent"])
     ELSE Called(q, "agent") /\ Return(q) /\ UNCHANGED overlapped
  /\ UNCHANGED <<agent, skill, reputation, outcomes, repo, goalTitle, tool, made, hadNone>>
\* A handle that is taken fails on the unique index.
InsertAgent(q) ==
  /\ At(q, "insertAgent") /\ Return(q)
  /\ \E h \in {"iris", "ada"}, configured \in BOOLEAN :
       IF HandleFree(h) THEN Make /\ agent' = Put(agent, Next1, NewAgent(h, configured))
       ELSE UNCHANGED <<agent, made>>
  /\ UNCHANGED <<skill, reputation, outcomes, repo, goalTitle, tool, hadNone, overlapped>>

\* POST /workspaces/:id/ensure-assistant: the row is there, or a handle is chosen.
EnsureDefaultAssistant(q) ==
  /\ \E w \in Workspaces :
       IF w \in DOMAIN agent THEN Called(q, "assistant") /\ Return(q) /\ UNCHANGED overlapped
       ELSE Begin(q, "assistant", [at |-> "chooseHandle", ws |-> w])
  /\ UNCHANGED <<agent, skill, reputation, outcomes, repo, goalTitle, tool, made, hadNone>>
ChooseHandle(q) ==
  /\ At(q, "chooseHandle")
  /\ GotoWith(q, "insertAssistant", [handle |-> IF HandleFree("iris") THEN "iris" ELSE req[q].ws])
  /\ UNCHANGED rosterVars
\* On conflict, of the id or of the handle, nothing is inserted; then it is read again.
InsertAssistant(q) ==
  /\ At(q, "insertAssistant") /\ Return(q)
  /\ LET w == req[q].ws  fits == w \notin DOMAIN agent /\ HandleFree(req[q].handle)
     IN  /\ agent' = IF fits THEN Put(agent, w, NewAgent(req[q].handle, FALSE)) ELSE agent
         /\ hadNone' = IF w \in DOMAIN agent' THEN hadNone ELSE hadNone \cup {w}
  /\ UNCHANGED <<skill, reputation, outcomes, repo, goalTitle, tool, made, overlapped>>

\* shared and the profile: one statement, of the fields named.
SetAgentShared(q) ==
  /\ Called(q, "share") /\ Return(q)
  /\ \E a \in DOMAIN agent, shared \in BOOLEAN : agent' = [agent EXCEPT ![a].shared = shared]
  /\ UNCHANGED <<skill, reputation, outcomes, repo, goalTitle, tool, made, hadNone, overlapped>>

\* PATCH /agents/:id/config: the whole config is read, merged and written back.
SetAgentConfig(q) ==
  /\ \E a \in DOMAIN agent, prompt \in BOOLEAN :
       Begin(q, "config", [at |-> "writeConfig", agent |-> a, base |-> agent[a], prompt |-> prompt])
  /\ UNCHANGED <<agent, skill, reputation, outcomes, repo, goalTitle, tool, made, hadNone>>

WriteConfig(q) ==
  /\ At(q, "writeConfig") /\ Return(q)
  /\ LET base == req[q].base
     IN  agent' = [agent EXCEPT ![req[q].agent] =
           [@ EXCEPT !.model = base.model,
                     !.prompt = base.prompt \/ req[q].prompt,
                     !.dirs = base.dirs \/ ~req[q].prompt]]
  /\ UNCHANGED <<skill, reputation, outcomes, repo, goalTitle, tool, made, hadNone, overlapped>>

-----------------------------------------------------------------------------
(* Skill documents. *)

Empty == [version |-> 0, lessons |-> {}, text |-> "none", parent |-> {}, optimised |-> FALSE]
\* The latest version; there may be two rows of it.
latestSkill == IF skill = {} THEN {Empty}
               ELSE {d \in skill : \A e \in skill : e.version <= d.version}

\* PUT /agents/:id/skill: the latest version is read, the next one inserted.
SaveSkill(q) ==
  /\ \E d \in latestSkill, lessons \in {{}, {"timeout"}} :
       Begin(q, "skill", [at |-> "insertSkill", doc |->
             [version |-> d.version + 1, lessons |-> lessons, text |-> "ours",
              parent |-> {}, optimised |-> FALSE]])
  /\ UNCHANGED <<agent, skill, reputation, outcomes, repo, goalTitle, tool, made, hadNone>>

\* heuristicProposer: the first lesson the failures call for that is not there yet,
\* else the default one; a blank line if that is there too.
Propose(doc, failures) ==
  LET due == failures \ doc.lessons
      first == IF "checks_failed" \in due THEN "checks_failed"
               ELSE IF "timeout" \in due THEN "timeout" ELSE "error"
  IN  IF due # {} THEN {first} ELSE {"default"}

\* heuristicEvaluator: a lesson is worth 0.12; the penalty for the longest one (222
\* characters of 0.0005) is less, so the lessons in it order the documents.
Evaluate(lessons) == Cardinality(lessons)

\* Strictly better, or the edit is dropped.
acceptEdit(before, after) == after > before

\* optimizeAgentSkill: the document and the runs are read, the step is computed.
Optimise(q) ==
  /\ \E doc \in latestSkill, failures \in SUBSET {"checks_failed", "timeout", "error"} :
       LET edited == doc.lessons \cup Propose(doc, failures)
       IN  IF acceptEdit(Evaluate(doc.lessons), Evaluate(edited))
           THEN Begin(q, "optimise", [at |-> "nextVersion", doc |->
                      [version |-> 0, lessons |-> edited, text |-> doc.text,
                       parent |-> doc.lessons, optimised |-> TRUE]])
           ELSE Called(q, "optimise") /\ Return(q) /\ UNCHANGED overlapped
  /\ UNCHANGED <<agent, skill, reputation, outcomes, repo, goalTitle, tool, made, hadNone>>
\* saveSkillVersion reads the latest version again, but not what is in it.
NextVersion(q) ==
  /\ At(q, "nextVersion")
  /\ \E d \in latestSkill :
       GotoWith(q, "insertSkill", [doc |-> [req[q].doc EXCEPT !.version = d.version + 1]])
  /\ UNCHANGED rosterVars
InsertSkill(q) ==
  /\ At(q, "insertSkill") /\ Return(q) /\ skill' = skill \cup {req[q].doc}
  /\ UNCHANGED <<agent, reputation, outcomes, repo, goalTitle, tool, made, hadNone, overlapped>>

-----------------------------------------------------------------------------
(* Track records. *)

currentCount(col) == IF reputation = <<>> THEN 0 ELSE reputation[1][col]

\* recordOutcome: the count is read, then a row inserted at 1 or set to count + 1.
RecordOutcome(q) ==
  /\ \E col \in {"success", "fail"} :
       Begin(q, "outcome", [at |-> "upsertCount", col |-> col, count |-> currentCount(col)])
  /\ UNCHANGED <<agent, skill, reputation, outcomes, repo, goalTitle, tool, made, hadNone>>
UpsertCount(q) ==
  /\ At(q, "upsertCount") /\ Return(q)
  /\ LET col == req[q].col
     IN  /\ reputation' = IF reputation = <<>>
                          THEN <<[[success |-> 0, fail |-> 0] EXCEPT ![col] = 1]>>
                          ELSE [reputation EXCEPT ![1][col] = req[q].count + 1]
         /\ outcomes' = [outcomes EXCEPT ![col] = @ + 1]
  /\ UNCHANGED <<agent, skill, repo, goalTitle, tool, made, hadNone, overlapped>>

-----------------------------------------------------------------------------
(* Repos and their issues. *)

\* connectRepo: the existing row, or a new one.
ConnectRepo(q) ==
  /\ IF \E r \in DOMAIN repo : repo[r] = "acme/site"
     THEN Called(q, "connect") /\ Return(q) /\ UNCHANGED overlapped
     ELSE Begin(q, "connect", [at |-> "insertRepo"])
  /\ UNCHANGED <<agent, skill, reputation, outcomes, repo, goalTitle, tool, made, hadNone>>
InsertRepo(q) ==
  /\ At(q, "insertRepo") /\ Return(q) /\ Make /\ repo' = Put(repo, Next1, "acme/site")
  /\ UNCHANGED <<agent, skill, reputation, outcomes, goalTitle, tool, hadNone, overlapped>>

\* The open issues, excluding pull requests, as GitHub lists them.
githubIssueFetcher == SUBSET Issues
Titles == {goalTitle[g] : g \in DOMAIN goalTitle}

\* ingestIssues: GitHub is asked, the titles there are are read, then one goal after
\* the other is inserted.
IngestIssues(q) ==
  /\ \E issues \in githubIssueFetcher :
       Begin(q, "ingest", [at |-> "readTitles", todo |-> issues])
  /\ UNCHANGED <<agent, skill, reputation, outcomes, repo, goalTitle, tool, made, hadNone>>
\* Mutant: a goal is made for every issue.
ReadTitles_Forgets(q) ==
  /\ At(q, "readTitles") /\ Goto(q, "insertGoal") /\ UNCHANGED rosterVars

ReadTitles(q) ==
  /\ At(q, "readTitles") /\ GotoWith(q, "insertGoal", [todo |-> req[q].todo \ Titles])
  /\ UNCHANGED rosterVars
InsertGoal(q) ==
  /\ At(q, "insertGoal")
  /\ \/ /\ req[q].todo = {} /\ Return(q) /\ UNCHANGED <<goalTitle, made>>
     \/ \E i \in req[q].todo :
          /\ GotoWith(q, "insertGoal", [todo |-> req[q].todo \ {i}])
          /\ Make /\ goalTitle' = Put(goalTitle, Next1, i)
  /\ UNCHANGED <<agent, skill, reputation, outcomes, repo, tool, hadNone, overlapped>>

-----------------------------------------------------------------------------
(* Internal tools: one statement each; a new tool is a draft. *)

CreateTool(q) ==
  /\ Called(q, "tool") /\ Return(q) /\ Make /\ tool' = Put(tool, Next1, FALSE)
  /\ UNCHANGED <<agent, skill, reputation, outcomes, repo, goalTitle, hadNone, overlapped>>
PublishTool(q) ==
  /\ Called(q, "publish") /\ Return(q)
  /\ \E t \in DOMAIN tool, published \in BOOLEAN : tool' = [tool EXCEPT ![t] = published]
  /\ UNCHANGED <<agent, skill, reputation, outcomes, repo, goalTitle, made, hadNone, overlapped>>
DeleteTool(q) ==
  /\ Called(q, "dropTool") /\ Return(q)
  /\ \E t \in DOMAIN tool : tool' = [s \in DOMAIN tool \ {t} |-> tool[s]]
  /\ UNCHANGED <<agent, skill, reputation, outcomes, repo, goalTitle, made, hadNone, overlapped>>

AgentRoutes(q) ==
  \/ CreateAgent(q) \/ InsertAgent(q) \/ SetAgentShared(q) \/ SetAgentConfig(q) \/ WriteConfig(q)
  \/ SaveSkill(q) \/ Optimise(q) \/ NextVersion(q) \/ InsertSkill(q)
AssistantRoute(q) == EnsureDefaultAssistant(q) \/ ChooseHandle(q) \/ InsertAssistant(q)
RepoRoutes(q) == ConnectRepo(q) \/ InsertRepo(q) \/ IngestIssues(q) \/ ReadTitles(q) \/ InsertGoal(q)
ToolsRoutes(q) == CreateTool(q) \/ PublishTool(q) \/ DeleteTool(q)

RosterHandler(q) ==
  \/ AgentRoutes(q) \/ AssistantRoute(q) \/ RepoRoutes(q) \/ ToolsRoutes(q)
  \/ RecordOutcome(q) \/ UpsertCount(q)

-----------------------------------------------------------------------------
(* Properties. *)

\* Rows have their types; handles are unique.
RosterTypeOK ==
  /\ \A a \in DOMAIN agent : agent[a] \in AgentRow
  /\ \A a, b \in DOMAIN agent : agent[a].handle = agent[b].handle => a = b
  /\ \A d \in skill : d \in SkillRow
  /\ reputation # <<>> => reputation[1] \in ReputationRow
  /\ \A t \in DOMAIN tool : tool[t] \in BOOLEAN

\* Read-then-insert errs only when two calls of a kind overlap: otherwise, also after
\* a call that died halfway was made again, no repo is connected twice, no issue is
\* two goals ("re-ingest is idempotent", repos/manage.ts:66), the plan's agent limit
\* holds and every outcome is counted.
ErrsOnlyByOverlap ==
  /\ "connect" \notin overlapped => Cardinality(DOMAIN repo) <= 1
  /\ "ingest" \notin overlapped =>
       \A g, h \in DOMAIN goalTitle : goalTitle[g] = goalTitle[h] => g = h
  /\ "agent" \notin overlapped /\ AgentLimit >= 0 =>
       Cardinality(DOMAIN agent \ Workspaces) <= AgentLimit
  /\ "outcome" \notin overlapped =>
       \A col \in {"success", "fail"} : currentCount(col) = outcomes[col]

\* The optimiser adds one lesson at a time to what it read and leaves the rest, so a
\* document grows by four lessons at most ("so the doc can't grow unboundedly",
\* skillopt/runner.ts:55-56), however its steps overlap with saves.
OptimiserIsBounded ==
  \A d \in skill : d.optimised =>
    /\ d.parent \subseteq d.lessons /\ Cardinality(d.lessons \ d.parent) = 1
    /\ \/ d.parent = {} /\ d.text = "none"
       \/ \E e \in skill : e.lessons = d.parent /\ e.text = d.text

\* The roster errs by overlap only, and its skill documents by one lesson at a time.
RosterSound == RosterTypeOK /\ ErrsOnlyByOverlap /\ OptimiserIsBounded

\* Who asks for a workspace's assistant gets it ("Re-read so concurrent/idempotent
\* callers all return the row that won the insert", default-assistant.ts:50).
AssistantIsThere == hadNone = {}

=============================================================================
