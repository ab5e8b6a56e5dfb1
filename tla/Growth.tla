------------------------------- MODULE Growth -------------------------------
(***************************************************************************)
(* What an org puts before the world (services/app/src/deploy and gtm, and *)
(* their routes): a repo's product deployed at a public URL, and the       *)
(* go-to-market motion that runs its playbooks with nobody's approval.     *)
(* One statement, or one call of the sandbox, the URL or the connector, at *)
(* a time.                                                                 *)
(***************************************************************************)
EXTENDS Requests, FiniteSets

CONSTANTS
  Urls,       \* public URLs a deploy command may print
  Playbooks,  \* GTM_PLAYBOOKS
  Paid        \* those whose channel costs money: outreach and sequence

ASSUME GrowthAssumption == Paid \subseteq Playbooks

VARIABLES
  command,    \* repos.deployCommand: is there one
  repoUrl,    \* repos.liveUrl, or "none"
  goalUrl,    \* goals.liveUrl, or "none"
  told,       \* URLs said to be live in the goal's thread
  answered,   \* URLs that answered a health check
  acted,      \* what the connector carried out: which playbook, by which request
  sent,       \* of that, what it sent
  costs,      \* ledger: costs of source "gtm"
  gtmActions, \* gtm_actions
  records     \* audit records "gtm.executed"

growthVars == <<command, repoUrl, goalUrl, told, answered, acted, sent, costs, gtmActions, records>>
deployVars == <<command, repoUrl, goalUrl, told, answered>>
gtmVars == <<acted, sent, costs, gtmActions, records>>

GrowthInit ==
  /\ command \in BOOLEAN /\ repoUrl = "none" /\ goalUrl = "none" /\ told = {} /\ answered = {}
  /\ acted = {} /\ sent = {} /\ costs = {} /\ gtmActions = {} /\ records = {}

-----------------------------------------------------------------------------
(* Deploy. *)

SetDeployCommand(q) ==
  /\ Called(q, "deployCommand") /\ Return(q) /\ command' \in BOOLEAN
  /\ UNCHANGED <<repoUrl, goalUrl, told, answered>> /\ UNCHANGED gtmVars

\* POST /repos/:id/deploy, by who may manage the team, with a goal or without.
Deploy(q) ==
  /\ \E goal \in BOOLEAN :
       IF command THEN Enter(q, "deploy", [at |-> "exec", goal |-> goal, live |-> "none"])
       ELSE Called(q, "deploy") /\ Return(q)
  /\ UNCHANGED growthVars

\* The command fails, prints no URL or throws; or it prints one.
ExecDeploy(q) ==
  /\ At(q, "exec")
  /\ Goto(q, "tell") \/ \E u \in Urls : GotoWith(q, "health", [url |-> u])
  /\ UNCHANGED growthVars

\* Mutant: the URL is taken whatever the health check says.
HealthCheck_Ignored(q) ==
  /\ At(q, "health") /\ Goto(q, "recordUrl")
  /\ answered' = answered \/ answered' = answered \cup {req[q].url}
  /\ UNCHANGED <<command, repoUrl, goalUrl, told>> /\ UNCHANGED gtmVars

\* A URL that does not answer is not recorded: the previous one stays.
HealthCheck(q) ==
  /\ At(q, "health")
  /\ \/ Goto(q, "recordUrl") /\ answered' = answered \cup {req[q].url}
     \/ Goto(q, "tell") /\ UNCHANGED answered
  /\ UNCHANGED <<command, repoUrl, goalUrl, told>> /\ UNCHANGED gtmVars
RecordRepoUrl(q) ==
  /\ At(q, "recordUrl") /\ repoUrl' = req[q].url
  /\ GotoWith(q, IF req[q].goal THEN "recordGoal" ELSE "tell", [live |-> req[q].url])
  /\ UNCHANGED <<command, goalUrl, told, answered>> /\ UNCHANGED gtmVars
RecordGoalUrl(q) ==
  /\ At(q, "recordGoal") /\ Goto(q, "tell") /\ goalUrl' = req[q].url
  /\ UNCHANGED <<command, repoUrl, told, answered>> /\ UNCHANGED gtmVars
\* The goal's thread hears of it.
TellDeploy(q) ==
  /\ At(q, "tell") /\ Return(q)
  /\ told' = IF req[q].goal /\ req[q].live # "none" THEN told \cup {req[q].live} ELSE told
  /\ UNCHANGED <<command, repoUrl, goalUrl, answered>> /\ UNCHANGED gtmVars

-----------------------------------------------------------------------------
(* The go-to-market motion: from its route, or the scheduler's. *)

RunGtmMotion(q) ==
  /\ \E fn \in {Playbooks} \cup {{p} : p \in Playbooks} :
       Enter(q, "gtm", [at |-> "playbook", todo |-> fn])
  /\ UNCHANGED growthVars

\* connectorFromEnv: Zapier sends it, when the operator has wired it; else nothing is sent.
deliver(act) == sent' = sent \/ sent' = sent \cup {act}
Connect(q) ==
  /\ At(q, "playbook")
  /\ \/ req[q].todo = {} /\ Return(q) /\ UNCHANGED <<acted, sent>>
     \/ \E p \in req[q].todo :
          /\ GotoWith(q, IF p \in Paid THEN "spend" ELSE "insertAction",
                      [todo |-> req[q].todo \ {p}, act |-> [by |-> q, playbook |-> p]])
          /\ acted' = acted \cup {[by |-> q, playbook |-> p]}
          /\ deliver([by |-> q, playbook |-> p])
  /\ UNCHANGED <<costs, gtmActions, records>> /\ UNCHANGED deployVars

BookSpend(q) ==
  /\ At(q, "spend") /\ Goto(q, "insertAction") /\ costs' = costs \cup {req[q].act}
  /\ UNCHANGED <<acted, sent, gtmActions, records>> /\ UNCHANGED deployVars
InsertGtmAction(q) ==
  /\ At(q, "insertAction") /\ Goto(q, "record") /\ gtmActions' = gtmActions \cup {req[q].act}
  /\ UNCHANGED <<acted, sent, costs, records>> /\ UNCHANGED deployVars
RecordGtm(q) ==
  /\ At(q, "record") /\ Goto(q, "playbook") /\ records' = records \cup {req[q].act}
  /\ UNCHANGED <<acted, sent, costs, gtmActions>> /\ UNCHANGED deployVars

DeployRoutes(q) ==
  \/ SetDeployCommand(q) \/ Deploy(q) \/ ExecDeploy(q) \/ HealthCheck(q)
  \/ RecordRepoUrl(q) \/ RecordGoalUrl(q) \/ TellDeploy(q)
GtmMotion(q) ==
  RunGtmMotion(q) \/ Connect(q) \/ BookSpend(q) \/ InsertGtmAction(q) \/ RecordGtm(q)

GrowthHandler(q) == DeployRoutes(q) \/ GtmMotion(q)

-----------------------------------------------------------------------------
(* Properties. *)

\* A URL the repo or the goal shows, or the thread was told of, answered a health
\* check, though deploys overlap and stop halfway ("A failed health check does NOT
\* overwrite the previous liveUrl (rollback-safe)", deploy.ts:11-12).
LiveUrlWasHealthy == ({repoUrl, goalUrl} \cup told) \ {"none"} \subseteq answered

\* The books are never behind the actions: a row of gtm_actions that cost money has its
\* cost in the ledger and an audit record has its row, wherever the motion stopped.
SpendIsBooked ==
  /\ \A a \in gtmActions : a.playbook \in Paid => a \in costs
  /\ records \subseteq gtmActions

\* What the world is shown was healthy, and what it cost is booked.
GrowthSound == LiveUrlWasHealthy /\ SpendIsBooked

\* What was sent is in gtm_actions, or is about to be ("every action is recorded in
\* gtm_actions and the hash-chained audit log", runner.ts:12-13).
SentIsRecorded ==
  \A a \in sent : a \in gtmActions \/ \E q \in Reqs : Busy(q) /\ "act" \in DOMAIN req[q] /\ req[q].act = a

=============================================================================
