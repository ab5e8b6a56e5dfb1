------------------------------- MODULE Watch --------------------------------
(***************************************************************************)
(* What an org notices by itself and what it is told from outside          *)
(* (services/app/src/autonomy/alerts, autonomy/automations, integrations,  *)
(* observability/logs and the ingest, webhook, integration and             *)
(* comment-sync routes): alerts and incidents, the automations a tick or   *)
(* an outcome fires, issues and pull requests taken in as tasks, review    *)
(* comments copied into a thread.  One statement at a time.                *)
(*                                                                         *)
(* Ids made of a key are that key, so on conflict nothing is inserted; an  *)
(* automation's random id is the request that made it, and messages are    *)
(* numbered.  Texts are what they are about.  Webhooks and reports may     *)
(* come any number of times: GitHub and Logpush retry.                     *)
(***************************************************************************)
EXTENDS Requests, FiniteSets, Integers

CONSTANTS
  Fates,          \* bound: what becomes of the org's run
  CiFixThreshold,
  Reports,        \* what a batch of logs can tell of
  Issues,         \* numbers of issues
  Comments,       \* review comments of the pull request
  Every,          \* everyMinutes of the schedules
  MaxPerTick,     \* MAX_PER_TICK
  MaxMinutes      \* bound: the clock

ASSUME WatchAssumption ==
  /\ CiFixThreshold \in Nat /\ MaxPerTick \in Nat /\ MaxMinutes \in Nat
  /\ Every \in Nat \ {0}

VARIABLES
  theRun,      \* runs: a run of the org
  automation,  \* automations, by the request that made them
  incident,    \* incidents: key -> the task it is linked to, or "none"
  task,        \* tasks: id -> the thread
  autoRun,     \* runs the automations inserted, pending: the task
  workflow,    \* of those, the ones Temporal was handed
  post,        \* messages: id, thread, and what it is about
  threads,     \* threads: how many
  minutes,     \* the clock
  fires,       \* schedules that fired: which, and at what time
  together     \* calls of which two were under way at once

watchVars == <<theRun, automation, incident, task, autoRun, workflow, post, threads,
               minutes, fires, together>>

Never == -Every
NewAutomation == [trigger : {"schedule", "event"}, action : {"message", "run", "slack"},
                  enabled : {TRUE}, last : {Never}]

WatchInit ==
  /\ theRun = [state |-> "ci_running", fixes |-> 0, aged |-> FALSE]
  /\ automation = <<>> /\ incident = <<>> /\ task = <<>> /\ autoRun = {} /\ workflow = {}
  /\ post = {} /\ threads = 1 /\ minutes = 0 /\ fires = {} /\ together = {}

\* The call begins, perhaps while another of its kind is under way.
Start(q, call, rec) ==
  /\ Enter(q, call, Put(rec, "kind", call))
  /\ together' = IF \E p \in Reqs \ {q} : Busy(p) /\ "kind" \in DOMAIN req[p] /\ req[p].kind = call
                 THEN together \cup {call} ELSE together

\* createMessage: with an id of its own or, on conflict, not at all.
Say(thread, about) == post' = post \cup {[id |-> <<"random", Cardinality(post) + 1>>, thread |-> thread, about |-> about]}
SayOnce(id, thread) ==
  post' = IF \E p \in post : p.id = id THEN post
          ELSE post \cup {[id |-> id, thread |-> thread, about |-> id]}
InsertTask(id, thread) == task' = Inserted(task, id, thread)

MinutePasses ==
  /\ minutes < MaxMinutes /\ minutes' = minutes + 1
  /\ UNCHANGED <<req, theRun, automation, incident, task, autoRun, workflow, post, threads,
                 fires, together>>
RunMoves ==
  /\ theRun.state = "ci_running" /\ theRun' \in Fates
  /\ UNCHANGED <<req, automation, incident, task, autoRun, workflow, post, threads,
                 minutes, fires, together>>

-----------------------------------------------------------------------------
(* Alerts: the end of a tick, and the scan on demand. *)

detectAlerts ==
  {<<"alert", rule>> : rule \in {r \in {"run-failed", "ci-stuck", "held-aging"} :
     \/ r = "run-failed" /\ theRun.state = "checks_failed"
     \/ r = "ci-stuck" /\ theRun.fixes >= CiFixThreshold
     \/ r = "held-aging" /\ theRun.state = "held_for_human" /\ theRun.aged}}

DetectAlerts(q) ==
  /\ \E call \in {"tick", "scan"} : Start(q, call, [at |-> "alerts", todo |-> detectAlerts])
  /\ UNCHANGED <<theRun, automation, incident, task, autoRun, workflow, post, threads,
                 minutes, fires>>

\* recordAlerts: only an alert whose row is new is posted.
RecordAlert(q) ==
  /\ At(q, "alerts")
  /\ \/ req[q].todo = {} /\ (IF req[q].kind = "tick" THEN Goto(q, "rows") ELSE Return(q))
        /\ UNCHANGED incident
     \/ \E key \in req[q].todo :
          /\ GotoWith(q, IF key \in DOMAIN incident THEN "alerts" ELSE "announce",
                      [todo |-> req[q].todo \ {key}, key |-> key])
          /\ incident' = Inserted(incident, key, "none")
  /\ UNCHANGED <<theRun, automation, task, autoRun, workflow, post, threads,
                 minutes, fires, together>>
PostAlert(q) ==
  /\ At(q, "announce") /\ Goto(q, "alerts") /\ Say(1, req[q].key)
  /\ UNCHANGED <<theRun, automation, incident, task, autoRun, workflow, threads,
                 minutes, fires, together>>

-----------------------------------------------------------------------------
(* Automations. *)

CreateAutomation(q) ==
  /\ Called(q, "addAutomation") /\ Return(q)
  /\ \E row \in NewAutomation : automation' = Put(automation, q, row)
  /\ UNCHANGED <<theRun, incident, task, autoRun, workflow, post, threads, minutes, fires, together>>
SetEnabled(q) ==
  /\ Called(q, "switch") /\ Return(q)
  /\ \E a \in DOMAIN automation, on \in BOOLEAN : automation' = [automation EXCEPT ![a].enabled = on]
  /\ UNCHANGED <<theRun, incident, task, autoRun, workflow, post, threads, minutes, fires, together>>
DeleteAutomation(q) ==
  /\ Called(q, "dropAutomation") /\ Return(q)
  /\ \E a \in DOMAIN automation :
       automation' = [b \in DOMAIN automation \ {a} |-> automation[b]]
  /\ UNCHANGED <<theRun, incident, task, autoRun, workflow, post, threads, minutes, fires, together>>

\* Mutant: minutes are taken for what is compared in milliseconds.
Due_NoUnit(a, now) == automation[a].last = Never \/ now > automation[a].last

Due(a, now) == automation[a].last = Never \/ now - automation[a].last >= Every
Enabled(trigger) == {a \in DOMAIN automation : automation[a].enabled /\ automation[a].trigger = trigger}

\* The end of a tick: the rows are read once, with their last_fired_at.
RunDueScheduleAutomations(q) ==
  /\ At(q, "rows")
  /\ GotoWith(q, "fire", [now |-> minutes, fired |-> 0,
       todo |-> {<<a, automation[a].action>> : a \in {b \in Enabled("schedule") : Due(b, minutes)}}])
  /\ UNCHANGED watchVars

\* A run's outcome: the sink asks for the event's automations.
FireEventAutomations(q) ==
  /\ Start(q, "outcomes", [at |-> "fire", now |-> minutes, fired |-> 0,
       todo |-> {<<a, automation[a].action>> : a \in Enabled("event")}])
  /\ UNCHANGED <<theRun, automation, incident, task, autoRun, workflow, post, threads,
                 minutes, fires>>

Finished(q) == req[q].todo = {} \/ req[q].fired >= MaxPerTick
Rest(q, a) == {x \in req[q].todo : x[1] # a}
AutoTask(q, a) == <<"auto", q, a>>

\* executeAction: a message in a thread; a post to Slack, which may fail and is then
\* no fire; a run, if there are a repo, a token and an agent: a task first.
ExecuteAction(q) ==
  /\ At(q, "fire")
  /\ \/ Finished(q) /\ Return(q) /\ UNCHANGED <<post, task>>
     \/ /\ ~Finished(q)
        /\ \E x \in req[q].todo :
             LET a == x[1]
                 go(place) == GotoWith(q, place, [todo |-> Rest(q, a), a |-> a])
             IN  \/ x[2] = "message" /\ go("ran") /\ Say(1, <<"automation", a>>) /\ UNCHANGED task
                 \/ x[2] = "slack" /\ (go("ran") \/ go("fire")) /\ UNCHANGED <<post, task>>
                 \/ x[2] = "run" /\ go("fire") /\ UNCHANGED <<post, task>>
                 \/ x[2] = "run" /\ go("insertRun") /\ InsertTask(AutoTask(q, a), 1) /\ UNCHANGED post
  /\ UNCHANGED <<theRun, automation, incident, autoRun, workflow, threads, minutes, fires, together>>
InsertAutoRun(q) ==
  /\ At(q, "insertRun") /\ Goto(q, "start")
  /\ autoRun' = autoRun \cup {AutoTask(q, req[q].a)}
  /\ UNCHANGED <<theRun, automation, incident, task, workflow, post, threads, minutes, fires, together>>
\* Temporal takes it, or start throws through the rest of the tick.
StartAutoRun(q) ==
  /\ At(q, "start")
  /\ \/ Goto(q, "ran") /\ workflow' = workflow \cup {AutoTask(q, req[q].a)}
     \/ Goto(q, "dead") /\ UNCHANGED workflow
  /\ UNCHANGED <<theRun, automation, incident, task, autoRun, post, threads, minutes, fires, together>>

\* It fired: a schedule is marked with the tick's time, if it is still there.
MarkFired(q) ==
  /\ At(q, "ran") /\ GotoWith(q, "fire", [fired |-> req[q].fired + 1])
  /\ IF req[q].kind = "tick"
     THEN /\ fires' = fires \cup {[automation |-> req[q].a, at |-> req[q].now, by |-> q]}
          /\ automation' = IF req[q].a \in DOMAIN automation
                           THEN [automation EXCEPT ![req[q].a].last = req[q].now] ELSE automation
     ELSE UNCHANGED <<fires, automation>>
  /\ UNCHANGED <<theRun, incident, task, autoRun, workflow, post, threads, minutes, together>>

-----------------------------------------------------------------------------
(* Reports from outside: Cloudflare's log batches, and anybody's. *)

parseLogpush == SUBSET Reports
detectIncidents(records) == {<<"cf", r>> : r \in records}
errorIncidents(records) == {<<"log-err", r>> : r \in records}

\* Of a Logpush batch; with a thread, or without.
Ingest(q) ==
  /\ \E records \in parseLogpush, thread \in 0..1 :
       Start(q, "report", [at |-> "nextReport", todo |-> detectIncidents(records), thread |-> thread])
  /\ UNCHANGED <<theRun, automation, incident, task, autoRun, workflow, post, threads, minutes, fires>>
\* Of any log: the lines are stored, then the errors among them noted.
IngestLogs(q) ==
  /\ \E records \in parseLogpush :
       Start(q, "logs", [at |-> "nextReport", todo |-> errorIncidents(records), thread |-> 0])
  /\ UNCHANGED <<theRun, automation, incident, task, autoRun, workflow, post, threads, minutes, fires>>

IncidentTask(key) == <<"incident", key>>
\* Mutant: the incident is recorded before its task is opened.
OpenIncidentTask_After(q) ==
  /\ At(q, "nextReport")
  /\ \/ req[q].todo = {} /\ Return(q) /\ UNCHANGED <<incident, task>>
     \/ \E key \in req[q].todo :
          LET known == req[q].thread = 0 \/ key \in DOMAIN incident
          IN  /\ GotoWith(q, IF known THEN "nextReport" ELSE "warn",
                          [todo |-> req[q].todo \ {key}, key |-> key])
              /\ incident' = Inserted(incident, key, IF req[q].thread = 0 THEN "none" ELSE IncidentTask(key))
              /\ UNCHANGED task
  /\ UNCHANGED <<theRun, automation, autoRun, workflow, post, threads, minutes, fires, together>>

\* The task comes first, so that the incident can be linked to it; only a new one is
\* told of in the thread.
OpenIncidentTask(q) ==
  /\ At(q, "nextReport")
  /\ \/ req[q].todo = {} /\ Return(q) /\ UNCHANGED task
     \/ \E key \in req[q].todo :
          LET known == req[q].thread = 0 \/ IncidentTask(key) \in DOMAIN task
          IN  /\ GotoWith(q, IF known THEN "insertIncident" ELSE "warn",
                          [todo |-> req[q].todo \ {key}, key |-> key])
              /\ IF req[q].thread = 0 THEN UNCHANGED task
                 ELSE InsertTask(IncidentTask(key), req[q].thread)
  /\ UNCHANGED <<theRun, automation, incident, autoRun, workflow, post, threads,
                 minutes, fires, together>>
PostIncident(q) ==
  /\ At(q, "warn") /\ Goto(q, "insertIncident") /\ Say(req[q].thread, req[q].key)
  /\ UNCHANGED <<theRun, automation, incident, task, autoRun, workflow, threads,
                 minutes, fires, together>>
InsertIncident(q) ==
  /\ At(q, "insertIncident") /\ Goto(q, "nextReport")
  /\ incident' = Inserted(incident, req[q].key,
                   IF req[q].thread = 0 THEN "none" ELSE IncidentTask(req[q].key))
  /\ UNCHANGED <<theRun, automation, task, autoRun, workflow, post, threads, minutes, fires, together>>

-----------------------------------------------------------------------------
(* Issues and pull requests become tasks. *)

\* POST /webhooks/github, issues.opened of a repo with a thread; GitHub redelivers.
Webhook(q) ==
  /\ Called(q, "webhook") /\ Return(q)
  /\ \E n \in Issues : InsertTask(<<"gh", n>>, 1)
  /\ UNCHANGED <<theRun, automation, incident, autoRun, workflow, post, threads,
                 minutes, fires, together>>

\* Listed at the source, then inserted one by one.
Import(q, source, listed) ==
  /\ Start(q, "import", [at |-> "insertIssue", source |-> source, todo |-> listed])
  /\ UNCHANGED <<theRun, automation, incident, task, autoRun, workflow, post, threads,
                 minutes, fires>>
ImportGitHubIssues(q) == \E listed \in SUBSET Issues : Import(q, "gh", listed)
ImportLinearIssues(q) == \E listed \in SUBSET Issues : Import(q, "linear", listed)
InsertIssue(q) ==
  /\ At(q, "insertIssue")
  /\ \/ req[q].todo = {} /\ Return(q) /\ UNCHANGED task
     \/ \E n \in req[q].todo :
          /\ GotoWith(q, "insertIssue", [todo |-> req[q].todo \ {n}])
          /\ InsertTask(<<req[q].source, n>>, 1)
  /\ UNCHANGED <<theRun, automation, incident, autoRun, workflow, post, threads,
                 minutes, fires, together>>

PrTask == <<"from-pr", "task">>
\* Mutant: a thread is opened whether or not the task is there.
StartFromPr_Always(q) ==
  /\ Start(q, "fromPr", [at |-> "prTask", thread |-> threads + 1]) /\ threads' = threads + 1
  /\ UNCHANGED <<theRun, automation, incident, task, autoRun, workflow, post, minutes, fires>>

\* startFromPr: the thread of the task that is there, or a new one and then the task.
StartFromPr(q) ==
  /\ IF PrTask \in DOMAIN task
     THEN Start(q, "fromPr", [at |-> "seed", thread |-> task[PrTask]]) /\ UNCHANGED threads
     ELSE Start(q, "fromPr", [at |-> "prTask", thread |-> threads + 1]) /\ threads' = threads + 1
  /\ UNCHANGED <<theRun, automation, incident, task, autoRun, workflow, post, minutes, fires>>
InsertPrTask(q) ==
  /\ At(q, "prTask") /\ Goto(q, "seed") /\ InsertTask(PrTask, req[q].thread)
  /\ UNCHANGED <<theRun, automation, incident, autoRun, workflow, post, threads,
                 minutes, fires, together>>
\* The files, then one message for each comment there is.
SeedFiles(q) ==
  /\ At(q, "seed") /\ SayOnce(<<"from-pr", "files">>, req[q].thread)
  /\ \E listed \in SUBSET Comments :
       GotoWith(q, "copy", [todo |-> {<<"from-pr", c>> : c \in listed}])
  /\ UNCHANGED <<theRun, automation, incident, task, autoRun, workflow, threads,
                 minutes, fires, together>>

\* POST /runs/:id/sync-comments: only the comments without a message.
SyncComments(q) ==
  /\ \E listed \in SUBSET Comments :
       Start(q, "sync", [at |-> "copy", thread |-> 1,
         todo |-> {id \in {<<"rc", c>> : c \in listed} : \A p \in post : p.id # id}])
  /\ UNCHANGED <<theRun, automation, incident, task, autoRun, workflow, post, threads,
                 minutes, fires>>
CopyComment(q) ==
  /\ At(q, "copy")
  /\ \/ req[q].todo = {} /\ Return(q) /\ UNCHANGED post
     \/ \E id \in req[q].todo :
          GotoWith(q, "copy", [todo |-> req[q].todo \ {id}]) /\ SayOnce(id, req[q].thread)
  /\ UNCHANGED <<theRun, automation, incident, task, autoRun, workflow, threads,
                 minutes, fires, together>>

AutomationRoutes(q) == CreateAutomation(q) \/ SetEnabled(q) \/ DeleteAutomation(q)
AlertSteps(q) == DetectAlerts(q) \/ RecordAlert(q) \/ PostAlert(q)
AutomationSteps(q) ==
  \/ RunDueScheduleAutomations(q) \/ FireEventAutomations(q) \/ ExecuteAction(q)
  \/ InsertAutoRun(q) \/ StartAutoRun(q) \/ MarkFired(q)
IngestRoutes(q) == Ingest(q) \/ IngestLogs(q) \/ OpenIncidentTask(q) \/ PostIncident(q) \/ InsertIncident(q)
IntegrationRoutes(q) ==
  \/ ImportGitHubIssues(q) \/ ImportLinearIssues(q) \/ InsertIssue(q)
  \/ StartFromPr(q) \/ InsertPrTask(q) \/ SeedFiles(q)
CommentSyncRoutes(q) == SyncComments(q) \/ CopyComment(q)

WatchHandler(q) ==
  \/ AutomationRoutes(q) \/ AlertSteps(q) \/ AutomationSteps(q) \/ IngestRoutes(q)
  \/ Webhook(q) \/ IntegrationRoutes(q) \/ CommentSyncRoutes(q)

-----------------------------------------------------------------------------
(* Properties. *)

\* An incident that names a task names one there is, though reports come twice, at
\* once, or stop halfway ("Open the Task first ... so we can link it",
\* ingest-routes.ts:74).
IncidentTaskExists ==
  \A key \in DOMAIN incident : incident[key] # "none" => incident[key] \in DOMAIN task

\* Nothing is told twice: an alert that a tick and a scan see at once, an incident that
\* is reported again.
AnnouncedOnce ==
  \A p, r \in post : p.about = r.about /\ p.about[1] # "automation" => p = r

\* Incidents are told of once and lead to a task there is.
IncidentsSound == IncidentTaskExists /\ AnnouncedOnce

\* A schedule that fired is not due again before its time ("lastFiredAt is set to now
\* so an immediate re-run is not due", automations.ts:160), unless two ticks overlapped
\* or one ended between the action and the mark.
FiresOncePerPeriod ==
  ("tick" \notin together /\ \A q \in Reqs : req[q].at # "dead") =>
    \A f, g \in fires : f.automation = g.automation /\ f # g /\ f.at <= g.at => g.at - f.at >= Every

\* What is known of a pull request is in the thread of its task ("a re-import lands in
\* the same place", from-pr.ts:32-33), also when an import stopped halfway, unless two
\* imports of it overlapped.
SeedLandsWithTask ==
  "fromPr" \notin together =>
    \A p \in post : p.id[1] = "from-pr" => p.thread = task[PrTask]

\* A run of an automation is started or is about to be ("guarded ... so it can never
\* half-start", automations.ts:7-8).
NothingHalfStarts ==
  \A t \in autoRun : t \in workflow \/ \E q \in Reqs : At(q, "start") /\ AutoTask(q, req[q].a) = t

=============================================================================
