# Verification of agent-chat-platform

TLA+ models of the parts of this repository whose correctness depends on
interleavings, retries and crashes, TLC configurations that check them on small
instances, and TLAPS proofs of the facts that matter most for every size.

Paths below are relative to the repository, `app/` stands for
`src/services/app/src/`, `orch/` for `src/services/orchestrator/src/` and
`sandbox/` for `src/services/sandbox-runner/internal/sandbox/`.

## 1. Inventory

The platform is a team chat in which mentioning an agent starts a *run*: a
sandbox clones the repository, lets a coding agent edit it, pushes a branch; the
platform opens a pull request, watches CI, repairs red builds, and merges or
holds the change for a person. Around it there is an autonomous loop that turns
goals into tasks and dispatches runs by itself, a business funnel with
human-gated money and sends, and the usual CRUD.

| Component | State | Operations | Hard behaviour |
|---|---|---|---|
| Fusion pipeline `orch/core/run-fusion.ts`, `app/fusion/*` | `runs`, `run_events`, `run_checkpoints`, messages, credit ledger, reputation; branch and PR on GitHub | workflow, activity, `runFusion`, event sink, merge gate, CI repair | 3 attempts that overlap after a timeout; a sink of five unlocked statements; plan mode runs twice |
| Run lifecycle `app/tasks/runs.ts`, `transitionRun` | `runs.state`, `tasks.state` | check, write, write task | check-then-write without a lock |
| Merge policy `orch/policy/policy.ts`, `app/fusion/gate.ts` | none (pure) | `decideMerge`, gate | order of the rules |
| Approvals `app/approvals`, `plan-routes.ts`, `approval-routes.ts` | the rows above | approve / reject plan, approve / decline hold | several people, and the attempt still running |
| Tasks `app/tasks/tasks.ts` and its routes | `tasks`, `runs.selected`, workflows | open, reassign, fan out, select, restore, edit, relate, bulk | several runs write one task; a request that dies between row and start |
| Mention dispatch `app/chat/handle-mentions.ts` | messages | parse, open task, start | agents that mention each other, teams, repetitions |
| Role graph `app/orchestration` | in the call | topological order, run roles, poll | a polling bound shorter than a run |
| Threads' repositories `app/nav/thread-repos.ts` | `thread_repos`, `threads.repo_id` | attach, detach, make primary, fork | demote and insert in two statements |
| Sandbox runner `src/services/sandbox-runner` | work directories, slots, remote branches | run, plan, feedback, exec | deadline in the middle, pushes that race, slots at their limit |
| Autonomy loop `app/autonomy/*` | `goals`, `tasks`, in-memory loop guard | cycle, tick, progressGoal, decompose, budget gate | clock against manual trigger, restart loses the guard, failed start |
| Alerts, automations `app/autonomy/{alerts,automations}.ts` | `automations.lastFiredAt`, incidents, posts | detect, record, fire by schedule and by outcome | tick against scan; fired before it is marked |
| Integrations `app/integrations`, webhooks, log ingestion | tasks, threads, incidents | webhook, import, from PR, comment sync, Logpush, logs | redelivery, imports that stop halfway |
| Deploy and growth `app/deploy`, `app/gtm` | live URLs, `gtm_actions`, ledger | deploy, health check, playbooks | deploys that end in another order; sent before recorded |
| Quotes and payments `app/business/{catalog,businesses,stripe-checkout,delivery,actions}.ts` | quotes, intents, deliveries, ledger, leads | draft, decide, checkout (internal, Stripe), webhook, deliver | two ways to sell one quote, redelivered webhooks, draft against approval |
| Businesses `app/business/{factory,accounting,support,businesses}.ts` | units, offerings, campaigns, tickets | spawn, book, rebalance, campaign, ticket | books read before, decisions after |
| Audit log `app/audit` | hash chain | append, verify | two writers, one predecessor |
| Doors `app/auth`, `app/rbac`, `app/teams` | members, links, invites, sessions, keys, tickets, TOTP secrets | login, enrol, invite, accept, redeem | MFA switched under a login; rows written halfway |
| Rooms `app/nav`, `app/dm`, `app/files`, notes | channels, threads, files, markers | create, archive, upload, attach, read, recap | overlapping uploads, late markers |
| Roster `app/agents`, `app/skillopt`, `app/repos`, `app/tools`, reputation | agents, skills, track records, repos, issues | create up to a limit, configure, optimise, ingest | read first, insert later |
| Memory `app/memory` | nodes, edges, dreams | remember, replace, contradict, derive, dream | an optimistic lock that is not in the update |
| Realtime and the open thread `app/realtime`, `src/services/web` | table, sockets, screen | post, push, poll, refetch, switch | pushes lost, cut or late; answers for another thread |
| GitHub client, schema, payments and treasury, search, policy proxies, other clients | – | – | see `PROJECT.json` |

`PROJECT.json` lists every component with its status and, under `hazards`, the
places where this code can go wrong in ways a unit test hardly reaches.

What makes each part correct, in a line: a run lands only reviewed-or-licensed
green code, once, from one attempt; its events are complete and in order; its
rows say how it ended; plan mode pushes nothing before approval; a task has one
selected winner and is merged only when a run of it is; mentions and teams of
roles start each agent once and end; an agent never reads the repository's own
instructions and what is reported is on the branch; the autonomous loop stops,
does not dispatch a task twice and claims "done" only for verified work; money
moves only after one approval; the audit chain is unbroken; nobody gets in
without the code they were asked for; what is posted is unread, and shown once;
what a schedule, an import or an incident did is not done again; what is shown
to the world was healthy.

## 2. Modules

| Module | What it is |
|---|---|
| `RunStateTable` | run states, legal moves and terminal states of `runs.ts`, as operators |
| `RunLifecycle` | abstract: a row that only makes legal moves |
| `LandingContract` | abstract: what the pipeline promises the repository: push, open, report, land once, green and licensed |
| `MergePolicy` | `decideMerge` and the merge gate |
| `FusionRun` | one run end to end: Temporal attempts, `runFusion`, the sink, `transitionRun`, the tail of the activity, people's requests |
| `FusionRunInvariant`, `FusionRunProofs` | the inductive invariant in named parts, its proof, and the theorems |
| `GoalContract` | abstract: a goal is decomposed, its tasks are verified one by one, and it closes only when all are |
| `GoalLoop` | the autonomous loop of one goal: decomposition, budget gate, loop guard, judgement, dispatch; the clock and people as processes |
| `GoalLoopInvariant`, `GoalLoopProofs` | what the processes of the loop hold at every place, in named parts; the proofs and theorems |
| `AuditChain` | the hash chain of `audit-log.ts` under concurrent writers, the abstract specification of the money path's log |
| `MoneyPath`, `MoneyPathProofs` | from a quote to money and a delivery: internal checkout and human approval, Stripe checkout and webhook, drafts of the goal loop; composes `AuditChain`; the inductive invariants of both, proofs and theorems |
| `Requests` | request handlers of the server: suspended at an await, with what they have read in hand; used by all modules below |
| `ThreadRepos` | the repositories of a thread |
| `TaskBoard` | the tasks of a thread, the runs competing for them, and the requests that open both; extends `ThreadRepos` |
| `RoleGraph` | a goal's team of roles on the board; extends `TaskBoard` |
| `TaskBoardInvariant`, `TaskBoardProofs` | the inductive invariant of the board and its teams in named parts; its proof and the theorems |
| `Sandbox`, `SandboxProofs` | the four routes of the sandbox runner over clones and remote branches; its inductive invariant, proof and theorems |
| `Channel`, `ChannelProofs` | messages table, push, poll and the web client's open thread; its inductive invariant, proof and theorem |
| `Access` | passwords, codes, links, Google, invites, sessions, keys, tickets, seats |
| `Rooms` | channels, threads, DMs, notes, files, read markers, recaps |
| `Roster` | agents, assistants, skill documents and their optimiser, reputation, repositories, issues, tools |
| `Memory` | the graph of memories: versions, relations, dreams |
| `Ventures` | units, their offerings and goals, books, campaigns, tickets |
| `Server`, `ServerProofs` | composes the five before into one process with expiry and restarts; an inductive invariant for each of the five, proofs and theorems |
| `Watch` | alerts, incidents, automations, webhooks, imports, comment sync |
| `Growth` | deployments and growth playbooks |
| `Works`, `WorksProofs` | composes the two into one server with a clock, a run that moves, and deaths; an inductive invariant for each of its properties, proofs and theorems |
| `MC...` | small instances for TLC |

A definition with an underscore in its name (`PickTask_Blindly`) is a plausible
wrong version of the one before the underscore; no specification uses it. It
documents which mistake a property would notice.

### FusionRun and the code

Every attempt of the activity is a process `a` with a program counter `pc[a]`;
every HTTP request of a person is a process `q`. One action is one statement
that touches Postgres, GitHub or the sandbox, so everything the code does
between two awaits is atomic and nothing else is.

| Actions | Code |
|---|---|
| `Dispatch`, `TimeOut`, `Abort` | Temporal: `app/fusion/workflows.ts` options (3 attempts, 15 minute timeout). A timed-out attempt goes on running and its later result is ignored |
| `ProposePlan`, `ParkPlan`, `CallSandbox`, `FindPr`, `OpenPr`, `Poll`, `ChecksPending`, `Gate`, `Merge`, `ChecksFailed`, `CiFix` | `runFusion`, in order |
| `SandboxPush`, `SandboxFails` | `sandbox/run.go`: the request ends even when its caller is gone; the push is not forced (`git.go:97`) and is refused when the branch exists |
| `SinkCheck`, `SinkInsert`, `SinkCard`, `SinkCheckpoint` | `app/fusion/events.ts`: look up the key and count rows, insert `ON CONFLICT DO NOTHING`, message, checkpoint |
| `TransitionCheck`, `TransitionWrite`, `TransitionTask` | `transitionRun`: read and check, write the run, write the task |
| `Meter`, `CountReputation`, `EscalateTask`, `Complete` | the tail of `runChatFusionActivity` |
| `LoadPlan`, `StartExecution`, `LoadHeld`, `LandHeld`, `AbortRequest` | plan and approval routes |

Abstractions. Commits are numbered by their position on the branch, so
`remote` is both the number of commits and the head. The lookup and the count of
the sink are one action: an insert of the same key between them conflicts on the
primary key anyway, and any other insert only makes the count fresher than in
the code's worst case. A repair whose caller dies is pushed before the caller's
end is seen, not after: only its own (dead) attempt reads that head. What is best
effort in the code and read by nothing modelled (usage report, audit record,
decision capture, event automations, `NOTIFY`) is left out, as are messages
other than cards; declining a hold posts a message only. Metering is taken to be
enabled. CI, the risk classifier, the QA run and the diff scan may answer
anything. The initial state is the one after `openTaskForMention` and a
successful `startFusionRun`. Re-planning after a rejection opens a new task and
run and is outside the model of one run.

### GoalLoop and the code

Every caller of the loop's code is a process: the clock, `POST /decompose`
(`Planners`), `POST /goals/:id/run` (`Advances`) and `POST /tick` (`Ticks`).
They execute the same actions on the same rows, and what a process keeps between
two statements is in its `proc` record, which may be stale.

| Actions | Code |
|---|---|
| `Plan`, `Fill`, `ActivateGoal` | `decomposeGoal` (`goals.ts:42-71`): check, one insert per criterion, `active` |
| `CycleStart`, `CycleBudget`, `ListGoals` | `runAutonomyCycle` (`scheduler.ts:46-61`), `enforceBudget` (`budget.ts:28-42`) |
| `CycleGuard`, `PauseGoal` | fingerprint and `LoopGuard.check` (`scheduler.ts:62-75`, `loop-guard.ts:19-36`) |
| `ReadGoal`, `ReadRows`, `Promote`, `PromoteLive`, `CloseGoal`, `InsertRetry`, `BumpIterations` | `progressGoal` (`progress.ts:41-111`): one action per statement, decisions on the rows as read and patched in memory |
| `ReadOpen`, `AllowGoals`, `PickTask`, `InsertRun`, `FlipTask`, `StartRun`, `TickEnds` | `tick` (`tick.ts:26-90`), with the primary key `run-<task>-<position>` |
| `RunEnds`, `LandHeld`, `RunWritesTask` | `transitionRun` and `approveRun` seen from outside: the run row, then the task row |
| `SetAutonomy`, `EditTask`, `Deploy`, `CapReached` | people's routes, a deploy that sets the live URL, metered cost reaching the cap |
| `Fails`, `Crash` | a statement that throws ends its process with what it wrote in place; a restart also empties the loop guard |

Abstractions. One goal; its tasks can all be dispatched (assigned, with a
repository and a token). A criterion is a model value, with two facts about its
wording: whether it matches `REAL_WORLD_RE` and `LIVE_URL_RE`. The generator is
the default `retryUnmet`. "active" stands for every run state before the
outcome, "shelved" for the task states nobody in this code acts on. The locals of
a block are dropped where it ends. Alerts and audit records are written for
people and left out; a business goal's drafts are modelled in `MoneyPath`.
`quiet`, `vouched` and `overspent` are history: they are read by properties only.

### MoneyPath, AuditChain and the code

Every HTTP request, webhook call and executor is a process `r` that is idle or
handles one operation; again one action is one statement. Nothing in this code
runs in a transaction.

| Actions | Code |
|---|---|
| `ArriveCheckout`, `ArriveDecide`, `ArriveFulfil`; `ArriveStripe`, `ArriveWebhook`; `ArriveGoal` | `business-routes.ts`, `stripe-routes.ts`, the scheduler's call of `runBusinessGoal` |
| `ReadForCheckout`, `DraftIntent`, `ChargeQuote` | `checkoutQuote` (`catalog.ts:78-96`), `createPaymentIntent` |
| `ReadTask`, `DraftIntent`, `MarkTask` | `runBusinessGoal` (`actions.ts:115-132`) for a charge |
| `ReadForStripe`, `CreateSession`, `StoreSession` | `startQuoteStripeCheckout` (`stripe-checkout.ts:19-38`) |
| `ReadPaid`, `PayQuote`, `BookRevenue`, `AddLead`, `FindDelivery`, `InsertDelivery`, `ReadDelivered`, `HandOver` | `fulfillPaidQuote` (`stripe-checkout.ts:44-57`) and what it calls (`delivery.ts`) |
| `ReadPending`, `DecideIntent`, `BookRevenue`, `AddLead`, `VerifyDraftTask`, `FindDelivery`, `InsertDelivery` | `decidePaymentIntent` (`businesses.ts:75-94`) |
| `ReadTail`, `InsertLink`, `RecordFails` | `append` and `record` (`audit-log.ts:40-56`) |
| `CustomerPays` | the customer pays an open session at Stripe |
| `Abort` | a statement throws or the server stops: the request ends where it is |

Abstractions. One quote, one goal task. A quote's price never changes and both
checkouts charge the quote's own price, so the guardrail on amounts always
passes; amounts are left out and `revenue` counts the lines booked. The quote
has a customer, so the `if (customer)` branches are taken. Bookings are indexed
by what they were made for (`Refs`): an intent, a Stripe session, or the quote
itself when no session is stored (`stripeSessionId ?? id`). In `AuditChain` a
hash is the triple it is computed from, which makes it collision free; editing or
deleting rows of the log outside the program is not modelled. The unique index on
`(org_id, seq)` is what makes `ON CONFLICT DO NOTHING` drop the second row.

### Requests, and the modules built on it

`req[q]` is what handler `q` has in hand: the await it is suspended at and the
values it read. One action is one statement, call of a service, or file
operation; the handler's guards are evaluated on what it read, its writes hit
the rows as they are now. A plan says which call each request makes; a composed
module adds what happens around the handlers (a clock, expiry, runs that move, a
failing statement, a restart). Where the code holds a transaction
(`selectRun`), locks are modelled (`Locked`), and PostgreSQL's READ COMMITTED
lets rows of others show up between the statements.

| Module | Actions | Code |
|---|---|---|
| `ThreadRepos` | `AddThreadRepo`, `DemoteOthers`, `AttachRepo`, `MirrorPrimary`; `RemoveThreadRepo`; `ForkThread`, `CopyRepos`; `CreateThread` | `nav/thread-repos.ts`, `nav/nav.ts` |
| `TaskBoard` | `PostMessage`, `PostAgentMessage`, `ResolveMention`, `StartForAgent`, `OpenTask`, `OpenRun`, `ReadRepo`, `StartFusionRun` | `handleMentions` and the shared tail of every route that starts a run |
| | `Reassign`, `AssignTask`, `FanOut`, `FanOutNext`, `Restore`, `SelectRun`, `ClearSiblings`, `SetWinner`, `TaskDetailRoutes` | `tasks.ts` and the routes around it |
| | `MoveRun`, `TaskOfRun`; `Crash`, `LoseTaskWrite` are deaths | `transitionRun` seen from outside, as `FusionRun` has it in detail |
| `RoleGraph` | `RunTeam`, `NextRole`, `AwaitRunTerminal` | `POST /goals/:id/run-team`, `dag.ts`, `role-graph.ts`; `topoOrder` is a recursive function; `TopoOrderCorrect`, which compares it with its definition on the graphs of an instance, is an assumption that TLC evaluates |
| `Sandbox` | handlers, `CloneInto`, `checkRepoSize`, `runSetupScript`, `quarantineRepoConfig`, `ProvisionConfig`, `AgentEdits`, `RestoreConfig`, `Commit`, `Push`, `Report`; `ContextOver` | `internal/sandbox/*.go`, `adapter/*.go`; every subprocess may fail, and does once the context is over |
| `Channel` | `OthersPost`, `Frame`, `Poll`, `Type`, `submit`, `refetch`, `selectThread`, `SocketOpens`, `SocketDrops`, `Serve`, `Answer`, `Fail` | `chat/messages.ts`, `realtime`, `db/client.ts`, `useThreadStream.ts`, `Composer.tsx` |
| `Access` | `Login`, `MfaGate`, `CheckCode`, `EnterSession`; `EnrollMfa`, `ConfirmMfa`, `EnableMfa`, `DisableMfa`; `RequestMagicLink`, `VerifyMagicLink`, `UseMagicLink`; `HandleGoogleCallback`, `JoinBySso`; `CreateInvite`, `AcceptInvite`, `JoinByInvite`, `CloseInvite`; keys, sessions, teams, `IssueWsTicket`, `OpenSocket` | `auth/*.ts`, `rbac`, `teams` and their routes |
| `Rooms` | `CreateChannel`, `InsertThread`, `GetDm`, `InsertDm`, notes, `CreateFile`, `PutContent`, `WriteFile`, `MarkUploaded`, `ValidateFileIds`, `InsertMessage`, `MarkRead`, `UpsertReadState`, `SummarizeThread` | `nav`, `dm`, `files`, `chat/summarize.ts` and their routes |
| `Roster` | `CreateAgent`, `InsertAgent`; `EnsureDefaultAssistant`, `ChooseHandle`, `InsertAssistant`; `SetAgentConfig`, `WriteConfig`; `SaveSkill`, `Optimise`, `NextVersion`, `InsertSkill`; `RecordOutcome`, `UpsertCount`; `ConnectRepo`, `InsertRepo`; `IngestIssues`, `ReadTitles`, `InsertGoal`; tools | `agents`, `skillopt`, `delegation/reputation-store.ts`, `repos`, `tools`, `billing/plans.ts` |
| `Memory` | `CreateNode`, `CreateEdge`; `Supersede`, `Retire`, `Replace`; `AddContradiction`; `DeriveRelatedEdges`, `Relate`; `Consolidate`, `NextCluster`, `InsertDream`, `LinkMember`; `SetStatus` | `memory/*.ts`, `memory-routes.ts` |
| `Ventures` | `SpawnBusiness`, `CreateOffering`, `CreateUnitGoal`, `HandToAutonomy`, `RecordSpawn`; `AddLedgerEntry`; `RebalancePortfolio`, `IncomeStatement`, `ApplyDecision`, `RetireOfferings`, `RecordDecision`; `CreateCampaign`, `DecideCampaign`, `DeliverCampaign`, `AddVisitors`, `MarkSent`, `RecordSent`; `OpenSupport`, `ResolveTicket`, `SetResolved` | `business/{factory,accounting,businesses,support}.ts`, `business-routes.ts` |
| `Watch` | `DetectAlerts`, `RecordAlert`, `PostAlert`; `RunDueScheduleAutomations`, `FireEventAutomations`, `ExecuteAction`, `InsertAutoRun`, `StartAutoRun`, `MarkFired`; `Ingest`, `IngestLogs`, `OpenIncidentTask`, `PostIncident`, `InsertIncident`; `Webhook`, `Import`, `InsertIssue`; `StartFromPr`, `InsertPrTask`, `SeedFiles`; `SyncComments`, `CopyComment` | `autonomy/{alerts,automations}.ts`, `integrations`, ingest and webhook routes |
| `Growth` | `Deploy`, `ExecDeploy`, `HealthCheck`, `RecordRepoUrl`, `RecordGoalUrl`, `TellDeploy`; `RunGtmMotion`, `Connect`, `BookSpend`, `InsertGtmAction`, `RecordGtm` | `deploy/deploy.ts`, `gtm/runner.ts` and their routes |

Abstractions. One org: rows of others are invisible to every query. What people
write is a model value or the set of things it is about: a body is the agents it
names, a recap the messages it tells of, a memory the terms in it, a file its
size, a skill document the lessons in it. Tokens and secrets are fresh numbers:
hashing and guessing are not modelled. A clone in `Sandbox` has, for each path
that matters, whose content is there. Ids made of a key are that key, so that
`ON CONFLICT DO NOTHING` is what the code's is. Roles are checked where a
route asks for one; the matrix itself is an input.

## 3. Runs

| Run | Shows |
|---|---|
| `fusion_retry` | three attempts of a direct run with crashes, timeouts and lost answers anywhere, one repair, one approving person, the dials at both ends: single pusher, green and licensed landing, a whole event log (`EventLogSound`), single accounting, outcome recorded |
| `fusion_plan` | plan mode, two people, three attempts over several executions: nothing is pushed before approval, and the inductive invariant of the proofs holds in both plan modes, with what it implies |
| `fusion_liveness` | refinement of `RunLifecycle` and `LandingContract`; executions end and an undisturbed run settles (`ExecutionSettles`) |
| `goal_clock` | the clock with a real-world criterion, failing statements, restarts, deploys, reopened tasks, the cap reached at any moment: one active run per task, bounded generation and overspending (`AutonomyBounded`), nothing verified by its merge alone, a stalled goal is not judged again |
| `goal_contract` | the undisturbed loop implements `GoalContract`; a self-driving goal is closed or suspended in the end |
| `money_path` | two requests at once of every kind, one dying anywhere: gates, effects of approvals and payments, audit chain |
| `money_twice` | a disagreement between the code and its comment (section 6) |
| `board` | three overlapping requests on a thread, runs that move, one death: one winner, mentions that start each agent once and end (`MentionsBounded`), a run without a workflow has a reason, merged is true, a team of roles works in order on outcomes that stand (`TeamSound`) |
| `sandbox` | three jobs on two slots, any subprocess failing, any deadline: the repository's instructions are out of sight and back in the commit (`RepoConfigQuarantined`), what is reported is on the branch |
| `server` | three overlapping requests of one server and an expiry or a restart: `DoorsHold`, `RoomsSound`, `RosterSound`, `MemorySound`, `VenturesSound`, and a message is unread when it is posted |
| `channel` | two threads, calls and pushes that overtake each other or fail: nothing doubled or lost on screen (`ScreenSound`), and the poll shows what a push missed |
| `works` | ticks, scans, outcomes, reports, webhooks, imports, deploys and motions at once, one death or restart: `IncidentsSound`, `FiresOncePerPeriod`, `SeedLandsWithTask`, `GrowthSound` |

A property named `...Sound`, `...Bounded`, `...Hold`, `...Settles` or
`...Quarantined` is a conjunction of named parts, defined in the module right
before it. They are one line of the table each:

| Property | Parts |
|---|---|
| `EventLogSound` | `NoEventSwallowed`, `EventLogDense`, `HeldRunHasCard`, `CheckpointsArePushed` |
| `ExecutionSettles` | `ExecutionEnds`, `DirectRunSettles` |
| `AutonomyBounded` | `TypeOK` of `GoalLoop`, `GenerationBounded`, `OverspendBounded` |
| `MentionsBounded` | `TypeOK` of `TaskBoard`, `StartedOnce`, `ChainBounded` |
| `TeamSound` | `RolesInOrder`, `OutcomesStand` |
| `RepoConfigQuarantined` | `SandboxTypeOK`, `AgentSeesNoRepoConfig`, `ConfigComesBack` |
| `ScreenSound` | `ChannelTypeOK`, `NeverDoubleRenders`, `SubmittedIsKept` |
| `DoorsHold` | `AccessTypeOK`, `CodeWasChecked`, `TicketOpensOnce`, `AcceptedHasMember` |
| `RoomsSound` | `RoomsTypeOK`, `UploadedWasWhole` |
| `RosterSound` | `RosterTypeOK`, `ErrsOnlyByOverlap`, `OptimiserIsBounded` |
| `MemorySound` | `MemoryTypeOK`, `GraphIsSound`, `DreamIsLinked` |
| `VenturesSound` | `DrivenWasOffered`, `RunwayKept`, `SentWentOut`, `TicketsSound` |
| `IncidentsSound` | `IncidentTaskExists`, `AnnouncedOnce` |
| `GrowthSound` | `LiveUrlWasHealthy`, `SpendIsBooked` |

Some of these say what holds *apart from* a named cause, because the code gives
no more: `ErrsOnlyByOverlap` excuses two calls of one kind that overlap,
`FiresOncePerPeriod` ticks that overlap or die between action and mark,
`SeedLandsWithTask` overlapping imports of one pull request. The excuse is
recorded in a history variable (`overlapped`, `together`), so that a call that
died and is repeated is *not* excused.

Bounds, FusionRun. `MaxStarts` attempts bound the whole history of a run; three is the
code's `maximumAttempts` and the least number at which a late attempt, its
successor and a further retry coexist. `MaxPolls` 2 has a first, a last and no
other poll; the code's 24 adds only repetitions of a poll. `MaxFix` 1 exercises
a repair and the exhausted budget. Two requests suffice for a race of people:
each request reads once and writes once.

Bounds, GoalLoop. `MAX_ITERATIONS` 1 (code: 3) has a round that counts and the
refusal of the next. `MaxTasks` lies above the generation bound, so
`GenerationBounded` is not true by the bound: a round that is not counted exceeds
it. `goal_clock` keeps one criterion that touches the real world and whose runs
are held for a person, because then both verification paths of the clock (landed,
deployed) are open; `maxIterations` 3 and `repeatWindow` 2 let both ways to trip
the guard happen, and a cycle budget of 2 lets two dispatches meet. A person who marks
a task done himself (`vouched`) is left to the theorem, which holds for every
`EditStates`: with him the run grows by a third. `goal_contract` has two criteria, one of each kind, runs that
merge or fail, and people who switch autonomy twice; deploys, edits of tasks and
manual triggers are left out there because with them the code does not keep the
contract (section 6).

Bounds, MoneyPath. `Budgets` gives how often each operation is called: one quote
sold both ways at once with a redelivered webhook; two sessions for it and two
webhook calls; two executors against two admins. Two requests at once suffice
for a race between a read and a write; two intents and two sessions to take one for
another. One fault puts a death at every place.

Bounds, the requests' modules. Three requests are enough for a read by one, a
write by another in between and a third that meets what the two left; the plans
(`MCServer`, `MCTaskBoard`, `MCWorks`, `MCSandbox`) list the groups of calls
that touch the same rows, since calls that share none only multiply states. One
restart, expiry or death puts it between any two statements. `server`: three
members against three seats, a login limit of 2 with two logins, five tokens, five
rows, an agent limit of 1 with two creations, three memories over two terms (those with
both make a dream), a campaign of two addresses, amounts of
1 and 2 (a unit with 1 earned and 2 spent gains or loses by one line). `board`: two agents, one of them not shared,
two repositories, one of them without a token, four tasks, three runs, a chain
of depth 2 (the code's `MAX_DEPTH`), two polls of a role's run (code: 40), two
moves of runs. `sandbox`: two slots under three jobs, so one is
refused; one branch, so pushes race; three commits on it. `channel`: two
messages 3 microseconds apart at 2 to the millisecond, so that they fall into
different milliseconds without filling them; a page of one, so a newer message
can push an older one off it; two calls in flight, two moves, one upset. `works`:
two minutes against a period of 2, so a schedule is due once more and not twice;
one automation per tick.

Deadlock is not checked in any run: a run, a goal, a sale and every request
really end.

Fairness. `FusionRun!FairSpec` has weak fairness of `Dispatch` (Temporal dispatches what
it owes), of each attempt's next step (a process that is not interrupted goes
on: `Abort` and `TimeOut` are separate, unfair actions) and of the sandbox's
push. People, CI results, faults and timeouts are never obliged to happen. CI
may stay pending for ever: the poll budget, not fairness, ends the loop.
`GoalLoop!FairSpec` has weak fairness of the clock's steps only: the timer
fires again and again. Runs need not end; the loop guard stops a goal whose
runs do not. `MoneyPath!Spec` has weak fairness of the steps of each accepted
request and of the first delivery of a payment event, since Stripe repeats an
event until it is accepted; customers and admins may stay away.
`Channel!ChannelFairness` has weak fairness of the poll (a timer), of the
delivery of a frame that was pushed, and of the server's and the network's
answers; pushes and calls may be lost (`MaxUpsets`), the person need not do
anything. The other modules check safety only: nothing in their code retries.

## 4. Proofs

All are for every value of the constants, from the named assumptions of the
modules only (bounds are naturals, sets of processes are disjoint, and so on);
the theorems that need more say so after `ASSUME`. Every inductive invariant was
an invariant of a TLC run on a small instance too.

**FusionRunProofs.** `Invariance`: `Spec => []IInv`, and from it `TypeCorrect`,
`SinglePusherHolds`, `LandsGreenAndLicensedHolds`, `NoEditsBeforeApprovalHolds`,
`EventLogSoundHolds`, `AccountedOnceHolds` and `RunImplementsContract`:
`Spec => Contract!Spec`, the whole pipeline implements the landing contract. None of
the properties is inductive.
`LandsGreenAndLicensed` speaks of the head at the moment of landing, which is
read several steps after CI reported on it; the argument is that (1) *where* a
process is determines the event it handled (`Placed`), (2) at most one attempt
owns the branch, because a push succeeds only on a branch that is not there, and
it is the only one past the push (`Owned`), so (3) the owner that saw green knows
the current head is green, because only the owner could have pushed again and it
did not (`Vouched`); the same holds for a person, who may land only what the
owner held. `NoEditsBeforeApproval` needs (4) that while nobody approved no
attempt is past the plan step and no request is in the sandbox (`Unapproved`).
The event log adds (5) which event an attempt emits from where (`Staged`), (6)
that the log is dense and that an attempt about to insert an event that is not
there counted the rows as they are (`Numbered`), and (7) what a transition relies
on: a held run has its card, the attempt in a transition has its card, the one at
its checkpoint the commit, and a checkpoint was pushed (`Carried`); accounting adds
(8) that whatever was charged or counted was so by an attempt that is past it
(`Accounted`). Each part is preserved using the parts
before it; the proof has one lemma per part and one step per action, most of them
discharged by a lemma about the class of actions that leave the part's variables
alone. `OutcomeRecordedHolds` and `UnplannedRunImplementsLifecycle` hold
for a run nobody asked a plan of (`~asked`), with (9) `Unplanned`: one attempt
starts it, the owner of its branch decides it, and a person can only add a merge to
a hold. With a plan TLC refutes both (section 6).

**GoalLoopProofs.** `RealWorldVerifiedHolds` rests on what a process remembers:
one that is about to promote a live task saw the goal deployed, and a deploy is
never undone (`SawDeploy`). `OneActiveRunHolds` assumes `Ticks = {}`: when the
clock is the only process that inserts runs, what it found of a task (no active
run) is still true at its insert (`PickStillTrue`), even after a failed start
left a run active for ever. `StallIsCaughtHolds` needs the history of the
guard: as many of its last entries as judgements found nothing new are the
fingerprint the goal has now (`Watching`), so the next one that makes a window full
of them suspends the goal. `AutonomyBoundedHolds` bounds rounds, tasks and overspending:
the rows are numbered from 1 (`Existing`), what a process remembers is of tasks
that exist and within the limits it checked (`Known`), rounds and faults keep
their limits (`Within`), what is overspent was dispatched in this tick
(`Capped`), one process judges (`OneJudge`), and the tasks are at most
`Cardinality(Roots)` doubled for every round counted or interrupted, with what
the round under way may still add (`Growing`). It
assumes the clock judges alone (`Advances = {}`), a finite set of criteria and one
planner, and `PowersAssumption`, the law of exponents for `^`, of which the provers
know nothing and which TLC evaluates.
`KeepsContractHolds` proves step by step that the loop implements
`GoalContract`, faults and restarts included; it assumes that neither a manual trigger nor a
second planner runs beside the clock, that people edit no task, nothing is deployed
and no run is held. Without these hypotheses the theorems are false, and section 6 has
the counterexamples.

**MoneyPathProofs.** `InvariantHolds`, and from it `TypeCorrect`,
`UndecidedBooksNothingHolds`, `DoneMeansBookedHolds`. The invariant says what a
request relies on between two statements (`Relies`): one that books for an
intent follows its decision, one that books for a session follows Stripe's
report, one that verifies a task follows its booking. Two ideas carry the proof:
nobody takes a decision, a report or a booking back, so what a request found stays
true however late it acts (`Grow`), and a session under construction belongs to
one request (`OwnSession`, needed because the end of `startQuoteStripeCheckout`
hands it to the customer). `Preserve` turns that into one lemma for every action:
the action grows the shared state, and its own request is left in a consistent
place. The audit chain is proved for itself first
(`ChainVerifiesHolds`, of `AuditChain`'s specification with the requests, any set, as
its writers): it is not inductive alone; what keeps it whole is that every writer holds
a row *of the chain*, however old (`TailIsRow`). The successor of an old row exists
already and the insert does nothing; the successor of the last row is missing and the insert
links to it. `AuditImplementsChainHolds` shows that every step is a step of the chain
or leaves it alone, and `AuditVerifiesHolds` carries the chain's theorem over.
`ApprovalTakesEffectHolds` is about what has not happened yet, so it needs the other direction
too (`Effective`): what a deciding request has booked so far follows from its
place (`Progress`), and without a fault an approved intent either has all its
bookings (`Complete`) or some request is still on its way to them (`AtWork`).
A second admin's decision that overwrites the first stops nobody: each request
goes on with what it decided.

**SandboxProofs.** `Invariance`, and from it `RepoConfigQuarantinedHolds` and
`ReportedIsPushedHolds`, for any number of requests and slots, any inputs whose
branch is one of `Branches` (`SandboxAssumption`), any failures and deadlines.
The properties speak of the agent's turn and of commits; the invariant says for
every place between them (`Ready`) what a clone may hold: while files are moved
aside, what was moved is the repository's or an earlier agent's, and the repository has nothing at a path that was not moved
(`Aside`), and what is visible is at most what the platform and then
the agent put there (`Visible`); otherwise each path is the repository's or the
agent's, or the platform's where the repository has none (`Provisioned`, up to the
clean-up). A request only changes its own clone (`OthersStayReady`), and a push
appends to a branch as long as the one it was made from, so what was reported
stays where it was (`OnBranch`).

**TaskBoardProofs.** `Invariance` for `TeamSpec`, the board with teams of roles on
it, and from it `OneWinnerHolds`, `MentionsBoundedHolds`, `StrandedExplainedHolds`,
`MergedIsTrueHolds`, `TeamSoundHolds`, for any number of requests, agents, tasks,
runs, polls and deaths. The first part (`Fit`) says for every place what a request holds:
which task and run it opened, at which depth of the chain, that nobody else opened
them. On top of it: nobody is started before the loop over the mentions, in it
whoever was started was seen and the one about to be started was not (`StartsFit`); a transaction that cleared the
runs of a task holds the lock on all the rows it selects among (`WinnerFit`), so one of them
is selected (`OneSelected`); the result a team keeps of a role is of a
request that began and whose outcome was awaited (`ResultsFit`); whoever holds a
graph is at a team's place (`TeamFit`), and what is left of the order there is a
suffix of `topoOrder`, with results for the roles before it. `RolesInOrder` also needs that `topoOrder` is an order of the graph,
which is a recursive definition; it is the assumption `TopoOrderCorrect`, and TLC evaluates it
on the graphs of an instance.

**WorksProofs.** Four inductive invariants, one for each property of the run
`works`, over a common one that says at which place of which call a request is and
that two calls of one kind under way are noted in `together` (`Common`).
`IncidentsSoundHolds`: whoever is about to tell of something inserted its row, so
it was never told and nobody else is about to tell it (`ToldOnce`); an incident
linked to a task was inserted after it. `FiresOncePerPeriodHolds`: the mark of an
automation is never before one of its fires (`MarksFit`), so what a tick read as due
fired long ago, and stays so until that tick marks it, because no other tick is
under way (`TickFit`); automations made and deleted meanwhile do not matter since an id
is not given twice (the code draws a random one; the model names an automation after
the request that made it). `SeedLandsWithTaskHolds`: the thread in an import's hand is the one of
the task, or there is no task yet (`Landing`). `GrowthSoundHolds`: the
URL in a deploy's hand answered, the cost of an action in a motion's hand is booked
(`Deploying`, `Selling`). A death leaves a request where no part speaks of it.

**ServerProofs.** Five inductive invariants, one for each part of the server, over a
common one (`Common`): each request is at a place of one call. A step is one
handler's step in one part, time passing, or a restart (`Steps`), so a request of
another part is never at the places of this one, and that is shown once for each
part. From them `DoorsAreHeld`, `RoomsSoundHolds`, `PostedIsUnreadHolds`,
`RosterSoundHolds`, `MemorySoundHolds`, `VenturesSoundHolds`, for any requests, plans,
members and bounds.
`DoorsAreHeld` needs what a login knows of a member whose MFA was on when it arrived
(`Entering`): the row it found is still the member's, or the secret has changed, and
for good, because secrets are not given twice; past the gate it has the code of
the secret it found, or the link in its hand is spent, and a spent link stays so. A ticket that was
taken belongs to nobody else at once or later (`Tickets`); an invite about to be
closed names a member with its role (`Managing`). `CodeWasChecked` speaks of members
whose MFA has a secret: section 6 has the way to lose it.
Rooms: no read marker is of the future (`Numbered`), so none that is written late
covers a message posted after it was read; a file about to be marked was wholly on
disk (`RoomsReq`). Roster: a call of a kind is alone at it, or the kind is known to
have overlapped (`Single`), so what it counted is still so at its insert (`Hiring`,
`Connecting`); the optimiser adds one lesson to a document there is (`OneMore`).
Memory: what of a dream is not linked yet is left to whoever made it, at work still or dead
(`Dreaming`); versions are never rewritten, so the one a caller read is still right
(`Linking`). Ventures: the books a rebalancing read are never ahead of the ledger
(`Rebalancing`), and everybody a campaign has not reached is still on the list of
who is sending it (`Sending`); the record stays true whether or not the row is there
(`OnRecord`). The assumptions are in the modules that declare the constants: the rows an instance
starts with fit its bounds, ids of workspaces and numbers of rows are different
things, as are the units there were and the requests that make new ones, amounts are not negative, and the audience of a campaign is a list.

**ChannelProofs.** `ScreenSoundHolds`, of the safety part of `Channel`'s
specification, for any threads, page, calls and failures. The properties speak of the
screen and of posts in flight; the invariant adds what a call on its way back brings
(`InFlight`): a page names no message twice, and a post is a subset of what the box
holds until it is served and a row of the table from then on; only one post is
in flight at a time, so the answer that clears the box clears what it sent. That a page names nothing twice
rests on what `Ascending` returns, and that a set of numbers can be put in
ascending order is an induction over its bound (`CanBeOrdered`); the provers take
induction as a fact about sets of numbers (`SetInduction`, from the well-foundedness of
`<` on `Nat`).

## 5. What only TLC shows

Liveness (`ExecutionSettles`, `AutonomyStops`, `PaidIsServed`, `EventuallyShown`) is
outside what the proof system can do. What a recursive definition computes
(`topoOrder` on every graph, and `2^n`) is not proved either: the library's theorems about
recursive functions take the definition as an operator, which the provers installed
cannot instantiate. Both are named assumptions (`TopoOrderCorrect`, `PowersAssumption`)
that TLC evaluates on an instance. Every safety invariant and action property that a run checks
is stated by a theorem, some of them under the hypotheses section 4 names.
The type invariants of `FusionRun` and `MoneyPath` are proved and are no invariant of
a run any more.

## 6. What the code does not keep

`PROJECT.json` quotes the lines for every row of the first table under
`findings`. The run `money_twice` stays in the project; every other one is seen
by giving the run in brackets the property named, and the constants where some
differ.

| What happens | Property | How to see it |
|---|---|---|
| An internal checkout of a quote that was paid on Stripe marks it `charged` again, so a redelivered webhook books the payment a second time | `PaymentBookedOnce` | run `money_twice` |
| After a plan is approved, the executed run's outcome is never recorded: both outcome events have the key `outcome` (`events.ts:44`) | `OutcomeRecorded` | [`fusion_plan`] |
| A retry cannot absorb a failure after the push: it pushes the same branch from a fresh clone without force | `RetryAbsorbsBlip` | [`fusion_retry`] |
| Approving and rejecting a plan at once moves the run out of `error` | `TerminalIsFinal` | [`fusion_plan`], without `SYMMETRY` |
| After a retry succeeded its blocked original still counts as a gap: the next round retries a criterion that is met, and the goal cannot close by itself | `RetriesOnlyTheGap` | [`goal_clock`] with `Roots = {code}`, `RealWorld = LiveUrl = {}`, `MAX_ITERATIONS = 2`, `MaxTasks = 4`, `Outcomes = {"merged", "failed", "held"}`, `maxIterations = 15`, `repeatWindow = 3`, `MaxFaults = MaxEdits = 0`, `CanDeploy = FALSE` |
| The loop guard compares titles, not states: a task that goes from open to in progress to blocked looks like a loop and its goal is suspended | `TripMeansNoProgress` | the same with `MAX_ITERATIONS = 0`, `MaxTasks = 1` |
| A page after a message may start with that message | `CursorIsStrict` | [`channel`] with `Gaps = {1}` |
| A message pushed without its metadata is never shown in full | `ShownInFull` | [`channel`] |
| Two requests with one link both get a session | `LinkSpentOnce` | [`server`] |
| Two workspaces ask for their assistants at once and one gets none | `AssistantIsThere` | [`server`] |
| Two first messages to one peer open two DMs | `OneDmPerPeer` | [`server`] |
| Two callers with one expected version both replace a node | `ReplacedOnce` | [`server`] |
| A unit that was killed and has a margin later drives again with its offerings retired | `RetiredIsParked` | [`server`] |
| The platform's `.mcp.json` replaces the repository's, and its removal is committed | `CommittedTreeClean` | [`sandbox`] |
| A line longer than 1 MiB keeps a request, and its slot, past its deadline | `SlotComesBack` | [`sandbox`], specification `FairSpec` |
| Two repositories attached as primary at once both are | `AtMostOnePrimary` | [`board`] |
| A role's run is given up on and the next role starts beside it | `ResolvedBeforeNext` | [`board`] |
| An automation's run whose start throws stays pending | `NothingHalfStarts` | [`works`] |
| A growth action is sent and never recorded | `SentIsRecorded` | [`works`] |

The models show these too; they follow from the same causes or rest on weaker
statements in the code. Constants not named are those of the run in brackets;
for a row of the goal loop, those of `goal_clock` with `Roots = {code}`,
`RealWorld = LiveUrl = {}`, `EditStates = {}`, all three outcomes,
`maxIterations = 15`, `repeatWindow = 3`, `MaxFaults = MaxEdits = 0` and
`CanDeploy = FALSE`.

| What happens | Property | Constants |
|---|---|---|
| A run whose attempts all fail leaves its task `in_progress` | `FailedRunEscalates` | `MaxAttempts = MaxStarts = 3`, `MaxPolls = 1`, `MaxFix = 0`, one request, direct [`fusion_retry`] |
| Approving a hold before the holding attempt wrote the task leaves a merged run with a blocked task (`tasks.ts:191`) | `MergedTaskLands` | one attempt, one request, direct [`fusion_retry`] |
| An attempt that dies between the row and the card of `plan_proposed` leaves a plan nobody can approve from the thread | `PlanHasCard` | two attempts, one request, planned [`fusion_plan`] |
| A manual tick beside the clock's dispatches a task twice | `OneActiveRun` | `Roots = {code, shop}`, `Ticks = {t1}`, `MAX_ITERATIONS = 0`, `budgetMax = MaxTasks = 2` |
| A deploy promotes a task whose run is at work; the run's end un-does it after the goal closed (`progress.ts:71`) | `DoneGoalIsMet` | `Roots = RealWorld = LiveUrl = {site}`, `CanDeploy = TRUE`, `MAX_ITERATIONS = 0`, `MaxTasks = 1` |
| A cancelled task makes the generator run with nothing to do, until its rounds are spent (`progress.ts:82`) | `RoundsHaveGap` | `EditStates = {"shelved"}`, `MaxEdits = 1`, `MAX_ITERATIONS = 1` |
| A reopened task gets the id of its first run and its dispatch aborts the tick (`tick.ts:58`) | `DispatchHasFreshRun` | `EditStates = {"open"}`, `MaxEdits = 1`, `MAX_ITERATIONS = 0` |
| Two decompositions of one goal create its tasks twice (`goals.ts:46`) | `PlannedOnce` | `Planners = {p1, p2}`, `MAX_ITERATIONS = 0`, `MaxTasks = 2` |
| The clock and a person judging at once count one round for two | `GenerationBounded` | `Advances = {a1}`, `MAX_ITERATIONS = 1`, `MaxTasks = 4` |
| Two admins approving one intent at once book its revenue twice | `revenue[IntentRef(i)] <= 1` | two requests, `checkout` 1, `decide` 2 [`money_path`] |
| MFA that is disabled between the two statements of a confirmation is on without a secret, and no code is right (`mfa.ts:31-45`) | `MfaHasSecret` | those of [`server`] |
| An approval and a decline at once leave a declined intent with revenue | no `Booked` intent is declined | the same |
| Two overlapping deliveries of one event both book it | `PaymentBookedOnce` | two requests, `stripe` 1, `webhook` 2 |
| A quote is sold both ways: the customer pays and an admin approves the intent | revenue for a session or for an intent, not both | `checkout`, `stripe`, `webhook`, `decide` 1 each |
| The entry of one of two concurrent writers is missing from the audit log, which verifies | every decision has an entry | the same |

With one fault, `PaidIsServed` and `ApprovalTakesEffect` fail: a request that dies
after the state was written is never made up for. Their statements say so
(`faults = 0`), since the code promises no recovery.

## 7. What is left

To prove: that `topoOrder` orders every graph that has an order. To model: several
goals sharing one tick's budget; the branch of the cycle for business goals
composed with `MoneyPath`; re-planning after a rejected plan as a second run of
`FusionRun`; the roll-up of check runs and the risk classifier as functions
against a reference definition; the LISTEN connection's reconnection.

## 8. Not modelled

Text and presentation (prompts, ranking of memories and search results, wording,
lists, the OpenAPI document, the panels of the web client, desktop, landing page
and SDKs): one call per gesture and no state the server depends on. Reports over
rows that are modelled (profit and loss, usage, quality, debug, root cause,
traces). Payments' decisions, treasury and reconciliation: their writers are
called by no route. The sandbox policy proxies (`mcpproxy`, `mcprbac`,
`paymentgate`, `payments`): libraries the runner's server does not mount.
`heartbeat.ts` and `compaction.ts` of `app/orchestration`, and contracts and
settlement of `app/delegation`: imported by nothing. Hashes, signatures and
random secrets are taken to be collision free. Parts of modelled components that
are left out are named in their `note` in `PROJECT.json`.
