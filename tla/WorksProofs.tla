---------------------------- MODULE WorksProofs -----------------------------
(***************************************************************************)
(* Theorems about what works by itself, for any requests, reports, issues, *)
(* playbooks and bounds.  There are four inductive invariants, one for     *)
(* each property, on top of a common one: every request is at a place of   *)
(* its call.  Each says what a request holds at the places that matter,    *)
(* and what rows it relies on that are still there when it acts.           *)
(***************************************************************************)
EXTENDS Works, TLAPS

Has(q, fields) == fields \subseteq DOMAIN req[q]

AlertPlaces == {"alerts", "announce"}
FirePlaces == {"fire", "insertRun", "start", "ran"}
ReportPlaces == {"nextReport", "warn", "insertIncident"}
DeployPlaces == {"exec", "health", "recordUrl", "recordGoal", "tell"}
GtmPlaces == {"playbook", "spend", "insertAction", "record"}

WatchPlaces ==
  AlertPlaces \cup FirePlaces \cup ReportPlaces \cup
    {"rows", "insertIssue", "prTask", "seed", "copy"}
GrowthPlaces == DeployPlaces \cup GtmPlaces

Started(q, call) == Busy(q) /\ Has(q, {"kind"}) /\ req[q].kind = call

\* Every request is at a place of its call; calls of which two were under way at
\* once are noted.
Placed(q) ==
  /\ Has(q, {"at"})
  /\ req[q].at \in {"new", "done", "dead"} \cup WatchPlaces \cup GrowthPlaces
  /\ req[q].at \in WatchPlaces => Has(q, {"kind"})
  /\ req[q].at \in {"prTask", "seed"} => req[q].kind = "fromPr"
  /\ At(q, "copy") => req[q].kind \in {"fromPr", "sync"}
Common ==
  /\ DOMAIN req = Reqs
  /\ \A q \in Reqs : Placed(q)
  /\ \A p, q \in Reqs : \A call \in {"tick", "fromPr"} :
       Started(p, call) /\ Started(q, call) /\ p # q => call \in together

-----------------------------------------------------------------------------
(* Growth: what a deploy and a motion hold. *)

Deploying(q) ==
  /\ req[q].at \in DeployPlaces => Has(q, {"goal", "live"})
  /\ req[q].at \in {"health", "recordUrl", "recordGoal"} => Has(q, {"url"})
  /\ req[q].at \in {"exec", "health", "recordUrl"} => req[q].live = "none"
  /\ req[q].at \in {"recordUrl", "recordGoal"} => req[q].url \in answered
  /\ req[q].at \in {"recordGoal", "tell"} => req[q].live \in answered \cup {"none"}
Selling(q) ==
  /\ At(q, "playbook") => Has(q, {"todo"})
  /\ req[q].at \in {"spend", "insertAction", "record"} => Has(q, {"todo", "act"})
  /\ At(q, "insertAction") => req[q].act.playbook \notin Paid \/ req[q].act \in costs
  /\ At(q, "record") => req[q].act \in gtmActions
GrowthInv == Common /\ GrowthSound /\ \A q \in Reqs : Deploying(q) /\ Selling(q)

-----------------------------------------------------------------------------
(* Incidents: what is being told of is nobody else's to tell. *)

AlertKeys == {"alert"} \X {"run-failed", "ci-stuck", "held-aging"}
ReportKeys == {"cf"} \X Reports

Reporting(q) ==
  /\ req[q].at \in AlertPlaces => Has(q, {"todo"}) /\ req[q].todo \subseteq AlertKeys
  /\ At(q, "announce") => Has(q, {"key"}) /\ req[q].key \in AlertKeys /\ req[q].key \in DOMAIN incident
  /\ req[q].at \in ReportPlaces =>
       Has(q, {"todo", "thread"}) /\ (req[q].thread # 0 => req[q].todo \subseteq ReportKeys)
  /\ req[q].at \in {"warn", "insertIncident"} =>
       /\ Has(q, {"key"})
       /\ req[q].thread # 0 => req[q].key \in ReportKeys /\ IncidentTask(req[q].key) \in DOMAIN task
  /\ At(q, "warn") => req[q].thread # 0
  /\ At(q, "copy") => Has(q, {"todo"}) /\ req[q].todo \subseteq {"rc", "from-pr"} \X Comments

Telling(q) == req[q].at \in {"announce", "warn"}
Untold(key) == \A p \in post : p.about # key
PostFit(p) ==
  \/ p.about[1] = "automation"
  \/ p.about[1] \in {"rc", "from-pr"} /\ p.id = p.about
  \/ p.about \in AlertKeys /\ p.about \in DOMAIN incident
  \/ p.about \in ReportKeys /\ IncidentTask(p.about) \in DOMAIN task
ToldOnce ==
  /\ \A p \in post : PostFit(p)
  /\ \A q \in Reqs : Telling(q) => Untold(req[q].key)
  /\ \A p, q \in Reqs : Telling(p) /\ Telling(q) /\ p # q => req[p].key # req[q].key
IncidentInv == Common /\ IncidentsSound /\ ToldOnce /\ \A q \in Reqs : Reporting(q)

-----------------------------------------------------------------------------
(* Schedules: the rows a tick read tell when it fired before. *)

Old == {q \in Reqs : req[q].at # "new"}

\* f was long enough ago for a tick at now to fire again.
LongAgo(f, now) == now - f.at >= Every
FiresBy(a) == {f \in fires : f.automation = a}

Firing(q) ==
  /\ req[q].at \in FirePlaces => Has(q, {"todo", "now", "fired"}) /\ req[q].now \in 0..minutes
  /\ req[q].at \in FirePlaces => \A x \in req[q].todo : x[1] \in Old
  /\ req[q].at \in FirePlaces \ {"fire"} => Has(q, {"a"}) /\ req[q].a \in Old
RowsFit ==
  \A a \in DOMAIN automation :
    a \in Old /\ "last" \in DOMAIN automation[a] /\ automation[a].last \in Int
MarksFit ==
  \A a \in DOMAIN automation : \A f \in FiresBy(a) : f.at <= automation[a].last
TickFit(q) ==
  req[q].at \in FirePlaces /\ req[q].kind = "tick" =>
    /\ \A x \in req[q].todo : \A f \in FiresBy(x[1]) : LongAgo(f, req[q].now)
    /\ ~At(q, "fire") =>
         /\ \A f \in FiresBy(req[q].a) : LongAgo(f, req[q].now)
         /\ \A x \in req[q].todo : x[1] # req[q].a
Regular == "tick" \notin together /\ \A q \in Reqs : req[q].at # "dead"
FireInv ==
  /\ Common /\ minutes \in Nat
  /\ RowsFit
  /\ \A f \in fires : f.automation \in Old /\ f.at \in 0..minutes
  /\ \A q \in Reqs : Firing(q)
  /\ Regular => MarksFit /\ \A q \in Reqs : TickFit(q)
  /\ FiresOncePerPeriod

-----------------------------------------------------------------------------
(* Imports: the thread a request seeds is the one of the task. *)

Seeding(q) ==
  /\ At(q, "insertIssue") => Has(q, {"source"}) /\ req[q].source # "from-pr"
  /\ req[q].at \in {"prTask", "seed", "copy"} => Has(q, {"thread"})
  /\ At(q, "copy") => /\ Has(q, {"todo"})
                      /\ req[q].kind = "sync" => req[q].todo \subseteq {"rc"} \X Comments
                      /\ req[q].kind = "fromPr" => req[q].todo \subseteq {"from-pr"} \X Comments
InTaskThread(thread) == PrTask \in DOMAIN task /\ thread = task[PrTask]
Landing(q) ==
  /\ At(q, "prTask") => PrTask \notin DOMAIN task
  /\ At(q, "seed") \/ (At(q, "copy") /\ req[q].kind = "fromPr") => InTaskThread(req[q].thread)
Seeded == \A p \in post : p.id[1] = "from-pr" => InTaskThread(p.thread)
SeedInv ==
  /\ Common
  /\ \A q \in Reqs : Seeding(q)
  /\ "fromPr" \notin together => Seeded /\ \A q \in Reqs : Landing(q)

-----------------------------------------------------------------------------
(* What the helpers of Requests do to the record of a request. *)

\* The other requests are left alone.
Others(q) == DOMAIN req' = Reqs /\ \A p \in Reqs \ {q} : req'[p] = req[p]

LEMMA EnterGives ==
  ASSUME NEW q \in Reqs, DOMAIN req = Reqs, NEW call, NEW rec, Enter(q, call, rec)
  PROVE  At(q, "new") /\ Others(q) /\ req'[q] = rec
  BY DEF Enter, Called, Others

LEMMA ReturnGives ==
  ASSUME NEW q \in Reqs, DOMAIN req = Reqs, Return(q)
  PROVE  Others(q) /\ req'[q] = [at |-> "done"]
  BY DEF Return, Others

LEMMA GotoGives ==
  ASSUME NEW q \in Reqs, DOMAIN req = Reqs, "at" \in DOMAIN req[q], NEW place, Goto(q, place)
  PROVE  /\ Others(q) /\ DOMAIN req'[q] = DOMAIN req[q] /\ req'[q].at = place
         /\ \A f \in DOMAIN req[q] \ {"at"} : req'[q][f] = req[q][f]
  BY DEF Goto, Others

LEMMA GotoWithGives ==
  ASSUME NEW q \in Reqs, DOMAIN req = Reqs, "at" \in DOMAIN req[q],
         NEW place, NEW rec, "at" \notin DOMAIN rec, GotoWith(q, place, rec)
  PROVE  /\ Others(q) /\ DOMAIN req'[q] = DOMAIN req[q] \cup DOMAIN rec /\ req'[q].at = place
         /\ \A f \in DOMAIN rec : req'[q][f] = rec[f]
         /\ \A f \in DOMAIN req[q] \ (DOMAIN rec \cup {"at"}) : req'[q][f] = req[q][f]
  BY DEF GotoWith, Extended, Others

LEMMA StartGives ==
  ASSUME NEW q \in Reqs, DOMAIN req = Reqs, NEW call, NEW rec, "at" \in DOMAIN rec,
         "kind" \notin DOMAIN rec, Start(q, call, rec)
  PROVE  /\ At(q, "new") /\ Others(q) /\ DOMAIN req'[q] = DOMAIN rec \cup {"kind"}
         /\ req'[q].kind = call /\ \A f \in DOMAIN rec : req'[q][f] = rec[f]
         /\ together \subseteq together'
<1> DEFINE h == Put(rec, "kind", call)
<1>1. Enter(q, call, h) /\ together \subseteq together'
  BY DEF Start
<1>2. /\ DOMAIN h = DOMAIN rec \cup {"kind"} /\ h.kind = call
      /\ \A f \in DOMAIN rec : h[f] = rec[f]
  BY DEF Put
<1> HIDE DEF h
<1> QED BY <1>1, <1>2, EnterGives

-----------------------------------------------------------------------------
(* Where a request goes. *)

\* q goes on from one place to another; its kind stays while it is under way.
Goes(q, from, to) ==
  /\ At(q, from) /\ Others(q) /\ Has(q, {"at"})' /\ req'[q].at \in to
  /\ req'[q].at # "done" =>
       /\ Has(q, {"kind"})' <=> Has(q, {"kind"})
       /\ Has(q, {"kind"}) => req'[q].kind = req[q].kind

LEMMA ReturnGoes ==
  ASSUME NEW q \in Reqs, DOMAIN req = Reqs, Return(q), NEW from, At(q, from),
         NEW to, "done" \in to
  PROVE  Goes(q, from, to)
  BY ReturnGives DEF Goes, Has

LEMMA GotoGoes ==
  ASSUME NEW q \in Reqs, Common, NEW place, Goto(q, place), NEW from, At(q, from),
         NEW to, place \in to
  PROVE  Goes(q, from, to)
<1>1. DOMAIN req = Reqs /\ "at" \in DOMAIN req[q]
  BY DEF Common, Placed, Has
<1> QED BY <1>1, GotoGives DEF Goes, Has

LEMMA GotoWithGoes ==
  ASSUME NEW q \in Reqs, Common, NEW place, NEW rec, "at" \notin DOMAIN rec,
         "kind" \notin DOMAIN rec, GotoWith(q, place, rec), NEW from, At(q, from),
         NEW to, place \in to
  PROVE  Goes(q, from, to)
<1>1. DOMAIN req = Reqs /\ "at" \in DOMAIN req[q]
  BY DEF Common, Placed, Has
<1> QED BY <1>1, GotoWithGives DEF Goes, Has

\* A request that starts a call of which another is under way notes it.
LEMMA CommonStep ==
  ASSUME Common, NEW q \in Reqs, Others(q), Placed(q)', together \subseteq together',
         \A call \in {"tick", "fromPr"} : Started(q, call)' =>
           \/ Started(q, call)
           \/ \A p \in Reqs \ {q} : Started(p, call) => call \in together'
  PROVE  Common'
<1>1. \A p \in Reqs \ {q} : \A call : Started(p, call)' <=> Started(p, call)
  BY DEF Others, Started, Busy, Has
<1>2. \A p \in Reqs : Placed(p)'
  <2> SUFFICES ASSUME NEW p \in Reqs \ {q} PROVE Placed(p)'
    OBVIOUS
  <2> QED BY DEF Common, Others, Placed, Has, At
<1>3. ASSUME NEW p \in Reqs, NEW r \in Reqs, NEW call \in {"tick", "fromPr"},
             Started(p, call)', Started(r, call)', p # r
      PROVE  call \in together'
  <2>1. CASE p # q /\ r # q
    BY <1>1, <1>3, <2>1 DEF Common
  <2>2. CASE p = q
    BY <1>1, <1>3, <2>2 DEF Common
  <2>3. CASE r = q
    BY <1>1, <1>3, <2>3 DEF Common
  <2> QED BY <2>1, <2>2, <2>3
<1> QED BY <1>2, <1>3 DEF Common, Others

LEMMA StartCommon ==
  ASSUME Common, NEW q \in Reqs, NEW call, NEW rec, Start(q, call, rec),
         "at" \in DOMAIN rec, "kind" \notin DOMAIN rec, rec.at \in WatchPlaces,
         rec.at \in {"prTask", "seed"} => call = "fromPr",
         rec.at = "copy" => call \in {"fromPr", "sync"}
  PROVE  Common'
<1>1. DOMAIN req = Reqs
  BY DEF Common
<1>2. /\ At(q, "new") /\ Others(q) /\ DOMAIN req'[q] = DOMAIN rec \cup {"kind"}
      /\ req'[q].kind = call /\ req'[q].at = rec.at /\ together \subseteq together'
  BY <1>1, StartGives
<1>3. Placed(q)'
  BY <1>2 DEF Placed, Has, At
<1>4. \A p \in Reqs \ {q} : Started(p, call) => call \in together'
  BY DEF Start, Started, Has
<1>5. \A c : Started(q, c)' => c = call
  BY <1>2 DEF Started
<1> QED BY <1>2, <1>3, <1>4, <1>5, CommonStep

\* A step between two places of one call keeps what is common to all.
LEMMA GoesCommon ==
  ASSUME Common, NEW q \in Reqs, NEW from, NEW to, Goes(q, from, to),
         \/ from \in WatchPlaces /\ to \subseteq {"done", "dead"} \cup WatchPlaces
         \/ from \in GrowthPlaces /\ to \subseteq {"done"} \cup GrowthPlaces
         \/ to = {"done"},
         "prTask" \notin to, "seed" \in to => from = "prTask",
         "copy" \in to => from \in {"seed", "copy"},
         together \subseteq together'
  PROVE  Common'
<1> USE DEF WatchPlaces, GrowthPlaces, AlertPlaces, FirePlaces, ReportPlaces, DeployPlaces,
            GtmPlaces
<1>1. Placed(q)
  BY DEF Common
<1>2. Placed(q)'
  BY <1>1 DEF Placed, Goes, Has, At
<1>3. \A call : Started(q, call)' => Started(q, call)
  BY <1>1 DEF Goes, Started, Busy, Has, At
<1> QED BY <1>2, <1>3, CommonStep DEF Goes

LEMMA AlertRoads ==
  ASSUME Common, NEW q \in Reqs
  PROVE  /\ RecordAlert(q) => Goes(q, "alerts", {"alerts", "announce", "rows", "done"})
         /\ PostAlert(q) => Goes(q, "announce", {"alerts"})
<1>1. DOMAIN req = Reqs
  BY DEF Common
<1>2. ASSUME RecordAlert(q) PROVE Goes(q, "alerts", {"alerts", "announce", "rows", "done"})
  <2>1. At(q, "alerts")
    BY <1>2 DEF RecordAlert
  <2>2. CASE Goto(q, "rows")
    BY <2>1, <2>2, GotoGoes
  <2>3. CASE Return(q)
    BY <1>1, <2>1, <2>3, ReturnGoes
  <2>4. ASSUME NEW key, NEW place \in {"alerts", "announce"},
               GotoWith(q, place, [todo |-> req[q].todo \ {key}, key |-> key])
        PROVE  Goes(q, "alerts", {"alerts", "announce", "rows", "done"})
    BY <2>1, <2>4, GotoWithGoes
  <2> QED BY <1>2, <2>2, <2>3, <2>4 DEF RecordAlert
<1>3. PostAlert(q) => Goes(q, "announce", {"alerts"})
  BY GotoGoes DEF PostAlert
<1> QED BY <1>2, <1>3

LEMMA FireRoads ==
  ASSUME Common, NEW q \in Reqs
  PROVE  /\ RunDueScheduleAutomations(q) => Goes(q, "rows", {"fire"})
         /\ ExecuteAction(q) => Goes(q, "fire", {"done", "ran", "fire", "insertRun"})
         /\ InsertAutoRun(q) => Goes(q, "insertRun", {"start"})
         /\ StartAutoRun(q) => Goes(q, "start", {"ran", "dead"})
         /\ MarkFired(q) => Goes(q, "ran", {"fire"})
<1>1. DOMAIN req = Reqs
  BY DEF Common
<1>2. RunDueScheduleAutomations(q) => Goes(q, "rows", {"fire"})
  BY GotoWithGoes DEF RunDueScheduleAutomations
<1>3. ASSUME ExecuteAction(q) PROVE Goes(q, "fire", {"done", "ran", "fire", "insertRun"})
  <2>1. At(q, "fire")
    BY <1>3 DEF ExecuteAction
  <2>2. CASE Return(q)
    BY <1>1, <2>1, <2>2, ReturnGoes
  <2>3. ASSUME NEW a, NEW place \in {"ran", "fire", "insertRun"},
               GotoWith(q, place, [todo |-> Rest(q, a), a |-> a])
        PROVE  Goes(q, "fire", {"done", "ran", "fire", "insertRun"})
    BY <2>1, <2>3, GotoWithGoes
  <2> QED BY <1>3, <2>2, <2>3 DEF ExecuteAction
<1>4. InsertAutoRun(q) => Goes(q, "insertRun", {"start"})
  BY GotoGoes DEF InsertAutoRun
<1>5. ASSUME StartAutoRun(q) PROVE Goes(q, "start", {"ran", "dead"})
  <2>1. At(q, "start") /\ (Goto(q, "ran") \/ Goto(q, "dead"))
    BY <1>5 DEF StartAutoRun
  <2> QED BY <2>1, GotoGoes
<1>6. MarkFired(q) => Goes(q, "ran", {"fire"})
  BY GotoWithGoes DEF MarkFired
<1> QED BY <1>2, <1>3, <1>4, <1>5, <1>6

LEMMA ReportRoads ==
  ASSUME Common, NEW q \in Reqs
  PROVE  /\ OpenIncidentTask(q) => Goes(q, "nextReport", {"done", "insertIncident", "warn"})
         /\ PostIncident(q) => Goes(q, "warn", {"insertIncident"})
         /\ InsertIncident(q) => Goes(q, "insertIncident", {"nextReport"})
<1>1. DOMAIN req = Reqs
  BY DEF Common
<1>2. ASSUME OpenIncidentTask(q)
      PROVE  Goes(q, "nextReport", {"done", "insertIncident", "warn"})
  <2>1. At(q, "nextReport")
    BY <1>2 DEF OpenIncidentTask
  <2>2. CASE Return(q)
    BY <1>1, <2>1, <2>2, ReturnGoes
  <2>3. ASSUME NEW key, NEW place \in {"insertIncident", "warn"},
               GotoWith(q, place, [todo |-> req[q].todo \ {key}, key |-> key])
        PROVE  Goes(q, "nextReport", {"done", "insertIncident", "warn"})
    BY <2>1, <2>3, GotoWithGoes
  <2> QED BY <1>2, <2>2, <2>3 DEF OpenIncidentTask
<1>3. PostIncident(q) => Goes(q, "warn", {"insertIncident"})
  BY GotoGoes DEF PostIncident
<1>4. InsertIncident(q) => Goes(q, "insertIncident", {"nextReport"})
  BY GotoGoes DEF InsertIncident
<1> QED BY <1>2, <1>3, <1>4

LEMMA ImportRoads ==
  ASSUME Common, NEW q \in Reqs
  PROVE  /\ InsertIssue(q) => Goes(q, "insertIssue", {"done", "insertIssue"})
         /\ InsertPrTask(q) => Goes(q, "prTask", {"seed"})
         /\ SeedFiles(q) => Goes(q, "seed", {"copy"})
         /\ CopyComment(q) => Goes(q, "copy", {"done", "copy"})
<1>1. DOMAIN req = Reqs
  BY DEF Common
<1>2. ASSUME InsertIssue(q) PROVE Goes(q, "insertIssue", {"done", "insertIssue"})
  <2>1. At(q, "insertIssue")
    BY <1>2 DEF InsertIssue
  <2>2. CASE Return(q)
    BY <1>1, <2>1, <2>2, ReturnGoes
  <2>3. ASSUME NEW n, GotoWith(q, "insertIssue", [todo |-> req[q].todo \ {n}])
        PROVE  Goes(q, "insertIssue", {"done", "insertIssue"})
    BY <2>1, <2>3, GotoWithGoes
  <2> QED BY <1>2, <2>2, <2>3 DEF InsertIssue
<1>3. InsertPrTask(q) => Goes(q, "prTask", {"seed"})
  BY GotoGoes DEF InsertPrTask
<1>4. SeedFiles(q) => Goes(q, "seed", {"copy"})
  BY GotoWithGoes DEF SeedFiles
<1>5. ASSUME CopyComment(q) PROVE Goes(q, "copy", {"done", "copy"})
  <2>1. At(q, "copy")
    BY <1>5 DEF CopyComment
  <2>2. CASE Return(q)
    BY <1>1, <2>1, <2>2, ReturnGoes
  <2>3. ASSUME NEW id, GotoWith(q, "copy", [todo |-> req[q].todo \ {id}])
        PROVE  Goes(q, "copy", {"done", "copy"})
    BY <2>1, <2>3, GotoWithGoes
  <2> QED BY <1>5, <2>2, <2>3 DEF CopyComment
<1> QED BY <1>2, <1>3, <1>4, <1>5

LEMMA DeployRoads ==
  ASSUME Common, NEW q \in Reqs
  PROVE  /\ ExecDeploy(q) => Goes(q, "exec", {"tell", "health"})
         /\ HealthCheck(q) => Goes(q, "health", {"recordUrl", "tell"})
         /\ RecordRepoUrl(q) => Goes(q, "recordUrl", {"recordGoal", "tell"})
         /\ RecordGoalUrl(q) => Goes(q, "recordGoal", {"tell"})
         /\ TellDeploy(q) => Goes(q, "tell", {"done"})
<1>1. DOMAIN req = Reqs
  BY DEF Common
<1>2. ASSUME ExecDeploy(q) PROVE Goes(q, "exec", {"tell", "health"})
  <2>1. At(q, "exec")
    BY <1>2 DEF ExecDeploy
  <2>2. CASE Goto(q, "tell")
    BY <2>1, <2>2, GotoGoes
  <2>3. ASSUME NEW u, GotoWith(q, "health", [url |-> u]) PROVE Goes(q, "exec", {"tell", "health"})
    BY <2>1, <2>3, GotoWithGoes
  <2> QED BY <1>2, <2>2, <2>3 DEF ExecDeploy
<1>3. HealthCheck(q) => Goes(q, "health", {"recordUrl", "tell"})
  BY GotoGoes DEF HealthCheck
<1>4. ASSUME RecordRepoUrl(q) PROVE Goes(q, "recordUrl", {"recordGoal", "tell"})
  <2>1. PICK place \in {"recordGoal", "tell"} : GotoWith(q, place, [live |-> req[q].url])
    BY <1>4 DEF RecordRepoUrl
  <2> QED BY <1>4, <2>1, GotoWithGoes DEF RecordRepoUrl
<1>5. RecordGoalUrl(q) => Goes(q, "recordGoal", {"tell"})
  BY GotoGoes DEF RecordGoalUrl
<1>6. TellDeploy(q) => Goes(q, "tell", {"done"})
  BY <1>1, ReturnGoes DEF TellDeploy
<1> QED BY <1>2, <1>3, <1>4, <1>5, <1>6

LEMMA GtmRoads ==
  ASSUME Common, NEW q \in Reqs
  PROVE  /\ Connect(q) => Goes(q, "playbook", {"done", "spend", "insertAction"})
         /\ BookSpend(q) => Goes(q, "spend", {"insertAction"})
         /\ InsertGtmAction(q) => Goes(q, "insertAction", {"record"})
         /\ RecordGtm(q) => Goes(q, "record", {"playbook"})
<1>1. DOMAIN req = Reqs
  BY DEF Common
<1>2. ASSUME Connect(q) PROVE Goes(q, "playbook", {"done", "spend", "insertAction"})
  <2>1. At(q, "playbook")
    BY <1>2 DEF Connect
  <2>2. CASE Return(q)
    BY <1>1, <2>1, <2>2, ReturnGoes
  <2>3. ASSUME NEW p, NEW place \in {"spend", "insertAction"},
               GotoWith(q, place, [todo |-> req[q].todo \ {p}, act |-> [by |-> q, playbook |-> p]])
        PROVE  Goes(q, "playbook", {"done", "spend", "insertAction"})
    BY <2>1, <2>3, GotoWithGoes
  <2> QED BY <1>2, <2>2, <2>3 DEF Connect
<1>3. BookSpend(q) => Goes(q, "spend", {"insertAction"})
  BY GotoGoes DEF BookSpend
<1>4. InsertGtmAction(q) => Goes(q, "insertAction", {"record"})
  BY GotoGoes DEF InsertGtmAction
<1>5. RecordGtm(q) => Goes(q, "record", {"playbook"})
  BY GotoGoes DEF RecordGtm
<1> QED BY <1>2, <1>3, <1>4, <1>5

\* Calls that are over when they have begun.
LEMMA ShortRoads ==
  ASSUME Common, NEW q \in Reqs,
         AutomationRoutes(q) \/ Webhook(q) \/ SetDeployCommand(q)
  PROVE  Goes(q, "new", {"done"})
<1>1. DOMAIN req = Reqs
  BY DEF Common
<1>2. At(q, "new") /\ Return(q)
  BY DEF AutomationRoutes, CreateAutomation, SetEnabled, DeleteAutomation, Webhook,
         SetDeployCommand, Called
<1> QED BY <1>1, <1>2, ReturnGoes

\* Calls that begin.
Starts(q) ==
  \/ DetectAlerts(q) \/ FireEventAutomations(q) \/ Ingest(q) \/ IngestLogs(q)
  \/ ImportGitHubIssues(q) \/ ImportLinearIssues(q) \/ StartFromPr(q) \/ SyncComments(q)
StartPlaces == {"alerts", "fire", "nextReport", "insertIssue", "prTask", "seed", "copy"}

LEMMA StartRoads ==
  ASSUME Common, NEW q \in Reqs, Starts(q)
  PROVE  /\ Common' /\ At(q, "new") /\ Others(q) /\ req'[q].at \in StartPlaces
         /\ req'[q].at = "fire" => FireEventAutomations(q)
         /\ req'[q].at \in {"prTask", "seed"} => StartFromPr(q)
         /\ req'[q].at = "copy" => SyncComments(q)
<1> USE DEF StartPlaces, WatchPlaces, AlertPlaces, FirePlaces, ReportPlaces
<1>1. DOMAIN req = Reqs
  BY DEF Common
<1>2. ASSUME NEW call, NEW rec, Start(q, call, rec), "at" \in DOMAIN rec,
             "kind" \notin DOMAIN rec, rec.at \in StartPlaces,
             rec.at \in {"prTask", "seed"} => call = "fromPr",
             rec.at = "copy" => call \in {"fromPr", "sync"}
      PROVE  Common' /\ At(q, "new") /\ Others(q) /\ req'[q].at = rec.at
  BY <1>1, <1>2, StartCommon, StartGives
<1>3. CASE DetectAlerts(q)
  BY <1>2, <1>3 DEF DetectAlerts
<1>4. CASE FireEventAutomations(q)
  BY <1>2, <1>4 DEF FireEventAutomations
<1>5. CASE Ingest(q)
  BY <1>2, <1>5 DEF Ingest
<1>6. CASE IngestLogs(q)
  BY <1>2, <1>6 DEF IngestLogs
<1>7. CASE ImportGitHubIssues(q) \/ ImportLinearIssues(q)
  <2>1. PICK source, listed : Import(q, source, listed)
    BY <1>7 DEF ImportGitHubIssues, ImportLinearIssues
  <2>2. Start(q, "import", [at |-> "insertIssue", source |-> source, todo |-> listed])
    BY <2>1 DEF Import
  <2> QED BY <1>2, <2>2
<1>8. CASE StartFromPr(q)
  BY <1>2, <1>8 DEF StartFromPr
<1>9. CASE SyncComments(q)
  <2>1. PICK todo : Start(q, "sync", [at |-> "copy", thread |-> 1, todo |-> todo])
    BY <1>9 DEF SyncComments
  <2> QED BY <1>2, <1>9, <2>1
<1> QED BY <1>3, <1>4, <1>5, <1>6, <1>7, <1>8, <1>9 DEF Starts

\* Calls of Growth have no kind.
LEMMA EnterRoads ==
  ASSUME Common, NEW q \in Reqs, Deploy(q) \/ RunGtmMotion(q)
  PROVE  /\ At(q, "new") /\ Others(q) /\ Has(q, {"at"})' /\ ~Has(q, {"kind"})'
         /\ req'[q].at \in {"done", "exec", "playbook"}
<1>1. DOMAIN req = Reqs
  BY DEF Common
<1>2. CASE Deploy(q)
  <2>1. CASE \E goal \in BOOLEAN : Enter(q, "deploy", [at |-> "exec", goal |-> goal, live |-> "none"])
    BY <1>1, <2>1, EnterGives DEF Has
  <2>2. CASE Called(q, "deploy") /\ Return(q)
    BY <1>1, <2>2, ReturnGives DEF Has, Called
  <2> QED BY <1>2, <2>1, <2>2 DEF Deploy
<1>3. CASE RunGtmMotion(q)
  <2>1. PICK fn : Enter(q, "gtm", [at |-> "playbook", todo |-> fn])
    BY <1>3 DEF RunGtmMotion
  <2> QED BY <1>1, <2>1, EnterGives DEF Has
<1> QED BY <1>2, <1>3

\* Requests die where they stand, or nobody does.
LEMMA DeathGives ==
  ASSUME DOMAIN req = Reqs, \A q \in Reqs : Placed(q), Throw \/ Restart
  PROVE  /\ DOMAIN req' = Reqs /\ UNCHANGED watchVars /\ UNCHANGED growthVars
         /\ \A q \in Reqs :
              \/ req'[q] = req[q]
              \/ /\ Busy(q) /\ DOMAIN req'[q] = DOMAIN req[q] /\ req'[q].at = "dead"
                 /\ \A f \in DOMAIN req[q] \ {"at"} : req'[q][f] = req[q][f]
<1>1. \A q \in Reqs : "at" \in DOMAIN req[q]
  BY DEF Placed, Has
<1>2. CASE Throw
  <2>1. PICK d \in Reqs : Busy(d) /\ req' = [req EXCEPT ![d].at = "dead"]
    BY <1>2 DEF Throw, Die
  <2> QED BY <1>1, <1>2, <2>1 DEF Throw
<1>3. CASE Restart
  <2>1. req' = [q \in Reqs |-> IF Busy(q) THEN [req[q] EXCEPT !.at = "dead"] ELSE req[q]]
    BY <1>3 DEF Restart, DieAll
  <2> QED BY <1>1, <1>3, <2>1 DEF Restart
<1> QED BY <1>2, <1>3

LEMMA InitCommon == Init => Common
<1> SUFFICES ASSUME Init PROVE Common
  OBVIOUS
<1>1. PICK plan \in Plans : req = Planned(plan)
  BY DEF Init
<1>2. DOMAIN req = Reqs /\ \A q \in Reqs : req[q] = [at |-> "new", call |-> plan[q]]
  BY <1>1 DEF Planned
<1>3. ASSUME NEW q \in Reqs PROVE Placed(q) /\ \A call : ~Started(q, call)
  <2>1. req[q].at = "new" /\ Has(q, {"at"})
    BY <1>2 DEF Has
  <2>2. Placed(q)
    BY <2>1 DEF Placed, At, WatchPlaces, AlertPlaces, FirePlaces, ReportPlaces
  <2>3. ~Busy(q)
    BY <2>1 DEF Busy
  <2> QED BY <2>2, <2>3 DEF Started
<1> QED BY <1>2, <1>3 DEF Common

\* What Watch does is a start, a short call, or a step of a call under way.
WatchStep(q) ==
  \/ RecordAlert(q) \/ PostAlert(q)
  \/ RunDueScheduleAutomations(q) \/ ExecuteAction(q) \/ InsertAutoRun(q)
  \/ StartAutoRun(q) \/ MarkFired(q)
  \/ OpenIncidentTask(q) \/ PostIncident(q) \/ InsertIncident(q)
  \/ InsertIssue(q) \/ InsertPrTask(q) \/ SeedFiles(q) \/ CopyComment(q)
GrowthStep(q) ==
  \/ ExecDeploy(q) \/ HealthCheck(q) \/ RecordRepoUrl(q) \/ RecordGoalUrl(q) \/ TellDeploy(q)
  \/ Connect(q) \/ BookSpend(q) \/ InsertGtmAction(q) \/ RecordGtm(q)

LEMMA HandleCases ==
  ASSUME NEW q \in Reqs, Handle(q)
  PROVE  \/ (Starts(q) \/ WatchStep(q) \/ AutomationRoutes(q) \/ Webhook(q))
            /\ UNCHANGED growthVars
         \/ (Deploy(q) \/ RunGtmMotion(q) \/ GrowthStep(q) \/ SetDeployCommand(q))
            /\ UNCHANGED watchVars
  BY DEF Handle, WatchHandler, AlertSteps, AutomationSteps, IngestRoutes, IntegrationRoutes,
         CommentSyncRoutes, GrowthHandler, DeployRoutes, GtmMotion, Starts, WatchStep, GrowthStep

\* Only a start changes what is noted of overlapping calls.
LEMMA SameTogether ==
  ASSUME NEW q \in Reqs, WatchStep(q) \/ AutomationRoutes(q) \/ Webhook(q)
  PROVE  UNCHANGED together
<1>1. AutomationRoutes(q) \/ Webhook(q) => UNCHANGED together
  BY DEF AutomationRoutes, CreateAutomation, SetEnabled, DeleteAutomation, Webhook
<1>2. RecordAlert(q) \/ PostAlert(q) \/ InsertAutoRun(q) \/ StartAutoRun(q) \/ MarkFired(q) =>
        UNCHANGED together
  BY DEF RecordAlert, PostAlert, InsertAutoRun, StartAutoRun, MarkFired
<1>3. RunDueScheduleAutomations(q) \/ ExecuteAction(q) => UNCHANGED together
  BY DEF RunDueScheduleAutomations, ExecuteAction, watchVars
<1>4. OpenIncidentTask(q) \/ PostIncident(q) \/ InsertIncident(q) => UNCHANGED together
  BY DEF OpenIncidentTask, PostIncident, InsertIncident
<1>5. InsertIssue(q) \/ InsertPrTask(q) \/ SeedFiles(q) \/ CopyComment(q) => UNCHANGED together
  BY DEF InsertIssue, InsertPrTask, SeedFiles, CopyComment
<1> QED BY <1>1, <1>2, <1>3, <1>4, <1>5 DEF WatchStep

\* A step of Watch stays with Watch, and one of Growth with Growth.
LEMMA StepRoads ==
  ASSUME Common, NEW q \in Reqs
  PROVE  /\ WatchStep(q) => /\ Common' /\ Others(q) /\ req[q].at \in WatchPlaces
                            /\ req'[q].at \in WatchPlaces \cup {"done", "dead"}
         /\ GrowthStep(q) /\ UNCHANGED together =>
              /\ Common' /\ Others(q) /\ req[q].at \in GrowthPlaces
              /\ req'[q].at \in GrowthPlaces \cup {"done"}
<1> USE DEF WatchPlaces, AlertPlaces, FirePlaces, ReportPlaces, GrowthPlaces, DeployPlaces, GtmPlaces
<1>1. ASSUME WatchStep(q)
      PROVE  \E from \in WatchPlaces, to \in SUBSET ({"done", "dead"} \cup WatchPlaces) :
               /\ Goes(q, from, to) /\ "prTask" \notin to
               /\ "seed" \in to => from = "prTask"
               /\ "copy" \in to => from \in {"seed", "copy"}
  <2>1. CASE RecordAlert(q) \/ PostAlert(q)
    BY <2>1, AlertRoads
  <2>2. CASE RunDueScheduleAutomations(q) \/ ExecuteAction(q) \/ InsertAutoRun(q)
             \/ StartAutoRun(q) \/ MarkFired(q)
    BY <2>2, FireRoads
  <2>3. CASE OpenIncidentTask(q) \/ PostIncident(q) \/ InsertIncident(q)
    BY <2>3, ReportRoads
  <2>4. CASE InsertIssue(q) \/ InsertPrTask(q) \/ SeedFiles(q) \/ CopyComment(q)
    BY <2>4, ImportRoads
  <2> QED BY <1>1, <2>1, <2>2, <2>3, <2>4 DEF WatchStep
<1>2. ASSUME GrowthStep(q)
      PROVE  \E from \in GrowthPlaces, to \in SUBSET ({"done"} \cup GrowthPlaces) : Goes(q, from, to)
  <2>1. CASE ExecDeploy(q) \/ HealthCheck(q) \/ RecordRepoUrl(q) \/ RecordGoalUrl(q) \/ TellDeploy(q)
    BY <2>1, DeployRoads
  <2>2. CASE Connect(q) \/ BookSpend(q) \/ InsertGtmAction(q) \/ RecordGtm(q)
    BY <2>2, GtmRoads
  <2> QED BY <1>2, <2>1, <2>2 DEF GrowthStep
<1>3. ASSUME WatchStep(q)
      PROVE  /\ Common' /\ Others(q) /\ req[q].at \in WatchPlaces
             /\ req'[q].at \in WatchPlaces \cup {"done", "dead"}
  <2>1. PICK from \in WatchPlaces, to \in SUBSET ({"done", "dead"} \cup WatchPlaces) :
               /\ Goes(q, from, to) /\ "prTask" \notin to
               /\ "seed" \in to => from = "prTask"
               /\ "copy" \in to => from \in {"seed", "copy"}
    BY <1>1, <1>3
  <2>2. UNCHANGED together
    BY <1>3, SameTogether
  <2>3. Common'
    BY <2>1, <2>2, GoesCommon
  <2> QED BY <2>1, <2>3 DEF Goes, At
<1>4. ASSUME GrowthStep(q), UNCHANGED together
      PROVE  /\ Common' /\ Others(q) /\ req[q].at \in GrowthPlaces
             /\ req'[q].at \in GrowthPlaces \cup {"done"}
  <2>1. PICK from \in GrowthPlaces, to \in SUBSET ({"done"} \cup GrowthPlaces) : Goes(q, from, to)
    BY <1>2, <1>4
  <2>2. Common'
    BY <1>4, <2>1, GoesCommon
  <2> QED BY <2>1, <2>2 DEF Goes, At
<1> QED BY <1>3, <1>4

LEMMA HandleCommon ==
  ASSUME Common, NEW q \in Reqs, Handle(q)
  PROVE  Common' /\ Others(q)
<1>1. CASE Starts(q)
  BY <1>1, StartRoads
<1>2. CASE WatchStep(q)
  BY <1>2, StepRoads
<1>3. CASE AutomationRoutes(q) \/ Webhook(q) \/ (SetDeployCommand(q) /\ UNCHANGED watchVars)
  <2>1. UNCHANGED together
    BY <1>3, SameTogether DEF watchVars
  <2>2. Goes(q, "new", {"done"})
    BY <1>3, ShortRoads
  <2>3. Common'
    BY <2>1, <2>2, GoesCommon
  <2> QED BY <2>2, <2>3 DEF Goes
<1>4. CASE (Deploy(q) \/ RunGtmMotion(q)) /\ UNCHANGED watchVars
  <2>1. /\ At(q, "new") /\ Others(q) /\ Has(q, {"at"})' /\ ~Has(q, {"kind"})'
        /\ req'[q].at \in {"done", "exec", "playbook"} /\ UNCHANGED together
    BY <1>4, EnterRoads DEF watchVars
  <2>2. Placed(q)'
    BY <2>1 DEF Placed, At, WatchPlaces, AlertPlaces, FirePlaces, ReportPlaces, GrowthPlaces,
                DeployPlaces, GtmPlaces
  <2>3. \A call : ~Started(q, call)'
    BY <2>1 DEF Started
  <2> QED BY <2>1, <2>2, <2>3, CommonStep
<1>5. CASE GrowthStep(q) /\ UNCHANGED watchVars
  BY <1>5, StepRoads DEF watchVars
<1> QED BY <1>1, <1>2, <1>3, <1>4, <1>5, HandleCases

LEMMA DeathCommon ==
  ASSUME Common, Throw \/ Restart
  PROVE  Common'
<1>1. /\ DOMAIN req' = Reqs /\ UNCHANGED together
      /\ \A q \in Reqs :
           \/ req'[q] = req[q]
           \/ /\ Busy(q) /\ DOMAIN req'[q] = DOMAIN req[q] /\ req'[q].at = "dead"
              /\ \A f \in DOMAIN req[q] \ {"at"} : req'[q][f] = req[q][f]
  BY DeathGives DEF Common, watchVars
<1>2. \A q \in Reqs : Placed(q)'
  BY <1>1 DEF Common, Placed, Has, At, WatchPlaces, AlertPlaces, FirePlaces, ReportPlaces
<1>3. \A q \in Reqs : \A call : Started(q, call)' => Started(q, call)
  BY <1>1 DEF Started, Busy, Has
<1> QED BY <1>1, <1>2, <1>3 DEF Common

LEMMA NextCommon ==
  ASSUME Common, [Next]_vars
  PROVE  Common'
<1>1. CASE UNCHANGED <<req, together>>
  BY <1>1 DEF Common, Placed, Started, Busy, Has, At
<1>2. Time \/ UNCHANGED vars => UNCHANGED <<req, together>>
  BY DEF Time, MinutePasses, RunMoves, vars, watchVars
<1> QED BY <1>1, <1>2, HandleCommon, DeathCommon DEF Next

-----------------------------------------------------------------------------
(* Growth. *)

GrowthKept == answered \subseteq answered' /\ costs \subseteq costs' /\ gtmActions \subseteq gtmActions'

\* What the others hold is only ever joined by more.
LEMMA GrowthAct ==
  ASSUME GrowthInv, NEW q \in Reqs, Common', Others(q), GrowthKept, Deploying(q)', Selling(q)',
         GrowthSound'
  PROVE  GrowthInv'
<1>1. ASSUME NEW p \in Reqs \ {q} PROVE Deploying(p)' /\ Selling(p)'
  <2>1. req'[p] = req[p] /\ Deploying(p) /\ Selling(p)
    BY DEF Others, GrowthInv
  <2>2. Deploying(p)'
    BY <2>1 DEF Deploying, Has, GrowthKept
  <2>3. Selling(p)'
    BY <2>1 DEF Selling, Has, At, GrowthKept
  <2> QED BY <2>2, <2>3
<1> QED BY <1>1 DEF GrowthInv

\* A request elsewhere changes nothing here.
LEMMA GrowthAside ==
  ASSUME GrowthInv, NEW q \in Reqs, Common', Others(q), UNCHANGED growthVars,
         req'[q].at \notin GrowthPlaces
  PROVE  GrowthInv'
<1>1. Deploying(q)' /\ Selling(q)'
  BY DEF Deploying, Selling, At, GrowthPlaces, DeployPlaces, GtmPlaces
<1>2. GrowthKept /\ GrowthSound'
  BY DEF GrowthKept, growthVars, GrowthInv, GrowthSound, LiveUrlWasHealthy, SpendIsBooked
<1> QED BY <1>1, <1>2, GrowthAct

LEMMA DeployKeeps ==
  ASSUME GrowthInv, NEW q \in Reqs, Common', Others(q), DeployRoutes(q)
  PROVE  GrowthInv'
<1> USE DEF GrowthPlaces, DeployPlaces, GtmPlaces
<1>1. /\ DOMAIN req = Reqs /\ "at" \in DOMAIN req[q] /\ Deploying(q) /\ LiveUrlWasHealthy
      /\ SpendIsBooked
  BY DEF GrowthInv, GrowthSound, Common, Placed, Has
<1>2. ASSUME UNCHANGED gtmVars, answered \subseteq answered', LiveUrlWasHealthy', Deploying(q)',
             req'[q].at \notin GtmPlaces
      PROVE  GrowthInv'
  <2>1. Selling(q)'
    BY <1>2 DEF Selling, At
  <2>2. GrowthKept /\ GrowthSound'
    BY <1>1, <1>2 DEF GrowthKept, gtmVars, GrowthSound, SpendIsBooked
  <2> QED BY <1>2, <2>1, <2>2, GrowthAct
<1>3. CASE SetDeployCommand(q)
  <2>1. req'[q] = [at |-> "done"]
    BY <1>1, <1>3, ReturnGives DEF SetDeployCommand
  <2>2. Deploying(q)' /\ req'[q].at \notin GtmPlaces
    BY <2>1 DEF Deploying
  <2> QED BY <1>1, <1>2, <1>3, <2>2 DEF SetDeployCommand, LiveUrlWasHealthy
<1>4. CASE Deploy(q)
  <2>1. CASE \E goal \in BOOLEAN : Enter(q, "deploy", [at |-> "exec", goal |-> goal, live |-> "none"])
    <3>1. PICK goal \in BOOLEAN : req'[q] = [at |-> "exec", goal |-> goal, live |-> "none"]
      BY <1>1, <2>1, EnterGives
    <3>2. Deploying(q)' /\ req'[q].at \notin GtmPlaces
      BY <3>1 DEF Deploying, Has
    <3> QED BY <1>1, <1>2, <1>4, <3>2 DEF Deploy, growthVars, gtmVars, LiveUrlWasHealthy
  <2>2. CASE Called(q, "deploy") /\ Return(q)
    BY <1>1, <1>4, <2>2, ReturnGives, GrowthAside DEF Deploy
  <2> QED BY <1>4, <2>1, <2>2 DEF Deploy
<1>5. CASE ExecDeploy(q)
  <2>1. UNCHANGED growthVars /\ At(q, "exec")
    BY <1>5 DEF ExecDeploy
  <2>2. CASE Goto(q, "tell")
    <3>1. /\ DOMAIN req'[q] = DOMAIN req[q] /\ req'[q].at = "tell"
          /\ \A f \in DOMAIN req[q] \ {"at"} : req'[q][f] = req[q][f]
      BY <1>1, <2>2, GotoGives
    <3>2. Deploying(q)'
      BY <1>1, <2>1, <3>1 DEF Deploying, Has, At
    <3> QED BY <1>1, <1>2, <2>1, <3>1, <3>2 DEF growthVars, gtmVars, LiveUrlWasHealthy
  <2>3. ASSUME NEW u \in Urls, GotoWith(q, "health", [url |-> u]) PROVE GrowthInv'
    <3>1. /\ DOMAIN req'[q] = DOMAIN req[q] \cup {"url"} /\ req'[q].at = "health"
          /\ \A f \in DOMAIN req[q] \ {"url", "at"} : req'[q][f] = req[q][f]
      BY <1>1, <2>3, GotoWithGives
    <3>2. Deploying(q)'
      BY <1>1, <2>1, <3>1 DEF Deploying, Has, At
    <3> QED BY <1>1, <1>2, <2>1, <3>1, <3>2 DEF growthVars, gtmVars, LiveUrlWasHealthy
  <2> QED BY <1>5, <2>2, <2>3 DEF ExecDeploy
<1>6. CASE HealthCheck(q)
  <2>1. PICK place \in {"recordUrl", "tell"} :
          /\ Goto(q, place) /\ answered \subseteq answered'
          /\ place = "recordUrl" => req[q].url \in answered'
    BY <1>6 DEF HealthCheck
  <2>2. /\ DOMAIN req'[q] = DOMAIN req[q] /\ req'[q].at = place
        /\ \A f \in DOMAIN req[q] \ {"at"} : req'[q][f] = req[q][f]
    BY <1>1, <2>1, GotoGives
  <2>3. At(q, "health")
    BY <1>6 DEF HealthCheck
  <2>4. Has(q, {"goal", "live", "url"}) /\ req[q].live = "none"
    BY <1>1, <2>3 DEF Deploying, Has, At
  <2>5. Deploying(q)'
    BY <2>1, <2>2, <2>4 DEF Deploying, Has
  <2> QED BY <1>1, <1>2, <1>6, <2>1, <2>2, <2>5 DEF HealthCheck, LiveUrlWasHealthy
<1>7. CASE RecordRepoUrl(q)
  <2>1. PICK place \in {"recordGoal", "tell"} : GotoWith(q, place, [live |-> req[q].url])
    BY <1>7 DEF RecordRepoUrl
  <2>2. /\ DOMAIN req'[q] = DOMAIN req[q] \cup {"live"} /\ req'[q].at = place
        /\ req'[q].live = req[q].url
        /\ \A f \in DOMAIN req[q] \ {"live", "at"} : req'[q][f] = req[q][f]
    BY <1>1, <2>1, GotoWithGives
  <2>3. At(q, "recordUrl")
    BY <1>7 DEF RecordRepoUrl
  <2>4. Has(q, {"goal", "live", "url"}) /\ req[q].url \in answered
    BY <1>1, <2>3 DEF Deploying, Has, At
  <2>5. UNCHANGED <<goalUrl, told, answered>> /\ repoUrl' = req[q].url /\ UNCHANGED gtmVars
    BY <1>7 DEF RecordRepoUrl
  <2>6. Deploying(q)'
    BY <2>2, <2>4, <2>5 DEF Deploying, Has
  <2>7. LiveUrlWasHealthy'
    BY <1>1, <2>4, <2>5 DEF LiveUrlWasHealthy
  <2> QED BY <1>2, <2>2, <2>5, <2>6, <2>7
<1>8. CASE RecordGoalUrl(q)
  <2>1. /\ DOMAIN req'[q] = DOMAIN req[q] /\ req'[q].at = "tell"
        /\ \A f \in DOMAIN req[q] \ {"at"} : req'[q][f] = req[q][f]
    BY <1>1, <1>8, GotoGives DEF RecordGoalUrl
  <2>2. At(q, "recordGoal")
    BY <1>8 DEF RecordGoalUrl
  <2>3. Has(q, {"goal", "live", "url"}) /\ req[q].url \in answered /\ req[q].live \in answered \cup {"none"}
    BY <1>1, <2>2 DEF Deploying, Has, At
  <2>4. UNCHANGED <<repoUrl, told, answered>> /\ goalUrl' = req[q].url /\ UNCHANGED gtmVars
    BY <1>8 DEF RecordGoalUrl
  <2>5. Deploying(q)'
    BY <2>1, <2>3, <2>4 DEF Deploying, Has
  <2>6. LiveUrlWasHealthy'
    BY <1>1, <2>3, <2>4 DEF LiveUrlWasHealthy
  <2> QED BY <1>2, <2>1, <2>4, <2>5, <2>6
<1>9. CASE TellDeploy(q)
  <2>1. req'[q] = [at |-> "done"]
    BY <1>1, <1>9, ReturnGives DEF TellDeploy
  <2>2. Deploying(q)' /\ req'[q].at \notin GtmPlaces
    BY <2>1 DEF Deploying
  <2>3. req[q].live \in answered \cup {"none"}
    BY <1>1, <1>9 DEF TellDeploy, Deploying, At
  <2>4. UNCHANGED <<repoUrl, goalUrl, answered>> /\ UNCHANGED gtmVars
        /\ told' \subseteq told \cup {req[q].live}
    BY <1>9 DEF TellDeploy
  <2>5. LiveUrlWasHealthy'
    BY <1>1, <2>3, <2>4 DEF LiveUrlWasHealthy
  <2> QED BY <1>2, <2>2, <2>4, <2>5
<1> QED BY <1>3, <1>4, <1>5, <1>6, <1>7, <1>8, <1>9 DEF DeployRoutes

LEMMA GtmKeeps ==
  ASSUME GrowthInv, NEW q \in Reqs, Common', Others(q), GtmMotion(q)
  PROVE  GrowthInv'
<1> USE DEF GrowthPlaces, DeployPlaces, GtmPlaces
<1>1. /\ DOMAIN req = Reqs /\ "at" \in DOMAIN req[q] /\ Selling(q) /\ LiveUrlWasHealthy
      /\ SpendIsBooked
  BY DEF GrowthInv, GrowthSound, Common, Placed, Has
<1>2. ASSUME UNCHANGED deployVars, costs \subseteq costs', gtmActions \subseteq gtmActions',
             SpendIsBooked', Selling(q)', req'[q].at \notin DeployPlaces
      PROVE  GrowthInv'
  <2>1. Deploying(q)'
    BY <1>2 DEF Deploying
  <2>2. GrowthKept /\ GrowthSound'
    BY <1>1, <1>2 DEF GrowthKept, deployVars, GrowthSound, LiveUrlWasHealthy
  <2> QED BY <1>2, <2>1, <2>2, GrowthAct
<1>3. CASE RunGtmMotion(q)
  <2>1. PICK fn : Enter(q, "gtm", [at |-> "playbook", todo |-> fn])
    BY <1>3 DEF RunGtmMotion
  <2>2. req'[q] = [at |-> "playbook", todo |-> fn]
    BY <1>1, <2>1, EnterGives
  <2>3. Selling(q)' /\ req'[q].at \notin DeployPlaces
    BY <2>2 DEF Selling, Has, At
  <2> QED BY <1>1, <1>2, <1>3, <2>3 DEF RunGtmMotion, growthVars, deployVars, SpendIsBooked
<1>4. CASE Connect(q)
  <2>1. UNCHANGED <<costs, gtmActions, records>> /\ UNCHANGED deployVars
    BY <1>4 DEF Connect
  <2>2. SpendIsBooked'
    BY <1>1, <2>1 DEF SpendIsBooked
  <2>3. CASE Return(q)
    <3>1. req'[q] = [at |-> "done"]
      BY <1>1, <2>3, ReturnGives
    <3>2. Selling(q)' /\ req'[q].at \notin DeployPlaces
      BY <3>1 DEF Selling, At
    <3> QED BY <1>2, <2>1, <2>2, <3>2
  <2>4. ASSUME NEW p,
               GotoWith(q, IF p \in Paid THEN "spend" ELSE "insertAction",
                        [todo |-> req[q].todo \ {p}, act |-> [by |-> q, playbook |-> p]])
        PROVE  GrowthInv'
    <3>1. /\ DOMAIN req'[q] = DOMAIN req[q] \cup {"todo", "act"}
          /\ req'[q].at = (IF p \in Paid THEN "spend" ELSE "insertAction")
          /\ req'[q].act = [by |-> q, playbook |-> p]
      BY <1>1, <2>4, GotoWithGives
    <3>2. Selling(q)' /\ req'[q].at \notin DeployPlaces
      BY <3>1 DEF Selling, Has, At
    <3> QED BY <1>2, <2>1, <2>2, <3>2
  <2> QED BY <1>4, <2>3, <2>4 DEF Connect
<1>5. ASSUME NEW from \in {"spend", "insertAction", "record"},
             NEW to \in {"insertAction", "record", "playbook"}, At(q, from), Goto(q, to)
      PROVE  /\ Has(q, {"todo", "act"}) /\ Has(q, {"todo", "act"})' /\ req'[q].at = to
             /\ req'[q].act = req[q].act
  <2>1. Has(q, {"todo", "act"})
    BY <1>1, <1>5 DEF Selling, At
  <2> QED BY <1>1, <1>5, <2>1, GotoGives DEF Has
<1>6. CASE BookSpend(q)
  <2>1. /\ Has(q, {"todo", "act"})' /\ req'[q].at = "insertAction" /\ req'[q].act = req[q].act
        /\ costs' = costs \cup {req[q].act} /\ UNCHANGED <<gtmActions, records>>
        /\ UNCHANGED deployVars
    BY <1>5, <1>6 DEF BookSpend
  <2>2. Selling(q)'
    BY <2>1 DEF Selling, At
  <2>3. SpendIsBooked'
    BY <1>1, <2>1 DEF SpendIsBooked
  <2> QED BY <1>2, <2>1, <2>2, <2>3
<1>7. CASE InsertGtmAction(q)
  <2>1. /\ Has(q, {"todo", "act"})' /\ req'[q].at = "record" /\ req'[q].act = req[q].act
        /\ gtmActions' = gtmActions \cup {req[q].act} /\ UNCHANGED <<costs, records>>
        /\ UNCHANGED deployVars
    BY <1>5, <1>7 DEF InsertGtmAction
  <2>2. Selling(q)'
    BY <2>1 DEF Selling, At
  <2>3. req[q].act.playbook \notin Paid \/ req[q].act \in costs
    BY <1>1, <1>7 DEF InsertGtmAction, Selling
  <2>4. SpendIsBooked'
    BY <1>1, <2>1, <2>3 DEF SpendIsBooked
  <2> QED BY <1>2, <2>1, <2>2, <2>4
<1>8. CASE RecordGtm(q)
  <2>1. /\ Has(q, {"todo", "act"})' /\ req'[q].at = "playbook"
        /\ records' = records \cup {req[q].act} /\ UNCHANGED <<costs, gtmActions>>
        /\ UNCHANGED deployVars
    BY <1>5, <1>8 DEF RecordGtm
  <2>2. Selling(q)'
    BY <2>1 DEF Selling, At, Has
  <2>3. SpendIsBooked'
    BY <1>1, <1>8, <2>1 DEF SpendIsBooked, Selling, RecordGtm
  <2> QED BY <1>2, <2>1, <2>2, <2>3
<1> QED BY <1>3, <1>4, <1>6, <1>7, <1>8 DEF GtmMotion

\* Of Watch, nothing ends up in a deploy or a motion.
LEMMA WatchGoesAside ==
  ASSUME Common, NEW q \in Reqs, WatchHandler(q)
  PROVE  req'[q].at \notin GrowthPlaces
<1> USE DEF WatchPlaces, AlertPlaces, FirePlaces, ReportPlaces, GrowthPlaces, DeployPlaces,
            GtmPlaces, StartPlaces
<1>1. Starts(q) => req'[q].at \notin GrowthPlaces
  BY StartRoads
<1>2. WatchStep(q) => req'[q].at \notin GrowthPlaces
  BY StepRoads
<1>3. AutomationRoutes(q) \/ Webhook(q) => req'[q].at \notin GrowthPlaces
  BY ShortRoads DEF Goes
<1> QED BY <1>1, <1>2, <1>3
        DEF WatchHandler, AlertSteps, AutomationSteps, IngestRoutes, IntegrationRoutes,
            CommentSyncRoutes, Starts, WatchStep

LEMMA GrowthDeath ==
  ASSUME GrowthInv, Throw \/ Restart
  PROVE  GrowthInv'
<1>1. /\ DOMAIN req' = Reqs /\ UNCHANGED growthVars
      /\ \A q \in Reqs : req'[q] = req[q] \/ req'[q].at = "dead"
  BY DeathGives DEF GrowthInv, Common
<1>2. Common' /\ GrowthSound'
  BY <1>1, DeathCommon DEF GrowthInv, GrowthSound, LiveUrlWasHealthy, SpendIsBooked, growthVars
<1>3. ASSUME NEW q \in Reqs PROVE Deploying(q)' /\ Selling(q)'
  <2>1. Deploying(q) /\ Selling(q) /\ UNCHANGED <<answered, costs, gtmActions>>
    BY <1>1 DEF GrowthInv, growthVars
  <2>2. Deploying(q)'
    BY <1>1, <2>1 DEF Deploying, Has, DeployPlaces
  <2>3. Selling(q)'
    BY <1>1, <2>1 DEF Selling, Has, At
  <2> QED BY <2>2, <2>3
<1> QED BY <1>2, <1>3 DEF GrowthInv

\* What the world is shown was healthy and what it cost is booked (Growth.tla), for any
\* playbooks and URLs, any number of deploys and motions at once and any deaths.
THEOREM GrowthSoundHolds == Spec => []GrowthSound
<1>1. Init => GrowthInv
  <2> SUFFICES ASSUME Init PROVE GrowthInv
    OBVIOUS
  <2>1. Common /\ \A q \in Reqs : req[q].at = "new"
    BY InitCommon DEF Init, Planned
  <2>2. \A q \in Reqs : Deploying(q) /\ Selling(q)
    BY <2>1 DEF Deploying, Selling, At, DeployPlaces
  <2>3. GrowthSound
    BY DEF Init, GrowthInit, GrowthSound, LiveUrlWasHealthy, SpendIsBooked
  <2> QED BY <2>1, <2>2, <2>3 DEF GrowthInv
<1>2. GrowthInv /\ [Next]_vars => GrowthInv'
  <2> SUFFICES ASSUME GrowthInv, [Next]_vars PROVE GrowthInv'
    OBVIOUS
  <2>1. Common'
    BY NextCommon DEF GrowthInv
  <2>2. CASE UNCHANGED <<req, together, growthVars>>
    <3>1. \A q \in Reqs : Deploying(q)' /\ Selling(q)'
      BY <2>2 DEF GrowthInv, Deploying, Selling, Has, At, growthVars
    <3> QED BY <2>1, <2>2, <3>1
            DEF GrowthInv, GrowthSound, LiveUrlWasHealthy, SpendIsBooked, growthVars
  <2>3. ASSUME NEW q \in Reqs, Handle(q) PROVE GrowthInv'
    <3>1. Others(q)
      BY <2>3, HandleCommon DEF GrowthInv
    <3>2. CASE WatchHandler(q) /\ UNCHANGED growthVars
      BY <2>1, <3>1, <3>2, WatchGoesAside, GrowthAside DEF GrowthInv
    <3>3. CASE GrowthHandler(q)
      BY <2>1, <3>1, <3>3, DeployKeeps, GtmKeeps DEF GrowthHandler
    <3> QED BY <2>3, <3>2, <3>3 DEF Handle
  <2>4. Time \/ UNCHANGED vars => UNCHANGED <<req, together, growthVars>>
    BY DEF Time, MinutePasses, RunMoves, vars, watchVars
  <2> QED BY <2>2, <2>3, <2>4, GrowthDeath DEF Next
<1>3. GrowthInv => GrowthSound
  BY DEF GrowthInv
<1> QED BY <1>1, <1>2, <1>3, PTL DEF Spec

-----------------------------------------------------------------------------
(* Incidents. *)

TablesKept == DOMAIN incident \subseteq DOMAIN incident' /\ DOMAIN task \subseteq DOMAIN task'

\* The first part of a key tells what kind of thing it is about.
LEMMA KeyFirst ==
  /\ \A key \in AlertKeys : key[1] = "alert"
  /\ \A key \in ReportKeys : key[1] = "cf"
  /\ \A key \in {"rc", "from-pr"} \X Comments : key[1] \in {"rc", "from-pr"}
  BY DEF AlertKeys, ReportKeys

LEMMA SayGives ==
  ASSUME NEW thread, NEW about, Say(thread, about)
  PROVE  \E m : post' = post \cup {m} /\ m.about = about /\ m.id[1] = "random"
<1> DEFINE m == [id |-> <<"random", Cardinality(post) + 1>>, thread |-> thread, about |-> about]
<1>1. post' = post \cup {m} /\ m.about = about /\ m.id[1] = "random"
  BY DEF Say
<1> QED BY <1>1

LEMMA TellingKey ==
  ASSUME NEW q \in Reqs, Reporting(q), Telling(q)
  PROVE  req[q].key \in AlertKeys \cup ReportKeys /\ req[q].key[1] \in {"alert", "cf"}
<1>1. req[q].key \in AlertKeys \cup ReportKeys
  BY DEF Reporting, Telling, At
<1> QED BY <1>1, KeyFirst

LEMMA OthersTelling ==
  ASSUME NEW q \in Reqs, Others(q)
  PROVE  \A p \in Reqs \ {q} : (Telling(p)' <=> Telling(p)) /\ req'[p].key = req[p].key
  BY DEF Others, Telling

LEMMA PostFitKept ==
  ASSUME TablesKept, NEW p, PostFit(p)
  PROVE  PostFit(p)'
  BY DEF PostFit, TablesKept

LEMMA IncidentAct ==
  ASSUME IncidentInv, NEW q \in Reqs, Common', Others(q), TablesKept, Reporting(q)',
         IncidentTaskExists', AnnouncedOnce', ToldOnce'
  PROVE  IncidentInv'
<1>1. ASSUME NEW p \in Reqs \ {q} PROVE Reporting(p)'
  <2>1. req'[p] = req[p] /\ Reporting(p)
    BY DEF Others, IncidentInv
  <2> QED BY <2>1 DEF Reporting, Has, At, TablesKept
<1> QED BY <1>1 DEF IncidentInv, IncidentsSound

\* Nothing is said; what q may now go on to tell is nobody else's and was never told.
LEMMA IncidentQuiet ==
  ASSUME IncidentInv, NEW q \in Reqs, Common', Others(q), TablesKept, Reporting(q)',
         IncidentTaskExists', UNCHANGED post,
         Telling(q)' => /\ Untold(req'[q].key)
                        /\ \A p \in Reqs \ {q} : Telling(p) => req[p].key # req'[q].key
  PROVE  IncidentInv'
<1>1. ToldOnce /\ AnnouncedOnce
  BY DEF IncidentInv, IncidentsSound
<1>2. \A p \in post' : PostFit(p)'
  BY <1>1, PostFitKept DEF ToldOnce
<1>3. \A p \in Reqs : Telling(p)' => Untold(req[p].key)'
  <2>1. \A p \in Reqs \ {q} : Telling(p)' => Untold(req'[p].key)
    BY <1>1, OthersTelling DEF ToldOnce
  <2>2. \A p \in Reqs : Telling(p)' => Untold(req'[p].key)
    BY <2>1
  <2> QED BY <2>2 DEF Untold
<1>4. \A p, r \in Reqs : Telling(p)' /\ Telling(r)' /\ p # r => req'[p].key # req'[r].key
  <2>1. \A p, r \in Reqs \ {q} : Telling(p)' /\ Telling(r)' /\ p # r => req'[p].key # req'[r].key
    BY <1>1, OthersTelling DEF ToldOnce
  <2>2. \A p \in Reqs \ {q} : Telling(p)' /\ Telling(q)' => req'[p].key # req'[q].key
    BY OthersTelling
  <2> QED BY <2>1, <2>2
<1>5. ToldOnce' /\ AnnouncedOnce'
  BY <1>1, <1>2, <1>3, <1>4 DEF ToldOnce, AnnouncedOnce
<1> QED BY <1>5, IncidentAct

\* One message is added, about something never told and that nobody else is to tell of,
\* or by an automation.
LEMMA IncidentSpeaks ==
  ASSUME IncidentInv, NEW q \in Reqs, Common', Others(q), TablesKept, Reporting(q)',
         IncidentTaskExists', NEW m, post' = post \cup {m}, PostFit(m)', ~Telling(q)',
         m.about[1] = "automation" \/ Untold(m.about),
         \A p \in Reqs \ {q} : Telling(p) => req[p].key # m.about
  PROVE  IncidentInv'
<1>1. ToldOnce /\ AnnouncedOnce
  BY DEF IncidentInv, IncidentsSound
<1>2. \A p \in post' : PostFit(p)'
  BY <1>1, PostFitKept DEF ToldOnce
<1>3. \A p \in Reqs : Telling(p)' => Untold(req[p].key)'
  <2>1. \A p \in Reqs \ {q} : Telling(p)' => Untold(req'[p].key) /\ req'[p].key # m.about
    BY <1>1, OthersTelling DEF ToldOnce
  <2>2. \A p \in Reqs : Telling(p)' => Untold(req'[p].key) /\ req'[p].key # m.about
    BY <2>1
  <2> QED BY <2>2 DEF Untold
<1>4. \A p, r \in Reqs : Telling(p)' /\ Telling(r)' /\ p # r => req'[p].key # req'[r].key
  BY <1>1, OthersTelling DEF ToldOnce
<1>5. AnnouncedOnce'
  BY <1>1 DEF AnnouncedOnce, Untold
<1>6. ToldOnce'
  BY <1>2, <1>3, <1>4 DEF ToldOnce
<1> QED BY <1>5, <1>6, IncidentAct

LEMMA IncidentAside ==
  ASSUME IncidentInv, NEW q \in Reqs, Common', Others(q), UNCHANGED <<incident, post>>,
         DOMAIN task \subseteq DOMAIN task',
         req'[q].at \notin AlertPlaces \cup ReportPlaces \cup {"copy"}
  PROVE  IncidentInv'
<1>1. Reporting(q)' /\ ~Telling(q)'
  BY DEF Reporting, Telling, At, AlertPlaces, ReportPlaces
<1>2. TablesKept /\ IncidentTaskExists'
  BY DEF TablesKept, IncidentInv, IncidentsSound, IncidentTaskExists
<1> QED BY <1>1, <1>2, IncidentQuiet

\* Tables only grow.
LEMMA TaskInserted ==
  ASSUME NEW id, NEW thread, InsertTask(id, thread)
  PROVE  /\ DOMAIN task' = DOMAIN task \cup {id} /\ \A x \in DOMAIN task : task'[x] = task[x]
         /\ id \notin DOMAIN task => task'[id] = thread
  BY DEF InsertTask, Inserted, Put

\* An alert is announced by whoever inserted its row.
LEMMA AlertKeeps ==
  ASSUME IncidentInv, NEW q \in Reqs, Common', Others(q), AlertSteps(q)
  PROVE  IncidentInv'
<1> USE DEF AlertPlaces, ReportPlaces
<1>1. /\ DOMAIN req = Reqs /\ "at" \in DOMAIN req[q] /\ Reporting(q) /\ ToldOnce
      /\ IncidentTaskExists
  BY DEF IncidentInv, IncidentsSound, Common, Placed, Has
<1>2. CASE DetectAlerts(q)
  <2>1. PICK call : Start(q, call, [at |-> "alerts", todo |-> detectAlerts])
    BY <1>2 DEF DetectAlerts
  <2>2. /\ DOMAIN req'[q] = {"at", "todo", "kind"} /\ req'[q].at = "alerts"
        /\ req'[q].todo = detectAlerts
    BY <1>1, <2>1, StartGives
  <2>3. detectAlerts \subseteq AlertKeys
    BY DEF detectAlerts, AlertKeys
  <2>4. Reporting(q)' /\ ~Telling(q)'
    BY <2>2, <2>3 DEF Reporting, Telling, Has, At
  <2>5. UNCHANGED <<incident, task, post>>
    BY <1>2 DEF DetectAlerts
  <2>6. TablesKept /\ IncidentTaskExists'
    BY <1>1, <2>5 DEF TablesKept, IncidentTaskExists
  <2> QED BY <2>4, <2>5, <2>6, IncidentQuiet
<1>3. CASE RecordAlert(q)
  <2>1. UNCHANGED <<task, post>> /\ At(q, "alerts")
    BY <1>3 DEF RecordAlert
  <2>2. CASE (Goto(q, "rows") \/ Return(q)) /\ UNCHANGED incident
    <3>1. req'[q].at \in {"rows", "done"}
      BY <1>1, <2>2, GotoGives, ReturnGives
    <3> QED BY <2>1, <2>2, <3>1, IncidentAside
  <2>3. ASSUME NEW key \in req[q].todo,
               GotoWith(q, IF key \in DOMAIN incident THEN "alerts" ELSE "announce",
                        [todo |-> req[q].todo \ {key}, key |-> key]),
               incident' = Inserted(incident, key, "none")
        PROVE  IncidentInv'
    <3>1. /\ DOMAIN req'[q] = DOMAIN req[q] \cup {"todo", "key"}
          /\ req'[q].at = (IF key \in DOMAIN incident THEN "alerts" ELSE "announce")
          /\ req'[q].todo = req[q].todo \ {key} /\ req'[q].key = key
      BY <1>1, <2>3, GotoWithGives
    <3>2. key \in AlertKeys /\ req[q].todo \subseteq AlertKeys
      BY <1>1, <2>1, <2>3 DEF Reporting, At
    <3>3. /\ DOMAIN incident' = DOMAIN incident \cup {key}
          /\ \A x \in DOMAIN incident : incident'[x] = incident[x]
          /\ key \notin DOMAIN incident => incident'[key] = "none"
      BY <2>3 DEF Inserted, Put
    <3>4. Reporting(q)'
      BY <3>1, <3>2, <3>3 DEF Reporting, Has, At
    <3>5. TablesKept /\ IncidentTaskExists'
      BY <1>1, <2>1, <3>3 DEF TablesKept, IncidentTaskExists
    <3>6. ASSUME Telling(q)'
          PROVE  Untold(key) /\ \A p \in Reqs \ {q} : Telling(p) => req[p].key # key
      <4>1. key \notin DOMAIN incident
        BY <3>1, <3>6 DEF Telling
      <4>2. Untold(key)
        BY <1>1, <3>2, <4>1, KeyFirst DEF ToldOnce, PostFit, Untold
      <4>3. ASSUME NEW p \in Reqs, Telling(p), req[p].key = key PROVE FALSE
        <5>1. Reporting(p)
          BY DEF IncidentInv
        <5>2. CASE At(p, "announce")
          BY <4>1, <4>3, <5>1, <5>2 DEF Reporting
        <5>3. CASE At(p, "warn")
          <6>1. key \in ReportKeys
            BY <4>3, <5>1, <5>3 DEF Reporting, At
          <6> QED BY <3>2, <6>1, KeyFirst
        <5> QED BY <4>3, <5>2, <5>3 DEF Telling, At
      <4> QED BY <4>2, <4>3
    <3> QED BY <2>1, <3>1, <3>4, <3>5, <3>6, IncidentQuiet
  <2> QED BY <1>3, <2>2, <2>3 DEF RecordAlert
<1>4. CASE PostAlert(q)
  <2>1. At(q, "announce") /\ Goto(q, "alerts") /\ UNCHANGED <<incident, task>>
    BY <1>4 DEF PostAlert
  <2>2. /\ DOMAIN req'[q] = DOMAIN req[q] /\ req'[q].at = "alerts"
        /\ \A f \in DOMAIN req[q] \ {"at"} : req'[q][f] = req[q][f]
    BY <1>1, <2>1, GotoGives
  <2>3. /\ Has(q, {"todo"}) /\ req[q].todo \subseteq AlertKeys
        /\ req[q].key \in AlertKeys /\ req[q].key \in DOMAIN incident
    BY <1>1, <2>1 DEF Reporting, At
  <2>4. Reporting(q)' /\ ~Telling(q)'
    BY <2>2, <2>3 DEF Reporting, Telling, Has, At
  <2>5. PICK m : post' = post \cup {m} /\ m.about = req[q].key
    BY <1>4, SayGives DEF PostAlert
  <2>6. PostFit(m)'
    BY <2>1, <2>3, <2>5 DEF PostFit
  <2>7. Telling(q)
    BY <2>1 DEF Telling, At
  <2>8. Untold(m.about) /\ \A p \in Reqs \ {q} : Telling(p) => req[p].key # m.about
    BY <1>1, <2>5, <2>7 DEF ToldOnce
  <2>9. TablesKept /\ IncidentTaskExists'
    BY <1>1, <2>1 DEF TablesKept, IncidentTaskExists
  <2> QED BY <2>4, <2>5, <2>6, <2>8, <2>9, IncidentSpeaks
<1> QED BY <1>2, <1>3, <1>4 DEF AlertSteps

\* A report is told of by whoever inserted its task.
LEMMA ReportKeeps ==
  ASSUME IncidentInv, NEW q \in Reqs, Common', Others(q), IngestRoutes(q)
  PROVE  IncidentInv'
<1> USE DEF AlertPlaces, ReportPlaces
<1>1. /\ DOMAIN req = Reqs /\ "at" \in DOMAIN req[q] /\ Reporting(q) /\ ToldOnce
      /\ IncidentTaskExists
  BY DEF IncidentInv, IncidentsSound, Common, Placed, Has
<1>2. CASE Ingest(q) \/ IngestLogs(q)
  <2>1. PICK call, thread, todo :
          /\ Start(q, call, [at |-> "nextReport", todo |-> todo, thread |-> thread])
          /\ thread # 0 => todo \subseteq ReportKeys
    <3>1. CASE Ingest(q)
      <4>1. PICK batch \in parseLogpush, thread \in 0..1 :
              Start(q, "report", [at |-> "nextReport", todo |-> detectIncidents(batch), thread |-> thread])
        BY <3>1 DEF Ingest
      <4>2. detectIncidents(batch) \subseteq ReportKeys
        BY DEF parseLogpush, detectIncidents, ReportKeys
      <4> QED BY <4>1, <4>2
    <3>2. CASE IngestLogs(q)
      BY <3>2 DEF IngestLogs
    <3> QED BY <1>2, <3>1, <3>2
  <2>2. /\ DOMAIN req'[q] = {"at", "todo", "thread", "kind"} /\ req'[q].at = "nextReport"
        /\ req'[q].todo = todo /\ req'[q].thread = thread
    BY <1>1, <2>1, StartGives
  <2>3. Reporting(q)' /\ ~Telling(q)'
    BY <2>1, <2>2 DEF Reporting, Telling, Has, At
  <2>4. UNCHANGED <<incident, task, post>>
    BY <1>2 DEF Ingest, IngestLogs
  <2>5. TablesKept /\ IncidentTaskExists'
    BY <1>1, <2>4 DEF TablesKept, IncidentTaskExists
  <2> QED BY <2>3, <2>4, <2>5, IncidentQuiet
<1>3. CASE OpenIncidentTask(q)
  <2>1. UNCHANGED <<incident, post>> /\ At(q, "nextReport")
    BY <1>3 DEF OpenIncidentTask
  <2>2. CASE Return(q) /\ UNCHANGED task
    BY <1>1, <2>1, <2>2, ReturnGives, IncidentAside
  <2>3. ASSUME NEW key \in req[q].todo,
               GotoWith(q, IF req[q].thread = 0 \/ IncidentTask(key) \in DOMAIN task
                           THEN "insertIncident" ELSE "warn",
                        [todo |-> req[q].todo \ {key}, key |-> key]),
               IF req[q].thread = 0 THEN UNCHANGED task
               ELSE InsertTask(IncidentTask(key), req[q].thread)
        PROVE  IncidentInv'
    <3>1. /\ DOMAIN req'[q] = DOMAIN req[q] \cup {"todo", "key"}
          /\ req'[q].at = (IF req[q].thread = 0 \/ IncidentTask(key) \in DOMAIN task
                           THEN "insertIncident" ELSE "warn")
          /\ req'[q].todo = req[q].todo \ {key} /\ req'[q].key = key
          /\ \A f \in DOMAIN req[q] \ {"todo", "key", "at"} : req'[q][f] = req[q][f]
      BY <1>1, <2>3, GotoWithGives
    <3>2. /\ Has(q, {"todo", "thread"})
          /\ req[q].thread # 0 => key \in ReportKeys /\ req[q].todo \subseteq ReportKeys
      BY <1>1, <2>1, <2>3 DEF Reporting, At
    <3>3. /\ DOMAIN task \subseteq DOMAIN task'
          /\ req[q].thread # 0 => IncidentTask(key) \in DOMAIN task'
      BY <2>3, TaskInserted
    <3>4. Reporting(q)'
      BY <3>1, <3>2, <3>3 DEF Reporting, Has, At
    <3>5. TablesKept /\ IncidentTaskExists'
      BY <1>1, <2>1, <3>3 DEF TablesKept, IncidentTaskExists
    <3>6. ASSUME Telling(q)'
          PROVE  Untold(key) /\ \A p \in Reqs \ {q} : Telling(p) => req[p].key # key
      <4>1. IncidentTask(key) \notin DOMAIN task /\ key \in ReportKeys
        BY <3>1, <3>2, <3>6 DEF Telling
      <4>2. Untold(key)
        BY <1>1, <4>1, KeyFirst DEF ToldOnce, PostFit, Untold
      <4>3. ASSUME NEW p \in Reqs, Telling(p), req[p].key = key PROVE FALSE
        <5>1. Reporting(p)
          BY DEF IncidentInv
        <5>2. CASE At(p, "announce")
          <6>1. key \in AlertKeys
            BY <4>3, <5>1, <5>2 DEF Reporting, At
          <6> QED BY <4>1, <6>1, KeyFirst
        <5>3. CASE At(p, "warn")
          BY <4>1, <4>3, <5>1, <5>3 DEF Reporting, At
        <5> QED BY <4>3, <5>2, <5>3 DEF Telling, At
      <4> QED BY <4>2, <4>3
    <3> QED BY <2>1, <3>1, <3>4, <3>5, <3>6, IncidentQuiet
  <2> QED BY <1>3, <2>2, <2>3 DEF OpenIncidentTask
<1>4. ASSUME NEW from \in {"warn", "insertIncident"}, NEW to \in {"insertIncident", "nextReport"},
             At(q, from), Goto(q, to), TablesKept
      PROVE  Reporting(q)' /\ ~Telling(q)'
  <2>1. /\ DOMAIN req'[q] = DOMAIN req[q] /\ req'[q].at = to
        /\ \A f \in DOMAIN req[q] \ {"at"} : req'[q][f] = req[q][f]
    BY <1>1, <1>4, GotoGives
  <2>2. /\ Has(q, {"todo", "thread", "key"}) /\ (req[q].thread # 0 => req[q].todo \subseteq ReportKeys)
        /\ req[q].thread # 0 => req[q].key \in ReportKeys /\ IncidentTask(req[q].key) \in DOMAIN task
    BY <1>1, <1>4 DEF Reporting, At, Has
  <2> QED BY <1>4, <2>1, <2>2 DEF Reporting, Telling, Has, At, TablesKept
<1>5. CASE PostIncident(q)
  <2>1. At(q, "warn") /\ Goto(q, "insertIncident") /\ UNCHANGED <<incident, task>>
    BY <1>5 DEF PostIncident
  <2>2. TablesKept /\ IncidentTaskExists'
    BY <1>1, <2>1 DEF TablesKept, IncidentTaskExists
  <2>3. Reporting(q)' /\ ~Telling(q)'
    BY <1>4, <2>1, <2>2
  <2>4. req[q].key \in ReportKeys /\ IncidentTask(req[q].key) \in DOMAIN task
    BY <1>1, <2>1 DEF Reporting, At
  <2>5. PICK m : post' = post \cup {m} /\ m.about = req[q].key
    BY <1>5, SayGives DEF PostIncident
  <2>6. PostFit(m)'
    BY <2>1, <2>4, <2>5 DEF PostFit
  <2>7. Telling(q)
    BY <2>1 DEF Telling, At
  <2>8. Untold(m.about) /\ \A p \in Reqs \ {q} : Telling(p) => req[p].key # m.about
    BY <1>1, <2>5, <2>7 DEF ToldOnce
  <2> QED BY <2>2, <2>3, <2>5, <2>6, <2>8, IncidentSpeaks
<1>6. CASE InsertIncident(q)
  <2>1. At(q, "insertIncident") /\ Goto(q, "nextReport") /\ UNCHANGED <<task, post>>
    BY <1>6 DEF InsertIncident
  <2> DEFINE key == req[q].key
             link == IF req[q].thread = 0 THEN "none" ELSE IncidentTask(key)
  <2>2. /\ DOMAIN incident' = DOMAIN incident \cup {key}
        /\ \A x \in DOMAIN incident : incident'[x] = incident[x]
        /\ key \notin DOMAIN incident => incident'[key] = link
    BY <1>6 DEF InsertIncident, Inserted, Put
  <2>3. link = "none" \/ link \in DOMAIN task
    BY <1>1, <2>1 DEF Reporting, At
  <2> HIDE DEF key, link
  <2>4. TablesKept
    BY <2>1, <2>2 DEF TablesKept
  <2>5. IncidentTaskExists'
    BY <1>1, <2>1, <2>2, <2>3 DEF IncidentTaskExists
  <2>6. Reporting(q)' /\ ~Telling(q)'
    BY <1>4, <2>1, <2>4
  <2> QED BY <2>1, <2>4, <2>5, <2>6, IncidentQuiet
<1> QED BY <1>2, <1>3, <1>5, <1>6 DEF IngestRoutes

\* A message with an id of its own is about that id, and there is none with it yet.
LEMMA SayOnceKeeps ==
  ASSUME IncidentInv, NEW q \in Reqs, Common', Others(q), UNCHANGED <<incident, task>>,
         Reporting(q)', ~Telling(q)', NEW id, id[1] \in {"rc", "from-pr"}, NEW thread,
         SayOnce(id, thread)
  PROVE  IncidentInv'
<1>1. ToldOnce /\ TablesKept /\ IncidentTaskExists'
  BY DEF IncidentInv, IncidentsSound, TablesKept, IncidentTaskExists
<1>2. CASE UNCHANGED post
  BY <1>1, <1>2, IncidentQuiet
<1>3. CASE ~ \E p \in post : p.id = id
  <2> DEFINE m == [id |-> id, thread |-> thread, about |-> id]
  <2>1. post' = post \cup {m} /\ m.about = id /\ m.id = id
    BY <1>3 DEF SayOnce
  <2> HIDE DEF m
  <2>2. PostFit(m)'
    BY <2>1 DEF PostFit
  <2>3. Untold(m.about)
    BY <1>1, <1>3, <2>1, KeyFirst DEF ToldOnce, PostFit, Untold
  <2>4. \A p \in Reqs \ {q} : Telling(p) => req[p].key # m.about
    <3>1. \A p \in Reqs : Telling(p) => req[p].key[1] \in {"alert", "cf"}
      BY TellingKey DEF IncidentInv
    <3> QED BY <2>1, <3>1
  <2> QED BY <1>1, <2>1, <2>2, <2>3, <2>4, IncidentSpeaks
<1> QED BY <1>2, <1>3 DEF SayOnce

LEMMA CommentKeeps ==
  ASSUME IncidentInv, NEW q \in Reqs, Common', Others(q), CommentSyncRoutes(q) \/ SeedFiles(q)
  PROVE  IncidentInv'
<1> USE DEF AlertPlaces, ReportPlaces
<1>1. /\ DOMAIN req = Reqs /\ "at" \in DOMAIN req[q] /\ Reporting(q) /\ IncidentTaskExists
  BY DEF IncidentInv, IncidentsSound, Common, Placed, Has
<1>2. ASSUME Has(q, {"todo"})', req'[q].at = "copy",
             req'[q].todo \subseteq {"rc", "from-pr"} \X Comments
      PROVE  Reporting(q)' /\ ~Telling(q)'
  BY <1>2 DEF Reporting, Telling, At
<1>3. CASE SyncComments(q)
  <2>1. PICK listed \in SUBSET Comments :
          Start(q, "sync", [at |-> "copy", thread |-> 1,
            todo |-> {id \in {<<"rc", c>> : c \in listed} : \A p \in post : p.id # id}])
    BY <1>3 DEF SyncComments
  <2> DEFINE todo == {id \in {<<"rc", c>> : c \in listed} : \A p \in post : p.id # id}
  <2>2. todo \subseteq {"rc", "from-pr"} \X Comments
    OBVIOUS
  <2>3. Start(q, "sync", [at |-> "copy", thread |-> 1, todo |-> todo])
    BY <2>1
  <2> HIDE DEF todo
  <2>4. /\ DOMAIN req'[q] = {"at", "todo", "thread", "kind"} /\ req'[q].at = "copy"
        /\ req'[q].todo = todo
    BY <1>1, <2>3, StartGives
  <2>5. Reporting(q)' /\ ~Telling(q)'
    BY <1>2, <2>2, <2>4 DEF Has
  <2>6. UNCHANGED <<incident, task, post>>
    BY <1>3 DEF SyncComments
  <2>7. TablesKept /\ IncidentTaskExists'
    BY <1>1, <2>6 DEF TablesKept, IncidentTaskExists
  <2> QED BY <2>5, <2>6, <2>7, IncidentQuiet
<1>4. CASE SeedFiles(q)
  <2>1. PICK listed \in SUBSET Comments :
          GotoWith(q, "copy", [todo |-> {<<"from-pr", c>> : c \in listed}])
    BY <1>4 DEF SeedFiles
  <2> DEFINE todo == {<<"from-pr", c>> : c \in listed}
  <2>2. todo \subseteq {"rc", "from-pr"} \X Comments
    OBVIOUS
  <2>3. GotoWith(q, "copy", [todo |-> todo])
    BY <2>1
  <2> HIDE DEF todo
  <2>4. DOMAIN req'[q] = DOMAIN req[q] \cup {"todo"} /\ req'[q].at = "copy" /\ req'[q].todo = todo
    BY <1>1, <2>3, GotoWithGives
  <2>5. Reporting(q)' /\ ~Telling(q)'
    BY <1>2, <2>2, <2>4 DEF Has
  <2>6. UNCHANGED <<incident, task>> /\ SayOnce(<<"from-pr", "files">>, req[q].thread)
    BY <1>4 DEF SeedFiles
  <2>7. <<"from-pr", "files">>[1] \in {"rc", "from-pr"}
    OBVIOUS
  <2> QED BY <2>5, <2>6, <2>7, SayOnceKeeps
<1>5. CASE CopyComment(q)
  <2>1. At(q, "copy") /\ UNCHANGED <<incident, task>>
    BY <1>5 DEF CopyComment
  <2>2. CASE Return(q) /\ UNCHANGED post
    BY <1>1, <2>1, <2>2, ReturnGives, IncidentAside
  <2>3. ASSUME NEW id \in req[q].todo, GotoWith(q, "copy", [todo |-> req[q].todo \ {id}]),
               SayOnce(id, req[q].thread)
        PROVE  IncidentInv'
    <3>1. /\ DOMAIN req'[q] = DOMAIN req[q] \cup {"todo"} /\ req'[q].at = "copy"
          /\ req'[q].todo = req[q].todo \ {id}
      BY <1>1, <2>3, GotoWithGives
    <3>2. req[q].todo \subseteq {"rc", "from-pr"} \X Comments
      BY <1>1, <2>1 DEF Reporting
    <3>3. Reporting(q)' /\ ~Telling(q)' /\ id[1] \in {"rc", "from-pr"}
      BY <1>2, <2>3, <3>1, <3>2, KeyFirst DEF Has
    <3> QED BY <2>1, <2>3, <3>3, SayOnceKeeps
  <2> QED BY <1>5, <2>2, <2>3 DEF CopyComment
<1> QED BY <1>3, <1>4, <1>5 DEF CommentSyncRoutes

LEMMA AutomationKeeps ==
  ASSUME IncidentInv, NEW q \in Reqs, Common', Others(q), AutomationSteps(q)
  PROVE  IncidentInv'
<1> USE DEF AlertPlaces, ReportPlaces, FirePlaces
<1>1. DOMAIN req = Reqs /\ ToldOnce /\ IncidentTaskExists
  BY DEF IncidentInv, IncidentsSound, Common
<1>2. req'[q].at \notin AlertPlaces \cup ReportPlaces \cup {"copy"}
  <2>1. CASE FireEventAutomations(q)
    <3>1. PICK now, todo : Start(q, "outcomes", [at |-> "fire", now |-> now, fired |-> 0, todo |-> todo])
      BY <2>1 DEF FireEventAutomations
    <3>2. req'[q].at = "fire"
      BY <1>1, <3>1, StartGives
    <3> QED BY <3>2
  <2>2. CASE ~FireEventAutomations(q)
    BY <2>2, FireRoads DEF AutomationSteps, Goes, IncidentInv
  <2> QED BY <2>1, <2>2
<1>3. CASE ExecuteAction(q)
  <2>1. UNCHANGED incident
    BY <1>3 DEF ExecuteAction
  <2>2. CASE UNCHANGED post
    <3>1. UNCHANGED task \/ \E id : InsertTask(id, 1)
      BY <1>3 DEF ExecuteAction
    <3>2. DOMAIN task \subseteq DOMAIN task'
      BY <3>1, TaskInserted
    <3> QED BY <1>2, <2>1, <2>2, <3>2, IncidentAside
  <2>3. ASSUME NEW a, Say(1, <<"automation", a>>), UNCHANGED task PROVE IncidentInv'
    <3>1. PICK m : post' = post \cup {m} /\ m.about = <<"automation", a>>
      BY <2>3, SayGives
    <3>2. m.about[1] = "automation" /\ PostFit(m)'
      BY <3>1 DEF PostFit
    <3>3. Reporting(q)' /\ ~Telling(q)'
      BY <1>2 DEF Reporting, Telling, At
    <3>4. \A p \in Reqs \ {q} : Telling(p) => req[p].key # m.about
      <4>1. \A p \in Reqs : Telling(p) => req[p].key[1] \in {"alert", "cf"}
        BY TellingKey DEF IncidentInv
      <4> QED BY <3>2, <4>1
    <3>5. TablesKept /\ IncidentTaskExists'
      BY <1>1, <2>1, <2>3 DEF TablesKept, IncidentTaskExists
    <3> QED BY <3>1, <3>2, <3>3, <3>4, <3>5, IncidentSpeaks
  <2> QED BY <1>3, <2>2, <2>3 DEF ExecuteAction
<1>4. CASE RunDueScheduleAutomations(q) \/ FireEventAutomations(q) \/ InsertAutoRun(q)
           \/ StartAutoRun(q) \/ MarkFired(q)
  <2>1. UNCHANGED <<incident, post, task>>
    BY <1>4 DEF RunDueScheduleAutomations, FireEventAutomations, InsertAutoRun, StartAutoRun,
                MarkFired, watchVars
  <2> QED BY <1>2, <2>1, IncidentAside
<1> QED BY <1>3, <1>4 DEF AutomationSteps

\* What is left neither speaks nor notes an incident.
LEMMA RestKeeps ==
  ASSUME IncidentInv, NEW q \in Reqs, Common', Others(q),
         \/ AutomationRoutes(q) \/ Webhook(q)
         \/ ImportGitHubIssues(q) \/ ImportLinearIssues(q) \/ InsertIssue(q)
         \/ StartFromPr(q) \/ InsertPrTask(q)
  PROVE  IncidentInv'
<1> USE DEF AlertPlaces, ReportPlaces
<1>1. DOMAIN req = Reqs
  BY DEF IncidentInv, Common
<1>2. CASE AutomationRoutes(q) \/ Webhook(q)
  <2>1. req'[q].at = "done"
    BY <1>2, ShortRoads DEF Goes, IncidentInv
  <2>2. UNCHANGED <<incident, post>> /\ (UNCHANGED task \/ \E id : InsertTask(id, 1))
    BY <1>2 DEF AutomationRoutes, CreateAutomation, SetEnabled, DeleteAutomation, Webhook
  <2>3. DOMAIN task \subseteq DOMAIN task'
    BY <2>2, TaskInserted
  <2> QED BY <2>1, <2>2, <2>3, IncidentAside
<1>3. CASE ImportGitHubIssues(q) \/ ImportLinearIssues(q)
  <2>1. PICK source, listed : Import(q, source, listed)
    BY <1>3 DEF ImportGitHubIssues, ImportLinearIssues
  <2>2. /\ Start(q, "import", [at |-> "insertIssue", source |-> source, todo |-> listed])
        /\ UNCHANGED <<incident, post, task>>
    BY <2>1 DEF Import
  <2>3. req'[q].at = "insertIssue"
    BY <1>1, <2>2, StartGives
  <2> QED BY <2>2, <2>3, IncidentAside
<1>4. CASE StartFromPr(q)
  <2>1. \E thread : \/ Start(q, "fromPr", [at |-> "seed", thread |-> thread])
                    \/ Start(q, "fromPr", [at |-> "prTask", thread |-> thread])
    BY <1>4 DEF StartFromPr
  <2>2. req'[q].at \in {"seed", "prTask"}
    BY <1>1, <2>1, StartGives
  <2>3. UNCHANGED <<incident, post, task>>
    BY <1>4 DEF StartFromPr
  <2> QED BY <2>2, <2>3, IncidentAside
<1>5. CASE InsertIssue(q) \/ InsertPrTask(q)
  <2>1. req'[q].at \in {"done", "insertIssue", "seed"}
    BY <1>5, ImportRoads DEF Goes, IncidentInv
  <2>2. UNCHANGED <<incident, post>> /\ (UNCHANGED task \/ \E id, thread : InsertTask(id, thread))
    BY <1>5 DEF InsertIssue, InsertPrTask
  <2>3. DOMAIN task \subseteq DOMAIN task'
    BY <2>2, TaskInserted
  <2> QED BY <2>1, <2>2, <2>3, IncidentAside
<1> QED BY <1>2, <1>3, <1>4, <1>5

\* Of Growth, nothing ends up in Watch.
LEMMA GrowthGoesAside ==
  ASSUME Common, NEW q \in Reqs, GrowthHandler(q), UNCHANGED watchVars
  PROVE  req'[q].at \notin WatchPlaces
<1> USE DEF WatchPlaces, AlertPlaces, FirePlaces, ReportPlaces, GrowthPlaces, DeployPlaces, GtmPlaces
<1>1. SetDeployCommand(q) => req'[q].at \notin WatchPlaces
  BY ShortRoads DEF Goes
<1>2. Deploy(q) \/ RunGtmMotion(q) => req'[q].at \notin WatchPlaces
  BY EnterRoads
<1>3. GrowthStep(q) => req'[q].at \notin WatchPlaces
  BY StepRoads DEF watchVars
<1> QED BY <1>1, <1>2, <1>3 DEF GrowthHandler, DeployRoutes, GtmMotion, GrowthStep

\* Incidents are told of once and lead to a task there is (Watch.tla), for any requests,
\* reports and deaths.
THEOREM IncidentsSoundHolds == Spec => []IncidentsSound
<1>1. Init => IncidentInv
  <2> SUFFICES ASSUME Init PROVE IncidentInv
    OBVIOUS
  <2>1. Common /\ \A q \in Reqs : req[q].at = "new"
    BY InitCommon DEF Init, Planned
  <2>2. \A q \in Reqs : Reporting(q) /\ ~Telling(q)
    BY <2>1 DEF Reporting, Telling, At, AlertPlaces, ReportPlaces
  <2>3. incident = <<>> /\ post = {}
    BY DEF Init, WatchInit
  <2>4. IncidentsSound /\ ToldOnce
    BY <2>2, <2>3 DEF IncidentsSound, IncidentTaskExists, AnnouncedOnce, ToldOnce
  <2> QED BY <2>1, <2>2, <2>4 DEF IncidentInv
<1>2. IncidentInv /\ [Next]_vars => IncidentInv'
  <2> SUFFICES ASSUME IncidentInv, [Next]_vars PROVE IncidentInv'
    OBVIOUS
  <2>1. Common'
    BY NextCommon DEF IncidentInv
  <2>2. CASE UNCHANGED <<req, incident, task, post>>
    <3>1. \A q \in Reqs : Reporting(q)'
      BY <2>2 DEF IncidentInv, Reporting, Has, At
    <3>2. IncidentsSound' /\ ToldOnce'
      BY <2>2 DEF IncidentInv, IncidentsSound, IncidentTaskExists, AnnouncedOnce, ToldOnce, PostFit,
                  Telling, Untold
    <3> QED BY <2>1, <3>1, <3>2 DEF IncidentInv
  <2>3. ASSUME NEW q \in Reqs, Handle(q) PROVE IncidentInv'
    <3>1. Others(q)
      BY <2>3, HandleCommon DEF IncidentInv
    <3>2. CASE WatchHandler(q)
      BY <2>1, <3>1, <3>2, AlertKeeps, ReportKeeps, CommentKeeps, AutomationKeeps, RestKeeps
         DEF WatchHandler, IntegrationRoutes
    <3>3. CASE GrowthHandler(q) /\ UNCHANGED watchVars
      <4>1. req'[q].at \notin WatchPlaces
        BY <3>3, GrowthGoesAside DEF IncidentInv
      <4> QED BY <2>1, <3>1, <3>3, <4>1, IncidentAside DEF watchVars, WatchPlaces
    <3> QED BY <2>3, <3>2, <3>3 DEF Handle
  <2>4. CASE Throw \/ Restart
    <3>1. /\ UNCHANGED <<incident, task, post>>
          /\ \A q \in Reqs : req'[q] = req[q] \/ req'[q].at = "dead"
      BY <2>4, DeathGives DEF IncidentInv, Common, watchVars
    <3>2. ASSUME NEW q \in Reqs PROVE Reporting(q)'
      BY <3>1 DEF IncidentInv, Reporting, Has, At, AlertPlaces, ReportPlaces
    <3>3. \A q \in Reqs : Telling(q)' => Telling(q) /\ req'[q] = req[q]
      BY <3>1 DEF Telling
    <3>4. ToldOnce'
      <4>1. \A p \in post' : PostFit(p)'
        BY <3>1 DEF IncidentInv, ToldOnce, PostFit
      <4>2. \A q \in Reqs : Telling(q)' => Untold(req[q].key)'
        BY <3>1, <3>3 DEF IncidentInv, ToldOnce, Untold
      <4> QED BY <3>3, <4>1, <4>2 DEF IncidentInv, ToldOnce
    <3> QED BY <2>1, <3>1, <3>2, <3>4
            DEF IncidentInv, IncidentsSound, IncidentTaskExists, AnnouncedOnce
  <2>5. Time \/ UNCHANGED vars => UNCHANGED <<req, incident, task, post>>
    BY DEF Time, MinutePasses, RunMoves, vars, watchVars
  <2> QED BY <2>2, <2>3, <2>4, <2>5 DEF Next
<1>3. IncidentInv => IncidentsSound
  BY DEF IncidentInv
<1> QED BY <1>1, <1>2, <1>3, PTL DEF Spec

-----------------------------------------------------------------------------
(* Schedules. *)

LEMMA TogetherGrows ==
  ASSUME NEW q \in Reqs, Handle(q)
  PROVE  together \subseteq together'
<1>1. ASSUME Starts(q) PROVE together \subseteq together'
  <2>1. \E call, rec : Start(q, call, rec)
    BY <1>1 DEF Starts, DetectAlerts, FireEventAutomations, Ingest, IngestLogs, ImportGitHubIssues,
                ImportLinearIssues, Import, StartFromPr, SyncComments
  <2> QED BY <2>1 DEF Start
<1>2. UNCHANGED watchVars => UNCHANGED together
  BY DEF watchVars
<1> QED BY <1>1, <1>2, HandleCases, SameTogether

\* A request that moves was not over, and is not called again.
Moves(q) ==
  /\ Others(q) /\ req[q].at \notin {"done", "dead"} /\ req'[q].at # "new"
  /\ together \subseteq together'

LEMMA HandleMoves ==
  ASSUME Common, NEW q \in Reqs, Handle(q)
  PROVE  Moves(q)
<1> USE DEF WatchPlaces, AlertPlaces, FirePlaces, ReportPlaces, GrowthPlaces, DeployPlaces,
            GtmPlaces, StartPlaces
<1>1. CASE Starts(q)
  BY <1>1, StartRoads, TogetherGrows DEF Moves, At
<1>2. CASE WatchStep(q)
  BY <1>2, StepRoads, TogetherGrows DEF Moves
<1>3. CASE AutomationRoutes(q) \/ Webhook(q) \/ SetDeployCommand(q)
  BY <1>3, ShortRoads, TogetherGrows DEF Moves, Goes, At
<1>4. CASE Deploy(q) \/ RunGtmMotion(q)
  BY <1>4, EnterRoads, TogetherGrows DEF Moves, At
<1>5. CASE GrowthStep(q) /\ UNCHANGED watchVars
  BY <1>5, StepRoads, TogetherGrows DEF Moves, watchVars
<1> QED BY <1>1, <1>2, <1>3, <1>4, <1>5, HandleCases

LEMMA MovesKeep ==
  ASSUME NEW q \in Reqs, Moves(q), DOMAIN req = Reqs
  PROVE  Old \subseteq Old' /\ (Regular' => Regular)
  BY DEF Moves, Others, Old, Regular

\* The rest of the requests, when nothing fires.
LEMMA FireAct ==
  ASSUME FireInv, NEW q \in Reqs, Common', Moves(q), UNCHANGED <<fires, minutes>>, RowsFit',
         Firing(q)', Regular => MarksFit', Regular => TickFit(q)'
  PROVE  FireInv'
<1>1. Old \subseteq Old' /\ (Regular' => Regular)
  BY MovesKeep DEF FireInv, Common
<1>2. ASSUME NEW p \in Reqs \ {q} PROVE Firing(p)'
  <2>1. req'[p] = req[p] /\ Firing(p)
    BY DEF Moves, Others, FireInv
  <2> QED BY <1>1, <2>1 DEF Firing, Has
<1>3. ASSUME NEW p \in Reqs \ {q}, Regular PROVE TickFit(p)'
  <2>1. req'[p] = req[p] /\ TickFit(p)
    BY <1>3 DEF Moves, Others, FireInv
  <2> QED BY <2>1 DEF TickFit, At, FiresBy, LongAgo
<1>4. /\ \A f \in fires' : f.automation \in Old' /\ f.at \in 0..minutes'
      /\ minutes' \in Nat
  BY <1>1 DEF FireInv
<1>5. FiresOncePerPeriod'
  BY <1>1 DEF FireInv, FiresOncePerPeriod, Regular
<1> QED BY <1>1, <1>2, <1>3, <1>4, <1>5 DEF FireInv

LEMMA FireAside ==
  ASSUME FireInv, NEW q \in Reqs, Common', Moves(q), UNCHANGED <<fires, minutes, automation>>,
         req'[q].at \notin FirePlaces
  PROVE  FireInv'
<1>1. Firing(q)' /\ TickFit(q)'
  BY DEF Firing, TickFit, FirePlaces
<1>2. RowsFit' /\ (Regular => MarksFit')
  <2>1. Old \subseteq Old'
    BY MovesKeep DEF FireInv, Common
  <2> QED BY <2>1 DEF FireInv, RowsFit, MarksFit, FiresBy
<1> QED BY <1>1, <1>2, FireAct

\* Rows are made by requests that never made one, switched and deleted.
LEMMA RoutesFire ==
  ASSUME FireInv, NEW q \in Reqs, Common', Moves(q), AutomationRoutes(q)
  PROVE  FireInv'
<1>1. /\ DOMAIN req = Reqs /\ RowsFit /\ (Regular => MarksFit) /\ Every \in Nat
      /\ \A f \in fires : f.automation \in Old
  BY WatchAssumption DEF FireInv, Common
<1>2. req'[q].at = "done" /\ At(q, "new")
  BY ShortRoads DEF Goes, FireInv
<1>3. Firing(q)' /\ TickFit(q)' /\ Old \subseteq Old' /\ q \in Old' /\ q \notin Old
  BY <1>1, <1>2, MovesKeep DEF Firing, TickFit, FirePlaces, Old, At
<1>4. UNCHANGED <<fires, minutes>>
  BY DEF AutomationRoutes, CreateAutomation, SetEnabled, DeleteAutomation
<1>5. CASE CreateAutomation(q)
  <2>1. PICK row \in NewAutomation : automation' = Put(automation, q, row)
    BY <1>5 DEF CreateAutomation
  <2>2. /\ DOMAIN automation' = DOMAIN automation \cup {q} /\ automation'[q] = row
        /\ \A a \in DOMAIN automation \ {q} : automation'[a] = automation[a]
    BY <2>1 DEF Put
  <2>3. "last" \in DOMAIN row /\ row.last \in Int
    BY <1>1 DEF NewAutomation, Never
  <2>4. RowsFit'
    BY <1>1, <1>3, <2>2, <2>3 DEF RowsFit
  <2>5. Regular => MarksFit'
    BY <1>1, <1>3, <1>4, <2>2 DEF MarksFit, FiresBy
  <2> QED BY <1>3, <1>4, <2>4, <2>5, FireAct
<1>6. ASSUME DOMAIN automation' \subseteq DOMAIN automation,
             \A a \in DOMAIN automation' :
               /\ automation'[a].last = automation[a].last
               /\ DOMAIN automation'[a] = DOMAIN automation[a]
      PROVE  FireInv'
  <2>1. RowsFit'
    BY <1>1, <1>3, <1>6 DEF RowsFit
  <2>2. Regular => MarksFit'
    BY <1>1, <1>4, <1>6 DEF MarksFit, FiresBy
  <2> QED BY <1>3, <1>4, <2>1, <2>2, FireAct
<1>7. CASE SetEnabled(q)
  <2>1. PICK a \in DOMAIN automation, on \in BOOLEAN :
          automation' = [automation EXCEPT ![a].enabled = on]
    BY <1>7 DEF SetEnabled
  <2>2. \A b \in DOMAIN automation : "last" \in DOMAIN automation[b]
    BY <1>1 DEF RowsFit
  <2> QED BY <1>6, <2>1, <2>2
<1>8. CASE DeleteAutomation(q)
  BY <1>6, <1>8 DEF DeleteAutomation
<1> QED BY <1>5, <1>7, <1>8 DEF AutomationRoutes

\* The rows that are due: their last time is known, or they never fired.
LEMMA DueFire ==
  ASSUME FireInv, NEW q \in Reqs, Common', Moves(q), RunDueScheduleAutomations(q)
  PROVE  FireInv'
<1>1. /\ DOMAIN req = Reqs /\ "at" \in DOMAIN req[q] /\ RowsFit /\ (Regular => MarksFit)
      /\ Every \in Nat \ {0} /\ minutes \in Nat /\ \A f \in fires : f.at \in 0..minutes
  BY WatchAssumption DEF FireInv, Common, Placed, Has
<1> DEFINE due == {b \in Enabled("schedule") : Due(b, minutes)}
           todo == {<<a, automation[a].action>> : a \in due}
<1>2. GotoWith(q, "fire", [now |-> minutes, fired |-> 0, todo |-> todo]) /\ UNCHANGED watchVars
  BY DEF RunDueScheduleAutomations
<1>3. \A x \in todo : x[1] \in due
  OBVIOUS
<1>4. \A a \in due : a \in DOMAIN automation /\ Due(a, minutes)
  BY DEF Enabled
<1> HIDE DEF todo, due
<1>5. /\ DOMAIN req'[q] = DOMAIN req[q] \cup {"now", "fired", "todo"} /\ req'[q].at = "fire"
      /\ req'[q].now = minutes /\ req'[q].todo = todo
  BY <1>1, <1>2, GotoWithGives
<1>6. Old \subseteq Old' /\ UNCHANGED <<fires, minutes, automation>>
  BY <1>1, <1>2, MovesKeep DEF watchVars
<1>7. Firing(q)'
  BY <1>1, <1>3, <1>4, <1>5, <1>6 DEF Firing, Has, RowsFit, FirePlaces
<1>8. ASSUME Regular PROVE TickFit(q)'
  <2>1. ASSUME NEW a \in due, NEW f \in FiresBy(a) PROVE minutes - f.at >= Every
    <3>1. /\ f.at <= automation[a].last /\ f.at \in 0..minutes /\ automation[a].last \in Int
          /\ automation[a].last = -Every \/ minutes - automation[a].last >= Every
      BY <1>1, <1>4, <1>8, <2>1 DEF MarksFit, FiresBy, RowsFit, Due, Never
    <3> QED BY <1>1, <3>1
  <2>2. \A x \in req'[q].todo : \A f \in FiresBy(x[1])' : LongAgo(f, req'[q].now)
    BY <1>3, <1>5, <1>6, <2>1 DEF FiresBy, LongAgo
  <2> QED BY <1>5, <2>2 DEF TickFit, At, FiresBy
<1>9. RowsFit' /\ (Regular => MarksFit')
  BY <1>1, <1>6 DEF RowsFit, MarksFit, FiresBy
<1> QED BY <1>6, <1>7, <1>8, <1>9, FireAct

LEMMA EventFire ==
  ASSUME FireInv, NEW q \in Reqs, Common', Moves(q), FireEventAutomations(q)
  PROVE  FireInv'
<1>1. /\ DOMAIN req = Reqs /\ RowsFit /\ (Regular => MarksFit) /\ minutes \in Nat
  BY DEF FireInv, Common
<1> DEFINE todo == {<<a, automation[a].action>> : a \in Enabled("event")}
<1>2. Start(q, "outcomes", [at |-> "fire", now |-> minutes, fired |-> 0, todo |-> todo])
  BY DEF FireEventAutomations
<1>3. \A x \in todo : x[1] \in DOMAIN automation
  BY DEF Enabled
<1> HIDE DEF todo
<1>4. /\ DOMAIN req'[q] = {"at", "now", "fired", "todo", "kind"} /\ req'[q].at = "fire"
      /\ req'[q].now = minutes /\ req'[q].todo = todo /\ req'[q].kind = "outcomes"
  BY <1>1, <1>2, StartGives
<1>5. Old \subseteq Old' /\ UNCHANGED <<fires, minutes, automation>>
  BY <1>1, MovesKeep DEF FireEventAutomations
<1>6. Firing(q)' /\ TickFit(q)'
  BY <1>1, <1>3, <1>4, <1>5 DEF Firing, TickFit, Has, RowsFit, FirePlaces
<1>7. RowsFit' /\ (Regular => MarksFit')
  BY <1>1, <1>5 DEF RowsFit, MarksFit, FiresBy
<1> QED BY <1>5, <1>6, <1>7, FireAct

\* From one row to the next.
LEMMA ExecuteFire ==
  ASSUME FireInv, NEW q \in Reqs, Common', Moves(q),
         ExecuteAction(q) \/ InsertAutoRun(q) \/ StartAutoRun(q)
  PROVE  FireInv'
<1>1. /\ DOMAIN req = Reqs /\ "at" \in DOMAIN req[q] /\ RowsFit /\ (Regular => MarksFit)
      /\ Firing(q) /\ (Regular => TickFit(q)) /\ Placed(q)
  BY DEF FireInv, Common, Placed, Has
<1>2. UNCHANGED <<fires, minutes, automation>>
  BY DEF ExecuteAction, InsertAutoRun, StartAutoRun
<1>3. Old \subseteq Old' /\ RowsFit' /\ (Regular => MarksFit')
  <2>1. Old \subseteq Old'
    BY <1>1, MovesKeep
  <2> QED BY <1>1, <1>2, <2>1 DEF RowsFit, MarksFit, FiresBy
<1>4. ASSUME Firing(q)', Regular => TickFit(q)' PROVE FireInv'
  BY <1>2, <1>3, <1>4, FireAct
<1>5. ASSUME req'[q].at \notin FirePlaces PROVE FireInv'
  BY <1>2, <1>5, FireAside
<1>6. CASE ExecuteAction(q)
  <2>1. At(q, "fire")
    BY <1>6 DEF ExecuteAction
  <2>2. CASE Return(q)
    BY <1>1, <1>5, <2>2, ReturnGives DEF FirePlaces
  <2>3. ASSUME NEW x \in req[q].todo, NEW place \in {"ran", "fire", "insertRun"},
               GotoWith(q, place, [todo |-> Rest(q, x[1]), a |-> x[1]])
        PROVE  FireInv'
    <3>1. /\ DOMAIN req'[q] = DOMAIN req[q] \cup {"todo", "a"} /\ req'[q].at = place
          /\ req'[q].todo = Rest(q, x[1]) /\ req'[q].a = x[1]
          /\ \A f \in DOMAIN req[q] \ {"todo", "a", "at"} : req'[q][f] = req[q][f]
      BY <1>1, <2>3, GotoWithGives
    <3>2. /\ Has(q, {"todo", "now", "fired"}) /\ req[q].now \in 0..minutes
          /\ \A y \in req[q].todo : y[1] \in Old
      BY <1>1, <2>1 DEF Firing, At, FirePlaces
    <3>3. Rest(q, x[1]) \subseteq req[q].todo /\ \A y \in Rest(q, x[1]) : y[1] # x[1]
      BY DEF Rest
    <3>4. Firing(q)'
      BY <1>2, <1>3, <2>3, <3>1, <3>2, <3>3 DEF Firing, Has
    <3>5. Has(q, {"kind"}) /\ req'[q].kind = req[q].kind /\ req'[q].now = req[q].now
      BY <1>1, <2>1, <3>1, <3>2 DEF Placed, Has, At, WatchPlaces, FirePlaces
    <3>6. ASSUME Regular, req[q].kind = "tick"
          PROVE  \A y \in req[q].todo : \A f \in FiresBy(y[1]) : LongAgo(f, req[q].now)
      BY <1>1, <2>1, <3>6 DEF TickFit, FirePlaces, At
    <3>7. Regular => TickFit(q)'
      BY <1>2, <3>1, <3>3, <3>5, <3>6 DEF TickFit, FiresBy, LongAgo, At
    <3> QED BY <1>4, <3>4, <3>7
  <2> QED BY <1>6, <2>2, <2>3 DEF ExecuteAction
<1>7. ASSUME NEW from \in {"insertRun", "start"}, At(q, from), NEW to \in {"start", "ran"},
             Goto(q, to)
      PROVE  FireInv'
  <2>1. /\ DOMAIN req'[q] = DOMAIN req[q] /\ req'[q].at = to
        /\ \A f \in DOMAIN req[q] \ {"at"} : req'[q][f] = req[q][f]
    BY <1>1, <1>7, GotoGives
  <2>2. /\ Has(q, {"todo", "now", "fired", "a"}) /\ req[q].now \in 0..minutes
        /\ req[q].a \in Old /\ \A y \in req[q].todo : y[1] \in Old
    BY <1>1, <1>7 DEF Firing, At, FirePlaces, Has
  <2>3. Firing(q)'
    BY <1>2, <1>3, <1>7, <2>1, <2>2 DEF Firing, Has
  <2>4. Has(q, {"kind"})
    BY <1>1, <1>7 DEF Placed, At, WatchPlaces, FirePlaces
  <2>5. /\ req'[q].kind = req[q].kind /\ req'[q].now = req[q].now /\ req'[q].todo = req[q].todo
        /\ req'[q].a = req[q].a
    BY <2>1, <2>2, <2>4 DEF Has
  <2>6. ASSUME Regular, req[q].kind = "tick"
        PROVE  /\ \A y \in req[q].todo : \A f \in FiresBy(y[1]) : LongAgo(f, req[q].now)
               /\ \A f \in FiresBy(req[q].a) : LongAgo(f, req[q].now)
               /\ \A y \in req[q].todo : y[1] # req[q].a
    BY <1>1, <1>7, <2>6 DEF TickFit, FirePlaces, At
  <2>7. Regular => TickFit(q)'
    BY <1>2, <2>5, <2>6 DEF TickFit, FiresBy, LongAgo
  <2> QED BY <1>4, <2>3, <2>7
<1>8. CASE InsertAutoRun(q)
  BY <1>7, <1>8 DEF InsertAutoRun
<1>9. CASE StartAutoRun(q)
  <2>1. CASE Goto(q, "dead")
    BY <1>1, <1>5, <2>1, GotoGives DEF FirePlaces
  <2> QED BY <1>7, <1>9, <2>1 DEF StartAutoRun
<1> QED BY <1>6, <1>8, <1>9

\* What is marked is not still to be fired by this tick, and there is no other.
LEMMA MarkFire ==
  ASSUME FireInv, NEW q \in Reqs, Common', Moves(q), MarkFired(q)
  PROVE  FireInv'
<1>1. /\ DOMAIN req = Reqs /\ "at" \in DOMAIN req[q] /\ RowsFit /\ (Regular => MarksFit)
      /\ Firing(q) /\ (Regular => TickFit(q)) /\ Placed(q) /\ minutes \in Nat
      /\ \A f \in fires : f.automation \in Old /\ f.at \in 0..minutes
      /\ Every \in Nat \ {0}
  BY WatchAssumption DEF FireInv, Common, Placed, Has
<1>2. At(q, "ran") /\ GotoWith(q, "fire", [fired |-> req[q].fired + 1]) /\ UNCHANGED minutes
  BY DEF MarkFired
<1>3. /\ DOMAIN req'[q] = DOMAIN req[q] \cup {"fired"} /\ req'[q].at = "fire"
      /\ \A f \in DOMAIN req[q] \ {"fired", "at"} : req'[q][f] = req[q][f]
  BY <1>1, <1>2, GotoWithGives
<1>4. /\ Has(q, {"todo", "now", "fired", "a", "kind"}) /\ req[q].now \in 0..minutes
      /\ req[q].a \in Old /\ \A y \in req[q].todo : y[1] \in Old
  BY <1>1, <1>2 DEF Firing, At, FirePlaces, Has, Placed, WatchPlaces
<1>5. Old \subseteq Old' /\ (Regular' => Regular)
  BY <1>1, MovesKeep
<1>6. Firing(q)'
  BY <1>2, <1>3, <1>4, <1>5 DEF Firing, Has
<1>7. req'[q].kind = req[q].kind /\ req'[q].now = req[q].now /\ req'[q].todo = req[q].todo
  BY <1>3, <1>4 DEF Has
<1>8. CASE req[q].kind # "tick"
  <2>1. UNCHANGED <<fires, automation>>
    BY <1>8 DEF MarkFired
  <2>2. RowsFit' /\ (Regular => MarksFit')
    BY <1>1, <1>5, <2>1 DEF RowsFit, MarksFit, FiresBy
  <2>3. TickFit(q)'
    BY <1>7, <1>8 DEF TickFit
  <2> QED BY <1>2, <1>6, <2>1, <2>2, <2>3, FireAct
<1>9. CASE req[q].kind = "tick"
  <2> DEFINE a == req[q].a
             now == req[q].now
             fire == [automation |-> a, at |-> now, by |-> q]
  <2>1. /\ fires' = fires \cup {fire} /\ fire.automation = a /\ fire.at = now
        /\ automation' = IF a \in DOMAIN automation
                         THEN [automation EXCEPT ![a].last = now] ELSE automation
    BY <1>9 DEF MarkFired
  <2>2. a \in Old /\ now \in 0..minutes /\ now \in Int
    BY <1>1, <1>4
  <2> HIDE DEF fire
  <2>3. /\ DOMAIN automation' = DOMAIN automation
        /\ a \in DOMAIN automation => automation'[a].last = now /\ "last" \in DOMAIN automation'[a]
        /\ \A b \in DOMAIN automation \ {a} : automation'[b] = automation[b]
    BY <1>1, <2>1 DEF RowsFit
  <2> HIDE DEF a, now
  <2>4. RowsFit'
    BY <1>1, <1>5, <2>2, <2>3 DEF RowsFit
  <2>5. \A f \in fires' : f.automation \in Old' /\ f.at \in 0..minutes'
    BY <1>1, <1>2, <1>5, <2>1, <2>2
  <2>6. ASSUME NEW p \in Reqs \ {q} PROVE Firing(p)'
    <3>1. req'[p] = req[p] /\ Firing(p)
      BY DEF Moves, Others, FireInv
    <3> QED BY <1>2, <1>5, <3>1 DEF Firing, Has
  <2>7. ASSUME Regular
        PROVE  /\ \A y \in req[q].todo : \A f \in FiresBy(y[1]) : LongAgo(f, now)
               /\ \A f \in FiresBy(a) : LongAgo(f, now)
               /\ \A y \in req[q].todo : y[1] # a
    BY <1>1, <1>2, <1>9, <2>7 DEF TickFit, FirePlaces, At, a, now
  <2>8. ASSUME Regular PROVE MarksFit'
    <3>1. ASSUME NEW b \in DOMAIN automation, NEW f \in fires', f.automation = b
          PROVE  f.at <= automation'[b].last
      <4>1. CASE b = a /\ f = fire
        BY <2>1, <2>2, <2>3, <4>1
      <4>2. CASE b = a /\ f # fire
        <5>1. f \in fires /\ now - f.at >= Every /\ f.at \in Int
          BY <1>1, <2>1, <2>7, <2>8, <3>1, <4>2 DEF FiresBy, LongAgo
        <5> QED BY <1>1, <2>2, <2>3, <4>2, <5>1
      <4>3. CASE b # a
        BY <1>1, <2>1, <2>3, <2>8, <3>1, <4>3 DEF MarksFit, FiresBy
      <4> QED BY <4>1, <4>2, <4>3
    <3> QED BY <2>3, <3>1 DEF MarksFit, FiresBy
  <2>9. ASSUME Regular PROVE TickFit(q)'
    <3>1. \A y \in req[q].todo : FiresBy(y[1])' = FiresBy(y[1])
      BY <2>1, <2>7, <2>9 DEF FiresBy
    <3>2. \A y \in req'[q].todo : \A f \in FiresBy(y[1])' : LongAgo(f, req'[q].now)
      BY <1>7, <2>7, <2>9, <3>1 DEF now
    <3> QED BY <1>3, <3>2 DEF TickFit, At, LongAgo, FiresBy
  <2>10. ASSUME NEW p \in Reqs \ {q}, Regular PROVE TickFit(p)'
    <3>1. req'[p] = req[p] /\ Placed(p)
      BY DEF Moves, Others, FireInv, Common
    <3>2. Started(q, "tick")
      BY <1>2, <1>4, <1>9 DEF Started, Busy, At, Has
    <3>3. ~ (req[p].at \in FirePlaces /\ req[p].kind = "tick")
      <4>1. SUFFICES ASSUME req[p].at \in FirePlaces, req[p].kind = "tick" PROVE FALSE
        OBVIOUS
      <4>2. Started(p, "tick")
        BY <3>1, <4>1 DEF Started, Busy, Placed, FirePlaces, WatchPlaces
      <4> QED BY <2>10, <3>2, <4>2 DEF FireInv, Common, Regular
    <3> QED BY <3>1, <3>3 DEF TickFit
  <2>11. FiresOncePerPeriod'
    <3>1. SUFFICES ASSUME Regular', NEW f \in fires', NEW g \in fires',
                          f.automation = g.automation, f # g, f.at <= g.at
                   PROVE  g.at - f.at >= Every
      BY DEF FiresOncePerPeriod, Regular
    <3>2. Regular
      BY <1>5, <3>1
    <3>3. CASE f \in fires /\ g \in fires
      BY <3>1, <3>2, <3>3 DEF FireInv, FiresOncePerPeriod, Regular
    <3>4. CASE g = fire
      BY <2>1, <2>7, <3>1, <3>2, <3>4 DEF FiresBy, LongAgo
    <3>5. CASE f = fire
      <4>1. g \in fires /\ now - g.at >= Every /\ g.at \in Int
        BY <1>1, <2>1, <2>7, <3>1, <3>2, <3>5 DEF FiresBy, LongAgo
      <4>2. now <= g.at
        BY <2>1, <3>1, <3>5
      <4> QED BY <1>1, <2>2, <4>1, <4>2
    <3> QED BY <2>1, <3>3, <3>4, <3>5
  <2>12. minutes' \in Nat
    BY <1>1, <1>2
  <2>13. \A p \in Reqs : Firing(p)'
    BY <1>6, <2>6
  <2>14. Regular' => MarksFit' /\ \A p \in Reqs : TickFit(p)'
    BY <1>5, <2>8, <2>9, <2>10
  <2> QED BY <2>4, <2>5, <2>11, <2>12, <2>13, <2>14 DEF FireInv
<1> QED BY <1>8, <1>9

LEMMA HandleFire ==
  ASSUME FireInv, NEW q \in Reqs, Common', Moves(q), Handle(q)
  PROVE  FireInv'
<1> USE DEF AlertPlaces, FirePlaces, ReportPlaces
<1>1. Common
  BY DEF FireInv
<1>2. CASE AutomationRoutes(q)
  BY <1>2, RoutesFire
<1>3. CASE AutomationSteps(q)
  BY <1>3, DueFire, EventFire, ExecuteFire, MarkFire DEF AutomationSteps
<1>4. CASE AlertSteps(q) \/ IngestRoutes(q) \/ Webhook(q) \/ IntegrationRoutes(q)
           \/ CommentSyncRoutes(q)
  <2>1. UNCHANGED <<fires, minutes, automation>>
    <3>1. AlertSteps(q) => UNCHANGED <<fires, minutes, automation>>
      BY DEF AlertSteps, DetectAlerts, RecordAlert, PostAlert
    <3>2. IngestRoutes(q) \/ Webhook(q) => UNCHANGED <<fires, minutes, automation>>
      BY DEF IngestRoutes, Ingest, IngestLogs, OpenIncidentTask, PostIncident, InsertIncident,
             Webhook
    <3>3. IntegrationRoutes(q) => UNCHANGED <<fires, minutes, automation>>
      BY DEF IntegrationRoutes, ImportGitHubIssues, ImportLinearIssues, Import, InsertIssue,
             StartFromPr, InsertPrTask, SeedFiles
    <3>4. CommentSyncRoutes(q) => UNCHANGED <<fires, minutes, automation>>
      BY DEF CommentSyncRoutes, SyncComments, CopyComment
    <3> QED BY <1>4, <3>1, <3>2, <3>3, <3>4
  <2>2. req'[q].at \notin FirePlaces
    <3>1. ASSUME NEW call, NEW rec, Start(q, call, rec), "at" \in DOMAIN rec,
                 "kind" \notin DOMAIN rec, rec.at \notin FirePlaces
          PROVE  req'[q].at \notin FirePlaces
      BY <1>1, <3>1, StartGives DEF Common
    <3>2. AlertSteps(q) => req'[q].at \notin FirePlaces
      <4>1. DetectAlerts(q) => req'[q].at \notin FirePlaces
        BY <3>1 DEF DetectAlerts
      <4> QED BY <1>1, <4>1, AlertRoads DEF AlertSteps, Goes
    <3>3. IngestRoutes(q) \/ Webhook(q) => req'[q].at \notin FirePlaces
      <4>1. ASSUME NEW call, NEW todo, NEW thread,
                   Start(q, call, [at |-> "nextReport", todo |-> todo, thread |-> thread])
            PROVE  req'[q].at \notin FirePlaces
        BY <3>1, <4>1
      <4>2. Ingest(q) => req'[q].at \notin FirePlaces
        BY <4>1 DEF Ingest
      <4>3. IngestLogs(q) => req'[q].at \notin FirePlaces
        BY <4>1 DEF IngestLogs
      <4> QED BY <1>1, <4>2, <4>3, ReportRoads, ShortRoads DEF IngestRoutes, Goes
    <3>4. IntegrationRoutes(q) => req'[q].at \notin FirePlaces
      <4>1. ASSUME NEW source, NEW listed, Import(q, source, listed)
            PROVE  req'[q].at \notin FirePlaces
        BY <3>1, <4>1 DEF Import
      <4>2. StartFromPr(q) => req'[q].at \notin FirePlaces
        BY <3>1 DEF StartFromPr
      <4> QED BY <1>1, <4>1, <4>2, ImportRoads
              DEF IntegrationRoutes, ImportGitHubIssues, ImportLinearIssues, Goes
    <3>5. CommentSyncRoutes(q) => req'[q].at \notin FirePlaces
      <4>1. SyncComments(q) => req'[q].at \notin FirePlaces
        BY <3>1 DEF SyncComments
      <4> QED BY <1>1, <4>1, ImportRoads DEF CommentSyncRoutes, Goes
    <3> QED BY <1>4, <3>2, <3>3, <3>4, <3>5
  <2> QED BY <2>1, <2>2, FireAside
<1>5. CASE GrowthHandler(q) /\ UNCHANGED watchVars
  <2>1. req'[q].at \notin FirePlaces
    BY <1>1, <1>5, GrowthGoesAside DEF WatchPlaces
  <2> QED BY <1>5, <2>1, FireAside DEF watchVars
<1> QED BY <1>2, <1>3, <1>4, <1>5 DEF Handle, WatchHandler

\* A schedule that fired is not due again before its time (Watch.tla), for any period,
\* any number of automations and of ticks, unless ticks overlap or die.
THEOREM FiresOncePerPeriodHolds == Spec => []FiresOncePerPeriod
<1>1. Init => FireInv
  <2> SUFFICES ASSUME Init PROVE FireInv
    OBVIOUS
  <2>1. Common /\ \A q \in Reqs : req[q].at = "new"
    BY InitCommon DEF Init, Planned
  <2>2. \A q \in Reqs : Firing(q) /\ TickFit(q)
    BY <2>1 DEF Firing, TickFit, FirePlaces
  <2>3. automation = <<>> /\ fires = {} /\ minutes = 0
    BY DEF Init, WatchInit
  <2>4. RowsFit /\ MarksFit /\ FiresOncePerPeriod
    BY <2>3 DEF RowsFit, MarksFit, FiresOncePerPeriod
  <2> QED BY <2>1, <2>2, <2>3, <2>4 DEF FireInv
<1>2. FireInv /\ [Next]_vars => FireInv'
  <2> SUFFICES ASSUME FireInv, [Next]_vars PROVE FireInv'
    OBVIOUS
  <2>1. Common' /\ DOMAIN req = Reqs
    BY NextCommon DEF FireInv, Common
  <2>2. CASE UNCHANGED <<req, together, automation, fires>> /\ minutes' \in {minutes, minutes + 1}
    <3>1. minutes \in Nat /\ minutes' \in Nat /\ 0..minutes \subseteq 0..minutes'
      BY <2>2 DEF FireInv
    <3>2. Old' = Old /\ Regular' = Regular /\ FiresOncePerPeriod' = FiresOncePerPeriod
      BY <2>2 DEF Old, Regular, FiresOncePerPeriod
    <3>3. \A q \in Reqs : Firing(q)'
      BY <2>2, <3>1, <3>2 DEF FireInv, Firing, Has
    <3>4. Regular' => MarksFit' /\ \A q \in Reqs : TickFit(q)'
      BY <2>2, <3>2 DEF FireInv, MarksFit, TickFit, FiresBy, LongAgo, At
    <3>5. RowsFit' /\ \A f \in fires' : f.automation \in Old' /\ f.at \in 0..minutes'
      BY <2>2, <3>1, <3>2 DEF FireInv, RowsFit
    <3> QED BY <2>1, <3>1, <3>2, <3>3, <3>4, <3>5 DEF FireInv
  <2>3. ASSUME NEW q \in Reqs, Handle(q) PROVE FireInv'
    BY <2>1, <2>3, HandleMoves, HandleFire DEF FireInv
  <2>4. CASE Throw \/ Restart
    <3>1. /\ DOMAIN req' = Reqs /\ UNCHANGED <<together, automation, fires, minutes>>
          /\ \A q \in Reqs : req'[q] = req[q] \/ (Busy(q) /\ req'[q].at = "dead")
      BY <2>1, <2>4, DeathGives DEF FireInv, Common, watchVars
    <3>2. Old \subseteq Old' /\ (Regular' => Regular /\ \A q \in Reqs : req'[q] = req[q])
      BY <3>1 DEF Old, Regular, Busy
    <3>3. ASSUME NEW q \in Reqs PROVE Firing(q)'
      <4>1. Firing(q)
        BY DEF FireInv
      <4> QED BY <3>1, <3>2, <4>1 DEF Firing, Has, FirePlaces
    <3>4. ASSUME Regular' PROVE MarksFit' /\ \A q \in Reqs : TickFit(q)'
      BY <3>1, <3>2, <3>4 DEF FireInv, MarksFit, TickFit, FiresBy, LongAgo, At
    <3>5. RowsFit' /\ \A f \in fires' : f.automation \in Old' /\ f.at \in 0..minutes'
      BY <3>1, <3>2 DEF FireInv, RowsFit
    <3>6. FiresOncePerPeriod' /\ minutes' \in Nat
      BY <3>1, <3>2 DEF FireInv, FiresOncePerPeriod, Regular
    <3> QED BY <2>1, <3>3, <3>4, <3>5, <3>6 DEF FireInv
  <2>5. Time \/ UNCHANGED vars =>
          UNCHANGED <<req, together, automation, fires>> /\ minutes' \in {minutes, minutes + 1}
    BY DEF Time, MinutePasses, RunMoves, vars, watchVars
  <2> QED BY <2>2, <2>3, <2>4, <2>5 DEF Next
<1>3. FireInv => FiresOncePerPeriod
  BY DEF FireInv
<1> QED BY <1>1, <1>2, <1>3, PTL DEF Spec

-----------------------------------------------------------------------------
(* Imports. *)

SeedPlaces == {"insertIssue", "prTask", "seed", "copy"}
TaskKept == \A id \in DOMAIN task : id \in DOMAIN task' /\ task'[id] = task[id]

\* No other task is the one of the pull request.
LEMMA PrTaskApart ==
  /\ \A key : IncidentTask(key) # PrTask
  /\ \A q, a : AutoTask(q, a) # PrTask
  /\ \A source, n : source # "from-pr" => <<source, n>> # PrTask
  BY DEF IncidentTask, AutoTask, PrTask

\* What is new in a thread is the task's, and the task is there once.
LEMMA SeedAct ==
  ASSUME SeedInv, NEW q \in Reqs, Common', Moves(q), TaskKept, Seeding(q)', post \subseteq post',
         "fromPr" \notin together /\ PrTask \in DOMAIN task' \ DOMAIN task =>
           \A p \in Reqs \ {q} : ~At(p, "prTask"),
         "fromPr" \notin together' =>
           /\ Landing(q)'
           /\ \A m \in post' \ post : m.id[1] = "from-pr" => InTaskThread(m.thread)'
  PROVE  SeedInv'
<1>1. ASSUME NEW p \in Reqs \ {q} PROVE Seeding(p)'
  <2>1. req'[p] = req[p] /\ Seeding(p)
    BY DEF Moves, Others, SeedInv
  <2> QED BY <2>1 DEF Seeding, Has, At
<1>2. ASSUME "fromPr" \notin together'
      PROVE  Seeded' /\ \A p \in Reqs : Landing(p)'
  <2>1. "fromPr" \notin together /\ Seeded
    BY <1>2 DEF Moves, SeedInv
  <2>2. Seeded'
    BY <1>2, <2>1 DEF Seeded, InTaskThread, TaskKept
  <2>3. ASSUME NEW p \in Reqs \ {q} PROVE Landing(p)'
    <3>1. req'[p] = req[p] /\ Landing(p)
      BY <2>1 DEF Moves, Others, SeedInv
    <3> QED BY <2>1, <3>1 DEF Landing, InTaskThread, TaskKept, At
  <2> QED BY <1>2, <2>2, <2>3
<1> QED BY <1>1, <1>2 DEF SeedInv

\* A request elsewhere: a task of another kind at most, a message of no import.
LEMMA SeedAside ==
  ASSUME SeedInv, NEW q \in Reqs, Common', Moves(q), req'[q].at \notin SeedPlaces,
         UNCHANGED task \/ \E id, thread : InsertTask(id, thread) /\ id # PrTask,
         UNCHANGED post \/ \E thread, about : Say(thread, about)
  PROVE  SeedInv'
<1>1. Seeding(q)' /\ Landing(q)'
  BY DEF Seeding, Landing, At, SeedPlaces
<1>2. TaskKept /\ PrTask \notin DOMAIN task' \ DOMAIN task
  BY TaskInserted DEF TaskKept
<1>3. post \subseteq post' /\ \A m \in post' \ post : m.id[1] = "random"
  BY SayGives
<1> QED BY <1>1, <1>2, <1>3, SeedAct

LEMMA ImportSeed ==
  ASSUME SeedInv, NEW q \in Reqs, Common', Moves(q),
         ImportGitHubIssues(q) \/ ImportLinearIssues(q) \/ InsertIssue(q)
  PROVE  SeedInv'
<1> USE DEF SeedPlaces
<1>1. DOMAIN req = Reqs /\ "at" \in DOMAIN req[q] /\ Seeding(q)
  BY DEF SeedInv, Common, Placed, Has
<1>2. UNCHANGED post
  BY DEF ImportGitHubIssues, ImportLinearIssues, Import, InsertIssue
<1>3. ASSUME TaskKept, PrTask \notin DOMAIN task' \ DOMAIN task, req'[q].at = "insertIssue",
             Has(q, {"source"})', req'[q].source # "from-pr"
      PROVE  SeedInv'
  <2>1. Seeding(q)' /\ Landing(q)'
    BY <1>3 DEF Seeding, Landing, At
  <2> QED BY <1>2, <1>3, <2>1, SeedAct
<1>4. ASSUME NEW source \in {"gh", "linear"}, NEW listed, Import(q, source, listed) PROVE SeedInv'
  <2>1. /\ Start(q, "import", [at |-> "insertIssue", source |-> source, todo |-> listed])
        /\ UNCHANGED task
    BY <1>4 DEF Import
  <2>2. /\ DOMAIN req'[q] = {"at", "source", "todo", "kind"} /\ req'[q].at = "insertIssue"
        /\ req'[q].source = source
    BY <1>1, <2>1, StartGives
  <2> QED BY <1>3, <2>1, <2>2 DEF Has, TaskKept
<1>5. CASE InsertIssue(q)
  <2>1. At(q, "insertIssue")
    BY <1>5 DEF InsertIssue
  <2>2. CASE Return(q) /\ UNCHANGED task
    BY <1>1, <1>2, <2>2, ReturnGives, SeedAside
  <2>3. ASSUME NEW n, GotoWith(q, "insertIssue", [todo |-> req[q].todo \ {n}]),
               InsertTask(<<req[q].source, n>>, 1)
        PROVE  SeedInv'
    <3>1. Has(q, {"source"}) /\ req[q].source # "from-pr"
      BY <1>1, <2>1 DEF Seeding
    <3>2. /\ DOMAIN req'[q] = DOMAIN req[q] \cup {"todo"} /\ req'[q].at = "insertIssue"
          /\ \A f \in DOMAIN req[q] \ {"todo", "at"} : req'[q][f] = req[q][f]
      BY <1>1, <2>3, GotoWithGives
    <3>3. Has(q, {"source"})' /\ req'[q].source # "from-pr"
      BY <3>1, <3>2 DEF Has
    <3>4. TaskKept /\ PrTask \notin DOMAIN task' \ DOMAIN task
      <4>1. PrTask # <<req[q].source, n>>
        BY <3>1 DEF PrTask
      <4> HIDE DEF PrTask
      <4> QED BY <2>3, <4>1, TaskInserted DEF TaskKept
    <3> QED BY <1>3, <3>2, <3>3, <3>4
  <2> QED BY <1>5, <2>2, <2>3 DEF InsertIssue
<1>6. CASE ImportGitHubIssues(q) \/ ImportLinearIssues(q)
  BY <1>4, <1>6 DEF ImportGitHubIssues, ImportLinearIssues
<1> QED BY <1>5, <1>6

\* The thread of the task there is, or a new one while there is none.
LEMMA StartSeed ==
  ASSUME SeedInv, NEW q \in Reqs, Common', Moves(q), StartFromPr(q)
  PROVE  SeedInv'
<1>1. DOMAIN req = Reqs
  BY DEF SeedInv, Common
<1>2. \E place \in {"seed", "prTask"} : \E thread :
        /\ Start(q, "fromPr", [at |-> place, thread |-> thread])
        /\ place = "seed" => InTaskThread(thread)
        /\ place = "prTask" => PrTask \notin DOMAIN task
  <2>1. CASE PrTask \in DOMAIN task
    BY <2>1 DEF StartFromPr, InTaskThread
  <2>2. CASE PrTask \notin DOMAIN task
    BY <2>2 DEF StartFromPr
  <2> QED BY <2>1, <2>2
<1>3. PICK place \in {"seed", "prTask"} : \E thread :
        /\ Start(q, "fromPr", [at |-> place, thread |-> thread])
        /\ place = "seed" => InTaskThread(thread)
        /\ place = "prTask" => PrTask \notin DOMAIN task
  BY <1>2
<1>4. PICK thread :
        /\ Start(q, "fromPr", [at |-> place, thread |-> thread])
        /\ place = "seed" => InTaskThread(thread)
        /\ place = "prTask" => PrTask \notin DOMAIN task
  BY <1>3
<1>5. /\ DOMAIN req'[q] = {"at", "thread", "kind"} /\ req'[q].at = place
      /\ req'[q].thread = thread
  BY <1>1, <1>4, StartGives
<1>6. UNCHANGED <<task, post>>
  BY DEF StartFromPr
<1>7. Seeding(q)' /\ Landing(q)'
  BY <1>4, <1>5, <1>6 DEF Seeding, Landing, InTaskThread, Has, At
<1> QED BY <1>6, <1>7, SeedAct DEF TaskKept

\* The task is inserted by the one import there is.
LEMMA InsertSeed ==
  ASSUME SeedInv, NEW q \in Reqs, Common', Moves(q), InsertPrTask(q)
  PROVE  SeedInv'
<1>1. /\ DOMAIN req = Reqs /\ "at" \in DOMAIN req[q] /\ Seeding(q) /\ Placed(q)
      /\ "fromPr" \notin together' => Landing(q) /\ "fromPr" \notin together
  BY DEF SeedInv, Common, Placed, Has, Moves
<1>2. /\ At(q, "prTask") /\ Goto(q, "seed") /\ InsertTask(PrTask, req[q].thread) /\ UNCHANGED post
  BY DEF InsertPrTask
<1>3. /\ DOMAIN req'[q] = DOMAIN req[q] /\ req'[q].at = "seed"
      /\ \A f \in DOMAIN req[q] \ {"at"} : req'[q][f] = req[q][f]
  BY <1>1, <1>2, GotoGives
<1>4. Has(q, {"thread"}) /\ req'[q].thread = req[q].thread
  BY <1>1, <1>2, <1>3 DEF Seeding, Has, At
<1>5. TaskKept /\ PrTask \in DOMAIN task' /\ (PrTask \notin DOMAIN task => task'[PrTask] = req[q].thread)
  BY <1>2, TaskInserted DEF TaskKept
<1>6. Seeding(q)' /\ ("fromPr" \notin together' => Landing(q)')
  BY <1>1, <1>2, <1>3, <1>4, <1>5 DEF Seeding, Landing, InTaskThread, Has, At
<1>7. ASSUME "fromPr" \notin together, NEW p \in Reqs \ {q}, At(p, "prTask") PROVE FALSE
  <2>1. Started(q, "fromPr")
    BY <1>1, <1>2 DEF Started, Busy, Placed, At, WatchPlaces
  <2>2. Started(p, "fromPr")
    BY <1>7 DEF SeedInv, Common, Started, Busy, Placed, At, WatchPlaces
  <2> QED BY <1>7, <2>1, <2>2 DEF SeedInv, Common
<1> QED BY <1>2, <1>5, <1>6, <1>7, SeedAct

\* What is said comes from the import and goes to the task's thread, or it is a comment
\* that was synced.
LEMMA SaySeed ==
  ASSUME SeedInv, NEW q \in Reqs, Common', Moves(q), UNCHANGED task, NEW id, NEW thread,
         SayOnce(id, thread), Seeding(q)',
         "fromPr" \notin together => Landing(q)' /\ (id[1] = "from-pr" => InTaskThread(thread))
  PROVE  SeedInv'
<1> DEFINE m == [id |-> id, thread |-> thread, about |-> id]
<1>1. (post' = post \/ post' = post \cup {m}) /\ m.id = id /\ m.thread = thread
  BY DEF SayOnce
<1> HIDE DEF m
<1>2. "fromPr" \notin together' => "fromPr" \notin together
  BY DEF Moves
<1>3. \A r \in post' \ post : r.id = id /\ r.thread = thread
  BY <1>1
<1>4. InTaskThread(thread) => \A r \in post' \ post : InTaskThread(r.thread)'
  BY <1>3 DEF InTaskThread
<1>5. post \subseteq post' /\ TaskKept
  BY <1>1 DEF TaskKept
<1> QED BY <1>2, <1>3, <1>4, <1>5, SeedAct

LEMMA CopySeed ==
  ASSUME SeedInv, NEW q \in Reqs, Common', Moves(q), SeedFiles(q) \/ CommentSyncRoutes(q)
  PROVE  SeedInv'
<1> USE DEF SeedPlaces
<1>1. /\ DOMAIN req = Reqs /\ "at" \in DOMAIN req[q] /\ Seeding(q) /\ Placed(q)
      /\ "fromPr" \notin together => Landing(q)
  BY DEF SeedInv, Common, Placed, Has
<1>2. CASE SeedFiles(q)
  <2>1. /\ At(q, "seed") /\ SayOnce(<<"from-pr", "files">>, req[q].thread) /\ UNCHANGED task
    BY <1>2 DEF SeedFiles
  <2>2. PICK listed \in SUBSET Comments :
          GotoWith(q, "copy", [todo |-> {<<"from-pr", c>> : c \in listed}])
    BY <1>2 DEF SeedFiles
  <2> DEFINE todo == {<<"from-pr", c>> : c \in listed}
  <2>3. todo \subseteq {"from-pr"} \X Comments
    OBVIOUS
  <2>4. GotoWith(q, "copy", [todo |-> todo])
    BY <2>2
  <2> HIDE DEF todo
  <2>5. /\ DOMAIN req'[q] = DOMAIN req[q] \cup {"todo"} /\ req'[q].at = "copy"
        /\ req'[q].todo = todo
        /\ \A f \in DOMAIN req[q] \ {"todo", "at"} : req'[q][f] = req[q][f]
    BY <1>1, <2>4, GotoWithGives
  <2>6. Has(q, {"thread", "kind"}) /\ req[q].kind = "fromPr"
    BY <1>1, <2>1 DEF Seeding, Placed, Has, At, WatchPlaces
  <2>7. Has(q, {"thread"})' /\ req'[q].thread = req[q].thread /\ req'[q].kind = "fromPr"
    BY <2>5, <2>6 DEF Has
  <2>8. Seeding(q)'
    BY <2>3, <2>5, <2>7 DEF Seeding, Has, At
  <2>9. "fromPr" \notin together => InTaskThread(req[q].thread)
    BY <1>1, <2>1 DEF Landing
  <2>10. "fromPr" \notin together => Landing(q)'
    BY <2>1, <2>5, <2>7, <2>9 DEF Landing, InTaskThread, At
  <2> QED BY <2>1, <2>8, <2>9, <2>10, SaySeed
<1>3. CASE SyncComments(q)
  <2>1. PICK listed \in SUBSET Comments :
          Start(q, "sync", [at |-> "copy", thread |-> 1,
            todo |-> {id \in {<<"rc", c>> : c \in listed} : \A p \in post : p.id # id}])
    BY <1>3 DEF SyncComments
  <2> DEFINE todo == {id \in {<<"rc", c>> : c \in listed} : \A p \in post : p.id # id}
  <2>2. todo \subseteq {"rc"} \X Comments
    OBVIOUS
  <2>3. Start(q, "sync", [at |-> "copy", thread |-> 1, todo |-> todo])
    BY <2>1
  <2> HIDE DEF todo
  <2>4. /\ DOMAIN req'[q] = {"at", "todo", "thread", "kind"} /\ req'[q].at = "copy"
        /\ req'[q].todo = todo /\ req'[q].kind = "sync"
    BY <1>1, <2>3, StartGives
  <2>5. Seeding(q)' /\ Landing(q)'
    BY <2>2, <2>4 DEF Seeding, Landing, Has, At
  <2>6. UNCHANGED <<task, post>>
    BY <1>3 DEF SyncComments
  <2> QED BY <2>5, <2>6, SeedAct DEF TaskKept
<1>4. CASE CopyComment(q)
  <2>1. At(q, "copy") /\ UNCHANGED task
    BY <1>4 DEF CopyComment
  <2>2. CASE Return(q) /\ UNCHANGED post
    BY <1>1, <2>1, <2>2, ReturnGives, SeedAside
  <2>3. ASSUME NEW id \in req[q].todo, GotoWith(q, "copy", [todo |-> req[q].todo \ {id}]),
               SayOnce(id, req[q].thread)
        PROVE  SeedInv'
    <3>1. /\ DOMAIN req'[q] = DOMAIN req[q] \cup {"todo"} /\ req'[q].at = "copy"
          /\ req'[q].todo = req[q].todo \ {id}
          /\ \A f \in DOMAIN req[q] \ {"todo", "at"} : req'[q][f] = req[q][f]
      BY <1>1, <2>3, GotoWithGives
    <3>2. /\ Has(q, {"thread", "todo", "kind"}) /\ req[q].kind \in {"fromPr", "sync"}
          /\ req[q].kind = "sync" => req[q].todo \subseteq {"rc"} \X Comments
          /\ req[q].kind = "fromPr" => req[q].todo \subseteq {"from-pr"} \X Comments
      BY <1>1, <2>1 DEF Seeding, Placed, Has, At, WatchPlaces
    <3>3. /\ Has(q, {"thread", "todo"})' /\ req'[q].thread = req[q].thread
          /\ req'[q].kind = req[q].kind
      BY <3>1, <3>2 DEF Has
    <3>4. Seeding(q)'
      BY <3>1, <3>2, <3>3 DEF Seeding, Has, At
    <3>5. "fromPr" \notin together /\ req[q].kind = "fromPr" => InTaskThread(req[q].thread)
      BY <1>1, <2>1 DEF Landing
    <3>6. "fromPr" \notin together => Landing(q)'
      BY <2>1, <3>1, <3>3, <3>5 DEF Landing, InTaskThread, At
    <3>7. id[1] = "from-pr" => req[q].kind = "fromPr"
      BY <2>3, <3>2
    <3> QED BY <2>1, <2>3, <3>4, <3>5, <3>6, <3>7, SaySeed
  <2> QED BY <1>4, <2>2, <2>3 DEF CopyComment
<1> QED BY <1>2, <1>3, <1>4 DEF CommentSyncRoutes

LEMMA RestSeed ==
  ASSUME SeedInv, NEW q \in Reqs, Common', Moves(q),
         \/ AutomationRoutes(q) \/ AlertSteps(q) \/ AutomationSteps(q) \/ IngestRoutes(q)
         \/ Webhook(q)
  PROVE  SeedInv'
<1>1. Common
  BY DEF SeedInv
<1>2. ASSUME NEW call, NEW rec, Start(q, call, rec), "at" \in DOMAIN rec,
             "kind" \notin DOMAIN rec, rec.at \notin SeedPlaces
      PROVE  req'[q].at \notin SeedPlaces
  BY <1>1, <1>2, StartGives DEF Common
<1> USE DEF SeedPlaces
<1>3. CASE AutomationRoutes(q) \/ Webhook(q)
  <2>1. req'[q].at = "done"
    BY <1>1, <1>3, ShortRoads DEF Goes
  <2>2. UNCHANGED post /\ (UNCHANGED task \/ \E n : InsertTask(<<"gh", n>>, 1))
    BY <1>3 DEF AutomationRoutes, CreateAutomation, SetEnabled, DeleteAutomation, Webhook
  <2> QED BY <2>1, <2>2, PrTaskApart, SeedAside
<1>4. CASE AlertSteps(q)
  <2>1. req'[q].at \notin SeedPlaces
    <3>1. DetectAlerts(q) => req'[q].at \notin SeedPlaces
      BY <1>2 DEF DetectAlerts
    <3> QED BY <1>1, <1>4, <3>1, AlertRoads DEF AlertSteps, Goes
  <2>2. UNCHANGED task /\ (UNCHANGED post \/ \E about : Say(1, about))
    BY <1>4 DEF AlertSteps, DetectAlerts, RecordAlert, PostAlert
  <2> QED BY <2>1, <2>2, SeedAside
<1>5. CASE AutomationSteps(q)
  <2>1. req'[q].at \notin SeedPlaces
    <3>1. FireEventAutomations(q) => req'[q].at \notin SeedPlaces
      BY <1>2 DEF FireEventAutomations
    <3> QED BY <1>1, <1>5, <3>1, FireRoads DEF AutomationSteps, Goes
  <2>2. UNCHANGED task \/ \E a : InsertTask(AutoTask(q, a), 1)
    BY <1>5 DEF AutomationSteps, RunDueScheduleAutomations, FireEventAutomations, ExecuteAction,
                InsertAutoRun, StartAutoRun, MarkFired, watchVars
  <2>3. UNCHANGED post \/ \E about : Say(1, about)
    BY <1>5 DEF AutomationSteps, RunDueScheduleAutomations, FireEventAutomations, ExecuteAction,
                InsertAutoRun, StartAutoRun, MarkFired, watchVars
  <2> QED BY <2>1, <2>2, <2>3, PrTaskApart, SeedAside
<1>6. CASE IngestRoutes(q)
  <2>1. req'[q].at \notin SeedPlaces
    <3>1. ASSUME NEW call, NEW todo, NEW thread,
                 Start(q, call, [at |-> "nextReport", todo |-> todo, thread |-> thread])
          PROVE  req'[q].at \notin SeedPlaces
      BY <1>2, <3>1
    <3>2. Ingest(q) => req'[q].at \notin SeedPlaces
      BY <3>1 DEF Ingest
    <3>3. IngestLogs(q) => req'[q].at \notin SeedPlaces
      BY <3>1 DEF IngestLogs
    <3> QED BY <1>1, <1>6, <3>2, <3>3, ReportRoads DEF IngestRoutes, Goes
  <2>2. UNCHANGED task \/ \E key, thread : InsertTask(IncidentTask(key), thread)
    BY <1>6 DEF IngestRoutes, Ingest, IngestLogs, OpenIncidentTask, PostIncident, InsertIncident
  <2>3. UNCHANGED post \/ \E thread, about : Say(thread, about)
    BY <1>6 DEF IngestRoutes, Ingest, IngestLogs, OpenIncidentTask, PostIncident, InsertIncident
  <2> QED BY <2>1, <2>2, <2>3, PrTaskApart, SeedAside
<1> QED BY <1>3, <1>4, <1>5, <1>6

LEMMA HandleSeed ==
  ASSUME SeedInv, NEW q \in Reqs, Common', Moves(q), Handle(q)
  PROVE  SeedInv'
<1>1. CASE WatchHandler(q)
  BY <1>1, RestSeed, ImportSeed, StartSeed, InsertSeed, CopySeed
     DEF WatchHandler, IntegrationRoutes
<1>2. CASE GrowthHandler(q) /\ UNCHANGED watchVars
  <2>1. req'[q].at \notin WatchPlaces
    BY <1>2, GrowthGoesAside DEF SeedInv
  <2> QED BY <1>2, <2>1, SeedAside DEF watchVars, WatchPlaces, SeedPlaces
<1> QED BY <1>1, <1>2 DEF Handle

\* What is known of a pull request is in the thread of its task (Watch.tla), for any
\* comments, requests and deaths, unless two imports of it overlap.
THEOREM SeedLandsWithTaskHolds == Spec => []SeedLandsWithTask
<1>1. Init => SeedInv
  <2> SUFFICES ASSUME Init PROVE SeedInv
    OBVIOUS
  <2>1. Common /\ \A q \in Reqs : req[q].at = "new"
    BY InitCommon DEF Init, Planned
  <2>2. \A q \in Reqs : Seeding(q) /\ Landing(q)
    BY <2>1 DEF Seeding, Landing, At
  <2>3. Seeded
    BY DEF Init, WatchInit, Seeded
  <2> QED BY <2>1, <2>2, <2>3 DEF SeedInv
<1>2. SeedInv /\ [Next]_vars => SeedInv'
  <2> SUFFICES ASSUME SeedInv, [Next]_vars PROVE SeedInv'
    OBVIOUS
  <2>1. Common'
    BY NextCommon DEF SeedInv
  <2>2. CASE UNCHANGED <<req, together, task, post>>
    <3>1. \A q \in Reqs : Seeding(q)'
      BY <2>2 DEF SeedInv, Seeding, Has, At
    <3>2. "fromPr" \notin together' => Seeded' /\ \A q \in Reqs : Landing(q)'
      BY <2>2 DEF SeedInv, Seeded, Landing, InTaskThread, At
    <3> QED BY <2>1, <3>1, <3>2 DEF SeedInv
  <2>3. ASSUME NEW q \in Reqs, Handle(q) PROVE SeedInv'
    BY <2>1, <2>3, HandleMoves, HandleSeed DEF SeedInv
  <2>4. CASE Throw \/ Restart
    <3>1. /\ UNCHANGED <<together, task, post>>
          /\ \A q \in Reqs : req'[q] = req[q] \/ req'[q].at = "dead"
      BY <2>4, DeathGives DEF SeedInv, Common, watchVars
    <3>2. ASSUME NEW q \in Reqs PROVE Seeding(q)'
      BY <3>1 DEF SeedInv, Seeding, Has, At
    <3>3. ASSUME "fromPr" \notin together' PROVE Seeded' /\ \A q \in Reqs : Landing(q)'
      <4>1. Seeded'
        BY <3>1, <3>3 DEF SeedInv, Seeded, InTaskThread
      <4>2. ASSUME NEW q \in Reqs PROVE Landing(q)'
        BY <3>1, <3>3 DEF SeedInv, Landing, InTaskThread, At
      <4> QED BY <4>1, <4>2
    <3> QED BY <2>1, <3>2, <3>3 DEF SeedInv
  <2>5. Time \/ UNCHANGED vars => UNCHANGED <<req, together, task, post>>
    BY DEF Time, MinutePasses, RunMoves, vars, watchVars
  <2> QED BY <2>2, <2>3, <2>4, <2>5 DEF Next
<1>3. SeedInv => SeedLandsWithTask
  BY DEF SeedInv, SeedLandsWithTask, Seeded, InTaskThread
<1> QED BY <1>1, <1>2, <1>3, PTL DEF Spec

=============================================================================
