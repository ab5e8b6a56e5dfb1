---------------------------- MODULE ServerProofs ----------------------------
(***************************************************************************)
(* Theorems about the server's routes, for any requests, members, peers,   *)
(* terms, amounts and bounds.  There is one inductive invariant for each   *)
(* part of the server: what its rows are, and what a request of it holds   *)
(* at the places where it waits.  A request of another part waits at other *)
(* places and changes none of its rows, so it keeps the invariant; that is *)
(* shown once for each part (the lemmas called Aside).                     *)
(***************************************************************************)
EXTENDS Server, FiniteSetTheorems, TLAPS

Has(q, fields) == fields \subseteq DOMAIN req[q]

AccessPlaces ==
  {"authed", "mfa", "code", "enter", "verify", "use", "sso", "join", "enable",
   "writeInvite", "joinInvite", "closeInvite", "subscribe"}
RoomsPlaces == {"insertThread", "insertDm", "write", "mark", "insertMessage", "markRead"}
RosterPlaces ==
  {"insertAgent", "chooseHandle", "insertAssistant", "writeConfig", "insertSkill",
   "nextVersion", "upsertCount", "insertRepo", "readTitles", "insertGoal"}
MemoryPlaces ==
  {"link", "retire", "replace", "relate", "cluster", "insertDream", "members"}
VenturePlaces ==
  {"offer", "goal", "drive", "spawned", "books", "apply", "retireOffers", "decided",
   "decline", "deliver", "visitors", "sent", "verifyTask", "sentRecord", "opened",
   "resolve", "resolved"}

Places == AccessPlaces \cup RoomsPlaces \cup RosterPlaces \cup MemoryPlaces \cup VenturePlaces

\* Every request is at a place of some call.
Common ==
  /\ DOMAIN req = Reqs
  /\ \A q \in Reqs : Has(q, {"at"}) /\ req[q].at \in {"new", "done", "dead"} \cup Places

\* The other requests are left alone.
Others(q) == DOMAIN req' = Reqs /\ \A p \in Reqs \ {q} : req'[p] = req[p]

\* q starts, goes on or ends in the part of the server that has these places.
Moves(q, places) ==
  /\ Others(q) /\ Has(q, {"at"})'
  /\ req[q].at \in {"new"} \cup places /\ req'[q].at \in {"done"} \cup places

-----------------------------------------------------------------------------
(* What the helpers of Requests do to the record of a request. *)

LEMMA EnterGives ==
  ASSUME NEW q \in Reqs, DOMAIN req = Reqs, NEW call, NEW rec, Enter(q, call, rec)
  PROVE  At(q, "new") /\ Others(q) /\ req'[q] = rec
  BY DEF Enter, Called, Others

LEMMA ReturnGives ==
  ASSUME NEW q \in Reqs, DOMAIN req = Reqs, Return(q)
  PROVE  Others(q) /\ req'[q] = [at |-> "done"]
  BY DEF Return, Others

LEMMA GotoGives ==
  ASSUME NEW q \in Reqs, DOMAIN req = Reqs, "at" \in DOMAIN req[q], NEW place, Goto(q, place)
  PROVE  /\ Others(q) /\ DOMAIN req'[q] = DOMAIN req[q] /\ req'[q].at = place
         /\ \A f \in DOMAIN req[q] \ {"at"} : req'[q][f] = req[q][f]
  BY DEF Goto, Others

LEMMA GotoWithGives ==
  ASSUME NEW q \in Reqs, DOMAIN req = Reqs, "at" \in DOMAIN req[q],
         NEW place, NEW rec, "at" \notin DOMAIN rec, GotoWith(q, place, rec)
  PROVE  /\ Others(q) /\ DOMAIN req'[q] = DOMAIN req[q] \cup DOMAIN rec /\ req'[q].at = place
         /\ \A f \in DOMAIN rec : req'[q][f] = rec[f]
         /\ \A f \in DOMAIN req[q] \ (DOMAIN rec \cup {"at"}) : req'[q][f] = req[q][f]
  BY DEF GotoWith, Extended, Others

LEMMA BeginGives ==
  ASSUME NEW q \in Reqs, DOMAIN req = Reqs, NEW call, NEW rec, "at" \in DOMAIN rec,
         "kind" \notin DOMAIN rec, Begin(q, call, rec)
  PROVE  /\ At(q, "new") /\ Others(q) /\ DOMAIN req'[q] = DOMAIN rec \cup {"kind"}
         /\ req'[q].kind = call /\ \A f \in DOMAIN rec : req'[q][f] = rec[f]
         /\ overlapped \subseteq overlapped'
<1> DEFINE h == Put(rec, "kind", call)
<1>1. Enter(q, call, h) /\ overlapped \subseteq overlapped'
  BY DEF Begin
<1>2. /\ DOMAIN h = DOMAIN rec \cup {"kind"} /\ h.kind = call
      /\ \A f \in DOMAIN rec : h[f] = rec[f]
  BY DEF Put
<1> HIDE DEF h
<1> QED BY <1>1, <1>2, EnterGives

LEMMA EnterMoves ==
  ASSUME Common, NEW q \in Reqs, NEW call, NEW rec, Enter(q, call, rec), "at" \in DOMAIN rec,
         NEW places, rec.at \in places
  PROVE  Moves(q, places)
  BY EnterGives DEF Common, Moves, Has, At

LEMMA ReturnMoves ==
  ASSUME Common, NEW q \in Reqs, Return(q), NEW places, req[q].at \in {"new"} \cup places
  PROVE  Moves(q, places)
  BY ReturnGives DEF Common, Moves, Has

LEMMA GotoMoves ==
  ASSUME Common, NEW q \in Reqs, NEW place, Goto(q, place), NEW places,
         req[q].at \in places, place \in places
  PROVE  Moves(q, places)
<1>1. DOMAIN req = Reqs /\ "at" \in DOMAIN req[q]
  BY DEF Common, Has
<1> QED BY <1>1, GotoGives DEF Moves, Has

LEMMA GotoWithMoves ==
  ASSUME Common, NEW q \in Reqs, NEW place, NEW rec, "at" \notin DOMAIN rec,
         GotoWith(q, place, rec), NEW places, req[q].at \in {"new"} \cup places,
         place \in places
  PROVE  Moves(q, places)
<1>1. DOMAIN req = Reqs /\ "at" \in DOMAIN req[q]
  BY DEF Common, Has
<1> QED BY <1>1, GotoWithGives DEF Moves, Has

LEMMA BeginMoves ==
  ASSUME Common, NEW q \in Reqs, NEW call, NEW rec, Begin(q, call, rec),
         "at" \in DOMAIN rec, "kind" \notin DOMAIN rec, NEW places, rec.at \in places
  PROVE  Moves(q, places)
<1>1. DOMAIN req = Reqs
  BY DEF Common
<1>2. /\ At(q, "new") /\ Others(q) /\ DOMAIN req'[q] = DOMAIN rec \cup {"kind"}
      /\ req'[q].at = rec.at
  BY <1>1, BeginGives
<1> QED BY <1>2 DEF Moves, Has, At

-----------------------------------------------------------------------------
(* Every handler moves its own request, within the places of its part. *)

LEMMA RoomsMoves ==
  ASSUME Common, NEW q \in Reqs, RoomsHandler(q)
  PROVE  Moves(q, RoomsPlaces)
<1> USE DEF RoomsPlaces, Called, At
<1>1. CASE NavRoutes(q)
  <2>1. CreateChannel(q) \/ SetChannelArchived(q) \/ InsertThread(q) => Moves(q, RoomsPlaces)
    BY ReturnMoves DEF CreateChannel, SetChannelArchived, InsertThread
  <2>2. CreateThread(q) => Moves(q, RoomsPlaces)
    BY EnterMoves DEF CreateThread
  <2> QED BY <1>1, <2>1, <2>2 DEF NavRoutes
<1>2. CASE DmRoutes(q)
  <2>1. GetDm(q) => Moves(q, RoomsPlaces)
    BY ReturnMoves, EnterMoves DEF GetDm
  <2>2. InsertDm(q) => Moves(q, RoomsPlaces)
    BY ReturnMoves DEF InsertDm
  <2> QED BY <1>2, <2>1, <2>2 DEF DmRoutes
<1>3. CASE NotesRoutes(q)
  BY <1>3, ReturnMoves DEF NotesRoutes, CreateNote, UpdateNote, DeleteNote
<1>4. CASE fileStorageRoutes(q)
  <2>1. CreateFile(q) \/ MarkUploaded(q) => Moves(q, RoomsPlaces)
    BY ReturnMoves DEF CreateFile, MarkUploaded
  <2>2. PutContent(q) => Moves(q, RoomsPlaces)
    BY EnterMoves DEF PutContent
  <2>3. WriteFile(q) => Moves(q, RoomsPlaces)
    BY GotoMoves DEF WriteFile
  <2> QED BY <1>4, <2>1, <2>2, <2>3 DEF fileStorageRoutes
<1>5. CASE NotifyRoutes(q)
  <2>1. MarkRead(q) => Moves(q, RoomsPlaces)
    BY EnterMoves DEF MarkRead
  <2>2. UpsertReadState(q) => Moves(q, RoomsPlaces)
    BY ReturnMoves DEF UpsertReadState
  <2> QED BY <1>5, <2>1, <2>2 DEF NotifyRoutes
<1>6. CASE ThreadRoutes(q)
  <2>1. ValidateFileIds(q) => Moves(q, RoomsPlaces)
    BY EnterMoves DEF ValidateFileIds
  <2>2. SummarizeThread(q) => Moves(q, RoomsPlaces)
    BY EnterMoves DEF SummarizeThread
  <2>3. InsertMessage(q) => Moves(q, RoomsPlaces)
    BY ReturnMoves DEF InsertMessage
  <2> QED BY <1>6, <2>1, <2>2, <2>3 DEF ThreadRoutes
<1> QED BY <1>1, <1>2, <1>3, <1>4, <1>5, <1>6 DEF RoomsHandler

LEMMA AccessMoves ==
  ASSUME Common, NEW q \in Reqs, AccessHandler(q)
  PROVE  Moves(q, AccessPlaces)
<1> USE DEF AccessPlaces, Called, At, Authed
<1>1. CASE Authenticate(q, AuthedCalls)
  BY <1>1, ReturnMoves, GotoWithMoves DEF Authenticate
<1>2. CASE AuthRoutes(q)
  <2>1. CASE Login(q) \/ PeekMagicLink(q) \/ HandleGoogleCallback(q)
    <3>1. ASSUME Login(q) PROVE Moves(q, AccessPlaces)
      <4>1. CASE Called(q, "login") /\ Return(q)
        BY <4>1, ReturnMoves
      <4>2. CASE \E m, code, row : Enter(q, "login", [at |-> "mfa", member |-> m, code |-> code,
                                                     link |-> 0, before |-> row])
        BY <4>2, EnterMoves
      <4> QED BY <3>1, <4>1, <4>2 DEF Login
    <3>2. PeekMagicLink(q) => Moves(q, AccessPlaces)
      BY EnterMoves DEF PeekMagicLink
    <3>3. HandleGoogleCallback(q) => Moves(q, AccessPlaces)
      BY EnterMoves DEF HandleGoogleCallback
    <3> QED BY <2>1, <3>1, <3>2, <3>3
  <2>2. CASE EnterSession(q) \/ RequestMagicLink(q) \/ IssueWsTicket(q) \/ Logout(q)
             \/ EnrollMfa(q) \/ EnableMfa(q) \/ DisableMfa(q) \/ EnterBySso(q)
    BY <2>2, ReturnMoves
       DEF EnterSession, RequestMagicLink, IssueWsTicket, Logout, EnrollMfa, EnableMfa,
           DisableMfa, EnterBySso
  <2>3. MfaGate(q) => Moves(q, AccessPlaces)
    BY GotoMoves DEF MfaGate
  <2>4. CheckCode(q) => Moves(q, AccessPlaces)
    BY GotoMoves, ReturnMoves DEF CheckCode
  <2>5. VerifyMagicLink(q) => Moves(q, AccessPlaces)
    BY GotoMoves, ReturnMoves DEF VerifyMagicLink
  <2>6. UseMagicLink(q) => Moves(q, AccessPlaces)
    BY GotoMoves DEF UseMagicLink
  <2>7. ConfirmMfa(q) => Moves(q, AccessPlaces)
    BY GotoMoves, ReturnMoves DEF ConfirmMfa
  <2>8. JoinBySso(q) => Moves(q, AccessPlaces)
    BY GotoWithMoves DEF JoinBySso
  <2> QED BY <1>2, <2>1, <2>2, <2>3, <2>4, <2>5, <2>6, <2>7, <2>8 DEF AuthRoutes
<1>3. CASE InviteRoutes(q)
  <2>1. CreateInvite(q) => Moves(q, AccessPlaces)
    BY GotoMoves, ReturnMoves DEF CreateInvite
  <2>2. WriteInvite(q) \/ CloseInvite(q) => Moves(q, AccessPlaces)
    BY ReturnMoves DEF WriteInvite, CloseInvite
  <2>3. AcceptInvite(q) => Moves(q, AccessPlaces)
    BY EnterMoves, ReturnMoves DEF AcceptInvite
  <2>4. JoinByInvite(q) => Moves(q, AccessPlaces)
    BY GotoWithMoves DEF JoinByInvite
  <2>5. RevokeInvite(q) => Moves(q, AccessPlaces)
    BY ReturnMoves DEF RevokeInvite, Forbidden
  <2> QED BY <1>3, <2>1, <2>2, <2>3, <2>4, <2>5 DEF InviteRoutes
<1>4. CASE ApiKeyRoutes(q) \/ SessionRoutes(q)
  BY <1>4, ReturnMoves DEF ApiKeyRoutes, IssueApiKey, RevokeApiKey, SessionRoutes, RevokeSessions
<1>5. CASE TeamRoutes(q)
  BY <1>5, ReturnMoves DEF TeamRoutes, EditTeam, Forbidden
<1>6. CASE OpenSocket(q)
  <2>1. CASE Return(q)
    BY <1>6, <2>1, ReturnMoves DEF OpenSocket
  <2>2. CASE \E t : GotoWith(q, "subscribe", [by |-> t])
    BY <1>6, <2>2, GotoWithMoves DEF OpenSocket
  <2> QED BY <1>6, <2>1, <2>2 DEF OpenSocket
<1>7. CASE Subscribe(q)
  BY <1>7, ReturnMoves DEF Subscribe
<1> QED BY <1>1, <1>2, <1>3, <1>4, <1>5, <1>6, <1>7 DEF AccessHandler

LEMMA RosterMoves ==
  ASSUME Common, NEW q \in Reqs, RosterHandler(q)
  PROVE  Moves(q, RosterPlaces)
<1> USE DEF RosterPlaces, Called, At
<1>1. CASE AgentRoutes(q)
  <2>1. CreateAgent(q) => Moves(q, RosterPlaces)
    BY BeginMoves, ReturnMoves DEF CreateAgent
  <2>2. InsertAgent(q) \/ SetAgentShared(q) \/ WriteConfig(q) \/ InsertSkill(q) => Moves(q, RosterPlaces)
    BY ReturnMoves DEF InsertAgent, SetAgentShared, WriteConfig, InsertSkill
  <2>3. SetAgentConfig(q) => Moves(q, RosterPlaces)
    BY BeginMoves DEF SetAgentConfig
  <2>4. SaveSkill(q) => Moves(q, RosterPlaces)
    BY BeginMoves DEF SaveSkill
  <2>5. ASSUME Optimise(q) PROVE Moves(q, RosterPlaces)
    <3>1. CASE Return(q) /\ Called(q, "optimise")
      BY <3>1, ReturnMoves
    <3>2. CASE \E d : Begin(q, "optimise", [at |-> "nextVersion", doc |-> d])
      BY <3>2, BeginMoves
    <3> QED BY <2>5, <3>1, <3>2 DEF Optimise
  <2>6. NextVersion(q) => Moves(q, RosterPlaces)
    BY GotoWithMoves DEF NextVersion
  <2> QED BY <1>1, <2>1, <2>2, <2>3, <2>4, <2>5, <2>6 DEF AgentRoutes
<1>2. CASE AssistantRoute(q)
  <2>1. EnsureDefaultAssistant(q) => Moves(q, RosterPlaces)
    BY BeginMoves, ReturnMoves DEF EnsureDefaultAssistant
  <2>2. ChooseHandle(q) => Moves(q, RosterPlaces)
    BY GotoWithMoves DEF ChooseHandle
  <2>3. InsertAssistant(q) => Moves(q, RosterPlaces)
    BY ReturnMoves DEF InsertAssistant
  <2> QED BY <1>2, <2>1, <2>2, <2>3 DEF AssistantRoute
<1>3. CASE RepoRoutes(q)
  <2>1. ConnectRepo(q) => Moves(q, RosterPlaces)
    BY BeginMoves, ReturnMoves DEF ConnectRepo
  <2>2. InsertRepo(q) => Moves(q, RosterPlaces)
    BY ReturnMoves DEF InsertRepo
  <2>3. IngestIssues(q) => Moves(q, RosterPlaces)
    BY BeginMoves DEF IngestIssues
  <2>4. ReadTitles(q) => Moves(q, RosterPlaces)
    BY GotoWithMoves DEF ReadTitles
  <2>5. ASSUME InsertGoal(q) PROVE Moves(q, RosterPlaces)
    <3>1. CASE Return(q)
      BY <2>5, <3>1, ReturnMoves DEF InsertGoal
    <3>2. CASE \E rest : GotoWith(q, "insertGoal", [todo |-> rest])
      BY <2>5, <3>2, GotoWithMoves DEF InsertGoal
    <3> QED BY <2>5, <3>1, <3>2 DEF InsertGoal
  <2> QED BY <1>3, <2>1, <2>2, <2>3, <2>4, <2>5 DEF RepoRoutes
<1>4. CASE ToolsRoutes(q)
  BY <1>4, ReturnMoves DEF ToolsRoutes, CreateTool, PublishTool, DeleteTool
<1>5. CASE RecordOutcome(q)
  BY <1>5, BeginMoves DEF RecordOutcome
<1>6. CASE UpsertCount(q)
  BY <1>6, ReturnMoves DEF UpsertCount
<1> QED BY <1>1, <1>2, <1>3, <1>4, <1>5, <1>6 DEF RosterHandler

LEMMA MemoryMoves ==
  ASSUME Common, NEW q \in Reqs, MemoryRoutes(q)
  PROVE  Moves(q, MemoryPlaces)
<1> USE DEF MemoryPlaces, Called, At
<1>1. CreateNode(q) => Moves(q, MemoryPlaces)
  BY EnterMoves, ReturnMoves DEF CreateNode
<1>2. CreateEdge(q) \/ SetStatus(q) => Moves(q, MemoryPlaces)
  BY ReturnMoves DEF CreateEdge, SetStatus
<1>3. AddContradiction(q) => Moves(q, MemoryPlaces)
  BY EnterMoves DEF AddContradiction
<1>4. Supersede(q) => Moves(q, MemoryPlaces)
  BY EnterMoves, ReturnMoves DEF Supersede
<1>5. Retire(q) \/ InsertDream(q) => Moves(q, MemoryPlaces)
  BY GotoMoves DEF Retire, InsertDream
<1>6. Replace(q) => Moves(q, MemoryPlaces)
  BY GotoWithMoves DEF Replace
<1>7. DeriveRelatedEdges(q) \/ Consolidate(q) => Moves(q, MemoryPlaces)
  BY EnterMoves DEF DeriveRelatedEdges, Consolidate
<1>8. ASSUME Relate(q) PROVE Moves(q, MemoryPlaces)
  <2>1. CASE Return(q)
    BY <1>8, <2>1, ReturnMoves DEF Relate
  <2>2. CASE \E rest : GotoWith(q, "relate", [todo |-> rest])
    BY <1>8, <2>2, GotoWithMoves DEF Relate
  <2> QED BY <1>8, <2>1, <2>2 DEF Relate
<1>9. ASSUME NextCluster(q) PROVE Moves(q, MemoryPlaces)
  <2>1. CASE Return(q)
    BY <1>9, <2>1, ReturnMoves DEF NextCluster
  <2>2. CASE \E rest : GotoWith(q, "cluster", [todo |-> rest])
    BY <1>9, <2>2, GotoWithMoves DEF NextCluster
  <2>3. CASE \E rest, c : GotoWith(q, "insertDream", [todo |-> rest, cluster |-> c, members |-> c])
    BY <1>9, <2>3, GotoWithMoves DEF NextCluster
  <2> QED BY <1>9, <2>1, <2>2, <2>3 DEF NextCluster
<1>10. ASSUME LinkMember(q) PROVE Moves(q, MemoryPlaces)
  <2>1. CASE Goto(q, "cluster")
    BY <1>10, <2>1, GotoMoves DEF LinkMember
  <2>2. CASE \E rest : GotoWith(q, "members", [members |-> rest])
    BY <1>10, <2>2, GotoWithMoves DEF LinkMember
  <2> QED BY <1>10, <2>1, <2>2 DEF LinkMember
<1> QED BY <1>1, <1>2, <1>3, <1>4, <1>5, <1>6, <1>7, <1>8, <1>9, <1>10 DEF MemoryRoutes

LEMMA VentureMoves ==
  ASSUME Common, NEW q \in Reqs, BusinessRoutes(q)
  PROVE  Moves(q, VenturePlaces)
<1> USE DEF VenturePlaces, Called, At
<1>1. CASE FactoryRoutes(q)
  <2>1. SpawnBusiness(q) => Moves(q, VenturePlaces)
    BY EnterMoves DEF SpawnBusiness
  <2>2. ASSUME CreateOffering(q) PROVE Moves(q, VenturePlaces)
    <3>1. At(q, "offer") /\ (Goto(q, "goal") \/ Return(q))
      BY <2>2 DEF CreateOffering
    <3> QED BY <3>1, GotoMoves, ReturnMoves
  <2>3. CreateUnitGoal(q) \/ HandToAutonomy(q) \/ RetireOfferings(q) \/ RecordDecision(q)
          => Moves(q, VenturePlaces)
    BY GotoMoves DEF CreateUnitGoal, HandToAutonomy, RetireOfferings, RecordDecision
  <2>4. RecordSpawn(q) \/ AddLedgerEntry(q) => Moves(q, VenturePlaces)
    BY ReturnMoves DEF RecordSpawn, AddLedgerEntry
  <2>5. RebalancePortfolio(q) => Moves(q, VenturePlaces)
    BY EnterMoves DEF RebalancePortfolio
  <2>6. ASSUME IncomeStatement(q) PROVE Moves(q, VenturePlaces)
    <3>1. CASE \E rest, books : GotoWith(q, "books", [todo |-> rest, books |-> books])
      BY <2>6, <3>1, GotoWithMoves DEF IncomeStatement
    <3>2. CASE \E rest : GotoWith(q, "apply", [todo |-> rest])
      BY <2>6, <3>2, GotoWithMoves DEF IncomeStatement
    <3> QED BY <2>6, <3>1, <3>2 DEF IncomeStatement
  <2>7. ASSUME ApplyDecision(q) PROVE Moves(q, VenturePlaces)
    <3>1. CASE Return(q)
      BY <2>7, <3>1, ReturnMoves DEF ApplyDecision
    <3>2. CASE \E rest, u, a : GotoWith(q, "decided", [todo |-> rest, unit |-> u, action |-> a])
      BY <2>7, <3>2, GotoWithMoves DEF ApplyDecision
    <3>3. CASE \E rest, u, a : GotoWith(q, "retireOffers", [todo |-> rest, unit |-> u, action |-> a])
      BY <2>7, <3>3, GotoWithMoves DEF ApplyDecision
    <3> QED BY <2>7, <3>1, <3>2, <3>3 DEF ApplyDecision
  <2> QED BY <1>1, <2>1, <2>2, <2>3, <2>4, <2>5, <2>6, <2>7 DEF FactoryRoutes
<1>2. CASE OutreachRoutes(q)
  <2>1. CreateCampaign(q) \/ DeclineCampaign(q) \/ RecordSent(q) => Moves(q, VenturePlaces)
    BY ReturnMoves DEF CreateCampaign, DeclineCampaign, RecordSent
  <2>2. DecideCampaign(q) => Moves(q, VenturePlaces)
    BY EnterMoves, ReturnMoves DEF DecideCampaign
  <2>3. DeliverCampaign(q) \/ MarkSent(q) \/ VerifyDraftTask(q) => Moves(q, VenturePlaces)
    BY GotoMoves DEF DeliverCampaign, MarkSent, VerifyDraftTask
  <2>4. AddVisitors(q) => Moves(q, VenturePlaces)
    BY GotoWithMoves, GotoMoves DEF AddVisitors
  <2> QED BY <1>2, <2>1, <2>2, <2>3, <2>4 DEF OutreachRoutes
<1>3. CASE SupportRoutes(q)
  <2>1. OpenSupport(q) => Moves(q, VenturePlaces)
    BY EnterMoves DEF OpenSupport
  <2>2. RecordOpened(q) \/ RecordResolved(q) => Moves(q, VenturePlaces)
    BY ReturnMoves DEF RecordOpened, RecordResolved
  <2>3. ResolveTicket(q) => Moves(q, VenturePlaces)
    BY EnterMoves, ReturnMoves DEF ResolveTicket
  <2>4. SetResolved(q) => Moves(q, VenturePlaces)
    BY GotoMoves DEF SetResolved
  <2> QED BY <1>3, <2>1, <2>2, <2>3, <2>4 DEF SupportRoutes
<1> QED BY <1>1, <1>2, <1>3 DEF BusinessRoutes

-----------------------------------------------------------------------------
(* A step of the server is one handler's step in one part, or time, or a     *)
(* restart.  The request of another part is not at the places of this one.   *)

\* No request comes to one of the places.
Away(places) == \A q \in Reqs : req'[q] = req[q] \/ req'[q].at \notin places

\* A restart ends requests and leaves them what they had in hand.
Dying ==
  \A q \in Reqs :
    \/ req'[q] = req[q]
    \/ /\ req[q].at \notin {"new", "done"} /\ req'[q].at = "dead"
       /\ DOMAIN req'[q] = DOMAIN req[q]
       /\ \A f \in DOMAIN req[q] \ {"at"} : req'[q][f] = req[q][f]

LEMMA MovesCommon ==
  ASSUME Common, NEW q \in Reqs, NEW places \in SUBSET Places, Moves(q, places)
  PROVE  Common' /\ \A others : others \cap places = {} /\ "done" \notin others => Away(others)
<1>1. /\ DOMAIN req' = Reqs /\ \A p \in Reqs \ {q} : req'[p] = req[p]
      /\ "at" \in DOMAIN req'[q] /\ req'[q].at \in {"done"} \cup places
  BY DEF Moves, Others, Has
<1>2. \A p \in Reqs : "at" \in DOMAIN req'[p] /\ req'[p].at \in {"new", "done", "dead"} \cup Places
  BY <1>1 DEF Common, Has
<1> QED BY <1>1, <1>2 DEF Common, Has, Away

LEMMA RestartCommon ==
  ASSUME Common, DieAll
  PROVE  Common' /\ Dying
<1>1. \A q \in Reqs : req'[q] = IF Busy(q) THEN [req[q] EXCEPT !.at = "dead"] ELSE req[q]
  BY DEF DieAll
<1>2. Dying
  BY <1>1 DEF Dying, Busy, Common, Has
<1>3. DOMAIN req' = Reqs
  BY DEF DieAll
<1>4. \A q \in Reqs : "at" \in DOMAIN req'[q] /\ req'[q].at \in {"new", "done", "dead"} \cup Places
  BY <1>2 DEF Dying, Common, Has
<1> QED BY <1>2, <1>3, <1>4 DEF Common, Has

LEMMA Steps ==
  ASSUME Common, [ServerNext]_vars
  PROVE  /\ Common'
         /\ \/ \E q \in Reqs : AccessHandler(q) /\ Moves(q, AccessPlaces)
                               /\ UNCHANGED <<roomsVars, rosterVars, memoryVars, ventureVars>>
            \/ \E q \in Reqs : RoomsHandler(q) /\ Moves(q, RoomsPlaces)
                               /\ UNCHANGED <<accessVars, rosterVars, memoryVars, ventureVars>>
            \/ \E q \in Reqs : RosterHandler(q) /\ Moves(q, RosterPlaces)
                               /\ UNCHANGED <<accessVars, roomsVars, memoryVars, ventureVars>>
            \/ \E q \in Reqs : MemoryRoutes(q) /\ Moves(q, MemoryPlaces)
                               /\ UNCHANGED <<accessVars, roomsVars, rosterVars, ventureVars>>
            \/ \E q \in Reqs : BusinessRoutes(q) /\ Moves(q, VenturePlaces)
                               /\ UNCHANGED <<accessVars, roomsVars, rosterVars, memoryVars>>
            \/ TimePasses /\ UNCHANGED req
            \/ ServerRestarts /\ Dying
            \/ UNCHANGED vars
<1>1. CASE \E q \in Reqs : Handler(q)
  <2>1. PICK q \in Reqs : Handler(q)
    BY <1>1
  <2> USE DEF Places
  <2>2. CASE AccessHandler(q) /\ UNCHANGED <<roomsVars, rosterVars, memoryVars, ventureVars>>
    BY <2>2, AccessMoves, MovesCommon
  <2>3. CASE RoomsHandler(q) /\ UNCHANGED <<accessVars, rosterVars, memoryVars, ventureVars>>
    BY <2>3, RoomsMoves, MovesCommon
  <2>4. CASE RosterHandler(q) /\ UNCHANGED <<accessVars, roomsVars, memoryVars, ventureVars>>
    BY <2>4, RosterMoves, MovesCommon
  <2>5. CASE MemoryRoutes(q) /\ UNCHANGED <<accessVars, roomsVars, rosterVars, ventureVars>>
    BY <2>5, MemoryMoves, MovesCommon
  <2>6. CASE BusinessRoutes(q) /\ UNCHANGED <<accessVars, roomsVars, rosterVars, memoryVars>>
    BY <2>6, VentureMoves, MovesCommon
  <2> QED BY <2>1, <2>2, <2>3, <2>4, <2>5, <2>6 DEF Handler
<1>2. CASE TimePasses
  <2>1. UNCHANGED req
    BY <1>2 DEF TimePasses, NextWindow, Expire
  <2> QED BY <1>2, <2>1 DEF Common, Has
<1>3. CASE ServerRestarts
  BY <1>3, RestartCommon DEF ServerRestarts, Restart
<1>4. CASE UNCHANGED vars
  BY <1>4 DEF vars, Common, Has
<1> QED BY <1>1, <1>2, <1>3, <1>4 DEF ServerNext

\* At the start no request has been made.
LEMMA Start ==
  ASSUME ServerInit
  PROVE  Common /\ \A q \in Reqs : At(q, "new") /\ DOMAIN req[q] = {"at", "call"}
  BY DEF ServerInit, Planned, Common, Has, At

-----------------------------------------------------------------------------
(* Access: what a login knows of the member it will let in.  The row it      *)
(* found first is still the member's, or the secret is another one for good. *)

Guarded(row) == row.mfa /\ row.secret # NoSecret
Row(q) == member[req[q].member]
Answered(q) ==
  Guarded(req[q].before) /\ Row(q).secret = req[q].before.secret => req[q].code = req[q].before.secret

Entering(q) ==
  /\ req[q].at \in {"mfa", "code", "verify", "use", "enter"} =>
       /\ Has(q, {"member", "code", "link", "before"})
       /\ req[q].member \in DOMAIN member /\ req[q].before \in MemberRow
       /\ req[q].before.secret <= issued
       /\ Guarded(req[q].before) => Row(q) = req[q].before \/ Row(q).secret # req[q].before.secret
       /\ req[q].link = 0 \/ req[q].link \in DOMAIN link
  /\ req[q].at \in {"verify", "use"} => req[q].link \in DOMAIN link
  /\ At(q, "verify") => Answered(q) \/ ~GoodLink(req[q].link)
  /\ req[q].at \in {"use", "enter"} => Answered(q)
  /\ At(q, "sso") => Has(q, {"member"}) /\ req[q].member \in DOMAIN member

Managing(q) ==
  /\ At(q, "authed") => Has(q, {"who"})
  /\ At(q, "enable") => Has(q, {"who"}) /\ req[q].who \in DOMAIN member
  /\ req[q].at \in {"joinInvite", "closeInvite"} => Has(q, {"invite"}) /\ req[q].invite \in DOMAIN invite
  /\ At(q, "closeInvite") =>
       /\ Has(q, {"member"}) /\ req[q].member \in DOMAIN member
       /\ member[req[q].member].role = invite[req[q].invite].role
AccessReq(q) == Entering(q) /\ Managing(q)

\* A ticket that was taken is nobody else's, at once or later.
Taken(t) == t \in 1..issued \ DOMAIN ticket
Tickets ==
  /\ \A v \in sockets : v.by # 0 => Taken(v.by)
  /\ \A p \in Reqs : At(p, "subscribe") =>
       /\ Has(p, {"by"})
       /\ req[p].by # 0 => Taken(req[p].by) /\ \A v \in sockets : v.by # req[p].by
  /\ \A p, r \in Reqs :
       At(p, "subscribe") /\ At(r, "subscribe") /\ req[p].by # 0 /\ req[p].by = req[r].by => p = r
  /\ TicketOpensOnce

AccessRows ==
  /\ AccessTypeOK /\ CodeWasChecked /\ AcceptedHasMember
  /\ \A m \in DOMAIN member : member[m].secret \in 0..issued
  /\ \A l \in DOMAIN link : link[l].member \in DOMAIN member
AccessInv == Common /\ AccessRows /\ Tickets /\ \A q \in Reqs : AccessReq(q)

\* What others count on: tokens are fresh, members, links and invites stay, a secret
\* that is gone does not come back, a spent link stays spent.
AccessGrow ==
  /\ issued' \in issued..MaxTokens
  /\ DOMAIN member \subseteq DOMAIN member'
  /\ \A m \in DOMAIN member :
       /\ member'[m].role = member[m].role
       /\ \/ member'[m] = member[m]
          \/ member'[m].secret = NoSecret \/ member'[m].secret > issued
          \/ member'[m].secret = member[m].secret /\ (member[m].mfa => member'[m] = member[m])
  /\ DOMAIN link \subseteq DOMAIN link' /\ \A l \in DOMAIN link : GoodLink(l)' => GoodLink(l)
  /\ DOMAIN invite \subseteq DOMAIN invite' /\ \A i \in DOMAIN invite : invite'[i].role = invite[i].role
  /\ DOMAIN ticket' \cap 1..issued \subseteq DOMAIN ticket

LEMMA RowsCounted ==
  ASSUME AccessRows
  PROVE  issued \in 0..MaxTokens /\ MaxTokens \in Nat
BY AccessAssumption DEF AccessRows, AccessTypeOK

LEMMA EnteringKept ==
  ASSUME AccessInv, AccessGrow, NEW p \in Reqs, req'[p] = req[p]
  PROVE  Entering(p)'
<1> DEFINE m == req[p].member  b == req[p].before  l == req[p].link
<1>1. Entering(p) /\ issued \in 0..MaxTokens /\ issued' \in issued..MaxTokens
  BY DEF AccessInv, AccessReq, AccessRows, AccessTypeOK, AccessGrow
<1>2. CASE req[p].at \in {"mfa", "code", "verify", "use", "enter"}
  <2>1. /\ m \in DOMAIN member /\ b \in MemberRow /\ b.secret <= issued
        /\ Guarded(b) => member[m] = b \/ member[m].secret # b.secret
        /\ l = 0 \/ l \in DOMAIN link
    BY <1>1, <1>2 DEF Entering, Row
  <2>2. /\ b.secret \in Nat /\ b.secret <= issued'
    BY <1>1, <2>1, AccessAssumption DEF MemberRow
  <2>3. Guarded(b) => member'[m] = b \/ member'[m].secret # b.secret
    <3>1. SUFFICES ASSUME Guarded(b) PROVE member'[m] = b \/ member'[m].secret # b.secret
      OBVIOUS
    <3>2. b.mfa /\ b.secret # NoSecret
      BY <3>1 DEF Guarded
    <3>3. CASE member'[m] = member[m]
      BY <2>1, <3>1, <3>3
    <3>4. CASE member'[m].secret = NoSecret
      BY <3>2, <3>4
    <3>5. CASE member'[m].secret > issued
      BY <1>1, <2>1, <2>2, <3>5
    <3>6. CASE member'[m].secret = member[m].secret /\ (member[m].mfa => member'[m] = member[m])
      BY <2>1, <3>1, <3>2, <3>6
    <3> QED BY <2>1, <3>3, <3>4, <3>5, <3>6 DEF AccessGrow
  <2>4. Guarded(b) /\ member'[m].secret = b.secret => member[m].secret = b.secret
    <3>1. SUFFICES ASSUME Guarded(b), member'[m].secret = b.secret PROVE member[m].secret = b.secret
      OBVIOUS
    <3>2. b.secret # NoSecret /\ ~(b.secret > issued)
      BY <1>1, <2>1, <2>2, <3>1 DEF Guarded
    <3> QED BY <2>1, <3>1, <3>2 DEF AccessGrow
  <2>5. Answered(p) => Answered(p)'
    BY <2>4 DEF Answered, Row
  <2>6. /\ m \in DOMAIN member' /\ (l \in DOMAIN link => l \in DOMAIN link' /\ (GoodLink(l)' => GoodLink(l)))
    BY <2>1 DEF AccessGrow
  <2>7. l \in DOMAIN link => (~GoodLink(l) => ~GoodLink(req[p].link)')
    BY <2>6 DEF GoodLink
  <2> HIDE DEF m, b, l
  <2>8. /\ req[p].at = "verify" => l \in DOMAIN link /\ (Answered(p) \/ ~GoodLink(req[p].link))
        /\ req[p].at \in {"use", "enter"} => Answered(p)
        /\ req[p].at = "use" => l \in DOMAIN link
    BY <1>1 DEF Entering, l, At
  <2>9. Has(p, {"member", "code", "link", "before"})'
    BY <1>1, <1>2 DEF Entering, Has
  <2>10. /\ req'[p].member = m /\ req'[p].before = b /\ req'[p].link = l /\ Row(p)' = member'[m]
         /\ b.secret <= issued' /\ (Guarded(b)' <=> Guarded(b)) /\ req'[p].at = req[p].at
    BY <2>2 DEF m, b, l, Row, Guarded
  <2>11. req[p].at = "verify" => Answered(p)' \/ ~GoodLink(req[p].link)'
    BY <2>5, <2>7, <2>8 DEF l
  <2>12. req[p].at \in {"use", "enter"} => Answered(p)'
    BY <2>5, <2>8
  <2>13. Guarded(req[p].before)' => Row(p)' = req'[p].before \/ Row(p)'.secret # req'[p].before.secret
    BY <2>3, <2>10 DEF Guarded
  <2>14. l = 0 \/ l \in DOMAIN link'
    BY <2>1, <2>6 DEF l
  <2>15. req[p].at \in {"verify", "use"} => l \in DOMAIN link'
    BY <2>6, <2>8
  <2> QED BY <1>2, <2>1, <2>6, <2>9, <2>10, <2>11, <2>12, <2>13, <2>14, <2>15 DEF Entering, At
<1>3. CASE req[p].at \notin {"mfa", "code", "verify", "use", "enter"}
  BY <1>1, <1>3 DEF Entering, At, Has, AccessGrow
<1> QED BY <1>2, <1>3

LEMMA AccessReqKept ==
  ASSUME AccessInv, AccessGrow, NEW p \in Reqs, req'[p] = req[p]
  PROVE  AccessReq(p)'
<1>1. Managing(p)
  BY DEF AccessInv, AccessReq
<1>2. Managing(p)'
  BY <1>1 DEF Managing, At, Has, AccessGrow
<1> QED BY <1>2, EnteringKept DEF AccessReq

\* Nobody comes to hold a ticket.
LEMMA TicketsKept ==
  ASSUME AccessInv, AccessGrow, sockets' = sockets,
         \A p \in Reqs : At(p, "subscribe")' => req'[p] = req[p]
  PROVE  Tickets'
<1>1. issued \in 0..MaxTokens /\ issued' \in issued..MaxTokens /\ MaxTokens \in Nat
  BY RowsCounted DEF AccessInv, AccessGrow
<1>2. \A t : Taken(t) => Taken(t)'
  <2>1. 1..issued \subseteq 1..issued'
    BY <1>1
  <2> QED BY <2>1 DEF Taken, AccessGrow
<1>3. Tickets
  BY DEF AccessInv
<1>4. \A v \in sockets : v.by # 0 => Taken(v.by)'
  <2>1. \A v \in sockets : v.by # 0 => Taken(v.by)
    BY <1>3 DEF Tickets
  <2> QED BY <1>2, <2>1 DEF Taken
<1>5. \A p \in Reqs : At(p, "subscribe")' =>
        /\ Has(p, {"by"})'
        /\ req'[p].by # 0 => Taken(req[p].by)' /\ \A v \in sockets' : v.by # req'[p].by
  <2>1. SUFFICES ASSUME NEW p \in Reqs, At(p, "subscribe")'
                 PROVE  /\ Has(p, {"by"})'
                        /\ req'[p].by # 0 => Taken(req[p].by)' /\ \A v \in sockets' : v.by # req'[p].by
    OBVIOUS
  <2>2. req'[p] = req[p] /\ At(p, "subscribe")
    BY <2>1 DEF At
  <2>3. Has(p, {"by"}) /\ (req[p].by # 0 => Taken(req[p].by) /\ \A v \in sockets : v.by # req[p].by)
    BY <1>3, <2>2 DEF Tickets
  <2>4. Taken(req[p].by) => Taken(req[p].by)'
    BY <1>2, <2>2 DEF Taken
  <2> QED BY <2>2, <2>3, <2>4 DEF Has
<1>6. \A p, r \in Reqs :
        At(p, "subscribe")' /\ At(r, "subscribe")' /\ req'[p].by # 0 /\ req'[p].by = req'[r].by => p = r
  BY <1>3 DEF Tickets, At
<1>7. TicketOpensOnce'
  BY <1>3 DEF Tickets, TicketOpensOnce
<1> QED BY <1>4, <1>5, <1>6, <1>7 DEF Tickets, Taken

LEMMA AccessAct ==
  ASSUME AccessInv, NEW q \in Reqs, Common', Others(q), AccessRows', AccessGrow, Tickets', AccessReq(q)'
  PROVE  AccessInv'
<1>1. \A p \in Reqs \ {q} : AccessReq(p)'
  BY AccessReqKept DEF Others
<1> QED BY <1>1 DEF AccessInv

LEMMA AccessMove ==
  ASSUME AccessInv, NEW q \in Reqs, Common', Others(q), AccessRows', AccessGrow, sockets' = sockets,
         req'[q].at # "subscribe", AccessReq(q)'
  PROVE  AccessInv'
<1>1. \A p \in Reqs : At(p, "subscribe")' => req'[p] = req[p]
  BY DEF Others, At
<1>2. Tickets'
  BY <1>1, TicketsKept
<1> QED BY <1>2, AccessAct

LEMMA AccessEnds ==
  ASSUME AccessInv, NEW q \in Reqs, Common', Return(q), AccessRows', AccessGrow, sockets' = sockets
  PROVE  AccessInv'
<1>1. Others(q) /\ req'[q].at = "done"
  BY ReturnGives DEF AccessInv, Common
<1>2. AccessReq(q)'
  BY <1>1 DEF AccessReq, Entering, Managing, At
<1> QED BY <1>1, <1>2, AccessMove

LEMMA AccessUnchanged ==
  ASSUME AccessRows, UNCHANGED accessVars
  PROVE  AccessRows' /\ AccessGrow
<1>1. issued \in 0..MaxTokens /\ MaxTokens \in Nat
  BY RowsCounted
<1>2. AccessRows'
  BY DEF AccessRows, accessVars, AccessTypeOK, CodeWasChecked, AcceptedHasMember
<1>3. AccessGrow
  BY <1>1 DEF AccessGrow, accessVars, GoodLink
<1> QED BY <1>2, <1>3

LEMMA AccessIdle ==
  ASSUME AccessInv, NEW q \in Reqs, Common', Return(q), UNCHANGED accessVars
  PROVE  AccessInv'
<1>1. AccessRows' /\ AccessGrow /\ sockets' = sockets
  BY AccessUnchanged DEF AccessInv, accessVars
<1> QED BY <1>1, AccessEnds

\* Time passes, or requests go on elsewhere.
LEMMA AccessPasses ==
  ASSUME AccessInv, Common', AccessRows', AccessGrow, sockets' = sockets,
         \A q \in Reqs : req'[q] = req[q] \/ req'[q].at \notin AccessPlaces
  PROVE  AccessInv'
<1>1. \A p \in Reqs : At(p, "subscribe")' => req'[p] = req[p]
  BY DEF At, AccessPlaces
<1>2. Tickets'
  BY <1>1, TicketsKept
<1>3. ASSUME NEW q \in Reqs PROVE AccessReq(q)'
  <2>1. CASE req'[q].at \notin AccessPlaces
    BY <2>1 DEF AccessReq, Entering, Managing, AccessPlaces, At
  <2>2. CASE req'[q] = req[q]
    BY <2>2, AccessReqKept
  <2> QED BY <2>1, <2>2
<1> QED BY <1>2, <1>3 DEF AccessInv

-----------------------------------------------------------------------------
(* How the tables change. *)

LEMMA SessionsShrink ==
  ASSUME AccessRows, DOMAIN session' \subseteq DOMAIN session,
         \A s \in DOMAIN session' : session'[s] = session[s],
         UNCHANGED <<member, link, invite, apiKey, team, ticket, attempts, expired, issued, entries>>
  PROVE  AccessRows' /\ AccessGrow
<1>1. issued \in 0..MaxTokens /\ MaxTokens \in Nat
  BY RowsCounted
<1>2. AccessTypeOK'
  BY DEF AccessRows, AccessTypeOK
<1> QED BY <1>1, <1>2 DEF AccessRows, CodeWasChecked, AcceptedHasMember, AccessGrow, GoodLink

LEMMA Admitted ==
  ASSUME AccessRows, NEW m \in DOMAIN member, NEW how, NEW before, NEW code, Admit(m, how, before, code),
         how >= 0 /\ Guarded(before) /\ before = member[m] => code = member[m].secret,
         UNCHANGED <<member, link, invite, apiKey, team, ticket, attempts, expired>>
  PROVE  AccessRows' /\ AccessGrow
<1> DEFINE entry == [token |-> issued + 1, by |-> how, before |-> before, now |-> member[m], code |-> code]
<1>1. issued \in 0..MaxTokens /\ MaxTokens \in Nat
  BY RowsCounted
<1>2. /\ issued' = issued + 1 /\ issued' \in issued..MaxTokens /\ issued' \in 0..MaxTokens
      /\ 1..issued \subseteq 1..issued' /\ issued' \in 1..issued'
  BY <1>1 DEF Admit, Fresh
<1>3. /\ DOMAIN session' = DOMAIN session \cup {issued'}
      /\ \A s \in DOMAIN session' : session'[s] = m \/ (s \in DOMAIN session /\ session'[s] = session[s])
  BY <1>2 DEF Admit, Fresh, Put
<1>4. AccessTypeOK'
  <2>1. UNION {DOMAIN session', DOMAIN link', DOMAIN invite', DOMAIN apiKey', DOMAIN ticket'} \subseteq 1..issued'
    BY <1>2, <1>3 DEF AccessRows, AccessTypeOK
  <2> QED BY <1>2, <1>3, <2>1 DEF AccessRows, AccessTypeOK
<1>5. CodeWasChecked'
  <2>1. entries' = entries \cup {entry}
    BY DEF Admit, Fresh
  <2>2. entry.by >= 0 /\ Guarded(entry.before) /\ entry.before = entry.now => entry.code = entry.now.secret
    OBVIOUS
  <2> HIDE DEF entry
  <2> QED BY <2>1, <2>2 DEF AccessRows, CodeWasChecked, Guarded
<1>6. \A n \in DOMAIN member' : member'[n].secret \in 0..issued'
  <2>1. 0..issued \subseteq 0..issued'
    BY <1>1, <1>2
  <2> QED BY <2>1 DEF AccessRows
<1> QED BY <1>2, <1>4, <1>5, <1>6 DEF AccessRows, AcceptedHasMember, AccessGrow, GoodLink

\* One token more is handed out, for a row of one of the other tables.
LEMMA Handed ==
  ASSUME AccessRows, issued + 1 <= MaxTokens, issued' = issued + 1,
         UNCHANGED <<member, session, team, attempts, expired, entries>>,
         \/ /\ UNCHANGED <<invite, apiKey, ticket>>
            /\ \E m \in DOMAIN member : link' = Put(link, issued + 1, [member |-> m, used |-> FALSE])
         \/ /\ UNCHANGED <<link, apiKey, ticket>>
            /\ \E role \in DOMAIN MATRIX :
                 invite' = Put(invite, issued + 1, [status |-> "pending", role |-> role, acceptedMember |-> "none"])
         \/ UNCHANGED <<link, invite, ticket>> /\ apiKey' = Put(apiKey, issued + 1, FALSE)
         \/ UNCHANGED <<link, invite, apiKey>> /\ \E who : ticket' = Put(ticket, issued + 1, who)
  PROVE  AccessRows' /\ AccessGrow
<1>1. issued \in 0..MaxTokens /\ MaxTokens \in Nat
  BY RowsCounted
<1>2. /\ issued' \in issued..MaxTokens /\ issued' \in 0..MaxTokens /\ 1..issued \subseteq 1..issued'
      /\ issued' \in 1..issued' /\ issued' \notin 1..issued /\ 0..issued \subseteq 0..issued'
  BY <1>1
<1>3. UNION {DOMAIN session, DOMAIN link, DOMAIN invite, DOMAIN apiKey, DOMAIN ticket} \subseteq 1..issued
  BY DEF AccessRows, AccessTypeOK
<1>4. UNION {DOMAIN session', DOMAIN link', DOMAIN invite', DOMAIN apiKey', DOMAIN ticket'} \subseteq 1..issued'
  BY <1>2, <1>3 DEF Put
<1>5. /\ DOMAIN link \subseteq DOMAIN link' /\ \A l \in DOMAIN link : link'[l] = link[l]
      /\ \A l \in DOMAIN link' \ DOMAIN link : link'[l] \in LinkRow /\ link'[l].member \in DOMAIN member
  <2>1. CASE \E m \in DOMAIN member : link' = Put(link, issued + 1, [member |-> m, used |-> FALSE])
    <3>1. PICK m \in DOMAIN member : link' = Put(link, issued + 1, [member |-> m, used |-> FALSE])
      BY <2>1
    <3> DEFINE row == [member |-> m, used |-> FALSE]
    <3>2. row \in LinkRow /\ row.member \in DOMAIN member
      BY DEF LinkRow, AccessRows, AccessTypeOK
    <3>3. link' = Put(link, issued', row)
      BY <3>1
    <3> HIDE DEF row
    <3>4. issued' \notin DOMAIN link
      BY <1>2, <1>3
    <3> QED BY <3>2, <3>3, <3>4 DEF Put
  <2>2. CASE link' = link
    BY <2>2
  <2> QED BY <2>1, <2>2
<1>6. /\ DOMAIN invite \subseteq DOMAIN invite' /\ \A i \in DOMAIN invite : invite'[i] = invite[i]
      /\ \A i \in DOMAIN invite' \ DOMAIN invite : invite'[i] \in InviteRow /\ invite'[i].status = "pending"
  <2>1. CASE \E role \in DOMAIN MATRIX :
               invite' = Put(invite, issued + 1, [status |-> "pending", role |-> role, acceptedMember |-> "none"])
    <3>1. PICK role \in DOMAIN MATRIX :
               invite' = Put(invite, issued + 1, [status |-> "pending", role |-> role, acceptedMember |-> "none"])
      BY <2>1
    <3> DEFINE row == [status |-> "pending", role |-> role, acceptedMember |-> "none"]
    <3>2. row \in InviteRow /\ row.status = "pending"
      BY DEF InviteRow
    <3>3. invite' = Put(invite, issued', row)
      BY <3>1
    <3> HIDE DEF row
    <3>4. issued' \notin DOMAIN invite
      BY <1>2, <1>3
    <3> QED BY <3>2, <3>3, <3>4 DEF Put
  <2>2. CASE invite' = invite
    BY <2>2
  <2> QED BY <2>1, <2>2
<1>7. DOMAIN ticket' \cap 1..issued \subseteq DOMAIN ticket
  BY <1>2 DEF Put
<1>8. AccessTypeOK'
  BY <1>2, <1>4, <1>5, <1>6 DEF AccessRows, AccessTypeOK
<1>9. AcceptedHasMember'
  BY <1>6 DEF AccessRows, AcceptedHasMember
<1>10. AccessGrow
  BY <1>2, <1>5, <1>6, <1>7 DEF AccessGrow, GoodLink
<1>11. \A l \in DOMAIN link' : link'[l].member \in DOMAIN member'
  BY <1>5 DEF AccessRows
<1> QED BY <1>2, <1>8, <1>9, <1>10, <1>11 DEF AccessRows, CodeWasChecked

\* One member more.
LEMMA Joined ==
  ASSUME AccessRows, NEW m \in Members \ DOMAIN member, NEW row \in MemberRow, row.secret = NoSecret,
         member' = Put(member, m, row),
         UNCHANGED <<session, link, invite, apiKey, team, ticket, attempts, expired, issued, entries>>
  PROVE  /\ AccessRows' /\ AccessGrow
         /\ DOMAIN member' = DOMAIN member \cup {m} /\ member'[m] = row
<1>1. issued \in 0..MaxTokens /\ MaxTokens \in Nat
  BY RowsCounted
<1>2. /\ DOMAIN member' = DOMAIN member \cup {m} /\ member'[m] = row
      /\ \A n \in DOMAIN member : member'[n] = member[n]
  BY DEF Put
<1>3. AccessTypeOK'
  BY <1>2 DEF AccessRows, AccessTypeOK
<1>4. AcceptedHasMember'
  BY <1>2 DEF AccessRows, AcceptedHasMember
<1>5. \A n \in DOMAIN member' : member'[n].secret \in 0..issued'
  BY <1>1, <1>2 DEF AccessRows, NoSecret
<1>6. AccessGrow
  BY <1>1, <1>2 DEF AccessGrow, GoodLink
<1> QED BY <1>2, <1>3, <1>4, <1>5, <1>6 DEF AccessRows, CodeWasChecked

\* The secret and the flag of a member: a fresh one, none, or the same and on.
LEMMA Updated ==
  ASSUME AccessRows, NEW m \in DOMAIN member, NEW secret, NEW mfa \in BOOLEAN, UpdateMember(m, secret, mfa),
         \/ issued + 1 <= MaxTokens /\ issued' = issued + 1 /\ secret = issued + 1
         \/ issued' = issued /\ secret = NoSecret
         \/ issued' = issued /\ secret = member[m].secret /\ mfa
  PROVE  AccessRows' /\ AccessGrow
<1>1. issued \in 0..MaxTokens /\ MaxTokens \in Nat
  BY RowsCounted
<1>2. /\ issued' \in issued..MaxTokens /\ issued' \in 0..MaxTokens /\ 1..issued \subseteq 1..issued'
      /\ 0..issued \subseteq 0..issued'
  BY <1>1
<1>3. /\ member' = [member EXCEPT ![m].secret = secret, ![m].mfa = mfa]
      /\ UNCHANGED <<session, link, invite, apiKey, team, ticket, attempts, expired, entries>>
  BY DEF UpdateMember
<1>4. /\ DOMAIN member' = DOMAIN member /\ \A n \in DOMAIN member \ {m} : member'[n] = member[n]
      /\ member'[m] = [[member[m] EXCEPT !.secret = secret] EXCEPT !.mfa = mfa]
  BY <1>3
<1>5. \A n \in DOMAIN member : member[n] \in MemberRow /\ member[n].secret \in 0..issued
  BY DEF AccessRows, AccessTypeOK
<1>6. secret \in 0..issued' /\ secret \in 0..MaxTokens
  BY <1>1, <1>2, <1>5 DEF NoSecret
<1>7. /\ member'[m] \in MemberRow /\ member'[m].secret = secret /\ member'[m].role = member[m].role
      /\ secret = member[m].secret /\ member[m].mfa /\ mfa => member'[m] = member[m]
  BY <1>4, <1>5, <1>6 DEF MemberRow
<1>8. /\ \A n \in DOMAIN member' : member'[n] \in MemberRow
      /\ \A n \in DOMAIN member' : member'[n].secret \in 0..issued'
      /\ \A n \in DOMAIN member' : member'[n].role = member[n].role
  BY <1>2, <1>4, <1>5, <1>6, <1>7
<1>9. AccessTypeOK'
  <2>1. UNION {DOMAIN session', DOMAIN link', DOMAIN invite', DOMAIN apiKey', DOMAIN ticket'} \subseteq 1..issued'
    BY <1>2, <1>3 DEF AccessRows, AccessTypeOK
  <2> QED BY <1>2, <1>3, <1>4, <1>8, <2>1 DEF AccessRows, AccessTypeOK
<1>10. AcceptedHasMember'
  BY <1>3, <1>4, <1>8 DEF AccessRows, AcceptedHasMember
<1>11. \A n \in DOMAIN member :
         \/ member'[n] = member[n]
         \/ member'[n].secret = NoSecret \/ member'[n].secret > issued
         \/ member'[n].secret = member[n].secret /\ (member[n].mfa => member'[n] = member[n])
  <2>1. secret = NoSecret \/ secret > issued \/ (secret = member[m].secret /\ mfa)
    BY <1>1
  <2> QED BY <1>4, <1>7, <2>1
<1>12. AccessGrow
  BY <1>2, <1>3, <1>4, <1>8, <1>11 DEF AccessGrow, GoodLink
<1> QED BY <1>3, <1>4, <1>8, <1>9, <1>10, <1>12 DEF AccessRows, CodeWasChecked

\* An invite that is there gets a status, and when it is accepted, who it made.
LEMMA InviteMarked ==
  ASSUME AccessRows, DOMAIN invite' = DOMAIN invite,
         \A i \in DOMAIN invite :
           /\ invite'[i] \in InviteRow /\ invite'[i].role = invite[i].role
           /\ \/ invite'[i] = invite[i] \/ invite'[i].status = "revoked"
              \/ /\ invite'[i].acceptedMember \in DOMAIN member
                 /\ member[invite'[i].acceptedMember].role = invite[i].role,
         UNCHANGED <<member, session, link, apiKey, team, ticket, attempts, expired, issued, entries>>
  PROVE  AccessRows' /\ AccessGrow
<1>1. issued \in 0..MaxTokens /\ MaxTokens \in Nat
  BY RowsCounted
<1>2. AccessTypeOK'
  BY DEF AccessRows, AccessTypeOK
<1>3. AcceptedHasMember'
  BY DEF AccessRows, AcceptedHasMember
<1>4. AccessGrow
  BY <1>1 DEF AccessGrow, GoodLink
<1> QED BY <1>2, <1>3, <1>4 DEF AccessRows, CodeWasChecked

\* A link is used, a key revoked, a ticket or a token gone, the team edited, or an
\* attempt counted.
LEMMA Aged ==
  ASSUME AccessRows, UNCHANGED <<member, session, invite, issued, entries>>,
         DOMAIN link' = DOMAIN link, \A l \in DOMAIN link : link'[l] = link[l]
                                       \/ link'[l] = [link[l] EXCEPT !.used = TRUE],
         DOMAIN apiKey' = DOMAIN apiKey, team' \subseteq DOMAIN member,
         DOMAIN ticket' \subseteq DOMAIN ticket, expired \subseteq expired',
         \A m \in DOMAIN attempts' : attempts'[m] \in 1..LoginLimit
  PROVE  AccessRows' /\ AccessGrow
<1>1. issued \in 0..MaxTokens /\ MaxTokens \in Nat
  BY RowsCounted
<1>2. \A l \in DOMAIN link : link[l] \in LinkRow
  BY DEF AccessRows, AccessTypeOK
<1>3. \A l \in DOMAIN link :
        link'[l] \in LinkRow /\ (~link'[l].used => ~link[l].used) /\ link'[l].member = link[l].member
  BY <1>2 DEF LinkRow
<1>4. AccessTypeOK'
  BY <1>3 DEF AccessRows, AccessTypeOK
<1>5. AccessGrow
  BY <1>1, <1>3 DEF AccessGrow, GoodLink
<1> QED BY <1>3, <1>4, <1>5 DEF AccessRows, CodeWasChecked, AcceptedHasMember

-----------------------------------------------------------------------------
(* Authentication and logging in. *)

\* A request that goes on keeps what it holds.
LEMMA AccessOn ==
  ASSUME AccessInv, NEW q \in Reqs, NEW place, Goto(q, place)
  PROVE  /\ Others(q) /\ req'[q].at = place /\ DOMAIN req'[q] = DOMAIN req[q]
         /\ \A f \in DOMAIN req[q] \ {"at"} : req'[q][f] = req[q][f]
BY GotoGives DEF AccessInv, Common, Has

LEMMA AuthenticateKeeps ==
  ASSUME AccessInv, NEW q \in Reqs, Common', Authenticate(q, AuthedCalls)
  PROVE  AccessInv'
<1>1. UNCHANGED accessVars /\ DOMAIN req = Reqs /\ "at" \in DOMAIN req[q]
  BY DEF Authenticate, AccessInv, Common, Has
<1>2. CASE Return(q)
  BY <1>1, <1>2, AccessIdle
<1>3. CASE \E token, who : GotoWith(q, "authed", [token |-> token, who |-> who])
  <2>1. PICK token, who : GotoWith(q, "authed", [token |-> token, who |-> who])
    BY <1>3
  <2> DEFINE rec == [token |-> token, who |-> who]
  <2>2. GotoWith(q, "authed", rec) /\ DOMAIN rec = {"token", "who"}
    BY <2>1
  <2> HIDE DEF rec
  <2>3. Others(q) /\ DOMAIN req'[q] = DOMAIN req[q] \cup DOMAIN rec /\ req'[q].at = "authed"
    BY <1>1, <2>2, GotoWithGives
  <2>4. AccessReq(q)'
    BY <2>2, <2>3 DEF AccessReq, Entering, Managing, At, Has
  <2>5. AccessRows' /\ AccessGrow /\ sockets' = sockets
    BY <1>1, AccessUnchanged DEF AccessInv, accessVars
  <2> QED BY <2>3, <2>4, <2>5, AccessMove
<1> QED BY <1>2, <1>3 DEF Authenticate

\* At the gate the row is the one that was found.
LEMMA AtTheGate ==
  ASSUME AccessInv, NEW q \in Reqs, Common', NEW call, NEW place \in {"mfa", "verify"}, NEW m \in DOMAIN member,
         NEW code, NEW l, l = 0 \/ l \in DOMAIN link, place = "verify" => l \in DOMAIN link /\ ~GoodLink(l),
         Enter(q, call, [at |-> place, member |-> m, code |-> code, link |-> l, before |-> member[m]]),
         AccessRows', AccessGrow, sockets' = sockets, UNCHANGED <<member, link, expired, issued>>
  PROVE  AccessInv'
<1> DEFINE rec == [at |-> place, member |-> m, code |-> code, link |-> l, before |-> member[m]]
<1>1. /\ DOMAIN rec = {"at", "member", "code", "link", "before"} /\ rec.at = place /\ rec.member = m
      /\ rec.code = code /\ rec.link = l /\ rec.before = member[m]
  OBVIOUS
<1>2. Enter(q, call, rec)
  OBVIOUS
<1> HIDE DEF rec
<1>3. Others(q) /\ req'[q] = rec
  BY <1>2, EnterGives DEF AccessInv, Common
<1>4. member[m] \in MemberRow /\ member[m].secret \in 0..issued
  BY DEF AccessInv, AccessRows, AccessTypeOK
<1>5. member[m].secret <= issued
  BY <1>4, RowsCounted DEF AccessInv
<1>6. ~GoodLink(l) => ~GoodLink(req[q].link)'
  BY <1>1, <1>3 DEF GoodLink
<1>7. Has(q, {"member", "code", "link", "before"})' /\ Row(q)' = member[m]
  BY <1>1, <1>3 DEF Has, Row
<1>8. Entering(q)'
  BY <1>1, <1>3, <1>4, <1>5, <1>6, <1>7 DEF Entering, At
<1>9. Managing(q)'
  BY <1>1, <1>3 DEF Managing, At
<1> QED BY <1>1, <1>3, <1>8, <1>9, AccessMove DEF AccessReq

LEMMA LoginKeeps ==
  ASSUME AccessInv, NEW q \in Reqs, Common', Login(q)
  PROVE  AccessInv'
<1>1. UNCHANGED <<member, session, link, invite, apiKey, team, ticket, expired, issued,
                 sockets, entries, upsets>>
  BY DEF Login
<1>2. PICK m \in Members :
       /\ attempts' = IF ~allow(m) THEN attempts
                       ELSE Put(attempts, m, IF m \in DOMAIN attempts THEN attempts[m] + 1 ELSE 1)
       /\ IF allow(m) /\ verifyCredentials(m)
          THEN \E code \in 0..issued :
                 Enter(q, "login", [at |-> "mfa", member |-> m, code |-> code,
                                    link |-> 0, before |-> member[m]])
          ELSE Called(q, "login") /\ Return(q)
  BY DEF Login
<1>3. \A n \in DOMAIN attempts' : attempts'[n] \in 1..LoginLimit
  <2>1. /\ \A n \in DOMAIN attempts : attempts[n] \in 1..LoginLimit
        /\ LoginLimit \in Nat \ {0}
    BY AccessAssumption DEF AccessInv, AccessRows, AccessTypeOK
  <2> DEFINE n1 == IF m \in DOMAIN attempts THEN attempts[m] + 1 ELSE 1
  <2>2. allow(m) => n1 \in 1..LoginLimit
    BY <2>1 DEF allow
  <2>3. attempts' = IF ~allow(m) THEN attempts ELSE Put(attempts, m, n1)
    BY <1>2
  <2> HIDE DEF n1
  <2> QED BY <2>1, <2>2, <2>3 DEF Put
<1>4. team \subseteq DOMAIN member /\ AccessRows
  BY DEF AccessInv, AccessRows, AccessTypeOK
<1>5. AccessRows' /\ AccessGrow
  BY <1>1, <1>3, <1>4, Aged
<1>6. CASE Return(q)
  BY <1>1, <1>5, <1>6, AccessEnds
<1>7. CASE m \in DOMAIN member /\ \E code \in 0..issued :
                 Enter(q, "login", [at |-> "mfa", member |-> m, code |-> code,
                                    link |-> 0, before |-> member[m]])
  BY <1>1, <1>5, <1>7, AtTheGate
<1> QED BY <1>2, <1>6, <1>7 DEF verifyCredentials

LEMMA PeekMagicLinkKeeps ==
  ASSUME AccessInv, NEW q \in Reqs, Common', PeekMagicLink(q)
  PROVE  AccessInv'
<1>1. UNCHANGED accessVars
  BY DEF PeekMagicLink
<1>2. AccessRows' /\ AccessGrow /\ sockets' = sockets /\ UNCHANGED <<member, link, expired, issued>>
  BY <1>1, AccessUnchanged DEF AccessInv, accessVars
<1>3. PICK l \in DOMAIN link, code \in 0..issued :
       Enter(q, "verifyLink", [at |-> IF GoodLink(l) THEN "mfa" ELSE "verify",
              member |-> link[l].member, code |-> code, link |-> l,
              before |-> member[link[l].member]])
  BY DEF PeekMagicLink
<1>4. PICK m : m = link[l].member
  OBVIOUS
<1>5. PICK place : place = IF GoodLink(l) THEN "mfa" ELSE "verify"
  OBVIOUS
<1>6. Enter(q, "verifyLink", [at |-> place, member |-> m, code |-> code, link |-> l, before |-> member[m]])
  BY <1>3, <1>4, <1>5
<1>7. place \in {"mfa", "verify"} /\ (place = "verify" => ~GoodLink(l))
  BY <1>5
<1>8. m \in DOMAIN member
  BY <1>4 DEF AccessInv, AccessRows
<1> QED BY <1>2, <1>6, <1>7, <1>8, AtTheGate


\* What is held at one of the places of a login.
LEMMA Held ==
  ASSUME AccessInv, NEW q \in Reqs, req[q].at \in {"mfa", "code", "verify", "use", "enter"}
  PROVE  /\ Has(q, {"member", "code", "link", "before"})
         /\ req[q].member \in DOMAIN member /\ req[q].before \in MemberRow
         /\ Row(q) \in MemberRow
         /\ req[q].before.secret <= issued
         /\ Guarded(req[q].before) => Row(q) = req[q].before \/ Row(q).secret # req[q].before.secret
         /\ req[q].link = 0 \/ req[q].link \in DOMAIN link
         /\ req[q].at \in {"verify", "use"} => req[q].link \in DOMAIN link
         /\ req[q].at = "verify" => Answered(q) \/ ~GoodLink(req[q].link)
         /\ req[q].at \in {"use", "enter"} => Answered(q)
<1>1. Entering(q)
  BY DEF AccessInv, AccessReq
<1>2. req[q].member \in DOMAIN member => Row(q) \in MemberRow
  BY DEF Row, AccessInv, AccessRows, AccessTypeOK
<1> QED BY <1>1, <1>2 DEF Entering, At

\* The login goes on, with the member as it was.
LEMMA LoginGoes ==
  ASSUME AccessInv, NEW q \in Reqs, Common', req[q].at \in {"mfa", "code", "verify", "use"},
         NEW place \in {"code", "verify", "use", "enter"}, Goto(q, place),
         place # "code" => Answered(q), place \in {"verify", "use"} => req[q].link \in DOMAIN link,
         UNCHANGED <<member, issued, sockets>>, DOMAIN link \subseteq DOMAIN link',
         AccessRows', AccessGrow
  PROVE  AccessInv'
<1>1. /\ Others(q) /\ req'[q].at = place /\ DOMAIN req'[q] = DOMAIN req[q]
      /\ \A f \in DOMAIN req[q] \ {"at"} : req'[q][f] = req[q][f]
  BY AccessOn
<1>2. /\ Has(q, {"member", "code", "link", "before"})
      /\ req[q].member \in DOMAIN member /\ req[q].before \in MemberRow
      /\ req[q].before.secret <= issued
      /\ Guarded(req[q].before) => Row(q) = req[q].before \/ Row(q).secret # req[q].before.secret
      /\ req[q].link = 0 \/ req[q].link \in DOMAIN link
  BY Held
<1>3. /\ Has(q, {"member", "code", "link", "before"})' /\ req'[q].member = req[q].member
      /\ req'[q].code = req[q].code /\ req'[q].link = req[q].link /\ req'[q].before = req[q].before
      /\ Row(q)' = Row(q)
  BY <1>1, <1>2 DEF Has, Row
<1>4. Answered(q) => Answered(q)'
  BY <1>3 DEF Answered, Guarded
<1>5. Entering(q)'
  BY <1>1, <1>2, <1>3, <1>4 DEF Entering, At, Guarded
<1>6. Managing(q)'
  BY <1>1 DEF Managing, At
<1> QED BY <1>1, <1>5, <1>6, AccessMove DEF AccessReq

LEMMA GateKeeps ==
  ASSUME AccessInv, NEW q \in Reqs, Common', MfaGate(q) \/ CheckCode(q) \/ VerifyMagicLink(q)
  PROVE  AccessInv'
<1>1. UNCHANGED accessVars
  BY DEF MfaGate, CheckCode, VerifyMagicLink
<1>2. AccessRows' /\ AccessGrow /\ UNCHANGED <<member, issued, sockets>> /\ DOMAIN link \subseteq DOMAIN link'
  BY <1>1, AccessUnchanged DEF AccessInv, accessVars
<1>3. CASE Return(q)
  BY <1>1, <1>3, AccessIdle
<1>4. CASE MfaGate(q)
  <2>1. At(q, "mfa") /\ req[q].at = "mfa"
    BY <1>4 DEF MfaGate, At
  <2>2. CASE Row(q).mfa /\ Goto(q, "code")
    BY <1>2, <2>1, <2>2, LoginGoes
  <2>3. CASE ~Row(q).mfa /\ Goto(q, IF req[q].link = 0 THEN "enter" ELSE "verify")
    <3>1. Answered(q)
      BY <2>1, <2>3, Held DEF Answered, Guarded
    <3>2. CASE req[q].link = 0
      <4>1. Goto(q, "enter")
        BY <2>3, <3>2
      <4> QED BY <1>2, <2>1, <3>1, <4>1, LoginGoes
    <3>3. CASE req[q].link # 0
      <4>1. Goto(q, "verify") /\ req[q].link \in DOMAIN link
        BY <2>1, <2>3, <3>3, Held
      <4> QED BY <1>2, <2>1, <3>1, <4>1, LoginGoes
    <3> QED BY <3>2, <3>3
  <2> QED BY <1>4, <2>2, <2>3 DEF MfaGate, Row
<1>5. CASE CheckCode(q) /\ ~Return(q)
  <2>1. /\ req[q].at = "code" /\ verifyTotp(Row(q).secret, req[q].code)
        /\ Goto(q, IF req[q].link = 0 THEN "enter" ELSE "verify")
    BY <1>5 DEF CheckCode, At, Row
  <2>2. Answered(q)
    BY <2>1 DEF Answered, verifyTotp
  <2>3. CASE req[q].link = 0
    <3>1. Goto(q, "enter")
      BY <2>1, <2>3
    <3> QED BY <1>2, <2>1, <2>2, <3>1, LoginGoes
  <2>4. CASE req[q].link # 0
    <3>1. Goto(q, "verify") /\ req[q].link \in DOMAIN link
      BY <2>1, <2>4, Held
    <3> QED BY <1>2, <2>1, <2>2, <3>1, LoginGoes
  <2> QED BY <2>3, <2>4
<1>6. CASE VerifyMagicLink(q) /\ ~Return(q)
  <2>1. req[q].at = "verify" /\ GoodLink(req[q].link) /\ Goto(q, "use")
    BY <1>6 DEF VerifyMagicLink, At
  <2>2. Answered(q) /\ req[q].link \in DOMAIN link
    BY <2>1, Held
  <2> QED BY <1>2, <2>1, <2>2, LoginGoes
<1> QED BY <1>3, <1>4, <1>5, <1>6

LEMMA UseMagicLinkKeeps ==
  ASSUME AccessInv, NEW q \in Reqs, Common', UseMagicLink(q)
  PROVE  AccessInv'
<1>1. /\ req[q].at = "use" /\ Goto(q, "enter") /\ link' = [link EXCEPT ![req[q].link].used = TRUE]
      /\ UNCHANGED <<member, session, invite, apiKey, team, ticket, attempts, expired, issued, sockets, entries>>
  BY DEF UseMagicLink, At
<1>2. Answered(q) /\ req[q].link \in DOMAIN link
  BY <1>1, Held
<1>3. /\ DOMAIN link' = DOMAIN link
      /\ \A l \in DOMAIN link : link'[l] = link[l] \/ link'[l] = [link[l] EXCEPT !.used = TRUE]
  BY <1>1
<1>4. team \subseteq DOMAIN member /\ AccessRows /\ \A m \in DOMAIN attempts : attempts[m] \in 1..LoginLimit
  BY DEF AccessInv, AccessRows, AccessTypeOK
<1>5. AccessRows' /\ AccessGrow
  BY <1>1, <1>3, <1>4, Aged
<1> QED BY <1>1, <1>2, <1>3, <1>5, LoginGoes

LEMMA EnterSessionKeeps ==
  ASSUME AccessInv, NEW q \in Reqs, Common', EnterSession(q)
  PROVE  AccessInv'
<1>1. /\ req[q].at = "enter" /\ Return(q) /\ Admit(req[q].member, req[q].link, req[q].before, req[q].code)
      /\ UNCHANGED <<member, link, invite, apiKey, team, ticket, attempts, expired, sockets>>
  BY DEF EnterSession, At
<1>2. req[q].member \in DOMAIN member /\ Answered(q)
  BY <1>1, Held
<1>3. Guarded(req[q].before) /\ req[q].before = member[req[q].member] =>
        req[q].code = member[req[q].member].secret
  BY <1>2 DEF Answered, Row
<1>4. AccessRows' /\ AccessGrow
  BY <1>1, <1>2, <1>3, Admitted DEF AccessInv
<1> QED BY <1>1, <1>4, AccessEnds

LEMMA RequestMagicLinkKeeps ==
  ASSUME AccessInv, NEW q \in Reqs, Common', RequestMagicLink(q)
  PROVE  AccessInv'
<1>1. /\ Return(q) /\ issued + 1 <= MaxTokens /\ issued' = issued + 1
      /\ \E m \in DOMAIN member : link' = Put(link, issued + 1, [member |-> m, used |-> FALSE])
      /\ UNCHANGED <<member, session, invite, apiKey, team, ticket, attempts, expired, sockets, entries>>
  BY DEF RequestMagicLink, Fresh
<1>2. AccessRows' /\ AccessGrow
  BY <1>1, Handed DEF AccessInv
<1> QED BY <1>1, <1>2, AccessEnds

LEMMA GoogleKeeps ==
  ASSUME AccessInv, NEW q \in Reqs, Common', HandleGoogleCallback(q)
  PROVE  AccessInv'
<1>1. UNCHANGED accessVars
  BY DEF HandleGoogleCallback
<1>2. AccessRows' /\ AccessGrow /\ sockets' = sockets /\ member' = member
  BY <1>1, AccessUnchanged DEF AccessInv, accessVars
<1>3. PICK m \in exchange : Enter(q, "google", [at |-> IF m \in DOMAIN member THEN "sso" ELSE "join",
                                               member |-> m])
  BY DEF HandleGoogleCallback
<1>4. PICK place : place = IF m \in DOMAIN member THEN "sso" ELSE "join"
  OBVIOUS
<1> DEFINE rec == [at |-> place, member |-> m]
<1>5. Enter(q, "google", rec) /\ DOMAIN rec = {"at", "member"} /\ rec.at = place /\ rec.member = m
  BY <1>3, <1>4
<1> HIDE DEF rec
<1>6. Others(q) /\ req'[q] = rec
  BY <1>5, EnterGives DEF AccessInv, Common
<1>7. (place = "sso" /\ m \in DOMAIN member) \/ place = "join"
  BY <1>4
<1>8. AccessReq(q)'
  BY <1>2, <1>5, <1>6, <1>7 DEF AccessReq, Entering, Managing, At, Has
<1>9. req'[q].at # "subscribe"
  BY <1>5, <1>6, <1>7
<1> QED BY <1>2, <1>6, <1>8, <1>9, AccessMove

LEMMA NewMemberRow ==
  ASSUME NEW role \in DOMAIN MATRIX, NEW password \in BOOLEAN
  PROVE  LET row == [role |-> role, password |-> password, secret |-> NoSecret, mfa |-> FALSE]
         IN  row \in MemberRow /\ row.secret = NoSecret /\ row.role = role
BY AccessAssumption DEF MemberRow, NoSecret

LEMMA JoinBySsoKeeps ==
  ASSUME AccessInv, NEW q \in Reqs, Common', JoinBySso(q)
  PROVE  AccessInv'
<1>1. /\ At(q, "join")
      /\ UNCHANGED <<session, link, invite, apiKey, team, ticket, attempts, expired, issued, sockets, entries>>
      /\ DOMAIN req = Reqs /\ "at" \in DOMAIN req[q]
  BY DEF JoinBySso, AccessInv, Common, Has
<1> DEFINE row == [role |-> "member", password |-> FALSE, secret |-> NoSecret, mfa |-> FALSE]
<1>2. PICK m \in Members \ DOMAIN member : member' = Put(member, m, row) /\ GotoWith(q, "sso", [member |-> m])
  BY DEF JoinBySso
<1>3. row \in MemberRow /\ row.secret = NoSecret
  <2>1. "member" \in DOMAIN MATRIX
    BY DEF MATRIX
  <2> QED BY <2>1, NewMemberRow
<1> HIDE DEF row
<1>4. AccessRows' /\ AccessGrow /\ DOMAIN member' = DOMAIN member \cup {m}
  BY <1>1, <1>2, <1>3, Joined DEF AccessInv
<1> DEFINE rec == [member |-> m]
<1>5. GotoWith(q, "sso", rec) /\ DOMAIN rec = {"member"} /\ rec.member = m
  BY <1>2
<1> HIDE DEF rec
<1>6. /\ Others(q) /\ DOMAIN req'[q] = DOMAIN req[q] \cup DOMAIN rec /\ req'[q].at = "sso"
      /\ \A f \in DOMAIN rec : req'[q][f] = rec[f]
  BY <1>1, <1>5, GotoWithGives
<1>7. AccessReq(q)'
  BY <1>4, <1>5, <1>6 DEF AccessReq, Entering, Managing, At, Has
<1> QED BY <1>1, <1>4, <1>6, <1>7, AccessMove

LEMMA EnterBySsoKeeps ==
  ASSUME AccessInv, NEW q \in Reqs, Common', EnterBySso(q)
  PROVE  AccessInv'
<1>1. /\ At(q, "sso") /\ Return(q) /\ Admit(req[q].member, -1, member[req[q].member], 0)
      /\ UNCHANGED <<member, link, invite, apiKey, team, ticket, attempts, expired, sockets>>
  BY DEF EnterBySso
<1>2. req[q].member \in DOMAIN member
  BY <1>1 DEF AccessInv, AccessReq, Entering
<1>3. ~(-1 >= 0)
  OBVIOUS
<1>4. AccessRows' /\ AccessGrow
  BY <1>1, <1>2, <1>3, Admitted DEF AccessInv
<1> QED BY <1>1, <1>4, AccessEnds

-----------------------------------------------------------------------------
(* TOTP; sessions; invites, keys and the team; sockets. *)

LEMMA TotpKeeps ==
  ASSUME AccessInv, NEW q \in Reqs, Common', EnrollMfa(q) \/ EnableMfa(q) \/ DisableMfa(q)
  PROVE  AccessInv'
<1>1. Return(q) /\ sockets' = sockets
  BY DEF EnrollMfa, EnableMfa, DisableMfa, UpdateMember
<1>2. AccessRows' /\ AccessGrow
  <2>1. CASE EnrollMfa(q)
    <3>1. /\ req[q].who \in DOMAIN member /\ UpdateMember(req[q].who, issued + 1, FALSE)
          /\ issued + 1 <= MaxTokens /\ issued' = issued + 1
      BY <2>1 DEF EnrollMfa, generateSecret, Fresh
    <3> QED BY <3>1, Updated DEF AccessInv
  <2>2. CASE EnableMfa(q)
    <3>1. issued' = issued /\ UpdateMember(req[q].who, member[req[q].who].secret, TRUE)
      BY <2>2 DEF EnableMfa
    <3>2. req[q].who \in DOMAIN member
      BY <2>2 DEF EnableMfa, AccessInv, AccessReq, Managing
    <3> QED BY <3>1, <3>2, Updated DEF AccessInv
  <2>3. CASE DisableMfa(q)
    <3>1. req[q].who \in DOMAIN member /\ issued' = issued /\ UpdateMember(req[q].who, NoSecret, FALSE)
      BY <2>3 DEF DisableMfa
    <3> QED BY <3>1, Updated DEF AccessInv
  <2> QED BY <2>1, <2>2, <2>3
<1> QED BY <1>1, <1>2, AccessEnds

LEMMA ConfirmMfaKeeps ==
  ASSUME AccessInv, NEW q \in Reqs, Common', ConfirmMfa(q)
  PROVE  AccessInv'
<1>1. UNCHANGED accessVars
  BY DEF ConfirmMfa
<1>2. AccessRows' /\ AccessGrow /\ sockets' = sockets /\ member' = member
  BY <1>1, AccessUnchanged DEF AccessInv, accessVars
<1>3. CASE Return(q)
  BY <1>1, <1>3, AccessIdle
<1>4. CASE req[q].who \in DOMAIN member /\ Goto(q, "enable")
  <2>1. Has(q, {"who"})
    BY DEF ConfirmMfa, Authed, AccessInv, AccessReq, Managing
  <2>2. /\ Others(q) /\ req'[q].at = "enable" /\ DOMAIN req'[q] = DOMAIN req[q]
        /\ \A f \in DOMAIN req[q] \ {"at"} : req'[q][f] = req[q][f]
    BY <1>4, AccessOn
  <2>3. AccessReq(q)'
    BY <1>2, <1>4, <2>1, <2>2 DEF AccessReq, Entering, Managing, At, Has
  <2> QED BY <1>2, <2>2, <2>3, AccessMove
<1> QED BY <1>3, <1>4 DEF ConfirmMfa

LEMMA SessionsKeep ==
  ASSUME AccessInv, NEW q \in Reqs, Common', Logout(q) \/ RevokeSessions(q)
  PROVE  AccessInv'
<1>1. /\ Return(q)
      /\ UNCHANGED <<member, link, invite, apiKey, team, ticket, attempts, expired, issued, sockets, entries>>
  BY DEF Logout, RevokeSessions
<1>2. \E gone : session' = [s \in DOMAIN session \ gone |-> session[s]]
  BY DEF Logout, RevokeSessions
<1>3. /\ DOMAIN session' \subseteq DOMAIN session
      /\ \A s \in DOMAIN session' : session'[s] = session[s]
  BY <1>2
<1>4. AccessRows' /\ AccessGrow
  BY <1>1, <1>3, SessionsShrink DEF AccessInv
<1> QED BY <1>1, <1>4, AccessEnds

LEMMA CreateInviteKeeps ==
  ASSUME AccessInv, NEW q \in Reqs, Common', CreateInvite(q)
  PROVE  AccessInv'
<1>1. UNCHANGED accessVars
  BY DEF CreateInvite
<1>2. AccessRows' /\ AccessGrow /\ sockets' = sockets
  BY <1>1, AccessUnchanged DEF AccessInv, accessVars
<1>3. CASE Return(q)
  BY <1>1, <1>3, AccessIdle
<1>4. CASE Goto(q, "writeInvite")
  <2>1. Others(q) /\ req'[q].at = "writeInvite"
    BY <1>4, AccessOn
  <2>2. AccessReq(q)'
    BY <2>1 DEF AccessReq, Entering, Managing, At
  <2> QED BY <1>2, <2>1, <2>2, AccessMove
<1> QED BY <1>3, <1>4 DEF CreateInvite

LEMMA HandedKeeps ==
  ASSUME AccessInv, NEW q \in Reqs, Common', WriteInvite(q) \/ IssueApiKey(q) \/ IssueWsTicket(q)
  PROVE  AccessInv'
<1>1. Return(q) /\ UNCHANGED <<member, session, team, attempts, expired, entries, sockets>>
  BY DEF WriteInvite, IssueApiKey, IssueWsTicket
<1>2. AccessRows' /\ AccessGrow
  <2>1. CASE WriteInvite(q)
    <3>1. /\ issued + 1 <= MaxTokens /\ issued' = issued + 1 /\ UNCHANGED <<link, apiKey, ticket>>
          /\ \E role \in DOMAIN MATRIX :
               invite' = Put(invite, issued + 1, [status |-> "pending", role |-> role, acceptedMember |-> "none"])
      BY <2>1 DEF WriteInvite, Fresh, MATRIX
    <3> QED BY <1>1, <3>1, Handed DEF AccessInv
  <2>2. CASE IssueApiKey(q)
    <3>1. UNCHANGED <<link, invite, ticket>>
      BY <2>2 DEF IssueApiKey
    <3>2. CASE issued + 1 <= MaxTokens /\ issued' = issued + 1 /\ apiKey' = Put(apiKey, issued + 1, FALSE)
      BY <1>1, <3>1, <3>2, Handed DEF AccessInv
    <3>3. CASE UNCHANGED <<issued, apiKey>>
      <4>1. team \subseteq DOMAIN member /\ AccessRows /\ \A m \in DOMAIN attempts : attempts[m] \in 1..LoginLimit
        BY DEF AccessInv, AccessRows, AccessTypeOK
      <4> QED BY <1>1, <3>1, <3>3, <4>1, Aged
    <3> QED BY <2>2, <3>2, <3>3 DEF IssueApiKey, Fresh
  <2>3. CASE IssueWsTicket(q)
    <3>1. /\ issued + 1 <= MaxTokens /\ issued' = issued + 1 /\ UNCHANGED <<link, invite, apiKey>>
          /\ \E who : ticket' = Put(ticket, issued + 1, who)
      BY <2>3 DEF IssueWsTicket, Fresh
    <3> QED BY <1>1, <3>1, Handed DEF AccessInv
  <2> QED BY <2>1, <2>2, <2>3
<1> QED BY <1>1, <1>2, AccessEnds

LEMMA AcceptInviteKeeps ==
  ASSUME AccessInv, NEW q \in Reqs, Common', AcceptInvite(q)
  PROVE  AccessInv'
<1>1. UNCHANGED accessVars
  BY DEF AcceptInvite
<1>2. AccessRows' /\ AccessGrow /\ sockets' = sockets /\ invite' = invite
  BY <1>1, AccessUnchanged DEF AccessInv, accessVars
<1>3. CASE Return(q)
  BY <1>1, <1>3, AccessIdle
<1>4. CASE \E i \in DOMAIN invite : Enter(q, "accept", [at |-> "joinInvite", invite |-> i])
  <2>1. PICK i \in DOMAIN invite : Enter(q, "accept", [at |-> "joinInvite", invite |-> i])
    BY <1>4
  <2>2. Others(q) /\ req'[q] = [at |-> "joinInvite", invite |-> i]
    BY <2>1, EnterGives DEF AccessInv, Common
  <2>3. AccessReq(q)'
    BY <1>2, <2>2 DEF AccessReq, Entering, Managing, At, Has
  <2>4. req'[q].at # "subscribe"
    BY <2>2
  <2> QED BY <1>2, <2>2, <2>3, <2>4, AccessMove
<1> QED BY <1>3, <1>4 DEF AcceptInvite

LEMMA JoinByInviteKeeps ==
  ASSUME AccessInv, NEW q \in Reqs, Common', JoinByInvite(q)
  PROVE  AccessInv'
<1>1. /\ At(q, "joinInvite")
      /\ UNCHANGED <<session, link, invite, apiKey, team, ticket, attempts, expired, issued, sockets, entries>>
      /\ DOMAIN req = Reqs /\ "at" \in DOMAIN req[q]
  BY DEF JoinByInvite, AccessInv, Common, Has
<1>2. Has(q, {"invite"}) /\ req[q].invite \in DOMAIN invite /\ invite[req[q].invite] \in InviteRow
  BY <1>1 DEF AccessInv, AccessReq, Managing, AccessRows, AccessTypeOK, At
<1>3. PICK m \in Members \ DOMAIN member, password \in BOOLEAN :
        /\ member' = Put(member, m, [role |-> invite[req[q].invite].role, password |-> password,
                                     secret |-> NoSecret, mfa |-> FALSE])
        /\ GotoWith(q, "closeInvite", [member |-> m])
  BY DEF JoinByInvite
<1>4. PICK role \in DOMAIN MATRIX : role = invite[req[q].invite].role
  BY <1>2 DEF InviteRow
<1> DEFINE row == [role |-> role, password |-> password, secret |-> NoSecret, mfa |-> FALSE]
<1>5. row \in MemberRow /\ row.secret = NoSecret /\ row.role = role
  BY NewMemberRow
<1>6. member' = Put(member, m, row)
  BY <1>3, <1>4
<1> HIDE DEF row
<1>7. AccessRows' /\ AccessGrow /\ DOMAIN member' = DOMAIN member \cup {m} /\ member'[m] = row
  BY <1>1, <1>5, <1>6, Joined DEF AccessInv
<1> DEFINE rec == [member |-> m]
<1>8. GotoWith(q, "closeInvite", rec) /\ DOMAIN rec = {"member"} /\ rec.member = m
  BY <1>3
<1> HIDE DEF rec
<1>9. /\ Others(q) /\ DOMAIN req'[q] = DOMAIN req[q] \cup DOMAIN rec /\ req'[q].at = "closeInvite"
      /\ \A f \in DOMAIN rec : req'[q][f] = rec[f]
      /\ \A f \in DOMAIN req[q] \ (DOMAIN rec \cup {"at"}) : req'[q][f] = req[q][f]
  BY <1>1, <1>8, GotoWithGives
<1>10. /\ Has(q, {"invite", "member"})' /\ req'[q].member = m /\ req'[q].invite = req[q].invite
  BY <1>2, <1>8, <1>9 DEF Has
<1>11. AccessReq(q)'
  BY <1>1, <1>2, <1>4, <1>5, <1>7, <1>9, <1>10 DEF AccessReq, Entering, Managing, At, Has
<1> QED BY <1>1, <1>7, <1>9, <1>11, AccessMove

LEMMA InvitesKeep ==
  ASSUME AccessInv, NEW q \in Reqs, Common', CloseInvite(q) \/ RevokeInvite(q)
  PROVE  AccessInv'
<1>1. \A i \in DOMAIN invite : invite[i] \in InviteRow
  BY DEF AccessInv, AccessRows, AccessTypeOK
<1>2. CASE CloseInvite(q)
  <2>1. /\ At(q, "closeInvite") /\ Return(q)
        /\ invite' = [invite EXCEPT ![req[q].invite].status = "accepted",
                                    ![req[q].invite].acceptedMember = req[q].member]
        /\ UNCHANGED <<member, session, link, apiKey, team, ticket, attempts, expired, issued, sockets, entries>>
    BY <1>2 DEF CloseInvite
  <2>2. /\ req[q].invite \in DOMAIN invite /\ req[q].member \in DOMAIN member
        /\ member[req[q].member].role = invite[req[q].invite].role
        /\ DOMAIN member \subseteq Members
    BY <2>1 DEF AccessInv, AccessReq, Managing, AccessRows, AccessTypeOK, At
  <2> DEFINE i == req[q].invite  m == req[q].member
             row == [[invite[i] EXCEPT !.status = "accepted"] EXCEPT !.acceptedMember = m]
  <2>3. /\ DOMAIN invite' = DOMAIN invite /\ invite'[i] = row
        /\ \A j \in DOMAIN invite \ {i} : invite'[j] = invite[j]
    BY <2>1, <2>2
  <2>4. row \in InviteRow /\ row.role = invite[i].role /\ row.acceptedMember = m
    BY <1>1, <2>2 DEF InviteRow
  <2> HIDE DEF row
  <2>5. \A j \in DOMAIN invite :
          /\ invite'[j] \in InviteRow /\ invite'[j].role = invite[j].role
          /\ \/ invite'[j] = invite[j] \/ invite'[j].status = "revoked"
             \/ /\ invite'[j].acceptedMember \in DOMAIN member
                /\ member[invite'[j].acceptedMember].role = invite[j].role
    BY <1>1, <2>2, <2>3, <2>4
  <2>6. AccessRows' /\ AccessGrow
    BY <2>1, <2>3, <2>5, InviteMarked DEF AccessInv
  <2> QED BY <2>1, <2>6, AccessEnds
<1>3. CASE RevokeInvite(q)
  <2>1. CASE Forbidden(q)
    BY <2>1, AccessIdle DEF Forbidden
  <2>2. CASE ~Forbidden(q)
    <3>1. /\ Return(q)
          /\ UNCHANGED <<member, session, link, apiKey, team, ticket, attempts, expired, issued, sockets, entries>>
      BY <1>3, <2>2 DEF RevokeInvite
    <3>2. PICK i \in DOMAIN invite : invite' = [invite EXCEPT ![i].status = "revoked"]
      BY <1>3, <2>2 DEF RevokeInvite
    <3> DEFINE row == [invite[i] EXCEPT !.status = "revoked"]
    <3>3. /\ DOMAIN invite' = DOMAIN invite /\ invite'[i] = row
          /\ \A j \in DOMAIN invite \ {i} : invite'[j] = invite[j]
      BY <3>2
    <3>4. row \in InviteRow /\ row.role = invite[i].role /\ row.status = "revoked"
      BY <1>1 DEF InviteRow
    <3> HIDE DEF row
    <3>5. \A j \in DOMAIN invite :
            /\ invite'[j] \in InviteRow /\ invite'[j].role = invite[j].role
            /\ invite'[j] = invite[j] \/ invite'[j].status = "revoked"
      BY <1>1, <3>3, <3>4
    <3>6. AccessRows' /\ AccessGrow
      BY <3>1, <3>3, <3>5, InviteMarked DEF AccessInv
    <3> QED BY <3>1, <3>6, AccessEnds
  <2> QED BY <2>1, <2>2
<1> QED BY <1>2, <1>3

LEMMA KeysAndTeamKeep ==
  ASSUME AccessInv, NEW q \in Reqs, Common', RevokeApiKey(q) \/ EditTeam(q)
  PROVE  AccessInv'
<1>1. CASE UNCHANGED accessVars /\ Return(q)
  BY <1>1, AccessIdle
<1>2. CASE ~(UNCHANGED accessVars /\ Return(q))
  <2>1. Return(q) /\ UNCHANGED <<member, session, link, invite, ticket, attempts, expired, issued, sockets, entries>>
    BY <1>2 DEF RevokeApiKey, EditTeam, Forbidden
  <2>2. DOMAIN apiKey' = DOMAIN apiKey
    BY <1>2 DEF RevokeApiKey, EditTeam, Forbidden
  <2>3. team \subseteq DOMAIN member /\ AccessRows /\ \A m \in DOMAIN attempts : attempts[m] \in 1..LoginLimit
    BY DEF AccessInv, AccessRows, AccessTypeOK
  <2>4. team' \subseteq DOMAIN member
    BY <1>2, <2>3 DEF RevokeApiKey, EditTeam, Forbidden
  <2>5. AccessRows' /\ AccessGrow
    BY <2>1, <2>2, <2>3, <2>4, Aged
  <2> QED BY <2>1, <2>5, AccessEnds
<1> QED BY <1>1, <1>2

\* One request comes to hold a ticket, which nobody else has.
LEMMA TicketGranted ==
  ASSUME AccessInv, NEW q \in Reqs, Others(q), NEW by, At(q, "subscribe")', Has(q, {"by"})', req'[q].by = by,
         UNCHANGED <<issued, sockets>>, DOMAIN ticket' \subseteq DOMAIN ticket,
         by = 0 \/ by \in DOMAIN ticket \ DOMAIN ticket'
  PROVE  Tickets'
<1>1. Tickets /\ DOMAIN ticket \subseteq 1..issued
  BY DEF AccessInv, AccessRows, AccessTypeOK
<1>2. \A t : Taken(t) => t \notin DOMAIN ticket /\ t \in 1..issued' \ DOMAIN ticket'
  BY DEF Taken
<1>3. by # 0 => by \in 1..issued' \ DOMAIN ticket' /\ by \in DOMAIN ticket
  BY <1>1
<1>4. \A v \in sockets' : v.by # 0 => v.by \in 1..issued' \ DOMAIN ticket' /\ v.by \notin DOMAIN ticket
  BY <1>1, <1>2 DEF Tickets
<1>5. \A p \in Reqs \ {q} : At(p, "subscribe")' =>
        /\ Has(p, {"by"})'
        /\ req'[p].by # 0 => /\ req'[p].by \in 1..issued' \ DOMAIN ticket' /\ req'[p].by \notin DOMAIN ticket
                             /\ \A v \in sockets' : v.by # req'[p].by
  <2>1. SUFFICES ASSUME NEW p \in Reqs \ {q}, At(p, "subscribe")'
                 PROVE  /\ Has(p, {"by"})'
                        /\ req'[p].by # 0 =>
                             /\ req'[p].by \in 1..issued' \ DOMAIN ticket' /\ req'[p].by \notin DOMAIN ticket
                             /\ \A v \in sockets' : v.by # req'[p].by
    OBVIOUS
  <2>2. req'[p] = req[p] /\ At(p, "subscribe")
    BY <2>1 DEF Others, At
  <2>3. Has(p, {"by"}) /\ (req[p].by # 0 => Taken(req[p].by) /\ \A v \in sockets : v.by # req[p].by)
    BY <1>1, <2>2 DEF Tickets
  <2> QED BY <1>2, <2>2, <2>3 DEF Has
<1>6. by # 0 => \A v \in sockets' : v.by # by
  BY <1>3, <1>4
<1>7. \A p, r \in Reqs :
        At(p, "subscribe")' /\ At(r, "subscribe")' /\ req'[p].by # 0 /\ req'[p].by = req'[r].by => p = r
  <2>1. SUFFICES ASSUME NEW p \in Reqs, NEW r \in Reqs, At(p, "subscribe")', At(r, "subscribe")',
                        req'[p].by # 0, req'[p].by = req'[r].by
                 PROVE  p = r
    OBVIOUS
  <2>2. CASE p # q /\ r # q
    <3>1. At(p, "subscribe") /\ At(r, "subscribe") /\ req[p].by # 0 /\ req[p].by = req[r].by
      BY <2>1, <2>2 DEF Others, At
    <3> QED BY <1>1, <3>1 DEF Tickets
  <2>3. CASE p = q /\ r # q
    BY <1>3, <1>5, <2>1, <2>3
  <2>4. CASE p # q /\ r = q
    BY <1>3, <1>5, <2>1, <2>4
  <2> QED BY <2>2, <2>3, <2>4
<1>8. TicketOpensOnce'
  BY <1>1 DEF Tickets, TicketOpensOnce
<1> QED BY <1>3, <1>4, <1>5, <1>6, <1>7, <1>8 DEF Tickets, Taken, At

LEMMA OpenSocketKeeps ==
  ASSUME AccessInv, NEW q \in Reqs, Common', OpenSocket(q)
  PROVE  AccessInv'
<1>1. /\ UNCHANGED <<member, session, link, invite, apiKey, team, attempts, expired, issued, sockets, entries>>
      /\ DOMAIN req = Reqs /\ "at" \in DOMAIN req[q]
  BY DEF OpenSocket, AccessInv, Common, Has
<1>2. DOMAIN ticket' \subseteq DOMAIN ticket
  BY DEF OpenSocket, Redeem
<1>3. team \subseteq DOMAIN member /\ AccessRows /\ \A m \in DOMAIN attempts : attempts[m] \in 1..LoginLimit
  BY DEF AccessInv, AccessRows, AccessTypeOK
<1>4. AccessRows' /\ AccessGrow
  BY <1>1, <1>2, <1>3, Aged
<1>5. CASE Return(q)
  BY <1>1, <1>4, <1>5, AccessEnds
<1>6. CASE \E t : GotoWith(q, "subscribe", [by |-> t]) /\ (t = 0 \/ t \in DOMAIN ticket \ DOMAIN ticket')
  <2>1. PICK t : GotoWith(q, "subscribe", [by |-> t]) /\ (t = 0 \/ t \in DOMAIN ticket \ DOMAIN ticket')
    BY <1>6
  <2> DEFINE rec == [by |-> t]
  <2>2. GotoWith(q, "subscribe", rec) /\ DOMAIN rec = {"by"} /\ rec.by = t
    BY <2>1
  <2> HIDE DEF rec
  <2>3. /\ Others(q) /\ DOMAIN req'[q] = DOMAIN req[q] \cup DOMAIN rec /\ req'[q].at = "subscribe"
        /\ \A f \in DOMAIN rec : req'[q][f] = rec[f]
    BY <1>1, <2>2, GotoWithGives
  <2>4. At(q, "subscribe")' /\ Has(q, {"by"})' /\ req'[q].by = t
    BY <2>2, <2>3 DEF At, Has
  <2>5. Tickets'
    BY <1>1, <1>2, <2>1, <2>3, <2>4, TicketGranted
  <2>6. AccessReq(q)'
    BY <2>3 DEF AccessReq, Entering, Managing, At
  <2> QED BY <1>4, <2>3, <2>5, <2>6, AccessAct
<1>7. \A t \in DOMAIN ticket : Redeem(t) => t \in DOMAIN ticket \ DOMAIN ticket'
  BY DEF Redeem
<1> QED BY <1>5, <1>6, <1>7 DEF OpenSocket

LEMMA SubscribeKeeps ==
  ASSUME AccessInv, NEW q \in Reqs, Common', Subscribe(q)
  PROVE  AccessInv'
<1>1. /\ At(q, "subscribe") /\ Return(q)
      /\ UNCHANGED <<member, session, link, invite, apiKey, team, ticket, attempts, expired, issued, entries>>
  BY DEF Subscribe
<1> DEFINE new == [by |-> req[q].by, request |-> q]
<1>2. sockets' = sockets \cup {new} /\ new.by = req[q].by /\ new.request = q
  BY DEF Subscribe
<1> HIDE DEF new
<1>3. Others(q) /\ req'[q].at = "done"
  BY <1>1, ReturnGives DEF AccessInv, Common
<1>4. team \subseteq DOMAIN member /\ AccessRows /\ \A m \in DOMAIN attempts : attempts[m] \in 1..LoginLimit
  BY DEF AccessInv, AccessRows, AccessTypeOK
<1>5. AccessRows' /\ AccessGrow
  BY <1>1, <1>4, Aged
<1>6. Tickets
  BY DEF AccessInv
<1>7. Has(q, {"by"}) /\ (req[q].by # 0 => Taken(req[q].by) /\ \A v \in sockets : v.by # req[q].by)
  BY <1>1, <1>6 DEF Tickets
<1>8. \A t : Taken(t) <=> Taken(t)'
  BY <1>1 DEF Taken
<1>9. \A v \in sockets' : v.by # 0 => Taken(v.by)
  BY <1>2, <1>6, <1>7 DEF Tickets
<1>10. \A p \in Reqs : At(p, "subscribe")' => p # q /\ req'[p] = req[p] /\ At(p, "subscribe")
  BY <1>3 DEF At, Others
<1>11. \A p \in Reqs : At(p, "subscribe")' =>
         /\ Has(p, {"by"})'
         /\ req'[p].by # 0 => Taken(req[p].by) /\ \A v \in sockets' : v.by # req'[p].by
  <2>1. SUFFICES ASSUME NEW p \in Reqs, At(p, "subscribe")'
                 PROVE  /\ Has(p, {"by"})'
                        /\ req'[p].by # 0 => Taken(req[p].by) /\ \A v \in sockets' : v.by # req'[p].by
    OBVIOUS
  <2>2. p # q /\ req'[p] = req[p] /\ At(p, "subscribe")
    BY <1>10, <2>1
  <2>3. Has(p, {"by"}) /\ (req[p].by # 0 => Taken(req[p].by) /\ \A v \in sockets : v.by # req[p].by)
    BY <1>6, <2>2 DEF Tickets
  <2>4. req[p].by # 0 => req[p].by # req[q].by
    BY <1>1, <1>6, <2>2 DEF Tickets
  <2> QED BY <1>2, <2>2, <2>3, <2>4 DEF Has
<1>12. \A p, r \in Reqs :
         At(p, "subscribe")' /\ At(r, "subscribe")' /\ req'[p].by # 0 /\ req'[p].by = req'[r].by => p = r
  BY <1>6, <1>10 DEF Tickets
<1>13. TicketOpensOnce'
  BY <1>2, <1>6, <1>7 DEF Tickets, TicketOpensOnce
<1>14. Tickets'
  BY <1>1, <1>9, <1>10, <1>11, <1>12, <1>13 DEF Tickets, Taken
<1>15. AccessReq(q)'
  BY <1>3 DEF AccessReq, Entering, Managing, At
<1> QED BY <1>3, <1>5, <1>14, <1>15, AccessAct

-----------------------------------------------------------------------------
(* Access as a whole. *)

LEMMA AccessKeeps ==
  ASSUME AccessInv, NEW q \in Reqs, Common', AccessHandler(q)
  PROVE  AccessInv'
<1>1. CASE AuthRoutes(q)
  BY <1>1, LoginKeeps, GateKeeps, EnterSessionKeeps, RequestMagicLinkKeeps, PeekMagicLinkKeeps,
     UseMagicLinkKeeps, HandedKeeps, SessionsKeep, TotpKeeps, ConfirmMfaKeeps, GoogleKeeps,
     JoinBySsoKeeps, EnterBySsoKeeps DEF AuthRoutes
<1>2. CASE InviteRoutes(q)
  BY <1>2, CreateInviteKeeps, HandedKeeps, InvitesKeep, AcceptInviteKeeps, JoinByInviteKeeps
     DEF InviteRoutes
<1>3. CASE ApiKeyRoutes(q) \/ TeamRoutes(q)
  BY <1>3, HandedKeeps, KeysAndTeamKeep DEF ApiKeyRoutes, TeamRoutes
<1> QED BY <1>1, <1>2, <1>3, AuthenticateKeeps, SessionsKeep, OpenSocketKeeps, SubscribeKeeps
        DEF AccessHandler, SessionRoutes

LEMMA AccessStart == ServerInit => AccessInv
<1> SUFFICES ASSUME ServerInit PROVE AccessInv
  OBVIOUS
<1>1. Common /\ AccessInit /\ \A q \in Reqs : At(q, "new")
  BY Start DEF ServerInit
<1>2. PICK mfa \in BOOLEAN :
        member = Just(Founder, [role |-> "admin", password |-> TRUE,
                                secret |-> IF mfa THEN 2 ELSE NoSecret, mfa |-> mfa])
  BY <1>1 DEF AccessInit
<1> DEFINE row == [role |-> "admin", password |-> TRUE, secret |-> IF mfa THEN 2 ELSE NoSecret, mfa |-> mfa]
<1>3. MaxTokens \in Nat \ {0, 1} /\ Founder \in Members /\ LoginLimit \in Nat \ {0}
  BY AccessAssumption
<1>4. 2 \in 0..MaxTokens /\ 0 \in 0..MaxTokens
  BY <1>3
<1>5. row \in MemberRow /\ row.secret \in 0..2
  BY <1>4 DEF MemberRow, MATRIX, NoSecret
<1>6. member = Just(Founder, row)
  BY <1>2
<1> HIDE DEF row
<1>7. DOMAIN member = {Founder} /\ member[Founder] = row
  BY <1>6 DEF Just
<1>8. DOMAIN session = {1} /\ session[1] = Founder /\ issued = 2
  BY <1>1 DEF AccessInit, Just
<1>9. DOMAIN link = {} /\ DOMAIN invite = {} /\ DOMAIN apiKey = {} /\ DOMAIN ticket = {} /\ DOMAIN attempts = {}
  BY <1>1 DEF AccessInit
<1>10. AccessTypeOK
  <2>1. UNION {DOMAIN session, DOMAIN link, DOMAIN invite, DOMAIN apiKey, DOMAIN ticket} \subseteq 1..issued
    BY <1>8, <1>9
  <2>2. issued \in 0..MaxTokens /\ team \subseteq DOMAIN member
    BY <1>1, <1>4, <1>8 DEF AccessInit
  <2> QED BY <1>3, <1>5, <1>7, <1>8, <1>9, <2>1, <2>2 DEF AccessTypeOK
<1>11. AccessRows
  BY <1>1, <1>5, <1>7, <1>8, <1>9, <1>10 DEF AccessRows, CodeWasChecked, AcceptedHasMember, AccessInit
<1>12. Tickets
  BY <1>1 DEF Tickets, TicketOpensOnce, AccessInit, At
<1>13. \A q \in Reqs : AccessReq(q)
  BY <1>1 DEF AccessReq, Entering, Managing, At
<1> QED BY <1>1, <1>11, <1>12, <1>13 DEF AccessInv

LEMMA AccessNext ==
  ASSUME AccessInv, [ServerNext]_vars
  PROVE  AccessInv'
<1>1. Common /\ Common'
  BY Steps DEF AccessInv
<1>2. AccessRows /\ team \subseteq DOMAIN member /\ \A m \in DOMAIN attempts : attempts[m] \in 1..LoginLimit
  BY DEF AccessInv, AccessRows, AccessTypeOK
<1> DEFINE away == \A q \in Reqs : req'[q] = req[q] \/ req'[q].at \notin AccessPlaces
<1>3. ASSUME away, UNCHANGED accessVars PROVE AccessInv'
  <2>1. AccessRows' /\ AccessGrow /\ sockets' = sockets
    BY <1>2, <1>3, AccessUnchanged DEF accessVars
  <2> QED BY <1>1, <1>3, <2>1, AccessPasses
<1>4. ASSUME NEW q \in Reqs, NEW places \in {RoomsPlaces, RosterPlaces, MemoryPlaces, VenturePlaces},
             Moves(q, places)
      PROVE  away
  <2>1. places \cap AccessPlaces = {} /\ "done" \notin AccessPlaces
    BY DEF AccessPlaces, RoomsPlaces, RosterPlaces, MemoryPlaces, VenturePlaces
  <2> QED BY <1>4, <2>1 DEF Moves, Others
<1>5. CASE \E q \in Reqs : AccessHandler(q)
  BY <1>1, <1>5, AccessKeeps
<1>6. CASE TimePasses /\ UNCHANGED req
  <2>1. /\ UNCHANGED <<member, session, link, invite, apiKey, team, ticket, issued, entries, sockets>>
        /\ expired \subseteq expired' /\ \A m \in DOMAIN attempts' : attempts'[m] \in 1..LoginLimit
    <3>1. CASE NextWindow
      <4>1. DOMAIN attempts' = {}
        BY <3>1 DEF NextWindow
      <4> QED BY <3>1, <4>1 DEF NextWindow
    <3>2. CASE \E token \in Tokens : Expire(token)
      BY <1>2, <3>2 DEF Expire
    <3> QED BY <1>6, <3>1, <3>2 DEF TimePasses
  <2>2. AccessRows' /\ AccessGrow
    BY <1>2, <2>1, Aged
  <2> QED BY <1>1, <1>6, <2>1, <2>2, AccessPasses
<1>7. CASE ServerRestarts /\ Dying
  <2>1. /\ UNCHANGED <<member, session, link, invite, apiKey, team, expired, issued, entries, sockets>>
        /\ DOMAIN ticket' = {} /\ DOMAIN attempts' = {}
    BY <1>7 DEF ServerRestarts, Restart
  <2>2. AccessRows' /\ AccessGrow
    BY <1>2, <2>1, Aged
  <2>3. away
    BY <1>7 DEF Dying, AccessPlaces
  <2> QED BY <1>1, <2>1, <2>2, <2>3, AccessPasses
<1>8. CASE UNCHANGED vars
  <2>1. away /\ UNCHANGED accessVars
    BY <1>8 DEF vars
  <2> QED BY <1>3, <2>1
<1> HIDE DEF away
<1>9. CASE \E q \in Reqs : \E places \in {RoomsPlaces, RosterPlaces, MemoryPlaces, VenturePlaces} :
             Moves(q, places) /\ UNCHANGED accessVars
  BY <1>3, <1>4, <1>9
<1> QED BY <1>1, <1>5, <1>6, <1>7, <1>8, <1>9, Steps

\* The code is asked for, a ticket opens one socket and an acceptance is a member, for any
\* members, requests and tokens, however they overlap, expire and die.
THEOREM DoorsAreHeld == Spec => []DoorsHold
<1>1. ServerInit => AccessInv
  BY AccessStart
<1>2. AccessInv /\ [ServerNext]_vars => AccessInv'
  BY AccessNext
<1>3. AccessInv => DoorsHold
  BY DEF AccessInv, AccessRows, Tickets, DoorsHold
<1> QED BY <1>1, <1>2, <1>3, PTL DEF Spec

-----------------------------------------------------------------------------
(* Rooms: what a request holds is there, and what is there stays. *)

Marker(k) == \E u \in Users, t \in DOMAIN thread : k = <<u, t>>
RoomsReq(q) ==
  /\ At(q, "insertThread") => Has(q, {"channel"}) /\ req[q].channel \in DOMAIN channel
  /\ At(q, "insertDm") => Has(q, {"peer"}) /\ req[q].peer \in Peers
  /\ req[q].at \in {"write", "mark"} =>
       Has(q, {"file", "size"}) /\ req[q].file \in DOMAIN file /\ req[q].size \in Sizes
  /\ At(q, "mark") => req[q].size \in whole[req[q].file]
  /\ At(q, "insertMessage") =>
       /\ Has(q, {"thread", "files", "told"}) /\ req[q].thread \in DOMAIN thread
       /\ req[q].files \subseteq DOMAIN file /\ req[q].told \subseteq MessagesOf(req[q].thread)
  /\ At(q, "markRead") =>
       Has(q, {"key", "now"}) /\ req[q].now \in 0..rows /\ Marker(req[q].key)
\* Rows are numbered, and no marker is of the future.
Numbered ==
  /\ UNION {DOMAIN channel, DOMAIN thread, DOMAIN file, DOMAIN message} \subseteq 1..rows
  /\ DOMAIN whole = DOMAIN file
  /\ \A k \in DOMAIN readAt : readAt[k] \in 0..rows
  /\ \A t \in DOMAIN thread : thread[t].channel \in {0} \cup DOMAIN channel
RoomsInv == Common /\ RoomsSound /\ Numbered /\ \A q \in Reqs : RoomsReq(q)

RoomsGrow ==
  /\ rows <= rows' /\ DOMAIN channel \subseteq DOMAIN channel' /\ DOMAIN thread \subseteq DOMAIN thread'
  /\ DOMAIN file \subseteq DOMAIN file' /\ \A f \in DOMAIN whole : whole[f] \subseteq whole'[f]
  /\ \A m \in DOMAIN message : m \in DOMAIN message' /\ message'[m] = message[m]

LEMMA RoomsReqKept ==
  ASSUME RoomsInv, RoomsGrow, rows' \in Nat, NEW q \in Reqs, req'[q] = req[q]
  PROVE  RoomsReq(q)'
<1>1. RoomsReq(q) /\ rows \in Nat /\ DOMAIN whole = DOMAIN file
  BY RoomsAssumption DEF RoomsInv, RoomsSound, RoomsTypeOK, Numbered
<1> QED BY <1>1 DEF RoomsReq, RoomsGrow, Has, At, MessagesOf, Marker

LEMMA RoomsAct ==
  ASSUME RoomsInv, NEW q \in Reqs, Common', Others(q), RoomsGrow,
         RoomsSound', Numbered', RoomsReq(q)'
  PROVE  RoomsInv'
<1>1. rows' \in Nat
  BY RoomsAssumption DEF RoomsSound, RoomsTypeOK
<1>2. \A p \in Reqs \ {q} : RoomsReq(p)'
  BY <1>1, RoomsReqKept DEF Others
<1> QED BY <1>2 DEF RoomsInv

\* Nothing of the rooms changes.
LEMMA RoomsAside ==
  ASSUME RoomsInv, Common', UNCHANGED <<channel, thread, note, file, whole, message, readAt, rows>>,
         \A q \in Reqs : req'[q] = req[q] \/ req'[q].at \notin RoomsPlaces
  PROVE  RoomsInv'
<1>1. RoomsSound' /\ Numbered'
  BY DEF RoomsInv, RoomsSound, RoomsTypeOK, UploadedWasWhole, MessagesOf, Numbered
<1>2. RoomsGrow /\ rows' \in Nat
  BY RoomsAssumption DEF RoomsGrow, RoomsInv, RoomsSound, RoomsTypeOK
<1>3. ASSUME NEW q \in Reqs PROVE RoomsReq(q)'
  <2>1. CASE req'[q] = req[q]
    BY <1>2, <2>1, RoomsReqKept
  <2>2. CASE req'[q].at \notin RoomsPlaces
    BY <2>2 DEF RoomsReq, RoomsPlaces, At
  <2> QED BY <2>1, <2>2
<1> QED BY <1>1, <1>3 DEF RoomsInv

\* A request that returned holds nothing.
LEMMA ReturnRooms ==
  ASSUME RoomsInv, NEW q \in Reqs, Return(q)
  PROVE  Others(q) /\ RoomsReq(q)' /\ req'[q].at \notin RoomsPlaces
<1>1. DOMAIN req = Reqs
  BY DEF RoomsInv, Common
<1>2. Others(q) /\ req'[q].at = "done"
  BY <1>1, ReturnGives
<1> QED BY <1>2 DEF RoomsReq, At, RoomsPlaces

\* A request that only read goes on with what it read.
LEMMA RoomsEnter ==
  ASSUME RoomsInv, NEW q \in Reqs, Common', UNCHANGED roomsVars, Others(q), RoomsReq(q)'
  PROVE  RoomsInv'
<1>1. RoomsSound' /\ Numbered'
  BY DEF RoomsInv, RoomsSound, RoomsTypeOK, UploadedWasWhole, MessagesOf, Numbered, roomsVars
<1>2. RoomsGrow
  BY RoomsAssumption DEF RoomsGrow, RoomsInv, RoomsSound, RoomsTypeOK, roomsVars
<1> QED BY <1>1, <1>2, RoomsAct

LEMMA NewThread ==
  ASSUME RoomsInv, NEW q \in Reqs, Common', Return(q), rows' = rows + 1, rows' <= MaxRows,
         NEW c, NEW p, thread' = Put(thread, rows + 1, [channel |-> c, peer |-> p]),
         (c \in DOMAIN channel /\ p = "none") \/ (c = 0 /\ p \in Peers),
         UNCHANGED <<channel, note, file, whole, message, readAt>>
  PROVE  RoomsInv'
<1>1. RoomsSound /\ Numbered /\ rows \in Nat
  BY RoomsAssumption DEF RoomsInv, RoomsSound, RoomsTypeOK
<1>2. /\ DOMAIN thread' = DOMAIN thread \cup {rows + 1} /\ thread'[rows + 1] = [channel |-> c, peer |-> p]
      /\ \A t \in DOMAIN thread : thread'[t] = thread[t]
  BY <1>1 DEF Put, Numbered
<1>3. thread'[rows + 1] \in ThreadRow /\ (p = "none") = (c \in DOMAIN channel)
  BY <1>1, <1>2, RoomsAssumption DEF ThreadRow, Numbered
<1>4. RoomsTypeOK'
  BY <1>1, <1>2, <1>3, RoomsAssumption DEF RoomsSound, RoomsTypeOK, Numbered, MessagesOf
<1>5. RoomsSound' /\ Numbered' /\ RoomsGrow
  BY <1>1, <1>2, <1>4 DEF RoomsSound, UploadedWasWhole, Numbered, RoomsGrow
<1> QED BY <1>5, ReturnRooms, RoomsAct

LEMMA NavKeeps ==
  ASSUME RoomsInv, NEW q \in Reqs, Common', NavRoutes(q) \/ DmRoutes(q)
  PROVE  RoomsInv'
<1>1. /\ RoomsSound /\ Numbered /\ RoomsReq(q) /\ DOMAIN req = Reqs /\ "at" \in DOMAIN req[q]
      /\ rows \in Nat
  BY RoomsAssumption DEF RoomsInv, Common, Has, RoomsSound, RoomsTypeOK
<1> USE DEF NewRow, Insert
<1>2. ASSUME CreateChannel(q) PROVE RoomsInv'
  <2>1. Return(q) /\ rows' = rows + 1 /\ rows' <= MaxRows
    BY <1>1, <1>2, RoomsAssumption DEF CreateChannel
  <2>2. /\ channel' = Put(channel, rows + 1, [archived |-> FALSE])
        /\ UNCHANGED <<thread, note, file, whole, message, readAt>>
    BY <1>2 DEF CreateChannel
  <2>3. RoomsTypeOK'
    BY <1>1, <2>1, <2>2, RoomsAssumption DEF RoomsSound, RoomsTypeOK, Numbered, Put, ChannelRow, MessagesOf, ThreadRow
  <2>4. RoomsSound' /\ Numbered' /\ RoomsGrow
    BY <1>1, <2>1, <2>2, <2>3 DEF RoomsSound, UploadedWasWhole, Numbered, Put, RoomsGrow
  <2> QED BY <2>1, <2>4, ReturnRooms, RoomsAct
<1>3. ASSUME SetChannelArchived(q) PROVE RoomsInv'
  <2>1. Return(q) /\ UNCHANGED <<thread, note, file, whole, message, readAt, rows>>
    BY <1>3 DEF SetChannelArchived
  <2>2. DOMAIN channel' = DOMAIN channel /\ \A c \in DOMAIN channel' : channel'[c] \in ChannelRow
    BY <1>1, <1>3 DEF SetChannelArchived, RoomsSound, RoomsTypeOK, ChannelRow
  <2>3. RoomsSound' /\ Numbered' /\ RoomsGrow
    BY <1>1, <2>1, <2>2 DEF RoomsSound, RoomsTypeOK, UploadedWasWhole, Numbered, RoomsGrow, MessagesOf
  <2> QED BY <2>1, <2>3, ReturnRooms, RoomsAct
<1>4. ASSUME CreateThread(q) PROVE RoomsInv'
  <2>1. PICK c \in DOMAIN channel : Enter(q, "thread", [at |-> "insertThread", channel |-> c])
    BY <1>4 DEF CreateThread
  <2>2. Others(q) /\ req'[q] = [at |-> "insertThread", channel |-> c]
    BY <1>1, <2>1, EnterGives
  <2>3. UNCHANGED roomsVars
    BY <1>4 DEF CreateThread
  <2>4. RoomsReq(q)'
    BY <2>2, <2>3 DEF RoomsReq, At, Has, roomsVars
  <2> QED BY <2>2, <2>3, <2>4, RoomsEnter
<1>5. ASSUME InsertThread(q) PROVE RoomsInv'
  <2>1. /\ Return(q) /\ rows' = rows + 1 /\ rows' <= MaxRows /\ req[q].channel \in DOMAIN channel
        /\ thread' = Put(thread, rows + 1, [channel |-> req[q].channel, peer |-> "none"])
        /\ UNCHANGED <<channel, note, file, whole, message, readAt>>
    BY <1>1, <1>5, RoomsAssumption DEF InsertThread, RoomsReq, At
  <2> QED BY <2>1, NewThread
<1>6. ASSUME GetDm(q) PROVE RoomsInv'
  <2>1. UNCHANGED roomsVars
    BY <1>6 DEF GetDm
  <2>2. CASE Return(q)
    BY <2>1, <2>2, RoomsEnter, ReturnRooms
  <2>3. CASE \E p \in Peers : Enter(q, "dm", [at |-> "insertDm", peer |-> p])
    <3>1. PICK p \in Peers : Enter(q, "dm", [at |-> "insertDm", peer |-> p])
      BY <2>3
    <3>2. Others(q) /\ req'[q] = [at |-> "insertDm", peer |-> p]
      BY <1>1, <3>1, EnterGives
    <3>3. RoomsReq(q)'
      BY <3>2 DEF RoomsReq, At, Has
    <3> QED BY <2>1, <3>2, <3>3, RoomsEnter
  <2> QED BY <1>6, <2>2, <2>3 DEF GetDm
<1>7. ASSUME InsertDm(q) PROVE RoomsInv'
  <2>1. /\ Return(q) /\ rows' = rows + 1 /\ rows' <= MaxRows /\ req[q].peer \in Peers
        /\ thread' = Put(thread, rows + 1, [channel |-> 0, peer |-> req[q].peer])
        /\ UNCHANGED <<channel, note, file, whole, message, readAt>>
    BY <1>1, <1>7, RoomsAssumption DEF InsertDm, RoomsReq, At
  <2> QED BY <2>1, NewThread
<1> QED BY <1>2, <1>3, <1>4, <1>5, <1>6, <1>7 DEF NavRoutes, DmRoutes

LEMMA NotesKeeps ==
  ASSUME RoomsInv, NEW q \in Reqs, Common', NotesRoutes(q)
  PROVE  RoomsInv'
<1>1. RoomsSound /\ Numbered /\ rows \in Nat
  BY RoomsAssumption DEF RoomsInv, RoomsSound, RoomsTypeOK
<1>2. /\ Return(q) /\ rows <= rows' /\ rows' \in 0..MaxRows
      /\ UNCHANGED <<channel, thread, file, whole, message, readAt>>
  BY <1>1, RoomsAssumption
     DEF NotesRoutes, CreateNote, UpdateNote, DeleteNote, Insert, NewRow, RoomsSound, RoomsTypeOK
<1>3. \A n \in DOMAIN note' : note'[n] \in NoteRow
  <2>1. CASE CreateNote(q)
    <3>1. note' = Put(note, NewRow, [title |-> "none", body |-> "none"])
      BY <2>1 DEF CreateNote
    <3> QED BY <1>1, <3>1 DEF Put, RoomsSound, RoomsTypeOK, NoteRow
  <2>2. CASE UpdateNote(q)
    <3>1. PICK n \in DOMAIN note, u \in Users, fields \in SUBSET {"title", "body"} :
            note' = [note EXCEPT ![n] = [f \in {"title", "body"} |-> IF f \in fields THEN u ELSE @[f]]]
      BY <2>2 DEF UpdateNote
    <3>2. [f \in {"title", "body"} |-> IF f \in fields THEN u ELSE note[n][f]] \in NoteRow
      BY <1>1 DEF RoomsSound, RoomsTypeOK, NoteRow
    <3> QED BY <1>1, <3>1, <3>2 DEF RoomsSound, RoomsTypeOK
  <2>3. CASE DeleteNote(q)
    BY <1>1, <2>3 DEF DeleteNote, RoomsSound, RoomsTypeOK
  <2> QED BY <2>1, <2>2, <2>3 DEF NotesRoutes
<1>4. RoomsSound' /\ Numbered' /\ RoomsGrow
  BY <1>1, <1>2, <1>3 DEF RoomsSound, RoomsTypeOK, UploadedWasWhole, Numbered, RoomsGrow, MessagesOf
<1> QED BY <1>2, <1>4, ReturnRooms, RoomsAct

\* What is told of a file is of a size that was wholly there.
LEMMA FilesKeeps ==
  ASSUME RoomsInv, NEW q \in Reqs, Common', fileStorageRoutes(q)
  PROVE  RoomsInv'
<1>1. /\ RoomsSound /\ Numbered /\ RoomsReq(q) /\ DOMAIN req = Reqs /\ "at" \in DOMAIN req[q]
      /\ rows \in Nat
  BY RoomsAssumption DEF RoomsInv, Common, Has, RoomsSound, RoomsTypeOK
<1>2. UNCHANGED <<channel, thread, note, message, readAt>>
  BY DEF fileStorageRoutes, CreateFile, PutContent, WriteFile, MarkUploaded
<1>3. CASE CreateFile(q)
  <2>1. Return(q) /\ rows' = rows + 1 /\ rows' <= MaxRows
    BY <1>1, <1>3, RoomsAssumption DEF CreateFile, Insert, NewRow
  <2>2. PICK declared \in Sizes \cup {0} :
          /\ file' = Put(file, rows + 1, [size |-> declared, uploaded |-> FALSE])
          /\ whole' = Put(whole, rows + 1, {})
    BY <1>3 DEF CreateFile, NewRow
  <2>3. /\ DOMAIN file' = DOMAIN file \cup {rows + 1} /\ DOMAIN whole' = DOMAIN whole \cup {rows + 1}
        /\ \A f \in DOMAIN file : file'[f] = file[f]
        /\ \A f \in DOMAIN whole : whole'[f] = whole[f]
        /\ file'[rows + 1] \in FileRow /\ ~file'[rows + 1].uploaded
    BY <1>1, <2>2 DEF Put, Numbered, FileRow
  <2>4. RoomsTypeOK'
    BY <1>1, <1>2, <2>1, <2>3, RoomsAssumption DEF RoomsSound, RoomsTypeOK, MessagesOf
  <2>5. RoomsSound' /\ Numbered' /\ RoomsGrow
    BY <1>1, <1>2, <2>1, <2>3, <2>4 DEF RoomsSound, UploadedWasWhole, Numbered, RoomsGrow
  <2> QED BY <2>1, <2>5, ReturnRooms, RoomsAct
<1>4. CASE PutContent(q)
  <2>1. PICK f \in DOMAIN file, size \in Sizes :
          Enter(q, "put", [at |-> "write", file |-> f, size |-> size])
    BY <1>4 DEF PutContent
  <2>2. Others(q) /\ req'[q] = [at |-> "write", file |-> f, size |-> size]
    BY <1>1, <2>1, EnterGives
  <2>3. UNCHANGED <<file, whole, rows>>
    BY <1>4 DEF PutContent
  <2>4. RoomsReq(q)'
    BY <2>2, <2>3 DEF RoomsReq, At, Has
  <2>5. RoomsSound' /\ Numbered' /\ RoomsGrow
    BY <1>1, <1>2, <2>3 DEF RoomsSound, RoomsTypeOK, UploadedWasWhole, Numbered, RoomsGrow, MessagesOf
  <2> QED BY <2>2, <2>4, <2>5, RoomsAct
<1>5. CASE WriteFile(q)
  <2>1. /\ At(q, "write") /\ Goto(q, "mark") /\ UNCHANGED <<file, rows>>
        /\ whole' = [whole EXCEPT ![req[q].file] = @ \cup {req[q].size}]
    BY <1>5 DEF WriteFile
  <2>2. Has(q, {"file", "size"}) /\ req[q].file \in DOMAIN file /\ req[q].size \in Sizes
    BY <1>1, <2>1 DEF RoomsReq, At
  <2>3. /\ Others(q) /\ DOMAIN req'[q] = DOMAIN req[q] /\ req'[q].at = "mark"
        /\ req'[q].file = req[q].file /\ req'[q].size = req[q].size
    BY <1>1, <2>1, <2>2, GotoGives DEF Has
  <2>4. /\ DOMAIN whole' = DOMAIN whole /\ \A f \in DOMAIN whole : whole[f] \subseteq whole'[f]
        /\ req[q].size \in whole'[req[q].file]
    BY <1>1, <2>1, <2>2 DEF Numbered
  <2>5. RoomsReq(q)'
    BY <2>1, <2>2, <2>3, <2>4 DEF RoomsReq, At, Has
  <2>6. RoomsTypeOK'
    BY <1>1, <1>2, <2>1 DEF RoomsSound, RoomsTypeOK, MessagesOf
  <2>7. RoomsSound' /\ Numbered' /\ RoomsGrow
    BY <1>1, <1>2, <2>1, <2>4, <2>6 DEF RoomsSound, UploadedWasWhole, Numbered, RoomsGrow
  <2> QED BY <2>3, <2>5, <2>7, RoomsAct
<1>6. CASE MarkUploaded(q)
  <2>1. /\ At(q, "mark") /\ Return(q) /\ UNCHANGED <<whole, rows>>
        /\ file' = [file EXCEPT ![req[q].file].size = req[q].size, ![req[q].file].uploaded = TRUE]
    BY <1>6 DEF MarkUploaded
  <2>2. /\ req[q].file \in DOMAIN file /\ req[q].size \in Sizes
        /\ req[q].size \in whole[req[q].file]
    BY <1>1, <2>1 DEF RoomsReq, At
  <2>3. /\ DOMAIN file' = DOMAIN file
        /\ \A f \in DOMAIN file : f # req[q].file => file'[f] = file[f]
        /\ file'[req[q].file] \in FileRow /\ file'[req[q].file].size = req[q].size
    BY <1>1, <2>1, <2>2 DEF RoomsSound, RoomsTypeOK, FileRow
  <2>6. \A f \in DOMAIN file' : file'[f] \in FileRow
    BY <1>1, <2>3 DEF RoomsSound, RoomsTypeOK
  <2>7. UNCHANGED <<channel, thread, note, message, readAt, rows>> /\ DOMAIN file' = DOMAIN file
    BY <1>2, <2>1, <2>3
  <2>4. RoomsTypeOK'
    BY <1>1, <2>6, <2>7 DEF RoomsSound, RoomsTypeOK, MessagesOf
  <2>5. RoomsSound' /\ Numbered' /\ RoomsGrow
    BY <1>1, <1>2, <2>1, <2>2, <2>3, <2>4 DEF RoomsSound, UploadedWasWhole, Numbered, RoomsGrow
  <2> QED BY <2>1, <2>5, ReturnRooms, RoomsAct
<1> QED BY <1>3, <1>4, <1>5, <1>6 DEF fileStorageRoutes

LEMMA MarkersKeep ==
  ASSUME RoomsInv, NEW q \in Reqs, Common', NotifyRoutes(q)
  PROVE  RoomsInv'
<1>1. /\ RoomsSound /\ Numbered /\ RoomsReq(q) /\ DOMAIN req = Reqs /\ rows \in Nat
  BY RoomsAssumption DEF RoomsInv, Common, RoomsSound, RoomsTypeOK
<1>2. CASE MarkRead(q)
  <2>1. PICK u \in Users, t \in DOMAIN thread :
          Enter(q, "read", [at |-> "markRead", key |-> <<u, t>>, now |-> rows])
    BY <1>2 DEF MarkRead
  <2> DEFINE k == <<u, t>>
  <2>2. Marker(k)
    BY DEF Marker
  <2>3. Enter(q, "read", [at |-> "markRead", key |-> k, now |-> rows])
    BY <2>1
  <2> HIDE DEF k
  <2>4. Others(q) /\ req'[q] = [at |-> "markRead", key |-> k, now |-> rows]
    BY <1>1, <2>3, EnterGives
  <2>5. UNCHANGED roomsVars
    BY <1>2 DEF MarkRead
  <2>6. Marker(req[q].key)'
    <3>1. req'[q].key = k /\ thread' = thread
      BY <2>4, <2>5 DEF roomsVars
    <3> QED BY <2>2, <3>1 DEF Marker
  <2>7. req'[q].now \in 0..rows' /\ Has(q, {"key", "now"})' /\ At(q, "markRead")'
    <3>1. req'[q].now = rows /\ rows' = rows
      BY <2>4, <2>5 DEF roomsVars
    <3>2. Has(q, {"key", "now"})' /\ At(q, "markRead")'
      BY <2>4 DEF Has, At
    <3> QED BY <1>1, <3>1, <3>2
  <2>8. RoomsReq(q)'
    BY <2>6, <2>7 DEF RoomsReq, At
  <2> QED BY <2>4, <2>5, <2>8, RoomsEnter
<1>3. CASE UpsertReadState(q)
  <2>1. /\ At(q, "markRead") /\ Return(q) /\ readAt' = Put(readAt, req[q].key, req[q].now)
        /\ UNCHANGED <<channel, thread, note, file, whole, message, rows>>
    BY <1>3 DEF UpsertReadState
  <2>2. Marker(req[q].key) /\ req[q].now \in 0..rows
    BY <1>1, <2>1 DEF RoomsReq, At
  <2>3. req[q].key[1] \in Users /\ req[q].key[2] \in DOMAIN thread
    BY <2>2 DEF Marker
  <2>4. \A k \in DOMAIN readAt' :
          readAt'[k] \in 0..rows /\ k[1] \in Users /\ k[2] \in DOMAIN thread
    BY <1>1, <2>1, <2>2, <2>3 DEF Put, RoomsSound, RoomsTypeOK, Numbered
  <2>5. RoomsTypeOK'
    BY <1>1, <2>1, <2>4 DEF RoomsSound, RoomsTypeOK, MessagesOf
  <2>6. RoomsSound' /\ Numbered' /\ RoomsGrow
    BY <1>1, <2>1, <2>4, <2>5 DEF RoomsSound, UploadedWasWhole, Numbered, RoomsGrow
  <2> QED BY <2>1, <2>6, ReturnRooms, RoomsAct
<1> QED BY <1>2, <1>3 DEF NotifyRoutes

\* A message goes to a thread there is, with files there are.
LEMMA MessagesKeep ==
  ASSUME RoomsInv, NEW q \in Reqs, Common', ThreadRoutes(q)
  PROVE  RoomsInv'
<1>1. /\ RoomsSound /\ Numbered /\ RoomsReq(q) /\ DOMAIN req = Reqs /\ rows \in Nat
  BY RoomsAssumption DEF RoomsInv, Common, RoomsSound, RoomsTypeOK
<1>2. ASSUME NEW call, NEW t \in DOMAIN thread, NEW told, told \subseteq MessagesOf(t),
             NEW files, files \subseteq DOMAIN file, UNCHANGED roomsVars,
             Enter(q, call, [at |-> "insertMessage", thread |-> t, told |-> told, files |-> files])
      PROVE  RoomsInv'
  <2>1. /\ Others(q)
        /\ req'[q] = [at |-> "insertMessage", thread |-> t, told |-> told, files |-> files]
    BY <1>1, <1>2, EnterGives
  <2>2. RoomsReq(q)'
    BY <1>2, <2>1 DEF RoomsReq, At, Has, MessagesOf, roomsVars
  <2> QED BY <1>2, <2>1, <2>2, RoomsEnter
<1>3. CASE ValidateFileIds(q)
  <2>1. PICK t \in DOMAIN thread, wanted \in SUBSET (1..MaxRows) :
          Enter(q, "attach", [at |-> "insertMessage", thread |-> t, told |-> {},
                              files |-> wanted \cap DOMAIN file])
    BY <1>3 DEF ValidateFileIds
  <2>2. UNCHANGED roomsVars
    BY <1>3 DEF ValidateFileIds
  <2> QED BY <1>2, <2>1, <2>2
<1>4. CASE SummarizeThread(q)
  <2>1. PICK t \in DOMAIN thread :
          Enter(q, "recap", [at |-> "insertMessage", thread |-> t, told |-> MessagesOf(t), files |-> {}])
    BY <1>4 DEF SummarizeThread
  <2>2. UNCHANGED roomsVars
    BY <1>4 DEF SummarizeThread
  <2> QED BY <1>2, <2>1, <2>2
<1>5. CASE InsertMessage(q)
  <2> DEFINE row == [thread |-> req[q].thread, told |-> req[q].told, attachments |-> req[q].files]
  <2>1. /\ At(q, "insertMessage") /\ Return(q) /\ rows' = rows + 1 /\ rows' <= MaxRows
        /\ message' = Put(message, rows + 1, row)
        /\ UNCHANGED <<channel, thread, note, file, whole, readAt>>
    BY <1>1, <1>5, RoomsAssumption DEF InsertMessage, Insert, NewRow
  <2>2. /\ req[q].thread \in DOMAIN thread /\ req[q].files \subseteq DOMAIN file
        /\ req[q].told \subseteq MessagesOf(req[q].thread)
    BY <1>1, <2>1 DEF RoomsReq, At
  <2>3. row \in MessageRow
    <3>1. /\ req[q].thread \in 1..MaxRows /\ req[q].files \subseteq 1..MaxRows
          /\ req[q].told \subseteq 1..MaxRows
      BY <1>1, <2>1, <2>2, RoomsAssumption DEF Numbered, MessagesOf
    <3> QED BY <3>1 DEF MessageRow
  <2>4. row.thread = req[q].thread /\ row.told = req[q].told /\ row.attachments = req[q].files
    OBVIOUS
  <2> HIDE DEF row
  <2>5. /\ DOMAIN message' = DOMAIN message \cup {rows + 1} /\ rows + 1 \notin DOMAIN message
        /\ message'[rows + 1] = row /\ \A m \in DOMAIN message : message'[m] = message[m]
    BY <1>1, <2>1 DEF Put, Numbered
  <2>6. \A t : {m \in DOMAIN message : message[m].thread = t} \subseteq
                 {m \in DOMAIN message' : message'[m].thread = t}
    BY <2>5
  <2>7. \A m \in DOMAIN message' :
          /\ message'[m] \in MessageRow /\ message'[m].thread \in DOMAIN thread
          /\ message'[m].attachments \subseteq DOMAIN file
          /\ message'[m].told \subseteq {n \in DOMAIN message' : message'[n].thread = message'[m].thread}
    BY <1>1, <2>2, <2>3, <2>4, <2>5, <2>6 DEF RoomsSound, RoomsTypeOK, MessagesOf
  <2>8. RoomsSound' /\ Numbered' /\ RoomsGrow
    BY <1>1, <2>1, <2>5, <2>7, RoomsAssumption
       DEF RoomsSound, RoomsTypeOK, UploadedWasWhole, Numbered, RoomsGrow, MessagesOf
  <2> QED BY <2>1, <2>8, ReturnRooms, RoomsAct
<1> QED BY <1>3, <1>4, <1>5 DEF ThreadRoutes

LEMMA RoomsKeeps ==
  ASSUME RoomsInv, NEW q \in Reqs, Common', RoomsHandler(q)
  PROVE  RoomsInv'
  BY NavKeeps, NotesKeeps, FilesKeeps, MarkersKeep, MessagesKeep DEF RoomsHandler

LEMMA RoomsNext ==
  ASSUME RoomsInv, [ServerNext]_vars
  PROVE  RoomsInv'
<1>1. Common
  BY DEF RoomsInv
<1> DEFINE aside == /\ UNCHANGED <<channel, thread, note, file, whole, message, readAt, rows>>
                    /\ \A q \in Reqs : req'[q] = req[q] \/ req'[q].at \notin RoomsPlaces
<1>2. Common'
  BY <1>1, Steps
<1>3. ASSUME aside PROVE RoomsInv'
  BY <1>2, <1>3, RoomsAside
<1>4. ASSUME NEW q \in Reqs, NEW places, Moves(q, places), UNCHANGED roomsVars,
             places \cap RoomsPlaces = {}
      PROVE  aside
  BY <1>4 DEF roomsVars, Moves, Others, RoomsPlaces
<1>5. CASE \E q \in Reqs : RoomsHandler(q)
  BY <1>2, <1>5, RoomsKeeps
<1>6. CASE TimePasses /\ UNCHANGED req
  <2>1. aside
    BY <1>6 DEF TimePasses, roomsVars
  <2> QED BY <1>3, <2>1
<1>7. CASE ServerRestarts /\ Dying
  <2>1. aside
    BY <1>7 DEF ServerRestarts, Dying, RoomsPlaces
  <2> QED BY <1>3, <2>1
<1>8. CASE UNCHANGED vars
  <2>1. aside
    BY <1>8 DEF vars, roomsVars
  <2> QED BY <1>3, <2>1
<1>9. /\ AccessPlaces \cap RoomsPlaces = {} /\ RosterPlaces \cap RoomsPlaces = {}
      /\ MemoryPlaces \cap RoomsPlaces = {} /\ VenturePlaces \cap RoomsPlaces = {}
  BY DEF AccessPlaces, RoomsPlaces, RosterPlaces, MemoryPlaces, VenturePlaces
<1> HIDE DEF aside
<1>10. CASE \E q \in Reqs : \E places : Moves(q, places) /\ UNCHANGED roomsVars
                                    /\ places \cap RoomsPlaces = {}
  BY <1>3, <1>4, <1>10
<1> QED BY <1>1, <1>5, <1>6, <1>7, <1>8, <1>9, <1>10, Steps

LEMMA RoomsStart ==
  ASSUME ServerInit
  PROVE  RoomsInv
<1>1. Common /\ \A q \in Reqs : RoomsReq(q)
  BY Start DEF RoomsReq, At
<1>2. RoomsInit
  BY DEF ServerInit
<1>3. RoomsSound
  BY <1>2, RoomsAssumption
     DEF RoomsInit, RoomsSound, RoomsTypeOK, UploadedWasWhole, ChannelRow, ThreadRow, Just
<1>4. Numbered
  BY <1>2 DEF RoomsInit, Numbered, Just
<1> QED BY <1>1, <1>3, <1>4 DEF RoomsInv

\* References are to rows there are, and a file shown as uploaded shows the size of an
\* upload that was wholly on disk, for any requests, uploads that overlap and restarts.
THEOREM RoomsSoundHolds == Spec => []RoomsSound
<1>1. ServerInit => RoomsInv
  BY RoomsStart
<1>2. RoomsInv /\ [ServerNext]_vars => RoomsInv'
  BY RoomsNext
<1> QED BY <1>1, <1>2, PTL DEF Spec, RoomsInv

\* A message is unread to everybody when it is posted: no marker is of the future, so
\* none written late covers the new row, for any number of readers and markers.
THEOREM PostedIsUnreadHolds == Spec => PostedIsUnread
<1> DEFINE Posted == \A u \in Users, t \in DOMAIN thread :
                       Cardinality(MessagesOf(t)') > Cardinality(MessagesOf(t)) =>
                         unreadCounts(u, t)' = unreadCounts(u, t) + 1
<1>1. ServerInit => RoomsInv
  BY RoomsStart
<1>2. RoomsInv /\ [ServerNext]_vars => RoomsInv'
  BY RoomsNext
<1>3. RoomsInv /\ [ServerNext]_vars => [Posted]_roomsVars
  <2> SUFFICES ASSUME RoomsInv, [ServerNext]_vars, NEW u \in Users, NEW t \in DOMAIN thread,
                      Cardinality(MessagesOf(t)') > Cardinality(MessagesOf(t))
               PROVE  unreadCounts(u, t)' = unreadCounts(u, t) + 1
    OBVIOUS
  <2> DEFINE last == lastReadAt(u, t)
             unread == {m \in MessagesOf(t) : m > last}
  <2>1. rows \in Nat /\ DOMAIN message \subseteq 1..rows /\ last \in 0..rows
    BY RoomsAssumption DEF RoomsInv, Numbered, RoomsSound, RoomsTypeOK, lastReadAt
  <2>2. IsFiniteSet(MessagesOf(t)) /\ IsFiniteSet(unread)
    <3>1. IsFiniteSet(1..rows)
      BY <2>1, FS_Interval
    <3>2. MessagesOf(t) \subseteq 1..rows /\ unread \subseteq 1..rows
      BY <2>1 DEF MessagesOf
    <3> QED BY <3>1, <3>2, FS_Subset
  <2>3. Cardinality(MessagesOf(t)) \in Nat /\ Cardinality(unread) \in Nat
    BY <2>2, FS_CardinalityType
  <2>4. message' # message
    <3>1. message' = message => MessagesOf(t)' = MessagesOf(t)
      BY DEF MessagesOf
    <3> QED BY <2>3, <3>1
  <2>5. PICK q \in Reqs : InsertMessage(q)
    BY <2>4 DEF ServerNext, vars, Handler, RoomsHandler, NavRoutes, CreateChannel,
          SetChannelArchived, CreateThread, InsertThread, DmRoutes, GetDm, InsertDm,
          NotesRoutes, CreateNote, UpdateNote, DeleteNote, fileStorageRoutes, CreateFile,
          PutContent, WriteFile, MarkUploaded, NotifyRoutes, MarkRead, UpsertReadState,
          ThreadRoutes, ValidateFileIds, SummarizeThread, TimePasses, ServerRestarts, roomsVars
  <2>6. PICK row : /\ message' = Put(message, rows + 1, row) /\ UNCHANGED readAt
    BY <2>5 DEF InsertMessage, NewRow
  <2>7. /\ DOMAIN message' = DOMAIN message \cup {rows + 1} /\ rows + 1 \notin DOMAIN message
        /\ message'[rows + 1] = row /\ \A m \in DOMAIN message : message'[m] = message[m]
    BY <2>1, <2>6 DEF Put
  <2>8. row.thread = t
    <3>1. row.thread # t => MessagesOf(t)' = MessagesOf(t)
      BY <2>7 DEF MessagesOf
    <3> QED BY <2>3, <3>1
  <2>9. MessagesOf(t)' = MessagesOf(t) \cup {rows + 1}
    BY <2>7, <2>8 DEF MessagesOf
  <2>10. lastReadAt(u, t)' = last
    BY <2>6 DEF lastReadAt
  <2>11. {m \in MessagesOf(t)' : m > last} = unread \cup {rows + 1} /\ rows + 1 \notin unread
    <3>1. MessagesOf(t) \subseteq 1..rows
      BY <2>1 DEF MessagesOf
    <3>2. rows + 1 > last /\ rows + 1 \notin 1..rows
      BY <2>1
    <3>3. {m \in MessagesOf(t) \cup {rows + 1} : m > last} = unread \cup {rows + 1}
      BY <3>2
    <3> QED BY <2>9, <3>1, <3>2, <3>3
  <2>12. Cardinality(unread \cup {rows + 1}) = Cardinality(unread) + 1
    BY <2>2, <2>11, FS_AddElement
  <2> QED BY <2>10, <2>11, <2>12 DEF unreadCounts
<1> QED BY <1>1, <1>2, <1>3, PTL DEF Spec, PostedIsUnread

-----------------------------------------------------------------------------
(* Roster: a call of a kind is alone at it, or the kind is known to have    *)
(* overlapped.                                                             *)

Doing(q, kind) == req[q].at \in RosterPlaces /\ Has(q, {"kind"}) /\ req[q].kind = kind
Kinds == {"agent", "outcome", "connect", "ingest"}
Single ==
  \A kind \in Kinds : kind \in overlapped
    \/ \A p, q \in Reqs : Doing(p, kind) /\ Doing(q, kind) => p = q

\* Rows are counted, and there are finitely many agents.
Made ==
  /\ made \in 0..MaxMade /\ IsFiniteSet(DOMAIN agent)
  /\ DOMAIN agent \subseteq Workspaces \cup 1..made
  /\ UNION {DOMAIN repo, DOMAIN goalTitle, DOMAIN tool} \subseteq 1..made
  /\ \A r \in DOMAIN repo : repo[r] = "acme/site"
  /\ (reputation = <<>> \/ 1 \in DOMAIN reputation) /\ outcomes \in ReputationRow

\* One lesson more than a document there is, or than none.
OneMore(d) ==
  /\ d.parent \subseteq d.lessons /\ Cardinality(d.lessons \ d.parent) = 1
  /\ \/ d.parent = {} /\ d.text = "none"
     \/ \E e \in skill : e.lessons = d.parent /\ e.text = d.text
Document == [version : Nat, lessons : SUBSET Lessons, text : {"none", "ours"},
             parent : SUBSET Lessons, optimised : BOOLEAN]

Hiring(q) ==
  /\ At(q, "insertAgent") =>
       /\ Doing(q, "agent")
       /\ "agent" \notin overlapped /\ AgentLimit >= 0 => Cardinality(DOMAIN agent \ Workspaces) < AgentLimit
  /\ req[q].at \in {"chooseHandle", "insertAssistant"} => Has(q, {"ws"}) /\ req[q].ws \in Workspaces
  /\ At(q, "insertAssistant") => Has(q, {"handle"}) /\ req[q].handle \in {"iris", req[q].ws}
  /\ At(q, "writeConfig") =>
       /\ Has(q, {"agent", "base", "prompt"}) /\ req[q].agent \in DOMAIN agent
       /\ req[q].base \in AgentRow /\ req[q].prompt \in BOOLEAN
Learning(q) ==
  /\ req[q].at \in {"nextVersion", "insertSkill"} =>
       /\ Has(q, {"doc"}) /\ req[q].doc \in Document
       /\ req[q].doc.optimised => OneMore(req[q].doc)
  /\ At(q, "insertSkill") => req[q].doc.version # 0
  /\ At(q, "upsertCount") =>
       /\ Doing(q, "outcome") /\ Has(q, {"col", "count"})
       /\ req[q].col \in {"success", "fail"} /\ req[q].count \in Nat
       /\ "outcome" \notin overlapped => req[q].count = currentCount(req[q].col)
Connecting(q) ==
  /\ At(q, "insertRepo") => Doing(q, "connect") /\ ("connect" \notin overlapped => DOMAIN repo = {})
  /\ req[q].at \in {"readTitles", "insertGoal"} => Doing(q, "ingest") /\ Has(q, {"todo"})
  /\ At(q, "insertGoal") /\ "ingest" \notin overlapped => req[q].todo \cap Titles = {}
RosterReq(q) == Hiring(q) /\ Learning(q) /\ Connecting(q)

RosterRows == RosterTypeOK /\ ErrsOnlyByOverlap /\ OptimiserIsBounded /\ Made
RosterInv == Common /\ RosterRows /\ Single /\ \A q \in Reqs : RosterReq(q)

rosterRows == <<agent, skill, reputation, outcomes, repo, goalTitle, tool, made>>

\* What a call counts on changes only by another call of its kind.
RosterGrow(q) ==
  /\ overlapped \subseteq overlapped' /\ DOMAIN agent \subseteq DOMAIN agent' /\ skill \subseteq skill'
  /\ DOMAIN agent' \ Workspaces = DOMAIN agent \ Workspaces \/ Doing(q, "agent")
  /\ UNCHANGED reputation \/ Doing(q, "outcome")
  /\ UNCHANGED repo \/ Doing(q, "connect")
  /\ UNCHANGED goalTitle \/ Doing(q, "ingest")

LEMMA RosterReqKept ==
  ASSUME RosterInv, NEW q \in Reqs, RosterGrow(q), NEW p \in Reqs \ {q}, req'[p] = req[p]
  PROVE  RosterReq(p)'
<1>1. /\ RosterReq(p) /\ overlapped \subseteq overlapped'
      /\ \A kind : Doing(p, kind) => Doing(p, kind)'
  BY DEF RosterInv, RosterGrow, Doing, Has
<1>2. \A kind \in Kinds : Doing(p, kind) /\ Doing(q, kind) => kind \in overlapped
  BY DEF RosterInv, Single
<1>3. Hiring(p)'
  BY <1>1, <1>2 DEF RosterReq, Hiring, RosterGrow, Kinds, At, Has
<1>4. Learning(p)'
  <2>1. At(p, "upsertCount") /\ "outcome" \notin overlapped' => reputation' = reputation
    BY <1>1, <1>2 DEF RosterReq, Learning, RosterGrow, Kinds
  <2>2. \A d : OneMore(d) => OneMore(d)'
    BY DEF OneMore, RosterGrow
  <2>3. OneMore(req[p].doc) => OneMore(req[p].doc)'
    BY DEF OneMore, RosterGrow
  <2> QED BY <1>1, <2>1, <2>3 DEF RosterReq, Learning, At, Has, currentCount
<1>5. Connecting(p)'
  <2>1. At(p, "insertRepo") /\ "connect" \notin overlapped' => repo' = repo
    BY <1>1, <1>2 DEF RosterReq, Connecting, RosterGrow, Kinds
  <2>2. At(p, "insertGoal") /\ "ingest" \notin overlapped' => Titles' = Titles
    BY <1>1, <1>2 DEF RosterReq, Connecting, RosterGrow, Kinds, At, Titles
  <2> QED BY <1>1, <2>1, <2>2 DEF RosterReq, Connecting, At, Has
<1> QED BY <1>3, <1>4, <1>5 DEF RosterReq

LEMMA RosterAct ==
  ASSUME RosterInv, NEW q \in Reqs, Common', Others(q), RosterRows', Single', RosterGrow(q), RosterReq(q)'
  PROVE  RosterInv'
<1>1. \A p \in Reqs \ {q} : RosterReq(p)'
  BY RosterReqKept DEF Others
<1> QED BY <1>1 DEF RosterInv

\* Nobody begins a call.
LEMMA SingleKept ==
  ASSUME Single, overlapped \subseteq overlapped',
         \A p \in Reqs : \A kind : Doing(p, kind)' => Doing(p, kind)
  PROVE  Single'
  BY DEF Single

LEMMA RosterUnchanged ==
  ASSUME RosterRows, NEW q \in Reqs, UNCHANGED rosterRows, overlapped \subseteq overlapped'
  PROVE  RosterRows' /\ RosterGrow(q)
<1> USE DEF rosterRows, RosterRows
<1>1. RosterTypeOK' /\ OptimiserIsBounded' /\ Made'
  BY DEF RosterTypeOK, OptimiserIsBounded, Made
<1>2. ErrsOnlyByOverlap'
  BY DEF ErrsOnlyByOverlap, currentCount
<1>3. RosterGrow(q)
  BY DEF RosterGrow
<1> QED BY <1>1, <1>2, <1>3

\* Nothing of the roster changes, and requests go on elsewhere.
LEMMA RosterAside ==
  ASSUME RosterInv, Common', UNCHANGED rosterVars,
         \A q \in Reqs : req'[q] = req[q] \/ req'[q].at \notin RosterPlaces
  PROVE  RosterInv'
<1>1. RosterRows'
  <2>1. UNCHANGED rosterRows /\ UNCHANGED overlapped
    BY DEF rosterVars, rosterRows
  <2> QED BY <2>1 DEF RosterInv, RosterRows, RosterTypeOK, OptimiserIsBounded, Made, ErrsOnlyByOverlap,
                      currentCount, rosterRows
<1>2. Single'
  <2>1. overlapped' = overlapped
    BY DEF rosterVars
  <2>2. \A p \in Reqs : \A kind : Doing(p, kind)' => Doing(p, kind)
    BY DEF Doing, Has
  <2> QED BY <2>1, <2>2, SingleKept DEF RosterInv
<1>3. ASSUME NEW q \in Reqs PROVE RosterReq(q)'
  <2>1. CASE req'[q].at \notin RosterPlaces
    BY <2>1 DEF RosterReq, Hiring, Learning, Connecting, RosterPlaces, At
  <2>2. CASE req'[q] = req[q]
    <3>1. RosterReq(q)
      BY DEF RosterInv
    <3> QED BY <2>2, <3>1 DEF RosterReq, Hiring, Learning, Connecting, Doing, OneMore, currentCount,
                              Titles, At, Has, rosterVars
  <2> QED BY <2>1, <2>2
<1> QED BY <1>1, <1>2, <1>3 DEF RosterInv

-----------------------------------------------------------------------------
(* How a call begins, goes on and ends. *)

LEMMA BeginRoster ==
  ASSUME RosterInv, NEW q \in Reqs, NEW call, NEW rec, Begin(q, call, rec), "at" \in DOMAIN rec,
         "kind" \notin DOMAIN rec, rec.at \in RosterPlaces, UNCHANGED rosterRows
  PROVE  /\ Others(q) /\ DOMAIN req'[q] = DOMAIN rec \cup {"kind"} /\ req'[q].kind = call
         /\ \A f \in DOMAIN rec : req'[q][f] = rec[f]
         /\ Doing(q, call)' /\ Single' /\ RosterRows' /\ RosterGrow(q)
<1>1. DOMAIN req = Reqs
  BY DEF RosterInv, Common
<1>2. /\ At(q, "new") /\ Others(q) /\ DOMAIN req'[q] = DOMAIN rec \cup {"kind"}
      /\ req'[q].kind = call /\ \A f \in DOMAIN rec : req'[q][f] = rec[f]
      /\ overlapped \subseteq overlapped'
  BY <1>1, BeginGives
<1>3. \A p \in Reqs \ {q} : \A kind : Doing(p, kind)' <=> Doing(p, kind)
  BY <1>2 DEF Others, Doing, Has
<1>4. ASSUME NEW p \in Reqs \ {q}, Doing(p, call) PROVE call \in overlapped'
  <2>1. Busy(p) /\ "kind" \in DOMAIN req[p] /\ req[p].kind = call
    BY <1>4 DEF Doing, Busy, RosterPlaces, Has
  <2> QED BY <2>1 DEF Begin
<1>5. \A kind : Doing(q, kind)' => kind = call
  BY <1>2 DEF Doing
<1>6. Single'
  BY <1>2, <1>3, <1>4, <1>5 DEF RosterInv, Single
<1>7. Doing(q, call)'
  BY <1>2 DEF Doing, Has
<1> QED BY <1>2, <1>6, <1>7, RosterUnchanged DEF RosterInv

LEMMA ReturnRoster ==
  ASSUME RosterInv, NEW q \in Reqs, Return(q), UNCHANGED overlapped
  PROVE  Others(q) /\ RosterReq(q)' /\ Single'
<1>1. DOMAIN req = Reqs
  BY DEF RosterInv, Common
<1>2. Others(q) /\ req'[q].at = "done"
  BY <1>1, ReturnGives
<1>3. \A p \in Reqs : \A kind : Doing(p, kind)' => Doing(p, kind)
  BY <1>2 DEF Doing, Has, Others, RosterPlaces
<1> QED BY <1>2, <1>3, SingleKept DEF RosterInv, RosterReq, Hiring, Learning, Connecting, At

LEMMA GoOnRoster ==
  ASSUME RosterInv, NEW q \in Reqs, NEW place, NEW rec, {"at", "kind"} \cap DOMAIN rec = {},
         GotoWith(q, place, rec), req[q].at \in RosterPlaces, UNCHANGED overlapped
  PROVE  /\ Others(q) /\ DOMAIN req'[q] = DOMAIN req[q] \cup DOMAIN rec /\ req'[q].at = place
         /\ \A f \in DOMAIN rec : req'[q][f] = rec[f]
         /\ \A f \in DOMAIN req[q] \ (DOMAIN rec \cup {"at"}) : req'[q][f] = req[q][f]
         /\ Single' /\ \A kind : Doing(q, kind) /\ place \in RosterPlaces => Doing(q, kind)'
<1>1. DOMAIN req = Reqs /\ "at" \in DOMAIN req[q]
  BY DEF RosterInv, Common, Has
<1>2. /\ Others(q) /\ DOMAIN req'[q] = DOMAIN req[q] \cup DOMAIN rec /\ req'[q].at = place
      /\ \A f \in DOMAIN rec : req'[q][f] = rec[f]
      /\ \A f \in DOMAIN req[q] \ (DOMAIN rec \cup {"at"}) : req'[q][f] = req[q][f]
  BY <1>1, GotoWithGives
<1>3. \A p \in Reqs : \A kind : Doing(p, kind)' => Doing(p, kind)
  <2>1. \A kind : Doing(q, kind)' => Doing(q, kind)
    BY <1>2 DEF Doing, Has
  <2>2. \A p \in Reqs \ {q} : \A kind : Doing(p, kind)' => Doing(p, kind)
    BY <1>2 DEF Doing, Has, Others
  <2> QED BY <2>1, <2>2
<1>4. \A kind : Doing(q, kind) /\ place \in RosterPlaces => Doing(q, kind)'
  BY <1>2 DEF Doing, Has
<1> QED BY <1>2, <1>3, <1>4, SingleKept DEF RosterInv
LEMMA RosterEnds ==
  ASSUME RosterInv, NEW q \in Reqs, Common', Return(q), UNCHANGED overlapped, RosterRows', RosterGrow(q)
  PROVE  RosterInv'
BY ReturnRoster, RosterAct

\* A call that finds nothing to do.
LEMMA RosterIdle ==
  ASSUME RosterInv, NEW q \in Reqs, Common', Return(q), UNCHANGED <<rosterRows, overlapped>>
  PROVE  RosterInv'
<1>1. RosterRows' /\ RosterGrow(q)
  BY RosterUnchanged DEF RosterInv
<1> QED BY <1>1, RosterEnds

\* Agents are edited, but not their handles.
LEMMA AgentsEdited ==
  ASSUME RosterInv, NEW q \in Reqs,
         UNCHANGED <<skill, reputation, outcomes, repo, goalTitle, tool, made, overlapped>>,
         DOMAIN agent' = DOMAIN agent,
         \A a \in DOMAIN agent : agent'[a] \in AgentRow /\ agent'[a].handle = agent[a].handle
  PROVE  RosterRows' /\ RosterGrow(q)
<1> USE DEF RosterInv, RosterRows
<1>1. RosterTypeOK'
  BY DEF RosterTypeOK
<1>2. ErrsOnlyByOverlap'
  BY DEF ErrsOnlyByOverlap, currentCount
<1>3. OptimiserIsBounded' /\ Made'
  BY DEF OptimiserIsBounded, Made
<1> QED BY <1>1, <1>2, <1>3 DEF RosterGrow

\* One agent more, of a handle that is free.
LEMMA AgentAdded ==
  ASSUME RosterInv, NEW q \in Reqs,
         UNCHANGED <<skill, reputation, outcomes, repo, goalTitle, tool, overlapped>>,
         made' \in made..MaxMade, NEW k \in (Workspaces \cup 1..made') \ DOMAIN agent,
         NEW h, HandleFree(h), NEW row \in AgentRow, row.handle = h, agent' = Put(agent, k, row),
         \/ k \in Workspaces
         \/ /\ Doing(q, "agent")
            /\ "agent" \notin overlapped /\ AgentLimit >= 0 =>
                 Cardinality(DOMAIN agent \ Workspaces) < AgentLimit
  PROVE  RosterRows' /\ RosterGrow(q)
<1> USE DEF RosterInv, RosterRows
<1>1. /\ DOMAIN agent' = DOMAIN agent \cup {k} /\ agent'[k] = row
      /\ \A a \in DOMAIN agent : agent'[a] = agent[a]
  BY DEF Put
<1>2. RosterTypeOK'
  <2>1. \A a \in DOMAIN agent : agent[a].handle # h
    BY DEF HandleFree
  <2> QED BY <1>1, <2>1 DEF RosterTypeOK
<1>3. IsFiniteSet(DOMAIN agent) /\ IsFiniteSet(DOMAIN agent \ Workspaces)
  <2>1. DOMAIN agent \ Workspaces \subseteq DOMAIN agent /\ IsFiniteSet(DOMAIN agent)
    BY DEF Made
  <2> QED BY <2>1, FS_Subset
<1>4. Made'
  <2>1. IsFiniteSet(DOMAIN agent')
    BY <1>1, <1>3, FS_AddElement
  <2>2. made \in 0..MaxMade /\ made' \in made..MaxMade
    BY DEF Made
  <2>3. made' \in 0..MaxMade /\ 1..made \subseteq 1..made'
    BY <2>2, RosterAssumption
  <2> QED BY <1>1, <2>1, <2>3 DEF Made
<1>5. "agent" \notin overlapped /\ AgentLimit >= 0 => Cardinality(DOMAIN agent' \ Workspaces) <= AgentLimit
  <2> DEFINE old == DOMAIN agent \ Workspaces  new == DOMAIN agent' \ Workspaces
  <2>1. CASE k \in Workspaces
    <3>1. new = old
      BY <1>1, <2>1
    <3> QED BY <3>1 DEF ErrsOnlyByOverlap
  <2>2. CASE k \notin Workspaces
    <3>1. new = old \cup {k} /\ k \notin old
      BY <1>1, <2>2
    <3>2. Cardinality(old \cup {k}) = Cardinality(old) + 1 /\ Cardinality(old) \in Nat
      BY <1>3, <3>1, FS_AddElement, FS_CardinalityType
    <3>3. "agent" \notin overlapped /\ AgentLimit >= 0 => Cardinality(old) < AgentLimit
      BY <2>2
    <3>4. Cardinality(new) = Cardinality(old) + 1
      BY <3>1, <3>2
    <3> QED BY <3>2, <3>3, <3>4, RosterAssumption
  <2> QED BY <2>1, <2>2
<1>6. ErrsOnlyByOverlap'
  BY <1>5 DEF ErrsOnlyByOverlap, currentCount
<1>7. RosterGrow(q)
  <2>1. DOMAIN agent' \ Workspaces = DOMAIN agent \ Workspaces \/ Doing(q, "agent")
    BY <1>1
  <2> QED BY <1>1, <2>1 DEF RosterGrow
<1> QED BY <1>2, <1>4, <1>6, <1>7 DEF OptimiserIsBounded

LEMMA NewAgentRow ==
  ASSUME NEW h \in {"iris", "ada"} \cup Workspaces, NEW configured \in BOOLEAN
  PROVE  NewAgent(h, configured) \in AgentRow /\ NewAgent(h, configured).handle = h
BY DEF NewAgent, AgentRow

-----------------------------------------------------------------------------
(* Agents. *)

LEMMA CreateAgentKeeps ==
  ASSUME RosterInv, NEW q \in Reqs, Common', CreateAgent(q)
  PROVE  RosterInv'
<1> USE DEF RosterPlaces
<1>1. UNCHANGED rosterRows
  BY DEF CreateAgent, rosterRows
<1>2. CASE checkQuota(AgentLimit) /\ Begin(q, "agent", [at |-> "insertAgent"])
  <2> DEFINE rec == [at |-> "insertAgent"]
  <2>1. /\ Begin(q, "agent", rec) /\ DOMAIN rec = {"at"} /\ "kind" \notin DOMAIN rec /\ "at" \in DOMAIN rec
        /\ rec.at = "insertAgent" /\ rec.at \in RosterPlaces
    BY <1>2
  <2> HIDE DEF rec
  <2>2. Others(q) /\ req'[q].at = "insertAgent" /\ Doing(q, "agent")' /\ Single' /\ RosterRows' /\ RosterGrow(q)
    BY <1>1, <2>1, BeginRoster
  <2>3. "agent" \notin overlapped' /\ AgentLimit >= 0 => Cardinality(DOMAIN agent' \ Workspaces) < AgentLimit
    <3>1. DOMAIN agent \ Workspaces \subseteq DOMAIN agent /\ IsFiniteSet(DOMAIN agent) /\ agent' = agent
      BY <1>1 DEF RosterInv, RosterRows, Made, rosterRows
    <3>2. /\ IsFiniteSet(DOMAIN agent \ Workspaces)
          /\ Cardinality(DOMAIN agent \ Workspaces) <= Cardinality(DOMAIN agent)
      BY <3>1, FS_Subset
    <3>3. Cardinality(DOMAIN agent \ Workspaces) \in Nat /\ Cardinality(DOMAIN agent) \in Nat
      BY <3>1, <3>2, FS_CardinalityType
    <3>4. AgentLimit >= 0 => Cardinality(DOMAIN agent) < AgentLimit
      BY <1>2, RosterAssumption DEF checkQuota
    <3> QED BY <3>1, <3>2, <3>3, <3>4, RosterAssumption
  <2>4. RosterReq(q)'
    BY <2>2, <2>3 DEF RosterReq, Hiring, Learning, Connecting, At
  <2> QED BY <2>2, <2>4, RosterAct
<1>3. CASE Return(q) /\ UNCHANGED overlapped
  BY <1>1, <1>3, RosterIdle
<1> QED BY <1>2, <1>3 DEF CreateAgent

LEMMA InsertAgentKeeps ==
  ASSUME RosterInv, NEW q \in Reqs, Common', InsertAgent(q)
  PROVE  RosterInv'
<1>1. RosterReq(q) /\ At(q, "insertAgent") /\ Return(q) /\ UNCHANGED overlapped
  BY DEF RosterInv, InsertAgent
<1>2. PICK h \in {"iris", "ada"}, configured \in BOOLEAN :
        IF HandleFree(h) THEN Make /\ agent' = Put(agent, Next1, NewAgent(h, configured))
        ELSE UNCHANGED <<agent, made>>
  BY DEF InsertAgent
<1>3. CASE HandleFree(h)
  <2> DEFINE row == NewAgent(h, configured)
  <2>1. row \in AgentRow /\ row.handle = h
    BY NewAgentRow
  <2>2. made < MaxMade /\ made' = made + 1 /\ agent' = Put(agent, made', row)
    BY <1>2, <1>3 DEF Make, Next1
  <2> HIDE DEF row
  <2>3. made \in 0..MaxMade /\ DOMAIN agent \subseteq Workspaces \cup 1..made
    BY DEF RosterInv, RosterRows, Made
  <2>4. made' \in made..MaxMade /\ made' \in 1..made' /\ made' \in 1..MaxMade /\ made' \notin 1..made
    BY <2>2, <2>3, RosterAssumption
  <2>5. made' \in (Workspaces \cup 1..made') \ DOMAIN agent
    BY <2>3, <2>4, RosterAssumption
  <2>6. /\ Doing(q, "agent")
        /\ "agent" \notin overlapped /\ AgentLimit >= 0 => Cardinality(DOMAIN agent \ Workspaces) < AgentLimit
    BY <1>1 DEF RosterReq, Hiring
  <2>7. UNCHANGED <<skill, reputation, outcomes, repo, goalTitle, tool, overlapped>>
    BY DEF InsertAgent
  <2>8. RosterRows' /\ RosterGrow(q)
    BY <1>3, <2>1, <2>2, <2>4, <2>5, <2>6, <2>7, AgentAdded
  <2> QED BY <1>1, <2>8, RosterEnds
<1>4. CASE ~HandleFree(h)
  <2>1. UNCHANGED rosterRows
    BY <1>2, <1>4 DEF InsertAgent, rosterRows
  <2> QED BY <1>1, <2>1, RosterIdle
<1> QED BY <1>3, <1>4

LEMMA SetAgentSharedKeeps ==
  ASSUME RosterInv, NEW q \in Reqs, Common', SetAgentShared(q)
  PROVE  RosterInv'
<1>1. Return(q) /\ UNCHANGED <<skill, reputation, outcomes, repo, goalTitle, tool, made, overlapped>>
  BY DEF SetAgentShared
<1>2. PICK a \in DOMAIN agent, shared \in BOOLEAN : agent' = [agent EXCEPT ![a].shared = shared]
  BY DEF SetAgentShared
<1>3. \A b \in DOMAIN agent : agent[b] \in AgentRow
  BY DEF RosterInv, RosterRows, RosterTypeOK
<1>4. /\ DOMAIN agent' = DOMAIN agent
      /\ \A b \in DOMAIN agent : agent'[b] \in AgentRow /\ agent'[b].handle = agent[b].handle
  BY <1>2, <1>3 DEF AgentRow
<1>5. RosterRows' /\ RosterGrow(q)
  BY <1>1, <1>4, AgentsEdited
<1> QED BY <1>1, <1>5, RosterEnds

LEMMA SetAgentConfigKeeps ==
  ASSUME RosterInv, NEW q \in Reqs, Common', SetAgentConfig(q)
  PROVE  RosterInv'
<1> USE DEF RosterPlaces
<1>1. UNCHANGED rosterRows
  BY DEF SetAgentConfig, rosterRows
<1>2. PICK a \in DOMAIN agent, prompt \in BOOLEAN :
        Begin(q, "config", [at |-> "writeConfig", agent |-> a, base |-> agent[a], prompt |-> prompt])
  BY DEF SetAgentConfig
<1> DEFINE rec == [at |-> "writeConfig", agent |-> a, base |-> agent[a], prompt |-> prompt]
<1>3. /\ Begin(q, "config", rec) /\ DOMAIN rec = {"at", "agent", "base", "prompt"}
      /\ rec.at = "writeConfig" /\ rec.agent = a /\ rec.base = agent[a] /\ rec.prompt = prompt
  BY <1>2
<1> HIDE DEF rec
<1>4. "at" \in DOMAIN rec /\ "kind" \notin DOMAIN rec /\ rec.at \in RosterPlaces
  BY <1>3
<1>5. /\ Others(q) /\ DOMAIN req'[q] = DOMAIN rec \cup {"kind"} /\ \A f \in DOMAIN rec : req'[q][f] = rec[f]
      /\ Single' /\ RosterRows' /\ RosterGrow(q)
  BY <1>1, <1>3, <1>4, BeginRoster
<1>6. /\ DOMAIN req'[q] = {"at", "agent", "base", "prompt", "kind"} /\ req'[q].at = "writeConfig"
      /\ req'[q].agent = a /\ req'[q].base = agent[a] /\ req'[q].prompt = prompt
  BY <1>3, <1>5
<1>7. agent' = agent /\ agent[a] \in AgentRow
  BY <1>1 DEF rosterRows, RosterInv, RosterRows, RosterTypeOK
<1>8. RosterReq(q)'
  BY <1>6, <1>7 DEF RosterReq, Hiring, Learning, Connecting, At, Has
<1> QED BY <1>5, <1>8, RosterAct

LEMMA WriteConfigKeeps ==
  ASSUME RosterInv, NEW q \in Reqs, Common', WriteConfig(q)
  PROVE  RosterInv'
<1>1. /\ RosterReq(q) /\ At(q, "writeConfig") /\ Return(q)
      /\ UNCHANGED <<skill, reputation, outcomes, repo, goalTitle, tool, made, overlapped>>
  BY DEF RosterInv, WriteConfig
<1>2. req[q].agent \in DOMAIN agent /\ req[q].base \in AgentRow /\ req[q].prompt \in BOOLEAN
  BY <1>1 DEF RosterReq, Hiring
<1> DEFINE base == req[q].base
           model == base.model  prompt == base.prompt \/ req[q].prompt  dirs == base.dirs \/ ~req[q].prompt
<1>3. agent' = [agent EXCEPT ![req[q].agent] = [@ EXCEPT !.model = model, !.prompt = prompt, !.dirs = dirs]]
  BY DEF WriteConfig
<1>4. model \in BOOLEAN /\ prompt \in BOOLEAN /\ dirs \in BOOLEAN
  BY <1>2 DEF AgentRow
<1> HIDE DEF model, prompt, dirs
<1>5. \A b \in DOMAIN agent : agent[b] \in AgentRow
  BY DEF RosterInv, RosterRows, RosterTypeOK
<1>6. /\ DOMAIN agent' = DOMAIN agent
      /\ \A b \in DOMAIN agent : agent'[b] \in AgentRow /\ agent'[b].handle = agent[b].handle
  BY <1>2, <1>3, <1>4, <1>5 DEF AgentRow
<1>7. RosterRows' /\ RosterGrow(q)
  BY <1>1, <1>6, AgentsEdited
<1> QED BY <1>1, <1>7, RosterEnds

LEMMA AssistantKeeps ==
  ASSUME RosterInv, NEW q \in Reqs, Common', EnsureDefaultAssistant(q) \/ ChooseHandle(q)
  PROVE  RosterInv'
<1> USE DEF RosterPlaces
<1>1. UNCHANGED rosterRows
  BY DEF EnsureDefaultAssistant, ChooseHandle, rosterRows, rosterVars
<1>2. CASE EnsureDefaultAssistant(q)
  <2>1. PICK w \in Workspaces :
          IF w \in DOMAIN agent THEN Called(q, "assistant") /\ Return(q) /\ UNCHANGED overlapped
          ELSE Begin(q, "assistant", [at |-> "chooseHandle", ws |-> w])
    BY <1>2 DEF EnsureDefaultAssistant
  <2>2. CASE Return(q) /\ UNCHANGED overlapped
    BY <1>1, <2>2, RosterIdle
  <2>3. CASE Begin(q, "assistant", [at |-> "chooseHandle", ws |-> w])
    <3> DEFINE rec == [at |-> "chooseHandle", ws |-> w]
    <3>1. Begin(q, "assistant", rec) /\ DOMAIN rec = {"at", "ws"} /\ rec.at = "chooseHandle" /\ rec.ws = w
      BY <2>3
    <3> HIDE DEF rec
    <3>2. "at" \in DOMAIN rec /\ "kind" \notin DOMAIN rec /\ rec.at \in RosterPlaces
      BY <3>1
    <3>3. /\ Others(q) /\ DOMAIN req'[q] = DOMAIN rec \cup {"kind"} /\ \A f \in DOMAIN rec : req'[q][f] = rec[f]
          /\ Single' /\ RosterRows' /\ RosterGrow(q)
      BY <1>1, <3>1, <3>2, BeginRoster
    <3>4. RosterReq(q)'
      BY <3>1, <3>3 DEF RosterReq, Hiring, Learning, Connecting, At, Has
    <3> QED BY <3>3, <3>4, RosterAct
  <2> QED BY <2>1, <2>2, <2>3
<1>3. CASE ChooseHandle(q)
  <2> DEFINE h == IF HandleFree("iris") THEN "iris" ELSE req[q].ws
             rec == [handle |-> h]
  <2>1. Has(q, {"ws"}) /\ req[q].ws \in Workspaces /\ At(q, "chooseHandle")
    BY <1>3 DEF ChooseHandle, RosterInv, RosterReq, Hiring, At
  <2>2. h \in {"iris", req[q].ws} /\ GotoWith(q, "insertAssistant", [handle |-> h]) /\ UNCHANGED overlapped
    BY <1>3 DEF ChooseHandle, rosterVars
  <2> HIDE DEF h
  <2>3. DOMAIN rec = {"handle"} /\ rec.handle = h /\ GotoWith(q, "insertAssistant", rec)
    BY <2>2
  <2> HIDE DEF rec
  <2>4. {"at", "kind"} \cap DOMAIN rec = {} /\ req[q].at \in RosterPlaces
    BY <2>1, <2>3 DEF At
  <2>5. /\ Others(q) /\ DOMAIN req'[q] = DOMAIN req[q] \cup DOMAIN rec /\ req'[q].at = "insertAssistant"
        /\ \A f \in DOMAIN rec : req'[q][f] = rec[f]
        /\ \A f \in DOMAIN req[q] \ (DOMAIN rec \cup {"at"}) : req'[q][f] = req[q][f]
        /\ Single'
    BY <2>2, <2>3, <2>4, GoOnRoster
  <2>6. /\ Has(q, {"ws", "handle"})' /\ req'[q].handle = h /\ req'[q].ws = req[q].ws
    BY <2>1, <2>3, <2>5 DEF Has
  <2>7. RosterReq(q)'
    BY <2>1, <2>2, <2>5, <2>6 DEF RosterReq, Hiring, Learning, Connecting, At, Has
  <2>8. RosterRows' /\ RosterGrow(q)
    BY <1>1, <2>2, RosterUnchanged DEF RosterInv
  <2> QED BY <2>5, <2>7, <2>8, RosterAct
<1> QED BY <1>2, <1>3

LEMMA InsertAssistantKeeps ==
  ASSUME RosterInv, NEW q \in Reqs, Common', InsertAssistant(q)
  PROVE  RosterInv'
<1>1. /\ RosterReq(q) /\ At(q, "insertAssistant") /\ Return(q)
      /\ UNCHANGED <<skill, reputation, outcomes, repo, goalTitle, tool, made, overlapped>>
  BY DEF RosterInv, InsertAssistant
<1> DEFINE w == req[q].ws  h == req[q].handle
<1>2. w \in Workspaces /\ h \in {"iris", w}
  BY <1>1 DEF RosterReq, Hiring, At
<1>3. \/ w \notin DOMAIN agent /\ HandleFree(h) /\ agent' = Put(agent, w, NewAgent(h, FALSE))
      \/ agent' = agent
  BY DEF InsertAssistant
<1>4. CASE w \notin DOMAIN agent /\ HandleFree(h) /\ agent' = Put(agent, w, NewAgent(h, FALSE))
  <2> DEFINE row == NewAgent(h, FALSE)
  <2>1. row \in AgentRow /\ row.handle = h
    BY <1>2, NewAgentRow
  <2>2. agent' = Put(agent, w, row)
    BY <1>4
  <2> HIDE DEF row, w, h
  <2>3. made' \in made..MaxMade
    BY <1>1, RosterAssumption DEF RosterInv, RosterRows, Made
  <2>4. RosterRows' /\ RosterGrow(q)
    BY <1>1, <1>2, <1>4, <2>1, <2>2, <2>3, AgentAdded
  <2> QED BY <1>1, <2>4, RosterEnds
<1>5. CASE agent' = agent
  <2>1. UNCHANGED rosterRows
    BY <1>1, <1>5 DEF rosterRows
  <2> QED BY <1>1, <2>1, RosterIdle
<1> QED BY <1>3, <1>4, <1>5

-----------------------------------------------------------------------------
(* Skill documents. *)

LEMMA LatestTyped ==
  ASSUME RosterInv, NEW d \in latestSkill
  PROVE  d \in Document /\ (d = Empty \/ d \in skill)
<1>1. d = Empty \/ d \in skill
  BY DEF latestSkill
<1>2. d \in skill => d \in SkillRow
  BY DEF RosterInv, RosterRows, RosterTypeOK
<1>3. Empty \in Document
  BY DEF Empty, Document
<1>4. \A e \in SkillRow : e \in Document
  BY DEF Document, SkillRow
<1> QED BY <1>1, <1>2, <1>3, <1>4

LEMMA LessonsFinite == \A s \in SUBSET Lessons : IsFiniteSet(s)
<1>1. IsFiniteSet({"checks_failed"})
  BY FS_Singleton
<1>2. IsFiniteSet({"checks_failed"} \cup {"timeout"})
  BY <1>1, FS_AddElement
<1>3. IsFiniteSet({"checks_failed"} \cup {"timeout"} \cup {"error"})
  BY <1>2, FS_AddElement
<1>4. IsFiniteSet({"checks_failed"} \cup {"timeout"} \cup {"error"} \cup {"default"})
  BY <1>3, FS_AddElement
<1>5. Lessons = {"checks_failed"} \cup {"timeout"} \cup {"error"} \cup {"default"}
  BY DEF Lessons
<1> QED BY <1>4, <1>5, FS_Subset

\* An edit that is accepted adds exactly the lesson that was proposed.
LEMMA AcceptedAddsOne ==
  ASSUME NEW doc \in Document, NEW failures,
         acceptEdit(Evaluate(doc.lessons), Evaluate(doc.lessons \cup Propose(doc, failures)))
  PROVE  LET edited == doc.lessons \cup Propose(doc, failures)
         IN  /\ edited \subseteq Lessons /\ doc.lessons \subseteq edited
             /\ Cardinality(edited \ doc.lessons) = 1
<1>1. PICK x \in Lessons : Propose(doc, failures) = {x}
  BY DEF Propose, Lessons
<1>2. doc.lessons \in SUBSET Lessons
  BY DEF Document
<1>3. x \notin doc.lessons
  <2>1. SUFFICES ASSUME x \in doc.lessons PROVE FALSE
    OBVIOUS
  <2>2. doc.lessons \cup Propose(doc, failures) = doc.lessons
    BY <1>1, <2>1
  <2>3. Cardinality(doc.lessons) > Cardinality(doc.lessons)
    BY <2>2 DEF acceptEdit, Evaluate
  <2>4. Cardinality(doc.lessons) \in Nat
    BY <1>2, LessonsFinite, FS_CardinalityType
  <2> QED BY <2>3, <2>4
<1>4. (doc.lessons \cup {x}) \ doc.lessons = {x}
  BY <1>3
<1>5. Cardinality({x}) = 1
  BY FS_Singleton
<1> QED BY <1>1, <1>2, <1>4, <1>5

LEMMA DocumentHeld ==
  ASSUME RosterInv, NEW q \in Reqs, Common', NEW call, NEW place \in {"nextVersion", "insertSkill"},
         NEW d \in Document, Begin(q, call, [at |-> place, doc |-> d]), UNCHANGED rosterRows,
         d.optimised => OneMore(d), place = "insertSkill" => d.version # 0
  PROVE  RosterInv'
<1> USE DEF RosterPlaces
<1> DEFINE rec == [at |-> place, doc |-> d]
<1>1. Begin(q, call, rec) /\ DOMAIN rec = {"at", "doc"} /\ rec.at = place /\ rec.doc = d
  OBVIOUS
<1> HIDE DEF rec
<1>2. "at" \in DOMAIN rec /\ "kind" \notin DOMAIN rec /\ rec.at \in RosterPlaces
  BY <1>1
<1>3. /\ Others(q) /\ DOMAIN req'[q] = DOMAIN rec \cup {"kind"} /\ \A f \in DOMAIN rec : req'[q][f] = rec[f]
      /\ Single' /\ RosterRows' /\ RosterGrow(q)
  BY <1>1, <1>2, BeginRoster
<1>4. DOMAIN req'[q] = {"at", "doc", "kind"} /\ req'[q].at = place /\ req'[q].doc = d
  BY <1>1, <1>3
<1>5. d.optimised => OneMore(d)'
  BY DEF OneMore, rosterRows
<1>6. (req'[q].doc.optimised => OneMore(req[q].doc)')
  BY <1>4, <1>5 DEF OneMore
<1>7. RosterReq(q)'
  BY <1>4, <1>6 DEF RosterReq, Hiring, Learning, Connecting, At, Has
<1> QED BY <1>3, <1>7, RosterAct

LEMMA SaveSkillKeeps ==
  ASSUME RosterInv, NEW q \in Reqs, Common', SaveSkill(q)
  PROVE  RosterInv'
<1>1. PICK d \in latestSkill, lessons \in {{}, {"timeout"}} :
       Begin(q, "skill", [at |-> "insertSkill", doc |->
             [version |-> d.version + 1, lessons |-> lessons, text |-> "ours",
              parent |-> {}, optimised |-> FALSE]])
  BY DEF SaveSkill
<1> DEFINE doc == [version |-> d.version + 1, lessons |-> lessons, text |-> "ours",
                   parent |-> {}, optimised |-> FALSE]
<1>2. d.version \in Nat
  BY LatestTyped DEF Document
<1>3. doc \in Document /\ ~doc.optimised /\ doc.version # 0
  BY <1>2 DEF Document, Lessons
<1>4. Begin(q, "skill", [at |-> "insertSkill", doc |-> doc])
  BY <1>1
<1> HIDE DEF doc
<1>5. UNCHANGED rosterRows
  BY DEF SaveSkill, rosterRows
<1> QED BY <1>3, <1>4, <1>5, DocumentHeld

LEMMA OptimiseKeeps ==
  ASSUME RosterInv, NEW q \in Reqs, Common', Optimise(q)
  PROVE  RosterInv'
<1>1. UNCHANGED rosterRows
  BY DEF Optimise, rosterRows
<1>2. CASE Return(q) /\ UNCHANGED overlapped
  BY <1>1, <1>2, RosterIdle
<1>3. CASE \E old \in latestSkill, failures \in SUBSET {"checks_failed", "timeout", "error"} :
             /\ acceptEdit(Evaluate(old.lessons), Evaluate(old.lessons \cup Propose(old, failures)))
             /\ Begin(q, "optimise", [at |-> "nextVersion", doc |->
                      [version |-> 0, lessons |-> old.lessons \cup Propose(old, failures), text |-> old.text,
                       parent |-> old.lessons, optimised |-> TRUE]])
  <2>1. PICK old \in latestSkill, failures \in SUBSET {"checks_failed", "timeout", "error"} :
             /\ acceptEdit(Evaluate(old.lessons), Evaluate(old.lessons \cup Propose(old, failures)))
             /\ Begin(q, "optimise", [at |-> "nextVersion", doc |->
                      [version |-> 0, lessons |-> old.lessons \cup Propose(old, failures), text |-> old.text,
                       parent |-> old.lessons, optimised |-> TRUE]])
    BY <1>3
  <2> DEFINE edited == old.lessons \cup Propose(old, failures)
             doc == [version |-> 0, lessons |-> edited, text |-> old.text,
                     parent |-> old.lessons, optimised |-> TRUE]
  <2>2. old \in Document /\ (old = Empty \/ old \in skill)
    BY LatestTyped
  <2>3. edited \subseteq Lessons /\ old.lessons \subseteq edited /\ Cardinality(edited \ old.lessons) = 1
    BY <2>1, <2>2, AcceptedAddsOne
  <2>4. Begin(q, "optimise", [at |-> "nextVersion", doc |-> doc])
    BY <2>1
  <2> HIDE DEF edited
  <2>5. doc \in Document
    BY <2>2, <2>3 DEF Document
  <2>6. \/ old.lessons = {} /\ old.text = "none"
        \/ \E e \in skill : e.lessons = old.lessons /\ e.text = old.text
    BY <2>2 DEF Empty
  <2>7. OneMore(doc)
    BY <2>3, <2>6 DEF OneMore
  <2> HIDE DEF doc
  <2> QED BY <1>1, <2>4, <2>5, <2>7, DocumentHeld
<1> QED BY <1>2, <1>3 DEF Optimise

LEMMA NextVersionKeeps ==
  ASSUME RosterInv, NEW q \in Reqs, Common', NextVersion(q)
  PROVE  RosterInv'
<1> USE DEF RosterPlaces
<1>1. RosterReq(q) /\ At(q, "nextVersion") /\ UNCHANGED rosterRows /\ UNCHANGED overlapped
  BY DEF NextVersion, RosterInv, rosterRows, rosterVars
<1>2. /\ Has(q, {"doc"}) /\ req[q].doc \in Document
      /\ req[q].doc.optimised => OneMore(req[q].doc)
  BY <1>1 DEF RosterReq, Learning, At
<1>3. PICK d \in latestSkill :
        GotoWith(q, "insertSkill", [doc |-> [req[q].doc EXCEPT !.version = d.version + 1]])
  BY DEF NextVersion
<1>4. d.version \in Nat
  BY LatestTyped DEF Document
<1>0. PICK doc : doc = [req[q].doc EXCEPT !.version = d.version + 1]
  OBVIOUS
<1> DEFINE rec == [doc |-> doc]
<1>5. doc \in Document /\ doc.version # 0 /\ (doc.optimised => OneMore(doc))
  BY <1>0, <1>2, <1>4 DEF Document, OneMore
<1>6. GotoWith(q, "insertSkill", rec) /\ DOMAIN rec = {"doc"} /\ rec.doc = doc
  BY <1>0, <1>3
<1> HIDE DEF rec
<1>7. {"at", "kind"} \cap DOMAIN rec = {} /\ req[q].at \in RosterPlaces
  BY <1>1, <1>6 DEF At
<1>8. /\ Others(q) /\ DOMAIN req'[q] = DOMAIN req[q] \cup DOMAIN rec /\ req'[q].at = "insertSkill"
      /\ \A f \in DOMAIN rec : req'[q][f] = rec[f]
      /\ Single'
  BY <1>1, <1>6, <1>7, GoOnRoster
<1>9. "doc" \in DOMAIN req'[q] /\ req'[q].doc = doc
  BY <1>6, <1>8
<1>10. doc.optimised => OneMore(doc)'
  BY <1>1, <1>5 DEF OneMore, rosterRows
<1>11. req'[q].doc.optimised => OneMore(req[q].doc)'
  BY <1>9, <1>10 DEF OneMore
<1>12. RosterReq(q)'
  BY <1>5, <1>8, <1>9, <1>11 DEF RosterReq, Hiring, Learning, Connecting, At, Has
<1>13. RosterRows' /\ RosterGrow(q)
  BY <1>1, RosterUnchanged DEF RosterInv
<1> QED BY <1>8, <1>12, <1>13, RosterAct

LEMMA InsertSkillKeeps ==
  ASSUME RosterInv, NEW q \in Reqs, Common', InsertSkill(q)
  PROVE  RosterInv'
<1>1. /\ RosterReq(q) /\ At(q, "insertSkill") /\ Return(q) /\ skill' = skill \cup {req[q].doc}
      /\ UNCHANGED <<agent, reputation, outcomes, repo, goalTitle, tool, made, overlapped>>
  BY DEF RosterInv, InsertSkill
<1> DEFINE doc == req[q].doc
<1>2. doc \in Document /\ doc.version # 0 /\ (doc.optimised => OneMore(doc))
  BY <1>1 DEF RosterReq, Learning, At
<1>3. doc \in SkillRow
  BY <1>2 DEF Document, SkillRow
<1> HIDE DEF doc
<1>4. skill' = skill \cup {doc}
  BY <1>1 DEF doc
<1> USE DEF RosterInv, RosterRows
<1>5. RosterTypeOK' /\ ErrsOnlyByOverlap' /\ Made'
  BY <1>1, <1>3, <1>4 DEF RosterTypeOK, ErrsOnlyByOverlap, currentCount, Made
<1>6. OptimiserIsBounded'
  BY <1>2, <1>4 DEF OptimiserIsBounded, OneMore
<1>7. RosterGrow(q)
  BY <1>1, <1>4 DEF RosterGrow
<1> QED BY <1>1, <1>5, <1>6, <1>7, RosterEnds

-----------------------------------------------------------------------------
(* Track records. *)

LEMMA RecordOutcomeKeeps ==
  ASSUME RosterInv, NEW q \in Reqs, Common', RecordOutcome(q)
  PROVE  RosterInv'
<1> USE DEF RosterPlaces
<1>1. UNCHANGED rosterRows
  BY DEF RecordOutcome, rosterRows
<1>2. PICK col \in {"success", "fail"} :
       Begin(q, "outcome", [at |-> "upsertCount", col |-> col, count |-> currentCount(col)])
  BY DEF RecordOutcome
<1> DEFINE n == currentCount(col)  rec == [at |-> "upsertCount", col |-> col, count |-> n]
<1>3. n \in Nat
  BY DEF currentCount, RosterInv, RosterRows, RosterTypeOK, ReputationRow
<1>4. n = currentCount(col)'
  BY <1>1 DEF currentCount, rosterRows
<1>5. Begin(q, "outcome", rec)
  BY <1>2
<1> HIDE DEF n
<1>6. /\ DOMAIN rec = {"at", "col", "count"} /\ rec.at = "upsertCount" /\ rec.col = col /\ rec.count = n
  OBVIOUS
<1> HIDE DEF rec
<1>7. "at" \in DOMAIN rec /\ "kind" \notin DOMAIN rec /\ rec.at \in RosterPlaces
  BY <1>6
<1>8. /\ Others(q) /\ DOMAIN req'[q] = DOMAIN rec \cup {"kind"} /\ \A f \in DOMAIN rec : req'[q][f] = rec[f]
      /\ Doing(q, "outcome")' /\ Single' /\ RosterRows' /\ RosterGrow(q)
  BY <1>1, <1>5, <1>7, BeginRoster
<1>9. /\ DOMAIN req'[q] = {"at", "col", "count", "kind"} /\ req'[q].at = "upsertCount"
      /\ req'[q].col = col /\ req'[q].count = n
  BY <1>6, <1>8
<1>10. req'[q].count = currentCount(req[q].col)'
  BY <1>4, <1>9 DEF currentCount
<1>11. RosterReq(q)'
  BY <1>3, <1>8, <1>9, <1>10 DEF RosterReq, Hiring, Learning, Connecting, At, Has
<1> QED BY <1>8, <1>11, RosterAct

LEMMA UpsertCountKeeps ==
  ASSUME RosterInv, NEW q \in Reqs, Common', UpsertCount(q)
  PROVE  RosterInv'
<1>1. /\ RosterReq(q) /\ At(q, "upsertCount") /\ Return(q)
      /\ UNCHANGED <<agent, skill, repo, goalTitle, tool, made, overlapped>>
  BY DEF RosterInv, UpsertCount
<1> DEFINE col == req[q].col  n == req[q].count
<1>2. /\ Doing(q, "outcome") /\ col \in {"success", "fail"} /\ n \in Nat
      /\ "outcome" \notin overlapped => n = currentCount(col)
  BY <1>1 DEF RosterReq, Learning
<1>3. /\ reputation' = IF reputation = <<>> THEN <<[[success |-> 0, fail |-> 0] EXCEPT ![col] = 1]>>
                       ELSE [reputation EXCEPT ![1][col] = n + 1]
      /\ outcomes' = [outcomes EXCEPT ![col] = @ + 1]
  BY DEF UpsertCount
<1> HIDE DEF col, n
<1> DEFINE old == IF reputation = <<>> THEN [success |-> 0, fail |-> 0] ELSE reputation[1]
           new == [old EXCEPT ![col] = IF reputation = <<>> THEN 1 ELSE n + 1]
<1>4. /\ reputation = <<>> \/ 1 \in DOMAIN reputation
      /\ reputation # <<>> => reputation[1] \in ReputationRow
      /\ outcomes \in ReputationRow
  BY DEF RosterInv, RosterRows, RosterTypeOK, Made
<1>5. old \in ReputationRow /\ new \in ReputationRow
  BY <1>2, <1>4 DEF ReputationRow
<1>6. reputation' # <<>> /\ 1 \in DOMAIN reputation' /\ reputation'[1] = new
  <2>1. CASE reputation = <<>>
    <3>1. reputation' = <<new>>
      BY <1>3, <2>1
    <3> HIDE DEF new
    <3> QED BY <3>1
  <2>2. CASE reputation # <<>>
    <3>1. 1 \in DOMAIN reputation /\ DOMAIN reputation' = DOMAIN reputation
      BY <1>3, <1>4, <2>2
    <3>2. reputation'[1] = [reputation[1] EXCEPT ![col] = n + 1]
      BY <1>3, <2>2, <3>1
    <3>3. reputation' # <<>>
      BY <3>1
    <3> QED BY <2>2, <3>1, <3>2, <3>3
  <2> QED BY <2>1, <2>2
<1>7. \A c \in {"success", "fail"} : currentCount(c) = old[c]
  BY DEF currentCount
<1>8. \A c \in {"success", "fail"} : currentCount(c)' = new[c]
  BY <1>6 DEF currentCount
<1>9. "outcome" \notin overlapped => \A c \in {"success", "fail"} : new[c] = outcomes'[c]
  <2>1. SUFFICES ASSUME "outcome" \notin overlapped, NEW c \in {"success", "fail"}
                 PROVE  new[c] = outcomes'[c]
    OBVIOUS
  <2>2. \A d \in {"success", "fail"} : old[d] = outcomes[d]
    BY <1>7, <2>1 DEF RosterInv, RosterRows, ErrsOnlyByOverlap
  <2>3. n = old[col]
    BY <1>2, <1>7, <2>1
  <2>4. CASE c # col
    BY <1>2, <1>3, <1>4, <1>5, <2>2, <2>4 DEF ReputationRow
  <2>5. CASE c = col
    <3>1. outcomes'[col] = outcomes[col] + 1
      BY <1>2, <1>3, <1>4 DEF ReputationRow
    <3>2. new[col] = IF reputation = <<>> THEN 1 ELSE n + 1
      BY <1>2, <1>5 DEF ReputationRow
    <3>3. reputation = <<>> => old[col] = 0
      BY <1>2
    <3> QED BY <1>2, <2>2, <2>3, <2>5, <3>1, <3>2, <3>3
  <2> QED BY <2>4, <2>5
<1>10. outcomes' \in ReputationRow
  BY <1>2, <1>3, <1>4 DEF ReputationRow
<1> HIDE DEF old, new
<1>11. RosterTypeOK' /\ Made'
  BY <1>1, <1>5, <1>6, <1>10 DEF RosterInv, RosterRows, RosterTypeOK, Made
<1>12. ErrsOnlyByOverlap'
  BY <1>1, <1>8, <1>9 DEF RosterInv, RosterRows, ErrsOnlyByOverlap
<1>13. OptimiserIsBounded' /\ RosterGrow(q)
  BY <1>1, <1>2 DEF RosterInv, RosterRows, OptimiserIsBounded, RosterGrow
<1> QED BY <1>1, <1>11, <1>12, <1>13, RosterEnds DEF RosterRows

-----------------------------------------------------------------------------
(* Repos and their issues; tools. *)

\* A row is made under the next number.
LEMMA MakeCounts ==
  ASSUME Made, Make
  PROVE  /\ made' \in 0..MaxMade /\ made' = made + 1 /\ made' \in 1..made' /\ made' \notin 1..made
         /\ 1..made \subseteq 1..made'
<1>1. made \in 0..MaxMade /\ made < MaxMade /\ made' = made + 1
  BY DEF Made, Make, Next1
<1> QED BY <1>1, RosterAssumption

LEMMA ConnectRepoKeeps ==
  ASSUME RosterInv, NEW q \in Reqs, Common', ConnectRepo(q)
  PROVE  RosterInv'
<1> USE DEF RosterPlaces
<1>1. UNCHANGED rosterRows
  BY DEF ConnectRepo, rosterRows
<1>2. CASE Return(q) /\ UNCHANGED overlapped
  BY <1>1, <1>2, RosterIdle
<1>3. CASE (~\E r \in DOMAIN repo : repo[r] = "acme/site") /\ Begin(q, "connect", [at |-> "insertRepo"])
  <2>1. DOMAIN repo = {}
    BY <1>3 DEF RosterInv, RosterRows, Made
  <2> DEFINE rec == [at |-> "insertRepo"]
  <2>2. Begin(q, "connect", rec) /\ DOMAIN rec = {"at"} /\ rec.at = "insertRepo"
    BY <1>3
  <2> HIDE DEF rec
  <2>3. "at" \in DOMAIN rec /\ "kind" \notin DOMAIN rec /\ rec.at \in RosterPlaces
    BY <2>2
  <2>4. /\ Others(q) /\ req'[q].at = "insertRepo" /\ Doing(q, "connect")' /\ Single' /\ RosterRows'
        /\ RosterGrow(q)
    BY <1>1, <2>2, <2>3, BeginRoster
  <2>5. RosterReq(q)'
    BY <1>1, <2>1, <2>4 DEF RosterReq, Hiring, Learning, Connecting, At, rosterRows
  <2> QED BY <2>4, <2>5, RosterAct
<1> QED BY <1>2, <1>3 DEF ConnectRepo

LEMMA InsertRepoKeeps ==
  ASSUME RosterInv, NEW q \in Reqs, Common', InsertRepo(q)
  PROVE  RosterInv'
<1>1. /\ RosterReq(q) /\ At(q, "insertRepo") /\ Return(q) /\ Make
      /\ repo' = Put(repo, made + 1, "acme/site")
      /\ UNCHANGED <<agent, skill, reputation, outcomes, goalTitle, tool, overlapped>>
  BY DEF RosterInv, InsertRepo, Next1
<1>2. Doing(q, "connect") /\ ("connect" \notin overlapped => DOMAIN repo = {})
  BY <1>1 DEF RosterReq, Connecting
<1>3. /\ made' \in 0..MaxMade /\ made' = made + 1 /\ made' \in 1..made' /\ 1..made \subseteq 1..made'
  BY <1>1, MakeCounts DEF RosterInv, RosterRows
<1>4. /\ DOMAIN repo' = DOMAIN repo \cup {made'} /\ repo'[made'] = "acme/site"
      /\ \A r \in DOMAIN repo : repo'[r] = repo[r]
  BY <1>1, <1>3 DEF Put, RosterInv, RosterRows, Made
<1>5. "connect" \notin overlapped => Cardinality(DOMAIN repo') <= 1
  <2>1. "connect" \notin overlapped => DOMAIN repo' = {made'}
    BY <1>2, <1>4
  <2>2. Cardinality({made'}) = 1
    BY FS_Singleton
  <2> QED BY <2>1, <2>2
<1> USE DEF RosterInv, RosterRows
<1>6. ErrsOnlyByOverlap'
  BY <1>1, <1>5 DEF ErrsOnlyByOverlap, currentCount
<1>7. Made'
  BY <1>1, <1>3, <1>4 DEF Made
<1>8. RosterTypeOK' /\ OptimiserIsBounded' /\ RosterGrow(q)
  BY <1>1, <1>2 DEF RosterTypeOK, OptimiserIsBounded, RosterGrow
<1> QED BY <1>1, <1>6, <1>7, <1>8, RosterEnds

LEMMA IngestIssuesKeeps ==
  ASSUME RosterInv, NEW q \in Reqs, Common', IngestIssues(q)
  PROVE  RosterInv'
<1> USE DEF RosterPlaces
<1>1. UNCHANGED rosterRows
  BY DEF IngestIssues, rosterRows
<1>2. PICK issues \in githubIssueFetcher : Begin(q, "ingest", [at |-> "readTitles", todo |-> issues])
  BY DEF IngestIssues
<1> DEFINE rec == [at |-> "readTitles", todo |-> issues]
<1>3. Begin(q, "ingest", rec) /\ DOMAIN rec = {"at", "todo"} /\ rec.at = "readTitles"
  BY <1>2
<1> HIDE DEF rec
<1>4. "at" \in DOMAIN rec /\ "kind" \notin DOMAIN rec /\ rec.at \in RosterPlaces
  BY <1>3
<1>5. /\ Others(q) /\ DOMAIN req'[q] = DOMAIN rec \cup {"kind"} /\ \A f \in DOMAIN rec : req'[q][f] = rec[f]
      /\ Doing(q, "ingest")' /\ Single' /\ RosterRows' /\ RosterGrow(q)
  BY <1>1, <1>3, <1>4, BeginRoster
<1>6. RosterReq(q)'
  BY <1>3, <1>5 DEF RosterReq, Hiring, Learning, Connecting, At, Has
<1> QED BY <1>5, <1>6, RosterAct

LEMMA ReadTitlesKeeps ==
  ASSUME RosterInv, NEW q \in Reqs, Common', ReadTitles(q)
  PROVE  RosterInv'
<1> USE DEF RosterPlaces
<1>1. /\ RosterReq(q) /\ At(q, "readTitles") /\ UNCHANGED <<rosterRows, overlapped>>
      /\ GotoWith(q, "insertGoal", [todo |-> req[q].todo \ Titles])
  BY DEF RosterInv, ReadTitles, rosterVars, rosterRows
<1>2. Doing(q, "ingest") /\ Has(q, {"todo"})
  BY <1>1 DEF RosterReq, Connecting, At
<1>3. PICK rest : rest = req[q].todo \ Titles
  OBVIOUS
<1> DEFINE rec == [todo |-> rest]
<1>4. GotoWith(q, "insertGoal", rec) /\ DOMAIN rec = {"todo"} /\ rec.todo = rest
  BY <1>1, <1>3
<1> HIDE DEF rec
<1>5. {"at", "kind"} \cap DOMAIN rec = {} /\ req[q].at \in RosterPlaces
  BY <1>1, <1>4 DEF At
<1>6. /\ Others(q) /\ DOMAIN req'[q] = DOMAIN req[q] \cup DOMAIN rec /\ req'[q].at = "insertGoal"
      /\ \A f \in DOMAIN rec : req'[q][f] = rec[f]
      /\ Single' /\ \A kind : Doing(q, kind) => Doing(q, kind)'
  BY <1>1, <1>4, <1>5, GoOnRoster
<1>7. Titles' = Titles
  BY <1>1 DEF Titles, rosterRows
<1>8. Has(q, {"todo"})' /\ req'[q].todo \cap Titles' = {} /\ Doing(q, "ingest")'
  BY <1>2, <1>3, <1>4, <1>6, <1>7 DEF Has
<1>9. RosterReq(q)'
  BY <1>6, <1>8 DEF RosterReq, Hiring, Learning, Connecting, At
<1>10. RosterRows' /\ RosterGrow(q)
  BY <1>1, RosterUnchanged DEF RosterInv
<1> QED BY <1>6, <1>9, <1>10, RosterAct

LEMMA InsertGoalKeeps ==
  ASSUME RosterInv, NEW q \in Reqs, Common', InsertGoal(q)
  PROVE  RosterInv'
<1> USE DEF RosterPlaces
<1>1. /\ RosterReq(q) /\ At(q, "insertGoal")
      /\ UNCHANGED <<agent, skill, reputation, outcomes, repo, tool, overlapped>>
  BY DEF RosterInv, InsertGoal
<1>2. /\ Doing(q, "ingest") /\ Has(q, {"todo"})
      /\ ("ingest" \notin overlapped => req[q].todo \cap Titles = {})
  BY <1>1 DEF RosterReq, Connecting, At
<1>3. CASE Return(q) /\ UNCHANGED <<goalTitle, made>>
  BY <1>1, <1>3, RosterIdle DEF rosterRows
<1>4. CASE \E i \in req[q].todo :
             /\ GotoWith(q, "insertGoal", [todo |-> req[q].todo \ {i}])
             /\ Make /\ goalTitle' = Put(goalTitle, Next1, i)
  <2>1. PICK i \in req[q].todo :
             /\ GotoWith(q, "insertGoal", [todo |-> req[q].todo \ {i}])
             /\ Make /\ goalTitle' = Put(goalTitle, made + 1, i)
    BY <1>4 DEF Next1
  <2>2. PICK rest : rest = req[q].todo \ {i}
    OBVIOUS
  <2> DEFINE rec == [todo |-> rest]
  <2>3. GotoWith(q, "insertGoal", rec) /\ DOMAIN rec = {"todo"} /\ rec.todo = rest
    BY <2>1, <2>2
  <2> HIDE DEF rec
  <2>4. {"at", "kind"} \cap DOMAIN rec = {} /\ req[q].at \in RosterPlaces
    BY <1>1, <2>3 DEF At
  <2>5. /\ Others(q) /\ DOMAIN req'[q] = DOMAIN req[q] \cup DOMAIN rec /\ req'[q].at = "insertGoal"
        /\ \A f \in DOMAIN rec : req'[q][f] = rec[f]
        /\ Single' /\ \A kind : Doing(q, kind) => Doing(q, kind)'
    BY <1>1, <2>3, <2>4, GoOnRoster
  <2>6. /\ made' \in 0..MaxMade /\ made' = made + 1 /\ made' \in 1..made' /\ made' \notin 1..made
        /\ 1..made \subseteq 1..made'
    BY <2>1, MakeCounts DEF RosterInv, RosterRows
  <2>7. DOMAIN goalTitle \subseteq 1..made
    BY DEF RosterInv, RosterRows, Made
  <2>8. /\ DOMAIN goalTitle' = DOMAIN goalTitle \cup {made'} /\ goalTitle'[made'] = i
        /\ \A g \in DOMAIN goalTitle : goalTitle'[g] = goalTitle[g]
    BY <2>1, <2>6, <2>7 DEF Put
  <2>9. Titles' \subseteq Titles \cup {i}
    BY <2>8 DEF Titles
  <2>10. Has(q, {"todo"})' /\ Doing(q, "ingest")' /\ ("ingest" \notin overlapped => req'[q].todo \cap Titles' = {})
    BY <1>2, <2>2, <2>3, <2>5, <2>9 DEF Has
  <2>11. RosterReq(q)'
    BY <1>1, <2>5, <2>10 DEF RosterReq, Hiring, Learning, Connecting, At
  <2> USE DEF RosterInv, RosterRows
  <2>12. "ingest" \notin overlapped => \A g, h \in DOMAIN goalTitle' : goalTitle'[g] = goalTitle'[h] => g = h
    <3>1. "ingest" \notin overlapped => \A g \in DOMAIN goalTitle : goalTitle[g] # i
      BY <1>2, <2>1 DEF Titles
    <3> QED BY <2>8, <3>1 DEF ErrsOnlyByOverlap
  <2>13. ErrsOnlyByOverlap'
    BY <1>1, <2>12 DEF ErrsOnlyByOverlap, currentCount
  <2>14. Made'
    BY <1>1, <2>6, <2>8 DEF Made
  <2>15. RosterTypeOK' /\ OptimiserIsBounded' /\ RosterGrow(q)
    BY <1>1, <1>2 DEF RosterTypeOK, OptimiserIsBounded, RosterGrow
  <2> QED BY <2>5, <2>11, <2>13, <2>14, <2>15, RosterAct
<1> QED BY <1>3, <1>4 DEF InsertGoal

LEMMA ToolsKeep ==
  ASSUME RosterInv, NEW q \in Reqs, Common', ToolsRoutes(q)
  PROVE  RosterInv'
<1>1. /\ Return(q)
      /\ UNCHANGED <<agent, skill, reputation, outcomes, repo, goalTitle, overlapped>>
  BY DEF ToolsRoutes, CreateTool, PublishTool, DeleteTool
<1>2. /\ made \in 0..MaxMade /\ DOMAIN tool \subseteq 1..made
      /\ \A t \in DOMAIN tool : tool[t] \in BOOLEAN
  BY DEF RosterInv, RosterRows, RosterTypeOK, Made
<1>3. /\ made' \in 0..MaxMade /\ 1..made \subseteq 1..made' /\ DOMAIN tool' \subseteq 1..made'
      /\ \A t \in DOMAIN tool' : tool'[t] \in BOOLEAN
  <2>1. CASE CreateTool(q)
    <3>1. Make /\ tool' = Put(tool, made + 1, FALSE)
      BY <2>1 DEF CreateTool, Next1
    <3>2. made' \in 0..MaxMade /\ made' = made + 1 /\ made' \in 1..made' /\ 1..made \subseteq 1..made'
      BY <3>1, MakeCounts DEF RosterInv, RosterRows
    <3> QED BY <1>2, <3>1, <3>2 DEF Put
  <2>2. CASE PublishTool(q) \/ DeleteTool(q)
    BY <1>2, <2>2 DEF PublishTool, DeleteTool
  <2> QED BY <2>1, <2>2 DEF ToolsRoutes
<1> USE DEF RosterInv, RosterRows
<1>4. Made'
  <2>1. DOMAIN agent \subseteq Workspaces \cup 1..made'
    BY <1>3 DEF Made
  <2> QED BY <1>1, <1>3, <2>1 DEF Made
<1>5. RosterTypeOK' /\ OptimiserIsBounded' /\ RosterGrow(q)
  BY <1>1, <1>3 DEF RosterTypeOK, OptimiserIsBounded, RosterGrow
<1>6. ErrsOnlyByOverlap'
  BY <1>1 DEF ErrsOnlyByOverlap, currentCount
<1> QED BY <1>1, <1>4, <1>5, <1>6, RosterEnds

-----------------------------------------------------------------------------
(* The roster as a whole. *)

LEMMA RosterKeeps ==
  ASSUME RosterInv, NEW q \in Reqs, Common', RosterHandler(q)
  PROVE  RosterInv'
<1>1. CASE AgentRoutes(q)
  BY <1>1, CreateAgentKeeps, InsertAgentKeeps, SetAgentSharedKeeps, SetAgentConfigKeeps, WriteConfigKeeps,
     SaveSkillKeeps, OptimiseKeeps, NextVersionKeeps, InsertSkillKeeps DEF AgentRoutes
<1>2. CASE AssistantRoute(q)
  BY <1>2, AssistantKeeps, InsertAssistantKeeps DEF AssistantRoute
<1>3. CASE RepoRoutes(q)
  BY <1>3, ConnectRepoKeeps, InsertRepoKeeps, IngestIssuesKeeps, ReadTitlesKeeps, InsertGoalKeeps
     DEF RepoRoutes
<1> QED BY <1>1, <1>2, <1>3, ToolsKeep, RecordOutcomeKeeps, UpsertCountKeeps DEF RosterHandler

LEMMA RosterStart == ServerInit => RosterInv
<1> SUFFICES ASSUME ServerInit PROVE RosterInv
  OBVIOUS
<1>1. Common /\ RosterInit /\ \A q \in Reqs : At(q, "new")
  BY Start DEF ServerInit
<1>2. DOMAIN agent = {} /\ DOMAIN repo = {} /\ DOMAIN goalTitle = {} /\ DOMAIN tool = {}
  BY <1>1 DEF RosterInit
<1>3. Cardinality({}) = 0 /\ IsFiniteSet({})
  BY FS_EmptySet
<1>4. RosterTypeOK /\ OptimiserIsBounded
  BY <1>1, <1>2 DEF RosterInit, RosterTypeOK, OptimiserIsBounded
<1>5. ErrsOnlyByOverlap
  <2>1. DOMAIN agent \ Workspaces = {}
    BY <1>2
  <2>2. \A col \in {"success", "fail"} : currentCount(col) = outcomes[col]
    BY <1>1 DEF RosterInit, currentCount
  <2>3. Cardinality(DOMAIN repo) <= 1
    BY <1>2, <1>3
  <2>4. AgentLimit >= 0 => Cardinality(DOMAIN agent \ Workspaces) <= AgentLimit
    BY <1>3, <2>1, RosterAssumption
  <2> QED BY <1>2, <2>2, <2>3, <2>4 DEF ErrsOnlyByOverlap
<1>6. Made
  BY <1>1, <1>2, <1>3, RosterAssumption DEF RosterInit, Made, ReputationRow
<1>7. Single /\ \A q \in Reqs : RosterReq(q)
  BY <1>1 DEF Single, Doing, RosterPlaces, RosterReq, Hiring, Learning, Connecting, At
<1> QED BY <1>1, <1>4, <1>5, <1>6, <1>7 DEF RosterInv, RosterRows

LEMMA RosterNext ==
  ASSUME RosterInv, [ServerNext]_vars
  PROVE  RosterInv'
<1>1. Common /\ Common'
  BY Steps DEF RosterInv
<1> DEFINE aside == /\ UNCHANGED rosterVars
                    /\ \A q \in Reqs : req'[q] = req[q] \/ req'[q].at \notin RosterPlaces
<1>2. ASSUME aside PROVE RosterInv'
  BY <1>1, <1>2, RosterAside
<1>3. ASSUME NEW q \in Reqs, NEW places \in {AccessPlaces, RoomsPlaces, MemoryPlaces, VenturePlaces},
             Moves(q, places), UNCHANGED rosterVars
      PROVE  aside
  <2>1. places \cap ({"done"} \cup RosterPlaces) = {} /\ "done" \notin RosterPlaces
    BY DEF AccessPlaces, RoomsPlaces, RosterPlaces, MemoryPlaces, VenturePlaces
  <2> QED BY <1>3, <2>1 DEF Moves, Others
<1>4. CASE \E q \in Reqs : RosterHandler(q)
  BY <1>1, <1>4, RosterKeeps
<1>5. CASE TimePasses /\ UNCHANGED req
  <2>1. aside
    BY <1>5 DEF TimePasses
  <2> QED BY <1>2, <2>1
<1>6. CASE ServerRestarts /\ Dying
  <2>1. aside
    BY <1>6 DEF ServerRestarts, Dying, RosterPlaces
  <2> QED BY <1>2, <2>1
<1>7. CASE UNCHANGED vars
  <2>1. aside
    BY <1>7 DEF vars
  <2> QED BY <1>2, <2>1
<1> HIDE DEF aside
<1>8. CASE \E q \in Reqs : \E places \in {AccessPlaces, RoomsPlaces, MemoryPlaces, VenturePlaces} :
             Moves(q, places) /\ UNCHANGED rosterVars
  BY <1>2, <1>3, <1>8
<1> QED BY <1>1, <1>4, <1>5, <1>6, <1>7, <1>8, Steps

\* Handles are unique, repos, goals, agents and counted outcomes err only where two calls
\* of a kind overlapped, and the optimiser adds a lesson at a time, for any limit.
THEOREM RosterSoundHolds == Spec => []RosterSound
<1>1. ServerInit => RosterInv
  BY RosterStart
<1>2. RosterInv /\ [ServerNext]_vars => RosterInv'
  BY RosterNext
<1>3. RosterInv => RosterSound
  BY DEF RosterInv, RosterRows, RosterSound
<1> QED BY <1>1, <1>2, <1>3, PTL DEF Spec

-----------------------------------------------------------------------------
(* Memory: versions are what they were, and a dream is somebody's work until *)
(* it is linked.                                                           *)

\* Raw nodes are numbered.
Counted == Cardinality(Ids) \in Nat /\ Ids = 1..Cardinality(Ids)

\* What is not linked yet is left to whoever made the dream, at it still or dead.
Dreaming ==
  \A d \in dream : \A n \in d : <<d, n>> \in linked
    \/ \E q \in Reqs : req[q].at \in {"members", "dead"} /\ Has(q, {"cluster"}) /\ req[q].cluster = d

Linking(q) ==
  /\ At(q, "link") =>
       /\ Has(q, {"from", "to", "relation"}) /\ req[q].from \in Ids /\ req[q].to \in Ids
       /\ req[q].relation \in {"derived_from", "supersedes", "contradicts"}
       /\ req[q].relation = "supersedes" => node[req[q].from].version = node[req[q].to].version + 1
  /\ req[q].at \in {"retire", "replace"} =>
       Has(q, {"old", "version"}) /\ req[q].old \in Ids /\ req[q].version = node[req[q].old].version
  /\ At(q, "relate") => Has(q, {"todo"}) /\ \A pair \in req[q].todo : pair \subseteq Ids
Joining(q) ==
  /\ req[q].at \in {"cluster", "insertDream", "members"} =>
       Has(q, {"todo"}) /\ \A c \in req[q].todo : c \subseteq Ids
  /\ At(q, "insertDream") =>
       Has(q, {"cluster", "members"}) /\ req[q].cluster \subseteq Ids /\ req[q].members = req[q].cluster
  /\ At(q, "members") =>
       /\ Has(q, {"cluster", "members"}) /\ req[q].cluster \in dream
       /\ req[q].members \subseteq req[q].cluster
       /\ \A n \in req[q].cluster \ req[q].members : <<req[q].cluster, n>> \in linked
MemoryReq(q) == Linking(q) /\ Joining(q)

MemoryRows == MemoryTypeOK /\ GraphIsSound /\ Counted
MemoryInv == Common /\ MemoryRows /\ Dreaming /\ \A q \in Reqs : MemoryReq(q)

\* Nothing another request counts on is taken back.
MemoryGrow ==
  /\ Ids \subseteq Ids' /\ \A n \in Ids : node'[n].version = node[n].version
  /\ dream \subseteq dream' /\ linked \subseteq linked'

LEMMA MemoryReqKept ==
  ASSUME MemoryGrow, NEW q \in Reqs, MemoryReq(q), req'[q] = req[q]
  PROVE  MemoryReq(q)'
<1>1. Linking(q)'
  BY DEF MemoryReq, Linking, MemoryGrow, At, Has
<1>2. Joining(q)'
  BY DEF MemoryReq, Joining, MemoryGrow, At, Has
<1> QED BY <1>1, <1>2 DEF MemoryReq

LEMMA MemoryAct ==
  ASSUME MemoryInv, NEW q \in Reqs, Common', Others(q), MemoryRows', Dreaming', MemoryGrow, MemoryReq(q)'
  PROVE  MemoryInv'
<1>1. \A p \in Reqs \ {q} : MemoryReq(p)'
  BY MemoryReqKept DEF MemoryInv, Others
<1> QED BY <1>1 DEF MemoryInv

LEMMA MemoryUnchanged ==
  ASSUME MemoryRows, UNCHANGED memoryVars
  PROVE  MemoryRows' /\ MemoryGrow
<1>1. Ids' = Ids
  BY DEF memoryVars, Ids
<1>2. MemoryTypeOK' /\ GraphIsSound'
  BY <1>1 DEF MemoryRows, MemoryTypeOK, GraphIsSound, EdgeRow, memoryVars
<1>3. Counted'
  BY <1>1 DEF MemoryRows, Counted
<1>4. MemoryGrow
  BY <1>1 DEF MemoryGrow, memoryVars
<1> QED BY <1>2, <1>3, <1>4 DEF MemoryRows

\* Who was at a dream is at it still.
LEMMA DreamingKept ==
  ASSUME Dreaming, NEW q \in Reqs, Others(q), req[q].at \notin {"members", "dead"}, UNCHANGED <<dream, linked>>
  PROVE  Dreaming'
<1>1. \A p \in Reqs : req[p].at \in {"members", "dead"} => req'[p] = req[p]
  BY DEF Others
<1>2. \A p \in Reqs : \A d : req[p].at \in {"members", "dead"} /\ Has(p, {"cluster"}) /\ req[p].cluster = d
        => req'[p].at \in {"members", "dead"} /\ Has(p, {"cluster"})' /\ req'[p].cluster = d
  BY <1>1 DEF Has
<1> QED BY <1>2 DEF Dreaming

\* Nothing of the memory changes; requests go on elsewhere, or die.
LEMMA MemoryAside ==
  ASSUME MemoryInv, Common', UNCHANGED memoryVars,
         \A q \in Reqs :
           \/ req'[q] = req[q]
           \/ req[q].at \notin {"members", "dead"} /\ req'[q].at \notin MemoryPlaces
           \/ /\ req'[q].at = "dead" /\ DOMAIN req'[q] = DOMAIN req[q]
              /\ \A f \in DOMAIN req[q] \ {"at"} : req'[q][f] = req[q][f]
  PROVE  MemoryInv'
<1>1. MemoryRows' /\ MemoryGrow
  BY MemoryUnchanged DEF MemoryInv
<1>2. ASSUME NEW q \in Reqs PROVE MemoryReq(q)'
  <2>1. CASE req'[q] = req[q]
    BY <1>1, <2>1, MemoryReqKept DEF MemoryInv
  <2>2. CASE req'[q].at \notin MemoryPlaces
    BY <2>2 DEF MemoryReq, Linking, Joining, MemoryPlaces, At
  <2> QED BY <2>1, <2>2 DEF MemoryPlaces
<1>3. \A q \in Reqs : req[q].at \in {"members", "dead"} /\ Has(q, {"cluster"}) =>
        /\ req'[q].at \in {"members", "dead"} /\ Has(q, {"cluster"})' /\ req'[q].cluster = req[q].cluster
  BY DEF Has
<1>4. Dreaming'
  BY <1>3 DEF MemoryInv, Dreaming, memoryVars
<1> QED BY <1>1, <1>2, <1>4 DEF MemoryInv

LEMMA ReturnMemory ==
  ASSUME MemoryInv, NEW q \in Reqs, Return(q)
  PROVE  Others(q) /\ MemoryReq(q)'
<1>1. DOMAIN req = Reqs
  BY DEF MemoryInv, Common
<1>2. Others(q) /\ req'[q].at = "done"
  BY <1>1, ReturnGives
<1> QED BY <1>2 DEF MemoryReq, Linking, Joining, At

-----------------------------------------------------------------------------
(* What a step may do to nodes and edges. *)

LEMMA NodeInserted ==
  ASSUME MemoryRows, NEW t \in SUBSET Terms, NEW v \in Nat \ {0}, InsertNode(t, v),
         UNCHANGED <<edge, dream, linked>>
  PROVE  /\ MemoryRows' /\ MemoryGrow
         /\ NewId \notin Ids /\ NewId \in Ids' /\ node'[NewId].version = v
<1> DEFINE n == Cardinality(Ids)
           row == [terms |-> t, version |-> v, status |-> "active"]
<1>1. n \in Nat /\ Ids = 1..n /\ NewId = n + 1
  BY DEF MemoryRows, Counted, NewId
<1>2. node' = Put(node, n + 1, row)
  BY DEF InsertNode, NewId
<1>3. row \in NodeRow /\ row.version = v
  BY DEF NodeRow
<1> HIDE DEF n, row
<1>4. n + 1 \notin Ids
  BY <1>1
<1>5. /\ Ids' = Ids \cup {n + 1} /\ node'[n + 1] = row
      /\ \A m \in Ids : node'[m] = node[m]
  BY <1>2, <1>4 DEF Put, Ids
<1>6. Ids' = 1..(n + 1)
  BY <1>1, <1>5
<1>7. Counted'
  <2>1. Cardinality(1..(n + 1)) = n + 1
    BY <1>1, FS_Interval
  <2> QED BY <1>1, <1>6, <2>1 DEF Counted
<1>8. \A m \in Ids' : node'[m] \in NodeRow
  BY <1>3, <1>5 DEF MemoryRows, MemoryTypeOK
<1>9. MemoryTypeOK'
  BY <1>5, <1>8 DEF MemoryRows, MemoryTypeOK, EdgeRow
<1>10. GraphIsSound'
  BY <1>5 DEF MemoryRows, MemoryTypeOK, GraphIsSound, EdgeRow
<1>11. MemoryGrow
  BY <1>5 DEF MemoryGrow
<1> QED BY <1>1, <1>3, <1>4, <1>5, <1>7, <1>9, <1>10, <1>11 DEF MemoryRows

LEMMA StatusChanged ==
  ASSUME MemoryRows, NEW n \in Ids, NEW status \in {"active", "invalidated", "superseded"},
         node' = [node EXCEPT ![n].status = status], UNCHANGED <<edge, dream, linked>>
  PROVE  MemoryRows' /\ MemoryGrow
<1>1. \A r \in NodeRow : [r EXCEPT !.status = status] \in NodeRow
                         /\ [r EXCEPT !.status = status].version = r.version
  BY DEF NodeRow
<1>2. Ids' = Ids /\ \A m \in Ids : node'[m] = node[m] \/ node'[m] = [node[m] EXCEPT !.status = status]
  BY DEF Ids
<1>3. \A m \in Ids : node'[m] \in NodeRow /\ node'[m].version = node[m].version
  BY <1>1, <1>2 DEF MemoryRows, MemoryTypeOK
<1>4. MemoryTypeOK'
  BY <1>2, <1>3 DEF MemoryRows, MemoryTypeOK, EdgeRow
<1>5. GraphIsSound'
  BY <1>2, <1>3 DEF MemoryRows, MemoryTypeOK, GraphIsSound, EdgeRow
<1>6. Counted' /\ MemoryGrow
  BY <1>2, <1>3 DEF MemoryRows, Counted, MemoryGrow
<1> QED BY <1>4, <1>5, <1>6 DEF MemoryRows

LEMMA EdgeInserted ==
  ASSUME MemoryRows, NEW a \in Ids, NEW b \in Ids,
         NEW r \in {"derived_from", "supersedes", "contradicts", "related"},
         edge' = edge \cup {<<a, b, r>>}, UNCHANGED <<node, dream, linked>>,
         r = "supersedes" => node[a].version = node[b].version + 1,
         r = "related" => \A e \in edge : e[3] = "related" => {e[1], e[2]} # {a, b}
  PROVE  MemoryRows' /\ MemoryGrow
<1> DEFINE new == <<a, b, r>>
<1>1. new \in EdgeRow /\ new[1] = a /\ new[2] = b /\ new[3] = r /\ edge' = edge \cup {new}
  BY DEF EdgeRow
<1> HIDE DEF new
<1>2. MemoryTypeOK'
  <2>1. Ids' = Ids /\ EdgeRow' = EdgeRow
    BY DEF Ids, EdgeRow
  <2> QED BY <1>1, <2>1 DEF MemoryRows, MemoryTypeOK
<1>3. GraphIsSound'
  BY <1>1 DEF MemoryRows, GraphIsSound
<1>4. Counted' /\ MemoryGrow
  BY DEF MemoryRows, Counted, MemoryGrow, Ids
<1> QED BY <1>2, <1>3, <1>4 DEF MemoryRows

-----------------------------------------------------------------------------
(* The handlers of the memory. *)

LEMMA RememberKeeps ==
  ASSUME MemoryInv, NEW q \in Reqs, Common', CreateNode(q)
  PROVE  MemoryInv'
<1>1. MemoryRows /\ Dreaming /\ DOMAIN req = Reqs
  BY DEF MemoryInv, Common
<1>2. UNCHANGED <<edge, dream, linked>> /\ At(q, "new")
  BY DEF CreateNode, Called, Enter
<1>3. PICK t \in SUBSET Terms \ {{}}, sources \in {{}} \cup {{n} : n \in Ids} :
        /\ InsertNode(t, 1)
        /\ IF sources = {} THEN Called(q, "remember") /\ Return(q)
           ELSE Enter(q, "remember", [at |-> "link", relation |-> "derived_from", from |-> NewId,
                                      to |-> CHOOSE n \in sources : TRUE])
  BY DEF CreateNode
<1>4. InsertNode(t, 1) /\ t \in SUBSET Terms /\ 1 \in Nat \ {0}
  BY <1>3
<1>5. /\ MemoryRows' /\ MemoryGrow
      /\ NewId \notin Ids /\ NewId \in Ids' /\ node'[NewId].version = 1
  BY <1>1, <1>2, <1>4, NodeInserted
<1>6. CASE sources = {}
  <2>1. Return(q)
    BY <1>3, <1>6
  <2>2. Others(q) /\ MemoryReq(q)'
    BY <2>1, ReturnMemory
  <2>3. Dreaming'
    BY <1>1, <1>2, <2>2, DreamingKept DEF At
  <2> QED BY <1>5, <2>2, <2>3, MemoryAct
<1>7. CASE sources # {}
  <2> DEFINE new == NewId
             old == CHOOSE n \in sources : TRUE
  <2>1. Enter(q, "remember", [at |-> "link", relation |-> "derived_from", from |-> new, to |-> old])
    BY <1>3, <1>7
  <2>2. new \in Ids' /\ old \in Ids
    <3>1. PICK n \in Ids : sources = {n}
      BY <1>7
    <3>2. old \in sources
      BY <1>7
    <3> QED BY <1>5, <3>1, <3>2
  <2> HIDE DEF new, old
  <2>3. Others(q) /\ req'[q] = [at |-> "link", relation |-> "derived_from", from |-> new, to |-> old]
    BY <1>1, <2>1, EnterGives
  <2>4. old \in Ids'
    BY <1>5, <2>2 DEF MemoryGrow
  <2>5. MemoryReq(q)'
    BY <2>2, <2>3, <2>4 DEF MemoryReq, Linking, Joining, At, Has
  <2>6. Dreaming'
    BY <1>1, <1>2, <2>3, DreamingKept DEF At
  <2> QED BY <1>5, <2>3, <2>5, <2>6, MemoryAct
<1> QED BY <1>6, <1>7

LEMMA LinksKeep ==
  ASSUME MemoryInv, NEW q \in Reqs, Common', CreateEdge(q) \/ AddContradiction(q) \/ SetStatus(q)
  PROVE  MemoryInv'
<1>1. MemoryRows /\ Dreaming /\ MemoryReq(q) /\ DOMAIN req = Reqs
  BY DEF MemoryInv, Common
<1>2. CASE CreateEdge(q)
  <2>1. /\ At(q, "link") /\ Return(q) /\ edge' = edge \cup {<<req[q].from, req[q].to, req[q].relation>>}
        /\ UNCHANGED <<node, dream, linked>>
    BY <1>2 DEF CreateEdge
  <2>2. /\ req[q].from \in Ids /\ req[q].to \in Ids
        /\ req[q].relation \in {"derived_from", "supersedes", "contradicts"}
        /\ req[q].relation = "supersedes" => node[req[q].from].version = node[req[q].to].version + 1
    BY <1>1, <2>1 DEF MemoryReq, Linking, At
  <2>3. MemoryRows' /\ MemoryGrow
    BY <1>1, <2>1, <2>2, EdgeInserted
  <2>4. Others(q) /\ MemoryReq(q)'
    BY <2>1, ReturnMemory
  <2>5. Dreaming'
    BY <1>1, <2>1, <2>4, DreamingKept DEF At
  <2> QED BY <2>3, <2>4, <2>5, MemoryAct
<1>3. CASE AddContradiction(q)
  <2>1. PICK m \in Ids, n \in Ids :
          Enter(q, "contradict", [at |-> "link", relation |-> "contradicts", from |-> m, to |-> n])
    BY <1>3 DEF AddContradiction
  <2>2. At(q, "new") /\ Others(q) /\ req'[q] = [at |-> "link", relation |-> "contradicts", from |-> m, to |-> n]
    BY <1>1, <2>1, EnterGives
  <2>3. UNCHANGED memoryVars
    BY <1>3 DEF AddContradiction
  <2>4. Ids' = Ids
    BY <2>3 DEF memoryVars, Ids
  <2>5. MemoryReq(q)'
    BY <2>2, <2>4 DEF MemoryReq, Linking, Joining, At, Has
  <2>6. Dreaming'
    BY <1>1, <2>2, <2>3, DreamingKept DEF At, memoryVars
  <2> QED BY <1>1, <2>2, <2>3, <2>5, <2>6, MemoryUnchanged, MemoryAct
<1>4. CASE SetStatus(q)
  <2>1. Called(q, "status") /\ Return(q) /\ UNCHANGED <<edge, dream, linked>>
    BY <1>4 DEF SetStatus
  <2>2. PICK n \in Ids, status \in {"invalidated", "active"} : node' = [node EXCEPT ![n].status = status]
    BY <1>4 DEF SetStatus
  <2>3. MemoryRows' /\ MemoryGrow
    BY <1>1, <2>1, <2>2, StatusChanged
  <2>4. Others(q) /\ MemoryReq(q)'
    BY <2>1, ReturnMemory
  <2>5. Dreaming'
    BY <1>1, <2>1, <2>4, DreamingKept DEF Called, At
  <2> QED BY <2>3, <2>4, <2>5, MemoryAct
<1> QED BY <1>2, <1>3, <1>4

LEMMA VersionsKeep ==
  ASSUME MemoryInv, NEW q \in Reqs, Common', Supersede(q) \/ Retire(q) \/ Replace(q)
  PROVE  MemoryInv'
<1>1. MemoryRows /\ Dreaming /\ MemoryReq(q) /\ DOMAIN req = Reqs /\ "at" \in DOMAIN req[q]
  BY DEF MemoryInv, Common, Has
<1>2. CASE Supersede(q)
  <2>1. UNCHANGED memoryVars /\ At(q, "new")
    BY <1>2 DEF Supersede, Called, Enter
  <2>2. MemoryRows' /\ MemoryGrow
    BY <1>1, <2>1, MemoryUnchanged
  <2>3. CASE Return(q)
    <3>1. Others(q) /\ MemoryReq(q)'
      BY <2>3, ReturnMemory
    <3>2. Dreaming'
      BY <1>1, <2>1, <3>1, DreamingKept DEF At, memoryVars
    <3> QED BY <2>2, <3>1, <3>2, MemoryAct
  <2>4. CASE \E n \in Ids : Enter(q, "supersede", [at |-> "retire", old |-> n, version |-> node[n].version])
    <3>1. PICK n \in Ids : Enter(q, "supersede", [at |-> "retire", old |-> n, version |-> node[n].version])
      BY <2>4
    <3>2. Others(q) /\ req'[q] = [at |-> "retire", old |-> n, version |-> node[n].version]
      BY <1>1, <3>1, EnterGives
    <3>3. Ids' = Ids /\ node' = node
      BY <2>1 DEF memoryVars, Ids
    <3>4. MemoryReq(q)'
      BY <3>2, <3>3 DEF MemoryReq, Linking, Joining, At, Has
    <3>5. Dreaming'
      BY <1>1, <2>1, <3>2, DreamingKept DEF At, memoryVars
    <3> QED BY <2>2, <3>2, <3>4, <3>5, MemoryAct
  <2> QED BY <1>2, <2>3, <2>4 DEF Supersede
<1>3. CASE Retire(q)
  <2>1. /\ At(q, "retire") /\ Goto(q, "replace") /\ UNCHANGED <<edge, dream, linked>>
        /\ node' = [node EXCEPT ![req[q].old].status = "superseded"]
    BY <1>3 DEF Retire
  <2>2. Has(q, {"old", "version"}) /\ req[q].old \in Ids /\ req[q].version = node[req[q].old].version
    BY <1>1, <2>1 DEF MemoryReq, Linking, At
  <2>3. MemoryRows' /\ MemoryGrow
    BY <1>1, <2>1, <2>2, StatusChanged
  <2>4. /\ Others(q) /\ req'[q].at = "replace" /\ DOMAIN req'[q] = DOMAIN req[q]
        /\ req'[q].old = req[q].old /\ req'[q].version = req[q].version
    BY <1>1, <2>1, <2>2, GotoGives DEF Has
  <2>5. MemoryReq(q)'
    BY <2>2, <2>3, <2>4 DEF MemoryReq, Linking, Joining, At, Has, MemoryGrow
  <2>6. Dreaming'
    BY <1>1, <2>1, <2>4, DreamingKept DEF At
  <2> QED BY <2>3, <2>4, <2>5, <2>6, MemoryAct
<1>4. CASE Replace(q)
  <2>1. /\ At(q, "replace") /\ UNCHANGED <<edge, dream, linked>>
        /\ GotoWith(q, "link", [from |-> NewId, to |-> req[q].old, relation |-> "supersedes"])
    BY <1>4 DEF Replace
  <2>2. PICK t \in SUBSET Terms \ {{}} : InsertNode(t, req[q].version + 1)
    BY <1>4 DEF Replace
  <2>3. Has(q, {"old", "version"}) /\ req[q].old \in Ids /\ req[q].version = node[req[q].old].version
    BY <1>1, <2>1 DEF MemoryReq, Linking, At
  <2>4. req[q].version + 1 \in Nat \ {0}
    <3>1. node[req[q].old] \in NodeRow
      BY <1>1, <2>3 DEF MemoryRows, MemoryTypeOK
    <3>2. node[req[q].old].version \in Nat
      BY <3>1 DEF NodeRow
    <3> QED BY <2>3, <3>2
  <2> DEFINE new == NewId
             old == req[q].old
             v == req[q].version + 1
  <2>5. MemoryRows' /\ MemoryGrow /\ new \in Ids' /\ node'[new].version = v
    BY <1>1, <2>1, <2>2, <2>4, NodeInserted
  <2>6. GotoWith(q, "link", [from |-> new, to |-> old, relation |-> "supersedes"])
    BY <2>1
  <2>7. old \in Ids' /\ v = node'[old].version + 1
    BY <2>3, <2>5 DEF MemoryGrow
  <2> HIDE DEF new, old, v
  <2>8. /\ Others(q) /\ req'[q].at = "link" /\ DOMAIN req'[q] = DOMAIN req[q] \cup {"from", "to", "relation"}
        /\ req'[q].from = new /\ req'[q].to = old /\ req'[q].relation = "supersedes"
    BY <1>1, <2>6, GotoWithGives
  <2>9. MemoryReq(q)'
    BY <2>5, <2>7, <2>8 DEF MemoryReq, Linking, Joining, At, Has
  <2>10. Dreaming'
    BY <1>1, <2>1, <2>8, DreamingKept DEF At
  <2> QED BY <2>5, <2>8, <2>9, <2>10, MemoryAct
<1> QED BY <1>2, <1>3, <1>4

LEMMA RelationsKeep ==
  ASSUME MemoryInv, NEW q \in Reqs, Common', DeriveRelatedEdges(q) \/ Relate(q)
  PROVE  MemoryInv'
<1>1. MemoryRows /\ Dreaming /\ MemoryReq(q) /\ DOMAIN req = Reqs /\ "at" \in DOMAIN req[q]
  BY DEF MemoryInv, Common, Has
<1>2. CASE DeriveRelatedEdges(q)
  <2> DEFINE wanted == Wanted
  <2>1. \A pair \in wanted : pair \subseteq Ids
    BY DEF Wanted, listNodes
  <2>2. Enter(q, "derive", [at |-> "relate", todo |-> wanted]) /\ UNCHANGED memoryVars
    BY <1>2 DEF DeriveRelatedEdges
  <2> HIDE DEF wanted
  <2>3. At(q, "new") /\ Others(q) /\ req'[q] = [at |-> "relate", todo |-> wanted]
    BY <1>1, <2>2, EnterGives
  <2>4. MemoryRows' /\ MemoryGrow /\ Ids' = Ids
    BY <1>1, <2>2, MemoryUnchanged DEF memoryVars, Ids
  <2>5. MemoryReq(q)'
    BY <2>1, <2>3, <2>4 DEF MemoryReq, Linking, Joining, At, Has
  <2>6. Dreaming'
    BY <1>1, <2>2, <2>3, DreamingKept DEF At, memoryVars
  <2> QED BY <2>3, <2>4, <2>5, <2>6, MemoryAct
<1>3. CASE Relate(q)
  <2>1. At(q, "relate") /\ UNCHANGED <<node, dream, linked>>
    BY <1>3 DEF Relate
  <2>2. Has(q, {"todo"}) /\ \A pair \in req[q].todo : pair \subseteq Ids
    BY <1>1, <2>1 DEF MemoryReq, Linking, At
  <2>3. CASE Return(q) /\ UNCHANGED edge
    <3>1. UNCHANGED memoryVars
      BY <2>1, <2>3 DEF memoryVars
    <3>2. MemoryRows' /\ MemoryGrow
      BY <1>1, <3>1, MemoryUnchanged
    <3>3. Others(q) /\ MemoryReq(q)'
      BY <2>3, ReturnMemory
    <3>4. Dreaming'
      BY <1>1, <2>1, <3>3, DreamingKept DEF At
    <3> QED BY <3>2, <3>3, <3>4, MemoryAct
  <2>4. CASE \E pair \in req[q].todo : \E a \in pair : \E b \in pair \ {a} :
          /\ GotoWith(q, "relate", [todo |-> req[q].todo \ {pair}])
          /\ edge' = IF \E e \in edge : e[3] = "related" /\ relatedEdgeId(e[1], e[2]) = relatedEdgeId(a, b)
                     THEN edge ELSE edge \cup {<<a, b, "related">>}
    <3>1. PICK pair \in req[q].todo : \E a \in pair : \E b \in pair \ {a} :
          /\ GotoWith(q, "relate", [todo |-> req[q].todo \ {pair}])
          /\ edge' = IF \E e \in edge : e[3] = "related" /\ relatedEdgeId(e[1], e[2]) = relatedEdgeId(a, b)
                     THEN edge ELSE edge \cup {<<a, b, "related">>}
      BY <2>4
    <3>2. PICK a \in pair : \E b \in pair \ {a} :
          /\ GotoWith(q, "relate", [todo |-> req[q].todo \ {pair}])
          /\ edge' = IF \E e \in edge : e[3] = "related" /\ relatedEdgeId(e[1], e[2]) = relatedEdgeId(a, b)
                     THEN edge ELSE edge \cup {<<a, b, "related">>}
      BY <3>1
    <3>9. PICK b \in pair \ {a} :
          /\ GotoWith(q, "relate", [todo |-> req[q].todo \ {pair}])
          /\ edge' = IF \E e \in edge : e[3] = "related" /\ relatedEdgeId(e[1], e[2]) = relatedEdgeId(a, b)
                     THEN edge ELSE edge \cup {<<a, b, "related">>}
      BY <3>2
    <3> DEFINE rest == req[q].todo \ {pair}
    <3>3. a \in Ids /\ b \in Ids /\ \A p \in rest : p \subseteq Ids
      BY <2>2
    <3>4. GotoWith(q, "relate", [todo |-> rest])
      BY <3>9
    <3> HIDE DEF rest
    <3>5. MemoryRows' /\ MemoryGrow
      <4>1. CASE \E e \in edge : e[3] = "related" /\ {e[1], e[2]} = {a, b}
        <5>1. UNCHANGED memoryVars
          BY <2>1, <3>9, <4>1 DEF relatedEdgeId, memoryVars
        <5> QED BY <1>1, <5>1, MemoryUnchanged
      <4>2. CASE ~\E e \in edge : e[3] = "related" /\ {e[1], e[2]} = {a, b}
        <5>1. edge' = edge \cup {<<a, b, "related">>}
          BY <3>9, <4>2 DEF relatedEdgeId
        <5> QED BY <1>1, <2>1, <3>3, <4>2, <5>1, EdgeInserted
      <4> QED BY <4>1, <4>2
    <3>6. /\ Others(q) /\ req'[q].at = "relate" /\ DOMAIN req'[q] = DOMAIN req[q] \cup {"todo"}
          /\ req'[q].todo = rest
      BY <1>1, <3>4, GotoWithGives
    <3>7. MemoryReq(q)'
      BY <3>3, <3>5, <3>6 DEF MemoryReq, Linking, Joining, At, Has, MemoryGrow
    <3>8. Dreaming'
      BY <1>1, <2>1, <3>6, DreamingKept DEF At
    <3> QED BY <3>5, <3>6, <3>7, <3>8, MemoryAct
  <2> QED BY <1>3, <2>3, <2>4 DEF Relate
<1> QED BY <1>2, <1>3

LEMMA ClustersKeep ==
  ASSUME MemoryInv, NEW q \in Reqs, Common', Consolidate(q) \/ NextCluster(q)
  PROVE  MemoryInv'
<1>1. MemoryRows /\ Dreaming /\ MemoryReq(q) /\ DOMAIN req = Reqs /\ "at" \in DOMAIN req[q]
  BY DEF MemoryInv, Common, Has
<1>2. UNCHANGED memoryVars
  BY DEF Consolidate, NextCluster
<1>3. MemoryRows' /\ MemoryGrow /\ Ids' = Ids /\ UNCHANGED <<dream, linked>>
  BY <1>1, <1>2, MemoryUnchanged DEF memoryVars, Ids
<1>4. CASE Consolidate(q)
  <2> DEFINE clusters == clusterNodes
  <2>1. \A c \in clusters : c \subseteq Ids
    BY DEF clusterNodes, ClusterOf
  <2>2. Enter(q, "dream", [at |-> "cluster", todo |-> clusters])
    BY <1>4 DEF Consolidate
  <2> HIDE DEF clusters
  <2>3. At(q, "new") /\ Others(q) /\ req'[q] = [at |-> "cluster", todo |-> clusters]
    BY <1>1, <2>2, EnterGives
  <2>4. MemoryReq(q)'
    BY <1>3, <2>1, <2>3 DEF MemoryReq, Linking, Joining, At, Has
  <2>5. Dreaming'
    BY <1>1, <1>3, <2>3, DreamingKept DEF At
  <2> QED BY <1>3, <2>3, <2>4, <2>5, MemoryAct
<1>5. CASE NextCluster(q)
  <2>1. At(q, "cluster") /\ Has(q, {"todo"}) /\ \A c \in req[q].todo : c \subseteq Ids
    BY <1>1, <1>5 DEF NextCluster, MemoryReq, Joining, At
  <2>2. ASSUME Others(q), MemoryReq(q)' PROVE MemoryInv'
    <3>1. Dreaming'
      BY <1>1, <1>3, <2>1, <2>2, DreamingKept DEF At
    <3> QED BY <1>3, <2>2, <3>1, MemoryAct
  <2>3. CASE Return(q)
    BY <2>2, <2>3, ReturnMemory
  <2>4. CASE \E c \in req[q].todo \cap dream : GotoWith(q, "cluster", [todo |-> req[q].todo \ {c}])
    <3>1. PICK c \in req[q].todo \cap dream : GotoWith(q, "cluster", [todo |-> req[q].todo \ {c}])
      BY <2>4
    <3> DEFINE rest == req[q].todo \ {c}
    <3>2. (\A d \in rest : d \subseteq Ids) /\ GotoWith(q, "cluster", [todo |-> rest])
      BY <2>1, <3>1
    <3> HIDE DEF rest
    <3>3. /\ Others(q) /\ req'[q].at = "cluster" /\ DOMAIN req'[q] = DOMAIN req[q] \cup {"todo"}
          /\ req'[q].todo = rest
      BY <1>1, <3>2, GotoWithGives
    <3>4. MemoryReq(q)'
      BY <1>3, <3>2, <3>3 DEF MemoryReq, Linking, Joining, At, Has
    <3> QED BY <2>2, <3>3, <3>4
  <2>5. CASE \E c \in req[q].todo \ dream :
               GotoWith(q, "insertDream", [todo |-> req[q].todo \ {c}, cluster |-> c, members |-> c])
    <3>1. PICK c \in req[q].todo \ dream :
               GotoWith(q, "insertDream", [todo |-> req[q].todo \ {c}, cluster |-> c, members |-> c])
      BY <2>5
    <3> DEFINE rest == req[q].todo \ {c}
    <3>2. /\ \A d \in rest : d \subseteq Ids
          /\ c \subseteq Ids /\ GotoWith(q, "insertDream", [todo |-> rest, cluster |-> c, members |-> c])
      BY <2>1, <3>1
    <3> HIDE DEF rest
    <3>3. /\ Others(q) /\ req'[q].at = "insertDream"
          /\ DOMAIN req'[q] = DOMAIN req[q] \cup {"todo", "cluster", "members"}
          /\ req'[q].todo = rest /\ req'[q].cluster = c /\ req'[q].members = c
      BY <1>1, <3>2, GotoWithGives
    <3>4. MemoryReq(q)'
      BY <1>3, <3>2, <3>3 DEF MemoryReq, Linking, Joining, At, Has
    <3> QED BY <2>2, <3>3, <3>4
  <2> QED BY <1>5, <2>3, <2>4, <2>5 DEF NextCluster
<1> QED BY <1>4, <1>5

LEMMA DreamsKeep ==
  ASSUME MemoryInv, NEW q \in Reqs, Common', InsertDream(q) \/ LinkMember(q)
  PROVE  MemoryInv'
<1>1. MemoryRows /\ Dreaming /\ MemoryReq(q) /\ DOMAIN req = Reqs /\ "at" \in DOMAIN req[q]
  BY DEF MemoryInv, Common, Has
<1>2. UNCHANGED <<node, edge>> /\ Ids' = Ids /\ EdgeRow' = EdgeRow
  BY DEF InsertDream, LinkMember, Ids, EdgeRow
<1>3. Counted' /\ GraphIsSound'
  BY <1>1, <1>2 DEF MemoryRows, Counted, GraphIsSound
<1>4. /\ Has(q, {"todo", "cluster", "members"}) /\ \A c \in req[q].todo : c \subseteq Ids
  BY <1>1 DEF InsertDream, LinkMember, MemoryReq, Joining, At, Has
<1>5. CASE InsertDream(q)
  <2>1. /\ At(q, "insertDream") /\ Goto(q, "members") /\ dream' = dream \cup {req[q].cluster}
        /\ UNCHANGED linked
    BY <1>5 DEF InsertDream
  <2>2. req[q].cluster \subseteq Ids /\ req[q].members = req[q].cluster
    BY <1>1, <2>1 DEF MemoryReq, Joining, At
  <2>3. /\ Others(q) /\ req'[q].at = "members" /\ DOMAIN req'[q] = DOMAIN req[q]
        /\ req'[q].todo = req[q].todo /\ req'[q].cluster = req[q].cluster /\ req'[q].members = req[q].members
    BY <1>1, <1>4, <2>1, GotoGives DEF Has
  <2>4. MemoryTypeOK'
    BY <1>1, <1>2, <2>1, <2>2 DEF MemoryRows, MemoryTypeOK
  <2>5. MemoryReq(q)'
    BY <1>2, <1>4, <2>1, <2>2, <2>3 DEF MemoryReq, Linking, Joining, At, Has
  <2>6. Dreaming'
    <3>1. \A p \in Reqs : req[p].at \in {"members", "dead"} => req'[p] = req[p]
      BY <2>1, <2>3 DEF Others, At
    <3>2. \A p \in Reqs : \A d :
            req[p].at \in {"members", "dead"} /\ Has(p, {"cluster"}) /\ req[p].cluster = d
              => req'[p].at \in {"members", "dead"} /\ Has(p, {"cluster"})' /\ req'[p].cluster = d
      BY <3>1 DEF Has
    <3>3. Has(q, {"cluster"})'
      BY <1>4, <2>3 DEF Has
    <3> QED BY <1>1, <2>1, <2>3, <3>2, <3>3 DEF Dreaming
  <2>7. MemoryGrow
    BY <1>2, <2>1 DEF MemoryGrow
  <2> QED BY <1>3, <2>3, <2>4, <2>5, <2>6, <2>7, MemoryAct DEF MemoryRows
<1>6. CASE LinkMember(q)
  <2>1. At(q, "members") /\ UNCHANGED dream
    BY <1>6 DEF LinkMember
  <2>2. /\ req[q].cluster \in dream /\ req[q].members \subseteq req[q].cluster
        /\ \A n \in req[q].cluster \ req[q].members : <<req[q].cluster, n>> \in linked
    BY <1>1, <2>1 DEF MemoryReq, Joining, At
  <2>3. CASE req[q].members = {} /\ Goto(q, "cluster") /\ UNCHANGED linked
    <3>1. /\ Others(q) /\ req'[q].at = "cluster" /\ DOMAIN req'[q] = DOMAIN req[q]
          /\ req'[q].todo = req[q].todo
      BY <1>1, <1>4, <2>3, GotoGives DEF Has
    <3>2. MemoryRows' /\ MemoryGrow
      <4>1. UNCHANGED memoryVars
        BY <1>2, <2>1, <2>3 DEF memoryVars
      <4> QED BY <1>1, <4>1, MemoryUnchanged
    <3>3. MemoryReq(q)'
      BY <1>2, <1>4, <3>1 DEF MemoryReq, Linking, Joining, At, Has
    <3>4. Dreaming'
      <4>1. \A p \in Reqs \ {q} : \A d :
              req[p].at \in {"members", "dead"} /\ Has(p, {"cluster"}) /\ req[p].cluster = d
                => req'[p].at \in {"members", "dead"} /\ Has(p, {"cluster"})' /\ req'[p].cluster = d
        BY <3>1 DEF Has, Others
      <4>2. \A n \in req[q].cluster : <<req[q].cluster, n>> \in linked
        BY <2>2, <2>3
      <4>3. linked' = linked /\ dream' = dream
        BY <2>1, <2>3
      <4>4. ASSUME NEW d \in dream, NEW n \in d, <<d, n>> \notin linked
            PROVE  \E p \in Reqs : req'[p].at \in {"members", "dead"} /\ Has(p, {"cluster"})' /\ req'[p].cluster = d
        <5>1. PICK p \in Reqs : req[p].at \in {"members", "dead"} /\ Has(p, {"cluster"}) /\ req[p].cluster = d
          BY <1>1, <4>4 DEF Dreaming
        <5>2. p # q
          BY <4>2, <4>4, <5>1
        <5> QED BY <4>1, <5>1, <5>2
      <4> QED BY <4>3, <4>4 DEF Dreaming
    <3> QED BY <3>1, <3>2, <3>3, <3>4, MemoryAct
  <2>4. CASE \E n \in req[q].members :
               /\ GotoWith(q, "members", [members |-> req[q].members \ {n}])
               /\ linked' = linked \cup {<<req[q].cluster, n>>}
    <3>1. PICK n \in req[q].members :
               /\ GotoWith(q, "members", [members |-> req[q].members \ {n}])
               /\ linked' = linked \cup {<<req[q].cluster, n>>}
      BY <2>4
    <3> DEFINE rest == req[q].members \ {n}
    <3>2. GotoWith(q, "members", [members |-> rest])
      BY <3>1
    <3>3. /\ rest \subseteq req[q].cluster
          /\ \A m \in req[q].cluster \ rest : <<req[q].cluster, m>> \in linked'
      BY <2>2, <3>1
    <3> HIDE DEF rest
    <3>4. /\ Others(q) /\ req'[q].at = "members" /\ DOMAIN req'[q] = DOMAIN req[q] \cup {"members"}
          /\ req'[q].todo = req[q].todo /\ req'[q].cluster = req[q].cluster /\ req'[q].members = rest
      BY <1>1, <1>4, <3>2, GotoWithGives DEF Has
    <3>5. MemoryTypeOK'
      <4>1. n \in req[q].cluster /\ n \in Ids
        BY <1>1, <2>2, <3>1 DEF MemoryRows, MemoryTypeOK
      <4>2. linked' \subseteq dream' \X Ids' /\ \A l \in linked' : l[2] \in l[1]
        BY <1>1, <1>2, <2>1, <2>2, <3>1, <4>1 DEF MemoryRows, MemoryTypeOK
      <4> QED BY <1>1, <1>2, <2>1, <4>2 DEF MemoryRows, MemoryTypeOK
    <3>6. MemoryReq(q)'
      BY <1>2, <1>4, <2>1, <2>2, <3>3, <3>4 DEF MemoryReq, Linking, Joining, At, Has
    <3>7. Dreaming'
      <4>1. \A p \in Reqs : \A d :
              req[p].at \in {"members", "dead"} /\ Has(p, {"cluster"}) /\ req[p].cluster = d
                => req'[p].at \in {"members", "dead"} /\ Has(p, {"cluster"})' /\ req'[p].cluster = d
        BY <3>4 DEF Has, Others
      <4> QED BY <1>1, <2>1, <3>1, <4>1 DEF Dreaming
    <3>8. MemoryGrow
      BY <1>2, <2>1, <3>1 DEF MemoryGrow
    <3> QED BY <1>3, <3>4, <3>5, <3>6, <3>7, <3>8, MemoryAct DEF MemoryRows
  <2> QED BY <1>6, <2>3, <2>4 DEF LinkMember
<1> QED BY <1>5, <1>6

LEMMA MemoryKeeps ==
  ASSUME MemoryInv, NEW q \in Reqs, Common', MemoryRoutes(q)
  PROVE  MemoryInv'
  BY RememberKeeps, LinksKeep, VersionsKeep, RelationsKeep, ClustersKeep, DreamsKeep DEF MemoryRoutes

LEMMA MemoryStart ==
  ASSUME ServerInit
  PROVE  MemoryInv
<1>1. Common /\ \A q \in Reqs : At(q, "new")
  BY Start
<1>2. PICK t \in SUBSET Terms \ {{}} : node = <<[terms |-> t, version |-> 1, status |-> "active"]>>
  BY DEF ServerInit, MemoryInit
<1> DEFINE row == [terms |-> t, version |-> 1, status |-> "active"]
<1>3. edge = {} /\ dream = {} /\ linked = {} /\ node = <<row>>
  BY <1>2 DEF ServerInit, MemoryInit
<1>4. row \in NodeRow
  BY DEF NodeRow
<1> HIDE DEF row
<1>5. Ids = 1..1 /\ node[1] = row
  BY <1>3 DEF Ids
<1>6. Counted
  <2>1. 1..1 = {1}
    OBVIOUS
  <2>2. Cardinality({1}) = 1
    BY FS_Singleton
  <2> QED BY <1>5, <2>1, <2>2 DEF Counted
<1>7. MemoryTypeOK /\ GraphIsSound /\ Dreaming
  BY <1>3, <1>4, <1>5 DEF MemoryTypeOK, GraphIsSound, Dreaming
<1>8. \A q \in Reqs : MemoryReq(q)
  BY <1>1 DEF MemoryReq, Linking, Joining, At
<1> QED BY <1>1, <1>6, <1>7, <1>8 DEF MemoryInv, MemoryRows

LEMMA MemoryNext ==
  ASSUME MemoryInv, [ServerNext]_vars
  PROVE  MemoryInv'
<1>1. Common /\ Common'
  BY Steps DEF MemoryInv
<1> DEFINE aside ==
      /\ UNCHANGED memoryVars
      /\ \A q \in Reqs :
           \/ req'[q] = req[q]
           \/ req[q].at \notin {"members", "dead"} /\ req'[q].at \notin MemoryPlaces
           \/ /\ req'[q].at = "dead" /\ DOMAIN req'[q] = DOMAIN req[q]
              /\ \A f \in DOMAIN req[q] \ {"at"} : req'[q][f] = req[q][f]
<1>2. ASSUME aside PROVE MemoryInv'
  BY <1>1, <1>2, MemoryAside
<1>3. ASSUME NEW q \in Reqs, NEW places \in {AccessPlaces, RoomsPlaces, RosterPlaces, VenturePlaces},
             Moves(q, places), UNCHANGED memoryVars
      PROVE  aside
  <2>1. places \cap ({"new", "done", "dead"} \cup MemoryPlaces) = {}
    BY DEF AccessPlaces, RoomsPlaces, RosterPlaces, MemoryPlaces, VenturePlaces
  <2>2. req[q].at \notin {"members", "dead"} /\ req'[q].at \notin MemoryPlaces
    BY <1>3, <2>1 DEF Moves, MemoryPlaces
  <2> QED BY <1>3, <2>2 DEF Moves, Others
<1>4. CASE \E q \in Reqs : MemoryRoutes(q)
  BY <1>1, <1>4, MemoryKeeps
<1>5. CASE TimePasses /\ UNCHANGED req
  <2>1. aside
    BY <1>5 DEF TimePasses
  <2> QED BY <1>2, <2>1
<1>6. CASE ServerRestarts /\ Dying
  <2>1. aside
    BY <1>6 DEF ServerRestarts, Dying
  <2> QED BY <1>2, <2>1
<1>7. CASE UNCHANGED vars
  <2>1. aside
    BY <1>7 DEF vars
  <2> QED BY <1>2, <2>1
<1> HIDE DEF aside
<1>8. CASE \E q \in Reqs : \E places \in {AccessPlaces, RoomsPlaces, RosterPlaces, VenturePlaces} :
             Moves(q, places) /\ UNCHANGED memoryVars
  BY <1>2, <1>3, <1>8
<1> QED BY <1>1, <1>4, <1>5, <1>6, <1>7, <1>8, Steps

\* Versions climb along what replaces what, two nodes are related once, and a dream is
\* linked to all it was made of or left by who made it, for any terms and requests.
THEOREM MemorySoundHolds == Spec => []MemorySound
<1>1. ServerInit => MemoryInv
  BY MemoryStart
<1>2. MemoryInv /\ [ServerNext]_vars => MemoryInv'
  BY MemoryNext
<1>3. MemoryInv => MemorySound
  BY DEF MemoryInv, MemoryRows, Dreaming, MemorySound, DreamIsLinked, Has
<1> QED BY <1>1, <1>2, <1>3, PTL DEF Spec

-----------------------------------------------------------------------------
(* Ventures: what a request goes on with is still so when it goes on. *)

GoalRow == [autonomy : BOOLEAN, active : BOOLEAN]
LedgerRow == [revenue : Nat, cost : Nat]
CampaignRow == [unit : unit, state : {"pending", "sent", "declined"}, task : {"none", "merged", "done"}]
Addresses == {Audience[i] : i \in DOMAIN Audience}

\* Everybody the campaign was for has it.
Went(c) == c \in delivered /\ \A i \in DOMAIN Audience : <<c, Audience[i]>> \in visitors

VentureRows ==
  /\ unit \subseteq Units /\ DOMAIN campaign \subseteq Units /\ DOMAIN support \subseteq Units
  /\ \A u \in DOMAIN offering : offering[u] \in BOOLEAN
  /\ \A g \in DOMAIN goal : goal[g] \in GoalRow
  /\ ledger \in [Units -> LedgerRow]
  /\ \A c \in DOMAIN campaign : campaign[c] \in CampaignRow
  /\ \A t \in DOMAIN support : support[t] \in {"open", "resolved"}

\* What is on record stays true, whether or not the row is there.
OnRecord ==
  /\ \A u \in Units : <<"kill", u>> \in trail => ledger[u].revenue > 0
  /\ \A c \in Units : <<"outreach.sent", c>> \in trail => Went(c)
  /\ \A t \in Units : <<"support.resolved", t>> \in trail =>
       t \in DOMAIN support /\ support[t] = "resolved"

\* A request that spawns a unit.
Spawning(q) ==
  /\ At(q, "new") => q \notin unit \cup DOMAIN campaign \cup DOMAIN support
  /\ At(q, "offer") => Has(q, {"priced"}) /\ q \in unit
  /\ At(q, "goal") => q \in DOMAIN offering
  /\ req[q].at \in {"drive", "spawned"} => q \in DOMAIN goal
  /\ At(q, "spawned") => goal[q].active
  /\ <<"business.spawned", q>> \in trail => At(q, "done")

\* The books it read are not ahead of the ledger.
BooksFit(books) ==
  DOMAIN books \subseteq Units
    /\ \A u \in DOMAIN books : books[u] \in LedgerRow /\ books[u].revenue <= ledger[u].revenue

\* A request that rebalances the portfolio.
Rebalancing(q) ==
  /\ req[q].at \in {"books", "apply", "retireOffers", "decided"} =>
       Has(q, {"todo", "books"}) /\ BooksFit(req[q].books)
  /\ At(q, "books") => req[q].todo \subseteq Units
  /\ req[q].at \in {"apply", "retireOffers", "decided"} => req[q].todo \subseteq DOMAIN req[q].books
  /\ req[q].at \in {"retireOffers", "decided"} =>
       /\ Has(q, {"unit", "action"}) /\ req[q].unit \in Units
       /\ req[q].action \in {"kill", "scale", "hold"}
       /\ req[q].action = "kill" => ledger[req[q].unit].revenue > 0
  /\ At(q, "retireOffers") => req[q].action = "kill"

\* A request that lets a campaign go out.
Sending(q) ==
  /\ req[q].at \in {"decline", "deliver", "visitors", "sent", "verifyTask", "sentRecord"} =>
       Has(q, {"campaign", "todo", "paid"}) /\ req[q].campaign \in DOMAIN campaign
  /\ At(q, "deliver") => req[q].todo = Audience
  /\ At(q, "visitors") =>
       /\ req[q].campaign \in delivered /\ req[q].todo \in Seq(Addresses)
       /\ \A i \in DOMAIN Audience :
            \/ <<req[q].campaign, Audience[i]>> \in visitors
            \/ \E j \in DOMAIN req[q].todo : req[q].todo[j] = Audience[i]
  /\ req[q].at \in {"sent", "verifyTask", "sentRecord"} => Went(req[q].campaign)

\* A request that resolves a ticket.
Resolving(q) ==
  /\ req[q].at \in {"resolve", "resolved"} => Has(q, {"ticket"}) /\ req[q].ticket \in DOMAIN support
  /\ At(q, "resolved") => support[req[q].ticket] = "resolved"

VentureReq(q) == Spawning(q) /\ Rebalancing(q) /\ Sending(q) /\ Resolving(q)
VenturesInv == Common /\ VenturesSound /\ VentureRows /\ OnRecord /\ \A q \in Reqs : VentureReq(q)

\* Nothing that another request counts on is taken back.
VentureGrow(q) ==
  /\ unit \subseteq unit' /\ unit' \subseteq unit \cup {q}
  /\ DOMAIN campaign \subseteq DOMAIN campaign' /\ DOMAIN campaign' \subseteq DOMAIN campaign \cup {q}
  /\ DOMAIN support \subseteq DOMAIN support' /\ DOMAIN support' \subseteq DOMAIN support \cup {q}
  /\ DOMAIN offering \subseteq DOMAIN offering' /\ DOMAIN goal \subseteq DOMAIN goal'
  /\ \A g \in DOMAIN goal \ {q} : goal[g].active => goal'[g].active
  /\ \A u \in Units : ledger[u].revenue <= ledger'[u].revenue
  /\ delivered \subseteq delivered' /\ visitors \subseteq visitors'
  /\ \A t \in DOMAIN support : support[t] = "resolved" => support'[t] = "resolved"
  /\ \A p \in Reqs \ {q} : <<"business.spawned", p>> \in trail' => <<"business.spawned", p>> \in trail

\* What a step of q is to leave of the rows.
VentureKept(q) == VenturesSound' /\ VentureRows' /\ OnRecord' /\ VentureGrow(q)

LEMMA VentureReqKept ==
  ASSUME VenturesInv, VentureRows', NEW q \in Reqs, VentureGrow(q), NEW p \in Reqs \ {q}, req'[p] = req[p]
  PROVE  VentureReq(p)'
<1>1. VentureReq(p) /\ VentureRows
  BY DEF VenturesInv
<1>2. Spawning(p)'
  BY <1>1 DEF VentureReq, Spawning, VentureGrow, At, Has, VentureRows
<1>3. Rebalancing(p)'
  <2>1. \A u \in Units : ledger[u].revenue \in Nat /\ ledger'[u].revenue \in Nat
    BY <1>1 DEF VentureRows, LedgerRow
  <2>2. ASSUME NEW books, BooksFit(books) PROVE BooksFit(books)'
    BY <2>1, <2>2 DEF BooksFit, VentureGrow, LedgerRow
  <2>3. BooksFit(req[p].books) => BooksFit(req[p].books)'
    BY <2>1 DEF BooksFit, VentureGrow, LedgerRow
  <2> QED BY <1>1, <2>1, <2>3 DEF VentureReq, Rebalancing, VentureGrow, At, Has, BooksFit
<1>4. Sending(p)'
  <2>1. \A c : Went(c) => Went(c)'
    BY DEF Went, VentureGrow
  <2> QED BY <1>1, <2>1 DEF VentureReq, Sending, VentureGrow, At, Has, Went
<1>5. Resolving(p)'
  BY <1>1 DEF VentureReq, Resolving, VentureGrow, At, Has
<1> QED BY <1>2, <1>3, <1>4, <1>5 DEF VentureReq

LEMMA VenturesAct ==
  ASSUME VenturesInv, NEW q \in Reqs, Common', Others(q), VentureKept(q), VentureReq(q)'
  PROVE  VenturesInv'
<1>1. \A p \in Reqs \ {q} : VentureReq(p)'
  BY VentureReqKept DEF Others, VentureKept
<1> QED BY <1>1 DEF VenturesInv, VentureKept

\* Requests that are not at these places hold nothing here.
LEMMA Elsewhere ==
  ASSUME VenturesInv, UNCHANGED ventureVars, NEW q \in Reqs, ~At(q, "done"),
         req'[q].at \notin {"new"} \cup VenturePlaces
  PROVE  VentureReq(q)'
<1>1. <<"business.spawned", q>> \notin trail'
  BY DEF VenturesInv, VentureReq, Spawning, ventureVars
<1>2. req'[q].at \notin {"new", "offer", "goal", "drive", "spawned", "books", "apply", "retireOffers",
        "decided", "decline", "deliver", "visitors", "sent", "verifyTask", "sentRecord", "resolve", "resolved"}
  BY DEF VenturePlaces
<1> QED BY <1>1, <1>2 DEF VentureReq, Spawning, Rebalancing, Sending, Resolving, At

LEMMA VenturesUnchanged ==
  ASSUME VenturesInv, UNCHANGED ventureVars, NEW q \in Reqs
  PROVE  VentureKept(q)
<1> USE DEF ventureVars, VenturesInv
<1>1. VenturesSound'
  BY DEF VenturesSound, DrivenWasOffered, RunwayKept, SentWentOut, TicketsSound
<1>2. VentureRows' /\ OnRecord'
  BY DEF VentureRows, OnRecord, CampaignRow, Went
<1>3. VentureGrow(q)
  BY DEF VentureGrow, VentureRows, LedgerRow
<1> QED BY <1>1, <1>2, <1>3 DEF VentureKept

\* Nothing of the ventures changes.
LEMMA VenturesAside ==
  ASSUME VenturesInv, Common', UNCHANGED ventureVars,
         \A q \in Reqs : \/ req'[q] = req[q]
                         \/ ~At(q, "done") /\ req'[q].at \notin {"new"} \cup VenturePlaces
  PROVE  VenturesInv'
<1>1. \A q \in Reqs : VentureKept(q)
  BY VenturesUnchanged
<1>2. ASSUME NEW q \in Reqs PROVE VentureReq(q)'
  <2>1. CASE req'[q] = req[q]
    <3>1. VentureReq(q)
      BY DEF VenturesInv
    <3> QED BY <2>1, <3>1 DEF VentureReq, Spawning, Rebalancing, Sending, Resolving, BooksFit, Went,
                              At, Has, ventureVars
  <2>2. CASE ~At(q, "done") /\ req'[q].at \notin {"new"} \cup VenturePlaces
    BY <2>2, Elsewhere
  <2> QED BY <2>1, <2>2
<1>3. VenturesSound' /\ VentureRows' /\ OnRecord'
  <2>1. CASE Reqs = {}
    BY <2>1 DEF VenturesInv, ventureVars, VenturesSound, DrivenWasOffered, RunwayKept, SentWentOut,
                TicketsSound, VentureRows, OnRecord, CampaignRow, Went
  <2>2. CASE Reqs # {}
    BY <1>1, <2>2 DEF VentureKept
  <2> QED BY <2>1, <2>2
<1> QED BY <1>2, <1>3 DEF VenturesInv

-----------------------------------------------------------------------------
(* What a step may do to the rows. *)

LEMMA TrailKeeps ==
  ASSUME VenturesInv, NEW q \in Reqs, NEW a, NEW w, Log(a, w),
         UNCHANGED <<unitVars, outreachVars, ledger, support>>,
         a = "business.spawned" => w = q /\ q \in DOMAIN goal /\ goal[q].active,
         a = "kill" => w \in Units /\ ledger[w].revenue > 0,
         a = "outreach.sent" => Went(w),
         a = "support.resolved" => w \in DOMAIN support /\ support[w] = "resolved"
  PROVE  VentureKept(q)
<1>1. /\ trail' = trail \cup {<<a, w>>}
      /\ UNCHANGED <<unit, offering, goal, campaign, delivered, visitors, ledger, support>>
  BY DEF Log, unitVars, outreachVars
<1>2. \A x, y : <<x, y>> \in trail' => <<x, y>> \in trail \/ (x = a /\ y = w)
  BY <1>1
<1>3. VentureRows' /\ OnRecord'
  BY <1>1, <1>2 DEF VenturesInv, VentureRows, OnRecord, CampaignRow, Went
<1>4. VenturesSound'
  BY <1>1, <1>2 DEF VenturesInv, VenturesSound, DrivenWasOffered, RunwayKept, SentWentOut,
                    TicketsSound, VentureRows, OnRecord, Went, Units
<1>5. VentureGrow(q)
  BY <1>1, <1>2 DEF VenturesInv, VentureGrow, VentureRows, LedgerRow
<1> QED BY <1>3, <1>4, <1>5 DEF VentureKept

LEMMA CampaignsKeep ==
  ASSUME VenturesInv, NEW q \in Reqs, UNCHANGED <<unitVars, ledger, support, delivered, visitors, trail>>,
         DOMAIN campaign \subseteq DOMAIN campaign', DOMAIN campaign' \subseteq DOMAIN campaign \cup {q},
         \A c \in DOMAIN campaign' :
           /\ campaign'[c] \in CampaignRow
           /\ campaign'[c].state = "sent" \/ campaign'[c].task = "done" => Went(c)
  PROVE  VentureKept(q)
<1>1. UNCHANGED <<unit, offering, goal, ledger, support, delivered, visitors, trail>>
  BY DEF unitVars
<1>2. VentureRows' /\ OnRecord'
  BY <1>1 DEF VenturesInv, VentureRows, OnRecord, CampaignRow, Went, Units
<1>3. \A c \in DOMAIN campaign' : <<"outreach.sent", c>> \in trail => Went(c)
  BY DEF VenturesInv, VentureRows, OnRecord, Units
<1>4. VenturesSound'
  BY <1>1, <1>3 DEF VenturesInv, VenturesSound, DrivenWasOffered, RunwayKept, SentWentOut,
                    TicketsSound, Went
<1>5. VentureGrow(q)
  BY <1>1 DEF VenturesInv, VentureGrow, VentureRows, LedgerRow
<1> QED BY <1>2, <1>4, <1>5 DEF VentureKept

LEMMA OutreachKeeps ==
  ASSUME VenturesInv, NEW q \in Reqs, UNCHANGED <<unitVars, support, campaign, trail>>,
         delivered \subseteq delivered', visitors \subseteq visitors',
         \A v \in visitors' : v[1] \in delivered',
         ledger' \in [Units -> LedgerRow], \A u \in Units : ledger[u].revenue <= ledger'[u].revenue
  PROVE  VentureKept(q)
<1>1. UNCHANGED <<unit, offering, goal, support, campaign, trail>>
  BY DEF unitVars
<1>2. \A c : Went(c) => Went(c)'
  BY DEF Went
<1>3. \A u \in Units : ledger[u].revenue > 0 => ledger'[u].revenue > 0
  BY DEF VenturesInv, VentureRows, LedgerRow
<1>4. VentureRows' /\ OnRecord'
  BY <1>1, <1>2, <1>3 DEF VenturesInv, VentureRows, OnRecord, CampaignRow
<1>5. RunwayKept'
  BY <1>1, <1>3 DEF VenturesInv, VenturesSound, RunwayKept, VentureRows
<1>6. SentWentOut'
  BY <1>1, <1>2 DEF VenturesInv, VenturesSound, SentWentOut, Went
<1>7. VenturesSound'
  BY <1>1, <1>5, <1>6 DEF VenturesInv, VenturesSound, DrivenWasOffered, TicketsSound
<1>8. VentureGrow(q)
  BY <1>1 DEF VenturesInv, VentureGrow
<1> QED BY <1>4, <1>7, <1>8 DEF VentureKept

LEMMA TicketsKeep ==
  ASSUME VenturesInv, NEW q \in Reqs, UNCHANGED <<unitVars, outreachVars, ledger, trail>>,
         DOMAIN support \subseteq DOMAIN support', DOMAIN support' \subseteq DOMAIN support \cup {q},
         \A t \in DOMAIN support' : support'[t] \in {"open", "resolved"},
         \A t \in DOMAIN support : support[t] = "resolved" => support'[t] = "resolved"
  PROVE  VentureKept(q)
<1>1. UNCHANGED <<unit, offering, goal, campaign, delivered, visitors, ledger, trail>>
  BY DEF unitVars, outreachVars
<1>2. VentureRows' /\ OnRecord'
  BY <1>1 DEF VenturesInv, VentureRows, OnRecord, CampaignRow, Went, Units
<1>3. TicketsSound'
  BY <1>2 DEF OnRecord, VentureRows, TicketsSound
<1>4. VenturesSound'
  BY <1>1, <1>3 DEF VenturesInv, VenturesSound, DrivenWasOffered, RunwayKept, SentWentOut
<1>5. VentureGrow(q)
  BY <1>1 DEF VenturesInv, VentureGrow, VentureRows, LedgerRow
<1> QED BY <1>2, <1>4, <1>5 DEF VentureKept

LEMMA UnitsKeep ==
  ASSUME VenturesInv, NEW q \in Reqs, UNCHANGED <<outreachVars, ledger, support, trail>>,
         unit \subseteq unit', unit' \subseteq unit \cup {q},
         DOMAIN offering \subseteq DOMAIN offering', DOMAIN offering' \subseteq unit',
         \A u \in DOMAIN offering' :
           offering'[u] \in BOOLEAN /\ (~offering'[u] => ledger[u].revenue > 0),
         DOMAIN goal \subseteq DOMAIN goal', DOMAIN goal' \subseteq DOMAIN offering',
         \A g \in DOMAIN goal' : goal'[g] \in GoalRow,
         \A g \in DOMAIN goal \ {q} : goal[g].active => goal'[g].active,
         <<"business.spawned", q>> \notin trail \/ (q \in DOMAIN goal /\ goal[q].active => goal'[q].active)
  PROVE  VentureKept(q)
<1>1. UNCHANGED <<campaign, delivered, visitors, ledger, support, trail>>
  BY DEF outreachVars
<1>2. VentureRows'
  BY <1>1 DEF VenturesInv, VentureRows, CampaignRow, Units
<1>3. OnRecord'
  BY <1>1 DEF VenturesInv, OnRecord, Went
<1>4. RunwayKept'
  BY <1>1, <1>2, <1>3 DEF RunwayKept, OnRecord, VentureRows
<1>5. DrivenWasOffered'
  BY <1>1 DEF VenturesInv, VenturesSound, DrivenWasOffered
<1>6. VenturesSound'
  BY <1>1, <1>4, <1>5 DEF VenturesInv, VenturesSound, SentWentOut, TicketsSound
<1>7. VentureGrow(q)
  BY <1>1 DEF VenturesInv, VentureGrow, VentureRows, LedgerRow
<1> QED BY <1>2, <1>3, <1>6, <1>7 DEF VentureKept

-----------------------------------------------------------------------------
(* The handlers of the ventures. *)

\* A request that returned holds nothing, and nothing says it spawned a unit but
\* RecordSpawn.
LEMMA ReturnVentures ==
  ASSUME VenturesInv, NEW q \in Reqs, Return(q)
  PROVE  Others(q) /\ VentureReq(q)'
<1>1. DOMAIN req = Reqs
  BY DEF VenturesInv, Common
<1>2. Others(q) /\ req'[q].at = "done"
  BY <1>1, ReturnGives
<1> QED BY <1>2 DEF VentureReq, Spawning, Rebalancing, Sending, Resolving, At

LEMMA SpawnKeeps ==
  ASSUME VenturesInv, NEW q \in Reqs, Common',
         SpawnBusiness(q) \/ CreateOffering(q) \/ CreateUnitGoal(q) \/ HandToAutonomy(q) \/ RecordSpawn(q)
  PROVE  VenturesInv'
<1>1. /\ VentureRows /\ VenturesSound /\ VentureReq(q) /\ DOMAIN req = Reqs /\ "at" \in DOMAIN req[q]
  BY DEF VenturesInv, Common, Has
<1>7. /\ DOMAIN goal \subseteq DOMAIN offering /\ DOMAIN offering \subseteq unit /\ unit \subseteq Units
      /\ \A g \in DOMAIN goal : goal[g] \in GoalRow
      /\ \A u \in DOMAIN offering : offering[u] \in BOOLEAN /\ (~offering[u] => ledger[u].revenue > 0)
  BY <1>1 DEF VentureRows, VenturesSound, DrivenWasOffered, RunwayKept
<1>8. \A a, b \in BOOLEAN : [autonomy |-> a, active |-> b] \in GoalRow
  BY DEF GoalRow
<1>2. ASSUME SpawnBusiness(q) PROVE VenturesInv'
  <2>1. PICK priced : Enter(q, "spawn", [at |-> "offer", priced |-> priced])
    BY <1>2 DEF SpawnBusiness
  <2>2. At(q, "new") /\ Others(q) /\ req'[q] = [at |-> "offer", priced |-> priced]
    BY <1>1, <2>1, EnterGives
  <2>3. unit' = unit \cup {q} /\ UNCHANGED <<outreachVars, offering, goal, ledger, support, trail>>
    BY <1>2 DEF SpawnBusiness
  <2>4. VentureKept(q)
    BY <1>1, <2>3, UnitsKeep DEF VentureRows, VenturesSound, DrivenWasOffered, RunwayKept
  <2>5. <<"business.spawned", q>> \notin trail
    BY <1>1, <2>2 DEF VentureReq, Spawning, At
  <2>6. VentureReq(q)'
    BY <2>2, <2>3, <2>5 DEF VentureReq, Spawning, Rebalancing, Sending, Resolving, At, Has
  <2> QED BY <2>2, <2>4, <2>6, VenturesAct
<1>3. ASSUME CreateOffering(q) PROVE VenturesInv'
  <2>1. At(q, "offer") /\ UNCHANGED <<unit, outreachVars, goal, ledger, support, trail>>
    BY <1>3 DEF CreateOffering
  <2>2. q \in unit /\ <<"business.spawned", q>> \notin trail
    BY <1>1, <2>1 DEF VentureReq, Spawning, At
  <2>3. CASE Return(q) /\ UNCHANGED offering
    <3>1. UNCHANGED ventureVars
      BY <2>1, <2>3 DEF ventureVars, outreachVars
    <3> QED BY <2>3, <3>1, ReturnVentures, VenturesUnchanged, VenturesAct
  <2>4. CASE Goto(q, "goal") /\ offering' = Put(offering, q, TRUE)
    <3>1. /\ DOMAIN offering' = DOMAIN offering \cup {q} /\ offering'[q] = TRUE
          /\ \A u \in DOMAIN offering \ {q} : offering'[u] = offering[u]
      BY <2>4 DEF Put
    <3>2. VentureKept(q)
      BY <1>1, <2>1, <2>2, <3>1, UnitsKeep DEF VentureRows, VenturesSound, DrivenWasOffered, RunwayKept
    <3>3. Others(q) /\ req'[q].at = "goal"
      BY <1>1, <2>4, GotoGives
    <3>4. VentureReq(q)'
      BY <2>1, <2>2, <3>1, <3>3 DEF VentureReq, Spawning, Rebalancing, Sending, Resolving, At
    <3> QED BY <3>2, <3>3, <3>4, VenturesAct
  <2> QED BY <1>3, <2>3, <2>4 DEF CreateOffering
<1>4. ASSUME CreateUnitGoal(q) PROVE VenturesInv'
  <2>1. /\ At(q, "goal") /\ Goto(q, "drive") /\ UNCHANGED <<unit, offering, outreachVars, ledger, support, trail>>
        /\ goal' = Put(goal, q, [autonomy |-> FALSE, active |-> FALSE])
    BY <1>4 DEF CreateUnitGoal
  <2>2. q \in DOMAIN offering /\ <<"business.spawned", q>> \notin trail
    BY <1>1, <2>1 DEF VentureReq, Spawning, At
  <2>3. /\ DOMAIN goal' = DOMAIN goal \cup {q} /\ goal'[q] = [autonomy |-> FALSE, active |-> FALSE]
        /\ \A u \in DOMAIN goal \ {q} : goal'[u] = goal[u]
    BY <2>1 DEF Put
  <2>4. VentureKept(q)
    <3>1. \A g \in DOMAIN goal' : goal'[g] \in GoalRow
      BY <1>7, <1>8, <2>3
    <3>2. DOMAIN goal' \subseteq DOMAIN offering
      BY <1>7, <2>2, <2>3
    <3>3. \A g \in DOMAIN goal \ {q} : goal[g].active => goal'[g].active
      BY <2>3
    <3> QED BY <1>7, <2>1, <2>2, <2>3, <3>1, <3>2, <3>3, UnitsKeep
  <2>5. Others(q) /\ req'[q].at = "drive"
    BY <1>1, <2>1, GotoGives
  <2>6. VentureReq(q)'
    BY <2>1, <2>2, <2>3, <2>5 DEF VentureReq, Spawning, Rebalancing, Sending, Resolving, At
  <2> QED BY <2>4, <2>5, <2>6, VenturesAct
<1>5. ASSUME HandToAutonomy(q) PROVE VenturesInv'
  <2>1. /\ At(q, "drive") /\ Goto(q, "spawned")
        /\ UNCHANGED <<unit, offering, outreachVars, ledger, support, trail>>
        /\ goal' = [goal EXCEPT ![q] = [autonomy |-> TRUE, active |-> TRUE]]
    BY <1>5 DEF HandToAutonomy
  <2>2. q \in DOMAIN goal /\ <<"business.spawned", q>> \notin trail
    BY <1>1, <2>1 DEF VentureReq, Spawning, At
  <2>3. /\ DOMAIN goal' = DOMAIN goal /\ goal'[q] = [autonomy |-> TRUE, active |-> TRUE]
        /\ \A u \in DOMAIN goal \ {q} : goal'[u] = goal[u]
    BY <2>1, <2>2
  <2>4. VentureKept(q)
    <3>1. \A g \in DOMAIN goal' : goal'[g] \in GoalRow
      BY <1>7, <1>8, <2>3
    <3> QED BY <1>7, <2>1, <2>2, <2>3, <3>1, UnitsKeep
  <2>5. Others(q) /\ req'[q].at = "spawned"
    BY <1>1, <2>1, GotoGives
  <2>6. VentureReq(q)'
    BY <2>1, <2>2, <2>3, <2>5 DEF VentureReq, Spawning, Rebalancing, Sending, Resolving, At
  <2> QED BY <2>4, <2>5, <2>6, VenturesAct
<1>6. ASSUME RecordSpawn(q) PROVE VenturesInv'
  <2>1. At(q, "spawned") /\ Return(q) /\ Log("business.spawned", q)
        /\ UNCHANGED <<unitVars, outreachVars, ledger, support>>
    BY <1>6 DEF RecordSpawn
  <2>2. q \in DOMAIN goal /\ goal[q].active
    BY <1>1, <2>1 DEF VentureReq, Spawning, At
  <2>3. VentureKept(q)
    BY <2>1, <2>2, TrailKeeps
  <2> QED BY <2>1, <2>3, ReturnVentures, VenturesAct
<1> QED BY <1>2, <1>3, <1>4, <1>5, <1>6

LEMMA LedgerKeeps ==
  ASSUME VenturesInv, NEW q \in Reqs, Common', AddLedgerEntry(q)
  PROVE  VenturesInv'
<1>1. VentureRows /\ VenturesSound
  BY DEF VenturesInv
<1>2. Return(q) /\ UNCHANGED <<unitVars, outreachVars, support, trail>>
  BY DEF AddLedgerEntry
<1>3. PICK u \in unit, kind \in {"revenue", "cost"}, amount \in Amounts :
        ledger' = [ledger EXCEPT ![u][kind] = @ + amount]
  BY DEF AddLedgerEntry
<1>4. amount \in Nat /\ u \in Units
  BY <1>1, VenturesAssumption DEF VentureRows
<1>5. ledger' \in [Units -> LedgerRow]
  BY <1>1, <1>3, <1>4 DEF VentureRows, LedgerRow
<1>6. ASSUME NEW v \in Units PROVE ledger[v].revenue <= ledger'[v].revenue
  BY <1>1, <1>3, <1>4 DEF VentureRows, LedgerRow
<1>7. VentureKept(q)
  BY <1>1, <1>2, <1>5, <1>6, OutreachKeeps DEF outreachVars, VenturesSound, SentWentOut
<1> QED BY <1>2, <1>7, ReturnVentures, VenturesAct

LEMMA BooksKeep ==
  ASSUME VenturesInv, NEW q \in Reqs, Common', RebalancePortfolio(q) \/ IncomeStatement(q)
  PROVE  VenturesInv'
<1>1. /\ VentureRows /\ VentureReq(q) /\ DOMAIN req = Reqs /\ "at" \in DOMAIN req[q]
  BY DEF VenturesInv, Common, Has
<1>2. UNCHANGED ventureVars /\ VentureKept(q)
  BY VenturesUnchanged DEF RebalancePortfolio, IncomeStatement
<1>3. UNCHANGED <<ledger, trail>>
  BY <1>2 DEF ventureVars
<1>4. CASE RebalancePortfolio(q)
  <2>1. Enter(q, "rebalance", [at |-> "books", todo |-> unit, books |-> <<>>])
    BY <1>4 DEF RebalancePortfolio
  <2> DEFINE none == <<>>
  <2>2. Enter(q, "rebalance", [at |-> "books", todo |-> unit, books |-> none])
    BY <2>1
  <2>3. DOMAIN none = {}
    OBVIOUS
  <2> HIDE DEF none
  <2>4. At(q, "new") /\ Others(q) /\ req'[q] = [at |-> "books", todo |-> unit, books |-> none]
    BY <1>1, <2>2, EnterGives
  <2>5. unit \subseteq Units /\ <<"business.spawned", q>> \notin trail'
    BY <1>1, <1>3, <2>4 DEF VentureReq, Spawning, At, VentureRows
  <2>6. BooksFit(req[q].books)'
    BY <2>3, <2>4 DEF BooksFit
  <2>7. VentureReq(q)'
    BY <2>4, <2>5, <2>6 DEF VentureReq, Spawning, Rebalancing, Sending, Resolving, At, Has
  <2> QED BY <1>2, <2>4, <2>7, VenturesAct
<1>5. CASE IncomeStatement(q)
  <2>1. At(q, "books") /\ Has(q, {"todo", "books"}) /\ BooksFit(req[q].books) /\ req[q].todo \subseteq Units
    BY <1>1, <1>5 DEF IncomeStatement, VentureReq, Rebalancing, At
  <2>2. <<"business.spawned", q>> \notin trail'
    BY <1>1, <1>3, <2>1 DEF VentureReq, Spawning, At
  <2>3. CASE \E u \in req[q].todo :
               GotoWith(q, "books", [todo |-> req[q].todo \ {u}, books |-> Put(req[q].books, u, ledger[u])])
    <3>1. PICK u \in req[q].todo :
            GotoWith(q, "books", [todo |-> req[q].todo \ {u}, books |-> Put(req[q].books, u, ledger[u])])
      BY <2>3
    <3> DEFINE books == Put(req[q].books, u, ledger[u])
               rest == req[q].todo \ {u}
    <3>2. BooksFit(books)
      <4>1. ledger[u] \in LedgerRow /\ ledger[u].revenue <= ledger[u].revenue /\ u \in Units
        BY <1>1, <2>1 DEF VentureRows, LedgerRow
      <4>2. /\ DOMAIN books = DOMAIN req[q].books \cup {u} /\ books[u] = ledger[u]
            /\ \A v \in DOMAIN req[q].books \ {u} : books[v] = req[q].books[v]
        BY DEF Put
      <4> HIDE DEF books
      <4> QED BY <2>1, <4>1, <4>2 DEF BooksFit
    <3>3. rest \subseteq Units
      BY <2>1
    <3>4. GotoWith(q, "books", [todo |-> rest, books |-> books])
      BY <3>1
    <3> HIDE DEF books, rest
    <3>5. /\ Others(q) /\ req'[q].at = "books" /\ DOMAIN req'[q] = DOMAIN req[q] \cup {"todo", "books"}
          /\ req'[q].todo = rest /\ req'[q].books = books
      BY <1>1, <3>4, GotoWithGives
    <3>6. BooksFit(req[q].books)'
      BY <1>3, <3>2, <3>5 DEF BooksFit
    <3>7. VentureReq(q)'
      BY <2>2, <3>3, <3>5, <3>6 DEF VentureReq, Spawning, Rebalancing, Sending, Resolving, At, Has
    <3> QED BY <1>2, <3>5, <3>7, VenturesAct
  <2>4. CASE GotoWith(q, "apply", [todo |-> DOMAIN req[q].books])
    <3>1. /\ Others(q) /\ req'[q].at = "apply" /\ DOMAIN req'[q] = DOMAIN req[q] \cup {"todo"}
          /\ req'[q].todo = DOMAIN req[q].books /\ req'[q].books = req[q].books
      BY <1>1, <2>1, <2>4, GotoWithGives DEF Has
    <3>2. BooksFit(req[q].books)'
      BY <1>3, <2>1, <3>1 DEF BooksFit
    <3>3. VentureReq(q)'
      BY <2>1, <2>2, <3>1, <3>2 DEF VentureReq, Spawning, Rebalancing, Sending, Resolving, At, Has
    <3> QED BY <1>2, <3>1, <3>3, VenturesAct
  <2> QED BY <1>5, <2>3, <2>4 DEF IncomeStatement
<1> QED BY <1>4, <1>5

LEMMA DecisionsKeep ==
  ASSUME VenturesInv, NEW q \in Reqs, Common', ApplyDecision(q) \/ RetireOfferings(q) \/ RecordDecision(q)
  PROVE  VenturesInv'
<1>1. /\ VentureRows /\ VentureReq(q) /\ DOMAIN req = Reqs /\ "at" \in DOMAIN req[q]
  BY DEF VenturesInv, Common, Has
<1>2. /\ DOMAIN goal \subseteq DOMAIN offering /\ DOMAIN offering \subseteq unit /\ unit \subseteq Units
      /\ \A g \in DOMAIN goal : goal[g] \in GoalRow
      /\ \A u \in DOMAIN offering : offering[u] \in BOOLEAN /\ (~offering[u] => ledger[u].revenue > 0)
  BY DEF VenturesInv, VentureRows, VenturesSound, DrivenWasOffered, RunwayKept
<1>3. /\ Has(q, {"todo", "books"}) /\ BooksFit(req[q].books) /\ req[q].todo \subseteq DOMAIN req[q].books
      /\ <<"business.spawned", q>> \notin trail /\ req[q].at \in {"apply", "retireOffers", "decided"}
  BY <1>1 DEF ApplyDecision, RetireOfferings, RecordDecision, VentureReq, Rebalancing, Spawning, At
<1>4. CASE ApplyDecision(q)
  <2>1. UNCHANGED <<unit, offering, outreachVars, ledger, support, trail>>
    BY <1>4 DEF ApplyDecision
  <2>2. CASE Return(q) /\ UNCHANGED goal
    <3>1. UNCHANGED ventureVars
      BY <2>1, <2>2 DEF ventureVars, outreachVars
    <3> QED BY <2>2, <3>1, ReturnVentures, VenturesUnchanged, VenturesAct
  <2>3. CASE \E u \in req[q].todo :
               LET action == Decide(req[q].books[u])
               IN  /\ GotoWith(q, IF action = "kill" THEN "retireOffers" ELSE "decided",
                               [todo |-> req[q].todo \ {u}, unit |-> u, action |-> action])
                   /\ IF action = "hold" THEN UNCHANGED goal ELSE SetDrive(u, action = "scale")
    <3>1. PICK u \in req[q].todo :
               LET action == Decide(req[q].books[u])
               IN  /\ GotoWith(q, IF action = "kill" THEN "retireOffers" ELSE "decided",
                               [todo |-> req[q].todo \ {u}, unit |-> u, action |-> action])
                   /\ IF action = "hold" THEN UNCHANGED goal ELSE SetDrive(u, action = "scale")
      BY <2>3
    <3> DEFINE action == Decide(req[q].books[u])
               rest == req[q].todo \ {u}
               place == IF action = "kill" THEN "retireOffers" ELSE "decided"
    <3>2. action \in {"kill", "scale", "hold"} /\ (action = "kill" => req[q].books[u].revenue # 0)
      BY DEF Decide
    <3>3. u \in Units /\ (action = "kill" => ledger[u].revenue > 0)
      <4>1. u \in DOMAIN req[q].books
        BY <1>3
      <4>2. /\ u \in Units /\ req[q].books[u] \in LedgerRow
            /\ req[q].books[u].revenue <= ledger[u].revenue /\ ledger[u] \in LedgerRow
        BY <1>1, <1>3, <4>1 DEF BooksFit, VentureRows
      <4>3. req[q].books[u].revenue \in Nat /\ ledger[u].revenue \in Nat
        BY <4>2 DEF LedgerRow
      <4> HIDE DEF action
      <4> QED BY <3>2, <4>2, <4>3
    <3>4. /\ GotoWith(q, place, [todo |-> rest, unit |-> u, action |-> action])
          /\ goal' = goal \/ \E on \in BOOLEAN : SetDrive(u, on)
      BY <3>1
    <3>5. /\ rest \subseteq DOMAIN req[q].books /\ place \in {"retireOffers", "decided"}
          /\ (place = "retireOffers") = (action = "kill")
      BY <1>3
    <3> HIDE DEF action, rest, place
    <3>6. /\ Others(q) /\ req'[q].at = place /\ DOMAIN req'[q] = DOMAIN req[q] \cup {"todo", "unit", "action"}
          /\ req'[q].todo = rest /\ req'[q].unit = u /\ req'[q].action = action
          /\ req'[q].books = req[q].books
      BY <1>1, <1>3, <3>4, GotoWithGives DEF Has
    <3>7. DOMAIN goal' = DOMAIN goal /\ \A g \in DOMAIN goal : goal'[g] \in GoalRow /\ goal'[g].active = goal[g].active
      BY <1>2, <3>4 DEF SetDrive, GoalRow
    <3>8. VentureKept(q)
      BY <1>2, <2>1, <3>7, UnitsKeep
    <3>9. BooksFit(req[q].books)'
      BY <1>3, <2>1, <3>6 DEF BooksFit
    <3>10. VentureReq(q)'
      BY <1>3, <2>1, <3>2, <3>3, <3>5, <3>6, <3>9
         DEF VentureReq, Spawning, Rebalancing, Sending, Resolving, At, Has
    <3> QED BY <3>6, <3>8, <3>10, VenturesAct
  <2> QED BY <1>4, <2>2, <2>3 DEF ApplyDecision
<1>5. CASE RetireOfferings(q)
  <2>1. /\ At(q, "retireOffers") /\ Goto(q, "decided") /\ UNCHANGED <<unit, goal, outreachVars, ledger, support, trail>>
        /\ offering' = [u \in DOMAIN offering |-> offering[u] /\ u # req[q].unit]
    BY <1>5 DEF RetireOfferings
  <2>2. /\ Has(q, {"unit", "action"}) /\ req[q].unit \in Units
        /\ req[q].action = "kill" /\ ledger[req[q].unit].revenue > 0
    BY <1>1, <2>1 DEF VentureReq, Rebalancing, At
  <2>3. DOMAIN offering' = DOMAIN offering /\ \A u \in DOMAIN offering :
          offering'[u] \in BOOLEAN /\ (~offering'[u] => ledger[u].revenue > 0)
    BY <1>2, <2>1, <2>2
  <2>4. VentureKept(q)
    BY <1>2, <2>1, <2>3, UnitsKeep
  <2>5. /\ Others(q) /\ req'[q].at = "decided" /\ DOMAIN req'[q] = DOMAIN req[q]
        /\ req'[q].todo = req[q].todo /\ req'[q].books = req[q].books
        /\ req'[q].unit = req[q].unit /\ req'[q].action = req[q].action
    BY <1>1, <1>3, <2>1, <2>2, GotoGives DEF Has
  <2>6. BooksFit(req[q].books)'
    BY <1>3, <2>1, <2>5 DEF BooksFit
  <2>7. VentureReq(q)'
    BY <1>3, <2>1, <2>2, <2>5, <2>6 DEF VentureReq, Spawning, Rebalancing, Sending, Resolving, At, Has
  <2> QED BY <2>4, <2>5, <2>7, VenturesAct
<1>6. CASE RecordDecision(q)
  <2>1. /\ At(q, "decided") /\ Goto(q, "apply") /\ UNCHANGED <<unitVars, outreachVars, ledger, support>>
        /\ Log(req[q].action, req[q].unit)
    BY <1>6 DEF RecordDecision
  <2>2. /\ req[q].unit \in Units /\ req[q].action \in {"kill", "scale", "hold"}
        /\ req[q].action = "kill" => ledger[req[q].unit].revenue > 0
    BY <1>1, <2>1 DEF VentureReq, Rebalancing, At
  <2>3. VentureKept(q)
    BY <2>1, <2>2, TrailKeeps
  <2>4. <<"business.spawned", q>> \notin trail'
    BY <1>3, <2>1, <2>2 DEF Log
  <2>5. /\ Others(q) /\ req'[q].at = "apply" /\ DOMAIN req'[q] = DOMAIN req[q]
        /\ req'[q].todo = req[q].todo /\ req'[q].books = req[q].books
    BY <1>1, <1>3, <2>1, GotoGives DEF Has
  <2>6. BooksFit(req[q].books)'
    BY <1>3, <2>1, <2>5 DEF BooksFit
  <2>7. VentureReq(q)'
    BY <1>3, <2>4, <2>5, <2>6 DEF VentureReq, Spawning, Rebalancing, Sending, Resolving, At, Has
  <2> QED BY <2>3, <2>5, <2>7, VenturesAct
<1> QED BY <1>4, <1>5, <1>6

LEMMA OutreachDecisionsKeep ==
  ASSUME VenturesInv, NEW q \in Reqs, Common', CreateCampaign(q) \/ DecideCampaign(q) \/ DeclineCampaign(q)
  PROVE  VenturesInv'
<1>1. /\ VentureRows /\ VenturesSound /\ OnRecord /\ VentureReq(q) /\ DOMAIN req = Reqs /\ "at" \in DOMAIN req[q]
  BY DEF VenturesInv, Common, Has
<1>2. \A c \in DOMAIN campaign :
        /\ campaign[c] \in CampaignRow
        /\ campaign[c].state = "sent" \/ campaign[c].task = "done" => Went(c)
  BY <1>1 DEF VentureRows, VenturesSound, SentWentOut, Went
<1>3. CASE CreateCampaign(q)
  <2>1. /\ Called(q, "campaign") /\ Return(q)
        /\ UNCHANGED <<unitVars, ledger, support, delivered, visitors, trail>>
    BY <1>3 DEF CreateCampaign
  <2>2. PICK u \in unit : campaign' = Put(campaign, q, Draft(u, "none"))
    BY <1>3 DEF CreateCampaign
  <2>3. /\ DOMAIN campaign' = DOMAIN campaign \cup {q} /\ campaign'[q] = Draft(u, "none")
        /\ \A c \in DOMAIN campaign \ {q} : campaign'[c] = campaign[c]
    BY <2>2 DEF Put
  <2>4. Draft(u, "none") \in CampaignRow /\ Draft(u, "none").state = "pending" /\ Draft(u, "none").task = "none"
    BY DEF Draft, CampaignRow
  <2>5. VentureKept(q)
    BY <1>2, <2>1, <2>3, <2>4, CampaignsKeep
  <2> QED BY <2>1, <2>5, ReturnVentures, VenturesAct
<1>4. CASE DecideCampaign(q)
  <2>1. UNCHANGED ventureVars /\ VentureKept(q) /\ At(q, "new")
    BY <1>4, VenturesUnchanged DEF DecideCampaign, Called
  <2>2. CASE Return(q)
    BY <2>1, <2>2, ReturnVentures, VenturesAct
  <2>3. CASE \E c \in DOMAIN campaign, approve, paid \in BOOLEAN :
               Enter(q, "decide", [at |-> IF approve THEN "deliver" ELSE "decline",
                                   campaign |-> c, todo |-> Audience, paid |-> paid])
    <3>1. PICK c \in DOMAIN campaign, approve \in BOOLEAN, paid \in BOOLEAN :
               Enter(q, "decide", [at |-> IF approve THEN "deliver" ELSE "decline",
                                   campaign |-> c, todo |-> Audience, paid |-> paid])
      BY <2>3
    <3> DEFINE place == IF approve THEN "deliver" ELSE "decline"
    <3>2. place \in {"deliver", "decline"} /\ Enter(q, "decide", [at |-> place, campaign |-> c, todo |-> Audience, paid |-> paid])
      BY <3>1
    <3> HIDE DEF place
    <3>3. Others(q) /\ req'[q] = [at |-> place, campaign |-> c, todo |-> Audience, paid |-> paid]
      BY <1>1, <3>2, EnterGives
    <3>4. campaign' = campaign /\ <<"business.spawned", q>> \notin trail'
      BY <1>1, <2>1 DEF VentureReq, Spawning, At, ventureVars
    <3>5. VentureReq(q)'
      BY <3>2, <3>3, <3>4 DEF VentureReq, Spawning, Rebalancing, Sending, Resolving, At, Has
    <3> QED BY <2>1, <3>3, <3>5, VenturesAct
  <2> QED BY <1>4, <2>2, <2>3 DEF DecideCampaign
<1>5. CASE DeclineCampaign(q)
  <2>1. /\ At(q, "decline") /\ Return(q)
        /\ campaign' = [campaign EXCEPT ![req[q].campaign].state = "declined"]
        /\ UNCHANGED <<unitVars, ledger, support, delivered, visitors, trail>>
    BY <1>5 DEF DeclineCampaign
  <2>2. \A r \in CampaignRow : [r EXCEPT !.state = "declined"] \in CampaignRow
          /\ [r EXCEPT !.state = "declined"].state = "declined" /\ [r EXCEPT !.state = "declined"].task = r.task
    BY DEF CampaignRow
  <2>3. DOMAIN campaign' = DOMAIN campaign /\ \A c \in DOMAIN campaign :
          campaign'[c] = campaign[c] \/ campaign'[c] = [campaign[c] EXCEPT !.state = "declined"]
    BY <2>1
  <2>4. \A c \in DOMAIN campaign :
          /\ campaign'[c] \in CampaignRow
          /\ campaign'[c].state = "sent" \/ campaign'[c].task = "done" => Went(c)
    BY <1>2, <2>2, <2>3
  <2>5. VentureKept(q)
    BY <2>1, <2>3, <2>4, CampaignsKeep
  <2> QED BY <2>1, <2>5, ReturnVentures, VenturesAct
<1> QED BY <1>3, <1>4, <1>5

LEMMA DeliveriesKeep ==
  ASSUME VenturesInv, NEW q \in Reqs, Common', DeliverCampaign(q) \/ AddVisitors(q)
  PROVE  VenturesInv'
<1>1. /\ VentureRows /\ VenturesSound /\ VentureReq(q) /\ DOMAIN req = Reqs /\ "at" \in DOMAIN req[q]
  BY DEF VenturesInv, Common, Has
<1>2. /\ ledger \in [Units -> LedgerRow] /\ \A u \in Units : ledger[u].revenue <= ledger[u].revenue
      /\ \A v \in visitors : v[1] \in delivered
  BY <1>1 DEF VentureRows, LedgerRow, VenturesSound, SentWentOut
<1>3. /\ Has(q, {"campaign", "todo", "paid"}) /\ req[q].campaign \in DOMAIN campaign
      /\ <<"business.spawned", q>> \notin trail /\ UNCHANGED <<unitVars, support, campaign, trail>>
  BY <1>1 DEF DeliverCampaign, AddVisitors, VentureReq, Sending, Spawning, At
<1>4. CASE DeliverCampaign(q)
  <2>1. /\ At(q, "deliver") /\ Goto(q, "visitors") /\ delivered' = delivered \cup {req[q].campaign}
        /\ UNCHANGED <<ledger, visitors>>
    BY <1>4 DEF DeliverCampaign
  <2>2. VentureKept(q)
    BY <1>2, <1>3, <2>1, OutreachKeeps
  <2>3. /\ Others(q) /\ req'[q].at = "visitors" /\ DOMAIN req'[q] = DOMAIN req[q]
        /\ req'[q].campaign = req[q].campaign /\ req'[q].todo = req[q].todo
    BY <1>1, <1>3, <2>1, GotoGives DEF Has
  <2>4. req[q].todo = Audience /\ Audience \in Seq(Addresses)
    BY <1>1, <2>1, VenturesAssumption DEF VentureReq, Sending, At, Addresses
  <2>5. VentureReq(q)'
    BY <1>3, <2>1, <2>3, <2>4 DEF VentureReq, Spawning, Rebalancing, Sending, Resolving, At, Has
  <2> QED BY <2>2, <2>3, <2>5, VenturesAct
<1>5. CASE AddVisitors(q)
  <2>1. /\ At(q, "visitors") /\ UNCHANGED delivered
    BY <1>5 DEF AddVisitors
  <2>2. /\ req[q].campaign \in delivered /\ req[q].todo \in Seq(Addresses)
        /\ \A i \in DOMAIN Audience :
             \/ <<req[q].campaign, Audience[i]>> \in visitors
             \/ \E j \in DOMAIN req[q].todo : req[q].todo[j] = Audience[i]
    BY <1>1, <2>1 DEF VentureReq, Sending, At
  <2>3. CASE /\ req[q].todo # <<>> /\ GotoWith(q, "visitors", [todo |-> Tail(req[q].todo)])
             /\ visitors' = visitors \cup {<<req[q].campaign, Head(req[q].todo)>>}
             /\ UNCHANGED ledger
    <3>1. \A v \in visitors' : v[1] \in delivered'
      BY <1>2, <2>1, <2>2, <2>3
    <3>2. VentureKept(q)
      BY <1>2, <1>3, <2>1, <2>3, <3>1, OutreachKeeps
    <3> DEFINE rest == Tail(req[q].todo)
    <3>3. /\ rest \in Seq(Addresses)
          /\ \A j \in DOMAIN req[q].todo : req[q].todo[j] = Head(req[q].todo)
                                           \/ \E i \in DOMAIN rest : rest[i] = req[q].todo[j]
      <4>1. /\ rest \in Seq(Addresses) /\ Len(rest) = Len(req[q].todo) - 1 /\ Len(req[q].todo) \in Nat
            /\ \A i \in 1..Len(rest) : rest[i] = req[q].todo[i + 1]
            /\ DOMAIN rest = 1..Len(rest) /\ DOMAIN req[q].todo = 1..Len(req[q].todo)
            /\ Head(req[q].todo) = req[q].todo[1]
        BY <2>2, <2>3
      <4> HIDE DEF rest
      <4>2. ASSUME NEW j \in DOMAIN req[q].todo, j # 1
            PROVE  \E i \in DOMAIN rest : rest[i] = req[q].todo[j]
        <5>1. j - 1 \in 1..Len(rest) /\ (j - 1) + 1 = j
          BY <4>1, <4>2
        <5> QED BY <4>1, <5>1
      <4> QED BY <4>1, <4>2
    <3>4. GotoWith(q, "visitors", [todo |-> rest])
      BY <2>3
    <3> HIDE DEF rest
    <3>5. /\ Others(q) /\ req'[q].at = "visitors" /\ DOMAIN req'[q] = DOMAIN req[q] \cup {"todo"}
          /\ req'[q].campaign = req[q].campaign /\ req'[q].todo = rest
      BY <1>1, <1>3, <3>4, GotoWithGives DEF Has
    <3>6. \A i \in DOMAIN Audience :
             \/ <<req[q].campaign, Audience[i]>> \in visitors'
             \/ \E j \in DOMAIN rest : rest[j] = Audience[i]
      BY <2>2, <2>3, <3>3
    <3>7. VentureReq(q)'
      BY <1>3, <2>1, <2>2, <3>3, <3>5, <3>6 DEF VentureReq, Spawning, Rebalancing, Sending, Resolving, At, Has
    <3> QED BY <3>2, <3>5, <3>7, VenturesAct
  <2>4. CASE /\ req[q].todo = <<>> /\ Goto(q, "sent") /\ UNCHANGED visitors
             /\ \/ UNCHANGED ledger
                \/ ledger' = [ledger EXCEPT ![campaign[req[q].campaign].unit].cost = @ + 1]
    <3>1. campaign[req[q].campaign].unit \in Units
      BY <1>1, <1>3 DEF VentureRows, CampaignRow
    <3>2. ledger' \in [Units -> LedgerRow]
      BY <1>2, <2>4, <3>1 DEF LedgerRow
    <3>3. \A u \in Units : ledger[u].revenue <= ledger'[u].revenue
      BY <1>2, <2>4, <3>1 DEF LedgerRow
    <3>4. VentureKept(q)
      BY <1>2, <1>3, <2>1, <2>4, <3>2, <3>3, OutreachKeeps
    <3>5. Went(req[q].campaign)
      BY <2>2, <2>4 DEF Went
    <3>6. /\ Others(q) /\ req'[q].at = "sent" /\ DOMAIN req'[q] = DOMAIN req[q]
          /\ req'[q].campaign = req[q].campaign
      BY <1>1, <1>3, <2>4, GotoGives DEF Has
    <3>7. Went(req[q].campaign)'
      BY <2>1, <2>4, <3>5, <3>6 DEF Went
    <3>8. VentureReq(q)'
      BY <1>3, <3>6, <3>7 DEF VentureReq, Spawning, Rebalancing, Sending, Resolving, At, Has
    <3> QED BY <3>4, <3>6, <3>8, VenturesAct
  <2> QED BY <1>5, <2>3, <2>4 DEF AddVisitors
<1> QED BY <1>4, <1>5

LEMMA SentKeeps ==
  ASSUME VenturesInv, NEW q \in Reqs, Common', MarkSent(q) \/ VerifyDraftTask(q) \/ RecordSent(q)
  PROVE  VenturesInv'
<1>1. /\ VentureRows /\ VenturesSound /\ VentureReq(q) /\ DOMAIN req = Reqs /\ "at" \in DOMAIN req[q]
  BY DEF VenturesInv, Common, Has
<1>2. /\ Has(q, {"campaign", "todo", "paid"}) /\ req[q].campaign \in DOMAIN campaign /\ Went(req[q].campaign)
      /\ <<"business.spawned", q>> \notin trail
  BY <1>1 DEF MarkSent, VerifyDraftTask, RecordSent, VentureReq, Sending, Spawning, At
<1>3. \A c \in DOMAIN campaign :
        /\ campaign[c] \in CampaignRow
        /\ campaign[c].state = "sent" \/ campaign[c].task = "done" => Went(c)
  BY <1>1 DEF VentureRows, VenturesSound, SentWentOut, Went
<1>4. ASSUME NEW place \in {"verifyTask", "sentRecord"}, Goto(q, place),
             UNCHANGED <<unitVars, ledger, support, delivered, visitors, trail>>,
             DOMAIN campaign' = DOMAIN campaign,
             \A c \in DOMAIN campaign : campaign'[c] \in CampaignRow
               /\ (c = req[q].campaign \/ campaign'[c] = campaign[c])
      PROVE  VenturesInv'
  <2>1. VentureKept(q)
    BY <1>2, <1>3, <1>4, CampaignsKeep
  <2>2. /\ Others(q) /\ req'[q].at = place /\ DOMAIN req'[q] = DOMAIN req[q]
        /\ req'[q].campaign = req[q].campaign
    BY <1>1, <1>2, <1>4, GotoGives DEF Has
  <2>3. Went(req[q].campaign)'
    BY <1>2, <1>4, <2>2 DEF Went
  <2>4. VentureReq(q)'
    BY <1>2, <1>4, <2>2, <2>3 DEF VentureReq, Spawning, Rebalancing, Sending, Resolving, At, Has
  <2> QED BY <2>1, <2>2, <2>4, VenturesAct
<1>5. CASE MarkSent(q)
  <2>1. /\ Goto(q, "verifyTask") /\ campaign' = [campaign EXCEPT ![req[q].campaign].state = "sent"]
        /\ UNCHANGED <<unitVars, ledger, support, delivered, visitors, trail>>
    BY <1>5 DEF MarkSent
  <2>2. \A r \in CampaignRow : [r EXCEPT !.state = "sent"] \in CampaignRow
    BY DEF CampaignRow
  <2> QED BY <1>2, <1>3, <1>4, <2>1, <2>2
<1>6. CASE VerifyDraftTask(q)
  <2>1. /\ Goto(q, "sentRecord")
        /\ campaign' = [campaign EXCEPT ![req[q].campaign].task = IF @ = "merged" THEN "done" ELSE @]
        /\ UNCHANGED <<unitVars, ledger, support, delivered, visitors, trail>>
    BY <1>6 DEF VerifyDraftTask
  <2>2. \A r \in CampaignRow : [r EXCEPT !.task = IF @ = "merged" THEN "done" ELSE @] \in CampaignRow
    BY DEF CampaignRow
  <2> QED BY <1>2, <1>3, <1>4, <2>1, <2>2
<1>7. CASE RecordSent(q)
  <2>1. /\ Return(q) /\ Log("outreach.sent", req[q].campaign) /\ UNCHANGED <<unitVars, outreachVars, ledger, support>>
    BY <1>7 DEF RecordSent
  <2>2. VentureKept(q)
    BY <1>2, <2>1, TrailKeeps
  <2> QED BY <2>1, <2>2, ReturnVentures, VenturesAct
<1> QED BY <1>5, <1>6, <1>7

LEMMA SupportKeeps ==
  ASSUME VenturesInv, NEW q \in Reqs, Common', SupportRoutes(q)
  PROVE  VenturesInv'
<1>1. /\ VentureRows /\ VentureReq(q) /\ DOMAIN req = Reqs /\ "at" \in DOMAIN req[q]
  BY DEF VenturesInv, Common, Has
<1>2. CASE OpenSupport(q)
  <2>1. /\ Enter(q, "complain", [at |-> "opened"]) /\ support' = Put(support, q, "open")
        /\ UNCHANGED <<unitVars, outreachVars, ledger, trail>>
    BY <1>2 DEF OpenSupport
  <2>2. At(q, "new") /\ Others(q) /\ req'[q] = [at |-> "opened"]
    BY <1>1, <2>1, EnterGives
  <2>3. q \notin DOMAIN support /\ <<"business.spawned", q>> \notin trail
    BY <1>1, <2>2 DEF VentureReq, Spawning, At
  <2>4. VentureKept(q)
    BY <1>1, <2>1, <2>3, TicketsKeep DEF VentureRows, Put
  <2>5. VentureReq(q)'
    BY <2>1, <2>2, <2>3 DEF VentureReq, Spawning, Rebalancing, Sending, Resolving, At
  <2> QED BY <2>2, <2>4, <2>5, VenturesAct
<1>3. CASE RecordOpened(q)
  <2>1. Return(q) /\ Log("support.opened", q) /\ UNCHANGED <<unitVars, outreachVars, ledger, support>>
    BY <1>3 DEF RecordOpened
  <2>2. VentureKept(q)
    BY <2>1, TrailKeeps
  <2> QED BY <2>1, <2>2, ReturnVentures, VenturesAct
<1>4. CASE ResolveTicket(q)
  <2>1. UNCHANGED ventureVars /\ VentureKept(q) /\ At(q, "new")
    BY <1>4, VenturesUnchanged DEF ResolveTicket, Called
  <2>2. CASE Return(q)
    BY <2>1, <2>2, ReturnVentures, VenturesAct
  <2>3. CASE \E t \in DOMAIN support : Enter(q, "resolve", [at |-> "resolve", ticket |-> t])
    <3>1. PICK t \in DOMAIN support : Enter(q, "resolve", [at |-> "resolve", ticket |-> t])
      BY <2>3
    <3>2. Others(q) /\ req'[q] = [at |-> "resolve", ticket |-> t]
      BY <1>1, <3>1, EnterGives
    <3>3. support' = support /\ <<"business.spawned", q>> \notin trail'
      BY <1>1, <2>1 DEF VentureReq, Spawning, At, ventureVars
    <3>4. VentureReq(q)'
      BY <3>2, <3>3 DEF VentureReq, Spawning, Rebalancing, Sending, Resolving, At, Has
    <3> QED BY <2>1, <3>2, <3>4, VenturesAct
  <2> QED BY <1>4, <2>2, <2>3 DEF ResolveTicket
<1>5. CASE SetResolved(q)
  <2>1. /\ At(q, "resolve") /\ Goto(q, "resolved") /\ support' = [support EXCEPT ![req[q].ticket] = "resolved"]
        /\ UNCHANGED <<unitVars, outreachVars, ledger, trail>>
    BY <1>5 DEF SetResolved
  <2>2. /\ Has(q, {"ticket"}) /\ req[q].ticket \in DOMAIN support /\ <<"business.spawned", q>> \notin trail
    BY <1>1, <2>1 DEF VentureReq, Resolving, Spawning, At
  <2>3. VentureKept(q)
    BY <1>1, <2>1, <2>2, TicketsKeep DEF VentureRows
  <2>4. /\ Others(q) /\ req'[q].at = "resolved" /\ DOMAIN req'[q] = DOMAIN req[q]
        /\ req'[q].ticket = req[q].ticket
    BY <1>1, <2>1, <2>2, GotoGives DEF Has
  <2>5. VentureReq(q)'
    BY <2>1, <2>2, <2>4 DEF VentureReq, Spawning, Rebalancing, Sending, Resolving, At, Has
  <2> QED BY <2>3, <2>4, <2>5, VenturesAct
<1>6. CASE RecordResolved(q)
  <2>1. /\ At(q, "resolved") /\ Return(q) /\ Log("support.resolved", req[q].ticket)
        /\ UNCHANGED <<unitVars, outreachVars, ledger, support>>
    BY <1>6 DEF RecordResolved
  <2>2. req[q].ticket \in DOMAIN support /\ support[req[q].ticket] = "resolved"
    BY <1>1, <2>1 DEF VentureReq, Resolving, At
  <2>3. VentureKept(q)
    BY <2>1, <2>2, TrailKeeps
  <2> QED BY <2>1, <2>3, ReturnVentures, VenturesAct
<1> QED BY <1>2, <1>3, <1>4, <1>5, <1>6 DEF SupportRoutes

LEMMA VenturesKeeps ==
  ASSUME VenturesInv, NEW q \in Reqs, Common', BusinessRoutes(q)
  PROVE  VenturesInv'
  BY SpawnKeeps, LedgerKeeps, BooksKeep, DecisionsKeep, OutreachDecisionsKeep, DeliveriesKeep,
     SentKeeps, SupportKeeps DEF BusinessRoutes, FactoryRoutes, OutreachRoutes

LEMMA VenturesStart ==
  ASSUME ServerInit
  PROVE  VenturesInv
<1>1. Common /\ \A q \in Reqs : At(q, "new")
  BY Start
<1>2. /\ unit = {Old} /\ offering = Just(Old, TRUE)
      /\ goal = Just(Old, [autonomy |-> TRUE, active |-> TRUE])
      /\ ledger = [u \in Units |-> IF u = Old THEN [revenue |-> 1, cost |-> 2] ELSE NoLines]
      /\ campaign = Just(Old, Draft(Old, "merged")) /\ support = Just(Old, "open")
      /\ delivered = {} /\ visitors = {} /\ trail = {} /\ Old \in Units /\ Old \notin Reqs
  BY VenturesAssumption DEF ServerInit, VenturesInit, Units
<1>3. VenturesSound
  BY <1>2 DEF VenturesSound, DrivenWasOffered, RunwayKept, SentWentOut, TicketsSound, Just, Draft
<1>4. VentureRows
  <2>1. ledger \in [Units -> LedgerRow]
    BY <1>2 DEF NoLines, LedgerRow
  <2>2. \A g \in DOMAIN goal : goal[g] \in GoalRow
    BY <1>2 DEF Just, GoalRow
  <2>3. \A c \in DOMAIN campaign : campaign[c] \in CampaignRow
    BY <1>2 DEF Just, Draft, CampaignRow
  <2> QED BY <1>2, <2>1, <2>2, <2>3 DEF VentureRows, Just
<1>5. OnRecord
  BY <1>2 DEF OnRecord
<1>6. \A q \in Reqs : VentureReq(q)
  BY <1>1, <1>2 DEF VentureReq, Spawning, Rebalancing, Sending, Resolving, At, Just
<1> QED BY <1>1, <1>3, <1>4, <1>5, <1>6 DEF VenturesInv

LEMMA VenturesNext ==
  ASSUME VenturesInv, [ServerNext]_vars
  PROVE  VenturesInv'
<1>1. Common /\ Common'
  BY Steps DEF VenturesInv
<1> DEFINE aside == /\ UNCHANGED ventureVars
                    /\ \A q \in Reqs : \/ req'[q] = req[q]
                                       \/ ~At(q, "done") /\ req'[q].at \notin {"new"} \cup VenturePlaces
<1>2. ASSUME aside PROVE VenturesInv'
  BY <1>1, <1>2, VenturesAside
<1>3. ASSUME NEW q \in Reqs, NEW places \in {AccessPlaces, RoomsPlaces, RosterPlaces, MemoryPlaces},
             Moves(q, places), UNCHANGED ventureVars
      PROVE  aside
  <2>1. places \cap ({"new", "done"} \cup VenturePlaces) = {}
    BY DEF AccessPlaces, RoomsPlaces, RosterPlaces, MemoryPlaces, VenturePlaces
  <2> QED BY <1>3, <2>1 DEF Moves, Others, At, VenturePlaces
<1>4. CASE \E q \in Reqs : BusinessRoutes(q)
  BY <1>1, <1>4, VenturesKeeps
<1>5. CASE TimePasses /\ UNCHANGED req
  <2>1. aside
    BY <1>5 DEF TimePasses
  <2> QED BY <1>2, <2>1
<1>6. CASE ServerRestarts /\ Dying
  <2>1. aside
    BY <1>6 DEF ServerRestarts, Dying, VenturePlaces, At
  <2> QED BY <1>2, <2>1
<1>7. CASE UNCHANGED vars
  <2>1. aside
    BY <1>7 DEF vars
  <2> QED BY <1>2, <2>1
<1> HIDE DEF aside
<1>8. CASE \E q \in Reqs : \E places \in {AccessPlaces, RoomsPlaces, RosterPlaces, MemoryPlaces} :
             Moves(q, places) /\ UNCHANGED ventureVars
  BY <1>2, <1>3, <1>8
<1> QED BY <1>1, <1>4, <1>5, <1>6, <1>7, <1>8, Steps

\* The books, the offers, the campaigns and the record agree, for any requests,
\* amounts and audience, however spawns, lines of the ledger, rebalancings, decisions
\* and restarts come between each other's statements.
THEOREM VenturesSoundHolds == Spec => []VenturesSound
<1>1. ServerInit => VenturesInv
  BY VenturesStart
<1>2. VenturesInv /\ [ServerNext]_vars => VenturesInv'
  BY VenturesNext
<1> QED BY <1>1, <1>2, PTL DEF Spec, VenturesInv

=============================================================================
