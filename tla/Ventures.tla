------------------------------ MODULE Ventures ------------------------------
(***************************************************************************)
(* The businesses an org runs (services/app/src/business: businesses,      *)
(* factory, accounting, support): units spawned with an offering and a     *)
(* goal that drives itself, the books by which the portfolio is            *)
(* rebalanced, campaigns a person lets go out, and support tickets.        *)
(* Quotes, payments and deliveries are in MoneyPath.                       *)
(*                                                                         *)
(* Old is a unit from before, with a campaign and a ticket of its own; a   *)
(* new row has the name of the request that made it.  Amounts are small.   *)
(***************************************************************************)
EXTENDS Requests, FiniteSets, Sequences

CONSTANTS
  Old,
  Audience,  \* the addresses of a campaign, as its text lists them
  Amounts    \* bound: amounts of a line of the ledger

ASSUME VenturesAssumption ==
  /\ Old \notin Reqs /\ Amounts \subseteq Nat
  /\ Audience \in Seq({Audience[i] : i \in DOMAIN Audience})

Units == Reqs \cup {Old}

VARIABLES
  unit,       \* businesses
  offering,   \* offerings of a unit, by whether they are active
  goal,       \* its goal: autonomy, and whether it is active
  ledger,     \* business_ledger: revenue and cost of a unit, summed
  campaign,   \* outreach_campaigns: unit, state and goal task
  support,    \* support_tickets
  delivered,  \* campaigns the connector was given
  visitors,   \* leads it led to: <<campaign, address>>
  trail       \* audit records: <<action, what it is about>>

ventureVars == <<unit, offering, goal, ledger, campaign, support, delivered, visitors, trail>>
unitVars == <<unit, offering, goal>>
outreachVars == <<campaign, delivered, visitors>>

\* The task a goal drafted the campaign for is "merged" until it is verified.
Draft(u, task) == [unit |-> u, state |-> "pending", task |-> task]
NoLines == [revenue |-> 0, cost |-> 0]

VenturesInit ==
  /\ unit = {Old} /\ offering = Just(Old, TRUE)
  /\ goal = Just(Old, [autonomy |-> TRUE, active |-> TRUE])
  /\ ledger = [u \in Units |-> IF u = Old THEN [revenue |-> 1, cost |-> 2] ELSE NoLines]
  /\ campaign = Just(Old, Draft(Old, "merged")) /\ support = Just(Old, "open")
  /\ delivered = {} /\ visitors = {} /\ trail = {}

Log(action, what) == trail' = trail \cup {<<action, what>>}

-----------------------------------------------------------------------------
(* A unit is spawned (factory.ts). *)

\* POST /factory/spawn, or of the best idea.  The price is not looked at before
\* createOffering refuses it.
SpawnBusiness(q) ==
  /\ \E priced \in BOOLEAN : Enter(q, "spawn", [at |-> "offer", priced |-> priced])
  /\ unit' = unit \cup {q}
  /\ UNCHANGED <<offering, goal, ledger, support, trail>> /\ UNCHANGED outreachVars

CreateOffering(q) ==
  /\ At(q, "offer")
  /\ IF req[q].priced THEN offering' = Put(offering, q, TRUE) /\ Goto(q, "goal")
                      ELSE Return(q) /\ UNCHANGED offering
  /\ UNCHANGED <<unit, goal, ledger, support, trail>> /\ UNCHANGED outreachVars

CreateUnitGoal(q) ==
  /\ At(q, "goal") /\ Goto(q, "drive")
  /\ goal' = Put(goal, q, [autonomy |-> FALSE, active |-> FALSE])
  /\ UNCHANGED <<unit, offering, ledger, support, trail>> /\ UNCHANGED outreachVars
HandToAutonomy(q) ==
  /\ At(q, "drive") /\ Goto(q, "spawned")
  /\ goal' = [goal EXCEPT ![q] = [autonomy |-> TRUE, active |-> TRUE]]
  /\ UNCHANGED <<unit, offering, ledger, support, trail>> /\ UNCHANGED outreachVars
RecordSpawn(q) ==
  /\ At(q, "spawned") /\ Return(q) /\ Log("business.spawned", q)
  /\ UNCHANGED <<ledger, support>> /\ UNCHANGED unitVars /\ UNCHANGED outreachVars

\* POST /businesses/:id/ledger.
AddLedgerEntry(q) ==
  /\ Called(q, "line") /\ Return(q)
  /\ \E u \in unit, kind \in {"revenue", "cost"}, amount \in Amounts :
       ledger' = [ledger EXCEPT ![u][kind] = @ + amount]
  /\ UNCHANGED <<support, trail>> /\ UNCHANGED unitVars /\ UNCHANGED outreachVars

-----------------------------------------------------------------------------
(* The portfolio (factory.ts, accounting.ts). *)

RebalancePortfolio(q) ==
  /\ Enter(q, "rebalance", [at |-> "books", todo |-> unit, books |-> <<>>])
  /\ UNCHANGED ventureVars

\* One income statement at a time, in any order; then what is decided is applied.
IncomeStatement(q) ==
  /\ At(q, "books")
  /\ \/ \E u \in req[q].todo :
          GotoWith(q, "books", [todo |-> req[q].todo \ {u},
                                books |-> Put(req[q].books, u, ledger[u])])
     \/ req[q].todo = {} /\ GotoWith(q, "apply", [todo |-> DOMAIN req[q].books])
  /\ UNCHANGED ventureVars

\* Mutant: no runway for what has no revenue yet.
Decide_NoRunway(lines) ==
  IF lines.cost > lines.revenue THEN "kill"
  ELSE IF lines.revenue > lines.cost THEN "scale" ELSE "hold"

\* With amounts as small as these a positive margin is a healthy one, 30 % or more.
Decide(lines) ==
  IF lines.revenue = 0 THEN "hold"
  ELSE IF lines.cost > lines.revenue THEN "kill"
  ELSE IF lines.revenue > lines.cost THEN "scale" ELSE "hold"

SetDrive(u, on) == goal' = [g \in DOMAIN goal |-> IF g = u THEN [goal[g] EXCEPT !.autonomy = on]
                                                           ELSE goal[g]]

\* The units' goals first, what they sell after.
ApplyDecision(q) ==
  /\ At(q, "apply")
  /\ \/ req[q].todo = {} /\ Return(q) /\ UNCHANGED goal
     \/ \E u \in req[q].todo :
          LET action == Decide(req[q].books[u])
          IN  /\ GotoWith(q, IF action = "kill" THEN "retireOffers" ELSE "decided",
                          [todo |-> req[q].todo \ {u}, unit |-> u, action |-> action])
              /\ IF action = "hold" THEN UNCHANGED goal ELSE SetDrive(u, action = "scale")
  /\ UNCHANGED <<unit, offering, ledger, support, trail>> /\ UNCHANGED outreachVars
RetireOfferings(q) ==
  /\ At(q, "retireOffers") /\ Goto(q, "decided")
  /\ offering' = [u \in DOMAIN offering |-> offering[u] /\ u # req[q].unit]
  /\ UNCHANGED <<unit, goal, ledger, support, trail>> /\ UNCHANGED outreachVars
RecordDecision(q) ==
  /\ At(q, "decided") /\ Goto(q, "apply") /\ Log(req[q].action, req[q].unit)
  /\ UNCHANGED <<ledger, support>> /\ UNCHANGED unitVars /\ UNCHANGED outreachVars

-----------------------------------------------------------------------------
(* Outreach (businesses.ts): agents draft, an admin decides. *)

CreateCampaign(q) ==
  /\ Called(q, "campaign") /\ Return(q)
  /\ \E u \in unit : campaign' = Put(campaign, q, Draft(u, "none"))
  /\ UNCHANGED <<ledger, support, delivered, visitors, trail>> /\ UNCHANGED unitVars

\* What was decided before is left alone, as it was when it was read.
DecideCampaign(q) ==
  /\ Called(q, "decide")
  /\ \E c \in DOMAIN campaign, approve, paid \in BOOLEAN :
       IF campaign[c].state # "pending" THEN Return(q)
       ELSE Enter(q, "decide", [at |-> IF approve THEN "deliver" ELSE "decline",
                                campaign |-> c, todo |-> Audience, paid |-> paid])
  /\ UNCHANGED ventureVars
DeclineCampaign(q) ==
  /\ At(q, "decline") /\ Return(q)
  /\ campaign' = [campaign EXCEPT ![req[q].campaign].state = "declined"]
  /\ UNCHANGED <<ledger, support, delivered, visitors, trail>> /\ UNCHANGED unitVars
DeliverCampaign(q) ==
  /\ At(q, "deliver") /\ Goto(q, "visitors") /\ delivered' = delivered \cup {req[q].campaign}
  /\ UNCHANGED <<ledger, support, campaign, visitors, trail>> /\ UNCHANGED unitVars

\* Every address is a visitor, then the cost is booked.
AddVisitors(q) ==
  /\ At(q, "visitors")
  /\ \/ /\ req[q].todo # <<>> /\ GotoWith(q, "visitors", [todo |-> Tail(req[q].todo)])
        /\ visitors' = visitors \cup {<<req[q].campaign, Head(req[q].todo)>>}
        /\ UNCHANGED ledger
     \/ /\ req[q].todo = <<>> /\ Goto(q, "sent") /\ UNCHANGED visitors
        /\ IF req[q].paid THEN ledger' = [ledger EXCEPT ![campaign[req[q].campaign].unit].cost = @ + 1]
                          ELSE UNCHANGED ledger
  /\ UNCHANGED <<support, campaign, delivered, trail>> /\ UNCHANGED unitVars
MarkSent(q) ==
  /\ At(q, "sent") /\ Goto(q, "verifyTask")
  /\ campaign' = [campaign EXCEPT ![req[q].campaign].state = "sent"]
  /\ UNCHANGED <<ledger, support, delivered, visitors, trail>> /\ UNCHANGED unitVars
VerifyDraftTask(q) ==
  /\ At(q, "verifyTask") /\ Goto(q, "sentRecord")
  /\ campaign' = [campaign EXCEPT ![req[q].campaign].task = IF @ = "merged" THEN "done" ELSE @]
  /\ UNCHANGED <<ledger, support, delivered, visitors, trail>> /\ UNCHANGED unitVars
RecordSent(q) ==
  /\ At(q, "sentRecord") /\ Return(q) /\ Log("outreach.sent", req[q].campaign)
  /\ UNCHANGED <<ledger, support>> /\ UNCHANGED unitVars /\ UNCHANGED outreachVars

-----------------------------------------------------------------------------
(* Support (support.ts). *)

OpenSupport(q) ==
  /\ Enter(q, "complain", [at |-> "opened"]) /\ support' = Put(support, q, "open")
  /\ UNCHANGED <<ledger, trail>> /\ UNCHANGED unitVars /\ UNCHANGED outreachVars
RecordOpened(q) ==
  /\ At(q, "opened") /\ Return(q) /\ Log("support.opened", q)
  /\ UNCHANGED <<ledger, support>> /\ UNCHANGED unitVars /\ UNCHANGED outreachVars
ResolveTicket(q) ==
  /\ Called(q, "resolve")
  /\ \E t \in DOMAIN support :
       IF support[t] = "resolved" THEN Return(q)
       ELSE Enter(q, "resolve", [at |-> "resolve", ticket |-> t])
  /\ UNCHANGED ventureVars
SetResolved(q) ==
  /\ At(q, "resolve") /\ Goto(q, "resolved")
  /\ support' = [support EXCEPT ![req[q].ticket] = "resolved"]
  /\ UNCHANGED <<ledger, trail>> /\ UNCHANGED unitVars /\ UNCHANGED outreachVars
RecordResolved(q) ==
  /\ At(q, "resolved") /\ Return(q) /\ Log("support.resolved", req[q].ticket)
  /\ UNCHANGED <<ledger, support>> /\ UNCHANGED unitVars /\ UNCHANGED outreachVars

FactoryRoutes(q) ==
  \/ SpawnBusiness(q) \/ CreateOffering(q) \/ CreateUnitGoal(q) \/ HandToAutonomy(q)
  \/ RecordSpawn(q) \/ AddLedgerEntry(q)
  \/ RebalancePortfolio(q) \/ IncomeStatement(q) \/ ApplyDecision(q) \/ RetireOfferings(q)
  \/ RecordDecision(q)
OutreachRoutes(q) ==
  \/ CreateCampaign(q) \/ DecideCampaign(q) \/ DeclineCampaign(q) \/ DeliverCampaign(q)
  \/ AddVisitors(q) \/ MarkSent(q) \/ VerifyDraftTask(q) \/ RecordSent(q)
SupportRoutes(q) ==
  OpenSupport(q) \/ RecordOpened(q) \/ ResolveTicket(q) \/ SetResolved(q) \/ RecordResolved(q)

BusinessRoutes(q) == FactoryRoutes(q) \/ OutreachRoutes(q) \/ SupportRoutes(q)

-----------------------------------------------------------------------------
(* Properties. *)

\* A goal that drives a unit has something to sell: a spawn that stops halfway, or a
\* portfolio rebalanced meanwhile, drives no unit without an offering; and what was
\* recorded as spawned is complete (spawnBusiness, factory.ts:64-66).
DrivenWasOffered ==
  /\ DOMAIN goal \subseteq DOMAIN offering /\ DOMAIN offering \subseteq unit
  /\ \A q \in Reqs : <<"business.spawned", q>> \in trail => q \in DOMAIN goal /\ goal[q].active

\* What is retired, or was killed on record, had revenue: "New businesses with no
\* revenue yet get runway" (factory.ts:95-96), though a spawn, lines of the ledger and
\* another rebalancing come between the books and the decision.
RunwayKept ==
  \A u \in unit :
    (u \in DOMAIN offering /\ ~offering[u]) \/ <<"kill", u>> \in trail => ledger[u].revenue > 0

\* What shows as sent, or closed its task, or is on record went out, and everybody it
\* went to is a lead, however decisions overlap ("records each reached
\* address as a 'visitor' lead", businesses.ts:131-132).
SentWentOut ==
  /\ \A v \in visitors : v[1] \in delivered
  /\ \A c \in DOMAIN campaign :
       campaign[c].state = "sent" \/ campaign[c].task = "done" \/ <<"outreach.sent", c>> \in trail
         => c \in delivered /\ \A i \in DOMAIN Audience : <<c, Audience[i]>> \in visitors

\* The audit log is not ahead of the tickets.
TicketsSound ==
  \A t \in DOMAIN support : <<"support.resolved", t>> \in trail => support[t] = "resolved"

\* The books, the offers and what went out agree.
VenturesSound == DrivenWasOffered /\ RunwayKept /\ SentWentOut /\ TicketsSound

\* What the code does not keep: a unit whose offerings were retired is driven again
\* when it is scaled, and nothing puts its offerings back ("kill = pause the
\* business's goals + retire its offerings (stop spending on a loser)",
\* factory.ts:94-95).
RetiredIsParked ==
  \A u \in DOMAIN goal : goal[u].autonomy => offering[u]

=============================================================================
