----------------------------- MODULE MoneyPath ------------------------------
(***************************************************************************)
(* From a quote to money and a delivery (services/app/src/business).       *)
(*                                                                         *)
(* One quote can be sold in two ways.  Internally: checkoutQuote drafts a  *)
(* payment intent, an admin decides it, and an approval books revenue and  *)
(* opens a delivery.  On Stripe: a checkout session is opened, the         *)
(* customer pays it, and Stripe reports it to a webhook, at least once,    *)
(* which books revenue and delivers.  The goal loop drafts intents of its  *)
(* own for a task.  Requests run concurrently; one action is one database  *)
(* statement, nothing is in a transaction, and a request may die between   *)
(* two statements.  Every path ends in the audit chain.                    *)
(*                                                                         *)
(* The quote has a customer and a price that never changes, so the         *)
(* guardrail on the amount (assertChargeMatchesQuote) always passes and    *)
(* amounts are left out: revenue counts the lines booked.                  *)
(***************************************************************************)
EXTENDS Integers, Sequences, FiniteSets

CONSTANTS
  Requests,     \* request handlers that may run at once
  Budgets,      \* bound: how often each operation is called, one of these
  MaxIntents,   \* bound: rows of payment_intents
  MaxSessions,  \* bound: Stripe checkout sessions
  MaxFaults     \* bound: requests that die, records that fail

Intents == 1..MaxIntents
Sessions == 1..MaxSessions
Ops == {"checkout", "stripe", "webhook", "decide", "fulfil", "goal"}

ASSUME BoundsAssumption ==
  /\ MaxIntents \in Nat /\ MaxSessions \in Nat /\ MaxFaults \in Nat
  /\ Budgets \subseteq [Ops -> Nat]

\* What deliveries.payment_intent_id may hold (stripe-checkout.ts:53).
Quote == <<"quote", 0>>
Refs == {Quote} \cup ({"intent"} \X Intents) \cup ({"session"} \X Sessions)
IntentRef(i) == <<"intent", i>>
SessionRef(s) == <<"session", s>>

Actions == {"quote.checkout", "quote.checkout_session", "quote.paid",
            "payment.approved", "payment.declined", "delivery.fulfilled"}

VARIABLES
  \* ---- Postgres ----
  quote,      \* quotes: state, paymentIntentId and stripeSessionId (0 = null)
  intents,    \* paymentIntents.state; "none" = no such row
  drafts,     \* the intents that carry the goal task's id
  revenue,    \* revenue lines of business_ledger, by what they were booked for
  leads,      \* leads in stage customer, likewise
  deliveries, \* rows of deliveries
  task,       \* state of the goal task that asks for a charge
  audit,      \* the audit chain, see AuditChain
  \* ---- Stripe ----
  sessions,   \* "none", "created", "open" (the customer has the url), "paid",
              \* "reported" (a webhook call was made)
  \* ---- the server ----
  tail,       \* the chain's last row as each request read it
  proc,       \* every request: where it is and what it remembers
  \* ---- bounds ----
  left,       \* calls still to come
  faults

dbVars == <<quote, intents, drafts, revenue, leads, deliveries, task>>
chainVars == <<audit, tail>>
vars == <<dbVars, chainVars, sessions, proc, left, faults>>

Chain == INSTANCE AuditChain WITH Writers <- Requests, Entries <- Actions \X Refs

Idle == [op |-> "none", pc |-> "idle", ref |-> Quote, approve |-> FALSE,
         del |-> 0, action |-> "none"]

At(r, at) == proc[r].pc = at
Goto(r, at) == proc' = [proc EXCEPT ![r].pc = at]
Return(r) == proc' = [proc EXCEPT ![r] = Idle]
\* The request is about to record an action.
Record(r, action) == proc' = [proc EXCEPT ![r].pc = "tail", ![r].action = action]

Init ==
  /\ quote = [state |-> "open", intent |-> 0, session |-> 0]
  /\ intents = [i \in Intents |-> "none"] /\ drafts = {}
  /\ revenue = [ref \in Refs |-> 0] /\ leads = [ref \in Refs |-> 0]
  /\ deliveries = <<>> /\ task = "open"
  /\ Chain!Init
  /\ sessions = [s \in Sessions |-> "none"]
  /\ proc = [r \in Requests |-> Idle]
  /\ left \in Budgets /\ faults = 0

-----------------------------------------------------------------------------
(* A request arrives. *)

Arrive(r, op, pc, ref, approve, del) ==
  /\ At(r, "idle") /\ left[op] > 0
  /\ left' = [left EXCEPT ![op] = @ - 1]
  /\ proc' = [proc EXCEPT ![r] = [op |-> op, pc |-> pc, ref |-> ref,
                approve |-> approve, del |-> del, action |-> "none"]]
  /\ UNCHANGED <<dbVars, chainVars, faults>>

ArriveCheckout(r) ==
  Arrive(r, "checkout", "checkout", Quote, FALSE, 0) /\ UNCHANGED sessions
ArriveStripe(r) ==
  Arrive(r, "stripe", "open", Quote, FALSE, 0) /\ UNCHANGED sessions
\* Stripe delivers checkout.session.completed, and may deliver it again.  The
\* webhook looks at the quote the event refers to, not at the session.
ArriveWebhook(r) ==
  /\ Arrive(r, "webhook", "paid?", Quote, FALSE, 0)
  /\ \E s \in Sessions :
       /\ sessions[s] \in {"paid", "reported"}
       /\ sessions' = [sessions EXCEPT ![s] = "reported"]
ArriveDecide(r) ==
  /\ \E i \in Intents, approve \in BOOLEAN :
       /\ intents[i] # "none"
       /\ Arrive(r, "decide", "pending?", IntentRef(i), approve, 0)
  /\ UNCHANGED sessions
ArriveFulfil(r) ==
  /\ \E d \in DOMAIN deliveries :
       Arrive(r, "fulfil", "delivered?", Quote, FALSE, d)
  /\ UNCHANGED sessions
\* The scheduler executes the business goal's open tasks.
ArriveGoal(r) ==
  Arrive(r, "goal", "task?", Quote, FALSE, 0) /\ UNCHANGED sessions

Arrives(r) ==
  \/ ArriveCheckout(r) \/ ArriveStripe(r) \/ ArriveWebhook(r)
  \/ ArriveDecide(r) \/ ArriveFulfil(r) \/ ArriveGoal(r)

-----------------------------------------------------------------------------
(* checkoutQuote, and the drafts of the goal loop. *)

ReadForCheckout(r) ==
  /\ At(r, "checkout")
  /\ IF quote.state = "charged" THEN Return(r) ELSE Goto(r, "draft")
  /\ UNCHANGED <<dbVars, chainVars, sessions, left, faults>>

ReadTask(r) ==
  /\ At(r, "task?")
  /\ IF task = "open" THEN Goto(r, "draft") ELSE Return(r)
  /\ UNCHANGED <<dbVars, chainVars, sessions, left, faults>>

Fresh(i) == intents[i] = "none" /\ \A j \in 1..(i - 1) : intents[j] # "none"

\* The row createPaymentIntent inserts.
NewIntent_Charged(i) == intents' = [intents EXCEPT ![i] = "charged"]
NewIntent(i) == intents' = [intents EXCEPT ![i] = "pending"]

DraftIntent(r) ==
  /\ At(r, "draft")
  /\ \E i \in Intents :
       /\ Fresh(i) /\ NewIntent(i)
       /\ drafts' = IF proc[r].op = "goal" THEN drafts \cup {i} ELSE drafts
       /\ proc' = [proc EXCEPT ![r].ref = IntentRef(i),
                     ![r].pc = IF proc[r].op = "goal" THEN "mark" ELSE "charge"]
  /\ UNCHANGED <<quote, revenue, leads, deliveries, task, chainVars, sessions,
                 left, faults>>

ChargeQuote(r) ==
  /\ At(r, "charge")
  /\ quote' = [quote EXCEPT !.state = "charged", !.intent = proc[r].ref[2]]
  /\ Record(r, "quote.checkout")
  /\ UNCHANGED <<intents, drafts, revenue, leads, deliveries, task, chainVars,
                 sessions, left, faults>>

\* A drafted task is merged: only the approval may call it done.
MarkTask_Done(r) ==
  /\ At(r, "mark") /\ task' = "done" /\ Return(r)
  /\ UNCHANGED <<quote, intents, drafts, revenue, leads, deliveries, chainVars,
                 sessions, left, faults>>
MarkTask(r) ==
  /\ At(r, "mark") /\ task' = "merged" /\ Return(r)
  /\ UNCHANGED <<quote, intents, drafts, revenue, leads, deliveries, chainVars,
                 sessions, left, faults>>

-----------------------------------------------------------------------------
(* startQuoteStripeCheckout. *)

ReadForStripe(r) ==
  /\ At(r, "open")
  /\ IF quote.state = "paid" THEN Return(r) ELSE Goto(r, "session")
  /\ UNCHANGED <<dbVars, chainVars, sessions, left, faults>>

CreateSession(r) ==
  /\ At(r, "session")
  /\ \E s \in Sessions :
       /\ sessions[s] = "none" /\ \A t \in 1..(s - 1) : sessions[t] # "none"
       /\ sessions' = [sessions EXCEPT ![s] = "created"]
       /\ proc' = [proc EXCEPT ![r].ref = SessionRef(s), ![r].pc = "store"]
  /\ UNCHANGED <<dbVars, chainVars, left, faults>>

StoreSession(r) ==
  /\ At(r, "store")
  /\ quote' = [quote EXCEPT !.session = proc[r].ref[2]]
  /\ Record(r, "quote.checkout_session")
  /\ UNCHANGED <<intents, drafts, revenue, leads, deliveries, task, chainVars,
                 sessions, left, faults>>

CustomerPays ==
  /\ \E s \in Sessions :
       /\ sessions[s] = "open"
       /\ sessions' = [sessions EXCEPT ![s] = "paid"]
  /\ UNCHANGED <<dbVars, chainVars, proc, left, faults>>

-----------------------------------------------------------------------------
(* fulfillPaidQuote (Stripe webhook) and decidePaymentIntent (an admin). *)

SessionOf(q) == IF q.session = 0 THEN Quote ELSE SessionRef(q.session)
ReadPaid_OnlyOpen(r) ==
  /\ At(r, "paid?")
  /\ IF quote.state # "open" THEN Return(r)
     ELSE proc' = [proc EXCEPT ![r].pc = "pay", ![r].ref = SessionOf(quote)]
  /\ UNCHANGED <<dbVars, chainVars, sessions, left, faults>>
ReadPaid(r) ==
  /\ At(r, "paid?")
  /\ IF quote.state = "paid" THEN Return(r)
     ELSE proc' = [proc EXCEPT ![r].pc = "pay", ![r].ref = SessionOf(quote)]
  /\ UNCHANGED <<dbVars, chainVars, sessions, left, faults>>

PayQuote(r) ==
  /\ At(r, "pay")
  /\ quote' = [quote EXCEPT !.state = "paid"]
  /\ Goto(r, "book")
  /\ UNCHANGED <<intents, drafts, revenue, leads, deliveries, task, chainVars,
                 sessions, left, faults>>

ReadPending_BooksFirst(r) ==
  /\ At(r, "pending?")
  /\ IF intents[proc[r].ref[2]] # "pending" THEN Return(r)
     ELSE Goto(r, IF proc[r].approve THEN "book" ELSE "decide")
  /\ UNCHANGED <<dbVars, chainVars, sessions, left, faults>>
ReadPending(r) ==
  /\ At(r, "pending?")
  /\ IF intents[proc[r].ref[2]] # "pending" THEN Return(r) ELSE Goto(r, "decide")
  /\ UNCHANGED <<dbVars, chainVars, sessions, left, faults>>

DecideIntent(r) ==
  /\ At(r, "decide")
  /\ intents' = [intents EXCEPT ![proc[r].ref[2]] =
                   IF proc[r].approve THEN "approved" ELSE "declined"]
  /\ IF proc[r].approve THEN Goto(r, "book") ELSE Record(r, "payment.declined")
  /\ UNCHANGED <<quote, drafts, revenue, leads, deliveries, task, chainVars,
                 sessions, left, faults>>

BookRevenue(r) ==
  /\ At(r, "book")
  /\ revenue' = [revenue EXCEPT ![proc[r].ref] = @ + 1]
  /\ Goto(r, "lead")
  /\ UNCHANGED <<quote, intents, drafts, leads, deliveries, task, chainVars,
                 sessions, left, faults>>

AddLead(r) ==
  /\ At(r, "lead")
  /\ leads' = [leads EXCEPT ![proc[r].ref] = @ + 1]
  /\ Goto(r, IF proc[r].op = "decide" THEN "verify" ELSE "find")
  /\ UNCHANGED <<quote, intents, drafts, revenue, deliveries, task, chainVars,
                 sessions, left, faults>>

VerifyDraftTask(r) ==
  /\ At(r, "verify")
  /\ task' = IF proc[r].ref[2] \in drafts /\ task = "merged" THEN "done" ELSE task
  /\ Goto(r, "find")
  /\ UNCHANGED <<quote, intents, drafts, revenue, leads, deliveries, chainVars,
                 sessions, left, faults>>

-----------------------------------------------------------------------------
(* createDelivery and fulfillDelivery. *)

DeliveriesOf(ref) == {d \in DOMAIN deliveries : deliveries[d].ref = ref}

\* Where a request goes on when it has its delivery.
HasDelivery(r, d) ==
  proc' = [proc EXCEPT ![r].del = d,
             ![r].pc = IF proc[r].op = "decide" THEN "tail" ELSE "delivered?",
             ![r].action = IF proc[r].op = "decide" THEN "payment.approved" ELSE @]

FindDelivery_ByCustomer(r) ==
  /\ At(r, "find")
  /\ IF deliveries = <<>> THEN Goto(r, "insert")
     ELSE \E d \in DOMAIN deliveries : HasDelivery(r, d)
  /\ UNCHANGED <<dbVars, chainVars, sessions, left, faults>>
FindDelivery(r) ==
  /\ At(r, "find")
  /\ IF DeliveriesOf(proc[r].ref) = {} THEN Goto(r, "insert")
     ELSE \E d \in DeliveriesOf(proc[r].ref) : HasDelivery(r, d)
  /\ UNCHANGED <<dbVars, chainVars, sessions, left, faults>>

InsertDelivery(r) ==
  /\ At(r, "insert")
  /\ deliveries' = Append(deliveries, [ref |-> proc[r].ref, state |-> "pending"])
  /\ HasDelivery(r, Len(deliveries) + 1)
  /\ UNCHANGED <<quote, intents, drafts, revenue, leads, task, chainVars,
                 sessions, left, faults>>

\* A delivered delivery is returned without a record.
ReadDelivered(r) ==
  /\ At(r, "delivered?")
  /\ IF deliveries[proc[r].del].state = "pending" THEN Goto(r, "hand")
     ELSE IF proc[r].op = "webhook" THEN Record(r, "quote.paid")
     ELSE Return(r)
  /\ UNCHANGED <<dbVars, chainVars, sessions, left, faults>>

HandOver(r) ==
  /\ At(r, "hand")
  /\ deliveries' = [deliveries EXCEPT ![proc[r].del].state = "delivered"]
  /\ Record(r, "delivery.fulfilled")
  /\ UNCHANGED <<quote, intents, drafts, revenue, leads, task, chainVars,
                 sessions, left, faults>>

-----------------------------------------------------------------------------
(* record (audit-log.ts), and what a request does after it. *)

ReadTail(r) ==
  /\ At(r, "tail")
  /\ Chain!ReadTail(r)
  /\ Goto(r, "link")
  /\ UNCHANGED <<dbVars, sessions, left, faults>>

\* A new session's url reaches the customer when the request returns.
Recorded(r) ==
  /\ IF proc[r].op = "webhook" /\ proc[r].action = "delivery.fulfilled"
       THEN Record(r, "quote.paid") ELSE Return(r)
  /\ sessions' = IF proc[r].op = "stripe"
                   THEN [sessions EXCEPT ![proc[r].ref[2]] = "open"] ELSE sessions

InsertLink_Upserts(r) ==
  /\ At(r, "link")
  /\ Chain!Insert_Upserts(r, <<proc[r].action, proc[r].ref>>)
  /\ UNCHANGED tail
  /\ Recorded(r)
  /\ UNCHANGED <<dbVars, left, faults>>
InsertLink(r) ==
  /\ At(r, "link")
  /\ Chain!InsertLink(r, <<proc[r].action, proc[r].ref>>)
  /\ Recorded(r)
  /\ UNCHANGED <<dbVars, left, faults>>

-----------------------------------------------------------------------------
(* Faults. *)

\* record swallows what append throws: the action goes unrecorded.
RecordFails(r) ==
  /\ (At(r, "tail") \/ At(r, "link")) /\ faults < MaxFaults
  /\ faults' = faults + 1
  /\ Recorded(r)
  /\ UNCHANGED <<dbVars, chainVars, left>>

\* A statement throws, or the server stops: the request ends where it is.
Abort(r) ==
  /\ ~At(r, "idle") /\ faults < MaxFaults
  /\ faults' = faults + 1
  /\ Return(r)
  /\ UNCHANGED <<dbVars, chainVars, sessions, left>>

-----------------------------------------------------------------------------

\* What the server does to end a request it accepted.
Step(r) ==
  \/ ReadForCheckout(r) \/ ReadTask(r) \/ DraftIntent(r) \/ ChargeQuote(r)
  \/ MarkTask(r)
  \/ ReadForStripe(r) \/ CreateSession(r) \/ StoreSession(r)
  \/ ReadPaid(r) \/ PayQuote(r) \/ ReadPending(r) \/ DecideIntent(r)
  \/ BookRevenue(r) \/ AddLead(r) \/ VerifyDraftTask(r)
  \/ FindDelivery(r) \/ InsertDelivery(r) \/ ReadDelivered(r) \/ HandOver(r)
  \/ ReadTail(r) \/ InsertLink(r)

Next ==
  \/ \E r \in Requests : Arrives(r) \/ Step(r) \/ RecordFails(r) \/ Abort(r)
  \/ CustomerPays

\* The server works on what it accepted, and Stripe delivers an event at least
\* once; nothing else has to happen.
FirstDelivery ==
  (\A s \in Sessions : sessions[s] # "reported") /\ \E r \in Requests : ArriveWebhook(r)
Fairness ==
  /\ \A r \in Requests : WF_vars(Step(r))
  /\ WF_vars(FirstDelivery)

Spec == Init /\ [][Next]_vars /\ Fairness

-----------------------------------------------------------------------------
(* Properties. *)

PCs == {"idle", "checkout", "task?", "draft", "charge", "mark", "open",
        "session", "store", "paid?", "pay", "pending?", "decide", "book",
        "lead", "verify", "find", "insert", "delivered?", "hand", "tail", "link"}

Locals ==
  [op : Ops \cup {"none"}, pc : PCs, ref : Refs, approve : BOOLEAN, del : Nat,
   action : Actions \cup {"none"}]

\* Every variable has its type: ids refer to rows that exist, and every booking
\* is for an intent or a session, never for nothing.
TypeOK ==
  /\ quote \in [state : {"open", "charged", "paid"},
                intent : {0} \cup Intents, session : {0} \cup Sessions]
  /\ intents \in [Intents -> {"none", "pending", "approved", "declined"}]
  /\ drafts \subseteq Intents
  /\ revenue \in [Refs -> Nat] /\ leads \in [Refs -> Nat]
  /\ deliveries \in Seq([ref : Refs, state : {"pending", "delivered"}])
  /\ task \in {"open", "merged", "done"}
  /\ sessions \in [Sessions -> {"none", "created", "open", "paid", "reported"}]
  /\ left \in [Ops -> Nat] /\ faults \in 0..MaxFaults
  /\ proc \in [Requests -> Locals]

\* The audit chain verifies whatever requests interleave, die or fail to record
\* (audit-log.ts, verifyChain), because every request only ever extends it.
AuditVerifies == Chain!ChainVerifies
AuditImplementsChain == Chain!Spec

Booked(ref) == revenue[ref] + leads[ref] > 0 \/ DeliveriesOf(ref) # {}

\* Money is recognised only behind its gate: an intent nobody has decided has
\* no revenue, no customer and no delivery, and before a customer has paid on
\* Stripe nothing is booked for a session (businesses.ts:72-74,
\* stripe-checkout.ts:10-14), however many requests are under way.
UndecidedBooksNothing ==
  /\ \A i \in Intents :
       intents[i] \in {"none", "pending"} => ~Booked(IntentRef(i))
  /\ (\A s \in Sessions : sessions[s] \notin {"paid", "reported"}) =>
       /\ \A s \in Sessions : ~Booked(SessionRef(s))
       /\ ~Booked(Quote) /\ quote.state # "paid"

Deciding(i) ==
  \E r \in Requests : proc[r].op = "decide" /\ proc[r].ref = IntentRef(i)

\* An approval takes effect: once nobody is at work on an approved intent and no
\* request died, its revenue, its customer and exactly the delivery a paid
\* customer is owed are there, even when admins decided at the same time
\* (businesses.ts:82-90).
ApprovalTakesEffect ==
  \A i \in Intents :
    (faults = 0 /\ intents[i] = "approved" /\ ~Deciding(i)) =>
      /\ revenue[IntentRef(i)] > 0 /\ leads[IntentRef(i)] > 0
      /\ DeliveriesOf(IntentRef(i)) # {}

\* A goal task counts as done only when money it asked for was booked: drafting
\* it is not enough, in whatever order executor and admins run (actions.ts:126).
DoneMeansBooked ==
  task = "done" => \E i \in drafts : revenue[IntentRef(i)] > 0

\* A customer who paid is served: the payment is booked and something is
\* delivered, if no request dies (stripe-checkout.ts:40-43).
Served ==
  \E d \in DOMAIN deliveries :
    /\ deliveries[d].state = "delivered" /\ deliveries[d].ref[1] = "session"
    /\ revenue[deliveries[d].ref] > 0
PaidIsServed ==
  (\E s \in Sessions : sessions[s] = "paid") ~> (Served \/ faults > 0)

\* What the code does not keep, see README section 6: a payment is booked once,
\* however often Stripe delivers its event ("Idempotent", stripe-checkout.ts:41).
PaymentBookedOnce ==
  \A s \in Sessions : revenue[SessionRef(s)] <= 1

=============================================================================
