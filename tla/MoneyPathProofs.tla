-------------------------- MODULE MoneyPathProofs ---------------------------
(***************************************************************************)
(* What holds of the money path for every number of requests, calls,       *)
(* intents, sessions and faults.                                           *)
(*                                                                         *)
(* UndecidedBooksNothing and DoneMeansBooked are not inductive.  They rest *)
(* on what a request relies on between two statements: a request that is   *)
(* about to book for an intent follows its decision, one that books for a  *)
(* session follows Stripe's report, and one that verifies a task follows   *)
(* its booking.  Nobody takes a decision, a report or a booking back, so   *)
(* what a request found stays true however late it acts (Grow).            *)
(*                                                                         *)
(* The audit chain that the money path composes is proved on its own, for  *)
(* any writers, and its theorem carried over by the refinement.            *)
(***************************************************************************)
EXTENDS MoneyPath, SequenceTheorems, TLAPS

IntentRefs == {"intent"} \X Intents
SessionRefs == {"session"} \X Sessions
Booking == {"book", "lead", "verify", "find", "insert"}
HasSession(p) == p.op = "stripe" /\ p.pc \in {"store", "tail", "link"}

\* The operation a program counter belongs to, and what ref then refers to.
Kinds(p) ==
  /\ p.pc \in {"checkout", "task?", "draft", "charge", "mark"} =>
       p.op \in {"checkout", "goal"}
  /\ p.pc = "charge" => p.ref \in IntentRefs
  /\ p.pc \in {"open", "session", "store"} => p.op = "stripe"
  /\ p.pc \in {"paid?", "pay"} => p.op = "webhook"
  /\ p.pc \in {"pending?", "decide", "verify"} => p.op = "decide"
  /\ p.pc \in Booking => p.op \in {"decide", "webhook"}
  /\ p.pc \in {"delivered?", "hand"} => p.op \in {"webhook", "fulfil"}
  /\ p.pc \in {"tail", "link"} => p.action \in Actions
  /\ p.op = "decide" => p.ref \in IntentRefs
  /\ p.op = "webhook" => p.ref \in {Quote} \cup SessionRefs
  /\ HasSession(p) => p.ref \in SessionRefs

Reported(ss) == \E s \in Sessions : ss[s] = "reported"
Decided(is, i) == is[i] \in {"approved", "declined"}
Gated(ref, is, ss) ==
  IF ref[1] = "intent" THEN Decided(is, ref[2]) ELSE Reported(ss)

\* What a request at its place relies on, of intents, sessions, revenue and
\* deliveries.
Relies(p, is, ss, rev, ds) ==
  /\ p.op = "webhook" => Reported(ss)
  /\ p.op = "decide" /\ p.pc \in Booking => Decided(is, p.ref[2])
  /\ p.op = "decide" /\ p.pc \in {"lead", "verify"} => rev[p.ref] > 0
  /\ HasSession(p) => ss[p.ref[2]] = "created"
  /\ p.pc \in {"delivered?", "hand"} => p.del \in 1..Len(ds)

RequestsOK ==
  \A r \in Requests :
    /\ Kinds(proc[r])
    /\ Relies(proc[r], intents, sessions, revenue, deliveries)

OwnSession ==
  \A r, q \in Requests :
    r # q /\ HasSession(proc[r]) /\ HasSession(proc[q]) => proc[r].ref # proc[q].ref

BookingsGated ==
  /\ \A ref \in Refs : revenue[ref] + leads[ref] > 0 => Gated(ref, intents, sessions)
  /\ \A d \in 1..Len(deliveries) : Gated(deliveries[d].ref, intents, sessions)
  /\ quote.state = "paid" => Reported(sessions)

IInv == TypeOK /\ RequestsOK /\ OwnSession /\ BookingsGated /\ DoneMeansBooked

\* The types of everything but proc.
SharedOK ==
  /\ quote \in [state : {"open", "charged", "paid"},
                intent : {0} \cup Intents, session : {0} \cup Sessions]
  /\ intents \in [Intents -> {"none", "pending", "approved", "declined"}]
  /\ drafts \subseteq Intents
  /\ revenue \in [Refs -> Nat] /\ leads \in [Refs -> Nat]
  /\ deliveries \in Seq([ref : Refs, state : {"pending", "delivered"}])
  /\ task \in {"open", "merged", "done"}
  /\ sessions \in [Sessions -> {"none", "created", "open", "paid", "reported"}]
  /\ left \in [Ops -> Nat] /\ faults \in 0..MaxFaults

\* A step takes nothing back, and books only behind a gate that is open.
Grow ==
  /\ \A i \in Intents : Decided(intents, i) => Decided(intents', i)
  /\ Reported(sessions) => Reported(sessions')
  /\ \A ref \in Refs : revenue'[ref] >= revenue[ref]
  /\ Len(deliveries') >= Len(deliveries)
  /\ \A ref \in Refs : revenue'[ref] + leads'[ref] > 0 =>
       revenue[ref] + leads[ref] > 0 \/ Gated(ref, intents, sessions)
  /\ \A d \in 1..Len(deliveries') :
       \/ d \in 1..Len(deliveries) /\ deliveries'[d].ref = deliveries[d].ref
       \/ Gated(deliveries'[d].ref, intents, sessions)
  /\ quote'.state = "paid" => quote.state = "paid" \/ Reported(sessions)
  /\ drafts \subseteq drafts'
  /\ task' = "done" =>
       task = "done" \/ \E i \in drafts : revenue[IntentRef(i)] > 0

\* Request r leaves alone the sessions other requests are creating.
SessionsKept(r) ==
  \A s \in Sessions : sessions[s] = "created" =>
    \/ sessions'[s] = "created"
    \/ HasSession(proc[r]) /\ proc[r].ref = SessionRef(s)

-----------------------------------------------------------------------------
(* References. *)

LEMMA RefKinds ==
  /\ Refs = {Quote} \cup IntentRefs \cup SessionRefs
  /\ Quote[1] = "quote"
  /\ \A ref \in IntentRefs :
       ref[1] = "intent" /\ ref[2] \in Intents /\ ref = IntentRef(ref[2])
  /\ \A ref \in SessionRefs :
       ref[1] = "session" /\ ref[2] \in Sessions /\ ref = SessionRef(ref[2])
  /\ \A i \in Intents : IntentRef(i) \in IntentRefs
  /\ \A s \in Sessions : SessionRef(s) \in SessionRefs
  BY DEF Refs, Quote, IntentRefs, SessionRefs, IntentRef, SessionRef

LEMMA RowType ==
  ASSUME NEW T, NEW ds \in Seq([ref : Refs, state : T]), NEW d \in 1..Len(ds)
  PROVE  ds[d].ref \in Refs /\ ds[d].state \in T
<1>1. ds[d] \in [ref : Refs, state : T]
  BY ElementOfSeq
<1> QED BY <1>1

LEMMA TypeSplit == TypeOK <=> SharedOK /\ proc \in [Requests -> Locals]
  BY DEF TypeOK, SharedOK

\* A gate that was open stays open.
LEMMA GateStays ==
  ASSUME IInv, Grow, NEW ref \in Refs, Gated(ref, intents, sessions)
  PROVE  Gated(ref, intents', sessions')
  BY RefKinds DEF Grow, Gated

\* Nothing but sessions changed.
LEMMA SameGrows ==
  ASSUME IInv, UNCHANGED dbVars, Reported(sessions) => Reported(sessions')
  PROVE  Grow
<1>1. \A ref \in Refs : revenue[ref] \in Nat
  BY DEF IInv, TypeOK
<1>2. Len(deliveries) \in Nat
  BY LenProperties DEF IInv, TypeOK
<1>3. task = "done" => \E i \in drafts : revenue[IntentRef(i)] > 0
  BY DEF IInv, DoneMeansBooked
<1> QED BY <1>1, <1>2, <1>3 DEF dbVars, Grow

\* When request r goes on as p, everything else it does being growth, the
\* invariant holds again.
LEMMA Preserve ==
  ASSUME IInv, SharedOK', Grow, NEW r \in Requests, SessionsKept(r),
         NEW p \in Locals, proc' = [proc EXCEPT ![r] = p],
         Kinds(p), Relies(p, intents', sessions', revenue', deliveries'),
         HasSession(p) =>
           \/ HasSession(proc[r]) /\ p.ref = proc[r].ref
           \/ sessions[p.ref[2]] = "none"
  PROVE  IInv'
<1> USE RefKinds
<1>1. proc \in [Requests -> Locals] /\ SharedOK
  BY TypeSplit DEF IInv
<1>2. /\ proc' \in [Requests -> Locals] /\ proc'[r] = p
      /\ \A q \in Requests \ {r} : proc'[q] = proc[q]
  BY <1>1
<1>3. TypeOK'
  BY <1>2 DEF TypeOK, SharedOK
<1>4. Len(deliveries) \in Nat /\ Len(deliveries') \in Nat
      /\ \A ref \in Refs : revenue[ref] \in Nat /\ revenue'[ref] \in Nat
  BY <1>1, LenProperties DEF SharedOK
<1>5. ASSUME NEW q \in Requests, q # r
      PROVE  Relies(proc[q], intents', sessions', revenue', deliveries')
  <2>1. Kinds(proc[q]) /\ Relies(proc[q], intents, sessions, revenue, deliveries)
    BY DEF IInv, RequestsOK
  <2>2. proc[q] \in Locals
    BY <1>1
  <2>3. proc[q].op = "decide" =>
          proc[q].ref \in IntentRefs /\ proc[q].ref[2] \in Intents /\ proc[q].ref \in Refs
    BY <2>1 DEF Kinds
  <2>4. HasSession(proc[q]) => sessions'[proc[q].ref[2]] = "created"
    <3> SUFFICES ASSUME HasSession(proc[q]) PROVE sessions'[proc[q].ref[2]] = "created"
      OBVIOUS
    <3>1. proc[q].ref \in SessionRefs /\ sessions[proc[q].ref[2]] = "created"
      BY <2>1 DEF Kinds, Relies
    <3>2. ~(HasSession(proc[r]) /\ proc[r].ref = proc[q].ref)
      BY <1>5 DEF IInv, OwnSession
    <3> QED BY <3>1, <3>2 DEF SessionsKept
  <2>5. proc[q].op = "decide" /\ proc[q].pc \in {"lead", "verify"} =>
          revenue'[proc[q].ref] > 0
    BY <1>4, <2>1, <2>3 DEF Relies, Grow
  <2>6. proc[q].pc \in {"delivered?", "hand"} => proc[q].del \in 1..Len(deliveries')
    BY <1>4, <2>1, <2>2 DEF Relies, Grow, Locals
  <2> QED BY <2>1, <2>3, <2>4, <2>5, <2>6 DEF Relies, Grow
<1>6. RequestsOK'
  <2> SUFFICES ASSUME NEW q \in Requests
               PROVE  /\ Kinds(proc'[q])
                      /\ Relies(proc'[q], intents', sessions', revenue', deliveries')
    BY DEF RequestsOK
  <2>1. CASE q = r
    BY <1>2, <2>1
  <2>2. CASE q # r
    <3>1. proc'[q] = proc[q] /\ Kinds(proc[q])
      BY <1>2, <2>2 DEF IInv, RequestsOK
    <3> QED BY <3>1, <1>5, <2>2
  <2> QED BY <2>1, <2>2
<1>7. OwnSession'
  <2> SUFFICES ASSUME NEW q \in Requests, q # r, HasSession(proc[q]), HasSession(p)
               PROVE  p.ref # proc[q].ref
    BY <1>2 DEF OwnSession, IInv
  <2>1. sessions[proc[q].ref[2]] = "created"
    BY DEF IInv, RequestsOK, Relies
  <2>2. HasSession(proc[r]) => proc[r].ref # proc[q].ref
    BY DEF IInv, OwnSession
  <2> QED BY <2>1, <2>2
<1>8. BookingsGated'
  <2>1. \A ref \in Refs : revenue'[ref] + leads'[ref] > 0 => Gated(ref, intents', sessions')
    BY GateStays DEF IInv, BookingsGated, Grow
  <2>2. \A d \in 1..Len(deliveries') : Gated(deliveries'[d].ref, intents', sessions')
    <3> SUFFICES ASSUME NEW d \in 1..Len(deliveries')
                 PROVE  Gated(deliveries'[d].ref, intents', sessions')
      OBVIOUS
    <3>1. deliveries' \in Seq([ref : Refs, state : {"pending", "delivered"}])
      BY DEF SharedOK
    <3>2. deliveries'[d].ref \in Refs
      BY <3>1, RowType
    <3>3. Gated(deliveries'[d].ref, intents, sessions)
      BY DEF IInv, BookingsGated, Grow
    <3> QED BY <3>2, <3>3, GateStays
  <2>3. quote'.state = "paid" => Reported(sessions')
    BY DEF IInv, BookingsGated, Grow
  <2> QED BY <2>1, <2>2, <2>3 DEF BookingsGated
<1>9. DoneMeansBooked'
  <2> SUFFICES ASSUME task' = "done"
               PROVE  \E i \in drafts' : revenue'[IntentRef(i)] > 0
    BY DEF DoneMeansBooked
  <2>1. PICK i \in drafts : revenue[IntentRef(i)] > 0
    BY DEF IInv, DoneMeansBooked, Grow
  <2>2. i \in Intents /\ IntentRef(i) \in Refs /\ i \in drafts'
    BY <1>1 DEF SharedOK, Grow
  <2> QED BY <2>1, <2>2, <1>4 DEF Grow
<1> QED BY <1>3, <1>6, <1>7, <1>8, <1>9 DEF IInv

-----------------------------------------------------------------------------
(* How a request goes on. *)

LEMMA OfRequest ==
  ASSUME IInv, NEW r \in Requests
  PROVE  /\ proc[r] \in Locals /\ Kinds(proc[r])
         /\ Relies(proc[r], intents, sessions, revenue, deliveries)
  BY DEF IInv, TypeOK, RequestsOK

LEMMA GotoMoves ==
  ASSUME IInv, NEW r \in Requests, NEW at \in PCs, Goto(r, at)
  PROVE  \E p \in Locals :
           /\ proc' = [proc EXCEPT ![r] = p] /\ p.pc = at
           /\ p.op = proc[r].op /\ p.ref = proc[r].ref
           /\ p.del = proc[r].del /\ p.action = proc[r].action
<1> DEFINE p == [proc[r] EXCEPT !.pc = at]
<1>1. proc' = [proc EXCEPT ![r] = p]
  BY DEF Goto, IInv, TypeOK
<1>2. /\ p \in Locals /\ p.pc = at /\ p.op = proc[r].op /\ p.ref = proc[r].ref
      /\ p.del = proc[r].del /\ p.action = proc[r].action
  BY OfRequest DEF Locals
<1> QED BY <1>1, <1>2

LEMMA RecordMoves ==
  ASSUME IInv, NEW r \in Requests, NEW a \in Actions, Record(r, a)
  PROVE  \E p \in Locals :
           /\ proc' = [proc EXCEPT ![r] = p] /\ p.pc = "tail" /\ p.action = a
           /\ p.op = proc[r].op /\ p.ref = proc[r].ref /\ p.del = proc[r].del
<1> DEFINE p == [proc[r] EXCEPT !.pc = "tail", !.action = a]
<1>1. proc' = [proc EXCEPT ![r] = p]
  BY DEF Record, IInv, TypeOK
<1>2. /\ p \in Locals /\ p.pc = "tail" /\ p.action = a
      /\ p.op = proc[r].op /\ p.ref = proc[r].ref /\ p.del = proc[r].del
  BY OfRequest DEF Locals, PCs
<1> QED BY <1>1, <1>2

\* A request that returns relies on nothing any more.
LEMMA ReturnKeeps ==
  ASSUME IInv, SharedOK', Grow, NEW r \in Requests, SessionsKept(r), Return(r)
  PROVE  IInv'
<1>1. Idle \in Locals /\ proc' = [proc EXCEPT ![r] = Idle]
  BY RefKinds DEF Return, Idle, Locals, PCs
<1>2. Kinds(Idle) /\ ~HasSession(Idle)
  BY DEF Kinds, HasSession, Idle, Booking
<1>3. Relies(Idle, intents', sessions', revenue', deliveries')
  BY DEF Relies, HasSession, Idle
<1> QED BY <1>1, <1>2, <1>3, Preserve

\* A step that only looks: the request goes on as p with what it read.
LEMMA LookKeeps ==
  ASSUME IInv, NEW r \in Requests, NEW p \in Locals,
         proc' = [proc EXCEPT ![r] = p], UNCHANGED <<dbVars, sessions, left, faults>>,
         Kinds(p), Relies(p, intents, sessions, revenue, deliveries),
         HasSession(p) => HasSession(proc[r]) /\ p.ref = proc[r].ref
  PROVE  IInv'
<1>1. Grow /\ SessionsKept(r)
  BY SameGrows DEF SessionsKept
<1>2. SharedOK'
  BY DEF IInv, TypeOK, SharedOK, dbVars
<1>3. Relies(p, intents', sessions', revenue', deliveries')
  BY DEF dbVars
<1> QED BY <1>1, <1>2, <1>3, Preserve

LEMMA LookReturns ==
  ASSUME IInv, NEW r \in Requests, Return(r),
         UNCHANGED <<dbVars, sessions, left>>, faults' \in 0..MaxFaults
  PROVE  IInv'
<1>1. Grow /\ SessionsKept(r)
  BY SameGrows DEF SessionsKept
<1>2. SharedOK'
  BY DEF IInv, TypeOK, SharedOK, dbVars
<1> QED BY <1>1, <1>2, ReturnKeeps

-----------------------------------------------------------------------------
(* The statements that only look. *)

LEMMA ReadForCheckoutKeeps ==
  ASSUME IInv, NEW r \in Requests, ReadForCheckout(r)
  PROVE  IInv'
<1>1. Return(r) => IInv'
  BY LookReturns DEF ReadForCheckout, IInv, TypeOK
<1>2. ASSUME Goto(r, "draft") PROVE IInv'
  <2>1. PICK p \in Locals :
          /\ proc' = [proc EXCEPT ![r] = p] /\ p.pc = "draft"
          /\ p.op = proc[r].op /\ p.ref = proc[r].ref
    BY <1>2, GotoMoves DEF PCs
  <2>2. Kinds(p) /\ Relies(p, intents, sessions, revenue, deliveries) /\ ~HasSession(p)
    BY <2>1, OfRequest DEF ReadForCheckout, At, Kinds, Relies, HasSession, Booking
  <2> QED BY <2>1, <2>2, LookKeeps DEF ReadForCheckout
<1> QED BY <1>1, <1>2 DEF ReadForCheckout

LEMMA ReadTaskKeeps ==
  ASSUME IInv, NEW r \in Requests, ReadTask(r)
  PROVE  IInv'
<1>1. Return(r) => IInv'
  BY LookReturns DEF ReadTask, IInv, TypeOK
<1>2. ASSUME Goto(r, "draft") PROVE IInv'
  <2>1. PICK p \in Locals :
          /\ proc' = [proc EXCEPT ![r] = p] /\ p.pc = "draft"
          /\ p.op = proc[r].op /\ p.ref = proc[r].ref
    BY <1>2, GotoMoves DEF PCs
  <2>2. Kinds(p) /\ Relies(p, intents, sessions, revenue, deliveries) /\ ~HasSession(p)
    BY <2>1, OfRequest DEF ReadTask, At, Kinds, Relies, HasSession, Booking
  <2> QED BY <2>1, <2>2, LookKeeps DEF ReadTask
<1> QED BY <1>1, <1>2 DEF ReadTask

LEMMA ReadForStripeKeeps ==
  ASSUME IInv, NEW r \in Requests, ReadForStripe(r)
  PROVE  IInv'
<1>1. Return(r) => IInv'
  BY LookReturns DEF ReadForStripe, IInv, TypeOK
<1>2. ASSUME Goto(r, "session") PROVE IInv'
  <2>1. PICK p \in Locals :
          /\ proc' = [proc EXCEPT ![r] = p] /\ p.pc = "session"
          /\ p.op = proc[r].op /\ p.ref = proc[r].ref
    BY <1>2, GotoMoves DEF PCs
  <2>2. Kinds(p) /\ Relies(p, intents, sessions, revenue, deliveries) /\ ~HasSession(p)
    BY <2>1, OfRequest DEF ReadForStripe, At, Kinds, Relies, HasSession, Booking
  <2> QED BY <2>1, <2>2, LookKeeps DEF ReadForStripe
<1> QED BY <1>1, <1>2 DEF ReadForStripe

LEMMA ReadPendingKeeps ==
  ASSUME IInv, NEW r \in Requests, ReadPending(r)
  PROVE  IInv'
<1>1. Return(r) => IInv'
  BY LookReturns DEF ReadPending, IInv, TypeOK
<1>2. ASSUME Goto(r, "decide") PROVE IInv'
  <2>1. PICK p \in Locals :
          /\ proc' = [proc EXCEPT ![r] = p] /\ p.pc = "decide"
          /\ p.op = proc[r].op /\ p.ref = proc[r].ref
    BY <1>2, GotoMoves DEF PCs
  <2>2. Kinds(p) /\ Relies(p, intents, sessions, revenue, deliveries) /\ ~HasSession(p)
    BY <2>1, OfRequest DEF ReadPending, At, Kinds, Relies, HasSession, Booking
  <2> QED BY <2>1, <2>2, LookKeeps DEF ReadPending
<1> QED BY <1>1, <1>2 DEF ReadPending

LEMMA ReadPaidKeeps ==
  ASSUME IInv, NEW r \in Requests, ReadPaid(r)
  PROVE  IInv'
<1>1. Return(r) => IInv'
  BY LookReturns DEF ReadPaid, IInv, TypeOK
<1> DEFINE p == [proc[r] EXCEPT !.pc = "pay", !.ref = SessionOf(quote)]
<1>2. ASSUME proc' = [proc EXCEPT ![r].pc = "pay", ![r].ref = SessionOf(quote)]
      PROVE  IInv'
  <2>1. SessionOf(quote) \in {Quote} \cup SessionRefs
    BY RefKinds DEF SessionOf, IInv, TypeOK
  <2>2. proc' = [proc EXCEPT ![r] = p]
    BY <1>2 DEF IInv, TypeOK
  <2>3. p \in Locals /\ p.pc = "pay" /\ p.op = proc[r].op /\ p.ref = SessionOf(quote)
    BY <2>1, RefKinds, OfRequest DEF Locals, PCs
  <2>4. proc[r].op = "webhook" /\ Reported(sessions)
    BY OfRequest DEF ReadPaid, At, Kinds, Relies
  <2> HIDE DEF p
  <2>5. Kinds(p) /\ Relies(p, intents, sessions, revenue, deliveries) /\ ~HasSession(p)
    BY <2>1, <2>3, <2>4 DEF Kinds, Relies, HasSession, Booking
  <2> QED BY <2>2, <2>3, <2>5, LookKeeps DEF ReadPaid
<1> QED BY <1>1, <1>2 DEF ReadPaid

\* Where createDelivery returns to.
LEMMA HasDeliveryMoves ==
  ASSUME IInv, NEW r \in Requests, NEW d \in Nat, HasDelivery(r, d)
  PROVE  \E p \in Locals :
           /\ proc' = [proc EXCEPT ![r] = p]
           /\ p.op = proc[r].op /\ p.ref = proc[r].ref /\ p.del = d
           /\ \/ p.op = "decide" /\ p.pc = "tail" /\ p.action = "payment.approved"
              \/ p.op # "decide" /\ p.pc = "delivered?" /\ p.action = proc[r].action
<1> DEFINE p == [proc[r] EXCEPT !.del = d,
             !.pc = IF proc[r].op = "decide" THEN "tail" ELSE "delivered?",
             !.action = IF proc[r].op = "decide" THEN "payment.approved" ELSE @]
<1>1. proc' = [proc EXCEPT ![r] = p]
  BY DEF HasDelivery, IInv, TypeOK
<1>2. p \in Locals
  <2>1. proc[r] \in Locals BY OfRequest
  <2>2. \A at \in PCs, act \in Actions \cup {"none"} :
          [proc[r] EXCEPT !.del = d, !.pc = at, !.action = act] \in Locals
    BY <2>1 DEF Locals
  <2>3. proc[r].action \in Actions \cup {"none"} BY <2>1 DEF Locals
  <2>4. "tail" \in PCs /\ "delivered?" \in PCs /\ "payment.approved" \in Actions
    BY DEF PCs, Actions
  <2> QED BY <2>2, <2>3, <2>4
<1>3. /\ p.op = proc[r].op /\ p.ref = proc[r].ref /\ p.del = d
      /\ p.pc = IF proc[r].op = "decide" THEN "tail" ELSE "delivered?"
      /\ p.action = IF proc[r].op = "decide" THEN "payment.approved" ELSE proc[r].action
  BY OfRequest DEF Locals
<1> QED BY <1>1, <1>2, <1>3

LEMMA FindDeliveryKeeps ==
  ASSUME IInv, NEW r \in Requests, FindDelivery(r)
  PROVE  IInv'
<1>1. ASSUME Goto(r, "insert") PROVE IInv'
  <2>1. PICK p \in Locals :
          /\ proc' = [proc EXCEPT ![r] = p] /\ p.pc = "insert"
          /\ p.op = proc[r].op /\ p.ref = proc[r].ref
    BY <1>1, GotoMoves DEF PCs
  <2>2. Kinds(p) /\ Relies(p, intents, sessions, revenue, deliveries) /\ ~HasSession(p)
    BY <2>1, OfRequest DEF FindDelivery, At, Kinds, Relies, HasSession, Booking
  <2> QED BY <2>1, <2>2, LookKeeps DEF FindDelivery
<1>2. ASSUME NEW d \in DeliveriesOf(proc[r].ref), HasDelivery(r, d) PROVE IInv'
  <2>1. d \in 1..Len(deliveries) /\ d \in Nat
    BY LenProperties DEF DeliveriesOf, IInv, TypeOK
  <2>2. PICK p \in Locals :
          /\ proc' = [proc EXCEPT ![r] = p]
          /\ p.op = proc[r].op /\ p.ref = proc[r].ref /\ p.del = d
          /\ \/ p.op = "decide" /\ p.pc = "tail" /\ p.action = "payment.approved"
             \/ p.op # "decide" /\ p.pc = "delivered?" /\ p.action = proc[r].action
    BY <1>2, <2>1, HasDeliveryMoves
  <2>3. Kinds(p) /\ Relies(p, intents, sessions, revenue, deliveries) /\ ~HasSession(p)
    BY <2>1, <2>2, OfRequest
       DEF FindDelivery, At, Kinds, Relies, HasSession, Booking, Actions
  <2> QED BY <2>2, <2>3, LookKeeps DEF FindDelivery
<1> QED BY <1>1, <1>2 DEF FindDelivery

LEMMA ReadDeliveredKeeps ==
  ASSUME IInv, NEW r \in Requests, ReadDelivered(r)
  PROVE  IInv'
<1>1. Return(r) => IInv'
  BY LookReturns DEF ReadDelivered, IInv, TypeOK
<1>2. ASSUME Goto(r, "hand") PROVE IInv'
  <2>1. PICK p \in Locals :
          /\ proc' = [proc EXCEPT ![r] = p] /\ p.pc = "hand"
          /\ p.op = proc[r].op /\ p.ref = proc[r].ref /\ p.del = proc[r].del
    BY <1>2, GotoMoves DEF PCs
  <2>2. Kinds(p) /\ Relies(p, intents, sessions, revenue, deliveries) /\ ~HasSession(p)
    BY <2>1, OfRequest DEF ReadDelivered, At, Kinds, Relies, HasSession, Booking
  <2> QED BY <2>1, <2>2, LookKeeps DEF ReadDelivered
<1>3. ASSUME Record(r, "quote.paid"), proc[r].op = "webhook" PROVE IInv'
  <2>1. PICK p \in Locals :
          /\ proc' = [proc EXCEPT ![r] = p] /\ p.pc = "tail"
          /\ p.action = "quote.paid" /\ p.op = proc[r].op /\ p.ref = proc[r].ref
    BY <1>3, RecordMoves DEF Actions
  <2>2. Kinds(p) /\ Relies(p, intents, sessions, revenue, deliveries) /\ ~HasSession(p)
    BY <1>3, <2>1, OfRequest DEF Kinds, Relies, HasSession, Booking, Actions
  <2> QED BY <2>1, <2>2, LookKeeps DEF ReadDelivered
<1> QED BY <1>1, <1>2, <1>3 DEF ReadDelivered

LEMMA ReadTailKeeps ==
  ASSUME IInv, NEW r \in Requests, ReadTail(r)
  PROVE  IInv'
<1>1. PICK p \in Locals :
        /\ proc' = [proc EXCEPT ![r] = p] /\ p.pc = "link"
        /\ p.op = proc[r].op /\ p.ref = proc[r].ref /\ p.action = proc[r].action
  BY GotoMoves DEF ReadTail, PCs
<1>2. /\ Kinds(p) /\ Relies(p, intents, sessions, revenue, deliveries)
      /\ HasSession(p) => HasSession(proc[r]) /\ p.ref = proc[r].ref
  BY <1>1, OfRequest DEF ReadTail, At, Kinds, Relies, HasSession, Booking
<1> QED BY <1>1, <1>2, LookKeeps DEF ReadTail

LEMMA AbortKeeps ==
  ASSUME IInv, NEW r \in Requests, Abort(r)
  PROVE  IInv'
<1>1. faults' \in 0..MaxFaults
  BY BoundsAssumption DEF Abort, IInv, TypeOK
<1> QED BY <1>1, LookReturns DEF Abort

-----------------------------------------------------------------------------
(* Arrivals. *)

LEMMA ArriveKeeps ==
  ASSUME IInv, NEW r \in Requests, NEW op \in Ops, NEW pc \in PCs, NEW ref \in Refs,
         NEW approve \in BOOLEAN, NEW del \in Nat, Arrive(r, op, pc, ref, approve, del),
         op = "decide" => ref \in IntentRefs,
         op = "webhook" => ref = Quote /\ Reported(sessions'),
         \/ pc = "checkout" /\ op = "checkout"
         \/ pc = "open" /\ op = "stripe"
         \/ pc = "paid?" /\ op = "webhook"
         \/ pc = "pending?" /\ op = "decide"
         \/ pc = "delivered?" /\ op = "fulfil" /\ del \in 1..Len(deliveries)
         \/ pc = "task?" /\ op = "goal",
         sessions' \in [Sessions -> {"none", "created", "open", "paid", "reported"}],
         Reported(sessions) => Reported(sessions'), SessionsKept(r)
  PROVE  IInv'
<1> DEFINE p == [op |-> op, pc |-> pc, ref |-> ref, approve |-> approve,
                 del |-> del, action |-> "none"]
<1>1. proc' = [proc EXCEPT ![r] = p] /\ UNCHANGED dbVars
  BY DEF Arrive
<1>2. p \in Locals /\ p.op = op /\ p.pc = pc /\ p.ref = ref /\ p.del = del
  BY DEF Locals
<1> HIDE DEF p
<1>3. Grow
  BY <1>1, SameGrows
<1>4. SharedOK'
  <2>1. left' \in [Ops -> Nat]
    <3>1. left \in [Ops -> Nat] /\ left[op] \in Nat /\ left[op] > 0
      BY DEF Arrive, IInv, TypeOK
    <3> DEFINE n == left[op] - 1
    <3>2. n \in Nat
      BY <3>1
    <3>3. left' = [left EXCEPT ![op] = n]
      BY <3>1 DEF Arrive
    <3> HIDE DEF n
    <3> QED BY <3>1, <3>2, <3>3
  <2> QED BY <1>1, <2>1 DEF Arrive, IInv, TypeOK, SharedOK, dbVars
<1>5. Kinds(p) /\ ~HasSession(p)
  BY <1>2 DEF Kinds, HasSession, Booking
<1>6. Relies(p, intents', sessions', revenue', deliveries')
  BY <1>1, <1>2, <1>5 DEF Relies, Booking, dbVars
<1> QED BY <1>1, <1>2, <1>3, <1>4, <1>5, <1>6, Preserve

LEMMA ArrivesKeeps ==
  ASSUME IInv, NEW r \in Requests, Arrives(r)
  PROVE  IInv'
<1> USE RefKinds DEF Ops, PCs
<1>1. sessions \in [Sessions -> {"none", "created", "open", "paid", "reported"}]
  BY DEF IInv, TypeOK
<1>2. UNCHANGED sessions => SessionsKept(r)
  BY DEF SessionsKept
<1>3. CASE ArriveCheckout(r)
  <2>1. Arrive(r, "checkout", "checkout", Quote, FALSE, 0) /\ UNCHANGED sessions
    BY <1>3 DEF ArriveCheckout
  <2>2. Quote \in Refs /\ 0 \in Nat /\ FALSE \in BOOLEAN
    OBVIOUS
  <2> QED BY <1>1, <1>2, <2>1, <2>2, ArriveKeeps
<1>4. CASE ArriveStripe(r)
  BY <1>1, <1>2, <1>4, ArriveKeeps DEF ArriveStripe
<1>5. CASE ArriveWebhook(r)
  <2>1. PICK s \in Sessions :
          /\ sessions[s] \in {"paid", "reported"}
          /\ sessions' = [sessions EXCEPT ![s] = "reported"]
    BY <1>5 DEF ArriveWebhook
  <2>2. /\ sessions' \in [Sessions -> {"none", "created", "open", "paid", "reported"}]
        /\ Reported(sessions')
    BY <1>1, <2>1 DEF Reported
  <2>3. SessionsKept(r)
    BY <1>1, <2>1 DEF SessionsKept
  <2>4. Arrive(r, "webhook", "paid?", Quote, FALSE, 0)
    BY <1>5 DEF ArriveWebhook
  <2>5. Quote \in Refs /\ 0 \in Nat /\ FALSE \in BOOLEAN
    OBVIOUS
  <2> QED BY <2>2, <2>3, <2>4, <2>5, ArriveKeeps
<1>6. CASE ArriveDecide(r)
  <2>1. PICK i \in Intents, approve \in BOOLEAN :
          Arrive(r, "decide", "pending?", IntentRef(i), approve, 0)
    BY <1>6 DEF ArriveDecide
  <2>2. IntentRef(i) \in IntentRefs /\ IntentRef(i) \in Refs
    OBVIOUS
  <2> QED BY <1>1, <1>2, <1>6, <2>1, <2>2, ArriveKeeps DEF ArriveDecide
<1>7. CASE ArriveFulfil(r)
  <2>1. PICK d \in DOMAIN deliveries :
          Arrive(r, "fulfil", "delivered?", Quote, FALSE, d)
    BY <1>7 DEF ArriveFulfil
  <2>2. d \in 1..Len(deliveries) /\ d \in Nat
    BY LenProperties DEF IInv, TypeOK
  <2> QED BY <1>1, <1>2, <1>7, <2>1, <2>2, ArriveKeeps DEF ArriveFulfil
<1>8. CASE ArriveGoal(r)
  BY <1>1, <1>2, <1>8, ArriveKeeps DEF ArriveGoal
<1> QED BY <1>3, <1>4, <1>5, <1>6, <1>7, <1>8 DEF Arrives

-----------------------------------------------------------------------------
(* The statements that write. *)

LEMMA DraftIntentKeeps ==
  ASSUME IInv, NEW r \in Requests, DraftIntent(r)
  PROVE  IInv'
<1>1. PICK i \in Intents :
        /\ Fresh(i) /\ NewIntent(i)
        /\ drafts' = IF proc[r].op = "goal" THEN drafts \cup {i} ELSE drafts
        /\ proc' = [proc EXCEPT ![r].ref = IntentRef(i),
                      ![r].pc = IF proc[r].op = "goal" THEN "mark" ELSE "charge"]
  BY DEF DraftIntent
<1> DEFINE p == [proc[r] EXCEPT !.ref = IntentRef(i),
                   !.pc = IF proc[r].op = "goal" THEN "mark" ELSE "charge"]
<1>2. proc' = [proc EXCEPT ![r] = p]
  BY <1>1 DEF IInv, TypeOK
<1>3. p \in Locals /\ p.ref = IntentRef(i) /\ p.op = proc[r].op
      /\ p.pc \in {"mark", "charge"}
  <2>1. proc[r] \in Locals /\ IntentRef(i) \in Refs
    BY RefKinds, OfRequest
  <2>2. \A at \in {"mark", "charge"} :
          /\ [proc[r] EXCEPT !.ref = IntentRef(i), !.pc = at] \in Locals
          /\ [proc[r] EXCEPT !.ref = IntentRef(i), !.pc = at].pc = at
    BY <2>1 DEF Locals, PCs
  <2>3. p.ref = IntentRef(i) /\ p.op = proc[r].op
    BY <2>1 DEF Locals
  <2> QED BY <2>2, <2>3
<1>4. proc[r].op \in {"checkout", "goal"}
  BY OfRequest DEF DraftIntent, At, Kinds
<1> HIDE DEF p
<1>5. Kinds(p) /\ ~HasSession(p)
  BY <1>3, <1>4, RefKinds DEF Kinds, HasSession, Booking
<1>6. Relies(p, intents', sessions', revenue', deliveries')
  BY <1>3, <1>4, <1>5 DEF Relies
<1>7. SharedOK'
  BY <1>1 DEF DraftIntent, NewIntent, IInv, TypeOK, SharedOK
<1>8. \A j \in Intents : Decided(intents, j) => Decided(intents', j)
  BY <1>1 DEF Fresh, NewIntent, Decided, IInv, TypeOK
<1>9. Grow /\ SessionsKept(r)
  <2>1. \A ref \in Refs : revenue[ref] \in Nat
    BY DEF IInv, TypeOK
  <2>2. Len(deliveries) \in Nat
    BY LenProperties DEF IInv, TypeOK
  <2>3. task = "done" => \E j \in drafts : revenue[IntentRef(j)] > 0
    BY DEF IInv, DoneMeansBooked
  <2>4. drafts \subseteq drafts'
    BY <1>1
  <2> QED BY <1>8, <2>1, <2>2, <2>3, <2>4 DEF DraftIntent, Grow, SessionsKept
<1> QED BY <1>2, <1>3, <1>5, <1>6, <1>7, <1>9, Preserve

\* A write of the quote alone, or of the task alone.
LEMMA QuoteOrTaskGrows ==
  ASSUME IInv, NEW r \in Requests,
         UNCHANGED <<intents, drafts, revenue, leads, deliveries, sessions>>,
         quote'.state = "paid" => quote.state = "paid" \/ Reported(sessions),
         task' = "done" =>
           task = "done" \/ \E i \in drafts : revenue[IntentRef(i)] > 0
  PROVE  Grow /\ SessionsKept(r)
<1>1. \A ref \in Refs : revenue[ref] \in Nat
  BY DEF IInv, TypeOK
<1>2. Len(deliveries) \in Nat
  BY LenProperties DEF IInv, TypeOK
<1> QED BY <1>1, <1>2 DEF Grow, SessionsKept

LEMMA ChargeQuoteKeeps ==
  ASSUME IInv, NEW r \in Requests, ChargeQuote(r)
  PROVE  IInv'
<1>1. PICK p \in Locals :
        /\ proc' = [proc EXCEPT ![r] = p] /\ p.pc = "tail"
        /\ p.action = "quote.checkout" /\ p.op = proc[r].op /\ p.ref = proc[r].ref
  BY RecordMoves DEF ChargeQuote, Actions
<1>2. proc[r].op \in {"checkout", "goal"} /\ proc[r].ref[2] \in Intents
  BY RefKinds, OfRequest DEF ChargeQuote, At, Kinds
<1>3. Kinds(p) /\ ~HasSession(p)
  BY <1>1, <1>2 DEF Kinds, HasSession, Booking, Actions
<1>4. Relies(p, intents', sessions', revenue', deliveries')
  BY <1>1, <1>2, <1>3 DEF Relies
<1>5. SharedOK'
  BY <1>2 DEF ChargeQuote, IInv, TypeOK, SharedOK
<1>6. quote'.state = "charged"
  BY DEF ChargeQuote, IInv, TypeOK
<1>7. Grow /\ SessionsKept(r)
  BY <1>6, QuoteOrTaskGrows DEF ChargeQuote
<1> QED BY <1>1, <1>3, <1>4, <1>5, <1>7, Preserve

LEMMA StoreSessionKeeps ==
  ASSUME IInv, NEW r \in Requests, StoreSession(r)
  PROVE  IInv'
<1>1. PICK p \in Locals :
        /\ proc' = [proc EXCEPT ![r] = p] /\ p.pc = "tail"
        /\ p.action = "quote.checkout_session"
        /\ p.op = proc[r].op /\ p.ref = proc[r].ref
  BY RecordMoves DEF StoreSession, Actions
<1>2. /\ proc[r].op = "stripe" /\ HasSession(proc[r])
      /\ proc[r].ref \in SessionRefs /\ proc[r].ref[2] \in Sessions
      /\ sessions[proc[r].ref[2]] = "created"
  BY RefKinds, OfRequest DEF StoreSession, At, Kinds, Relies, HasSession
<1>3. Kinds(p)
  BY <1>1, <1>2 DEF Kinds, Booking, Actions
<1>4. Relies(p, intents', sessions', revenue', deliveries')
  BY <1>1, <1>2 DEF Relies, StoreSession
<1>5. SharedOK'
  BY <1>2 DEF StoreSession, IInv, TypeOK, SharedOK
<1>6. quote'.state = quote.state
  BY DEF StoreSession, IInv, TypeOK
<1>7. Grow /\ SessionsKept(r)
  BY <1>6, QuoteOrTaskGrows DEF StoreSession, IInv, DoneMeansBooked
<1> QED BY <1>1, <1>2, <1>3, <1>4, <1>5, <1>7, Preserve

LEMMA PayQuoteKeeps ==
  ASSUME IInv, NEW r \in Requests, PayQuote(r)
  PROVE  IInv'
<1>1. PICK p \in Locals :
        /\ proc' = [proc EXCEPT ![r] = p] /\ p.pc = "book"
        /\ p.op = proc[r].op /\ p.ref = proc[r].ref
  BY GotoMoves DEF PayQuote, PCs
<1>2. proc[r].op = "webhook" /\ Reported(sessions) /\ Kinds(proc[r])
  BY OfRequest DEF PayQuote, At, Kinds, Relies
<1>3. Kinds(p) /\ ~HasSession(p)
  BY <1>1, <1>2 DEF Kinds, HasSession, Booking
<1>4. Relies(p, intents', sessions', revenue', deliveries')
  BY <1>1, <1>2, <1>3 DEF Relies, PayQuote
<1>5. SharedOK'
  BY DEF PayQuote, IInv, TypeOK, SharedOK
<1>6. Grow /\ SessionsKept(r)
  BY <1>2, QuoteOrTaskGrows DEF PayQuote
<1> QED BY <1>1, <1>3, <1>4, <1>5, <1>6, Preserve

LEMMA MarkTaskKeeps ==
  ASSUME IInv, NEW r \in Requests, MarkTask(r)
  PROVE  IInv'
<1>1. SharedOK'
  BY DEF MarkTask, IInv, TypeOK, SharedOK
<1>2. Grow /\ SessionsKept(r)
  BY QuoteOrTaskGrows DEF MarkTask
<1> QED BY <1>1, <1>2, ReturnKeeps DEF MarkTask

LEMMA VerifyDraftTaskKeeps ==
  ASSUME IInv, NEW r \in Requests, VerifyDraftTask(r)
  PROVE  IInv'
<1>1. PICK p \in Locals :
        /\ proc' = [proc EXCEPT ![r] = p] /\ p.pc = "find"
        /\ p.op = proc[r].op /\ p.ref = proc[r].ref
  BY GotoMoves DEF VerifyDraftTask, PCs
<1>2. /\ proc[r].op = "decide" /\ proc[r].ref \in IntentRefs
      /\ Decided(intents, proc[r].ref[2]) /\ revenue[proc[r].ref] > 0
  BY OfRequest DEF VerifyDraftTask, At, Kinds, Relies, Booking
<1>3. Kinds(p) /\ ~HasSession(p)
  BY <1>1, <1>2 DEF Kinds, HasSession, Booking
<1>4. Relies(p, intents', sessions', revenue', deliveries')
  BY <1>1, <1>2, <1>3 DEF Relies, VerifyDraftTask
<1>5. SharedOK'
  BY DEF VerifyDraftTask, IInv, TypeOK, SharedOK
<1>6. task' = "done" => task = "done" \/ \E i \in drafts : revenue[IntentRef(i)] > 0
  BY <1>2, RefKinds DEF VerifyDraftTask
<1>7. Grow /\ SessionsKept(r)
  BY <1>6, QuoteOrTaskGrows DEF VerifyDraftTask
<1> QED BY <1>1, <1>3, <1>4, <1>5, <1>7, Preserve

LEMMA DecideIntentKeeps ==
  ASSUME IInv, NEW r \in Requests, DecideIntent(r)
  PROVE  IInv'
<1>1. /\ proc[r].op = "decide" /\ proc[r].ref \in IntentRefs
      /\ proc[r].ref[2] \in Intents /\ Kinds(proc[r])
  BY RefKinds, OfRequest DEF DecideIntent, At, Kinds
<1>2. Decided(intents', proc[r].ref[2])
  BY <1>1 DEF DecideIntent, Decided, IInv, TypeOK
<1>3. SharedOK'
  BY <1>1 DEF DecideIntent, IInv, TypeOK, SharedOK
<1>4. Grow /\ SessionsKept(r)
  <2>1. \A j \in Intents : Decided(intents, j) => Decided(intents', j)
    BY <1>1 DEF DecideIntent, Decided, IInv, TypeOK
  <2>2. \A ref \in Refs : revenue[ref] \in Nat
    BY DEF IInv, TypeOK
  <2>3. Len(deliveries) \in Nat
    BY LenProperties DEF IInv, TypeOK
  <2>4. UNCHANGED <<quote, drafts, revenue, leads, deliveries, task, sessions>>
    BY DEF DecideIntent
  <2>5. task = "done" => \E i \in drafts : revenue[IntentRef(i)] > 0
    BY DEF IInv, DoneMeansBooked
  <2> QED BY <2>1, <2>2, <2>3, <2>4, <2>5 DEF Grow, SessionsKept
<1>5. ASSUME Goto(r, "book") PROVE IInv'
  <2>1. PICK p \in Locals :
          /\ proc' = [proc EXCEPT ![r] = p] /\ p.pc = "book"
          /\ p.op = proc[r].op /\ p.ref = proc[r].ref
    BY <1>5, GotoMoves DEF PCs
  <2>2. Kinds(p) /\ ~HasSession(p) /\ Relies(p, intents', sessions', revenue', deliveries')
    BY <1>1, <1>2, <2>1 DEF Kinds, Relies, HasSession, Booking
  <2> QED BY <1>3, <1>4, <2>1, <2>2, Preserve
<1>6. ASSUME Record(r, "payment.declined") PROVE IInv'
  <2>1. PICK p \in Locals :
          /\ proc' = [proc EXCEPT ![r] = p] /\ p.pc = "tail"
          /\ p.action = "payment.declined" /\ p.op = proc[r].op /\ p.ref = proc[r].ref
    BY <1>6, RecordMoves DEF Actions
  <2>2. Kinds(p) /\ ~HasSession(p) /\ Relies(p, intents', sessions', revenue', deliveries')
    BY <1>1, <2>1 DEF Kinds, Relies, HasSession, Booking, Actions
  <2> QED BY <1>3, <1>4, <2>1, <2>2, Preserve
<1> QED BY <1>5, <1>6 DEF DecideIntent

LEMMA BookRevenueKeeps ==
  ASSUME IInv, NEW r \in Requests, BookRevenue(r)
  PROVE  IInv'
<1>1. PICK p \in Locals :
        /\ proc' = [proc EXCEPT ![r] = p] /\ p.pc = "lead"
        /\ p.op = proc[r].op /\ p.ref = proc[r].ref
  BY GotoMoves DEF BookRevenue, PCs
<1>2. proc[r].ref \in Refs /\ revenue \in [Refs -> Nat] /\ revenue[proc[r].ref] \in Nat
  BY OfRequest DEF Locals, IInv, TypeOK
<1> DEFINE n == revenue[proc[r].ref] + 1
<1>3. n \in Nat /\ n > revenue[proc[r].ref] /\ n > 0
  BY <1>2
<1>4. revenue' = [revenue EXCEPT ![proc[r].ref] = n]
  BY <1>2 DEF BookRevenue
<1> HIDE DEF n
<1>5. Gated(proc[r].ref, intents, sessions) /\ Kinds(proc[r])
      /\ proc[r].op \in {"decide", "webhook"}
  <2>1. At(r, "book")
    BY DEF BookRevenue
  <2> QED BY <2>1, RefKinds, OfRequest DEF At, Kinds, Relies, Booking, Gated
<1>6. Kinds(p) /\ ~HasSession(p)
  BY <1>1, <1>5 DEF Kinds, HasSession, Booking
<1>7. revenue'[proc[r].ref] = n
  BY <1>2, <1>4
<1>8. Relies(p, intents', sessions', revenue', deliveries')
  <2>1. At(r, "book") /\ UNCHANGED <<intents, sessions>>
    BY DEF BookRevenue
  <2> QED BY <2>1, <1>1, <1>3, <1>6, <1>7, OfRequest DEF At, Relies, Booking
<1>9. SharedOK'
  <2>1. revenue' \in [Refs -> Nat]
    BY <1>2, <1>3, <1>4
  <2> QED BY <2>1 DEF BookRevenue, IInv, TypeOK, SharedOK
<1>10. Grow /\ SessionsKept(r)
  <2>1. \A ref \in Refs : revenue[ref] \in Nat /\ revenue'[ref] \in Nat /\ leads[ref] \in Nat
    BY <1>9 DEF IInv, TypeOK, SharedOK
  <2>2. \A ref \in Refs : ref # proc[r].ref => revenue'[ref] = revenue[ref]
    BY <1>2, <1>4
  <2>3. \A ref \in Refs : revenue'[ref] >= revenue[ref]
    BY <1>3, <1>7, <2>1, <2>2
  <2>4. UNCHANGED <<quote, intents, drafts, leads, deliveries, task, sessions>>
    BY DEF BookRevenue
  <2>5. Len(deliveries) \in Nat
    BY LenProperties DEF IInv, TypeOK
  <2>6. task = "done" => \E i \in drafts : revenue[IntentRef(i)] > 0
    BY DEF IInv, DoneMeansBooked
  <2> QED BY <1>5, <2>2, <2>3, <2>4, <2>5, <2>6 DEF Grow, SessionsKept
<1> QED BY <1>1, <1>6, <1>8, <1>9, <1>10, Preserve

LEMMA AddLeadKeeps ==
  ASSUME IInv, NEW r \in Requests, AddLead(r)
  PROVE  IInv'
<1> DEFINE at == IF proc[r].op = "decide" THEN "verify" ELSE "find"
<1>1. PICK p \in Locals :
        /\ proc' = [proc EXCEPT ![r] = p] /\ p.pc = at
        /\ p.op = proc[r].op /\ p.ref = proc[r].ref
  <2>1. at \in PCs /\ Goto(r, at)
    BY DEF AddLead, PCs
  <2> HIDE DEF at
  <2> QED BY <2>1, GotoMoves
<1>2. proc[r].ref \in Refs /\ leads \in [Refs -> Nat] /\ leads[proc[r].ref] \in Nat
  BY OfRequest DEF Locals, IInv, TypeOK
<1> DEFINE n == leads[proc[r].ref] + 1
<1>3. n \in Nat
  BY <1>2
<1>4. leads' = [leads EXCEPT ![proc[r].ref] = n]
  BY <1>2 DEF AddLead
<1> HIDE DEF n
<1>5. At(r, "lead") /\ UNCHANGED <<quote, intents, drafts, revenue, deliveries, task, sessions>>
  BY DEF AddLead
<1>6. Gated(proc[r].ref, intents, sessions) /\ Kinds(proc[r])
      /\ proc[r].op \in {"decide", "webhook"}
  BY <1>5, RefKinds, OfRequest DEF At, Kinds, Relies, Booking, Gated
<1>7. Kinds(p) /\ ~HasSession(p)
  BY <1>1, <1>6 DEF Kinds, HasSession, Booking
<1>8. Relies(p, intents', sessions', revenue', deliveries')
  BY <1>1, <1>5, <1>7, OfRequest DEF At, Relies, Booking
<1>9. SharedOK'
  <2>1. leads' \in [Refs -> Nat]
    BY <1>2, <1>3, <1>4
  <2> QED BY <2>1 DEF AddLead, IInv, TypeOK, SharedOK
<1>10. Grow /\ SessionsKept(r)
  <2>1. \A ref \in Refs : revenue[ref] \in Nat
    BY DEF IInv, TypeOK
  <2>2. \A ref \in Refs : ref # proc[r].ref => leads'[ref] = leads[ref]
    BY <1>2, <1>4
  <2>3. Len(deliveries) \in Nat
    BY LenProperties DEF IInv, TypeOK
  <2>4. task = "done" => \E i \in drafts : revenue[IntentRef(i)] > 0
    BY DEF IInv, DoneMeansBooked
  <2> QED BY <1>5, <1>6, <2>1, <2>2, <2>3, <2>4 DEF Grow, SessionsKept
<1> QED BY <1>1, <1>7, <1>8, <1>9, <1>10, Preserve

LEMMA InsertDeliveryKeeps ==
  ASSUME IInv, NEW r \in Requests, InsertDelivery(r)
  PROVE  IInv'
<1> DEFINE row == [ref |-> proc[r].ref, state |-> "pending"]
<1>1. /\ Len(deliveries) \in Nat /\ proc[r].ref \in Refs
      /\ deliveries \in Seq([ref : Refs, state : {"pending", "delivered"}])
  BY OfRequest, LenProperties DEF Locals, IInv, TypeOK
<1>2. /\ deliveries' \in Seq([ref : Refs, state : {"pending", "delivered"}])
      /\ Len(deliveries') = Len(deliveries) + 1
      /\ deliveries'[Len(deliveries) + 1] = row
      /\ \A d \in 1..Len(deliveries) : deliveries'[d] = deliveries[d]
  <2>1. row \in [ref : Refs, state : {"pending", "delivered"}]
    BY <1>1
  <2>2. deliveries' = Append(deliveries, row)
    BY DEF InsertDelivery
  <2> HIDE DEF row
  <2> QED BY <1>1, <2>1, <2>2, AppendProperties
<1>3. PICK d \in Nat : d = Len(deliveries) + 1
  BY <1>1
<1>4. PICK p \in Locals :
        /\ proc' = [proc EXCEPT ![r] = p]
        /\ p.op = proc[r].op /\ p.ref = proc[r].ref /\ p.del = d
        /\ \/ p.op = "decide" /\ p.pc = "tail" /\ p.action = "payment.approved"
           \/ p.op # "decide" /\ p.pc = "delivered?" /\ p.action = proc[r].action
  BY <1>3, HasDeliveryMoves DEF InsertDelivery
<1>5. At(r, "insert") /\ UNCHANGED <<quote, intents, drafts, revenue, leads, task, sessions>>
  BY DEF InsertDelivery
<1>6. Gated(proc[r].ref, intents, sessions) /\ Kinds(proc[r])
      /\ proc[r].op \in {"decide", "webhook"}
  BY <1>5, RefKinds, OfRequest DEF At, Kinds, Relies, Booking, Gated
<1>7. Kinds(p) /\ ~HasSession(p)
  BY <1>4, <1>6 DEF Kinds, HasSession, Booking, Actions
<1>8. Relies(p, intents', sessions', revenue', deliveries')
  BY <1>2, <1>3, <1>4, <1>5, <1>7, OfRequest DEF At, Relies, Booking
<1>9. SharedOK'
  BY <1>2 DEF InsertDelivery, IInv, TypeOK, SharedOK
<1>10. Grow /\ SessionsKept(r)
  <2>1. \A ref \in Refs : revenue[ref] \in Nat
    BY DEF IInv, TypeOK
  <2>2. \A e \in 1..Len(deliveries') :
          \/ e \in 1..Len(deliveries) /\ deliveries'[e].ref = deliveries[e].ref
          \/ Gated(deliveries'[e].ref, intents, sessions)
    <3>1. \A e \in 1..Len(deliveries') :
            e \in 1..Len(deliveries) \/ e = Len(deliveries) + 1
      BY <1>1, <1>2
    <3> QED BY <1>2, <1>6, <3>1
  <2>3. task = "done" => \E i \in drafts : revenue[IntentRef(i)] > 0
    BY DEF IInv, DoneMeansBooked
  <2>4. Len(deliveries') >= Len(deliveries)
    BY <1>1, <1>2
  <2> QED BY <1>5, <2>1, <2>2, <2>3, <2>4 DEF Grow, SessionsKept
<1> QED BY <1>4, <1>7, <1>8, <1>9, <1>10, Preserve

LEMMA HandOverKeeps ==
  ASSUME IInv, NEW r \in Requests, HandOver(r)
  PROVE  IInv'
<1>1. PICK p \in Locals :
        /\ proc' = [proc EXCEPT ![r] = p] /\ p.pc = "tail"
        /\ p.action = "delivery.fulfilled" /\ p.op = proc[r].op
        /\ p.ref = proc[r].ref
  BY RecordMoves DEF HandOver, Actions
<1>2. PICK d : d = proc[r].del
  OBVIOUS
<1>3. /\ At(r, "hand") /\ UNCHANGED <<quote, intents, drafts, revenue, leads, task, sessions>>
      /\ deliveries' = [deliveries EXCEPT ![d].state = "delivered"]
  BY <1>2 DEF HandOver
<1>4. d \in 1..Len(deliveries) /\ Kinds(proc[r])
  BY <1>2, <1>3, OfRequest DEF At, Relies
<1>5. deliveries \in Seq([ref : Refs, state : {"pending", "delivered"}])
  BY DEF IInv, TypeOK
<1>6. /\ deliveries' \in Seq([ref : Refs, state : {"pending", "delivered"}])
      /\ Len(deliveries') = Len(deliveries)
      /\ \A e \in 1..Len(deliveries) : deliveries'[e].ref = deliveries[e].ref
  <2> DEFINE row == [deliveries[d] EXCEPT !.state = "delivered"]
  <2>1. deliveries[d] \in [ref : Refs, state : {"pending", "delivered"}]
    BY <1>4, <1>5, ElementOfSeq
  <2>2. /\ row \in [ref : Refs, state : {"pending", "delivered"}]
        /\ row.ref = deliveries[d].ref
    BY <2>1
  <2>3. deliveries' = [deliveries EXCEPT ![d] = row]
    BY <1>3
  <2> HIDE DEF row
  <2> QED BY <1>4, <1>5, <2>2, <2>3, ExceptSeq
<1>7. Kinds(p) /\ (HasSession(p) => FALSE)
  <2>1. p.op # "stripe"
    BY <1>1, <1>3, OfRequest DEF At, Kinds
  <2> QED BY <1>1, <1>4, <2>1 DEF Kinds, HasSession, Booking, Actions
<1>8. Relies(p, intents', sessions', revenue', deliveries')
  BY <1>1, <1>3, <1>7, OfRequest DEF Relies, Booking
<1>9. SharedOK'
  BY <1>6 DEF HandOver, IInv, TypeOK, SharedOK
<1>10. Grow /\ SessionsKept(r)
  <2>1. \A ref \in Refs : revenue[ref] \in Nat
    BY DEF IInv, TypeOK
  <2>2. Len(deliveries) \in Nat
    BY <1>5, LenProperties
  <2>3. task = "done" => \E i \in drafts : revenue[IntentRef(i)] > 0
    BY DEF IInv, DoneMeansBooked
  <2> QED BY <1>3, <1>6, <2>1, <2>2, <2>3 DEF Grow, SessionsKept
<1> QED BY <1>1, <1>7, <1>8, <1>9, <1>10, Preserve

-----------------------------------------------------------------------------
(* Checkout sessions and the end of a record. *)

LEMMA CreateSessionKeeps ==
  ASSUME IInv, NEW r \in Requests, CreateSession(r)
  PROVE  IInv'
<1>1. PICK s \in Sessions :
        /\ sessions[s] = "none"
        /\ sessions' = [sessions EXCEPT ![s] = "created"]
        /\ proc' = [proc EXCEPT ![r].ref = SessionRef(s), ![r].pc = "store"]
  BY DEF CreateSession
<1> DEFINE p == [proc[r] EXCEPT !.ref = SessionRef(s), !.pc = "store"]
<1>2. proc' = [proc EXCEPT ![r] = p]
  BY <1>1 DEF IInv, TypeOK
<1>3. p \in Locals /\ p.ref = SessionRef(s) /\ p.op = proc[r].op /\ p.pc = "store"
  BY RefKinds, OfRequest DEF Locals, PCs
<1> HIDE DEF p
<1>4. proc[r].op = "stripe"
  BY OfRequest DEF CreateSession, At, Kinds
<1>5. p.ref \in SessionRefs /\ p.ref[2] = s
  BY <1>3, RefKinds DEF SessionRef
<1>6. Kinds(p)
  BY <1>3, <1>4, <1>5 DEF Kinds, Booking
<1>7. /\ sessions' \in [Sessions -> {"none", "created", "open", "paid", "reported"}]
      /\ sessions'[s] = "created" /\ SessionsKept(r)
      /\ Reported(sessions) => Reported(sessions')
  BY <1>1 DEF IInv, TypeOK, SessionsKept, Reported
<1>8. Relies(p, intents', sessions', revenue', deliveries')
  BY <1>3, <1>4, <1>5, <1>7 DEF Relies, HasSession
<1>9. SharedOK'
  BY <1>7 DEF CreateSession, dbVars, IInv, TypeOK, SharedOK
<1>10. Grow
  BY <1>7, SameGrows DEF CreateSession
<1> QED BY <1>1, <1>2, <1>3, <1>5, <1>6, <1>7, <1>8, <1>9, <1>10, Preserve

LEMMA RecordedKeeps ==
  ASSUME IInv, NEW r \in Requests, At(r, "tail") \/ At(r, "link"), Recorded(r),
         UNCHANGED <<dbVars, left>>, faults' \in 0..MaxFaults
  PROVE  IInv'
<1>1. ASSUME proc[r].op = "stripe"
      PROVE  /\ sessions' \in [Sessions -> {"none", "created", "open", "paid", "reported"}]
             /\ SessionsKept(r) /\ (Reported(sessions) => Reported(sessions'))
  <2>1. HasSession(proc[r])
    BY <1>1 DEF HasSession, At
  <2>2. PICK s \in Sessions : proc[r].ref = SessionRef(s) /\ proc[r].ref[2] = s
    BY <2>1, OfRequest, RefKinds DEF Kinds
  <2>3. sessions[s] = "created" /\ sessions' = [sessions EXCEPT ![s] = "open"]
    BY <1>1, <2>1, <2>2, OfRequest DEF Relies, Recorded
  <2> QED BY <2>1, <2>2, <2>3 DEF IInv, TypeOK, SessionsKept, Reported
<1>2. ASSUME proc[r].op # "stripe" PROVE UNCHANGED sessions
  BY <1>2 DEF Recorded
<1>3. /\ sessions' \in [Sessions -> {"none", "created", "open", "paid", "reported"}]
      /\ SessionsKept(r) /\ (Reported(sessions) => Reported(sessions'))
  BY <1>1, <1>2 DEF IInv, TypeOK, SessionsKept
<1>4. SharedOK'
  BY <1>3 DEF dbVars, IInv, TypeOK, SharedOK
<1>5. Grow
  BY <1>3, SameGrows
<1>6. Return(r) => IInv'
  BY <1>3, <1>4, <1>5, ReturnKeeps
<1>7. ASSUME proc[r].op = "webhook", Record(r, "quote.paid") PROVE IInv'
  <2>1. PICK p \in Locals :
          /\ proc' = [proc EXCEPT ![r] = p] /\ p.pc = "tail"
          /\ p.action = "quote.paid" /\ p.op = proc[r].op /\ p.ref = proc[r].ref
    BY <1>7, RecordMoves DEF Actions
  <2>2. Kinds(p) /\ ~HasSession(p)
    BY <1>7, <2>1, OfRequest DEF Kinds, HasSession, Booking, Actions
  <2>3. Relies(p, intents', sessions', revenue', deliveries')
    BY <1>3, <1>7, <2>1, <2>2, OfRequest DEF Relies, Booking
  <2> QED BY <1>3, <1>4, <1>5, <2>1, <2>2, <2>3, Preserve
<1> QED BY <1>6, <1>7 DEF Recorded

LEMMA RecordFailsKeeps ==
  ASSUME IInv, NEW r \in Requests, RecordFails(r)
  PROVE  IInv'
<1>1. faults' \in 0..MaxFaults
  BY BoundsAssumption DEF RecordFails, IInv, TypeOK
<1> QED BY <1>1, RecordedKeeps DEF RecordFails

LEMMA InsertLinkKeeps ==
  ASSUME IInv, NEW r \in Requests, InsertLink(r)
  PROVE  IInv'
<1>1. faults' \in 0..MaxFaults
  BY DEF InsertLink, IInv, TypeOK
<1> QED BY <1>1, RecordedKeeps DEF InsertLink

\* A step of nobody's request that only moves a session the customer has.
LEMMA CustomerPaysKeeps ==
  ASSUME IInv, CustomerPays
  PROVE  IInv'
<1>1. PICK s \in Sessions :
        sessions[s] = "open" /\ sessions' = [sessions EXCEPT ![s] = "paid"]
  BY DEF CustomerPays
<1>2. /\ UNCHANGED dbVars /\ UNCHANGED proc /\ UNCHANGED left /\ UNCHANGED faults
  BY DEF CustomerPays
<1>3. /\ sessions' \in [Sessions -> {"none", "created", "open", "paid", "reported"}]
      /\ Reported(sessions) => Reported(sessions')
      /\ \A t \in Sessions : sessions[t] = "created" => sessions'[t] = "created"
  BY <1>1 DEF IInv, TypeOK, Reported
<1>4. TypeOK'
  BY <1>2, <1>3 DEF dbVars, IInv, TypeOK
<1>5. RequestsOK'
  <2> SUFFICES ASSUME NEW q \in Requests
               PROVE  Kinds(proc[q]) /\ Relies(proc[q], intents, sessions', revenue, deliveries)
    BY <1>2 DEF RequestsOK, dbVars
  <2>1. HasSession(proc[q]) => proc[q].ref[2] \in Sessions
    BY OfRequest, RefKinds DEF Kinds
  <2> QED BY <1>3, <2>1, OfRequest DEF Relies
<1>6. OwnSession'
  BY <1>2 DEF IInv, OwnSession
<1>7. Grow
  BY <1>2, <1>3, SameGrows
<1>8. BookingsGated'
  <2>1. \A d \in 1..Len(deliveries) : deliveries[d].ref \in Refs
    BY RowType DEF IInv, TypeOK
  <2>2. \A ref \in Refs : Gated(ref, intents, sessions) => Gated(ref, intents', sessions')
    BY <1>7, GateStays
  <2> QED BY <1>2, <1>3, <2>1, <2>2 DEF IInv, BookingsGated, dbVars
<1>9. DoneMeansBooked'
  BY <1>2 DEF IInv, DoneMeansBooked, dbVars
<1> QED BY <1>4, <1>5, <1>6, <1>8, <1>9 DEF IInv

-----------------------------------------------------------------------------
(* The invariant. *)

LEMMA InitIInv == Init => IInv
<1> SUFFICES ASSUME Init PROVE IInv
  OBVIOUS
<1> USE RefKinds
<1>1. /\ \A r \in Requests : proc[r] = Idle
      /\ proc = [r \in Requests |-> Idle]
  BY DEF Init
<1>2. Idle \in Locals
  BY DEF Idle, Locals, PCs
<1>3. deliveries \in Seq([ref : Refs, state : {"pending", "delivered"}])
      /\ Len(deliveries) = 0
  BY DEF Init
<1>4. TypeOK
  BY <1>1, <1>2, <1>3, BoundsAssumption DEF Init, TypeOK
<1>5. RequestsOK /\ OwnSession
  BY <1>1 DEF RequestsOK, OwnSession, Kinds, Relies, HasSession, Booking, Idle
<1>6. BookingsGated
  BY <1>3 DEF Init, BookingsGated
<1>7. DoneMeansBooked
  BY DEF Init, DoneMeansBooked
<1> QED BY <1>4, <1>5, <1>6, <1>7 DEF IInv

LEMMA StepKeeps ==
  ASSUME IInv, NEW r \in Requests, Step(r)
  PROVE  IInv'
BY ReadForCheckoutKeeps, ReadTaskKeeps, DraftIntentKeeps, ChargeQuoteKeeps,
   MarkTaskKeeps, ReadForStripeKeeps, CreateSessionKeeps, StoreSessionKeeps,
   ReadPaidKeeps, PayQuoteKeeps, ReadPendingKeeps, DecideIntentKeeps,
   BookRevenueKeeps, AddLeadKeeps, VerifyDraftTaskKeeps, FindDeliveryKeeps,
   InsertDeliveryKeeps, ReadDeliveredKeeps, HandOverKeeps, ReadTailKeeps,
   InsertLinkKeeps DEF Step

LEMMA NextKeeps == IInv /\ [Next]_vars => IInv'
<1> SUFFICES ASSUME IInv, [Next]_vars PROVE IInv'
  OBVIOUS
<1>1. CASE UNCHANGED vars
  BY <1>1 DEF vars, dbVars, chainVars, IInv, TypeOK, RequestsOK, OwnSession,
              BookingsGated, DoneMeansBooked
<1>2. ASSUME NEW r \in Requests, Arrives(r) \/ Step(r) \/ RecordFails(r) \/ Abort(r)
      PROVE  IInv'
  BY <1>2, ArrivesKeeps, StepKeeps, RecordFailsKeeps, AbortKeeps
<1> QED BY <1>1, <1>2, CustomerPaysKeeps DEF Next

\* The invariant holds in every run: what a request found stays true however
\* late it acts on it.
THEOREM InvariantHolds == Spec => []IInv
BY InitIInv, NextKeeps, PTL DEF Spec

\* Every id refers to a row that exists, and the rows have their types.
THEOREM TypeCorrect == Spec => []TypeOK
<1>1. IInv => TypeOK
  BY DEF IInv
<1> QED BY <1>1, InvariantHolds, PTL

\* A goal task is done only when money it asked for was booked
\* (actions.ts:126, businesses.ts:85): approvals and drafts in any order.
THEOREM DoneMeansBookedHolds == Spec => []DoneMeansBooked
<1>1. IInv => DoneMeansBooked
  BY DEF IInv
<1> QED BY <1>1, InvariantHolds, PTL

LEMMA BookedIsGated ==
  ASSUME IInv, NEW ref \in Refs, Booked(ref)
  PROVE  Gated(ref, intents, sessions)
<1>1. CASE revenue[ref] + leads[ref] > 0
  BY <1>1 DEF IInv, BookingsGated
<1>2. CASE DeliveriesOf(ref) # {}
  <2>1. PICK d \in 1..Len(deliveries) : deliveries[d].ref = ref
    BY <1>2, LenProperties DEF DeliveriesOf, IInv, TypeOK
  <2> QED BY <2>1 DEF IInv, BookingsGated
<1> QED BY <1>1, <1>2 DEF Booked

\* Nothing is booked for an intent nobody decided, nor for the Stripe path
\* before Stripe reported a payment (businesses.ts:72-74, stripe-checkout.ts:10-14).
THEOREM UndecidedBooksNothingHolds == Spec => []UndecidedBooksNothing
<1>1. ASSUME IInv PROVE UndecidedBooksNothing
  <2> USE <1>1, RefKinds
  <2>1. ASSUME NEW i \in Intents, intents[i] \in {"none", "pending"}
        PROVE  ~Booked(IntentRef(i))
    BY <2>1, BookedIsGated DEF Gated, Decided, IntentRef
  <2>2. ASSUME \A s \in Sessions : sessions[s] \notin {"paid", "reported"}
        PROVE  /\ \A s \in Sessions : ~Booked(SessionRef(s))
               /\ ~Booked(Quote) /\ quote.state # "paid"
    <3>1. ~Reported(sessions)
      BY <2>2 DEF Reported
    <3>2. ~Booked(Quote)
      BY <3>1, BookedIsGated DEF Gated
    <3>3. \A s \in Sessions : ~Booked(SessionRef(s))
      BY <3>1, BookedIsGated DEF Gated
    <3> QED BY <3>1, <3>2, <3>3 DEF IInv, BookingsGated
  <2> QED BY <2>1, <2>2 DEF UndecidedBooksNothing
<1> QED BY <1>1, InvariantHolds, PTL

-----------------------------------------------------------------------------
(* The audit chain. *)

\* The chain alone is not inductive: what keeps it whole is that every writer holds
\* a row of the chain, however old.  The successor of an old row exists already and
\* the insert does nothing; the successor of the last row is missing and the insert
\* links to it.
TailIsRow ==
  /\ tail = [w \in Requests |-> tail[w]]
  /\ \A w \in Requests :
       \/ tail[w] = Chain!NoTail
       \/ \E r \in audit : tail[w] = [seq |-> r.seq, hash |-> r.hash]

ChainInv == Chain!ChainVerifies /\ TailIsRow

\* A select changes nothing and returns a row.
LEMMA ReadKeepsChain ==
  ASSUME NEW w \in Requests, ChainInv, Chain!ReadTail(w)
  PROVE  ChainInv'
<1>1. Chain!ChainVerifies'
  BY DEF ChainInv, Chain!ReadTail, Chain!ChainVerifies, Chain!verifyChain, Chain!Follows
<1>2. TailIsRow'
  BY DEF ChainInv, Chain!ReadTail, TailIsRow
<1> QED BY <1>1, <1>2 DEF ChainInv

\* An insert either changes nothing or adds the successor of the last row.
LEMMA InsertKeepsChain ==
  ASSUME NEW w \in Requests, NEW entry, ChainInv, Chain!InsertLink(w, entry)
  PROVE  ChainInv'
<1> DEFINE new == Chain!Link(w, entry)
<1>1. new.seq = tail[w].seq + 1 /\ new.prevHash = tail[w].hash
      /\ new.hash = Chain!hashEntry(new.seq, new.prevHash, new.entry)
  BY DEF Chain!Link
<1>2. \/ tail[w].seq = -1 /\ tail[w].hash = Chain!NoHash
      \/ \E r \in audit : tail[w].seq = r.seq /\ tail[w].hash = r.hash
  BY DEF ChainInv, TailIsRow, Chain!NoTail
<1>3. \/ audit' = audit
      \/ audit' = audit \cup {new} /\ \A r \in audit : r.seq # new.seq
  BY DEF Chain!InsertLink, Chain!Insert
<1>4. TailIsRow'
  BY <1>3 DEF ChainInv, TailIsRow, Chain!InsertLink
<1>5. new.seq \in Nat /\ IF new.seq = 0 THEN new.prevHash = Chain!NoHash
                         ELSE \E p \in audit : Chain!Follows(new, p)
  BY <1>1, <1>2 DEF ChainInv, Chain!ChainVerifies, Chain!verifyChain, Chain!Follows
<1> HIDE DEF new
<1>6. Chain!ChainVerifies'
  <2>1. CASE audit' = audit
    BY <2>1 DEF ChainInv, Chain!ChainVerifies, Chain!verifyChain, Chain!Follows
  <2>2. CASE audit' = audit \cup {new} /\ \A r \in audit : r.seq # new.seq
    <3>1. (\A r, s \in audit : r.seq = s.seq => r = s)'
      BY <2>2 DEF ChainInv, Chain!ChainVerifies, Chain!verifyChain
    <3>2. ASSUME NEW r \in audit'
          PROVE  /\ r.seq \in Nat
                 /\ r.hash = Chain!hashEntry(r.seq, r.prevHash, r.entry)
                 /\ IF r.seq = 0 THEN r.prevHash = Chain!NoHash
                    ELSE \E p \in audit' : Chain!Follows(r, p)
      BY <1>1, <1>5, <2>2, <3>2 DEF ChainInv, Chain!ChainVerifies, Chain!verifyChain
    <3> QED BY <3>1, <3>2 DEF Chain!ChainVerifies, Chain!verifyChain, Chain!Follows
  <2> QED BY <1>3, <2>1, <2>2
<1> QED BY <1>4, <1>6 DEF ChainInv

\* However many writers append at once, the chain verifies: no interleaving of their
\* selects and inserts forks it or leaves a gap (audit-log.ts, append and verifyChain).
THEOREM ChainVerifiesHolds == Chain!Spec => []Chain!ChainVerifies
<1>1. Chain!Init => ChainInv
  BY DEF Chain!Init, ChainInv, Chain!ChainVerifies, Chain!verifyChain, TailIsRow
<1>2. ChainInv /\ [Chain!Next]_(Chain!chainVars) => ChainInv'
  <2>1. CASE UNCHANGED Chain!chainVars
    BY <2>1 DEF Chain!chainVars, ChainInv, Chain!ChainVerifies, Chain!verifyChain,
                Chain!Follows, TailIsRow
  <2>2. CASE Chain!Next
    BY <2>2, ReadKeepsChain, InsertKeepsChain DEF Chain!Next
  <2> QED BY <2>1, <2>2
<1>3. ChainInv => Chain!ChainVerifies
  BY DEF ChainInv
<1> QED BY <1>1, <1>2, <1>3, PTL DEF Chain!Spec

\* Every step of the money path is a step of the audit chain or leaves it alone.
LEMMA ChainStep == IInv /\ [Next]_vars => [Chain!Next]_(Chain!chainVars)
<1> SUFFICES ASSUME IInv, [Next]_vars, ~UNCHANGED chainVars PROVE Chain!Next
  BY DEF chainVars, Chain!chainVars
<1>1. ASSUME NEW r \in Requests, Arrives(r) PROVE UNCHANGED chainVars
  <2>1. ASSUME NEW op, NEW pc, NEW ref, NEW approve, NEW del,
               Arrive(r, op, pc, ref, approve, del)
        PROVE  UNCHANGED chainVars
    BY <2>1 DEF Arrive
  <2> QED BY <1>1, <2>1 DEF Arrives, ArriveCheckout, ArriveStripe, ArriveWebhook,
                            ArriveDecide, ArriveFulfil, ArriveGoal
<1>2. ASSUME NEW r \in Requests, Step(r)
      PROVE  ReadTail(r) \/ InsertLink(r) \/ UNCHANGED chainVars
  BY <1>2 DEF Step, ReadForCheckout, ReadTask, DraftIntent, ChargeQuote, MarkTask,
         ReadForStripe, CreateSession, StoreSession, ReadPaid, PayQuote, ReadPending,
         DecideIntent, BookRevenue, AddLead, VerifyDraftTask, FindDelivery,
         InsertDelivery, ReadDelivered, HandOver
<1>3. ASSUME NEW r \in Requests, RecordFails(r) \/ Abort(r) PROVE UNCHANGED chainVars
  BY <1>3 DEF RecordFails, Abort
<1>4. CustomerPays => UNCHANGED chainVars
  BY DEF CustomerPays
<1>5. PICK r \in Requests : ReadTail(r) \/ InsertLink(r)
  BY <1>1, <1>2, <1>3, <1>4 DEF Next, vars
<1>6. CASE ReadTail(r)
  BY <1>6 DEF ReadTail, Chain!Next
<1>7. CASE InsertLink(r)
  <2>1. <<proc[r].action, proc[r].ref>> \in Actions \X Refs
    BY <1>7, OfRequest DEF InsertLink, At, Kinds, Locals
  <2> QED BY <1>7, <2>1 DEF InsertLink, Chain!Next
<1> QED BY <1>5, <1>6, <1>7

\* Whatever requests do, the audit log behaves as AuditChain says
\* (audit-log.ts, append).
THEOREM AuditImplementsChainHolds == Spec => AuditImplementsChain
<1>1. Init => Chain!Init
  BY DEF Init
<1> QED BY <1>1, ChainStep, InvariantHolds, PTL DEF Spec, AuditImplementsChain, Chain!Spec

\* The audit chain verifies, whatever requests interleave, die or fail to record
\* (audit-log.ts, verifyChain).
THEOREM AuditVerifiesHolds == Spec => []AuditVerifies
<1>1. Chain!ChainVerifies => AuditVerifies
  BY DEF AuditVerifies
<1>2. Spec => Chain!Spec
  BY AuditImplementsChainHolds DEF AuditImplementsChain
<1> QED BY <1>1, <1>2, ChainVerifiesHolds, PTL

-----------------------------------------------------------------------------
(* An approval takes effect.  ApprovalTakesEffect speaks of the moment when
   nobody is at work on an intent any more.  Until then the approving request
   is on its way through the bookings, and what is left for it to book follows
   from its place.  Another admin may overwrite the decision meanwhile, and
   that stops nobody: an approved intent has its bookings or somebody who is
   making them. *)

AtWork(p, ref) == p.op = "decide" /\ p.ref = ref /\ p.pc \in Booking
Aside(p) == p.op = "decide" => p.pc \notin Booking

\* What a deciding request has booked when it is where it is.
Progress(p, rev, ls) ==
  p.op = "decide" =>
    /\ p.pc \in {"lead", "verify", "find", "insert"} => rev[p.ref] > 0
    /\ p.pc \in {"verify", "find", "insert"} => ls[p.ref] > 0

Complete(ref, rev, ls, ds) ==
  rev[ref] > 0 /\ ls[ref] > 0 /\ \E d \in 1..Len(ds) : ds[d].ref = ref

Effective ==
  /\ \A r \in Requests : Progress(proc[r], revenue, leads)
  /\ faults = 0 => \A i \in Intents : intents[i] = "approved" =>
       \/ Complete(IntentRef(i), revenue, leads, deliveries)
       \/ \E r \in Requests : AtWork(proc[r], IntentRef(i))

\* Nothing that was booked is taken back, and no dead request comes back.
BooksGrow ==
  /\ \A ref \in Refs : revenue'[ref] >= revenue[ref] /\ leads'[ref] >= leads[ref]
  /\ \A d \in 1..Len(deliveries) :
       d \in 1..Len(deliveries') /\ deliveries'[d].ref = deliveries[d].ref
  /\ faults' = 0 => faults = 0

LEMMA EffectKeeps ==
  ASSUME IInv, IInv', Effective, BooksGrow, NEW r \in Requests, NEW p,
         proc' = [proc EXCEPT ![r] = p], Progress(p, revenue', leads'),
         \A i \in Intents : intents'[i] = "approved" =>
           intents[i] = "approved" \/ AtWork(p, IntentRef(i)),
         \A i \in Intents : faults' = 0 /\ AtWork(proc[r], IntentRef(i)) =>
           \/ AtWork(p, IntentRef(i))
           \/ Complete(IntentRef(i), revenue', leads', deliveries')
  PROVE  Effective'
<1> USE RefKinds
<1>1. /\ proc \in [Requests -> Locals] /\ proc'[r] = p
      /\ \A q \in Requests : q # r => proc'[q] = proc[q]
  BY DEF IInv, TypeOK
<1>2. \A ref \in Refs : /\ revenue[ref] \in Nat /\ revenue'[ref] \in Nat
                        /\ leads[ref] \in Nat /\ leads'[ref] \in Nat
  BY DEF IInv, TypeOK
<1>3. \A ref \in Refs : /\ revenue[ref] > 0 => revenue'[ref] > 0
                        /\ leads[ref] > 0 => leads'[ref] > 0
  BY <1>2 DEF BooksGrow
<1>4. \A q \in Requests : Progress(proc'[q], revenue', leads')
  <2> SUFFICES ASSUME NEW q \in Requests, q # r
               PROVE  Progress(proc[q], revenue', leads')
    BY <1>1
  <2>1. proc[q].ref \in Refs
    BY <1>1 DEF Locals
  <2>2. Progress(proc[q], revenue, leads)
    BY DEF Effective
  <2> QED BY <1>3, <2>1, <2>2 DEF Progress
<1>5. ASSUME faults' = 0, NEW i \in Intents, intents'[i] = "approved"
      PROVE  \/ Complete(IntentRef(i), revenue', leads', deliveries')
             \/ \E q \in Requests : AtWork(proc'[q], IntentRef(i))
  <2>1. CASE AtWork(p, IntentRef(i))
    BY <1>1, <2>1
  <2>2. CASE intents[i] = "approved" /\ ~AtWork(p, IntentRef(i))
    <3>1. \/ Complete(IntentRef(i), revenue, leads, deliveries)
          \/ \E q \in Requests : AtWork(proc[q], IntentRef(i))
      BY <1>5, <2>2 DEF Effective, BooksGrow
    <3>2. ASSUME Complete(IntentRef(i), revenue, leads, deliveries)
          PROVE  Complete(IntentRef(i), revenue', leads', deliveries')
      <4>1. IntentRef(i) \in Refs
        OBVIOUS
      <4>2. PICK d \in 1..Len(deliveries) : deliveries[d].ref = IntentRef(i)
        BY <3>2 DEF Complete
      <4>3. d \in 1..Len(deliveries') /\ deliveries'[d].ref = IntentRef(i)
        BY <4>2 DEF BooksGrow
      <4> QED BY <1>3, <3>2, <4>1, <4>3 DEF Complete
    <3>3. ASSUME NEW q \in Requests, AtWork(proc[q], IntentRef(i))
          PROVE  \/ Complete(IntentRef(i), revenue', leads', deliveries')
                 \/ AtWork(proc'[q], IntentRef(i))
      BY <1>1, <1>5, <2>2, <3>3
    <3> QED BY <3>1, <3>2, <3>3
  <2> QED BY <1>5, <2>1, <2>2
<1> QED BY <1>4, <1>5 DEF Effective

\* A step of a request that books for no decision, before and after.
LEMMA AsideKeeps ==
  ASSUME IInv, IInv', Effective, BooksGrow, NEW r \in Requests, NEW p,
         proc' = [proc EXCEPT ![r] = p], Aside(proc[r]), Aside(p),
         \A i \in Intents : intents'[i] = "approved" => intents[i] = "approved"
  PROVE  Effective'
<1>1. Progress(p, revenue', leads')
  BY DEF Progress, Aside, Booking
<1>2. \A i \in Intents : ~AtWork(proc[r], IntentRef(i))
  BY DEF AtWork, Aside
<1> QED BY <1>1, <1>2, EffectKeeps

\* The ways to go on that book nothing.
LEMMA AsideMoves ==
  ASSUME IInv, NEW r \in Requests,
         \/ \E at \in PCs \ Booking : Goto(r, at)
         \/ \E a \in Actions : Record(r, a)
         \/ Return(r)
  PROVE  \E p : proc' = [proc EXCEPT ![r] = p] /\ Aside(p)
<1>1. ASSUME NEW at \in PCs \ Booking, Goto(r, at)
      PROVE  \E p : proc' = [proc EXCEPT ![r] = p] /\ Aside(p)
  BY <1>1, GotoMoves DEF Aside
<1>2. ASSUME NEW a \in Actions, Record(r, a)
      PROVE  \E p : proc' = [proc EXCEPT ![r] = p] /\ Aside(p)
  BY <1>2, RecordMoves DEF Aside, Booking
<1>3. ASSUME Return(r)
      PROVE  \E p : proc' = [proc EXCEPT ![r] = p] /\ Aside(p)
  <2>1. Aside(Idle)
    BY DEF Idle, Aside
  <2>2. proc' = [proc EXCEPT ![r] = Idle]
    BY <1>3 DEF Return
  <2> QED BY <2>1, <2>2
<1> QED BY <1>1, <1>2, <1>3

\* Neither revenue, nor leads, nor deliveries changed.
LEMMA SameBooks ==
  ASSUME IInv, UNCHANGED <<revenue, leads, deliveries, faults>>
  PROVE  BooksGrow
<1>1. \A ref \in Refs : revenue[ref] \in Nat /\ leads[ref] \in Nat
  BY DEF IInv, TypeOK
<1> QED BY <1>1 DEF BooksGrow


LEMMA EffectOfReads ==
  ASSUME IInv, IInv', Effective, NEW r \in Requests,
         \/ ReadForCheckout(r) \/ ReadTask(r) \/ ReadForStripe(r) \/ ReadPending(r)
         \/ ReadPaid(r) \/ ReadDelivered(r) \/ ReadTail(r)
  PROVE  Effective'
<1>1. Aside(proc[r])
  BY DEF ReadForCheckout, ReadTask, ReadForStripe, ReadPending, ReadPaid,
         ReadDelivered, ReadTail, At, Aside, Booking
<1>2. UNCHANGED <<dbVars, faults>>
  BY DEF ReadForCheckout, ReadTask, ReadForStripe, ReadPending, ReadPaid,
         ReadDelivered, ReadTail
<1>3. BooksGrow /\ UNCHANGED intents
  BY <1>2, SameBooks DEF dbVars
<1>4. CASE ReadPaid(r) /\ quote.state # "paid"
  <2> DEFINE p == [proc[r] EXCEPT !.pc = "pay", !.ref = SessionOf(quote)]
  <2>1. proc' = [proc EXCEPT ![r] = p]
    BY <1>4 DEF ReadPaid, IInv, TypeOK
  <2>2. p.pc = "pay"
    BY OfRequest DEF Locals
  <2> HIDE DEF p
  <2>3. Aside(p)
    BY <2>2 DEF Aside, Booking
  <2> QED BY <1>1, <1>3, <2>1, <2>3, AsideKeeps
<1>5. CASE ~(ReadPaid(r) /\ quote.state # "paid")
  <2>1. \/ \E at \in {"draft", "session", "decide", "hand", "link"} : Goto(r, at)
        \/ \E a \in {"quote.paid"} : Record(r, a)
        \/ Return(r)
    BY <1>5 DEF ReadForCheckout, ReadTask, ReadForStripe, ReadPending, ReadPaid,
                ReadDelivered, ReadTail
  <2>2. {"draft", "session", "decide", "hand", "link"} \subseteq PCs \ Booking
        /\ {"quote.paid"} \subseteq Actions
    BY DEF PCs, Booking, Actions
  <2>3. PICK p : proc' = [proc EXCEPT ![r] = p] /\ Aside(p)
    BY <2>1, <2>2, AsideMoves
  <2> QED BY <1>1, <1>3, <2>3, AsideKeeps
<1> QED BY <1>4, <1>5

LEMMA EffectOfArrivals ==
  ASSUME IInv, IInv', Effective, NEW r \in Requests, Arrives(r)
  PROVE  Effective'
<1>1. ASSUME NEW op, NEW pc, NEW ref, NEW approve, NEW del,
             Arrive(r, op, pc, ref, approve, del), pc \notin Booking
      PROVE  Effective'
  <2> DEFINE p == [op |-> op, pc |-> pc, ref |-> ref, approve |-> approve,
                   del |-> del, action |-> "none"]
  <2>1. proc' = [proc EXCEPT ![r] = p] /\ p.pc = pc /\ UNCHANGED <<dbVars, faults>>
    BY <1>1 DEF Arrive
  <2> HIDE DEF p
  <2>2. Aside(p) /\ Aside(proc[r])
    BY <1>1, <2>1 DEF Arrive, At, Aside, Booking
  <2>3. BooksGrow /\ UNCHANGED intents
    BY <2>1, SameBooks DEF dbVars
  <2> QED BY <2>1, <2>2, <2>3, AsideKeeps
<1>2. \E op, pc, ref, approve, del :
        Arrive(r, op, pc, ref, approve, del) /\ pc \notin Booking
  <2>1. /\ "checkout" \notin Booking /\ "open" \notin Booking /\ "paid?" \notin Booking
        /\ "pending?" \notin Booking /\ "delivered?" \notin Booking /\ "task?" \notin Booking
    BY DEF Booking
  <2> QED BY <2>1 DEF Arrives, ArriveCheckout, ArriveStripe, ArriveWebhook, ArriveDecide,
                      ArriveFulfil, ArriveGoal
<1> QED BY <1>1, <1>2

LEMMA EffectOfDrafts ==
  ASSUME IInv, IInv', Effective, NEW r \in Requests, DraftIntent(r)
  PROVE  Effective'
<1>1. PICK i \in Intents :
        /\ intents' = [intents EXCEPT ![i] = "pending"]
        /\ proc' = [proc EXCEPT ![r].ref = IntentRef(i),
                      ![r].pc = IF proc[r].op = "goal" THEN "mark" ELSE "charge"]
  BY DEF DraftIntent, NewIntent
<1> DEFINE p == [proc[r] EXCEPT !.ref = IntentRef(i),
                   !.pc = IF proc[r].op = "goal" THEN "mark" ELSE "charge"]
<1>2. proc' = [proc EXCEPT ![r] = p]
  BY <1>1 DEF IInv, TypeOK
<1>3. p.pc \in {"mark", "charge"}
  BY OfRequest DEF Locals
<1> HIDE DEF p
<1>4. Aside(p) /\ Aside(proc[r])
  BY <1>3 DEF DraftIntent, At, Aside, Booking
<1>5. BooksGrow
  BY SameBooks DEF DraftIntent
<1>6. \A j \in Intents : intents'[j] = "approved" => intents[j] = "approved"
  BY <1>1 DEF IInv, TypeOK
<1> QED BY <1>2, <1>4, <1>5, <1>6, AsideKeeps

LEMMA EffectOfWrites ==
  ASSUME IInv, IInv', Effective, NEW r \in Requests,
         ChargeQuote(r) \/ MarkTask(r) \/ StoreSession(r) \/ HandOver(r)
  PROVE  Effective'
<1>1. Aside(proc[r]) /\ UNCHANGED <<intents, revenue, leads, faults>>
  BY DEF ChargeQuote, MarkTask, StoreSession, HandOver, At, Aside, Booking
<1>2. PICK p : proc' = [proc EXCEPT ![r] = p] /\ Aside(p)
  <2>1. \/ \E a \in {"quote.checkout", "quote.checkout_session", "delivery.fulfilled"} :
             Record(r, a)
        \/ Return(r)
    BY DEF ChargeQuote, MarkTask, StoreSession, HandOver
  <2>2. {"quote.checkout", "quote.checkout_session", "delivery.fulfilled"} \subseteq Actions
    BY DEF Actions
  <2> QED BY <2>1, <2>2, AsideMoves
<1>3. BooksGrow
  <2>1. CASE HandOver(r)
    <3>1. PICK d : d = proc[r].del
      OBVIOUS
    <3>2. d \in 1..Len(deliveries)
          /\ deliveries' = [deliveries EXCEPT ![d].state = "delivered"]
      BY <2>1, <3>1, OfRequest DEF HandOver, At, Relies
    <3>3. deliveries \in Seq([ref : Refs, state : {"pending", "delivered"}])
          /\ \A ref \in Refs : revenue[ref] \in Nat /\ leads[ref] \in Nat
      BY DEF IInv, TypeOK
    <3> DEFINE row == [deliveries[d] EXCEPT !.state = "delivered"]
    <3>4. deliveries[d] \in [ref : Refs, state : {"pending", "delivered"}]
      BY <3>2, <3>3, ElementOfSeq
    <3>5. row \in [ref : Refs, state : {"pending", "delivered"}]
          /\ row.ref = deliveries[d].ref /\ deliveries' = [deliveries EXCEPT ![d] = row]
      BY <3>2, <3>4
    <3> HIDE DEF row
    <3>6. Len(deliveries') = Len(deliveries)
          /\ \A e \in 1..Len(deliveries) : deliveries'[e].ref = deliveries[e].ref
      BY <3>2, <3>3, <3>5, ExceptSeq
    <3> QED BY <1>1, <3>3, <3>6 DEF BooksGrow
  <2>2. CASE ChargeQuote(r) \/ MarkTask(r) \/ StoreSession(r)
    BY <2>2, SameBooks DEF ChargeQuote, MarkTask, StoreSession
  <2> QED BY <2>1, <2>2
<1> QED BY <1>1, <1>2, <1>3, AsideKeeps

LEMMA EffectOfSessions ==
  ASSUME IInv, IInv', Effective, NEW r \in Requests, CreateSession(r)
  PROVE  Effective'
<1>1. PICK s \in Sessions :
        proc' = [proc EXCEPT ![r].ref = SessionRef(s), ![r].pc = "store"]
  BY DEF CreateSession
<1> DEFINE p == [proc[r] EXCEPT !.ref = SessionRef(s), !.pc = "store"]
<1>2. proc' = [proc EXCEPT ![r] = p]
  BY <1>1 DEF IInv, TypeOK
<1>3. p.pc = "store"
  BY OfRequest DEF Locals
<1> HIDE DEF p
<1>4. Aside(p) /\ Aside(proc[r])
  BY <1>3 DEF CreateSession, At, Aside, Booking
<1>5. BooksGrow /\ UNCHANGED intents
  BY SameBooks DEF CreateSession, dbVars
<1> QED BY <1>2, <1>4, <1>5, AsideKeeps

LEMMA EffectOfRecords ==
  ASSUME IInv, IInv', Effective, NEW r \in Requests, InsertLink(r) \/ RecordFails(r)
  PROVE  Effective'
<1>1. UNCHANGED dbVars /\ (faults' = 0 => faults = 0)
  BY DEF InsertLink, RecordFails, IInv, TypeOK
<1>2. PICK p : proc' = [proc EXCEPT ![r] = p] /\ Aside(p)
  BY AsideMoves DEF InsertLink, RecordFails, Recorded, Actions
<1>3. \A ref \in Refs : revenue[ref] \in Nat /\ leads[ref] \in Nat
  BY DEF IInv, TypeOK
<1>4. BooksGrow /\ UNCHANGED intents
  BY <1>1, <1>3 DEF BooksGrow, dbVars, InsertLink, RecordFails
<1>5. Aside(proc[r])
  BY DEF InsertLink, RecordFails, At, Aside, Booking
<1> QED BY <1>2, <1>4, <1>5, AsideKeeps

\* A request that dies leaves its approval half done, and faults tells.
LEMMA EffectOfAborts ==
  ASSUME IInv, IInv', Effective, NEW r \in Requests, Abort(r)
  PROVE  Effective'
<1>1. faults \in Nat /\ faults' = faults + 1 /\ UNCHANGED dbVars
  BY BoundsAssumption DEF Abort, IInv, TypeOK
<1>2. faults' # 0
  BY <1>1
<1>3. \A ref \in Refs : revenue[ref] \in Nat /\ leads[ref] \in Nat
  BY DEF IInv, TypeOK
<1>4. BooksGrow /\ UNCHANGED intents
  BY <1>1, <1>2, <1>3 DEF BooksGrow, dbVars
<1>5. proc' = [proc EXCEPT ![r] = Idle] /\ Progress(Idle, revenue', leads')
  BY DEF Abort, Return, Idle, Progress
<1> QED BY <1>2, <1>4, <1>5, EffectKeeps


\* Booking once more takes nothing away from others.
LEMMA CountsUp ==
  ASSUME NEW f \in [Refs -> Nat], NEW g, NEW ref \in Refs,
         g = [f EXCEPT ![ref] = @ + 1]
  PROVE  /\ g[ref] > 0 /\ \A x \in Refs : g[x] >= f[x]
<1>1. f[ref] \in Nat /\ \A x \in Refs : f[x] \in Nat
  OBVIOUS
<1>2. g[ref] = f[ref] + 1 /\ \A x \in Refs : x # ref => g[x] = f[x]
  OBVIOUS
<1> QED BY <1>1, <1>2

LEMMA EffectOfPayments ==
  ASSUME IInv, IInv', Effective, NEW r \in Requests, PayQuote(r)
  PROVE  Effective'
<1>1. PICK p \in Locals : proc' = [proc EXCEPT ![r] = p] /\ p.op = proc[r].op
  BY GotoMoves DEF PayQuote, PCs
<1>2. proc[r].op = "webhook"
  BY OfRequest DEF PayQuote, At, Kinds
<1>3. Aside(p) /\ Aside(proc[r])
  BY <1>1, <1>2 DEF Aside
<1>4. BooksGrow /\ UNCHANGED intents
  BY SameBooks DEF PayQuote
<1> QED BY <1>1, <1>3, <1>4, AsideKeeps

LEMMA EffectOfDecisions ==
  ASSUME IInv, IInv', Effective, NEW r \in Requests, DecideIntent(r)
  PROVE  Effective'
<1>1. /\ proc[r].op = "decide" /\ proc[r].ref \in IntentRefs /\ proc[r].pc = "decide"
      /\ proc[r].ref[2] \in Intents /\ proc[r].ref = IntentRef(proc[r].ref[2])
  BY RefKinds, OfRequest DEF DecideIntent, At, Kinds
<1>2. PICK i \in Intents : proc[r].ref = IntentRef(i) /\ proc[r].ref[2] = i
  BY <1>1
<1>3. BooksGrow
  BY SameBooks DEF DecideIntent
<1>4. Aside(proc[r])
  BY <1>1 DEF Aside, Booking
<1>5. CASE proc[r].approve
  <2>1. intents' = [intents EXCEPT ![i] = "approved"] /\ Goto(r, "book")
    BY <1>2, <1>5 DEF DecideIntent
  <2>2. PICK p \in Locals :
          /\ proc' = [proc EXCEPT ![r] = p] /\ p.pc = "book"
          /\ p.op = "decide" /\ p.ref = IntentRef(i)
    BY <1>1, <1>2, <2>1, GotoMoves DEF PCs
  <2>3. AtWork(p, IntentRef(i)) /\ Progress(p, revenue', leads')
    BY <2>2 DEF AtWork, Progress, Booking
  <2>4. \A j \in Intents : intents'[j] = "approved" =>
          intents[j] = "approved" \/ AtWork(p, IntentRef(j))
    <3>1. \A j \in Intents : j # i => intents'[j] = intents[j]
      BY <2>1 DEF IInv, TypeOK
    <3> QED BY <2>3, <3>1
  <2>5. \A j \in Intents : ~AtWork(proc[r], IntentRef(j))
    BY <1>4 DEF AtWork, Aside
  <2> QED BY <1>3, <2>2, <2>3, <2>4, <2>5, EffectKeeps
<1>6. CASE ~proc[r].approve
  <2>1. intents' = [intents EXCEPT ![i] = "declined"] /\ Record(r, "payment.declined")
    BY <1>2, <1>6 DEF DecideIntent
  <2>2. PICK p : proc' = [proc EXCEPT ![r] = p] /\ Aside(p)
    BY <2>1, AsideMoves DEF Actions
  <2>3. \A j \in Intents : intents'[j] = "approved" => intents[j] = "approved"
    BY <2>1 DEF IInv, TypeOK
  <2> QED BY <1>3, <1>4, <2>2, <2>3, AsideKeeps
<1> QED BY <1>5, <1>6

LEMMA EffectOfBookings ==
  ASSUME IInv, IInv', Effective, NEW r \in Requests,
         BookRevenue(r) \/ AddLead(r) \/ VerifyDraftTask(r)
  PROVE  Effective'
<1>1. /\ proc[r].ref \in Refs /\ revenue \in [Refs -> Nat] /\ leads \in [Refs -> Nat]
      /\ Progress(proc[r], revenue, leads)
  BY OfRequest DEF Locals, IInv, TypeOK, Effective
<1>2. /\ UNCHANGED <<intents, deliveries, faults>>
      /\ proc[r].op = "decide" => proc[r].pc \in Booking
  BY DEF BookRevenue, AddLead, VerifyDraftTask, At, Booking
<1>3. /\ \A ref \in Refs : revenue'[ref] >= revenue[ref]
      /\ BookRevenue(r) => revenue'[proc[r].ref] > 0
      /\ ~BookRevenue(r) => revenue' = revenue
  <2>1. CASE BookRevenue(r)
    BY <1>1, <2>1, CountsUp DEF BookRevenue
  <2>2. CASE ~BookRevenue(r)
    <3>1. revenue' = revenue /\ \A ref \in Refs : revenue[ref] \in Nat
      BY <1>1, <2>2 DEF AddLead, VerifyDraftTask
    <3> QED BY <2>2, <3>1
  <2> QED BY <2>1, <2>2
<1>4. /\ \A ref \in Refs : leads'[ref] >= leads[ref]
      /\ AddLead(r) => leads'[proc[r].ref] > 0
      /\ ~AddLead(r) => leads' = leads
  <2>1. CASE AddLead(r)
    BY <1>1, <2>1, CountsUp DEF AddLead
  <2>2. CASE ~AddLead(r)
    <3>1. leads' = leads /\ \A ref \in Refs : leads[ref] \in Nat
      BY <1>1, <2>2 DEF BookRevenue, VerifyDraftTask
    <3> QED BY <2>2, <3>1
  <2> QED BY <2>1, <2>2
<1>5. BooksGrow
  BY <1>2, <1>3, <1>4 DEF BooksGrow
<1>6. PICK p \in Locals :
        /\ proc' = [proc EXCEPT ![r] = p] /\ p.op = proc[r].op /\ p.ref = proc[r].ref
        /\ p.pc = IF BookRevenue(r) THEN "lead"
                  ELSE IF AddLead(r) /\ proc[r].op = "decide" THEN "verify" ELSE "find"
  <2>1. BookRevenue(r) => ~AddLead(r) /\ Goto(r, "lead")
    BY DEF BookRevenue, AddLead, At
  <2>2. AddLead(r) => Goto(r, IF proc[r].op = "decide" THEN "verify" ELSE "find")
    BY DEF AddLead
  <2>3. VerifyDraftTask(r) => ~AddLead(r) /\ ~BookRevenue(r) /\ Goto(r, "find")
    BY DEF VerifyDraftTask, BookRevenue, AddLead, At
  <2>4. {"lead", "verify", "find"} \subseteq PCs
    BY DEF PCs
  <2>5. PICK at \in PCs :
          /\ Goto(r, at)
          /\ at = IF BookRevenue(r) THEN "lead"
                  ELSE IF AddLead(r) /\ proc[r].op = "decide" THEN "verify" ELSE "find"
    BY <2>1, <2>2, <2>3, <2>4
  <2> QED BY <2>5, GotoMoves
<1>7. Progress(p, revenue', leads')
  <2>1. AddLead(r) => proc[r].pc = "lead"
    BY DEF AddLead, At
  <2>2. VerifyDraftTask(r) => proc[r].pc = "verify"
    BY DEF VerifyDraftTask, At
  <2>3. CASE BookRevenue(r)
    BY <1>3, <1>6, <2>3 DEF Progress
  <2>4. CASE ~BookRevenue(r) /\ AddLead(r)
    BY <1>1, <1>3, <1>4, <1>6, <2>1, <2>4 DEF Progress
  <2>5. CASE ~BookRevenue(r) /\ ~AddLead(r)
    BY <1>1, <1>3, <1>4, <1>6, <2>2, <2>5 DEF Progress
  <2> QED BY <2>3, <2>4, <2>5
<1>8. \A i \in Intents : AtWork(proc[r], IntentRef(i)) => AtWork(p, IntentRef(i))
  BY <1>6 DEF AtWork, Booking
<1> QED BY <1>2, <1>5, <1>6, <1>7, <1>8, EffectKeeps

\* The last booking: the delivery is there, or it is made.
LEMMA EffectOfDeliveries ==
  ASSUME IInv, IInv', Effective, NEW r \in Requests,
         FindDelivery(r) \/ InsertDelivery(r)
  PROVE  Effective'
<1>1. /\ proc[r].ref \in Refs /\ Progress(proc[r], revenue, leads)
      /\ proc[r].pc \in {"find", "insert"}
      /\ UNCHANGED <<intents, revenue, leads, faults>>
      /\ \A ref \in Refs : revenue[ref] \in Nat /\ leads[ref] \in Nat
  BY OfRequest DEF Locals, IInv, TypeOK, Effective, FindDelivery, InsertDelivery, At, dbVars
<1>2. /\ Len(deliveries) \in Nat /\ DOMAIN deliveries = 1..Len(deliveries)
      /\ deliveries \in Seq([ref : Refs, state : {"pending", "delivered"}])
  BY LenProperties DEF IInv, TypeOK
<1>3. /\ \A d \in 1..Len(deliveries) :
           d \in 1..Len(deliveries') /\ deliveries'[d].ref = deliveries[d].ref
      /\ InsertDelivery(r) => \E d \in 1..Len(deliveries') : deliveries'[d].ref = proc[r].ref
  <2>1. CASE FindDelivery(r) /\ ~InsertDelivery(r)
    BY <2>1 DEF FindDelivery, dbVars
  <2>2. CASE InsertDelivery(r)
    <3> DEFINE row == [ref |-> proc[r].ref, state |-> "pending"]
    <3>1. row \in [ref : Refs, state : {"pending", "delivered"}] /\ row.ref = proc[r].ref
      BY <1>1
    <3>2. deliveries' = Append(deliveries, row)
      BY <2>2 DEF InsertDelivery
    <3> HIDE DEF row
    <3>3. /\ Len(deliveries') = Len(deliveries) + 1
          /\ deliveries'[Len(deliveries) + 1] = row
          /\ \A d \in 1..Len(deliveries) : deliveries'[d] = deliveries[d]
      BY <1>2, <3>1, <3>2, AppendProperties
    <3>4. Len(deliveries) + 1 \in 1..Len(deliveries')
          /\ \A d \in 1..Len(deliveries) : d \in 1..Len(deliveries')
      BY <1>2, <3>3
    <3> QED BY <3>1, <3>3, <3>4
  <2> QED BY <2>1, <2>2
<1>4. BooksGrow
  BY <1>1, <1>3 DEF BooksGrow
<1>5. ASSUME Goto(r, "insert") PROVE Effective'
  <2>1. PICK p \in Locals :
          /\ proc' = [proc EXCEPT ![r] = p] /\ p.pc = "insert"
          /\ p.op = proc[r].op /\ p.ref = proc[r].ref
    BY <1>5, GotoMoves DEF PCs
  <2>2. Progress(p, revenue', leads')
    BY <1>1, <2>1 DEF Progress
  <2>3. \A i \in Intents : AtWork(proc[r], IntentRef(i)) => AtWork(p, IntentRef(i))
    BY <2>1 DEF AtWork, Booking
  <2> QED BY <1>1, <1>4, <2>1, <2>2, <2>3, EffectKeeps
<1>6. ASSUME NEW d \in Nat, HasDelivery(r, d),
             \E e \in 1..Len(deliveries') : deliveries'[e].ref = proc[r].ref
      PROVE  Effective'
  <2>1. PICK p \in Locals :
          /\ proc' = [proc EXCEPT ![r] = p] /\ p.pc \in {"tail", "delivered?"}
    BY <1>6, HasDeliveryMoves
  <2>2. Progress(p, revenue', leads')
    BY <2>1 DEF Progress
  <2>3. \A i \in Intents : AtWork(proc[r], IntentRef(i)) =>
          Complete(IntentRef(i), revenue', leads', deliveries')
    BY <1>1, <1>6 DEF AtWork, Progress, Complete
  <2> QED BY <1>1, <1>4, <2>1, <2>2, <2>3, EffectKeeps
<1>7. CASE InsertDelivery(r)
  BY <1>2, <1>3, <1>6, <1>7 DEF InsertDelivery
<1>8. CASE FindDelivery(r)
  <2>1. CASE Goto(r, "insert")
    BY <1>5, <2>1
  <2>2. CASE \E d \in DeliveriesOf(proc[r].ref) : HasDelivery(r, d)
    <3>1. PICK d \in 1..Len(deliveries) :
            deliveries[d].ref = proc[r].ref /\ HasDelivery(r, d)
      BY <1>2, <2>2 DEF DeliveriesOf
    <3>2. d \in Nat /\ d \in 1..Len(deliveries') /\ deliveries'[d].ref = proc[r].ref
      BY <1>2, <1>3, <3>1
    <3> QED BY <1>6, <3>1, <3>2
  <2> QED BY <1>8, <2>1, <2>2 DEF FindDelivery
<1> QED BY <1>7, <1>8

LEMMA NextEffects ==
  ASSUME IInv, IInv', Effective, [Next]_vars
  PROVE  Effective'
<1>1. CASE UNCHANGED vars
  BY <1>1 DEF vars, dbVars, Effective
<1>2. CASE CustomerPays
  BY <1>2 DEF CustomerPays, dbVars, Effective
<1>3. ASSUME NEW r \in Requests, Step(r) PROVE Effective'
  BY <1>3, EffectOfReads, EffectOfDrafts, EffectOfWrites, EffectOfSessions,
     EffectOfRecords, EffectOfPayments, EffectOfDecisions, EffectOfBookings,
     EffectOfDeliveries DEF Step
<1>4. ASSUME NEW r \in Requests, Arrives(r) \/ RecordFails(r) \/ Abort(r)
      PROVE  Effective'
  BY <1>4, EffectOfArrivals, EffectOfRecords, EffectOfAborts
<1> QED BY <1>1, <1>2, <1>3, <1>4 DEF Next

\* An approval takes effect: once nobody is at work on an approved intent, and
\* no request died, revenue, customer and delivery are there, whatever other
\* admins decided meanwhile (businesses.ts:75-94).
THEOREM ApprovalTakesEffectHolds == Spec => []ApprovalTakesEffect
<1>1. Init => Effective
  BY DEF Init, Effective, Idle, Progress
<1>2. IInv /\ IInv' /\ Effective /\ [Next]_vars => Effective'
  BY NextEffects
<1>3. IInv /\ Effective => ApprovalTakesEffect
  <2> SUFFICES ASSUME IInv, Effective, NEW i \in Intents, faults = 0,
                      intents[i] = "approved", ~Deciding(i)
               PROVE  /\ revenue[IntentRef(i)] > 0 /\ leads[IntentRef(i)] > 0
                      /\ DeliveriesOf(IntentRef(i)) # {}
    BY DEF ApprovalTakesEffect
  <2>1. Complete(IntentRef(i), revenue, leads, deliveries)
    BY DEF Effective, AtWork, Deciding
  <2>2. DOMAIN deliveries = 1..Len(deliveries)
    BY LenProperties DEF IInv, TypeOK
  <2> QED BY <2>1, <2>2 DEF Complete, DeliveriesOf
<1> QED BY <1>1, <1>2, <1>3, InvariantHolds, PTL DEF Spec

=============================================================================
