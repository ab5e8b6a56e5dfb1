-------------------------- MODULE FusionRunProofs --------------------------
(***************************************************************************)
(* Proofs about FusionRun, for every number of attempts, starts, polls,    *)
(* repairs and requests, every set of dials and plan modes.                *)
(*                                                                         *)
(* The parts of FusionRunInvariant are preserved one after the other, each *)
(* from those before it (TypeStep, PlacedStep, OwnedStep, VouchedStep,     *)
(* UnapprovedStep, StagedStep, NumberedStep, CarriedStep, AccountedStep,   *)
(* UnplannedStep); the theorems follow from their conjunction.             *)
(* A step of one process leaves the others' places alone (AttemptLocal,    *)
(* RequestLocal, DispatchLocal), so each part is shown for the process     *)
(* that moves and carried over for the rest; StepOf lists what a step of   *)
(* the system can be to one attempt.                                       *)
(***************************************************************************)
EXTENDS FusionRunInvariant, FiniteSetTheorems, TLAPS

(***************************************************************************)
(* Types                                                                   *)
(***************************************************************************)

\* A step that leaves a group of variables alone keeps their types.
LEMMA KeepType ==
  /\ TypeDb  /\ UNCHANGED dbVars  => TypeDb'
  /\ TypeGh  /\ UNCHANGED ghVars  => TypeGh'
  /\ TypeWf  /\ UNCHANGED wfVars  => TypeWf'
  /\ TypePc  /\ UNCHANGED pc      => TypePc'
  /\ TypeAtt /\ UNCHANGED attVars => TypeAtt'
  /\ TypeReq /\ UNCHANGED reqVars => TypeReq'
BY DEF TypeDb, dbVars, TypeGh, ghVars, TypeWf, wfVars, TypePc, TypeAtt, attVars,
       TypeReq, reqVars

\* A process that moves to a known place keeps the places typed.
LEMMA GotoType ==
  ASSUME TypePc, NEW x \in Actors, NEW there \in AttemptPc \cup RequestPc,
         Goto(x, there)
  PROVE  TypePc'
BY DEF TypePc, Goto

\* Handing an event to the sink keeps places and events typed.
LEMMA EmitType ==
  ASSUME TypePc, NEW a \in Attempts, NEW e \in Events, Emit(a, e),
         evt \in [Attempts -> Events]
  PROVE  TypePc' /\ evt' \in [Attempts -> Events]
BY DEF TypePc, Goto, Emit, Actors, AttemptPc

\* Every event runFusion builds is an event.
LEMMA EventsTyped ==
  /\ \A t \in EventTypes \cup {"none"} : Plain(t) \in Events
  /\ \A s \in ChecksStatus : Checks(s) \in Events
  /\ \A n \in 0..MaxFix : FixAttempt(n) \in Events
  /\ \A o \in FusionOutcome : Outcome(o) \in Events
BY BoundsAssumption DEF Plain, Checks, FixAttempt, Outcome, Event, Events,
   EventTypes, ChecksStatus, FusionOutcome

\* A failing attempt keeps the places and the workflow typed.
LEMMA ThrowType ==
  ASSUME TypePc, TypeWf, NEW a \in Attempts, NEW end \in Ended, Throw(a, end)
  PROVE  TypePc' /\ TypeWf'
BY DEF TypePc, TypeWf, Throw, Goto, Report, Ended, AttemptPc, Actors

\* An event that was emitted has a key.
LEMMA KeyTyped ==
  ASSUME NEW e \in Events, e.type # "none"
  PROVE  eventKey(e) \in Keys
BY DEF Events, Keys, eventKey

\* A transition moves the run to a run state.
LEMMA WantedTyped ==
  ASSUME TypeOK, Placed, NEW x \in Actors, pc[x] \in InTransition
  PROVE  Wanted(x) \in RunStates
<1>1. CASE x \in Attempts
  BY <1>1 DEF Placed, PlacedAttempt, MovesRun, Wanted, Target, RunStates, FusionOutcome
<1>2. CASE x \in Requests /\ x \notin Attempts
  <2>1. wish[x] \in {"running", "error", "merged"}
    BY <1>2 DEF TypeOK, TypeReq, Placed, PlacedRequest, InTransition
  <2> QED BY <1>2, <2>1 DEF Wanted, RunStates
<1> QED BY <1>1, <1>2 DEF Actors

\* Each statement of transitionRun keeps the types.
LEMMA TransitionType ==
  ASSUME TypeOK, Placed, NEW x \in Actors, Transition(x)
  PROVE  TypeOK'
<1> USE KeepType
<1>1. AfterTransition(x) \in AttemptPc \cup RequestPc
  BY DEF AfterTransition, AttemptPc, RequestPc
<1>2. CASE TransitionCheck(x)
  BY <1>2, <1>1, GotoType, ThrowType DEF TransitionCheck, TypeOK, AttemptPc, Ended
<1>3. CASE TransitionWrite(x)
  <2>1. Wanted(x) \in RunStates
    BY <1>3, WantedTyped DEF TransitionWrite, At, InTransition
  <2> QED BY <1>3, <1>1, <2>1, GotoType DEF TransitionWrite, TypeOK, TypeDb, AttemptPc
<1>4. CASE TransitionTask(x)
  BY <1>4, <1>1, GotoType DEF TransitionTask, TypeOK, TypeDb, TaskStateFor
<1> QED BY <1>2, <1>3, <1>4 DEF Transition

\* Each statement of the sink keeps the types.
LEMMA SinkType ==
  ASSUME TypeOK, Placed, NEW a \in Attempts, Sink(a)
  PROVE  TypeOK'
<1> USE KeepType
<1>0. a \in Actors /\ evt[a] \in Events
  BY DEF Actors, TypeOK, TypeAtt
<1>1. CASE SinkCheck(a)
  <2>1. Cardinality(log) \in Nat BY FS_CardinalityType DEF Placed
  <2>2. TypePc' BY <1>0, <1>1, GotoType DEF SinkCheck, TypeOK, AttemptPc
  <2> QED BY <1>1, <2>1, <2>2 DEF SinkCheck, TypeOK, TypeAtt
<1>2. CASE SinkInsert(a)
  <2>1. eventKey(evt[a]) \in Keys
    BY <1>0, <1>2, KeyTyped DEF SinkInsert, Placed, PlacedAttempt, At
  <2>2. TypePc' BY <1>0, <1>2, GotoType DEF SinkInsert, TypeOK, AttemptPc
  <2> QED BY <1>2, <2>1, <2>2 DEF SinkInsert, TypeOK, TypeDb, TypeAtt
<1>3. CASE SinkCard(a)
  <2>1. eventKey(evt[a]) \in Keys
    BY <1>0, <1>3, KeyTyped DEF SinkCard, Placed, PlacedAttempt, At
  <2>2. TypePc' BY <1>0, <1>3, GotoType DEF SinkCard, AfterCard, TypeOK, AttemptPc
  <2> QED BY <1>3, <2>1, <2>2 DEF SinkCard, TypeOK, TypeDb
<1>4. CASE SinkCheckpoint(a)
  <2>1. TypePc' BY <1>0, <1>4, GotoType DEF SinkCheckpoint, TypeOK, AttemptPc
  <2> QED BY <1>4, <2>1 DEF SinkCheckpoint, TypeOK, TypeDb, TypeAtt
<1> QED BY <1>1, <1>2, <1>3, <1>4 DEF Sink

\* The sandbox's answers keep the types.
LEMMA SandboxType ==
  ASSUME TypeOK, NEW a \in Attempts, SandboxPush(a) \/ SandboxFails(a)
  PROVE  TypeOK'
<1> USE KeepType
<1>1. CASE SandboxPush(a)
  <2>1. TypeAtt' /\ TypePc' /\ TypeWf'
    BY <1>1, EmitType, EventsTyped, ThrowType DEF SandboxPush, TypeOK, TypeAtt,
       TypeGh, wfVars, TypeWf, TypePc, EventTypes, Ended
  <2> QED BY <1>1, <2>1 DEF SandboxPush, TypeOK, TypeGh
<1>2. CASE SandboxFails(a)
  <2>1. TypePc' /\ TypeWf'
    BY <1>2, ThrowType DEF SandboxFails, TypeOK, TypePc, Ended
  <2> QED BY <1>2, <2>1 DEF SandboxFails, TypeOK, TypeAtt
<1> QED BY <1>1, <1>2

\* Each step of runFusion keeps the types.
LEMMA FusionType ==
  ASSUME TypeOK, NEW a \in Attempts, Fusion(a)
  PROVE  TypeOK'
<1> USE KeepType, BoundsAssumption
<1>0. a \in Actors BY DEF Actors
<1>1. CASE ProposePlan(a) \/ ParkPlan(a)
  BY <1>1, EmitType, EventsTyped DEF ProposePlan, ParkPlan, TypeOK, TypeAtt,
     EventTypes, FusionOutcome
<1>2. CASE CallSandbox(a)
  BY <1>0, <1>2, GotoType DEF CallSandbox, TypeOK, TypeAtt, AttemptPc
<1>3. CASE FindPr(a)
  BY <1>0, <1>3, GotoType, EmitType, EventsTyped DEF FindPr, TypeOK, TypeAtt,
     AttemptPc, EventTypes
<1>4. CASE OpenPr(a)
  <2>1. TypeAtt' /\ TypePc' /\ TypeWf'
    BY <1>4, EmitType, EventsTyped, ThrowType DEF OpenPr, TypeOK, TypeAtt,
       EventTypes, Ended
  <2> QED BY <1>4, <2>1 DEF OpenPr, TypeOK, TypeGh
<1>5. CASE Poll(a)
  <2>1. TypePc' /\ TypeAtt'
    BY <1>5, EmitType, EventsTyped DEF Poll, TypeOK, TypeAtt
  <2>2. sha[a] \in Nat BY DEF TypeOK, TypeAtt
  <2>3. green' = green \/ green' = green \cup {sha[a]}
    BY <1>5 DEF Poll
  <2>4. green' \subseteq Nat
    BY <2>2, <2>3 DEF TypeOK, TypeGh
  <2>5. TypeGh' BY <1>5, <2>4 DEF Poll, TypeOK, TypeGh
  <2> QED BY <1>5, <2>1, <2>5 DEF Poll, TypeOK
<1>6. CASE ChecksPending(a)
  BY <1>0, <1>6, GotoType, EmitType, EventsTyped DEF ChecksPending, TypeOK,
     TypeAtt, AttemptPc, FusionOutcome
<1>7. CASE Gate(a)
  BY <1>0, <1>7, GotoType, EmitType, EventsTyped DEF Gate, TypeOK, TypeAtt,
     AttemptPc, FusionOutcome
<1>8. CASE Merge(a)
  <2>1. TypeAtt' /\ TypePc' /\ TypeWf'
    BY <1>8, EmitType, EventsTyped, ThrowType DEF Merge, TypeOK, TypeAtt,
       FusionOutcome, Ended
  <2> QED BY <1>8, <2>1 DEF Merge, TypeOK, TypeGh
<1>9. CASE ChecksFailed(a)
  BY <1>9, EmitType, EventsTyped DEF ChecksFailed, TypeOK, TypeAtt, FusionOutcome
<1>10. CASE CiFix(a)
  <2>1. TypePc' /\ TypeWf'
    BY <1>0, <1>10, GotoType, ThrowType DEF CiFix, TypeOK, AttemptPc, Ended
  <2> QED BY <1>10, <2>1 DEF CiFix, TypeOK, TypeAtt, TypeGh
<1> QED
  BY <1>1, <1>2, <1>3, <1>4, <1>5, <1>6, <1>7, <1>8, <1>9, <1>10 DEF Fusion

\* Each step of the activity's tail keeps the types.
LEMMA TailType ==
  ASSUME TypeOK, NEW a \in Attempts, Tail(a)
  PROVE  TypeOK'
<1> USE KeepType
<1>0. a \in Actors BY DEF Actors
<1>1. CASE Meter(a)
  BY <1>0, <1>1, GotoType DEF Meter, TypeOK, TypeDb, AttemptPc
<1>2. CASE CountReputation(a)
  BY <1>0, <1>2, GotoType DEF CountReputation, TypeOK, TypeDb, AttemptPc
<1>3. CASE EscalateTask(a)
  BY <1>0, <1>3, GotoType DEF EscalateTask, TypeOK, TypeDb, AttemptPc, TaskStateFor
<1>4. CASE Complete(a)
  <2>1. TypePc' BY <1>0, <1>4, GotoType DEF Complete, TypeOK, AttemptPc, Ended
  <2>2. TypeWf'
    BY <1>4 DEF Complete, TypeOK, TypeWf, TypeAtt, Events
  <2> QED BY <1>4, <2>1, <2>2 DEF Complete, TypeOK
<1> QED BY <1>1, <1>2, <1>3, <1>4 DEF Tail

\* Each step of a person's request keeps the types.
LEMMA RequestType ==
  ASSUME TypeOK, Placed, NEW q \in Requests, RequestStep(q)
  PROVE  TypeOK'
<1> USE KeepType
<1>0. q \in Actors BY DEF Actors
<1>1. ASSUME NEW verdict \in {"running", "error"}, LoadPlan(q, verdict)
      PROVE  TypeOK'
  BY <1>0, <1>1, GotoType DEF LoadPlan, TypeOK, TypeReq, RequestPc
<1>2. CASE LoadHeld(q)
  BY <1>0, <1>2, GotoType DEF LoadHeld, TypeOK, TypeReq, RequestPc
<1>3. CASE LandHeld(q)
  BY <1>0, <1>3, GotoType DEF LandHeld, TypeOK, TypeGh, RequestPc
<1>4. CASE StartExecution(q)
  <2>1. UNCHANGED <<nAtt, late, result>>
    BY <1>4 DEF StartExecution
  <2>2. \/ UNCHANGED <<wf, tries, cur, plan>>
        \/ wf' = "open" /\ tries' = 0 /\ cur' = 0 /\ plan' = FALSE
    BY <1>4 DEF StartExecution
  <2>3. plan' \in BOOLEAN
    BY <2>2, Zenon DEF TypeOK, TypeWf
  <2>4. TypeWf' BY <2>1, <2>2, <2>3, BoundsAssumption DEF TypeOK, TypeWf
  <2> QED BY <1>0, <1>4, <2>4, GotoType DEF StartExecution, TypeOK, RequestPc
<1>5. CASE Transition(q)
  BY <1>0, <1>5, TransitionType
<1>6. CASE AbortRequest(q)
  BY <1>0, <1>6, GotoType DEF AbortRequest, TypeOK, RequestPc
<1> QED BY <1>1, <1>2, <1>3, <1>4, <1>5, <1>6 DEF RequestStep

\* Every step keeps the types.
LEMMA TypeStep ==
  ASSUME TypeOK, Placed, [Next]_vars
  PROVE  TypeOK'
<1> USE KeepType
<1>1. CASE Dispatch
  <2>1. nAtt + 1 \in Attempts /\ nAtt + 1 \in Actors
    BY <1>1, BoundsAssumption DEF Dispatch, TypeOK, TypeWf, Attempts, Actors
  <2>2. TypeWf'
    BY <1>1, BoundsAssumption DEF Dispatch, TypeOK, TypeWf
  <2>3. TypePc' /\ TypeAtt'
    BY <1>1, <2>1, EmitType, EventsTyped, GotoType DEF Dispatch, TypeOK, TypeAtt, EventTypes, AttemptPc
  <2> QED BY <1>1, <2>2, <2>3 DEF Dispatch, TypeOK
<1>2. ASSUME NEW a \in Attempts, TimeOut(a) PROVE TypeOK'
  BY <1>2 DEF TimeOut, TypeOK, TypeWf, Report
<1>3. ASSUME NEW a \in Attempts, Abort(a) PROVE TypeOK'
  BY <1>3, ThrowType DEF Abort, Ended, TypeOK
<1>4. ASSUME NEW a \in Attempts, AttemptStep(a) PROVE TypeOK'
  BY <1>4, SinkType, TransitionType, FusionType, TailType DEF AttemptStep, Actors
<1>5. ASSUME NEW a \in Attempts, SandboxPush(a) \/ SandboxFails(a) PROVE TypeOK'
  BY <1>5, SandboxType
<1>6. ASSUME NEW q \in Requests, RequestStep(q) PROVE TypeOK'
  BY <1>6, RequestType
<1>7. CASE UNCHANGED vars
  BY <1>7 DEF TypeOK, vars
<1> QED BY <1>1, <1>2, <1>3, <1>4, <1>5, <1>6, <1>7 DEF Next, Fault

(***************************************************************************)
(* An attempt, the sandbox working for it, and a request each change only  *)
(* what is theirs.                                                         *)
(***************************************************************************)

OthersKept(x) ==
  /\ \A y \in Actors \ {x} : pc'[y] = pc[y]
  /\ \A b \in Attempts \ {x} : evt'[b] = evt[b] /\ sha'[b] = sha[b]
  /\ \A q \in Requests \ {x} : wish'[q] = wish[q]

\* A step of an attempt, of the sandbox for it, or a fault that hits it.
LEMMA AttemptLocal ==
  ASSUME TypeOK, NEW a \in Attempts,
         AttemptStep(a) \/ SandboxPush(a) \/ Fault(a)
  PROVE  OthersKept(a) /\ UNCHANGED <<nAtt, wish, plan, asked, planOk>>
<1> USE DEF OthersKept, TypeOK, TypePc, TypeAtt, Throw, Report, Goto, Emit,
            attVars, reqVars, wfVars
<1>1. CASE Sink(a)
  BY <1>1 DEF Sink, SinkCheck, SinkInsert, SinkCard, SinkCheckpoint
<1>2. CASE Transition(a)
  BY <1>2 DEF Transition, TransitionCheck, TransitionWrite, TransitionTask
<1>3. CASE Fusion(a)
  BY <1>3 DEF Fusion, ProposePlan, ParkPlan, CallSandbox, FindPr, OpenPr, Poll,
     ChecksPending, Gate, Merge, ChecksFailed, CiFix
<1>4. CASE Tail(a)
  BY <1>4 DEF Tail, Meter, CountReputation, EscalateTask, Complete
<1>5. CASE SandboxPush(a)
  BY <1>5 DEF SandboxPush
<1>6. CASE Fault(a)
  BY <1>6 DEF Fault, Abort, TimeOut, SandboxFails
<1> QED BY <1>1, <1>2, <1>3, <1>4, <1>5, <1>6 DEF AttemptStep

\* A step of a request leaves every attempt as it was.
LEMMA RequestLocal ==
  ASSUME TypeOK, NEW q \in Requests, RequestStep(q)
  PROVE  OthersKept(q) /\ UNCHANGED attVars /\ UNCHANGED nAtt
<1> USE DEF OthersKept, TypeOK, TypePc, TypeReq, Goto, attVars, reqVars, wfVars
<1>1. CASE Transition(q)
  BY <1>1, RequestsAssumption DEF Transition, TransitionCheck, TransitionWrite,
     TransitionTask, Attempts
<1>2. CASE StartExecution(q) \/ LandHeld(q) \/ LoadHeld(q) \/ AbortRequest(q)
  BY <1>2 DEF StartExecution, LandHeld, LoadHeld, AbortRequest
<1>3. ASSUME NEW verdict \in {"running", "error"}, LoadPlan(q, verdict)
      PROVE  OthersKept(q) /\ UNCHANGED attVars /\ UNCHANGED nAtt
  BY <1>3 DEF LoadPlan
<1> QED BY <1>1, <1>2, <1>3 DEF RequestStep

\* A dispatch starts the next attempt and touches no other.
LEMMA DispatchLocal ==
  ASSUME TypeOK, Dispatch
  PROVE  /\ nAtt + 1 \in Attempts
         /\ OthersKept(nAtt + 1)
         /\ nAtt' = nAtt + 1
         /\ UNCHANGED sha
<1> USE DEF TypeOK, TypePc, TypeAtt, OthersKept, Emit, Goto
<1>1. nAtt + 1 \in Attempts /\ nAtt' = nAtt + 1 /\ UNCHANGED sha
  BY BoundsAssumption DEF TypeWf, Dispatch, Attempts, attVars
<1>2. \A y \in Actors \ {nAtt + 1} : pc'[y] = pc[y]
  BY DEF Dispatch
<1>3. \A b \in Attempts \ {nAtt + 1} : evt'[b] = evt[b]
  BY DEF Dispatch, Actors
<1> QED BY <1>1, <1>2, <1>3 DEF Dispatch, reqVars

(***************************************************************************)
(* Placed                                                                  *)
(***************************************************************************)

\* For a step of attempt a only a's own place has to be looked at.
LEMMA PlacedByAttempt ==
  ASSUME TypeOK, Placed, NEW a \in Attempts,
         AttemptStep(a) \/ SandboxPush(a) \/ Fault(a),
         IsFiniteSet(log'), PlacedAttempt(a)'
  PROVE  Placed'
<1>1. OthersKept(a) /\ UNCHANGED <<nAtt, wish>>
  BY AttemptLocal
<1>2. \A b \in Attempts : PlacedAttempt(b)'
  BY <1>1 DEF OthersKept, Placed, PlacedAttempt, Actors
<1>3. \A q \in Requests : PlacedRequest(q)'
  BY <1>1, RequestsAssumption DEF OthersKept, Placed, PlacedRequest, Actors, Attempts
<1> QED BY <1>2, <1>3 DEF Placed, Attempts

\* Every step keeps each process at a place that fits its event.
LEMMA PlacedStep ==
  ASSUME TypeOK, Placed, [Next]_vars
  PROVE  Placed'
<1> USE DEF At, Goto, Returned, Emit, Throw, TypeOK, TypePc, TypeAtt, Actors
<1>1. CASE Dispatch
  <2>1. PICK a \in Attempts : a = nAtt + 1
    BY <1>1, DispatchLocal
  <2>2. OthersKept(a) /\ nAtt' = a /\ UNCHANGED <<log, wish>>
    BY <1>1, <2>1, DispatchLocal DEF Dispatch, dbVars, reqVars
  <2>3. nAtt \in Nat
    BY DEF TypeWf
  <2>4. PlacedAttempt(a)'
    <3>1. \/ evt'[a] = evt[a] /\ pc'[a] = "plan"
          \/ evt'[a] = Plain("sandbox_started") /\ pc'[a] = "check"
      BY <1>1, <2>1 DEF Dispatch
    <3>2. evt[a].type = "none"
      BY <2>1, <2>3 DEF Placed, PlacedAttempt
    <3> QED BY <2>1, <2>2, <2>3, <3>1, <3>2 DEF Plain, Event, PlacedAttempt,
            AttemptPc, Ended, InTransition, MovesRun
  <2>5. ASSUME NEW b \in Attempts, b # a PROVE PlacedAttempt(b)'
    <3>1. pc'[b] = pc[b] /\ evt'[b] = evt[b] /\ PlacedAttempt(b)
      BY <2>2, <2>5 DEF OthersKept, Placed
    <3>2. b > nAtt' => b > nAtt
      BY <2>1, <2>2, <2>3 DEF Attempts
    <3> QED BY <3>1, <3>2 DEF PlacedAttempt
  <2>6. \A q \in Requests : PlacedRequest(q)'
    BY <2>2, RequestsAssumption DEF OthersKept, Placed, PlacedRequest, Attempts
  <2> QED BY <2>2, <2>4, <2>5, <2>6 DEF Placed, Attempts
<1>2. ASSUME NEW a \in Attempts, AttemptStep(a) \/ SandboxPush(a) \/ Fault(a)
      PROVE  Placed'
  <2>1. pc[a] \in AttemptPc /\ PlacedAttempt(a) BY DEF Placed, PlacedAttempt
  <2>2. UNCHANGED nAtt BY <1>2, AttemptLocal
  <2>3. IsFiniteSet(log')
    <3>1. log' = log \/ \E row : log' = log \cup {row}
      <4>1. CASE Sink(a)
        BY <4>1 DEF Sink, SinkCheck, SinkInsert, SinkCard, SinkCheckpoint, dbVars
      <4>2. CASE Transition(a)
        BY <4>2 DEF Transition, TransitionCheck, TransitionWrite, TransitionTask, dbVars
      <4>3. CASE Fusion(a)
        BY <4>3 DEF Fusion, ProposePlan, ParkPlan, CallSandbox, FindPr, OpenPr, Poll,
           ChecksPending, Gate, Merge, ChecksFailed, CiFix, dbVars
      <4>4. CASE Tail(a)
        BY <4>4 DEF Tail, Meter, CountReputation, EscalateTask, Complete, dbVars
      <4>5. CASE SandboxPush(a) \/ Fault(a)
        BY <4>5 DEF SandboxPush, Fault, Abort, TimeOut, SandboxFails, dbVars
      <4> QED BY <1>2, <4>1, <4>2, <4>3, <4>4, <4>5 DEF AttemptStep
    <3> QED BY <3>1, FS_AddElement DEF Placed
  <2>4. PlacedAttempt(a)'
    <3> USE DEF PlacedAttempt, InTransition, AttemptPc, Ended
    <3>1. CASE Sink(a)
      BY <3>1, <2>1, <2>2 DEF Sink, SinkCheck, SinkInsert, SinkCard, AfterCard, SinkCheckpoint,
         HasCommit, MovesRun, attVars
    <3>2. CASE Transition(a)
      BY <3>2, <2>1, <2>2 DEF Transition, TransitionCheck, TransitionWrite,
         TransitionTask, AfterTransition, attVars, MovesRun
    <3>3. CASE Fusion(a)
      <4> USE <2>1, <2>2 DEF Plain, Event, MovesRun
      <4>1. CASE ProposePlan(a) \/ ParkPlan(a) \/ CallSandbox(a)
        BY <4>1 DEF ProposePlan, ParkPlan, CallSandbox, Outcome, FusionOutcome
      <4>2. CASE FindPr(a) \/ OpenPr(a)
        BY <4>2 DEF FindPr, OpenPr
      <4>3. CASE Poll(a)
        BY <4>3 DEF Poll, Checks
      <4>4. CASE ChecksPending(a)
        BY <4>4 DEF ChecksPending, Outcome, FusionOutcome
      <4>5. CASE Gate(a)
        BY <4>5 DEF Gate, Outcome, FusionOutcome
      <4>6. CASE Merge(a)
        BY <4>6 DEF Merge, Outcome, FusionOutcome
      <4>7. CASE ChecksFailed(a)
        BY <4>7 DEF ChecksFailed, FixAttempt, Outcome, FusionOutcome
      <4>8. CASE CiFix(a)
        BY <4>8 DEF CiFix
      <4> QED BY <3>3, <4>1, <4>2, <4>3, <4>4, <4>5, <4>6, <4>7, <4>8 DEF Fusion
    <3>4. CASE Tail(a)
      BY <3>4, <2>1, <2>2 DEF Tail, Meter, CountReputation, EscalateTask,
         Complete, attVars
    <3>5. CASE SandboxPush(a)
      BY <3>5, <2>1, <2>2 DEF SandboxPush, Plain, Event
    <3>6. CASE Fault(a)
      BY <3>6, <2>1, <2>2 DEF Fault, Abort, TimeOut, SandboxFails, attVars, Live
    <3> QED BY <1>2, <3>1, <3>2, <3>3, <3>4, <3>5, <3>6 DEF AttemptStep
  <2> QED BY <1>2, <2>3, <2>4, PlacedByAttempt
<1>3. ASSUME NEW q \in Requests, RequestStep(q) PROVE Placed'
  <2>1. OthersKept(q) /\ UNCHANGED attVars /\ UNCHANGED nAtt
    BY <1>3, RequestLocal
  <2>2. UNCHANGED log
    BY <1>3 DEF RequestStep, LoadPlan, LoadHeld, LandHeld, StartExecution,
       AbortRequest, Transition, TransitionCheck, TransitionWrite, TransitionTask, dbVars
  <2>3. \A a \in Attempts : PlacedAttempt(a)'
    BY <2>1, RequestsAssumption DEF OthersKept, Placed, PlacedAttempt, attVars, Attempts
  <2>4. PlacedRequest(q)'
    <3> USE DEF Placed, PlacedRequest, RequestPc, InTransition, TypeReq
    <3>1. q \notin Attempts
      BY RequestsAssumption DEF Attempts
    <3>2. CASE Transition(q)
      BY <3>1, <3>2 DEF Transition, TransitionCheck, TransitionWrite,
         TransitionTask, AfterTransition, reqVars
    <3>3. ASSUME NEW verdict \in {"running", "error"}, LoadPlan(q, verdict)
          PROVE  PlacedRequest(q)'
      BY <3>3 DEF LoadPlan
    <3>4. CASE LoadHeld(q) \/ StartExecution(q) \/ AbortRequest(q)
      BY <3>4 DEF LoadHeld, StartExecution, AbortRequest
    <3>5. CASE LandHeld(q)
      BY <3>5 DEF LandHeld, reqVars
    <3> QED BY <1>3, <3>2, <3>3, <3>4, <3>5 DEF RequestStep
  <2>5. \A p \in Requests : PlacedRequest(p)'
    BY <2>1, <2>4 DEF OthersKept, Placed, PlacedRequest
  <2> QED BY <2>2, <2>3, <2>5 DEF Placed
<1>4. CASE UNCHANGED vars
  BY <1>4 DEF vars, dbVars, wfVars, attVars, reqVars, Placed, PlacedAttempt, PlacedRequest
<1> QED BY <1>1, <1>2, <1>3, <1>4 DEF Next

(***************************************************************************)
(* Owned                                                                   *)
(***************************************************************************)

\* A request changes nothing of the repository but lands the pull request.
LEMMA RequestRepo ==
  ASSUME NEW q \in Requests, RequestStep(q)
  PROVE  \/ UNCHANGED ghVars
         \/ /\ LandHeld(q)
            /\ pr = "open" /\ pr' = "merged" /\ landedBy' = "human"
            /\ UNCHANGED <<autonomy, remote, green>>
<1> USE DEF ghVars
<1>1. CASE LandHeld(q)
  BY <1>1 DEF LandHeld
<1>2. CASE Transition(q)
  BY <1>2 DEF Transition, TransitionCheck, TransitionWrite, TransitionTask
<1>3. CASE ~LandHeld(q) /\ ~Transition(q)
  BY <1>3 DEF RequestStep, LoadPlan, LoadHeld, StartExecution, AbortRequest
<1> QED BY <1>1, <1>2, <1>3

\* Steps that push nothing.
LEMMA OwnedQuiet ==
  ASSUME Owned, NEW a \in Attempts, OthersKept(a), UNCHANGED <<sha, remote>>,
         pr # "none" => pr' # "none", pr' # "none" => remote > 0,
         AfterPush(evt'[a]) => sha[a] > 0,
         AfterOpen(evt'[a]) => pr' # "none"
  PROVE  Owned'
BY DEF Owned, SinglePusher, OthersKept

\* Every step keeps the branch with its one owner.
LEMMA OwnedStep ==
  ASSUME TypeOK, Placed, Owned, [Next]_vars
  PROVE  Owned'
<1> USE DEF At, Goto, Returned, Emit, TypeOK, TypeAtt, TypePc
<1>1. CASE Dispatch
  <2>1. PICK a \in Attempts : a = nAtt + 1
    BY <1>1, DispatchLocal
  <2>2. OthersKept(a) /\ UNCHANGED <<sha, remote, pr>>
    BY <1>1, <2>1, DispatchLocal DEF Dispatch, ghVars
  <2>3. evt'[a] = evt[a] \/ evt'[a] = Plain("sandbox_started")
    BY <1>1, <2>1 DEF Dispatch
  <2> QED BY <2>2, <2>3, OwnedQuiet DEF Owned, AfterPush, AfterOpen, Plain, Event
<1>2. ASSUME NEW a \in Attempts, SandboxPush(a) PROVE Owned'
  <2>1. OthersKept(a) /\ UNCHANGED pr
    BY <1>2, AttemptLocal DEF SandboxPush
  <2>2. CASE PushAccepted
    <3>1. pr = "none" /\ \A b \in Attempts : sha[b] = 0
      BY <2>2 DEF PushAccepted, Owned, TypeGh
    <3>2. sha'[a] = 1 /\ remote' = 1
      BY <1>2, <2>2 DEF SandboxPush, PushAccepted
    <3>3. evt'[a] = evt[a] \/ evt'[a] = Plain("branch_pushed")
      BY <1>2, <2>2 DEF SandboxPush
    <3>4. \A b \in Attempts \ {a} : sha'[b] = 0 /\ evt'[b] = evt[b]
      BY <2>1, <3>1 DEF OthersKept
    <3> QED BY <2>1, <3>1, <3>2, <3>3, <3>4 DEF Owned, SinglePusher, AfterPush,
            AfterOpen, Plain, Event
  <2>3. CASE ~PushAccepted
    <3>1. UNCHANGED <<sha, remote, evt>>
      BY <1>2, <2>3 DEF SandboxPush
    <3> QED BY <2>1, <3>1, OwnedQuiet DEF Owned
  <2> QED BY <2>2, <2>3
<1>3. ASSUME NEW a \in Attempts, CiFix(a) PROVE Owned'
  <2>1. OthersKept(a) /\ UNCHANGED <<pr, evt>>
    BY <1>3, AttemptLocal DEF CiFix, AttemptStep, Fusion
  <2>2. sha[a] > 0 /\ \A b \in Attempts \ {a} : sha[b] = 0
    BY <1>3 DEF CiFix, Owned, SinglePusher, AfterPush
  <2>3. sha'[a] = remote + 1 /\ remote' = remote + 1 /\ remote \in Nat
    BY <1>3 DEF CiFix, TypeGh
  <2>4. \A b \in Attempts \ {a} : sha'[b] = 0
    BY <2>1, <2>2 DEF OthersKept
  <2> QED BY <2>1, <2>2, <2>3, <2>4 DEF Owned, SinglePusher
<1>4. ASSUME NEW a \in Attempts, AttemptStep(a) \/ Fault(a), ~CiFix(a)
      PROVE  Owned'
  <2>1. OthersKept(a) BY <1>4, AttemptLocal
  <2> USE DEF AfterPush, AfterOpen, Plain, Event
  <2>2. CASE UNCHANGED <<evt, sha, remote, pr>>
    BY <2>1, <2>2, OwnedQuiet DEF Owned
  <2>3. CASE ProposePlan(a) \/ ParkPlan(a)
    BY <2>1, <2>3, OwnedQuiet DEF ProposePlan, ParkPlan, Outcome, ghVars, Owned
  <2>4. CASE FindPr(a)
    BY <2>1, <2>4, OwnedQuiet DEF FindPr, ghVars, Owned
  <2>5. CASE OpenPr(a)
    BY <2>1, <2>5, OwnedQuiet DEF OpenPr, Owned, Placed, PlacedAttempt
  <2>6. CASE Poll(a)
    <3>1. AfterPush(evt[a]) /\ AfterOpen(evt[a])
      BY <2>6 DEF Poll, Placed, PlacedAttempt
    <3>2. UNCHANGED <<sha, remote, pr>>
      BY <2>6 DEF Poll
    <3> QED BY <2>1, <3>1, <3>2, OwnedQuiet DEF Owned
  <2>7. CASE ChecksPending(a) \/ Gate(a) \/ ChecksFailed(a)
    <3>1. AfterPush(evt[a]) /\ AfterOpen(evt[a])
      BY <2>7 DEF ChecksPending, Gate, ChecksFailed
    <3>2. UNCHANGED <<sha, remote, pr>>
      BY <2>7 DEF ChecksPending, Gate, ChecksFailed, ghVars
    <3> QED BY <2>1, <3>1, <3>2, OwnedQuiet DEF Owned
  <2>8. CASE Merge(a)
    <3>1. AfterPush(evt[a]) /\ AfterOpen(evt[a])
      BY <2>8 DEF Merge, Placed, PlacedAttempt
    <3>2. UNCHANGED <<sha, remote>> /\ pr' # "none"
      BY <2>8 DEF Merge
    <3> QED BY <2>1, <3>1, <3>2, OwnedQuiet DEF Owned
  <2>9. Fault(a) \/ Sink(a) \/ Transition(a) \/ Tail(a) \/ CallSandbox(a)
          => UNCHANGED <<evt, sha, remote, pr>>
    BY DEF Fault, TimeOut, Abort, SandboxFails, Sink, SinkCheck, SinkInsert,
       SinkCard, SinkCheckpoint, Transition, TransitionCheck, TransitionWrite,
       TransitionTask, Tail, Meter, CountReputation, EscalateTask, Complete,
       CallSandbox, ghVars, attVars
  <2> QED BY <1>4, <2>2, <2>3, <2>4, <2>5, <2>6, <2>7, <2>8, <2>9
          DEF AttemptStep, Fusion
<1>5. ASSUME NEW q \in Requests, RequestStep(q) PROVE Owned'
  <2>1. UNCHANGED <<evt, sha>>
    BY <1>5, RequestLocal DEF attVars
  <2>2. CASE UNCHANGED ghVars
    BY <2>1, <2>2 DEF Owned, SinglePusher, ghVars
  <2>3. CASE pr = "open" /\ pr' = "merged" /\ UNCHANGED <<autonomy, remote, green>>
    BY <2>1, <2>3 DEF Owned, SinglePusher
  <2> QED BY <1>5, <2>2, <2>3, RequestRepo
<1>6. CASE UNCHANGED vars
  BY <1>6 DEF vars, ghVars, attVars, Owned, SinglePusher
<1> QED BY <1>1, <1>2, <1>3, <1>4, <1>5, <1>6 DEF Next

(***************************************************************************)
(* The steps that touch the repository, and what the others leave alone.   *)
(***************************************************************************)

LEMMA GitHubSteps ==
  ASSUME TypeOK, [Next]_vars
  PROVE
  \/ UNCHANGED ghVars
  \/ /\ \E a \in Attempts : SandboxPush(a) \/ CiFix(a)
     /\ remote' = remote + 1
     /\ UNCHANGED <<autonomy, pr, green, landedBy>>
  \/ /\ \E a \in Attempts : OpenPr(a)
     /\ pr = "none" /\ pr' = "open"
     /\ UNCHANGED <<autonomy, remote, green, landedBy>>
  \/ /\ \E a \in Attempts : Poll(a) /\ green' = green \cup {sha[a]}
     /\ UNCHANGED <<autonomy, remote, pr, landedBy>>
  \/ /\ \E a \in Attempts : Merge(a)
     /\ pr = "open" /\ pr' = "merged" /\ landedBy' = "policy"
     /\ UNCHANGED <<autonomy, remote, green>>
  \/ /\ \E q \in Requests : LandHeld(q)
     /\ pr = "open" /\ pr' = "merged" /\ landedBy' = "human"
     /\ UNCHANGED <<autonomy, remote, green>>
<1> USE DEF ghVars
<1>1. CASE Dispatch
  BY <1>1 DEF Dispatch
<1>2. ASSUME NEW a \in Attempts, Sink(a) \/ Tail(a) \/ Fault(a)
      PROVE  UNCHANGED ghVars
  BY <1>2 DEF Sink, SinkCheck, SinkInsert, SinkCard, SinkCheckpoint, Tail, Meter,
     CountReputation, EscalateTask, Complete, Fault, TimeOut, Abort, SandboxFails
<1>3. ASSUME NEW x \in Actors, Transition(x)
      PROVE  UNCHANGED ghVars
  BY <1>3 DEF Transition, TransitionCheck, TransitionWrite, TransitionTask
<1>4. ASSUME NEW a \in Attempts,
             \/ ProposePlan(a) \/ ParkPlan(a) \/ CallSandbox(a) \/ FindPr(a)
             \/ ChecksPending(a) \/ Gate(a) \/ ChecksFailed(a)
      PROVE  UNCHANGED ghVars
  BY <1>4 DEF ProposePlan, ParkPlan, CallSandbox, FindPr, ChecksPending, Gate,
     ChecksFailed
<1>5. ASSUME NEW a \in Attempts, OpenPr(a)
      PROVE  \/ UNCHANGED ghVars
             \/ /\ pr = "none" /\ pr' = "open"
                /\ UNCHANGED <<autonomy, remote, green, landedBy>>
  BY <1>5 DEF OpenPr
<1>6. ASSUME NEW a \in Attempts, Poll(a)
      PROVE  \/ UNCHANGED ghVars
             \/ /\ green' = green \cup {sha[a]}
                /\ UNCHANGED <<autonomy, remote, pr, landedBy>>
  BY <1>6 DEF Poll
<1>7. ASSUME NEW a \in Attempts, Merge(a)
      PROVE  \/ UNCHANGED ghVars
             \/ /\ pr = "open" /\ pr' = "merged" /\ landedBy' = "policy"
                /\ UNCHANGED <<autonomy, remote, green>>
  BY <1>7 DEF Merge
<1>8. ASSUME NEW a \in Attempts, SandboxPush(a) \/ CiFix(a)
      PROVE  \/ UNCHANGED ghVars
             \/ /\ remote' = remote + 1
                /\ UNCHANGED <<autonomy, pr, green, landedBy>>
  BY <1>8 DEF SandboxPush, CiFix
<1>9. ASSUME NEW q \in Requests, RequestStep(q)
      PROVE  \/ UNCHANGED ghVars
             \/ /\ LandHeld(q)
                /\ pr = "open" /\ pr' = "merged" /\ landedBy' = "human"
                /\ UNCHANGED <<autonomy, remote, green>>
  BY <1>9, RequestRepo
<1>10. ASSUME NEW a \in Attempts, AttemptStep(a)
       PROVE  \/ UNCHANGED ghVars \/ OpenPr(a) \/ Poll(a) \/ Merge(a) \/ CiFix(a)
  BY <1>2, <1>3, <1>4, <1>10 DEF AttemptStep, Fusion, Actors
<1>11. CASE UNCHANGED vars
  BY <1>11 DEF vars
<1>12. CASE \E a \in Attempts : AttemptStep(a) \/ SandboxPush(a) \/ Fault(a)
  BY <1>2, <1>5, <1>6, <1>7, <1>8, <1>10, <1>12
<1>13. CASE \E q \in Requests : RequestStep(q)
  BY <1>9, <1>13
<1> QED BY <1>1, <1>11, <1>12, <1>13 DEF Next

\* An outcome and an abort are final for an attempt, and so is its push.
LEMMA Settled ==
  ASSUME TypeOK, Placed, [Next]_vars, NEW b \in Attempts
  PROVE  /\ evt[b].type = "outcome" => evt'[b] = evt[b]
         /\ pc[b] = "aborted" => pc'[b] = "aborted"
         /\ sha[b] > 0 => sha'[b] > 0
<1> USE DEF At, Goto, Returned, Emit, Throw, TypeOK, TypeAtt, TypePc
<1>1. CASE Dispatch
  <2>1. PICK a \in Attempts : a = nAtt + 1
    BY <1>1, DispatchLocal
  <2>2. OthersKept(a) /\ UNCHANGED sha
    BY <1>1, <2>1, DispatchLocal
  <2>3. pc[a] = "idle" /\ evt[a].type = "none"
    BY <2>1 DEF Placed, PlacedAttempt, TypeWf
  <2> QED BY <2>2, <2>3 DEF OthersKept, Actors
<1>2. ASSUME NEW a \in Attempts, AttemptStep(a) \/ SandboxPush(a) \/ Fault(a),
             a # b
      PROVE  evt'[b] = evt[b] /\ pc'[b] = pc[b] /\ sha'[b] = sha[b]
  BY <1>2, AttemptLocal DEF OthersKept, Actors
<1>3. ASSUME NEW q \in Requests, RequestStep(q)
      PROVE  evt'[b] = evt[b] /\ pc'[b] = pc[b] /\ sha'[b] = sha[b]
  BY <1>3, RequestLocal, RequestsAssumption DEF OthersKept, Actors, Attempts, attVars
<1>4. CASE Fault(b)
  BY <1>4 DEF Fault, TimeOut, Abort, SandboxFails, Live, Ended, attVars
<1>5. CASE SandboxPush(b)
  <2>1. PlacedAttempt(b) BY DEF Placed
  <2>2. sha'[b] = sha[b] \/ (sha'[b] = remote + 1 /\ remote \in Nat)
    BY <1>5 DEF SandboxPush, TypeGh
  <2> QED BY <1>5, <2>1, <2>2 DEF SandboxPush, PlacedAttempt
<1>6. CASE Sink(b) \/ Transition(b) \/ Tail(b)
  BY <1>6 DEF Sink, SinkCheck, SinkInsert, SinkCard, SinkCheckpoint, Tail, Meter,
     CountReputation, EscalateTask, Complete, Transition, TransitionCheck,
     TransitionWrite, TransitionTask, attVars
<1>7. CASE Fusion(b)
  <2>1. PlacedAttempt(b) BY DEF Placed
  <2> USE <2>1 DEF PlacedAttempt
  <2>2. CASE ProposePlan(b) \/ ParkPlan(b) \/ CallSandbox(b) \/ FindPr(b) \/ OpenPr(b)
    BY <2>2 DEF ProposePlan, ParkPlan, CallSandbox, FindPr, OpenPr
  <2>3. CASE Poll(b)
    BY <2>3 DEF Poll
  <2>4. CASE ChecksPending(b) \/ Gate(b) \/ Merge(b) \/ ChecksFailed(b)
    BY <2>4 DEF ChecksPending, Gate, Merge, ChecksFailed
  <2>5. CASE CiFix(b)
    BY <2>5 DEF CiFix, TypeGh
  <2> QED BY <1>7, <2>2, <2>3, <2>4, <2>5 DEF Fusion
<1>8. CASE UNCHANGED vars
  BY <1>8 DEF vars, attVars
<1> QED BY <1>1, <1>2, <1>3, <1>4, <1>5, <1>6, <1>7, <1>8 DEF Next, AttemptStep

(***************************************************************************)
(* Vouched                                                                 *)
(***************************************************************************)

\* Once the pull request has landed its branch is frozen, and so is who
\* landed it.
LEMMA LandedIsFrozen ==
  ASSUME TypeOK, Placed, Owned, Vouched, [Next]_vars, pr = "merged"
  PROVE  UNCHANGED <<autonomy, remote, pr, landedBy>>
<1>1. remote > 0 BY DEF Owned
<1>2. PICK b \in Attempts : DonePushing(b) BY DEF Vouched
<1>3. ASSUME NEW a \in Attempts, SandboxPush(a), remote' = remote + 1 PROVE FALSE
  BY <1>1, <1>3 DEF SandboxPush, PushAccepted, TypeOK, TypeGh
<1>4. ASSUME NEW a \in Attempts, CiFix(a) PROVE FALSE
  <2>1. sha[a] > 0 /\ pc[a] = "ret" /\ evt[a].type = "ci_fix_attempt"
    BY <1>4 DEF CiFix, Returned, At, Owned, AfterPush
  <2>2. a = b BY <1>2, <2>1 DEF Owned, SinglePusher, DonePushing
  <2> QED BY <1>2, <2>1, <2>2 DEF DonePushing
<1> QED BY <1>3, <1>4, GitHubSteps DEF ghVars

\* What a step does to the green verdict of an attempt and to its licence.
LEMMA GreenStep ==
  ASSUME TypeOK, Placed, Owned, Vouched, [Next]_vars, NEW b \in Attempts
  PROVE  /\ SawGreen(b)' => sha'[b] \in green'
         /\ pc'[b] = "merge" => autonomy' = "autopilot-merge"
<1> USE DEF At, Goto, Returned, Emit, Throw, TypeOK, TypeAtt, TypePc, SawGreen
<1>0. (green' = green \/ \E c \in Attempts : green' = green \cup {sha[c]})
      /\ UNCHANGED autonomy
  BY GitHubSteps DEF ghVars
<1>00. /\ SawGreen(b) => sha[b] \in green
       /\ pc[b] = "merge" => autonomy = "autopilot-merge"
       /\ PlacedAttempt(b)
  BY DEF Vouched, Placed
<1>1. CASE evt'[b] = evt[b] /\ pc'[b] = pc[b] /\ sha'[b] = sha[b]
  BY <1>0, <1>00, <1>1
<1>2. CASE Dispatch
  <2>1. PICK a \in Attempts : a = nAtt + 1
    BY <1>2, DispatchLocal
  <2>2. OthersKept(a) /\ UNCHANGED sha
    BY <1>2, <2>1, DispatchLocal
  <2>3. CASE a = b
    BY <1>2, <2>1, <2>2, <2>3, <1>00 DEF Dispatch, Plain, Event, PlacedAttempt, TypeWf
  <2>4. CASE a # b
    BY <2>2, <2>4, <1>1 DEF OthersKept, Actors
  <2> QED BY <2>3, <2>4
<1>3. ASSUME NEW a \in Attempts, AttemptStep(a) \/ SandboxPush(a) \/ Fault(a),
             a # b
      PROVE  evt'[b] = evt[b] /\ pc'[b] = pc[b] /\ sha'[b] = sha[b]
  BY <1>3, AttemptLocal DEF OthersKept, Actors
<1>4. ASSUME NEW q \in Requests, RequestStep(q)
      PROVE  evt'[b] = evt[b] /\ pc'[b] = pc[b] /\ sha'[b] = sha[b]
  BY <1>4, RequestLocal, RequestsAssumption DEF OthersKept, Actors, Attempts, attVars
<1>5. CASE Fault(b) \/ Sink(b) \/ Transition(b) \/ Tail(b) \/ CallSandbox(b)
  <2>1. UNCHANGED <<evt, sha>>
    BY <1>5 DEF Fault, TimeOut, Abort, SandboxFails, Sink, SinkCheck, SinkInsert,
       SinkCard, SinkCheckpoint, Transition, TransitionCheck, TransitionWrite,
       TransitionTask, Tail, Meter, CountReputation, EscalateTask, Complete,
       CallSandbox, attVars
  <2>2. pc'[b] = "merge" => pc[b] = "merge"
    BY <1>5 DEF Fault, TimeOut, Abort, SandboxFails, Sink, SinkCheck, SinkInsert,
       SinkCard, AfterCard, SinkCheckpoint, Transition, TransitionCheck,
       TransitionWrite, TransitionTask, AfterTransition, Tail, Meter,
       CountReputation, EscalateTask, Complete, CallSandbox
  <2> QED BY <1>0, <1>00, <2>1, <2>2
<1>6. CASE SandboxPush(b)
  <2>1. UNCHANGED green
    BY <1>6 DEF SandboxPush
  <2>2. CASE PushAccepted
    BY <1>6, <1>00, <2>1, <2>2 DEF SandboxPush, Plain, Event, PushAccepted, Owned,
       AfterPush, PlacedAttempt
  <2>3. CASE ~PushAccepted
    BY <1>6, <1>00, <2>1, <2>3, <1>0 DEF SandboxPush
  <2> QED BY <2>2, <2>3
<1>7. CASE Fusion(b)
  <2> USE <1>0, <1>00 DEF Event, Plain, Checks, FixAttempt, Outcome
  <2>1. CASE ProposePlan(b) \/ ParkPlan(b) \/ FindPr(b) \/ OpenPr(b)
    BY <2>1 DEF ProposePlan, ParkPlan, FindPr, OpenPr
  <2>2. CASE Poll(b)
    BY <2>2 DEF Poll
  <2>3. CASE ChecksPending(b) \/ ChecksFailed(b)
    BY <2>3 DEF ChecksPending, ChecksFailed
  <2>4. CASE Gate(b)
    BY <2>4 DEF Gate, mergeGate, decideMerge
  <2>5. CASE Merge(b)
    BY <2>5 DEF Merge, PlacedAttempt
  <2>6. CASE CiFix(b)
    BY <2>6 DEF CiFix
  <2> QED BY <1>5, <1>7, <2>1, <2>2, <2>3, <2>4, <2>5, <2>6 DEF Fusion
<1>8. CASE UNCHANGED vars
  BY <1>8, <1>1 DEF vars, attVars
<1> QED BY <1>1, <1>2, <1>3, <1>4, <1>5, <1>6, <1>7, <1>8 DEF Next, AttemptStep

\* An attempt that held the pull request has held it for good.
LEMMA HoldsStays ==
  ASSUME TypeOK, Placed, [Next]_vars, NEW b \in Attempts, Holds(b)
  PROVE  Holds(b)'
BY Settled DEF Holds

\* An owner that is done pushing stays so.
LEMMA DonePushingStays ==
  ASSUME TypeOK, Placed, [Next]_vars, NEW b \in Attempts, DonePushing(b)
  PROVE  DonePushing(b)'
BY Settled DEF DonePushing

\* The run becomes held only through the attempt whose outcome says so.
LEMMA HeldStep ==
  ASSUME TypeOK, Placed, Vouched, [Next]_vars, runState' = "held_for_human"
  PROVE  \E a \in Attempts : Holds(a)
<1>1. UNCHANGED <<runState>> \/ \E x \in Actors : TransitionWrite(x)
  <2> USE DEF dbVars
  <2>1. CASE Dispatch
    BY <2>1 DEF Dispatch
  <2>2. ASSUME NEW x \in Actors, Transition(x)
        PROVE  UNCHANGED <<runState>> \/ TransitionWrite(x)
    BY <2>2 DEF Transition, TransitionCheck, TransitionTask
  <2>3. ASSUME NEW a \in Attempts, Sink(a) \/ Tail(a) \/ Fault(a) \/ SandboxPush(a)
        PROVE  UNCHANGED <<runState>>
    BY <2>3 DEF Sink, SinkCheck, SinkInsert, SinkCard, SinkCheckpoint, Tail, Meter,
       CountReputation, EscalateTask, Complete, Fault, TimeOut, Abort,
       SandboxFails, SandboxPush
  <2>4. ASSUME NEW a \in Attempts, Fusion(a)
        PROVE  UNCHANGED <<runState>>
    BY <2>4 DEF Fusion, ProposePlan, ParkPlan, CallSandbox, FindPr, OpenPr, Poll,
       ChecksPending, Gate, Merge, ChecksFailed, CiFix
  <2>5. ASSUME NEW q \in Requests, RequestStep(q), ~Transition(q)
        PROVE  UNCHANGED <<runState>>
    BY <2>5 DEF RequestStep, LoadPlan, LoadHeld, LandHeld, StartExecution, AbortRequest
  <2>6. CASE UNCHANGED vars
    BY <2>6 DEF vars
  <2> QED BY <2>1, <2>2, <2>3, <2>4, <2>5, <2>6 DEF Next, AttemptStep, Actors
<1>2. CASE UNCHANGED <<runState>>
  BY <1>2 DEF Vouched
<1>3. ASSUME NEW x \in Actors, TransitionWrite(x)
      PROVE  \E a \in Attempts : Holds(a)
  <2>1. Wanted(x) = "held_for_human" /\ pc[x] = "trWrite"
    BY <1>3 DEF TransitionWrite, At
  <2>2. CASE x \in Attempts
    BY <2>1, <2>2 DEF Wanted, Target, Placed, PlacedAttempt, InTransition, MovesRun, Holds
  <2>3. CASE x \in Requests /\ x \notin Attempts
    BY <2>1, <2>3 DEF Wanted, TypeOK, TypeReq
  <2> QED BY <2>2, <2>3 DEF Actors
<1> QED BY <1>1, <1>2, <1>3

\* A request gets to land only while the run is held.
LEMMA LandStep ==
  ASSUME TypeOK, Placed, Vouched, [Next]_vars, NEW q \in Requests, pc'[q] = "land"
  PROVE  \E a \in Attempts : Holds(a)
<1> USE DEF TypeOK, TypePc, Actors, Goto, At
<1>1. CASE pc[q] = "land"
  BY <1>1 DEF Vouched
<1>2. CASE Dispatch
  BY <1>2, DispatchLocal, RequestsAssumption, <1>1 DEF OthersKept, Attempts
<1>3. CASE \E a \in Attempts : AttemptStep(a) \/ SandboxPush(a) \/ Fault(a)
  BY <1>3, AttemptLocal, RequestsAssumption, <1>1 DEF OthersKept, Attempts
<1>4. ASSUME NEW p \in Requests, RequestStep(p), p # q
      PROVE  pc[q] = "land"
  BY <1>4, RequestLocal DEF OthersKept
<1>5. CASE RequestStep(q) /\ pc[q] # "land"
  <2>1. runState = "held_for_human"
    BY <1>5, RequestsAssumption DEF RequestStep, LoadPlan, LoadHeld, LandHeld, StartExecution,
       AbortRequest, Transition, TransitionCheck, TransitionWrite,
       TransitionTask, AfterTransition, Attempts
  <2> QED BY <2>1 DEF Vouched
<1>6. CASE UNCHANGED vars
  BY <1>6, <1>1 DEF vars
<1> QED BY <1>1, <1>2, <1>3, <1>4, <1>5, <1>6 DEF Next

\* A step after which the pull request is merged landed it, or found it
\* landed, green and licensed.
LEMMA LicensedStep ==
  ASSUME TypeOK, Placed, Owned, Vouched, [Next]_vars, pr' = "merged"
  PROVE  /\ \E b \in Attempts : DonePushing(b)'
         /\ LandsGreenAndLicensed'
<1>1. green \subseteq green'
  BY GitHubSteps DEF ghVars
<1>2. CASE pr = "merged"
  <2>1. \E b \in Attempts : DonePushing(b)'
    BY <1>2, DonePushingStays DEF Vouched
  <2> QED BY <1>1, <1>2, <2>1, LandedIsFrozen DEF Vouched, LandsGreenAndLicensed
<1>3. ASSUME NEW a \in Attempts, Merge(a), pr = "open", landedBy' = "policy",
             UNCHANGED <<autonomy, remote, green>>
      PROVE  DonePushing(a)' /\ LandsGreenAndLicensed'
  <2>1. pc[a] = "merge" /\ SawGreen(a) /\ AfterPush(evt[a])
    BY <1>3 DEF Merge, At, Placed, PlacedAttempt, SawGreen, AfterPush
  <2>2. sha[a] > 0 /\ sha[a] = remote /\ sha[a] \in green
        /\ autonomy = "autopilot-merge"
    BY <2>1 DEF Owned, Vouched
  <2>3. DonePushing(a)'
    BY <1>3, <2>2 DEF Merge, Emit, Throw, Goto, Outcome, Event, DonePushing,
       TypeOK, TypePc, TypeAtt, Actors
  <2> QED BY <1>3, <2>2, <2>3 DEF LandsGreenAndLicensed
<1>4. ASSUME NEW q \in Requests, LandHeld(q), landedBy' = "human",
             UNCHANGED <<autonomy, remote, green>>
      PROVE  /\ \E b \in Attempts : DonePushing(b)'
             /\ LandsGreenAndLicensed'
  <2>1. PICK b \in Attempts : Holds(b)
    BY <1>4 DEF LandHeld, At, Vouched
  <2>2. sha[b] > 0 /\ sha[b] = remote /\ sha[b] \in green
    BY <2>1 DEF Holds, SawGreen, AfterPush, Owned, Vouched
  <2>3. DonePushing(b)
    BY <2>1, <2>2 DEF Holds, DonePushing
  <2>4. DonePushing(b)'
    BY <2>3, DonePushingStays
  <2> QED BY <1>4, <2>2, <2>4 DEF LandsGreenAndLicensed
<1> QED BY <1>2, <1>3, <1>4, GitHubSteps DEF ghVars

\* Every step keeps the landing vouched for.
LEMMA VouchedStep ==
  ASSUME TypeOK, Placed, Owned, Vouched, [Next]_vars
  PROVE  Vouched'
<1>1. \A b \in Attempts : /\ SawGreen(b)' => sha'[b] \in green'
                          /\ pc'[b] = "merge" => autonomy' = "autopilot-merge"
  BY GreenStep
<1>2. (\E b \in Attempts : Holds(b)) => \E b \in Attempts : Holds(b)'
  BY HoldsStays
<1>3. runState' = "held_for_human" => \E b \in Attempts : Holds(b)'
  BY <1>2, HeldStep
<1>4. \A q \in Requests : pc'[q] = "land" => \E b \in Attempts : Holds(b)'
  BY <1>2, LandStep
<1>5. pr' = "merged" => \E b \in Attempts : DonePushing(b)'
  BY LicensedStep
<1>6. LandsGreenAndLicensed'
  BY LicensedStep DEF LandsGreenAndLicensed
<1> QED BY <1>1, <1>3, <1>4, <1>5, <1>6 DEF Vouched, Attempts

(***************************************************************************)
(* Unapproved                                                              *)
(***************************************************************************)

\* What the processes of a run have emitted before a plan is approved.
Planning ==
  /\ plan /\ remote = 0 /\ inflight = {}
  /\ \A a \in Attempts :
       \/ evt[a].type \in {"none", "plan_proposed"}
       \/ evt[a].type = "outcome" /\ evt[a].outcome = "awaiting_plan"

\* Attempts of a run whose plan is not approved only plan.
LEMMA PlanningByAttempt ==
  ASSUME TypeOK, Placed, Planning, NEW a \in Attempts,
         AttemptStep(a) \/ SandboxPush(a) \/ Fault(a)
  PROVE  Planning'
<1> USE DEF At, Goto, Returned, Emit
<1>1. OthersKept(a) /\ UNCHANGED plan
  BY AttemptLocal
<1>2. PlacedAttempt(a) BY DEF Placed
<1>3. CASE UNCHANGED <<evt, remote, inflight>>
  BY <1>1, <1>3 DEF Planning, Attempts
<1>4. CASE ProposePlan(a) \/ ParkPlan(a)
  <2>1. UNCHANGED <<remote, inflight>>
    BY <1>4 DEF ProposePlan, ParkPlan, ghVars
  <2>2. \/ evt'[a].type = "plan_proposed"
        \/ evt'[a].type = "outcome" /\ evt'[a].outcome = "awaiting_plan"
    BY <1>4 DEF ProposePlan, ParkPlan, Plain, Outcome, Event, TypeOK, TypeAtt
  <2>3. \A b \in Attempts \ {a} : evt'[b] = evt[b]
    BY <1>1 DEF OthersKept
  <2> QED BY <1>1, <2>1, <2>2, <2>3 DEF Planning, Attempts
<1>5. Sink(a) \/ Transition(a) \/ Tail(a) => UNCHANGED <<evt, remote, inflight>>
  BY DEF Sink, SinkCheck, SinkInsert, SinkCard, SinkCheckpoint, Transition,
     TransitionCheck, TransitionWrite, TransitionTask, Tail, Meter,
     CountReputation, EscalateTask, Complete, ghVars, attVars
<1>6. TimeOut(a) \/ Abort(a) => UNCHANGED <<evt, remote, inflight>>
  BY DEF TimeOut, Abort, ghVars, attVars
<1>7. ~SandboxPush(a) /\ ~SandboxFails(a)
  BY DEF SandboxPush, SandboxFails, Planning
<1>8. ~CallSandbox(a) /\ ~FindPr(a) /\ ~ChecksPending(a) /\ ~Gate(a)
      /\ ~ChecksFailed(a) /\ ~CiFix(a)
  BY DEF CallSandbox, FindPr, ChecksPending, Gate, ChecksFailed, CiFix, Planning
<1>9. ~OpenPr(a) /\ ~Poll(a) /\ ~Merge(a)
  BY <1>2 DEF OpenPr, Poll, Merge, Planning, PlacedAttempt
<1> QED BY <1>3, <1>4, <1>5, <1>6, <1>7, <1>8, <1>9 DEF AttemptStep, Fusion, Fault

\* Every step keeps an unapproved run away from the branch.
LEMMA UnapprovedStep ==
  ASSUME TypeOK, Placed, Unapproved, [Next]_vars
  PROVE  Unapproved'
<1> USE DEF TypeOK, TypePc, TypeReq, Goto, At
<1>1. asked' = asked /\ (planOk => planOk')
  <2>1. CASE Dispatch BY <2>1, Zenon DEF Dispatch, reqVars
  <2>2. CASE \E a \in Attempts : AttemptStep(a) \/ SandboxPush(a) \/ Fault(a)
    BY <2>2, AttemptLocal, Zenon
  <2>3. ASSUME NEW q \in Requests, NEW verdict \in {"running", "error"},
               LoadPlan(q, verdict)
        PROVE  asked' = asked /\ (planOk => planOk')
    BY <2>3, Zenon DEF LoadPlan
  <2>4. ASSUME NEW q \in Requests, Transition(q)
        PROVE  asked' = asked /\ (planOk => planOk')
    BY <2>4, Zenon DEF Transition, TransitionCheck, TransitionWrite, TransitionTask, reqVars
  <2>5. ASSUME NEW q \in Requests,
               LoadHeld(q) \/ LandHeld(q) \/ StartExecution(q) \/ AbortRequest(q)
        PROVE  asked' = asked /\ (planOk => planOk')
    BY <2>5, Zenon DEF LoadHeld, LandHeld, StartExecution, AbortRequest, reqVars
  <2>6. CASE UNCHANGED vars BY <2>6, Zenon DEF vars, reqVars
  <2> QED BY <2>1, <2>2, <2>3, <2>4, <2>5, <2>6 DEF Next, RequestStep
<1>2. ASSUME NEW q \in Requests, wish'[q] = "running" PROVE planOk'
  <2>1. CASE wish'[q] = wish[q]
    BY <1>1, <1>2, <2>1 DEF Unapproved
  <2>2. CASE wish'[q] # wish[q]
    <3>1. RequestStep(q)
      <4>1. ~Dispatch BY <2>2 DEF Dispatch, reqVars
      <4>2. ~\E a \in Attempts : AttemptStep(a) \/ SandboxPush(a) \/ Fault(a)
        BY <2>2, AttemptLocal
      <4>3. \A p \in Requests : RequestStep(p) => p = q
        BY <2>2, RequestLocal DEF OthersKept
      <4>4. ~UNCHANGED vars BY <2>2 DEF vars, reqVars
      <4> QED BY <4>1, <4>2, <4>3, <4>4 DEF Next
    <3>2. LoadPlan(q, "running") \/ LoadPlan(q, "error")
      BY <1>2, <2>2, <3>1 DEF RequestStep, LoadHeld, LandHeld, StartExecution,
         AbortRequest, Transition, TransitionCheck, TransitionWrite,
         TransitionTask, reqVars
    <3>3. LoadPlan(q, "running")
      BY <1>2, <3>2 DEF LoadPlan
    <3> QED BY <3>3, Zenon DEF LoadPlan
  <2> QED BY <2>1, <2>2
<1>3. ASSUME NEW q \in Requests, pc'[q] = "start" PROVE wish'[q] = "running"
  <2>0. q \notin Attempts BY RequestsAssumption DEF Attempts
  <2>1. CASE pc[q] = "start" /\ wish'[q] = wish[q]
    BY <2>1 DEF Unapproved
  <2>2. CASE Dispatch
    BY <1>3, <2>0, <2>1, <2>2, DispatchLocal DEF OthersKept, Actors, Dispatch, reqVars
  <2>3. CASE \E a \in Attempts : AttemptStep(a) \/ SandboxPush(a) \/ Fault(a)
    BY <1>3, <2>0, <2>1, <2>3, AttemptLocal DEF OthersKept, Actors
  <2>4. ASSUME NEW p \in Requests, RequestStep(p), p # q
        PROVE  pc[q] = "start" /\ wish'[q] = wish[q]
    BY <1>3, <2>4, RequestLocal DEF OthersKept, Actors
  <2>5. CASE RequestStep(q)
    <3>1. CASE Transition(q)
      BY <1>3, <2>0, <3>1 DEF Transition, TransitionCheck, TransitionWrite,
         TransitionTask, AfterTransition, Wanted, reqVars, Actors
    <3>2. CASE ~Transition(q)
      BY <1>3, <2>5, <3>2 DEF RequestStep, LoadPlan, LoadHeld, LandHeld,
         StartExecution, AbortRequest, Actors
    <3> QED BY <3>1, <3>2
  <2>6. CASE UNCHANGED vars
    BY <1>3, <2>1, <2>6 DEF vars, reqVars
  <2> QED BY <2>1, <2>2, <2>3, <2>4, <2>5, <2>6 DEF Next
<1>4. ASSUME Planning, ~planOk PROVE Planning'
  <2>1. CASE Dispatch
    BY <1>4, <2>1 DEF Dispatch, Planning, ghVars
  <2>2. CASE \E a \in Attempts : AttemptStep(a) \/ SandboxPush(a) \/ Fault(a)
    BY <1>4, <2>2, PlanningByAttempt
  <2>3. ASSUME NEW q \in Requests, RequestStep(q) PROVE Planning'
    <3>1. UNCHANGED attVars BY <2>3, RequestLocal
    <3>2. UNCHANGED <<remote>> BY <2>3, RequestRepo DEF ghVars
    <3>3. UNCHANGED <<plan>>
      <4>1. pc[q] # "start" BY <1>4 DEF Unapproved
      <4> QED BY <2>3, <4>1 DEF RequestStep, LoadPlan, LoadHeld, LandHeld,
              StartExecution, AbortRequest, Transition, TransitionCheck,
              TransitionWrite, TransitionTask, Throw, wfVars, Attempts
    <3> QED BY <1>4, <3>1, <3>2, <3>3 DEF Planning, attVars, Attempts
  <2>4. CASE UNCHANGED vars
    BY <1>4, <2>4 DEF vars, ghVars, wfVars, attVars, Planning, Attempts
  <2> QED BY <2>1, <2>2, <2>3, <2>4 DEF Next
<1>5. asked' /\ ~planOk' => Planning'
  BY <1>1, <1>4 DEF Unapproved, Planning
<1> QED BY <1>2, <1>3, <1>5 DEF Unapproved, Planning

(***************************************************************************)
(* How an attempt moves                                                    *)
(***************************************************************************)

\* Attempt a stays where it is, stops, or hands its next event to the sink.
Stays(a) == evt'[a] = evt[a] /\ pc'[a] = pc[a]
Stops(a) ==
  /\ evt'[a] = evt[a] /\ Live(a)
  /\ pc'[a] = "aborted" \/ (pc'[a] = "rejected" /\ pc[a] \in {"sandbox", "openPr"})

Emits(a) ==
  /\ pc'[a] = "check"
  /\ \/ pc[a] = "plan" /\ evt'[a] = Plain("plan_proposed")
     \/ Returned(a, "plan_proposed") /\ evt'[a] = Outcome("awaiting_plan")
     \/ /\ pc[a] = "sandbox" /\ evt'[a] = Plain("branch_pushed")
     \/ /\ pc[a] \in {"ret", "openPr", "loop", "merge"}
        /\ evt[a].type # "outcome" /\ AfterPush(evt[a]) /\ AfterPush(evt'[a])
        /\ evt'[a].type = "outcome" => \E o \in FusionOutcome : evt'[a] = Outcome(o)

\* Attempt a works on what its event stands for.
Works(a) ==
  /\ evt'[a] = evt[a] /\ evt[a].type # "outcome"
  /\ pc[a] = "ret" \/ AfterPush(evt[a])
  /\ pc[a] \in {"ret", "openPr", "loop", "merge"} /\ pc'[a] \in {"sandbox", "openPr", "loop", "merge"}

\* What attempt a, the sandbox working for it, or a fault that hits it may do.
LEMMA AttemptMoves ==
  ASSUME TypeOK, Placed, NEW a \in Attempts, AttemptStep(a) \/ SandboxPush(a) \/ Fault(a)
  PROVE  \/ UNCHANGED dbVars /\ (Stays(a) \/ Stops(a) \/ Emits(a) \/ Works(a))
         \/ Sink(a) \/ Transition(a) \/ Tail(a)
<1> USE DEF At, Goto, Returned, Emit, Throw, TypeOK, TypePc, TypeAtt, Actors
<1>0. PlacedAttempt(a)
  BY DEF Placed
<1>1. CASE Fault(a)
  <2>1. UNCHANGED dbVars
    BY <1>1 DEF Fault, Abort, TimeOut, SandboxFails
  <2>2. Stays(a) \/ Stops(a)
    BY <1>1 DEF Fault, Abort, TimeOut, SandboxFails, Stays, Stops, attVars, Live, Ended
  <2> QED
    BY <2>1, <2>2
<1>2. CASE SandboxPush(a)
  <2>1. UNCHANGED dbVars
    BY <1>2 DEF SandboxPush
  <2>2. Stays(a) \/ Stops(a) \/ Emits(a)
    BY <1>2 DEF SandboxPush, Stays, Stops, Emits, Live, Ended
  <2> QED
    BY <2>1, <2>2
<1>3. CASE Fusion(a)
  <2> USE DEF Event, Plain, Checks, FixAttempt, Outcome, AfterPush, FusionOutcome
  <2>1. UNCHANGED dbVars
    BY <1>3 DEF Fusion, ProposePlan, ParkPlan, CallSandbox, FindPr, OpenPr, Poll, ChecksPending,
       Gate, Merge, ChecksFailed, CiFix
  <2>2. CASE ProposePlan(a) \/ ParkPlan(a)
    BY <2>2 DEF ProposePlan, ParkPlan, Emits
  <2>3. CASE CallSandbox(a)
    BY <2>3 DEF CallSandbox, Works
  <2>4. CASE FindPr(a)
    BY <2>4 DEF FindPr, Works, Emits
  <2>5. CASE OpenPr(a)
    BY <1>0, <2>5 DEF OpenPr, Stops, Emits, Live, Ended, PlacedAttempt
  <2>6. CASE Poll(a)
    BY <1>0, <2>6 DEF Poll, Emits, PlacedAttempt
  <2>7. CASE ChecksPending(a)
    BY <2>7 DEF ChecksPending, Works, Emits
  <2>8. CASE Gate(a)
    BY <2>8 DEF Gate, Works, Emits
  <2>9. CASE Merge(a)
    BY <1>0, <2>9 DEF Merge, Stops, Emits, Live, Ended, PlacedAttempt
  <2>10. CASE ChecksFailed(a)
    BY <2>10 DEF ChecksFailed, Emits
  <2>11. CASE CiFix(a)
    BY <2>11 DEF CiFix, Works, Stops, Live, Ended
  <2> QED
    BY <1>3, <2>1, <2>2, <2>3, <2>4, <2>5, <2>6, <2>7, <2>8, <2>9, <2>10, <2>11 DEF Fusion
<1> QED
  BY <1>1, <1>2, <1>3 DEF AttemptStep

\* Only the look-up of the sink changes the seq an attempt holds.
LEMMA SeqLocal ==
  ASSUME TypeOK, [Next]_vars, NEW b \in Attempts
  PROVE  seq'[b] = seq[b] \/ SinkCheck(b)
<1> USE DEF TypeOK, TypeAtt
<1>1. CASE Dispatch
  BY <1>1 DEF Dispatch
<1>2. ASSUME NEW a \in Attempts, Sink(a)
      PROVE  seq'[b] = seq[b] \/ SinkCheck(b)
  BY <1>2 DEF Sink, SinkCheck, SinkInsert, SinkCard, SinkCheckpoint, attVars
<1>3. ASSUME NEW a \in Attempts, Transition(a) \/ Fusion(a) \/ Tail(a) \/ SandboxPush(a) \/ Fault(a)
      PROVE  seq' = seq
  <2>1. CASE Transition(a) \/ Tail(a)
    BY <2>1 DEF Transition, TransitionCheck, TransitionWrite, TransitionTask, Tail, Meter,
       CountReputation, EscalateTask, Complete, attVars
  <2>2. CASE Fusion(a)
    BY <2>2 DEF Fusion, ProposePlan, ParkPlan, CallSandbox, FindPr, OpenPr, Poll, ChecksPending,
       Gate, Merge, ChecksFailed, CiFix
  <2>3. CASE SandboxPush(a) \/ Fault(a)
    BY <2>3 DEF SandboxPush, Fault, Abort, TimeOut, SandboxFails, attVars
  <2> QED
    BY <1>3, <2>1, <2>2, <2>3
<1>4. ASSUME NEW q \in Requests, RequestStep(q)
      PROVE  seq' = seq
  BY <1>4, RequestLocal DEF attVars
<1>5. CASE UNCHANGED vars
  BY <1>5 DEF vars, attVars
<1> QED
  BY <1>1, <1>2, <1>3, <1>4, <1>5 DEF Next, AttemptStep

\* The database changes by a statement of the sink, of transitionRun or of the tail.
LEMMA DbSteps ==
  ASSUME TypeOK, Placed, [Next]_vars
  PROVE  \/ UNCHANGED <<runState, log, cards, ckpts, charged, rep>>
         \/ \E a \in Attempts : Sink(a) \/ Tail(a)
         \/ \E x \in Actors : TransitionWrite(x)
<1> USE DEF dbVars
<1>1. CASE Dispatch
  BY <1>1 DEF Dispatch
<1>2. ASSUME NEW a \in Attempts, AttemptStep(a) \/ SandboxPush(a) \/ Fault(a)
      PROVE  \/ UNCHANGED <<runState, log, cards, ckpts, charged, rep>>
             \/ Sink(a) \/ Tail(a) \/ TransitionWrite(a)
  BY <1>2, AttemptMoves DEF Transition, TransitionCheck, TransitionTask
<1>3. ASSUME NEW q \in Requests, RequestStep(q)
      PROVE  \/ UNCHANGED <<runState, log, cards, ckpts, charged, rep>>
             \/ TransitionWrite(q)
  BY <1>3 DEF RequestStep, LoadPlan, LoadHeld, LandHeld, StartExecution, AbortRequest,
     Transition, TransitionCheck, TransitionTask
<1>4. CASE UNCHANGED vars
  BY <1>4 DEF vars
<1> QED
  BY <1>1, <1>2, <1>3, <1>4 DEF Next, Actors

\* A row is added to the log by the one statement that inserts.
LEMMA LogSteps ==
  ASSUME TypeOK, Placed, [Next]_vars
  PROVE  \/ UNCHANGED log
         \/ \E a \in Attempts :
              /\ SinkInsert(a) /\ pc[a] = "insert" /\ ~Conflicts(eventKey(evt[a]), seq[a])
              /\ log' = log \cup {[key |-> eventKey(evt[a]), seq |-> seq[a]]}
<1>1. ASSUME NEW a \in Attempts, Sink(a)
      PROVE  UNCHANGED log \/ (SinkInsert(a) /\ ~UNCHANGED log)
  BY <1>1 DEF Sink, SinkCheck, SinkCard, SinkCheckpoint, dbVars
<1>2. ASSUME NEW a \in Attempts, SinkInsert(a), ~UNCHANGED log
      PROVE  /\ pc[a] = "insert" /\ ~Conflicts(eventKey(evt[a]), seq[a])
             /\ log' = log \cup {[key |-> eventKey(evt[a]), seq |-> seq[a]]}
  BY <1>2 DEF SinkInsert, At
<1>3. ASSUME NEW a \in Attempts, Tail(a) PROVE UNCHANGED log
  BY <1>3 DEF Tail, Meter, CountReputation, EscalateTask, Complete, dbVars
<1>4. ASSUME NEW x \in Actors, TransitionWrite(x) PROVE UNCHANGED log
  BY <1>4 DEF TransitionWrite
<1> QED
  BY <1>1, <1>2, <1>3, <1>4, DbSteps

\* No row leaves the log.
LEMMA LoggedGrows ==
  ASSUME TypeOK, Placed, [Next]_vars
  PROVE  LoggedKeys \subseteq LoggedKeys'
BY LogSteps DEF LoggedKeys

\* Attempt a begins: it plans, or its sandbox starts.
Begins(a) ==
  /\ pc[a] = "idle" /\ evt[a].type = "none"
  /\ \/ plan /\ pc'[a] = "plan" /\ evt'[a] = evt[a]
     \/ ~plan /\ pc'[a] = "check" /\ evt'[a] = Plain("sandbox_started")

\* What a step of the system is to one attempt.
LEMMA StepOf ==
  ASSUME TypeOK, Placed, [Next]_vars, NEW b \in Attempts
  PROVE  \/ Stays(b)
         \/ UNCHANGED dbVars /\ (Begins(b) \/ Stops(b) \/ Emits(b) \/ Works(b))
         \/ Sink(b) \/ Transition(b) \/ Tail(b)
<1>1. CASE Dispatch
  <2>1. CASE b = nAtt + 1
    <3>1. pc[b] = "idle" /\ evt[b].type = "none" /\ pc \in [Actors -> AttemptPc \cup RequestPc]
          /\ evt \in [Attempts -> Events] /\ b \in Actors
      BY <2>1 DEF Placed, PlacedAttempt, TypeOK, TypeWf, TypePc, TypeAtt, Actors
    <3>2. UNCHANGED dbVars
          /\ IF plan THEN Goto(b, "plan") /\ UNCHANGED evt ELSE Emit(b, Plain("sandbox_started"))
      BY <1>1, <2>1 DEF Dispatch
    <3> QED
      BY <3>1, <3>2 DEF Begins, Goto, Emit
  <2>2. CASE b # nAtt + 1
    BY <1>1, <2>2, DispatchLocal DEF OthersKept, Stays, Actors
  <2> QED
    BY <2>1, <2>2
<1>2. ASSUME NEW a \in Attempts, AttemptStep(a) \/ SandboxPush(a) \/ Fault(a), a # b
      PROVE  Stays(b)
  BY <1>2, AttemptLocal DEF OthersKept, Stays, Actors
<1>3. ASSUME NEW q \in Requests, RequestStep(q)
      PROVE  Stays(b)
  BY <1>3, RequestLocal, RequestsAssumption DEF OthersKept, Stays, Actors, Attempts, attVars
<1>4. CASE UNCHANGED vars
  BY <1>4 DEF vars, attVars, Stays
<1> QED
  BY <1>1, <1>2, <1>3, <1>4, AttemptMoves DEF Next

\* A step of the sink, of transitionRun or of the tail leaves the event as it is.
LEMMA EventKept ==
  ASSUME NEW b \in Attempts, Sink(b) \/ Transition(b) \/ Tail(b)
  PROVE  evt' = evt
BY DEF Sink, SinkCheck, SinkInsert, SinkCard, SinkCheckpoint, Tail, Meter, CountReputation,
   EscalateTask, Complete, Transition, TransitionCheck, TransitionWrite, TransitionTask, attVars

\* Whether a run was asked for with a plan never changes; an execution drops the
\* plan when a request starts it anew.
LEMMA PlanSteps ==
  ASSUME [Next]_vars, TypeOK
  PROVE  /\ asked' = asked
         /\ plan' = plan \/ (\E q \in Requests : pc[q] = "start" /\ plan' = FALSE)
<1>1. CASE Dispatch
  BY <1>1, Zenon DEF Dispatch, reqVars
<1>2. ASSUME NEW a \in Attempts, AttemptStep(a) \/ SandboxPush(a) \/ Fault(a)
      PROVE  asked' = asked /\ plan' = plan
  BY <1>2, AttemptLocal, Zenon
<1>3. ASSUME NEW q \in Requests, StartExecution(q)
      PROVE  asked' = asked /\ (plan' = plan \/ (pc[q] = "start" /\ plan' = FALSE))
  BY <1>3, Zenon DEF StartExecution, At, reqVars
<1>4. ASSUME NEW q \in Requests, NEW verdict \in {"running", "error"}, LoadPlan(q, verdict)
      PROVE  asked' = asked /\ plan' = plan
  BY <1>4, Zenon DEF LoadPlan, wfVars
<1>5. ASSUME NEW q \in Requests, LoadHeld(q) \/ LandHeld(q) \/ AbortRequest(q)
      PROVE  asked' = asked /\ plan' = plan
  BY <1>5, Zenon DEF LoadHeld, LandHeld, AbortRequest, reqVars, wfVars
<1>6. ASSUME NEW q \in Requests, Transition(q)
      PROVE  asked' = asked /\ plan' = plan
  <2>1. asked' = asked
    BY <1>6, Zenon DEF Transition, TransitionCheck, TransitionWrite, TransitionTask, reqVars
  <2>2. q \notin Attempts
    BY RequestsAssumption DEF Attempts
  <2>3. UNCHANGED wfVars
    BY <1>6, <2>2 DEF Transition, TransitionCheck, TransitionWrite, TransitionTask
  <2> QED
    BY <2>1, <2>3, Zenon DEF wfVars
<1>7. CASE UNCHANGED vars
  BY <1>7, Zenon DEF vars, wfVars, reqVars
<1> QED
  BY <1>1, <1>2, <1>3, <1>4, <1>5, <1>6, <1>7 DEF Next, RequestStep

\* A wish changes when a request loads the run in the state it is about.
LEMMA WishSteps ==
  ASSUME TypeOK, [Next]_vars, NEW q \in Requests
  PROVE  \/ wish'[q] = wish[q]
         \/ wish'[q] = "merged" /\ runState = "held_for_human" /\ LoadHeld(q)
         \/ wish'[q] \in {"running", "error"} /\ runState = "awaiting_plan_approval"
<1>1. CASE Dispatch
  BY <1>1 DEF Dispatch, reqVars
<1>2. CASE \E a \in Attempts : AttemptStep(a) \/ SandboxPush(a) \/ Fault(a)
  BY <1>2, AttemptLocal
<1>3. ASSUME NEW p \in Requests, RequestStep(p), p # q
      PROVE  wish'[q] = wish[q]
  BY <1>3, RequestLocal DEF OthersKept
<1>4. CASE RequestStep(q)
  BY <1>4 DEF RequestStep, LoadPlan, LoadHeld, LandHeld, StartExecution, AbortRequest,
     Transition, TransitionCheck, TransitionWrite, TransitionTask, reqVars, TypeOK, TypeReq
<1>5. CASE UNCHANGED vars
  BY <1>5 DEF vars, reqVars
<1> QED
  BY <1>1, <1>2, <1>3, <1>4, <1>5 DEF Next

(***************************************************************************)
(* Staged and Numbered                                                     *)
(***************************************************************************)

\* A seq that is counted now is free: an event that is not in the log is inserted.
LEMMA InsertsFree ==
  ASSUME Placed, Numbered, NEW a \in Attempts, pc[a] = "insert"
  PROVE  Conflicts(eventKey(evt[a]), seq[a]) => eventKey(evt[a]) \in LoggedKeys
<1>1. Cardinality(log) \in Nat /\ LoggedSeqs = 0..(Cardinality(log) - 1)
  BY FS_CardinalityType DEF Placed, Numbered, EventLogDense
<1> QED
  BY <1>1 DEF Numbered, Conflicts, At

\* Of two attempts about to insert new events both insert the same one.
LEMMA InsertsAlike ==
  ASSUME TypeOK, Placed, Owned, Staged, NEW a \in Attempts, NEW b \in Attempts, a # b,
         pc[a] = "insert", pc[b] = "insert",
         eventKey(evt[a]) \notin LoggedKeys, eventKey(evt[b]) \notin LoggedKeys
  PROVE  eventKey(evt[a]) = eventKey(evt[b])
<1> DEFINE Kind(c) == \/ evt[c].type = "plan_proposed" \/ Awaits(c)
                      \/ evt[c].type = "sandbox_started" \/ AfterPush(evt[c])
<1>1. \A c \in {a, b} : Kind(c) /\ StagedAttempt(c) /\ ~(AfterPush(evt[a]) /\ AfterPush(evt[b]))
  <2>1. \A c \in {a, b} : evt[c] \in Events /\ evt[c].type # "none"
    BY DEF TypeOK, TypeAtt, Placed, PlacedAttempt
  <2>2. \A c \in {a, b} : Kind(c)
    BY <2>1 DEF Events, EventTypes, Awaits, AfterPush
  <2> QED
    BY <2>2 DEF Owned, SinglePusher, Staged
<1>2. ASSUME NEW c \in {a, b}, NEW d \in {a, b}, c # d, AfterPush(evt[c])
      PROVE  FALSE
  BY <1>1, <1>2 DEF StagedAttempt, PlanLogged, Awaits
<1>3. ASSUME NEW c \in {a, b}, NEW d \in {a, b}, c # d, evt[c].type = "sandbox_started"
      PROVE  evt[d].type = "sandbox_started"
  BY <1>1, <1>2, <1>3 DEF StagedAttempt, PlanLogged, Awaits
<1>4. ASSUME NEW c \in {a, b}, NEW d \in {a, b}, c # d, evt[c].type = "plan_proposed"
      PROVE  evt[d].type = "plan_proposed"
  BY <1>1, <1>2, <1>3, <1>4 DEF StagedAttempt, Awaits
<1> QED
  BY <1>1, <1>2, <1>3, <1>4 DEF StagedAttempt, Awaits

\* A run awaits approval when its plan is in the log.
LEMMA AwaitingStep ==
  ASSUME TypeOK, Placed, Staged, [Next]_vars, runState' = "awaiting_plan_approval"
  PROVE  PlanLogged
<1>1. CASE runState' = runState
  BY <1>1 DEF Staged
<1>2. ASSUME NEW a \in Attempts, Sink(a) \/ Tail(a)
      PROVE  runState' = runState
  BY <1>2 DEF Sink, SinkCheck, SinkInsert, SinkCard, SinkCheckpoint, Tail, Meter, CountReputation,
     EscalateTask, Complete, dbVars
<1>3. ASSUME NEW a \in Attempts, TransitionWrite(a)
      PROVE  PlanLogged
  <2>1. pc[a] = "trWrite" /\ Target(evt[a]) = "awaiting_plan_approval" /\ MovesRun(evt[a])
    BY <1>3 DEF TransitionWrite, Wanted, At, Placed, PlacedAttempt, InTransition
  <2>2. Awaits(a) /\ StagedAttempt(a) /\ pc[a] \in PastSink
    <3>1. evt[a].type = "outcome" => evt[a].outcome \in FusionOutcome
      BY DEF Placed, PlacedAttempt
    <3> QED
      BY <2>1, <3>1 DEF Target, MovesRun, Awaits, Staged, PastSink, AttemptPc, FusionOutcome
  <2> QED
    BY <2>2 DEF StagedAttempt, PlanLogged, Awaits
<1>4. ASSUME NEW q \in Requests, TransitionWrite(q)
      PROVE  FALSE
  BY <1>4, RequestsAssumption DEF TransitionWrite, Wanted, Attempts, TypeOK, TypeReq
<1> QED
  BY <1>1, <1>2, <1>3, <1>4, DbSteps DEF Actors

\* What a row adds to the keys and the numbers of the log.
LEMMA RowAdded ==
  ASSUME NEW key, NEW n, log' = log \cup {[key |-> key, seq |-> n]}
  PROVE  LoggedKeys' = LoggedKeys \cup {key} /\ LoggedSeqs' = LoggedSeqs \cup {n}
<1> DEFINE new == [key |-> key, seq |-> n]
<1>1. new.key = key /\ new.seq = n /\ log' = log \cup {new}
  OBVIOUS
<1> HIDE DEF new
<1>2. LoggedKeys' = LoggedKeys \cup {new.key}
  <2>1. \A k : k \in LoggedKeys' => k \in LoggedKeys \/ k = new.key
    BY <1>1 DEF LoggedKeys
  <2>2. \A k : k \in LoggedKeys \/ k = new.key => k \in LoggedKeys'
    BY <1>1 DEF LoggedKeys
  <2> QED
    BY <2>1, <2>2
<1>3. LoggedSeqs' = LoggedSeqs \cup {new.seq}
  <2>1. \A k : k \in LoggedSeqs' => k \in LoggedSeqs \/ k = new.seq
    BY <1>1 DEF LoggedSeqs
  <2>2. \A k : k \in LoggedSeqs \/ k = new.seq => k \in LoggedSeqs'
    BY <1>1 DEF LoggedSeqs
  <2> QED
    BY <2>1, <2>2
<1> QED
  BY <1>1, <1>2, <1>3

\* All outcomes share one key.
LEMMA OutcomeKey == \A o : eventKey(Outcome(o)) = KeyOf("outcome")
BY DEF eventKey, Outcome, KeyOf, Plain, Event

\* Every step of an attempt finds in the log what comes before its event.
LEMMA StagedAttemptStep ==
  ASSUME TypeOK, Placed, Staged, Numbered, [Next]_vars, NEW a \in Attempts
  PROVE  StagedAttempt(a)'
<1>0. /\ LoggedKeys \subseteq LoggedKeys' /\ asked' = asked /\ (PlanLogged => PlanLogged')
      /\ StagedAttempt(a) /\ PlacedAttempt(a)
  BY LoggedGrows, PlanSteps DEF PlanLogged, Staged, Placed
<1>1. CASE evt'[a] = evt[a] /\ (pc'[a] \in PastSink => eventKey(evt[a]) \in LoggedKeys')
           /\ (pc'[a] = "plan" => asked)
  BY <1>0, <1>1 DEF StagedAttempt, Awaits, AfterPush
<1>2. CASE Stays(a)
  BY <1>0, <1>1, <1>2 DEF Stays, StagedAttempt
<1>3. CASE Begins(a)
  <2>1. CASE plan
    BY <1>0, <1>1, <1>3, <2>1 DEF Begins, PastSink, Staged, Plain, Event
  <2>2. CASE ~plan
    BY <1>0, <1>3, <2>2 DEF Begins, PastSink, Staged, Plain, Event, StagedAttempt, KeyOf,
       Awaits, AfterPush
  <2> QED
    BY <2>1, <2>2
<1>4. CASE Stops(a)
  BY <1>0, <1>1, <1>4 DEF Stops, PastSink
<1>5. CASE Works(a)
  <2>1. pc[a] \in PastSink
    BY <1>5 DEF Works, PastSink, AttemptPc
  <2> QED
    BY <1>0, <1>1, <1>5, <2>1 DEF Works, StagedAttempt
<1>6. CASE Emits(a)
  <2> USE DEF StagedAttempt, KeyOf, Awaits, AfterPush
  <2>1. pc'[a] = "check" /\ "check" \notin PastSink
    BY <1>6 DEF Emits, PastSink
  <2>2. CASE pc[a] = "plan" /\ evt'[a] = Plain("plan_proposed")
    BY <1>0, <2>1, <2>2 DEF Plain, Event
  <2>3. CASE Returned(a, "plan_proposed") /\ evt'[a] = Outcome("awaiting_plan")
    BY <1>0, <2>1, <2>3 DEF Plain, Event, Outcome, Returned, At, PastSink, AttemptPc, eventKey
  <2>4. CASE pc[a] = "sandbox" /\ evt'[a] = Plain("branch_pushed")
    BY <1>0, <2>1, <2>4 DEF Plain, Event, PlacedAttempt, PastSink, AttemptPc
  <2>5. CASE AfterPush(evt[a]) /\ AfterPush(evt'[a])
             /\ (evt'[a].type = "outcome" => \E o \in FusionOutcome : evt'[a] = Outcome(o))
    <3>1. ~Awaits(a)' /\ evt'[a].type \notin {"plan_proposed", "sandbox_started"}
      BY <2>5
    <3>2. evt'[a].type = "outcome" => eventKey(evt'[a]) = KeyOf("outcome")
      BY <2>5, OutcomeKey
    <3> QED
      BY <1>0, <2>1, <2>5, <3>1, <3>2
  <2> QED
    BY <1>6, <2>2, <2>3, <2>4, <2>5 DEF Emits
<1>7. CASE Sink(a)
  <2> USE DEF TypeOK, TypePc, Actors, At, Goto
  <2>1. evt' = evt
    BY <1>7, EventKept
  <2>2. CASE SinkCheck(a)
    BY <1>0, <1>1, <2>1, <2>2 DEF SinkCheck, PastSink, AttemptPc, Ended
  <2>3. CASE SinkInsert(a)
    <3>1. CASE Conflicts(eventKey(evt[a]), seq[a])
      BY <1>0, <1>1, <2>1, <2>3, <3>1, InsertsFree DEF SinkInsert
    <3>2. CASE ~Conflicts(eventKey(evt[a]), seq[a])
      <4>1. eventKey(evt[a]) \in LoggedKeys'
        BY <2>3, <3>2, RowAdded DEF SinkInsert
      <4>2. pc'[a] = "card"
        BY <2>3, <3>2 DEF SinkInsert
      <4> QED
        BY <1>0, <1>1, <2>1, <4>1, <4>2
    <3> QED
      BY <3>1, <3>2
  <2>4. CASE SinkCard(a) \/ SinkCheckpoint(a)
    <3>1. pc[a] \in PastSink /\ pc'[a] # "plan"
      BY <2>4 DEF SinkCard, SinkCheckpoint, AfterCard, PastSink, AttemptPc
    <3> QED
      BY <1>0, <1>1, <2>1, <3>1 DEF StagedAttempt
  <2> QED
    BY <1>7, <2>2, <2>3, <2>4 DEF Sink
<1>8. CASE Transition(a) \/ Tail(a)
  <2> USE DEF TypeOK, TypePc, Actors, At, Goto
  <2>1. evt' = evt
    BY <1>8, EventKept
  <2>2. pc[a] \in PastSink /\ pc'[a] # "plan"
    BY <1>8 DEF Transition, TransitionCheck, TransitionWrite, TransitionTask, AfterTransition,
       Throw, Tail, Meter, CountReputation, EscalateTask, Complete, Returned, PastSink, AttemptPc
  <2> QED
    BY <1>0, <1>1, <2>1, <2>2 DEF StagedAttempt
<1> QED
  BY <1>2, <1>3, <1>4, <1>5, <1>6, <1>7, <1>8, StepOf

\* Every step keeps the attempts in one order of events.
LEMMA StagedStep ==
  ASSUME TypeOK, Placed, Unapproved, Staged, Numbered, [Next]_vars
  PROVE  Staged'
<1>0. asked' = asked /\ (PlanLogged => PlanLogged')
  BY LoggedGrows, PlanSteps DEF PlanLogged
<1>1. \A q \in Requests : wish'[q] = "running" => PlanLogged'
  BY <1>0, WishSteps DEF Staged
<1>2. (plan' => asked') /\ (asked' /\ ~plan' => PlanLogged')
  <2>1. CASE plan' = plan
    BY <1>0, <2>1 DEF Staged
  <2>2. ASSUME NEW q \in Requests, pc[q] = "start", plan' = FALSE
        PROVE  PlanLogged' /\ ~plan'
    BY <1>0, <2>2 DEF Staged, Unapproved
  <2> QED
    BY <2>1, <2>2, PlanSteps
<1>3. runState' = "awaiting_plan_approval" => PlanLogged'
  BY <1>0, AwaitingStep
<1>4. \A a \in Attempts : StagedAttempt(a)'
  BY StagedAttemptStep
<1> QED
  BY <1>1, <1>2, <1>3, <1>4 DEF Staged, Attempts

\* Every step keeps the log dense and the seq an attempt holds the next one.
LEMMA NumberedStep ==
  ASSUME TypeOK, Placed, Owned, Staged, Numbered, [Next]_vars
  PROVE  Numbered'
<1>0. IsFiniteSet(log) /\ IsFiniteSet(LoggedKeys) /\ Cardinality(log) \in Nat
      /\ LoggedSeqs = 0..(Cardinality(log) - 1) /\ Cardinality(LoggedKeys) = Cardinality(log)
  BY FS_CardinalityType DEF Placed, Numbered, EventLogDense
<1>1. ASSUME NEW b \in Attempts, pc'[b] = "insert"
      PROVE  \/ pc[b] = "insert" /\ evt'[b] = evt[b] /\ seq'[b] = seq[b]
             \/ SinkCheck(b)
  <2> USE DEF TypeOK, TypePc, Actors, At, Goto
  <2>1. CASE Stays(b)
    BY <1>1, <2>1, SeqLocal DEF Stays
  <2>2. CASE Begins(b) \/ Stops(b) \/ Emits(b) \/ Works(b)
    BY <1>1, <2>2 DEF Begins, Stops, Emits, Works
  <2>3. CASE Sink(b)
    BY <1>1, <2>3 DEF Sink, SinkInsert, SinkCard, SinkCheckpoint, AfterCard
  <2>4. CASE Transition(b) \/ Tail(b)
    BY <1>1, <2>4 DEF Transition, TransitionCheck, TransitionWrite, TransitionTask, AfterTransition,
       Throw, Tail, Meter, CountReputation, EscalateTask, Complete
  <2> QED
    BY <2>1, <2>2, <2>3, <2>4, StepOf
<1>2. ASSUME NEW b \in Attempts, SinkCheck(b), pc'[b] = "insert"
      PROVE  UNCHANGED log /\ seq'[b] = Cardinality(log)
  BY <1>2 DEF SinkCheck, dbVars, TypeOK, TypeAtt, TypePc, Goto, Actors
<1>3. CASE UNCHANGED log
  <2>1. UNCHANGED <<LoggedKeys, LoggedSeqs, Cardinality(log), Cardinality(LoggedKeys)>>
    BY <1>3 DEF LoggedKeys, LoggedSeqs
  <2>2. ASSUME NEW b \in Attempts, pc'[b] = "insert", eventKey(evt'[b]) \notin LoggedKeys
        PROVE  seq'[b] = Cardinality(log)
    BY <1>1, <1>2, <2>2 DEF Numbered, At
  <2> QED
    BY <1>0, <1>3, <2>1, <2>2 DEF Numbered, EventLogDense, At, Attempts
<1>4. ASSUME NEW a \in Attempts, SinkInsert(a), pc[a] = "insert",
             ~Conflicts(eventKey(evt[a]), seq[a]),
             log' = log \cup {[key |-> eventKey(evt[a]), seq |-> seq[a]]}
      PROVE  Numbered'
  <2> DEFINE key == eventKey(evt[a])
             row == [key |-> key, seq |-> seq[a]]
  <2>1. key \notin LoggedKeys /\ seq[a] = Cardinality(log) /\ row \notin log
    BY <1>4 DEF Conflicts, Numbered, At, LoggedKeys
  <2>2. LoggedKeys' = LoggedKeys \cup {key} /\ LoggedSeqs' = LoggedSeqs \cup {seq[a]}
    BY <1>4, RowAdded
  <2>3. Cardinality(log') = Cardinality(log) + 1
    BY <1>0, <1>4, <2>1, FS_AddElement
  <2>4. IsFiniteSet(LoggedKeys') /\ Cardinality(LoggedKeys') = Cardinality(log) + 1
    BY <1>0, <2>1, <2>2, FS_AddElement
  <2>5. LoggedSeqs' = 0..(Cardinality(log') - 1)
    BY <1>0, <2>1, <2>2, <2>3
  <2>6. ASSUME NEW b \in Attempts, pc'[b] = "insert", eventKey(evt'[b]) \notin LoggedKeys'
        PROVE  FALSE
    <3>1. log' # log
      BY <1>4, <2>1
    <3>2. pc[b] = "insert" /\ evt'[b] = evt[b]
      BY <1>1, <1>2, <2>6, <3>1
    <3>3. b # a
      BY <1>4, <2>6 DEF SinkInsert, Goto, TypeOK, TypePc, Actors
    <3>4. eventKey(evt[b]) \notin LoggedKeys /\ eventKey(evt[b]) # key
      BY <2>2, <2>6, <3>2
    <3> QED
      BY <1>4, <2>1, <3>2, <3>3, <3>4, InsertsAlike
  <2> QED
    BY <2>3, <2>4, <2>5, <2>6 DEF Numbered, EventLogDense, At, Attempts
<1> QED
  BY <1>3, <1>4, LogSteps

(***************************************************************************)
(* Carried and Accounted                                                   *)
(***************************************************************************)

\* What is posted, pushed and saved stays so.
LEMMA CarriedGrows ==
  ASSUME TypeOK, Placed, [Next]_vars
  PROVE  /\ cards \subseteq cards' /\ remote \in Nat /\ remote' \in Nat /\ remote <= remote'
         /\ ckpts' = ckpts \/ \E a \in Attempts : SinkCheckpoint(a) /\ ckpts' = ckpts \cup {sha[a]}
<1>1. remote \in Nat /\ remote' \in Nat /\ remote <= remote'
  <2>1. remote \in Nat
    BY DEF TypeOK, TypeGh
  <2> QED
    BY <2>1, GitHubSteps DEF ghVars
<1>2. ASSUME NEW a \in Attempts, Sink(a)
      PROVE  cards \subseteq cards' /\ (ckpts' = ckpts \/ (SinkCheckpoint(a) /\ ckpts' = ckpts \cup {sha[a]}))
  BY <1>2 DEF Sink, SinkCheck, SinkInsert, SinkCard, SinkCheckpoint, dbVars
<1>3. ASSUME NEW a \in Attempts, Tail(a)
      PROVE  cards' = cards /\ ckpts' = ckpts
  BY <1>3 DEF Tail, Meter, CountReputation, EscalateTask, Complete, dbVars
<1>4. ASSUME NEW x \in Actors, TransitionWrite(x)
      PROVE  cards' = cards /\ ckpts' = ckpts
  BY <1>4 DEF TransitionWrite
<1> QED
  BY <1>1, <1>2, <1>3, <1>4, DbSteps

\* The sink has posted the card of an event before it saves or moves anything for it.
LEMMA PostedFirst ==
  ASSUME TypeOK, Placed, Carried, [Next]_vars, NEW b \in Attempts
  PROVE  /\ pc'[b] \in InTransition => eventKey(evt'[b]) \in cards'
         /\ pc'[b] = "ckpt" => eventKey(evt'[b]) \in cards' /\ HasCommit(evt'[b])
<1> DEFINE goal == /\ pc'[b] \in InTransition => eventKey(evt'[b]) \in cards'
                   /\ pc'[b] = "ckpt" => eventKey(evt'[b]) \in cards' /\ HasCommit(evt'[b])
<1> USE DEF TypeOK, TypePc, Actors, At, Goto, InTransition
<1>0. /\ cards \subseteq cards'
      /\ pc[b] \in InTransition => eventKey(evt[b]) \in cards
      /\ pc[b] = "ckpt" => eventKey(evt[b]) \in cards /\ HasCommit(evt[b])
  BY CarriedGrows DEF Carried
<1>1. CASE Stays(b)
  BY <1>0, <1>1 DEF Stays
<1>2. CASE Begins(b) \/ Stops(b) \/ Emits(b) \/ Works(b)
  BY <1>2 DEF Begins, Stops, Emits, Works
<1>3. CASE Sink(b)
  <2>1. evt' = evt
    BY <1>3, EventKept
  <2>2. CASE SinkCheck(b) \/ SinkInsert(b)
    BY <2>2 DEF SinkCheck, SinkInsert
  <2>3. CASE SinkCard(b)
    BY <2>1, <2>3 DEF SinkCard, AfterCard
  <2>4. CASE SinkCheckpoint(b)
    BY <1>0, <2>1, <2>4 DEF SinkCheckpoint
  <2> QED
    BY <1>3, <2>2, <2>3, <2>4 DEF Sink
<1>4. CASE Transition(b)
  <2>1. evt' = evt
    BY <1>4, EventKept
  <2>2. pc[b] \in InTransition /\ pc'[b] # "ckpt"
    BY <1>4 DEF Transition, TransitionCheck, TransitionWrite, TransitionTask, AfterTransition, Throw
  <2> QED
    BY <1>0, <2>1, <2>2
<1>5. CASE Tail(b)
  BY <1>5 DEF Tail, Meter, CountReputation, EscalateTask, Complete
<1> QED
  BY <1>1, <1>2, <1>3, <1>4, <1>5, StepOf

\* Every step keeps the card of a hold and the commit of a checkpoint there.
LEMMA CarriedStep ==
  ASSUME TypeOK, Placed, Owned, Staged, Carried, [Next]_vars
  PROVE  Carried'
<1>0. cards \subseteq cards' /\ remote \in Nat /\ remote' \in Nat /\ remote <= remote'
  BY CarriedGrows
<1>1. CheckpointsArePushed'
  <2>1. CASE ckpts' = ckpts
    BY <1>0, <2>1 DEF Carried, CheckpointsArePushed
  <2>2. ASSUME NEW a \in Attempts, SinkCheckpoint(a), ckpts' = ckpts \cup {sha[a]}
        PROVE  CheckpointsArePushed'
    <3>1. AfterPush(evt[a])
      BY <2>2 DEF SinkCheckpoint, At, Carried, HasCommit, AfterPush
    <3>2. sha[a] \in 1..remote
      BY <1>0, <3>1 DEF Owned
    <3>3. ckpts \subseteq 1..remote /\ 1..remote \subseteq 1..remote'
      BY <1>0 DEF Carried, CheckpointsArePushed
    <3> QED
      BY <2>2, <3>2, <3>3 DEF CheckpointsArePushed
  <2> QED
    BY <2>1, <2>2, CarriedGrows
<1>2. ASSUME runState' = "held_for_human"
      PROVE  eventKey(Outcome("held_for_human")) \in cards'
  <2>1. CASE runState = "held_for_human"
    BY <1>0, <2>1 DEF Carried, HeldRunHasCard
  <2>2. ASSUME NEW a \in Attempts, Sink(a) \/ Tail(a)
        PROVE  runState' = runState
    BY <2>2 DEF Sink, SinkCheck, SinkInsert, SinkCard, SinkCheckpoint, Tail, Meter,
       CountReputation, EscalateTask, Complete, dbVars
  <2>3. ASSUME NEW a \in Attempts, TransitionWrite(a)
        PROVE  eventKey(Outcome("held_for_human")) \in cards'
    <3>1. pc[a] \in InTransition /\ MovesRun(evt[a]) /\ Target(evt[a]) = "held_for_human"
      BY <1>2, <2>3 DEF TransitionWrite, Wanted, At, InTransition, Placed, PlacedAttempt
    <3>2. evt[a].type = "outcome"
      BY <3>1 DEF MovesRun, Target
    <3>3. eventKey(evt[a]) = KeyOf("outcome") /\ eventKey(evt[a]) \in cards
      BY <3>1, <3>2 DEF Staged, StagedAttempt, Carried
    <3> QED
      BY <1>0, <3>3, OutcomeKey
  <2>4. ASSUME NEW q \in Requests, TransitionWrite(q)
        PROVE  FALSE
    BY <1>2, <2>4, RequestsAssumption DEF TransitionWrite, Wanted, Attempts, TypeOK, TypeReq
  <2> QED
    BY <1>2, <2>1, <2>2, <2>3, <2>4, DbSteps DEF Actors
<1> QED
  BY <1>1, <1>2, PostedFirst DEF Carried, HeldRunHasCard, Attempts

\* An attempt that is past its charge, or past its count, stays so.
LEMMA TailStays ==
  ASSUME TypeOK, Placed, [Next]_vars, NEW b \in Attempts
  PROVE  (Charged(b) => Charged(b)') /\ (Counted(b) => Counted(b)')
<1> DEFINE Later == {"escalate", "return", "completed", "aborted"}
<1>1. evt[b].type = "outcome" => evt'[b] = evt[b]
  BY Settled
<1>2. /\ pc[b] \in Later => pc'[b] \in Later
      /\ pc[b] = "reputation" => pc'[b] \in Later \cup {"reputation"}
  <2> USE DEF TypeOK, TypePc, Actors, At, Goto
  <2>1. CASE Stays(b)
    BY <2>1 DEF Stays
  <2>2. CASE Begins(b) \/ Stops(b) \/ Emits(b) \/ Works(b)
    BY <2>2 DEF Begins, Stops, Emits, Works, Returned, Live, Ended
  <2>3. CASE Sink(b)
    BY <2>3 DEF Sink, SinkCheck, SinkInsert, SinkCard, SinkCheckpoint
  <2>4. CASE Transition(b)
    BY <2>4 DEF Transition, TransitionCheck, TransitionWrite, TransitionTask
  <2>5. CASE Tail(b)
    BY <2>5 DEF Tail, Meter, Returned, CountReputation, EscalateTask, Complete
  <2> QED
    BY <2>1, <2>2, <2>3, <2>4, <2>5, StepOf
<1> QED
  BY <1>1, <1>2 DEF Charged, Counted

\* An outcome that is not a parked plan is the owner's.
LEMMA OneDecides ==
  ASSUME Owned, Staged, NEW a \in Attempts, NEW b \in Attempts,
         evt[a].type = "outcome", evt[b].type = "outcome",
         ~asked \/ (Decisive(evt[a]) /\ Decisive(evt[b]))
  PROVE  a = b
BY DEF Owned, SinglePusher, AfterPush, Staged, StagedAttempt, Awaits, Decisive

\* Every step keeps the charge and the count of a run single.
LEMMA AccountedStep ==
  ASSUME TypeOK, Placed, Owned, Staged, Accounted, [Next]_vars
  PROVE  Accounted'
<1> USE DEF TypeOK, TypePc, Actors, At, Goto
<1>0. charged \in Nat /\ rep \in Nat /\ asked' = asked
  BY PlanSteps DEF TypeDb
<1>1. \A b \in Attempts : pc'[b] = "reputation" => Decisive(evt'[b])
  <2> SUFFICES ASSUME NEW b \in Attempts, pc'[b] = "reputation" PROVE Decisive(evt'[b])
    OBVIOUS
  <2>1. CASE Stays(b)
    BY <2>1 DEF Stays, Accounted
  <2>2. CASE Begins(b) \/ Stops(b) \/ Emits(b) \/ Works(b)
    BY <2>2 DEF Begins, Stops, Emits, Works
  <2>3. CASE Sink(b) \/ Transition(b)
    BY <2>3 DEF Sink, SinkCheck, SinkInsert, SinkCard, AfterCard, SinkCheckpoint, Transition,
       TransitionCheck, TransitionWrite, TransitionTask, AfterTransition, Throw
  <2>4. CASE Tail(b)
    BY <2>4, EventKept DEF Tail, Meter, CountReputation, EscalateTask, Complete
  <2> QED
    BY <2>1, <2>2, <2>3, <2>4, StepOf
<1>2. \/ UNCHANGED <<charged, rep>>
      \/ \E a \in Attempts : Meter(a) /\ charged' = charged + 1 /\ rep' = rep
      \/ \E a \in Attempts : CountReputation(a) /\ charged' = charged /\ rep' = rep + 1
  <2>1. ASSUME NEW a \in Attempts, Sink(a)
        PROVE  UNCHANGED <<charged, rep>>
    BY <2>1 DEF Sink, SinkCheck, SinkInsert, SinkCard, SinkCheckpoint, dbVars
  <2>2. ASSUME NEW x \in Actors, TransitionWrite(x)
        PROVE  UNCHANGED <<charged, rep>>
    BY <2>2 DEF TransitionWrite
  <2>3. ASSUME NEW a \in Attempts, Tail(a)
        PROVE  \/ UNCHANGED <<charged, rep>>
               \/ Meter(a) /\ charged' = charged + 1 /\ rep' = rep
               \/ CountReputation(a) /\ charged' = charged /\ rep' = rep + 1
    BY <2>3 DEF Tail, Meter, CountReputation, EscalateTask, Complete, dbVars
  <2> QED
    BY <2>1, <2>2, <2>3, DbSteps
<1>3. CASE UNCHANGED <<charged, rep>>
  <2>1. charged > 0 => \E a \in Attempts : Charged(a)'
    BY TailStays DEF Accounted
  <2>2. rep > 0 => \E a \in Attempts : Counted(a)'
    BY TailStays DEF Accounted
  <2> QED
    BY <1>0, <1>1, <1>3, <2>1, <2>2 DEF Accounted, AccountedOnce, Attempts
<1>4. ASSUME NEW a \in Attempts, Meter(a), charged' = charged + 1, rep' = rep
      PROVE  Accounted'
  <2>1. pc[a] = "ret" /\ evt[a].type = "outcome" /\ evt' = evt /\ pc'[a] \in {"reputation", "return"}
    BY <1>4 DEF Meter, Returned, attVars
  <2>2. Charged(a)'
    BY <2>1 DEF Charged
  <2>3. ~asked => charged = 0
    <3> SUFFICES ASSUME ~asked, charged # 0 PROVE FALSE
      OBVIOUS
    <3>1. PICK b \in Attempts : Charged(b)
      BY <1>0 DEF Accounted
    <3>2. a = b
      BY <2>1, <3>1, OneDecides DEF Charged
    <3> QED
      BY <2>1, <3>1, <3>2 DEF Charged
  <2>4. rep > 0 => \E b \in Attempts : Counted(b)'
    BY TailStays DEF Accounted
  <2> QED
    BY <1>0, <1>1, <1>4, <2>2, <2>3, <2>4 DEF Accounted, AccountedOnce, Attempts
<1>5. ASSUME NEW a \in Attempts, CountReputation(a), charged' = charged, rep' = rep + 1
      PROVE  Accounted'
  <2>1. pc[a] = "reputation" /\ evt[a].type = "outcome" /\ Decisive(evt[a]) /\ evt' = evt
        /\ pc'[a] = "escalate"
    BY <1>5 DEF CountReputation, attVars, Placed, PlacedAttempt, Accounted
  <2>2. Counted(a)'
    BY <2>1 DEF Counted
  <2>3. rep = 0
    <3> SUFFICES ASSUME rep # 0 PROVE FALSE
      OBVIOUS
    <3>1. PICK b \in Attempts : Counted(b)
      BY <1>0 DEF Accounted
    <3>2. a = b
      BY <2>1, <3>1, OneDecides DEF Counted
    <3> QED
      BY <2>1, <3>1, <3>2 DEF Counted
  <2>4. charged > 0 => \E b \in Attempts : Charged(b)'
    BY TailStays DEF Accounted
  <2> QED
    BY <1>0, <1>1, <1>5, <2>2, <2>3, <2>4 DEF Accounted, AccountedOnce, Attempts
<1> QED
  BY <1>2, <1>3, <1>4, <1>5

(***************************************************************************)
(* Unplanned                                                               *)
(***************************************************************************)

\* Without a plan, the row of a run is moved in three ways: its one starter sets it
\* running, its owner gives it the outcome, a person adds a merge to a hold.
LEMMA UnplannedWrite ==
  ASSUME TypeOK, Placed, Owned, Staged, Unplanned, [Next]_vars, ~asked, runState' # runState
  PROVE  \/ /\ runState = "pending" /\ runState' = "running"
            /\ \E a \in Attempts : TransitionWrite(a) /\ Starts(a)
         \/ /\ runState = "running"
            /\ \E a \in Attempts : /\ TransitionWrite(a) /\ evt[a].type = "outcome"
                                   /\ runState' = evt[a].outcome
                                   /\ evt[a].outcome \in FusionOutcome \ {"awaiting_plan"}
         \/ /\ runState = "held_for_human" /\ runState' = "merged"
            /\ \E q \in Requests : TransitionWrite(q)
<1>1. ASSUME NEW a \in Attempts, Sink(a) \/ Tail(a)
      PROVE  runState' = runState
  BY <1>1 DEF Sink, SinkCheck, SinkInsert, SinkCard, SinkCheckpoint, Tail, Meter, CountReputation,
     EscalateTask, Complete, dbVars
<1>2. ASSUME NEW a \in Attempts, TransitionWrite(a), evt[a].type = "sandbox_started"
      PROVE  runState = "pending" /\ runState' = "running" /\ Starts(a)
  <2>1. Starts(a) /\ runState' = "running"
    BY <1>2 DEF TransitionWrite, At, Starts, Wanted, Target
  <2> QED
    BY <2>1 DEF Unplanned, UnplannedAttempt
<1>3. ASSUME NEW a \in Attempts, TransitionWrite(a), evt[a].type = "outcome"
      PROVE  /\ runState = "running" /\ runState' = evt[a].outcome
             /\ evt[a].outcome \in FusionOutcome \ {"awaiting_plan"}
  <2>1. pc[a] = "trWrite" /\ evt[a].outcome \in FusionOutcome /\ ~Awaits(a)
    BY <1>3 DEF TransitionWrite, At, Placed, PlacedAttempt, Staged, StagedAttempt
  <2>2. runState' = evt[a].outcome
    BY <1>3, <2>1 DEF TransitionWrite, Wanted, Target, Awaits
  <2> QED
    BY <1>3, <2>1, <2>2 DEF Unplanned, UnplannedAttempt, Awaits
<1>4. ASSUME NEW a \in Attempts, TransitionWrite(a)
      PROVE  evt[a].type \in {"sandbox_started", "outcome"}
  BY <1>4 DEF TransitionWrite, At, Placed, PlacedAttempt, InTransition, MovesRun
<1>5. ASSUME NEW q \in Requests, TransitionWrite(q)
      PROVE  runState = "held_for_human" /\ runState' = "merged"
  <2>1. q \notin Attempts /\ pc[q] = "trWrite"
    BY <1>5, RequestsAssumption DEF Attempts, TransitionWrite, At
  <2>2. wish[q] = "merged" /\ runState \in {"held_for_human", "merged"}
    BY <2>1 DEF Unplanned, Placed, PlacedRequest
  <2> QED
    BY <1>5, <2>1, <2>2 DEF TransitionWrite, Wanted
<1> QED
  BY <1>1, <1>2, <1>3, <1>4, <1>5, DbSteps DEF Actors

\* The attempt that comes to start the run is the one that logged its start.
LEMMA StartsStep ==
  ASSUME TypeOK, Placed, Carried, [Next]_vars, NEW b \in Attempts, Starts(b)'
  PROVE  \/ Starts(b) /\ evt'[b] = evt[b]
         \/ /\ SinkInsert(b) /\ evt[b].type = "sandbox_started" /\ UNCHANGED runState
            /\ eventKey(evt[b]) \notin LoggedKeys
<1> USE DEF TypeOK, TypePc, Actors, At, Goto, Starts
<1>1. CASE Stays(b)
  BY <1>1 DEF Stays
<1>2. CASE Begins(b) \/ Stops(b) \/ Emits(b) \/ Works(b)
  BY <1>2 DEF Begins, Stops, Emits, Works
<1>3. CASE Sink(b)
  <2>1. evt' = evt
    BY <1>3, EventKept
  <2>2. CASE SinkCheck(b) \/ SinkCard(b) \/ SinkCheckpoint(b)
    BY <2>1, <2>2 DEF SinkCheck, SinkCard, AfterCard, SinkCheckpoint, Carried, HasCommit
  <2>3. CASE SinkInsert(b)
    BY <2>1, <2>3 DEF SinkInsert, Conflicts
  <2> QED
    BY <1>3, <2>2, <2>3 DEF Sink
<1>4. CASE Transition(b)
  <2>1. evt' = evt
    BY <1>4, EventKept
  <2> QED
    BY <1>4, <2>1 DEF Transition, TransitionCheck, TransitionWrite, TransitionTask,
       AfterTransition, Throw
<1>5. CASE Tail(b)
  BY <1>5 DEF Tail, Meter, CountReputation, EscalateTask, Complete
<1> QED
  BY <1>1, <1>2, <1>3, <1>4, <1>5, StepOf

\* An attempt that is not the one that moves stays.
LEMMA OthersStay ==
  ASSUME TypeOK, NEW a \in Attempts, NEW b \in Attempts, a # b, AttemptStep(a)
  PROVE  Stays(b)
BY AttemptLocal DEF OthersKept, Stays, Actors

\* A write of the row moves the attempt that makes it on.
LEMMA WriteMoves ==
  ASSUME TypeOK, NEW a \in Attempts, TransitionWrite(a)
  PROVE  pc[a] = "trWrite" /\ pc'[a] \in {"trTask", "ret"} /\ ~Stays(a)
         /\ (isTerminal(Wanted(a)) => pc'[a] = "trTask")
BY DEF TransitionWrite, At, Goto, AfterTransition, TypeOK, TypePc, Actors, Stays

\* Without a plan one attempt starts the run, while it is pending.
LEMMA StarterStep ==
  ASSUME TypeOK, Placed, Owned, Staged, Carried, Unplanned, [Next]_vars, ~asked
  PROVE  /\ \A a, b \in Attempts : Starts(a)' /\ Starts(b)' => a = b
         /\ \A b \in Attempts : Starts(b)' => runState' = "pending"
<1>1. \A b \in Attempts : Starts(b) => KeyOf("sandbox_started") \in LoggedKeys
  BY DEF Starts, Staged, StagedAttempt, PastSink, AttemptPc
<1>2. \A b \in Attempts : evt[b].type = "sandbox_started" => eventKey(evt[b]) = KeyOf("sandbox_started")
  BY DEF Staged, StagedAttempt
<1>3. ASSUME NEW a \in Attempts, NEW b \in Attempts, Starts(a)', Starts(b)', a # b
      PROVE  FALSE
  <2>1. ASSUME NEW c \in {a, b}, NEW d \in {a, b}, c # d, SinkInsert(c),
               KeyOf("sandbox_started") \notin LoggedKeys
        PROVE  FALSE
    <3>1. Stays(d)
      BY <2>1, OthersStay DEF AttemptStep, Sink
    <3>2. Starts(d)
      BY <1>3, <2>1, <3>1 DEF Stays, Starts
    <3> QED
      BY <1>1, <2>1, <3>2
  <2>2. Starts(a) /\ Starts(b)
    BY <1>2, <1>3, <2>1, StartsStep
  <2> QED
    BY <1>3, <2>2 DEF Unplanned
<1>4. ASSUME NEW b \in Attempts, Starts(b)'
      PROVE  runState' = "pending"
  <2>1. CASE Starts(b)
    <3>1. runState = "pending"
      BY <2>1 DEF Unplanned, UnplannedAttempt
    <3>2. ASSUME NEW a \in Attempts, TransitionWrite(a), Starts(a) PROVE FALSE
      <4>1. a = b
        BY <2>1, <3>2 DEF Unplanned
      <4> QED
        BY <1>4, <3>2, <4>1, WriteMoves DEF Starts
    <3> QED
      BY <3>1, <3>2, UnplannedWrite
  <2>2. CASE SinkInsert(b) /\ evt[b].type = "sandbox_started" /\ UNCHANGED runState
             /\ eventKey(evt[b]) \notin LoggedKeys
    BY <1>2, <2>2 DEF Unplanned
  <2> QED
    BY <1>4, <2>1, <2>2, StartsStep
<1> QED
  BY <1>3, <1>4

\* Without a plan, the outcome is logged by the attempt that has it.
LEMMA OutcomeLogged ==
  ASSUME TypeOK, Placed, Owned, Staged, Unplanned, [Next]_vars, ~asked
  PROVE  /\ KeyOf("outcome") \in LoggedKeys' => \E a \in Attempts : evt'[a].type = "outcome"
         /\ \A b \in Attempts :
              /\ AfterPush(evt[b]) /\ evt[b].type # "outcome" => KeyOf("outcome") \notin LoggedKeys
              /\ evt[b].type = "outcome" /\ Stays(b) /\ KeyOf("outcome") \notin LoggedKeys
                   => KeyOf("outcome") \notin LoggedKeys'
<1>1. ASSUME NEW b \in Attempts, NEW c \in Attempts, AfterPush(evt[b]), evt[c].type = "outcome"
      PROVE  b = c
  BY <1>1 DEF Staged, StagedAttempt, Awaits, AfterPush, Owned, SinglePusher
<1>2. ASSUME KeyOf("outcome") \notin LoggedKeys, KeyOf("outcome") \in LoggedKeys'
      PROVE  \E a \in Attempts : SinkInsert(a) /\ pc[a] = "insert" /\ pc'[a] = "card"
                                 /\ evt'[a] = evt[a] /\ evt[a].type = "outcome"
  <2>1. PICK a \in Attempts : /\ SinkInsert(a) /\ pc[a] = "insert"
                              /\ ~Conflicts(eventKey(evt[a]), seq[a])
                              /\ log' = log \cup {[key |-> eventKey(evt[a]), seq |-> seq[a]]}
    BY <1>2, LogSteps DEF LoggedKeys
  <2>2. eventKey(evt[a]) = KeyOf("outcome")
    BY <1>2, <2>1, RowAdded
  <2>3. evt[a].type = "outcome"
    BY <2>2 DEF eventKey, KeyOf, Plain, Event
  <2>4. evt' = evt /\ pc'[a] = "card"
    BY <2>1, EventKept DEF Sink, SinkInsert, Goto, TypeOK, TypePc, Actors
  <2> QED
    BY <2>1, <2>3, <2>4
<1>3. ASSUME KeyOf("outcome") \in LoggedKeys' PROVE \E a \in Attempts : evt'[a].type = "outcome"
  <2>1. CASE KeyOf("outcome") \in LoggedKeys
    BY <2>1, Settled DEF Unplanned
  <2> QED
    BY <1>2, <1>3, <2>1
<1>4. ASSUME NEW b \in Attempts, AfterPush(evt[b]), evt[b].type # "outcome"
      PROVE  KeyOf("outcome") \notin LoggedKeys
  BY <1>1, <1>4 DEF Unplanned
<1>5. ASSUME NEW b \in Attempts, evt[b].type = "outcome", Stays(b), KeyOf("outcome") \notin LoggedKeys,
             KeyOf("outcome") \in LoggedKeys'
      PROVE  FALSE
  <2>1. PICK a \in Attempts : pc[a] = "insert" /\ pc'[a] = "card" /\ evt[a].type = "outcome"
    BY <1>2, <1>5
  <2>2. a = b
    BY <1>5, <2>1, OneDecides
  <2> QED
    BY <1>5, <2>1, <2>2 DEF Stays
<1> QED
  BY <1>3, <1>4, <1>5

\* Without a plan, what the row holds follows from where the outcome is.
LEMMA DecidedStep ==
  ASSUME TypeOK, Placed, Owned, Staged, Numbered, Carried, Unplanned, [Next]_vars, ~asked,
         NEW b \in Attempts, evt'[b].type = "outcome"
  PROVE  /\ pc'[b] \in {"check", "insert"} => KeyOf("outcome") \notin LoggedKeys'
         /\ pc'[b] \in {"card", "ckpt", "trCheck"} => runState' \in {"pending", "running"}
         /\ pc'[b] = "trWrite" => runState' = "running"
         /\ pc'[b] \in {"trTask", "ret", "reputation", "escalate", "return"} => RecordedBy(b)'
<1> DEFINE goal == /\ pc'[b] \in {"check", "insert"} => KeyOf("outcome") \notin LoggedKeys'
                   /\ pc'[b] \in {"card", "ckpt", "trCheck"} => runState' \in {"pending", "running"}
                   /\ pc'[b] = "trWrite" => runState' = "running"
                   /\ pc'[b] \in {"trTask", "ret", "reputation", "escalate", "return"} => RecordedBy(b)'
<1> USE DEF TypeOK, TypePc, Actors, At, Goto
<1>1. UnplannedAttempt(b) /\ StagedAttempt(b) /\ PlacedAttempt(b)
  BY DEF Unplanned, Staged, Placed
<1>2. CASE Stays(b)
  <2>1. evt[b].type = "outcome" /\ evt'[b] = evt[b] /\ pc'[b] = pc[b]
    BY <1>2 DEF Stays
  <2>2. pc'[b] \in {"check", "insert"} => KeyOf("outcome") \notin LoggedKeys'
    BY <1>1, <1>2, <2>1, OutcomeLogged DEF UnplannedAttempt
  <2>3. CASE runState' = runState
    BY <1>1, <2>1, <2>2, <2>3 DEF UnplannedAttempt, RecordedBy, Holds
  <2>4. CASE runState = "pending" /\ runState' = "running"
    <3>1. evt[b].outcome \in FusionOutcome
      BY <1>1, <2>1 DEF PlacedAttempt
    <3> QED
      BY <1>1, <2>1, <2>2, <2>4, <3>1 DEF UnplannedAttempt, RecordedBy, FusionOutcome
  <2>5. ASSUME NEW a \in Attempts, TransitionWrite(a), evt[a].type = "outcome"
        PROVE  FALSE
    <3>1. a = b
      BY <2>1, <2>5, OneDecides
    <3> QED
      BY <1>2, <2>5, <3>1, WriteMoves
  <2>6. CASE runState = "held_for_human" /\ runState' = "merged"
    BY <1>1, <2>1, <2>2, <2>6 DEF UnplannedAttempt, RecordedBy, Holds
  <2> QED
    BY <2>3, <2>4, <2>5, <2>6, UnplannedWrite
<1>3. CASE UNCHANGED dbVars /\ (Begins(b) \/ Stops(b) \/ Emits(b) \/ Works(b))
  <2>1. ~Begins(b) /\ ~Works(b)
    BY DEF Begins, Works, Plain, Event
  <2>2. CASE Stops(b)
    BY <2>2 DEF Stops
  <2>3. CASE Emits(b)
    <3>1. pc'[b] = "check" /\ UNCHANGED LoggedKeys
      BY <1>3, <2>3 DEF Emits, dbVars, LoggedKeys
    <3>2. AfterPush(evt[b]) /\ evt[b].type # "outcome"
      BY <1>1, <2>3 DEF Emits, Returned, Plain, Event, StagedAttempt
    <3> QED
      BY <3>1, <3>2, OutcomeLogged
  <2> QED
    BY <1>3, <2>1, <2>2, <2>3
<1>4. Sink(b) \/ Transition(b) \/ Tail(b) => evt[b].type = "outcome" /\ evt'[b] = evt[b]
  BY EventKept
<1>5. CASE Sink(b)
  <2>1. /\ evt[b].type = "outcome" /\ evt'[b] = evt[b] /\ UNCHANGED runState
        /\ eventKey(evt[b]) = KeyOf("outcome") /\ HasCommit(evt[b]) /\ MovesRun(evt[b])
    BY <1>1, <1>4, <1>5 DEF StagedAttempt, Awaits, HasCommit, MovesRun, Sink, SinkCheck, SinkInsert,
       SinkCard, SinkCheckpoint, dbVars
  <2>2. CASE SinkCheck(b)
    BY <1>1, <2>1, <2>2 DEF SinkCheck, UnplannedAttempt, dbVars, LoggedKeys
  <2>3. CASE SinkInsert(b)
    <3>1. KeyOf("outcome") \notin LoggedKeys /\ pc[b] = "insert"
      BY <1>1, <2>1, <2>3 DEF SinkInsert, UnplannedAttempt
    <3>2. pc'[b] = "card"
      BY <2>1, <2>3, <3>1, InsertsFree DEF SinkInsert
    <3> QED
      BY <2>1, <3>1, <3>2 DEF Unplanned
  <2>4. CASE SinkCard(b) \/ SinkCheckpoint(b)
    BY <1>1, <2>1, <2>4 DEF SinkCard, AfterCard, SinkCheckpoint, UnplannedAttempt
  <2> QED
    BY <1>5, <2>2, <2>3, <2>4 DEF Sink
<1>6. CASE Transition(b)
  <2>1. /\ evt[b].type = "outcome" /\ evt'[b] = evt[b] /\ Wanted(b) = evt[b].outcome
        /\ evt[b].outcome \in {"merged", "checks_failed", "timeout", "held_for_human"}
    BY <1>1, <1>4, <1>6 DEF StagedAttempt, Awaits, PlacedAttempt, FusionOutcome, Wanted, Target
  <2>2. CASE TransitionCheck(b)
    <3>1. runState \in {"pending", "running"} /\ UNCHANGED runState
      BY <1>1, <2>1, <2>2 DEF TransitionCheck, UnplannedAttempt, dbVars
    <3>2. pc'[b] = "trWrite" => canTransition(runState, Wanted(b))
      BY <2>1, <2>2, <3>1 DEF TransitionCheck, Throw
    <3>3. pc'[b] \in {"trWrite", "rejected"}
      BY <2>2 DEF TransitionCheck, Throw
    <3>4. ~canTransition("pending", Wanted(b))
      BY <2>1 DEF canTransition, TRANSITIONS, RunStates
    <3> QED
      BY <3>1, <3>2, <3>3, <3>4
  <2>3. CASE TransitionWrite(b)
    <3>1. pc'[b] = "trTask" /\ runState' = evt[b].outcome
      BY <2>1, <2>3, WriteMoves DEF isTerminal, TERMINAL_RUN_STATES, TransitionWrite
    <3> QED
      BY <2>1, <3>1 DEF RecordedBy
  <2>4. CASE TransitionTask(b)
    BY <1>1, <2>1, <2>4 DEF TransitionTask, AfterTransition, UnplannedAttempt, RecordedBy, Holds
  <2> QED
    BY <1>6, <2>2, <2>3, <2>4 DEF Transition
<1>7. CASE Tail(b)
  <2>1. UNCHANGED runState /\ evt[b].type = "outcome" /\ evt'[b] = evt[b]
    BY <1>4, <1>7 DEF Tail, Meter, CountReputation, EscalateTask, Complete, dbVars
  <2>2. pc[b] \in {"ret", "reputation", "escalate", "return"}
        /\ pc'[b] \in {"reputation", "escalate", "return", "completed"}
    BY <1>7 DEF Tail, Meter, Returned, CountReputation, EscalateTask, Complete
  <2> QED
    BY <1>1, <2>1, <2>2 DEF UnplannedAttempt, RecordedBy, Holds
<1> HIDE DEF goal
<1>8. goal
  BY <1>2, <1>3, <1>5, <1>6, <1>7, StepOf DEF goal
<1> QED
  BY <1>8 DEF goal

\* Without a plan, a request is about a hold, and stays about it.
LEMMA HeldRequestStep ==
  ASSUME TypeOK, Placed, Owned, Staged, Unplanned, [Next]_vars, ~asked, NEW q \in Requests
  PROVE  /\ wish'[q] \in {"none", "merged"}
         /\ pc'[q] # "idle" => runState' \in {"held_for_human", "merged"}
<1> USE DEF TypeOK, TypePc, Actors, At, Goto
<1>1. wish'[q] \in {"none", "merged"}
  BY WishSteps DEF Unplanned
<1>2. ASSUME pc'[q] # "idle"
      PROVE  pc[q] # "idle" \/ (runState = "held_for_human" /\ runState' = runState)
  <2>1. CASE pc'[q] = pc[q]
    BY <1>2, <2>1
  <2>2. ASSUME NEW a \in Attempts, AttemptStep(a) \/ SandboxPush(a) \/ Fault(a)
        PROVE  pc'[q] = pc[q]
    BY <2>2, AttemptLocal, RequestsAssumption DEF OthersKept, Attempts
  <2>3. CASE Dispatch
    BY <2>1, <2>3, DispatchLocal, RequestsAssumption DEF OthersKept, Attempts
  <2>4. ASSUME NEW p \in Requests, RequestStep(p), p # q
        PROVE  pc'[q] = pc[q]
    BY <2>4, RequestLocal DEF OthersKept
  <2>5. CASE RequestStep(q)
    BY <1>2, <2>5 DEF RequestStep, LoadPlan, LoadHeld, LandHeld, StartExecution, AbortRequest,
       Transition, TransitionCheck, TransitionWrite, TransitionTask, dbVars, Unplanned
  <2>6. CASE UNCHANGED vars
    BY <2>1, <2>6 DEF vars
  <2> QED
    BY <2>1, <2>2, <2>3, <2>4, <2>5, <2>6 DEF Next
<1>3. ASSUME pc'[q] # "idle", runState \in {"held_for_human", "merged"}
      PROVE  runState' \in {"held_for_human", "merged"}
  BY <1>3, UnplannedWrite
<1> QED
  BY <1>1, <1>2, <1>3 DEF Unplanned

\* What a completed execution returned is what the row held when it completed.
LEMMA RecordedStep ==
  ASSUME TypeOK, Placed, Owned, Staged, Unplanned, [Next]_vars, ~asked
  PROVE  OutcomeRecorded'
<1>1. \/ UNCHANGED result
      \/ \E a \in Attempts : /\ pc[a] = "return" /\ evt[a].type = "outcome"
                             /\ result' = evt[a].outcome /\ UNCHANGED runState
  <2>1. CASE Dispatch
    BY <2>1 DEF Dispatch
  <2>2. ASSUME NEW a \in Attempts, Sink(a) \/ SandboxPush(a) \/ Fault(a)
        PROVE  UNCHANGED result
    BY <2>2 DEF Sink, SinkCheck, SinkInsert, SinkCard, SinkCheckpoint, SandboxPush, Fault, Abort,
       TimeOut, SandboxFails, Throw, wfVars
  <2>3. ASSUME NEW x \in Actors, Transition(x)
        PROVE  UNCHANGED result
    BY <2>3 DEF Transition, TransitionCheck, TransitionWrite, TransitionTask, Throw, wfVars
  <2>4. ASSUME NEW a \in Attempts, Fusion(a)
        PROVE  UNCHANGED result
    BY <2>4 DEF Fusion, ProposePlan, ParkPlan, CallSandbox, FindPr, OpenPr, Poll, ChecksPending,
       Gate, Merge, ChecksFailed, CiFix, Throw, wfVars
  <2>5. ASSUME NEW a \in Attempts, Tail(a)
        PROVE  \/ UNCHANGED result
               \/ /\ pc[a] = "return" /\ evt[a].type = "outcome"
                  /\ result' = evt[a].outcome /\ UNCHANGED runState
    BY <2>5 DEF Tail, Meter, CountReputation, EscalateTask, Complete, wfVars, dbVars, At, Placed,
       PlacedAttempt
  <2>6. ASSUME NEW q \in Requests, RequestStep(q), ~Transition(q)
        PROVE  UNCHANGED result
    BY <2>6 DEF RequestStep, LoadPlan, LoadHeld, LandHeld, StartExecution, AbortRequest, wfVars
  <2>7. CASE UNCHANGED vars
    BY <2>7 DEF vars, wfVars
  <2> QED
    BY <2>1, <2>2, <2>3, <2>4, <2>5, <2>6, <2>7 DEF Next, AttemptStep, Actors
<1>2. ASSUME NEW a \in Attempts, pc[a] = "return", evt[a].type = "outcome",
             result' = evt[a].outcome, UNCHANGED runState
      PROVE  OutcomeRecorded'
  BY <1>2 DEF Unplanned, UnplannedAttempt, RecordedBy, Holds, OutcomeRecorded
<1>3. CASE UNCHANGED result
  <2>1. OutcomeRecorded
    BY DEF Unplanned
  <2>2. CASE UNCHANGED runState
    BY <1>3, <2>1, <2>2 DEF OutcomeRecorded
  <2>3. CASE runState \in {"pending", "running"}
    BY <1>3, <2>1, <2>3 DEF OutcomeRecorded, FusionOutcome
  <2>4. CASE runState = "held_for_human" /\ runState' = "merged"
    BY <1>3, <2>1, <2>4 DEF OutcomeRecorded
  <2> QED
    BY <2>2, <2>3, <2>4, UnplannedWrite
<1> QED
  BY <1>1, <1>2, <1>3

\* Every step of a run without a plan keeps its row where its attempts say.
LEMMA UnplannedStep ==
  ASSUME TypeOK, Placed, Owned, Staged, Numbered, Carried, Unplanned, [Next]_vars
  PROVE  Unplanned'
<1> SUFFICES ASSUME ~asked PROVE Unplanned'
  BY PlanSteps DEF Unplanned
<1>1. LoggedKeys \subseteq LoggedKeys'
  BY LoggedGrows
<1>2. KeyOf("sandbox_started") \notin LoggedKeys' => runState' = "pending"
  <2> SUFFICES ASSUME KeyOf("sandbox_started") \notin LoggedKeys' PROVE runState' = "pending"
    OBVIOUS
  <2>1. runState = "pending" /\ KeyOf("sandbox_started") \notin LoggedKeys
    BY <1>1 DEF Unplanned
  <2>2. \A a \in Attempts : ~Starts(a)
    BY <2>1 DEF Starts, Staged, StagedAttempt, PastSink, AttemptPc
  <2> QED
    BY <2>1, <2>2, UnplannedWrite
<1>3. KeyOf("outcome") \notin LoggedKeys' => runState' \in {"pending", "running"}
  <2> SUFFICES ASSUME KeyOf("outcome") \notin LoggedKeys' PROVE runState' \in {"pending", "running"}
    OBVIOUS
  <2>1. runState \in {"pending", "running"} /\ KeyOf("outcome") \notin LoggedKeys
    BY <1>1 DEF Unplanned
  <2>2. \A a \in Attempts : TransitionWrite(a) => evt[a].type # "outcome"
    BY <2>1 DEF TransitionWrite, At, Staged, StagedAttempt, PastSink, AttemptPc
  <2> QED
    BY <2>1, <2>2, UnplannedWrite
<1>4. KeyOf("outcome") \in LoggedKeys' => \E a \in Attempts : evt'[a].type = "outcome"
  BY OutcomeLogged
<1>5. runState' \notin {"awaiting_plan_approval", "error"}
  BY UnplannedWrite DEF Unplanned, FusionOutcome
<1>6. /\ \A a, b \in Attempts : Starts(a)' /\ Starts(b)' => a = b
      /\ \A b \in Attempts : UnplannedAttempt(b)'
  BY StarterStep, DecidedStep DEF UnplannedAttempt
<1>7. \A q \in Requests : /\ wish'[q] \in {"none", "merged"}
                          /\ pc'[q] # "idle" => runState' \in {"held_for_human", "merged"}
  BY HeldRequestStep
<1>8. OutcomeRecorded'
  BY RecordedStep
<1> QED
  BY <1>2, <1>3, <1>4, <1>5, <1>6, <1>7, <1>8 DEF Unplanned, Attempts

(***************************************************************************)
(* The theorems                                                            *)
(***************************************************************************)

\* The initial states satisfy the invariant.
LEMMA InitInv == Init => IInv
<1> SUFFICES ASSUME Init PROVE IInv
  OBVIOUS
<1> USE BoundsAssumption, ModesAssumption, RequestsAssumption DEF Init
<1>1. NoEvent \in Events /\ NoEvent.type = "none"
  BY DEF NoEvent, Plain, Event, Events
<1>2. TypeOK
  <2>1. TypeDb /\ TypeGh BY DEF TypeDb, TypeGh, RunStates
  <2>2. TypeWf BY DEF TypeWf
  <2>3. TypePc BY DEF TypePc, AttemptPc
  <2>4. TypeAtt BY <1>1 DEF TypeAtt
  <2>5. TypeReq BY DEF TypeReq
  <2> QED BY <2>1, <2>2, <2>3, <2>4, <2>5 DEF TypeOK
<1>3. Placed
  <2>1. IsFiniteSet(log) BY FS_EmptySet
  <2> QED BY <1>1, <2>1 DEF Placed, PlacedAttempt, PlacedRequest, AttemptPc,
          RequestPc, InTransition, Actors
<1>4. Owned
  BY <1>1 DEF Owned, SinglePusher, AfterPush, AfterOpen
<1>5. Vouched
  BY <1>1 DEF Vouched, SawGreen, LandsGreenAndLicensed, Actors
<1>6. Unapproved
  BY <1>1 DEF Unapproved, Actors
<1>7. Staged
  BY <1>1 DEF Staged, StagedAttempt, AfterPush, Awaits, PastSink, Actors
<1>8. Numbered
  <2>1. LoggedKeys = {} /\ LoggedSeqs = {} /\ Cardinality(log) = 0 /\ Cardinality(LoggedKeys) = 0
    BY FS_EmptySet DEF LoggedKeys, LoggedSeqs
  <2>2. IsFiniteSet(LoggedKeys) /\ \A a \in Attempts : pc[a] = "idle"
    BY <2>1, FS_EmptySet DEF Actors
  <2> QED
    BY <2>1, <2>2 DEF Numbered, EventLogDense, At
<1>9. Carried
  BY DEF Carried, HeldRunHasCard, CheckpointsArePushed, InTransition, Actors
<1>10. Accounted
  BY DEF Accounted, AccountedOnce, Actors
<1>11. Unplanned
  <2>1. LoggedKeys = {}
    BY DEF LoggedKeys
  <2>2. \A a \in Attempts : evt[a].type = "none" /\ pc[a] = "idle"
    BY <1>1 DEF Actors
  <2>3. OutcomeRecorded
    BY DEF OutcomeRecorded, FusionOutcome
  <2>4. \A a \in Attempts : ~Starts(a) /\ UnplannedAttempt(a)
    BY <2>2 DEF Starts, UnplannedAttempt
  <2>5. \A q \in Requests : wish[q] = "none" /\ pc[q] = "idle"
    BY DEF Actors
  <2> QED
    BY <2>1, <2>3, <2>4, <2>5 DEF Unplanned
<1> QED
  BY <1>2, <1>3, <1>4, <1>5, <1>6, <1>7, <1>8, <1>9, <1>10, <1>11 DEF IInv

\* Every reachable state of a run, for any number of attempts, polls, repairs
\* and requests, satisfies the inductive invariant.
THEOREM Invariance == Spec => []IInv
<1>1. Init => IInv
  BY InitInv
<1>2. IInv /\ [Next]_vars => IInv'
  BY TypeStep, PlacedStep, OwnedStep, VouchedStep, UnapprovedStep, StagedStep, NumberedStep,
     CarriedStep, AccountedStep, UnplannedStep DEF IInv
<1> QED BY <1>1, <1>2, PTL DEF Spec

\* The rows, the workflow and the processes of a run keep their types.
THEOREM TypeCorrect == Spec => []TypeOK
<1>1. IInv => TypeOK BY DEF IInv
<1> QED BY <1>1, Invariance, PTL

\* At most one attempt of a run ever gets a commit onto its branch.
THEOREM SinglePusherHolds == Spec => []SinglePusher
<1>1. IInv => SinglePusher BY DEF IInv, Owned
<1> QED BY <1>1, Invariance, PTL

\* A pull request lands only at a green head, and without a person only where
\* the dial allows it.
THEOREM LandsGreenAndLicensedHolds == Spec => []LandsGreenAndLicensed
<1>1. IInv => LandsGreenAndLicensed BY DEF IInv, Vouched
<1> QED BY <1>1, Invariance, PTL

\* A run in plan mode pushes nothing before a person approved its plan.
THEOREM NoEditsBeforeApprovalHolds == Spec => []NoEditsBeforeApproval
<1>1. IInv => NoEditsBeforeApproval
  BY DEF IInv, Unapproved, NoEditsBeforeApproval, TypeOK, TypeGh
<1> QED BY <1>1, Invariance, PTL

\* The log of a run loses no event and numbers none twice, a hold has its card and
\* a checkpoint its commit, whatever attempts overlap (events.ts:66-80).
THEOREM EventLogSoundHolds == Spec => []EventLogSound
<1>1. IInv => NoEventSwallowed
  <2> SUFFICES ASSUME IInv, NEW a \in Attempts, At(a, "insert"), eventKey(evt[a]) \notin LoggedKeys
      PROVE seq[a] \notin LoggedSeqs
    BY DEF NoEventSwallowed
  <2> QED BY InsertsFree DEF IInv, Conflicts, At
<1>2. IInv => EventLogSound
  BY <1>1 DEF IInv, Numbered, Carried, EventLogSound
<1> QED BY <1>2, Invariance, PTL

\* A run is counted once for its agent, and charged once unless it was planned,
\* though the activity that does both is retried (activities.ts:164-191).
THEOREM AccountedOnceHolds == Spec => []AccountedOnce
<1>1. IInv => AccountedOnce BY DEF IInv, Accounted
<1> QED BY <1>1, Invariance, PTL

\* What an execution of a run without a plan returned is what its row holds, or the
\* merge a person added to a hold.
THEOREM OutcomeRecordedHolds == Spec => [](~asked => OutcomeRecorded)
<1>1. IInv => (~asked => OutcomeRecorded) BY DEF IInv, Unplanned
<1> QED BY <1>1, Invariance, PTL

\* Every change of the row of a run without a plan is a legal move of its table,
\* though reading the row, checking the move and writing it are separate statements
\* that attempts and requests interleave (tasks.ts:177-193).
THEOREM UnplannedRunImplementsLifecycle == Spec /\ ~asked => RunImplementsLifecycle
<1>1. Init => Lifecycle!Init
  BY DEF Init, Lifecycle!Init
<1>2. ASSUME IInv, ~asked, [Next]_vars
      PROVE  [Lifecycle!Next]_runState
  <2>1. CASE runState' = runState
    BY <2>1
  <2>2. CASE runState' # runState
    <3>1. \/ runState = "pending" /\ runState' = "running"
          \/ runState = "running" /\ runState' \in FusionOutcome \ {"awaiting_plan"}
          \/ runState = "held_for_human" /\ runState' = "merged"
      BY <1>2, <2>2, UnplannedWrite DEF IInv
    <3>2. runState' \in RunStates /\ canTransition(runState, runState')
      BY <3>1 DEF RunStates, FusionOutcome, canTransition, TRANSITIONS
    <3> QED
      BY <3>2 DEF Lifecycle!Next, Lifecycle!Move, Lifecycle!RunStates, Lifecycle!canTransition,
         Lifecycle!TRANSITIONS, RunStates, canTransition, TRANSITIONS
  <2> QED BY <2>1, <2>2
<1>3. IInv /\ ~asked /\ [Next]_vars => ~asked'
  BY PlanSteps DEF IInv
<1> QED BY <1>1, <1>2, <1>3, Invariance, PTL DEF Spec, RunImplementsLifecycle, Lifecycle!Spec

\* A run starts where the landing contract starts.
LEMMA ContractInit == Init => Contract!Init
BY DEF Init, Contract!Init

\* Every step of a run is a step of the landing contract or a stutter.
LEMMA ContractStep ==
  ASSUME IInv, [Next]_vars
  PROVE  [Contract!Next]_<<autonomy, remote, pr, green, landedBy>>
<1> USE DEF IInv
<1>1. CASE UNCHANGED ghVars
  BY <1>1 DEF ghVars
<1>2. CASE /\ \E a \in Attempts : SandboxPush(a) \/ CiFix(a)
           /\ remote' = remote + 1
           /\ UNCHANGED <<autonomy, pr, green, landedBy>>
  <2>1. pr # "merged"
    BY <1>2, LandedIsFrozen DEF TypeOK, TypeGh
  <2> QED BY <1>2, <2>1 DEF Contract!Next, Contract!Push
<1>3. CASE /\ \E a \in Attempts : OpenPr(a)
           /\ pr = "none" /\ pr' = "open"
           /\ UNCHANGED <<autonomy, remote, green, landedBy>>
  <2>1. remote > 0
    BY <1>3 DEF OpenPr, At, Placed, PlacedAttempt, Owned, AfterPush
  <2> QED BY <1>3, <2>1 DEF Contract!Next, Contract!Open
<1>4. CASE /\ \E a \in Attempts : Poll(a) /\ green' = green \cup {sha[a]}
           /\ UNCHANGED <<autonomy, remote, pr, landedBy>>
  <2>1. PICK a \in Attempts : Poll(a) /\ green' = green \cup {sha[a]}
    BY <1>4
  <2>2. AfterPush(evt[a]) /\ AfterOpen(evt[a])
    BY <2>1 DEF Poll, Returned, At, Placed, PlacedAttempt, AfterPush, AfterOpen
  <2>3. sha[a] = remote /\ pr \in {"open", "merged"}
    BY <2>2 DEF Owned, TypeOK, TypeGh
  <2>4. CASE pr = "open"
    BY <1>4, <2>1, <2>3, <2>4 DEF Contract!Next, Contract!Report
  <2>5. CASE pr = "merged"
    <3>1. green' = green
      BY <2>1, <2>3, <2>5 DEF Vouched, LandsGreenAndLicensed
    <3> QED BY <1>4, <3>1
  <2> QED BY <2>3, <2>4, <2>5
<1>5. CASE /\ \E a \in Attempts : Merge(a)
           /\ pr = "open" /\ pr' = "merged" /\ landedBy' = "policy"
           /\ UNCHANGED <<autonomy, remote, green>>
  <2>1. remote \in green /\ autonomy = "autopilot-merge"
    BY <1>5, LicensedStep DEF LandsGreenAndLicensed
  <2> QED BY <1>5, <2>1 DEF Contract!Next, Contract!Land
<1>6. CASE /\ \E q \in Requests : LandHeld(q)
           /\ pr = "open" /\ pr' = "merged" /\ landedBy' = "human"
           /\ UNCHANGED <<autonomy, remote, green>>
  <2>1. remote \in green
    BY <1>6, LicensedStep DEF LandsGreenAndLicensed
  <2> QED BY <1>6, <2>1 DEF Contract!Next, Contract!Land
<1> QED BY <1>1, <1>2, <1>3, <1>4, <1>5, <1>6, GitHubSteps

\* Whatever is retried, timed out, approved or lost, the run implements the
\* landing contract: every step is a push, an opening, a report, one landing
\* or nothing.
THEOREM RunImplementsContract == Spec => ImplementsContract
<1>1. Init => Contract!Init
  BY ContractInit
<1>2. IInv /\ [Next]_vars => [Contract!Next]_<<autonomy, remote, pr, green, landedBy>>
  BY ContractStep
<1> QED BY <1>1, <1>2, Invariance, PTL DEF Spec, ImplementsContract, Contract!Spec

=============================================================================
