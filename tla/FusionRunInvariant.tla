------------------------- MODULE FusionRunInvariant -------------------------
(***************************************************************************)
(* The inductive invariant of FusionRun, in parts that build on each other *)
(* (FusionRunProofs proves them in this order):                            *)
(*                                                                         *)
(*   Placed     where a process is tells which event it handles;           *)
(*   Owned      one attempt owns the branch: only it got a commit onto it, *)
(*              it knows the branch's head, and only it goes past the push;*)
(*   Vouched    whoever may land the pull request knows that CI reported   *)
(*              green for the head, and the owner is past pushing once it  *)
(*              has landed;                                                *)
(*   Unapproved what cannot have happened before a plan is approved;       *)
(*   Staged     which events are in the log when an attempt emits one;     *)
(*   Numbered   the seq an attempt holds for an event that is not in the   *)
(*              log is the next free one;                                  *)
(*   Carried    what the sink has posted and saved before it moves the run;*)
(*   Accounted  who charged the run and counted it, and how often;         *)
(*   Unplanned  which write of the run row a place stands for, in a run    *)
(*              without a plan.                                            *)
(***************************************************************************)
EXTENDS FusionRun

InTransition == {"trCheck", "trWrite", "trTask"}

\* Where attempt a is, and the event it emits or has emitted.
PlacedAttempt(a) ==
  /\ pc[a] \in AttemptPc
  /\ a > nAtt => pc[a] = "idle"
  /\ evt[a].type = "outcome" => evt[a].outcome \in FusionOutcome
  /\ pc[a] \in {"idle", "plan"} => evt[a].type = "none"
  /\ pc[a] \in {"check", "insert", "card", "ckpt", "ret"} => evt[a].type # "none"
  /\ pc[a] \in InTransition => MovesRun(evt[a])
  /\ pc[a] = "sandbox" => evt[a].type = "sandbox_started"
  /\ pc[a] = "openPr"  => evt[a].type = "branch_pushed"
  /\ pc[a] = "loop"    => evt[a].type \in {"checks", "ci_fix_attempt"}
  /\ pc[a] = "merge"   => evt[a].type = "checks" /\ evt[a].status = "success"
  /\ pc[a] \in {"reputation", "escalate", "return"} => evt[a].type = "outcome"

PlacedRequest(q) ==
  /\ pc[q] \in RequestPc
  /\ pc[q] # "idle" => wish[q] # "none"

Placed ==
  /\ IsFiniteSet(log)
  /\ \A a \in Attempts : PlacedAttempt(a)
  /\ \A q \in Requests : PlacedRequest(q)

\* The events runFusion emits after its push went through.
AfterPush(e) ==
  \/ e.type \in {"branch_pushed", "pr_opened", "checks", "ci_fix_attempt"}
  \/ e.type = "outcome" /\ e.outcome # "awaiting_plan"

AfterOpen(e) == e.type \in {"pr_opened", "checks", "ci_fix_attempt"}

Owned ==
  /\ SinglePusher
  /\ \A a \in Attempts :
       /\ sha[a] > 0 => sha[a] = remote
       /\ AfterPush(evt[a]) => sha[a] > 0
       /\ AfterOpen(evt[a]) => pr # "none"
  /\ pr # "none" => remote > 0

\* Attempt a has seen CI report green for its last push.
SawGreen(a) ==
  \/ evt[a].type = "checks" /\ evt[a].status = "success"
  \/ evt[a].type = "outcome" /\ evt[a].outcome \in {"merged", "held_for_human"}

Holds(a) == evt[a].type = "outcome" /\ evt[a].outcome = "held_for_human"

\* The owner of the branch, when it will not push again.
DonePushing(a) == sha[a] > 0 /\ (evt[a].type = "outcome" \/ pc[a] = "aborted")

Vouched ==
  /\ \A a \in Attempts :
       /\ SawGreen(a) => sha[a] \in green
       /\ pc[a] = "merge" => autonomy = "autopilot-merge"
  /\ runState = "held_for_human" => \E a \in Attempts : Holds(a)
  /\ \A q \in Requests : pc[q] = "land" => \E a \in Attempts : Holds(a)
  /\ pr = "merged" => \E a \in Attempts : DonePushing(a)
  /\ LandsGreenAndLicensed

Unapproved ==
  /\ \A q \in Requests : wish[q] = "running" => planOk
  /\ \A q \in Requests : pc[q] = "start" => wish[q] = "running"
  /\ asked /\ ~planOk =>
       /\ plan /\ remote = 0 /\ inflight = {}
       /\ \A a \in Attempts :
            \/ evt[a].type \in {"none", "plan_proposed"}
            \/ evt[a].type = "outcome" /\ evt[a].outcome = "awaiting_plan"

KeyOf(type) == eventKey(Plain(type))

PlanLogged == {KeyOf("plan_proposed"), KeyOf("outcome")} \subseteq LoggedKeys

\* Where an attempt has its event behind it: in the log, by whichever attempt.
PastSink == AttemptPc \ {"idle", "plan", "check", "insert", "aborted", "rejected"}

Awaits(a) == evt[a].type = "outcome" /\ evt[a].outcome = "awaiting_plan"

\* Attempts share the events up to sandbox_started and emit them in one order.
StagedAttempt(a) ==
  /\ evt[a].type \in {"plan_proposed", "sandbox_started", "outcome"}
       => eventKey(evt[a]) = KeyOf(evt[a].type)
  /\ pc[a] \in PastSink => eventKey(evt[a]) \in LoggedKeys
  /\ pc[a] = "plan" \/ evt[a].type = "plan_proposed" \/ Awaits(a) => asked
  /\ Awaits(a) => KeyOf("plan_proposed") \in LoggedKeys
  /\ evt[a].type = "sandbox_started" \/ AfterPush(evt[a]) => (asked => PlanLogged)
  /\ AfterPush(evt[a]) => KeyOf("sandbox_started") \in LoggedKeys

Staged ==
  /\ plan => asked
  /\ asked /\ ~plan => PlanLogged
  /\ runState = "awaiting_plan_approval" => PlanLogged
  /\ \A q \in Requests : wish[q] = "running" => PlanLogged
  /\ \A a \in Attempts : StagedAttempt(a)

Numbered ==
  /\ IsFiniteSet(LoggedKeys)
  /\ EventLogDense
  /\ \A a \in Attempts :
       At(a, "insert") /\ eventKey(evt[a]) \notin LoggedKeys => seq[a] = Cardinality(log)

Carried ==
  /\ HeldRunHasCard
  /\ CheckpointsArePushed
  /\ \A a \in Attempts :
       /\ pc[a] \in InTransition => eventKey(evt[a]) \in cards
       /\ pc[a] = "ckpt" => eventKey(evt[a]) \in cards /\ HasCommit(evt[a])

\* Attempt a is past its charge, and past its count.
Charged(a) == evt[a].type = "outcome"
              /\ pc[a] \in {"reputation", "escalate", "return", "completed", "aborted"}
Counted(a) == evt[a].type = "outcome" /\ Decisive(evt[a])
              /\ pc[a] \in {"escalate", "return", "completed", "aborted"}

Accounted ==
  /\ AccountedOnce
  /\ charged > 0 => \E a \in Attempts : Charged(a)
  /\ rep > 0 => \E a \in Attempts : Counted(a)
  /\ \A a \in Attempts : pc[a] = "reputation" => Decisive(evt[a])

Starts(a) == evt[a].type = "sandbox_started" /\ pc[a] \in {"card", "trCheck", "trWrite"}

\* The run row holds the outcome of attempt a, or the merge a person added to it.
RecordedBy(a) == runState = evt[a].outcome \/ (Holds(a) /\ runState = "merged")

UnplannedAttempt(a) ==
  /\ Starts(a) => runState = "pending"
  /\ evt[a].type = "outcome" =>
       /\ pc[a] \in {"check", "insert"} => KeyOf("outcome") \notin LoggedKeys
       /\ pc[a] \in {"card", "ckpt", "trCheck"} => runState \in {"pending", "running"}
       /\ pc[a] = "trWrite" => runState = "running"
       /\ pc[a] \in {"trTask", "ret", "reputation", "escalate", "return"} => RecordedBy(a)

\* A run without a plan: one attempt starts it, its owner decides it, and a
\* person can only add a merge to a hold.
Unplanned == ~asked =>
  /\ KeyOf("sandbox_started") \notin LoggedKeys => runState = "pending"
  /\ KeyOf("outcome") \notin LoggedKeys => runState \in {"pending", "running"}
  /\ KeyOf("outcome") \in LoggedKeys => \E a \in Attempts : evt[a].type = "outcome"
  /\ runState \notin {"awaiting_plan_approval", "error"}
  /\ \A a, b \in Attempts : Starts(a) /\ Starts(b) => a = b
  /\ \A a \in Attempts : UnplannedAttempt(a)
  /\ \A q \in Requests : /\ wish[q] \in {"none", "merged"}
                         /\ pc[q] # "idle" => runState \in {"held_for_human", "merged"}
  /\ OutcomeRecorded

\* Strengthens the safety properties of FusionRun (the retry rules of workflows.ts,
\* the gate of run-fusion.ts and its plan mode, the sink of events.ts, the tail of
\* activities.ts) into one formula every step preserves.
IInv == /\ TypeOK /\ Placed /\ Owned /\ Vouched /\ Unapproved
        /\ Staged /\ Numbered /\ Carried /\ Accounted /\ Unplanned

=============================================================================
