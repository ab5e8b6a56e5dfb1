-------------------------- MODULE TaskBoardProofs ---------------------------
(***************************************************************************)
(* Theorems about the board and its teams, for any agents, repos, graphs,  *)
(* requests and bounds.                                                    *)
(***************************************************************************)
EXTENDS TaskBoardInvariant, FiniteSetTheorems, SequenceTheorems, TLAPS

-----------------------------------------------------------------------------
(* What the helpers of Requests do to the record of a request. *)

\* The other requests are left alone.
Others(q) == DOMAIN req' = Reqs /\ \A p \in Reqs \ {q} : req'[p] = req[p]

LEMMA EnterGives ==
  ASSUME NEW q \in Reqs, DOMAIN req = Reqs, NEW call, NEW rec, Enter(q, call, rec)
  PROVE  At(q, "new") /\ Others(q) /\ req'[q] = rec
  BY DEF Enter, Called, Others

LEMMA ReturnGives ==
  ASSUME NEW q \in Reqs, DOMAIN req = Reqs, Return(q)
  PROVE  Others(q) /\ req'[q] = [at |-> "done"]
  BY DEF Return, Others

\* f is kept.
Kept(q, f) == f \in DOMAIN req[q] => f \in DOMAIN req'[q] /\ req'[q][f] = req[q][f]

LEMMA GotoGives ==
  ASSUME NEW q \in Reqs, DOMAIN req = Reqs, "at" \in DOMAIN req[q], NEW place, Goto(q, place)
  PROVE  /\ Others(q) /\ DOMAIN req'[q] = DOMAIN req[q] /\ req'[q].at = place
         /\ \A f \in DOMAIN req[q] \ {"at"} : req'[q][f] = req[q][f]
  BY DEF Goto, Others

LEMMA GotoWithGives ==
  ASSUME NEW q \in Reqs, DOMAIN req = Reqs, "at" \in DOMAIN req[q],
         NEW place, NEW rec, "at" \notin DOMAIN rec, GotoWith(q, place, rec)
  PROVE  /\ Others(q) /\ DOMAIN req'[q] = DOMAIN req[q] \cup DOMAIN rec /\ req'[q].at = place
         /\ \A f \in DOMAIN rec : req'[q][f] = rec[f]
         /\ \A f \in DOMAIN req[q] \ (DOMAIN rec \cup {"at"}) : req'[q][f] = req[q][f]
  BY DEF GotoWith, Extended, Others

-----------------------------------------------------------------------------
(* What leaves a request fit for its next step. *)

\* Rows are only added, and a run stays with its task.
Grows ==
  /\ Len(task) \in Nat /\ Len(task') \in Nat /\ Len(task') >= Len(task)
  /\ Len(run) \in Nat /\ Len(run') \in Nat /\ Len(run') >= Len(run)
  /\ \A r \in Runs : run'[r].task = run[r].task
  /\ DOMAIN repoId \subseteq DOMAIN repoId'

\* The results of p's team are what they were.
SameResults(p) == \A id : <<p, id>> \in DOMAIN results' <=> <<p, id>> \in DOMAIN results

LEMMA StaysFit ==
  ASSUME NEW p \in Reqs, Fit(p), req'[p] = req[p], Grows, SameResults(p)
  PROVE  Fit(p)'
<1> USE DEF Has, Lacks, Grows
<1>1. Tasks \subseteq Tasks' /\ Runs \subseteq Runs' /\ 0..Len(run) \subseteq 0..Len(run')
  BY DEF Tasks, Runs
<1>2. InMentions(p)' = InMentions(p) /\ InChain(p)' = InChain(p) /\ Alone(p)' = Alone(p)
  BY DEF InMentions, InChain, Alone
<1>3. InFanOut(p) => InFanOut(p)'
  BY <1>1 DEF InFanOut
<1>4. InTeam(p) => InTeam(p)'
  BY DEF InTeam, SameResults
<1>5. Working(p) => Working(p)'
  BY <1>4 DEF Working
<1>6. InLoop(p) => InLoop(p)'
  BY <1>2, <1>3, <1>5 DEF InLoop
<1>7. (Opening(p) => Opening(p)') /\ (OfTask(p) => OfTask(p)') /\ (Recorded(p) => Recorded(p)')
  BY <1>1, <1>6 DEF Opening, OfTask, Recorded
<1>8. (Copying(p) => Copying(p)') /\ (Attaching(p) => Attaching(p)')
  BY DEF Copying, Attaching
<1> QED
  BY <1>2, <1>3, <1>4, <1>5, <1>7, <1>8 DEF Fit, At

LEMMA StaysStartsFit ==
  ASSUME NEW p \in Reqs, StartsFit(p), req'[p] = req[p], By(p)' = By(p)
  PROVE  StartsFit(p)'
  BY DEF StartsFit, Fresh, About, At

\* No run becomes the winner.
NoNewWinner == \A r \in Runs' : run'[r].selected => r \in Runs /\ run[r].selected

LEMMA StaysWinnerFit ==
  ASSUME NEW p \in Reqs, WinnerFit(p), Fit(p), req'[p] = req[p], Grows, NoNewWinner
  PROVE  WinnerFit(p)'
<1> SUFFICES ASSUME At(p, "set") PROVE WinnerFit(p)'
  BY DEF WinnerFit, At
<1>1. req[p].run \in Runs
  BY DEF Fit, Recorded, At
<1>2. Runs \subseteq Runs'
  BY DEF Runs, Grows
<1> QED
  BY <1>1, <1>2 DEF WinnerFit, RunsOf, Grows, NoNewWinner, At

LEMMA StaysReady ==
  ASSUME NEW p \in Reqs, Ready(p), req'[p] = req[p], Grows, SameResults(p), By(p)' = By(p), NoNewWinner
  PROVE  Ready(p)'
  BY StaysFit, StaysStartsFit, StaysWinnerFit DEF Ready

\* A step of q that lets no run win.
LEMMA StepKeeps ==
  ASSUME IInv, NEW q \in Reqs, Others(q), Grows, NoNewWinner,
         \A p \in Reqs \ {q} : SameResults(p) /\ By(p)' = By(p),
         TypeOK', StartedOnce', ChainBounded', StrandedExplained', MergedIsTrue',
         ResultsFit', OutcomesStand', OneSetter', Fit(q)', StartsFit(q)', WinnerFit(q)'
  PROVE  IInv'
<1>1. OneSelected'
  BY DEF IInv, OneSelected, NoNewWinner, Grows
<1>2. \A p \in Reqs : Ready(p)'
  BY StaysReady DEF IInv, Others, Ready
<1> QED
  BY <1>1, <1>2 DEF IInv, Others

\* A stranded run that q did not explain, or still explains, is still explained.
LEMMA StrandedKeeps ==
  ASSUME StrandedExplained, NEW q \in Reqs, Others(q), NEW r \in Runs, wf \subseteq wf',
         r \in skipped => r \in skipped',
         req[q].at \in {"repo", "start", "dead"} /\ Opened(q, r) =>
           \/ req'[q].at \in {"repo", "start", "dead"} /\ Opened(q, r)'
           \/ r \in skipped' \/ \E w \in wf' : w.run = r
  PROVE  \/ \E w \in wf' : w.run = r
         \/ r \in skipped'
         \/ \E p \in Reqs : req'[p].at \in {"repo", "start", "dead"} /\ Opened(p, r)'
<1>1. CASE \E w \in wf : w.run = r
  BY <1>1
<1>2. CASE r \in skipped
  BY <1>2
<1>3. CASE \E p \in Reqs : req[p].at \in {"repo", "start", "dead"} /\ Opened(p, r)
  <2>1. PICK p \in Reqs : req[p].at \in {"repo", "start", "dead"} /\ Opened(p, r)
    BY <1>3
  <2>2. CASE p = q
    BY <2>1, <2>2
  <2>3. CASE p # q
    BY <2>1, <2>3 DEF Opened, Others
  <2> QED
    BY <2>2, <2>3
<1> QED
  BY <1>1, <1>2, <1>3 DEF StrandedExplained

LEMMA ResultsKeep ==
  ASSUME IInv, NEW q \in Reqs, Others(q), Grows, UNCHANGED results, req'[q].at # "new"
  PROVE  ResultsFit'
<1> SUFFICES ASSUME NEW k \in DOMAIN results
    PROVE /\ k \in Reqs \X STRING /\ req'[k[1]].at # "new" /\ results[k].run \in {0} \cup Runs'
          /\ results[k].run # 0 => results[k].outcome \in awaited
  BY DEF ResultsFit
<1>1. /\ k \in Reqs \X STRING /\ req[k[1]].at # "new" /\ results[k].run \in {0} \cup Runs
      /\ results[k].run # 0 => results[k].outcome \in awaited
  BY DEF IInv, ResultsFit
<1>2. Runs \subseteq Runs'
  BY DEF Grows, Runs
<1> QED
  BY <1>1, <1>2 DEF Others

\* Who does not take the lock disturbs nobody that has it.
LEMMA SetterKeeps ==
  ASSUME IInv, NEW q \in Reqs, Others(q), Grows, req'[q].at # "set"
  PROVE  OneSetter' /\ WinnerFit(q)'
<1>1. \A p \in Reqs \ {q} : At(p, "set")' => At(p, "set") /\ req'[p] = req[p] /\ req[p].run \in Runs
  BY DEF Others, At, IInv, Ready, Fit, Recorded
<1>2. OneSetter'
  <2> SUFFICES ASSUME NEW p \in Reqs, NEW r \in Reqs, At(p, "set")', At(r, "set")', p # r
      PROVE  run'[req'[p].run].task # run'[req'[r].run].task
    BY DEF OneSetter
  <2>1. p # q /\ r # q
    BY DEF At
  <2>2. run[req[p].run].task # run[req[r].run].task
    BY <1>1, <2>1 DEF OneSetter, IInv
  <2> QED
    BY <1>1, <2>1, <2>2 DEF Grows
<1> QED
  BY <1>2 DEF WinnerFit, At

\* A step of q that changes nothing but what q holds (and what the invariant does not
\* speak of).
LEMMA HoldKeeps ==
  ASSUME IInv, NEW q \in Reqs, Others(q),
         UNCHANGED <<repoVars, task, run, wf, skipped, owed, edited, results>>,
         req'[q].at \notin {"new", "set"},
         req[q].at \in {"repo", "start", "dead"} /\ Has(q, {"run", "next"}) =>
           /\ req'[q].at \in {"repo", "start", "dead"} /\ Kept(q, "run") /\ Kept(q, "next"),
         Fit(q)', StartsFit(q)'
  PROVE  IInv'
<1> USE DEF IInv, repoVars
<1>1. Len(task) \in Nat /\ Len(run) \in Nat
  BY DEF TypeOK
<1>2. Grows /\ NoNewWinner
  BY <1>1 DEF Grows, NoNewWinner, Runs
<1>3. \A p \in Reqs \ {q} : SameResults(p) /\ By(p)' = By(p)
  BY DEF SameResults, By
<1>4. TypeOK' /\ StartedOnce' /\ ChainBounded' /\ MergedIsTrue' /\ OutcomesStand'
  BY DEF TypeOK, StartedOnce, ChainBounded, MergedIsTrue, OutcomesStand, RepoRowType,
         Tasks, Runs, RunsOf
<1>5. \A r \in Runs : req[q].at \in {"repo", "start", "dead"} /\ Opened(q, r) =>
                     req'[q].at \in {"repo", "start", "dead"} /\ Opened(q, r)'
  BY DEF Opened, Kept, Has
<1>6. StrandedExplained'
  BY <1>5, StrandedKeeps DEF StrandedExplained, Runs
<1>7. ResultsFit' /\ OneSetter' /\ WinnerFit(q)'
  BY <1>2, ResultsKeep, SetterKeeps
<1> QED
  BY <1>2, <1>3, <1>4, <1>6, <1>7, StepKeeps

\* A request that is answered needs nothing any more.
LEMMA DoneIsReady ==
  ASSUME NEW q \in Reqs, req'[q] = [at |-> "done"]
  PROVE  Fit(q)' /\ StartsFit(q)' /\ WinnerFit(q)'
  BY DEF Fit, StartsFit, WinnerFit, Fresh, About, At, Has, Places

LEMMA ReturnKeeps ==
  ASSUME IInv, NEW q \in Reqs, Return(q), req[q].at \notin {"repo", "start", "dead"},
         UNCHANGED <<repoVars, task, run, wf, skipped, owed, edited, results>>
  PROVE  IInv'
<1>1. Others(q) /\ req'[q] = [at |-> "done"]
  BY ReturnGives DEF IInv
<1> QED
  BY <1>1, DoneIsReady, HoldKeeps

-----------------------------------------------------------------------------
(* Steps that change only what a request holds. *)

LEMMA Calls ==
  ASSUME IInv, NEW q \in Reqs,
         PostMessage(q) \/ PostAgentMessage(q) \/ Reassign(q) \/ FanOut(q) \/ Restore(q) \/ SelectRun(q),
         UNCHANGED results
  PROVE  IInv'
<1> USE DEF IInv, board, boardVars
<1>1. Fit(q) /\ StartsFit(q) /\ TypeOK
  BY DEF Ready
<1>2. ASSUME NEW call, NEW rec, Enter(q, call, rec), rec.at \notin {"new", "set"},
             UNCHANGED board, (Fit(q) /\ StartsFit(q))'
      PROVE  IInv'
  <2>1. At(q, "new") /\ Others(q) /\ req'[q] = rec
    BY <1>2, EnterGives
  <2> QED
    BY <1>2, <2>1, HoldKeeps DEF At
<1>3. ASSUME NEW call, NEW rec, Enter(q, call, rec), UNCHANGED board
      PROVE  req'[q] = rec /\ By(q)' = {}
  <2>1. At(q, "new") /\ req'[q] = rec
    BY <1>3, EnterGives
  <2> QED
    BY <1>1, <1>3, <2>1 DEF StartsFit, Fresh, At, By
<1> UNCHANGED board
  BY DEF PostMessage, PostAgentMessage, Reassign, FanOut, Restore, SelectRun
<1> UNCHANGED <<task, run, repoId, Tasks, Runs>>
  BY DEF repoVars, Tasks, Runs
<1> HIDE DEF IInv, board, boardVars
<1> USE DEF Has, Lacks, At
<1>4. CASE PostMessage(q)
  <2>1. PICK body \in Bodies, directive \in BOOLEAN :
          Enter(q, "post", [at |-> "mentions", author |-> Human, todo |-> body, depth |-> 0,
                 directive |-> directive, seen |-> {}])
    BY <1>4 DEF PostMessage
  <2>2. Fit(q)'
    BY <1>3, <2>1 DEF Fit, Places, InMentions
  <2>3. StartsFit(q)'
    BY <1>3, <2>1 DEF StartsFit, Fresh, About
  <2> QED
    BY <1>2, <2>1, <2>2, <2>3
<1>5. CASE PostAgentMessage(q)
  <2>1. PICK w \in wf, body \in Bodies :
          Enter(q, "agentPost", [at |-> "mentions", author |-> w.agent, todo |-> body,
                    depth |-> w.depth, directive |-> FALSE, seen |-> {}])
    BY <1>5 DEF PostAgentMessage
  <2>2. w.depth \in Nat
    BY <1>1 DEF TypeOK, Workflow
  <2>3. Fit(q)'
    BY <1>3, <2>1, <2>2 DEF Fit, Places, InMentions
  <2>4. StartsFit(q)'
    BY <1>3, <2>1 DEF StartsFit, Fresh, About
  <2> QED
    BY <1>2, <2>1, <2>3, <2>4
<1>6. CASE Reassign(q)
  <2>1. PICK t \in Tasks, a \in Agents, p \in {0} \cup Runs :
          Enter(q, "reassign", [at |-> "assign", task |-> t, agent |-> a, parent |-> p,
                 base |-> p, next |-> "post", note |-> "handed_off"])
    BY <1>6 DEF Reassign
  <2>2. p \in 0..Len(run)
    BY <1>1 DEF TypeOK, Runs
  <2>3. Fit(q)'
    BY <1>3, <2>1, <2>2 DEF Tasks, Fit, Places, Opening, OfTask, InLoop, Alone
  <2>4. StartsFit(q)'
    BY <1>3, <2>1 DEF StartsFit, Fresh, About
  <2> QED
    BY <1>2, <2>1, <2>3, <2>4
<1>7. CASE FanOut(q)
  <2>1. PICK t \in Tasks, ids \in Bodies :
          Enter(q, "fanOut", [at |-> "fan", task |-> t, todo |-> ids, seen |-> {}, parent |-> 0,
                 base |-> 0, repo |-> repoId[Board], note |-> "fanned_out"])
    BY <1>7 DEF FanOut
  <2>2. Fit(q)'
    BY <1>3, <2>1 DEF Tasks, Fit, Places, InFanOut
  <2>3. StartsFit(q)'
    BY <1>3, <2>1 DEF StartsFit, Fresh, About
  <2> QED
    BY <1>2, <2>1, <2>2, <2>3
<1>8. CASE Restore(q)
  <2>1. PICK r \in Runs :
         Enter(q, "restore", [at |-> "run", task |-> run[r].task, parent |-> 0, base |-> r,
                    agent |-> task[run[r].task].assignee, next |-> "post",
                    note |-> "restored"])
    BY <1>8 DEF Restore
  <2>2. run[r].task \in Tasks /\ r \in 0..Len(run) /\ 0 \in 0..Len(run)
    BY <1>1 DEF TypeOK, Runs
  <2>3. task[run[r].task].assignee \in Agents \cup {"none"}
    <3>1. task[run[r].task] \in TaskRow
      BY <1>1, <2>2, ElementOfSeq DEF TypeOK, Tasks
    <3> QED
      BY <3>1 DEF TaskRow
  <2>4. Fit(q)'
    BY <1>3, <2>1, <2>2, <2>3 DEF Fit, Places, Opening, OfTask, InLoop, Alone
  <2>5. StartsFit(q)'
    BY <1>3, <2>1 DEF StartsFit, Fresh, About
  <2> QED
    BY <1>2, <2>1, <2>4, <2>5
<1>9. CASE SelectRun(q)
  <2>1. PICK r \in Runs : Enter(q, "select", [at |-> "clear", run |-> r, note |-> "selected"])
    BY <1>9 DEF SelectRun
  <2>2. Fit(q)'
    BY <1>3, <2>1 DEF Fit, Places, Recorded
  <2>3. StartsFit(q)'
    BY <1>3, <2>1 DEF StartsFit, Fresh, About
  <2> QED
    BY <1>2, <2>1, <2>2, <2>3
<1> QED
  BY <1>4, <1>5, <1>6, <1>7, <1>8, <1>9


\* The loop over mentions, before a task is opened.
LEMMA MentionSteps ==
  ASSUME IInv, NEW q \in Reqs, UNCHANGED results,
         HandleMentions(q) \/ ResolveMention(q) \/ StartForAgent(q) \/ MentionsDone(q)
  PROVE  IInv'
<1>1. Fit(q) /\ StartsFit(q) /\ TypeOK /\ DOMAIN req = Reqs
  BY DEF IInv, Ready
<1>2. UNCHANGED <<repoVars, task, run, wf, skipped, owed, edited, results>>
  BY DEF HandleMentions, ResolveMention, StartForAgent, MentionsDone, board, boardVars
<1>3. "at" \in DOMAIN req[q]
  BY <1>1 DEF Fit, Has
<1>4. CASE At(q, "mentions") /\ Return(q)
  BY <1>2, <1>4, ReturnKeeps DEF At
<1>5. CASE At(q, "each") /\ Return(q)
  BY <1>2, <1>5, ReturnKeeps DEF At
<1>6. CASE At(q, "mentions") /\ req[q].depth < MaxDepth /\ GotoWith(q, "each", [repo |-> repoId[Board]])
  <2>1. Others(q) /\ DOMAIN req'[q] = DOMAIN req[q] \cup {"repo"} /\ req'[q].at = "each"
        /\ \A f \in DOMAIN req[q] \ {"repo", "at"} : req'[q][f] = req[q][f]
    BY <1>1, <1>3, <1>6, GotoWithGives
  <2>2. Fit(q)'
    BY <1>1, <1>6, <2>1 DEF Fit, Places, InChain, InMentions, Has, Lacks, At
  <2>3. By(q)' = {}
    BY <1>1, <1>2, <1>6 DEF StartsFit, Fresh, By, At
  <2>4. StartsFit(q)'
    BY <2>1, <2>3 DEF StartsFit, Fresh, About, At
  <2> QED
    BY <1>2, <1>6, <2>1, <2>2, <2>4, HoldKeeps DEF At
<1>7. ASSUME At(q, "each"), NEW todo, GotoWith(q, "each", [todo |-> todo])
      PROVE  IInv'
  <2>1. Others(q) /\ DOMAIN req'[q] = DOMAIN req[q] \cup {"todo"} /\ req'[q].at = "each"
        /\ \A f \in DOMAIN req[q] \ {"todo", "at"} : req'[q][f] = req[q][f]
    BY <1>1, <1>3, <1>7, GotoWithGives
  <2>2. Fit(q)'
    BY <1>1, <1>7, <2>1 DEF Fit, Places, InChain, InMentions, Has, Lacks, At
  <2>3. StartsFit(q)'
    BY <1>1, <1>2, <1>7, <2>1 DEF StartsFit, Fresh, About, By, At, Fit, InChain, InMentions, Has
  <2> QED
    BY <1>2, <1>7, <2>1, <2>2, <2>3, HoldKeeps DEF At
<1>8. ASSUME At(q, "each"), NEW a \in Agents, a \notin req[q].seen,
             GotoWith(q, "open", [agent |-> a, base |-> 0, next |-> "each"])
      PROVE  IInv'
  <2>1. Others(q) /\ DOMAIN req'[q] = DOMAIN req[q] \cup {"agent", "base", "next"}
        /\ req'[q].at = "open" /\ req'[q].agent = a /\ req'[q].base = 0 /\ req'[q].next = "each"
        /\ \A f \in DOMAIN req[q] \ {"agent", "base", "next", "at"} : req'[q][f] = req[q][f]
    BY <1>1, <1>3, <1>8, GotoWithGives
  <2>2. Fit(q)'
    <3>1. InChain(q)'
      BY <1>1, <1>8, <2>1 DEF Fit, InChain, InMentions, Has, Lacks, At
    <3>2. Opening(q)'
      BY <1>1, <1>2, <1>8, <2>1, <3>1 DEF Opening, InLoop, Has, TypeOK
    <3> QED
      BY <1>3, <1>8, <2>1, <3>2 DEF Fit, Places, Has, At
  <2>3. StartsFit(q)'
    BY <1>1, <1>2, <1>8, <2>1 DEF StartsFit, Fresh, About, By, At, Fit, InChain, InMentions, Has
  <2> QED
    BY <1>2, <1>8, <2>1, <2>2, <2>3, HoldKeeps DEF At
<1>9. CASE HandleMentions(q)
  BY <1>4, <1>6, <1>9 DEF HandleMentions
<1>10. CASE ResolveMention(q)
  BY <1>7, <1>10 DEF ResolveMention
<1>11. CASE StartForAgent(q)
  <2>1. At(q, "each") /\ Head(req[q].todo) \in Agents
    BY <1>11 DEF StartForAgent
  <2>2. CASE GotoWith(q, "each", [todo |-> Tail(req[q].todo)])
    BY <1>7, <2>1, <2>2
  <2>3. CASE Head(req[q].todo) \notin req[q].seen
             /\ GotoWith(q, "open", [agent |-> Head(req[q].todo), base |-> 0, next |-> "each"])
    BY <1>8, <2>1, <2>3
  <2> QED
    BY <1>11, <2>2, <2>3 DEF StartForAgent
<1>12. CASE MentionsDone(q)
  BY <1>5, <1>12 DEF MentionsDone
<1> QED
  BY <1>9, <1>10, <1>11, <1>12

\* One id of a fan-out.
LEMMA FanOutSteps ==
  ASSUME IInv, NEW q \in Reqs, UNCHANGED results, FanOutNext(q)
  PROVE  IInv'
<1>1. Fit(q) /\ StartsFit(q) /\ TypeOK /\ DOMAIN req = Reqs
  BY DEF IInv, Ready
<1>2. UNCHANGED <<repoVars, task, run, wf, skipped, owed, edited, results>> /\ At(q, "fan")
  BY DEF FanOutNext, board, boardVars
<1>3. "at" \in DOMAIN req[q] /\ InFanOut(q)
  BY <1>1, <1>2 DEF Fit, Has
<1>4. CASE Goto(q, "post")
  <2>1. Others(q) /\ DOMAIN req'[q] = DOMAIN req[q] /\ req'[q].at = "post"
    BY <1>1, <1>3, <1>4, GotoGives
  <2>2. Fit(q)' /\ StartsFit(q)'
    BY <1>3, <2>1 DEF Fit, Places, InFanOut, StartsFit, Fresh, About, Has, At
  <2> QED
    BY <1>2, <2>1, <2>2, HoldKeeps DEF At
<1>5. ASSUME NEW todo, NEW a, GotoWith(q, "fan", [todo |-> todo, seen |-> req[q].seen \cup {a}])
      PROVE  IInv'
  <2>1. Others(q) /\ DOMAIN req'[q] = DOMAIN req[q] \cup {"todo", "seen"} /\ req'[q].at = "fan"
        /\ req'[q].seen = req[q].seen \cup {a}
        /\ \A f \in DOMAIN req[q] \ {"todo", "seen", "at"} : req'[q][f] = req[q][f]
    BY <1>1, <1>3, <1>5, GotoWithGives
  <2>2. InFanOut(q)'
    BY <1>2, <1>3, <2>1 DEF InFanOut, Has, Lacks, Tasks
  <2>3. Fit(q)' /\ StartsFit(q)'
    BY <1>1, <1>2, <2>1, <2>2 DEF Fit, Places, StartsFit, Fresh, About, Has, At, By
  <2> QED
    BY <1>2, <2>1, <2>3, HoldKeeps DEF At
<1>6. ASSUME NEW a \in Agents, a \notin req[q].seen,
             GotoWith(q, "run", [agent |-> a, next |-> "fan", seen |-> req[q].seen \cup {a}])
      PROVE  IInv'
  <2>1. Others(q) /\ DOMAIN req'[q] = DOMAIN req[q] \cup {"agent", "next", "seen"}
        /\ req'[q].at = "run" /\ req'[q].agent = a /\ req'[q].next = "fan"
        /\ req'[q].seen = req[q].seen \cup {a}
        /\ \A f \in DOMAIN req[q] \ {"agent", "next", "seen", "at"} : req'[q][f] = req[q][f]
    BY <1>1, <1>3, <1>6, GotoWithGives
  <2>2. InFanOut(q)'
    BY <1>2, <1>3, <2>1 DEF InFanOut, Has, Lacks, Tasks
  <2>3. 0 \in 0..Len(run)
    BY <1>1 DEF TypeOK
  <2>4. Opening(q)' /\ OfTask(q)'
    BY <1>2, <1>3, <1>6, <2>1, <2>2, <2>3 DEF Opening, OfTask, InLoop, Has, InFanOut, Tasks
  <2>5. Fit(q)'
    BY <1>3, <2>1, <2>4 DEF Fit, Places, Has, At
  <2>6. StartsFit(q)'
    BY <1>1, <1>2, <1>6, <2>1 DEF StartsFit, Fresh, About, By, At
  <2> QED
    BY <1>2, <2>1, <2>5, <2>6, HoldKeeps DEF At
<1> QED
  BY <1>4, <1>5, <1>6 DEF FanOutNext

\* The lookup of the repo, the message at the end, and a relation.
LEMMA SmallSteps ==
  ASSUME IInv, NEW q \in Reqs, UNCHANGED results, ReadRepo(q) \/ Announce(q) \/ AddTaskRelation(q)
  PROVE  IInv'
<1>1. Fit(q) /\ StartsFit(q) /\ TypeOK /\ DOMAIN req = Reqs
  BY DEF IInv, Ready
<1>2. UNCHANGED <<repoVars, task, run, wf, skipped, owed, edited, results>>
  BY DEF ReadRepo, Announce, AddTaskRelation, board, boardVars
<1>3. CASE Announce(q) \/ AddTaskRelation(q)
  BY <1>2, <1>3, ReturnKeeps DEF Announce, AddTaskRelation, At, Called
<1>4. CASE ReadRepo(q)
  <2>1. At(q, "repo") /\ GotoWith(q, "start", [repo |-> repoId[Board]]) /\ "at" \in DOMAIN req[q]
    BY <1>1, <1>4 DEF ReadRepo, Fit, Has
  <2>2. Others(q) /\ DOMAIN req'[q] = DOMAIN req[q] \cup {"repo"} /\ req'[q].at = "start"
        /\ \A f \in DOMAIN req[q] \ {"repo", "at"} : req'[q][f] = req[q][f]
    BY <1>1, <2>1, GotoWithGives
  <2>3. Opening(q) /\ OfTask(q) /\ Recorded(q) /\ req[q].next = "post"
    BY <1>1, <2>1 DEF Fit, At
  <2>4. Opening(q)' /\ OfTask(q)' /\ Recorded(q)'
    BY <1>2, <2>2, <2>3 DEF Opening, OfTask, Recorded, InLoop, Alone, Has, Lacks, Tasks, Runs
  <2>5. Fit(q)'
    BY <2>1, <2>2, <2>3, <2>4 DEF Fit, Places, Has, At
  <2>6. By(q)' = {}
    BY <1>1, <1>2, <2>1, <2>3 DEF StartsFit, Fresh, By, At
  <2>7. StartsFit(q)'
    BY <2>2, <2>3, <2>6 DEF StartsFit, Fresh, About, By, At, Opening, Has
  <2>8. Kept(q, "run") /\ Kept(q, "next")
    BY <2>2 DEF Kept
  <2> QED
    BY <1>2, <2>2, <2>5, <2>7, <2>8, HoldKeeps DEF At
<1> QED
  BY <1>3, <1>4


-----------------------------------------------------------------------------
(* Tasks and runs. *)

\* What a request needs to go on after its run is there is kept while task and run are
\* filled in.
LEMMA OpeningKept ==
  ASSUME NEW q \in Reqs, Opening(q), Grows, SameResults(q),
         NEW new \in SUBSET {"task", "parent", "run"}, req[q].next = "fan" => new \subseteq {"run"},
         DOMAIN req'[q] = DOMAIN req[q] \cup new,
         \A f \in DOMAIN req[q] \ (new \cup {"at"}) : req'[q][f] = req[q][f]
  PROVE  Opening(q)'
<1> USE DEF Has, Lacks
<1>1. InChain(q) => InChain(q)'
  BY DEF InChain, InMentions
<1>2. Tasks \subseteq Tasks' /\ 0..Len(run) \subseteq 0..Len(run')
  BY DEF Grows, Tasks
<1>3. req[q].next = "fan" /\ InFanOut(q) => InFanOut(q)'
  BY <1>2 DEF InFanOut
<1>4. InTeam(q) => InTeam(q)'
  BY DEF InTeam, SameResults
<1>5. Working(q) => Working(q)'
  BY <1>4 DEF Working, InTeam
<1>6. Alone(q) => Alone(q)'
  BY DEF Alone
<1>7. InLoop(q)'
  BY <1>1, <1>3, <1>5, <1>6 DEF InLoop, Opening
<1> QED
  BY <1>2, <1>7 DEF Opening

\* A step that writes the task rows, runs and workflows being as they are.
LEMMA TaskStepKeeps ==
  ASSUME IInv, NEW q \in Reqs, Others(q), UNCHANGED <<repoVars, run, wf, skipped, owed, results>>,
         task' \in Seq(TaskRow), Len(task') <= MaxTasks, Len(task') >= Len(task),
         \A t \in Tasks' : task'[t].state = "merged" => t \in Tasks /\ task[t].state = "merged",
         edited' \subseteq Tasks',
         req[q].at \notin {"repo", "start", "dead"}, req'[q].at \notin {"new", "set"},
         Fit(q)', StartsFit(q)'
  PROVE  IInv'
<1> USE DEF IInv, repoVars
<1>1. Grows /\ NoNewWinner
  BY DEF Grows, NoNewWinner, Runs, TypeOK
<1>2. \A p \in Reqs \ {q} : SameResults(p) /\ By(p)' = By(p)
  BY DEF SameResults, By
<1>3. TypeOK'
  <2>1. Tasks \subseteq Tasks'
    BY <1>1 DEF Grows, Tasks
  <2> QED
    BY <2>1 DEF TypeOK, RepoRowType, Runs
<1>4. StartedOnce' /\ ChainBounded' /\ OutcomesStand'
  BY DEF StartedOnce, ChainBounded, OutcomesStand
<1>5. MergedIsTrue'
  BY DEF MergedIsTrue, RunsOf, Runs
<1>6. StrandedExplained'
  BY StrandedKeeps DEF StrandedExplained, Runs
<1>7. ResultsFit' /\ OneSetter' /\ WinnerFit(q)'
  BY <1>1, ResultsKeep, SetterKeeps
<1> QED
  BY <1>1, <1>2, <1>3, <1>4, <1>5, <1>6, <1>7, StepKeeps

LEMMA OpenTaskKeeps ==
  ASSUME IInv, NEW q \in Reqs, UNCHANGED results, OpenTask(q)
  PROVE  IInv'
<1> DEFINE row == [state |-> "in_progress", assignee |-> req[q].agent]
<1>1. Fit(q) /\ StartsFit(q) /\ TypeOK /\ DOMAIN req = Reqs
  BY DEF IInv, Ready
<1>2. UNCHANGED <<repoVars, run, wf, skipped, owed, edited, results>> /\ At(q, "open")
      /\ Len(task) < MaxTasks /\ task' = Append(task, row)
      /\ GotoWith(q, "run", [task |-> Len(task) + 1, parent |-> 0])
  BY DEF OpenTask
<1>3. Opening(q) /\ req[q].next \in {"each", "poll"} /\ "at" \in DOMAIN req[q]
  BY <1>1, <1>2 DEF Fit, Has, At
<1>4. row \in TaskRow
  BY <1>3 DEF TaskRow, TASK_STATES, Opening
<1>5. task' \in Seq(TaskRow) /\ Len(task') = Len(task) + 1 /\ Len(task) \in Nat
      /\ task'[Len(task) + 1] = row /\ \A t \in Tasks : task'[t] = task[t]
  BY <1>1, <1>2, <1>4, AppendProperties DEF TypeOK, Tasks
<1>6. Others(q) /\ DOMAIN req'[q] = DOMAIN req[q] \cup {"task", "parent"}
      /\ req'[q].at = "run" /\ req'[q].task = Len(task) + 1 /\ req'[q].parent = 0
      /\ \A f \in DOMAIN req[q] \ {"task", "parent", "at"} : req'[q][f] = req[q][f]
  BY <1>1, <1>2, <1>3, GotoWithGives
<1>7. Grows /\ SameResults(q) /\ Len(run) \in Nat
  BY <1>1, <1>2, <1>5 DEF Grows, TypeOK, repoVars, SameResults, Runs
<1>8. Opening(q)'
  <2> {"task", "parent"} \in SUBSET {"task", "parent", "run"}
    OBVIOUS
  <2> QED
    BY <1>3, <1>6, <1>7, OpeningKept
<1>9. OfTask(q)'
  BY <1>2, <1>5, <1>6, <1>7 DEF OfTask, Has, Tasks
<1>10. Fit(q)'
  BY <1>3, <1>6, <1>8, <1>9 DEF Fit, Places, Has, At
<1>11. StartsFit(q)'
  <2>1. UNCHANGED By(q) /\ req'[q].next = req[q].next /\ req'[q].agent = req[q].agent
    BY <1>2, <1>3, <1>6 DEF By, Opening, Has
  <2>2. CASE req[q].next = "each"
    <3>1. req'[q].seen = req[q].seen
      BY <1>3, <1>6, <2>2 DEF Opening, InLoop, InChain, InMentions, Has
    <3> QED
      BY <1>1, <1>2, <1>6, <2>1, <2>2, <3>1 DEF StartsFit, Fresh, About, At
  <2>3. CASE req[q].next = "poll"
    <3>1. req'[q].order = req[q].order
      BY <1>3, <1>6, <2>3 DEF Opening, InLoop, Working, InTeam, Has
    <3> QED
      BY <1>1, <1>2, <1>6, <2>1, <2>3, <3>1 DEF StartsFit, Fresh, About, At
  <2> QED
    BY <1>3, <2>2, <2>3
<1>12. \A t \in Tasks' : task'[t].state = "merged" => t \in Tasks /\ task[t].state = "merged"
  BY <1>5 DEF Tasks
<1>13. edited' \subseteq Tasks' /\ Len(task') <= MaxTasks /\ Len(task') >= Len(task)
  BY <1>1, <1>2, <1>5, BoardAssumption DEF TypeOK, Tasks
<1> QED
  BY <1>2, <1>5, <1>6, <1>10, <1>11, <1>12, <1>13, TaskStepKeeps DEF At

LEMMA AssignTaskKeeps ==
  ASSUME IInv, NEW q \in Reqs, UNCHANGED results, AssignTask(q)
  PROVE  IInv'
<1> DEFINE row == [state |-> "in_progress", assignee |-> req[q].agent]
<1>1. Fit(q) /\ StartsFit(q) /\ TypeOK /\ DOMAIN req = Reqs
  BY DEF IInv, Ready
<1>2. UNCHANGED <<repoVars, run, wf, skipped, owed, edited, results>> /\ At(q, "assign")
      /\ task' = [task EXCEPT ![req[q].task] = row] /\ Goto(q, "run")
  BY DEF AssignTask
<1>3. Opening(q) /\ OfTask(q) /\ req[q].next = "post" /\ "at" \in DOMAIN req[q]
  BY <1>1, <1>2 DEF Fit, Has, At
<1>4. row \in TaskRow /\ req[q].task \in 1..Len(task)
  BY <1>3 DEF TaskRow, TASK_STATES, Opening, OfTask, Tasks
<1>5. task' \in Seq(TaskRow) /\ Len(task') = Len(task) /\ Len(task) \in Nat
      /\ \A t \in 1..Len(task) : task'[t] = IF t = req[q].task THEN row ELSE task[t]
  BY <1>1, <1>2, <1>4, ExceptSeq DEF TypeOK
<1>6. Others(q) /\ DOMAIN req'[q] = DOMAIN req[q] /\ req'[q].at = "run"
      /\ \A f \in DOMAIN req[q] \ {"at"} : req'[q][f] = req[q][f]
  BY <1>1, <1>2, <1>3, GotoGives
<1>7. Grows /\ SameResults(q) /\ Len(run) \in Nat
  BY <1>1, <1>2, <1>5 DEF Grows, TypeOK, repoVars, SameResults, Runs
<1>8. Opening(q)'
  <2> {} \in SUBSET {"task", "parent", "run"} /\ DOMAIN req'[q] = DOMAIN req[q] \cup {}
    BY <1>6
  <2> QED
    BY <1>3, <1>6, <1>7, OpeningKept
<1>9. OfTask(q)'
  BY <1>2, <1>3, <1>5, <1>6 DEF OfTask, Has, Tasks
<1>10. Fit(q)'
  BY <1>3, <1>6, <1>8, <1>9 DEF Fit, Places, Has, At
<1>11. By(q)' = {}
  BY <1>1, <1>2 DEF StartsFit, Fresh, By, At
<1>12. StartsFit(q)'
  BY <1>3, <1>6, <1>11 DEF StartsFit, Fresh, About, At, Opening, Has
<1>13. \A t \in Tasks' : task'[t].state = "merged" => t \in Tasks /\ task[t].state = "merged"
  BY <1>5 DEF Tasks
<1>14. edited' \subseteq Tasks' /\ Len(task') <= MaxTasks /\ Len(task') >= Len(task)
  BY <1>1, <1>2, <1>5 DEF TypeOK, Tasks
<1> QED
  BY <1>2, <1>5, <1>6, <1>10, <1>12, <1>13, <1>14, TaskStepKeeps DEF At


\* The rows of runs when one is inserted.
LEMMA RunAdded ==
  ASSUME TypeOK, NEW t \in Tasks, NEW parent \in 0..Len(run), Len(run) < MaxRuns,
         run' = Append(run, NewRun(t, parent))
  PROVE  /\ run' \in Seq(RunRow) /\ Len(run) \in Nat /\ Len(run') = Len(run) + 1
         /\ \A r \in Runs : run'[r] = run[r]
         /\ run'[Len(run) + 1] = NewRun(t, parent)
<1>1. NewRun(t, parent) \in RunRow
  BY BoardAssumption DEF NewRun, RunRow, RunStates, TypeOK, Tasks
<1> QED
  BY <1>1, AppendProperties DEF TypeOK, Runs

LEMMA OpenRunKeeps ==
  ASSUME IInv, NEW q \in Reqs, UNCHANGED results, OpenRun(q)
  PROVE  IInv'
<1> DEFINE new == Len(run) + 1
           place == IF "repo" \in DOMAIN req[q] THEN "start" ELSE "repo"
<1>1. Fit(q) /\ StartsFit(q) /\ TypeOK /\ DOMAIN req = Reqs
  BY DEF IInv, Ready
<1>2. UNCHANGED <<repoVars, task, wf, skipped, owed, edited, results>> /\ At(q, "run")
      /\ Len(run) < MaxRuns /\ run' = Append(run, NewRun(req[q].task, req[q].parent))
      /\ GotoWith(q, place, [run |-> new])
  BY DEF OpenRun
<1>3. Opening(q) /\ OfTask(q) /\ "at" \in DOMAIN req[q]
  BY <1>1, <1>2 DEF Fit, Has, At
<1>4. run' \in Seq(RunRow) /\ Len(run) \in Nat /\ Len(run') = new
      /\ (\A r \in Runs : run'[r] = run[r]) /\ run'[new] = NewRun(req[q].task, req[q].parent)
  BY <1>1, <1>2, <1>3, RunAdded DEF OfTask
<1>5. Others(q) /\ DOMAIN req'[q] = DOMAIN req[q] \cup {"run"}
      /\ req'[q].at = place /\ req'[q].run = new
      /\ \A f \in DOMAIN req[q] \ {"run", "at"} : req'[q][f] = req[q][f]
  BY <1>1, <1>2, <1>3, GotoWithGives
<1>6. Grows /\ SameResults(q)
  BY <1>1, <1>2, <1>4 DEF Grows, TypeOK, repoVars, SameResults, Runs
<1>7. Opening(q)'
  <2> {"run"} \in SUBSET {"task", "parent", "run"}
    OBVIOUS
  <2> QED
    BY <1>3, <1>5, <1>6, OpeningKept
<1>8. OfTask(q)' /\ Recorded(q)'
  BY <1>2, <1>3, <1>4, <1>5 DEF OfTask, Recorded, Has, Tasks, Runs
<1>9. "repo" \notin DOMAIN req[q] => req[q].next = "post"
  BY <1>3 DEF Opening, InLoop, InChain, InFanOut, Working, Has
<1>10. Fit(q)'
  BY <1>3, <1>5, <1>7, <1>8, <1>9 DEF Fit, Places, Has, At, Opening
<1>11. StartsFit(q)'
  <2>1. UNCHANGED By(q) /\ req'[q].next = req[q].next /\ req'[q].agent = req[q].agent
    BY <1>2, <1>3, <1>5 DEF By, Opening, Has
  <2>2. CASE req[q].next \in {"each", "fan"}
    <3>1. req'[q].seen = req[q].seen
      BY <1>3, <1>5, <2>2 DEF Opening, InLoop, InChain, InMentions, InFanOut, Has
    <3> QED
      BY <1>1, <1>2, <1>5, <2>1, <2>2, <3>1 DEF StartsFit, Fresh, About, At
  <2>3. CASE req[q].next = "poll"
    <3>1. req'[q].order = req[q].order
      BY <1>3, <1>5, <2>3 DEF Opening, InLoop, Working, InTeam, Has
    <3> QED
      BY <1>1, <1>2, <1>5, <2>1, <2>3, <3>1 DEF StartsFit, Fresh, About, At
  <2>4. CASE req[q].next = "post"
    BY <1>1, <1>2, <1>5, <2>1, <2>4 DEF StartsFit, Fresh, About, At
  <2> QED
    BY <1>3, <2>2, <2>3, <2>4 DEF Opening
<1>12. NoNewWinner /\ \A p \in Reqs \ {q} : SameResults(p) /\ By(p)' = By(p)
  BY <1>2, <1>4 DEF NoNewWinner, SameResults, By, Runs, NewRun
<1>13. TypeOK'
  <2>1. Len(run') <= MaxRuns /\ Runs \subseteq Runs'
    BY <1>2, <1>4, BoardAssumption DEF Runs
  <2>2. \A r \in Runs' : run'[r].task \in Tasks' /\ run'[r].parent < r
    BY <1>1, <1>2, <1>3, <1>4 DEF Runs, TypeOK, OfTask, Tasks, NewRun
  <2> QED
    BY <1>1, <1>2, <1>4, <2>1, <2>2 DEF TypeOK, RepoRowType, repoVars, Tasks
<1>14. StartedOnce' /\ ChainBounded'
  BY <1>2 DEF IInv, StartedOnce, ChainBounded
<1>15. OutcomesStand'
  <2>1. UNCHANGED results /\ \A r \in Runs : run'[r] = run[r] /\ r \in Runs'
    BY <1>2, <1>4 DEF Runs
  <2>2. OutcomesStand /\ \A key \in DOMAIN results : results[key].run # 0 => results[key].run \in Runs
    BY DEF IInv, ResultsFit
  <2> QED
    BY <2>1, <2>2 DEF OutcomesStand
<1>16. MergedIsTrue'
  <2>0. Tasks' = Tasks /\ Runs \subseteq Runs'
    BY <1>2, <1>4 DEF Runs, Tasks
  <2>1. Tasks' = Tasks /\ \A t \in Tasks : RunsOf(t) \subseteq RunsOf(t)'
    BY <1>4, <2>0 DEF RunsOf
  <2>2. \A t \in Tasks : \A r \in RunsOf(t) : run'[r] = run[r]
    BY <1>4 DEF RunsOf
  <2> QED
    BY <1>2, <2>1, <2>2 DEF IInv, MergedIsTrue
<1>17. StrandedExplained'
  <2> SUFFICES ASSUME NEW r \in Runs'
      PROVE  \/ \E w \in wf' : w.run = r
             \/ r \in skipped'
             \/ \E p \in Reqs : req'[p].at \in {"repo", "start", "dead"} /\ Opened(p, r)'
    BY DEF StrandedExplained
  <2>1. CASE r \in Runs
    BY <1>2, <2>1, <1>5, StrandedKeeps DEF At, IInv
  <2>2. CASE r = new
    BY <1>3, <1>5, <2>2 DEF Opened, Opening, Has
  <2> QED
    BY <1>4, <2>1, <2>2 DEF Runs
<1>18. ResultsFit' /\ OneSetter' /\ WinnerFit(q)'
  BY <1>2, <1>5, <1>6, ResultsKeep, SetterKeeps
<1> QED
  BY <1>5, <1>6, <1>10, <1>11, <1>12, <1>13, <1>14, <1>15, <1>16, <1>17, <1>18, StepKeeps

\* A request goes on with its loop.
LEMMA GoesOn ==
  ASSUME NEW q \in Reqs, Fit(q), At(q, "start"), UNCHANGED <<task, run, results>>, "at" \in DOMAIN req[q],
         DOMAIN req'[q] = DOMAIN req[q], req'[q].at = req[q].next,
         \A f \in DOMAIN req[q] \ {"at", "todo", "seen"} : req'[q][f] = req[q][f]
  PROVE  Fit(q)'
<1> USE DEF Has, Lacks
<1>1. Opening(q) /\ OfTask(q) /\ Recorded(q)
  BY DEF Fit, At
<1>2. CASE req[q].next = "each"
  <2>1. InChain(q)'
    BY <1>1, <1>2 DEF Opening, InLoop, InChain, InMentions
  <2> QED
    BY <1>2, <2>1 DEF Fit, Places, At
<1>3. CASE req[q].next = "fan"
  <2>1. InFanOut(q)'
    BY <1>1, <1>3 DEF Opening, InLoop, InFanOut, Tasks
  <2> QED
    BY <1>3, <2>1 DEF Fit, Places, At
<1>4. CASE req[q].next = "poll"
  <2>1. InTeam(q) /\ Working(q)
    BY <1>1, <1>4 DEF Opening, InLoop, Working
  <2>2. InTeam(q)'
    BY <2>1 DEF InTeam
  <2>3. Working(q)' /\ Recorded(q)'
    BY <1>1, <2>1, <2>2 DEF Working, Recorded, InTeam, Runs
  <2> QED
    BY <1>4, <2>3 DEF Fit, Places, At
<1>5. CASE req[q].next = "post"
  BY <1>1, <1>5 DEF Fit, Places, At, Opening, InLoop, Alone
<1> QED
  BY <1>1, <1>2, <1>3, <1>4, <1>5 DEF Opening


LEMMA SkipStartKeeps ==
  ASSUME IInv, NEW q \in Reqs, UNCHANGED results, SkipStart(q)
  PROVE  IInv'
<1>1. Fit(q) /\ StartsFit(q) /\ TypeOK /\ DOMAIN req = Reqs
  BY DEF IInv, Ready
<1>2. UNCHANGED <<repoVars, task, run, wf, owed, edited, results>> /\ At(q, "start")
      /\ skipped' = skipped \cup {req[q].run} /\ Goto(q, req[q].next)
  BY DEF SkipStart
<1>3. Opening(q) /\ Recorded(q) /\ "at" \in DOMAIN req[q]
  BY <1>1, <1>2 DEF Fit, Has, At
<1>4. Others(q) /\ DOMAIN req'[q] = DOMAIN req[q] /\ req'[q].at = req[q].next
      /\ \A f \in DOMAIN req[q] \ {"at"} : req'[q][f] = req[q][f]
  BY <1>1, <1>2, <1>3, GotoGives
<1>5. Fit(q)'
  BY <1>1, <1>2, <1>3, <1>4, GoesOn
<1>6. Grows /\ NoNewWinner
  BY <1>1, <1>2 DEF Grows, NoNewWinner, TypeOK, repoVars, Runs
<1>7. StartsFit(q)'
  <2>1. UNCHANGED By(q)
    BY <1>2 DEF By
  <2>2. CASE req[q].next \in {"each", "fan"}
    <3>1. req'[q].seen = req[q].seen
      BY <1>3, <1>4, <2>2 DEF Opening, InLoop, InChain, InMentions, InFanOut, Has
    <3> QED
      BY <1>1, <1>2, <1>4, <2>1, <2>2, <3>1 DEF StartsFit, Fresh, About, At
  <2>3. CASE req[q].next = "poll"
    <3>1. req'[q].order = req[q].order
      BY <1>3, <1>4, <2>3 DEF Opening, InLoop, Working, InTeam, Has
    <3> QED
      BY <1>1, <1>2, <1>4, <2>1, <2>3, <3>1 DEF StartsFit, Fresh, About, At
  <2>4. CASE req[q].next = "post"
    BY <1>4, <2>4 DEF StartsFit, Fresh, About, At
  <2> QED
    BY <1>3, <2>2, <2>3, <2>4 DEF Opening
<1>8. \A p \in Reqs \ {q} : SameResults(p) /\ By(p)' = By(p)
  BY <1>2 DEF SameResults, By
<1>9. TypeOK'
  BY <1>1, <1>2, <1>3 DEF TypeOK, RepoRowType, repoVars, Tasks, Runs, Recorded
<1>10. StartedOnce' /\ ChainBounded' /\ OutcomesStand' /\ MergedIsTrue'
  BY <1>2 DEF IInv, StartedOnce, ChainBounded, OutcomesStand, MergedIsTrue, RunsOf, Runs, Tasks
<1>11. StrandedExplained'
  <2>1. \A r \in Runs : Opened(q, r) => r \in skipped'
    BY <1>2 DEF Opened
  <2> QED
    BY <1>2, <1>4, <2>1, StrandedKeeps DEF StrandedExplained, Runs, IInv
<1>12. req'[q].at \notin {"new", "set"}
  BY <1>3, <1>4 DEF Opening
<1>13. ResultsFit' /\ OneSetter' /\ WinnerFit(q)'
  BY <1>4, <1>6, <1>12, ResultsKeep, SetterKeeps
<1> QED
  BY <1>4, <1>5, <1>6, <1>7, <1>8, <1>9, <1>10, <1>11, <1>13, StepKeeps

LEMMA StartFusionRunKeeps ==
  ASSUME IInv, NEW q \in Reqs, UNCHANGED results, StartFusionRun(q)
  PROVE  IInv'
<1> DEFINE role == IF "order" \in DOMAIN req[q] THEN Head(req[q].order) ELSE "none"
           depth == IF "depth" \in DOMAIN req[q] THEN req[q].depth + 1 ELSE 0
           new == [run |-> req[q].run, agent |-> req[q].agent, by |-> q, repo |-> req[q].repo,
                   base |-> req[q].base, role |-> role, depth |-> depth]
           more == [todo |-> Tail(req[q].todo), seen |-> req[q].seen \cup {req[q].agent}]
<1>1. Fit(q) /\ StartsFit(q) /\ TypeOK /\ DOMAIN req = Reqs
  BY DEF IInv, Ready
<1>2. UNCHANGED <<repoVars, task, run, skipped, owed, edited, results>> /\ At(q, "start")
      /\ req[q].repo \in Tokens /\ wf' = wf \cup {new}
      /\ IF "todo" \in DOMAIN req[q] THEN GotoWith(q, req[q].next, more) ELSE Goto(q, req[q].next)
  BY DEF StartFusionRun
<1>3. Opening(q) /\ Recorded(q) /\ "at" \in DOMAIN req[q]
  BY <1>1, <1>2 DEF Fit, Has, At
<1>4. "todo" \in DOMAIN req[q] => {"todo", "seen"} \subseteq DOMAIN req[q]
  BY <1>3 DEF Opening, InLoop, InChain, InMentions, InFanOut, Working, InTeam, Alone, Has, Lacks
<1>5. Others(q) /\ DOMAIN req'[q] = DOMAIN req[q] /\ req'[q].at = req[q].next
      /\ \A f \in DOMAIN req[q] \ {"at", "todo", "seen"} : req'[q][f] = req[q][f]
  <2>1. CASE "todo" \in DOMAIN req[q]
    <3>1. GotoWith(q, req[q].next, more) /\ DOMAIN more = {"todo", "seen"}
      BY <1>2, <2>1
    <3> HIDE DEF more
    <3>2. Others(q) /\ DOMAIN req'[q] = DOMAIN req[q] \cup {"todo", "seen"} /\ req'[q].at = req[q].next
          /\ \A f \in DOMAIN req[q] \ ({"todo", "seen"} \cup {"at"}) : req'[q][f] = req[q][f]
      BY <1>1, <1>3, <3>1, GotoWithGives
    <3> QED
      BY <1>4, <2>1, <3>2
  <2>2. CASE "todo" \notin DOMAIN req[q]
    BY <1>1, <1>2, <1>3, <2>2, GotoGives
  <2> QED
    BY <2>1, <2>2
<1>6. "todo" \in DOMAIN req[q] => req'[q].seen = req[q].seen \cup {req[q].agent}
  BY <1>1, <1>2, <1>3, GotoWithGives
<1>7. Fit(q)'
  BY <1>1, <1>2, <1>3, <1>5, GoesOn
<1>8. Grows /\ NoNewWinner
  BY <1>1, <1>2 DEF Grows, NoNewWinner, TypeOK, repoVars, Runs
<1>9. \A p \in Reqs \ {q} : SameResults(p) /\ By(p)' = By(p)
  BY <1>2 DEF SameResults, By
<1>10. By(q)' = By(q) \cup {new}
  BY <1>2 DEF By
<1>11. req[q].next = "poll" => /\ {"order", "graph"} \subseteq DOMAIN req[q]
                               /\ req[q].order \in Seq(STRING) /\ req[q].order # <<>>
                               /\ role = req[q].order[1] /\ role \in STRING
  BY <1>3 DEF Opening, InLoop, Working, InTeam, Has
<1>12. req[q].next # "poll" => role = "none"
  BY <1>3 DEF Opening, InLoop, InChain, InMentions, InFanOut, Alone, Has, Lacks
<1>13. req[q].next = "poll" =>
         \A i \in 2..Len(req[q].order) : req[q].order[i] # req[q].order[1]
  <2> SUFFICES ASSUME req[q].next = "poll", NEW i \in 2..Len(req[q].order)
      PROVE req[q].order[i] # req[q].order[1]
    OBVIOUS
  <2> DEFINE all == topoOrder(req[q].graph)
             rest == req[q].order
  <2>1. InOrder(req[q].graph, all) /\ Len(rest) <= Len(all) /\ rest \in Seq(STRING)
        /\ \A j \in 1..Len(rest) : rest[j] = all[Len(all) - Len(rest) + j]
    BY <1>3 DEF Opening, InLoop, Working, InTeam
  <2>2. IsInjective(all) /\ Len(all) \in Nat /\ DOMAIN all = 1..Len(all) /\ Len(rest) \in Nat
    BY <2>1 DEF InOrder
  <2> HIDE DEF all, rest
  <2>3. rest[i] = all[Len(all) - Len(rest) + i] /\ rest[1] = all[Len(all) - Len(rest) + 1]
    <3>1. i \in 1..Len(rest) /\ 1 \in 1..Len(rest)
      BY <2>2 DEF rest
    <3> QED
      BY <2>1, <3>1
  <2>4. Len(all) - Len(rest) + i \in 1..Len(all) /\ Len(all) - Len(rest) + 1 \in 1..Len(all)
        /\ Len(all) - Len(rest) + i # Len(all) - Len(rest) + 1
    <3> DEFINE n == Len(all)
               k == Len(rest)
    <3>1. n \in Nat /\ k \in Nat /\ k <= n /\ i \in 2..k
      BY <2>1, <2>2 DEF rest
    <3> HIDE DEF n, k
    <3>2. n - k + i \in 1..n /\ n - k + 1 \in 1..n /\ n - k + i # n - k + 1
      BY <3>1
    <3> QED
      BY <3>2 DEF n, k
  <2>5. all[Len(all) - Len(rest) + i] # all[Len(all) - Len(rest) + 1]
    BY <2>2, <2>4 DEF IsInjective
  <2> QED
    BY <2>3, <2>5 DEF rest
<1>14. StartsFit(q)'
  <2>1. CASE req[q].next \in {"each", "fan"}
    <3>1. "todo" \in DOMAIN req[q]
      BY <1>3, <2>1 DEF Opening, InLoop, InChain, InMentions, InFanOut, Has
    <3> QED
      BY <1>1, <1>2, <1>5, <1>6, <1>10, <2>1, <3>1 DEF StartsFit, Fresh, About, At
  <2>2. CASE req[q].next = "poll"
    <3>1. req'[q].order = req[q].order
      BY <1>5, <1>11, <2>2
    <3>2. \A w \in By(q) : \A i \in 1..Len(req[q].order) : w.role # req[q].order[i]
      BY <1>1, <1>2, <2>2 DEF StartsFit, About, At
    <3>3. \A i \in 1..Len(req[q].order) : i > 1 => new.role # req[q].order[i]
      BY <1>11, <1>13, <2>2
    <3>4. \A w \in By(q)' : \A i \in 1..Len(req'[q].order) : i > 1 => w.role # req'[q].order[i]
      BY <1>10, <3>1, <3>2, <3>3
    <3> QED
      BY <1>5, <2>2, <3>4 DEF StartsFit, Fresh, About, At
  <2>3. CASE req[q].next = "post"
    BY <1>5, <2>3 DEF StartsFit, Fresh, About, At
  <2> QED
    BY <1>3, <2>1, <2>2, <2>3 DEF Opening
<1>15. depth \in Nat /\ depth <= MaxDepth
  <2>1. CASE req[q].next = "each"
    BY <1>3, <2>1, BoardAssumption DEF Opening, InLoop, InChain, InMentions, Has
  <2>2. CASE req[q].next # "each"
    <3>1. "depth" \notin DOMAIN req[q]
      BY <1>3, <2>2 DEF Opening, InLoop, InFanOut, Working, InTeam, Alone, Lacks
    <3> QED
      BY <3>1, BoardAssumption
  <2> QED
    BY <2>1, <2>2
<1>16. TypeOK'
  <2>1. new \in Workflow
    <3> HIDE DEF role, depth
    <3>1. role \in STRING \cup {"none"}
      BY <1>11, <1>12
    <3>2. req[q].run \in 1..MaxRuns /\ req[q].base \in 0..MaxRuns /\ req[q].agent \in Agents \cup {"none"}
      BY <1>1, <1>3, BoardAssumption DEF Opening, Recorded, TypeOK, Runs
    <3> QED
      BY <1>2, <1>15, <3>1, <3>2 DEF Workflow
  <2> QED
    BY <1>1, <1>2, <1>3, <2>1 DEF TypeOK, RepoRowType, repoVars, Tasks, Runs, Recorded
<1>17. ChainBounded'
  BY <1>2, <1>15 DEF IInv, ChainBounded
<1>18. \A w \in By(q) : w.agent = new.agent /\ w.role = new.role => w.run = new.run
  <2>1. CASE req[q].next \in {"each", "fan"}
    BY <1>1, <1>2, <2>1 DEF StartsFit, About, At
  <2>2. CASE req[q].next = "poll"
    BY <1>1, <1>2, <1>11, <2>2 DEF StartsFit, About, At
  <2>3. CASE req[q].next = "post"
    BY <1>1, <1>2, <2>3 DEF StartsFit, Fresh, At
  <2> QED
    BY <1>3, <2>1, <2>2, <2>3 DEF Opening
<1>19. StartedOnce'
  BY <1>2, <1>18 DEF IInv, StartedOnce, By
<1>20. OutcomesStand' /\ MergedIsTrue'
  BY <1>2 DEF IInv, OutcomesStand, MergedIsTrue, RunsOf, Runs, Tasks
<1>21. StrandedExplained'
  <2>1. new \in wf' /\ new.run = req[q].run
    BY <1>2
  <2> HIDE DEF new
  <2>2. \A r \in Runs : Opened(q, r) => \E w \in wf' : w.run = r
    BY <2>1 DEF Opened
  <2>3. wf \subseteq wf'
    BY <1>2
  <2> QED
    BY <1>2, <1>5, <2>2, <2>3, StrandedKeeps DEF StrandedExplained, Runs, IInv
<1>22. req'[q].at \notin {"new", "set"}
  BY <1>3, <1>5 DEF Opening
<1>23. ResultsFit' /\ OneSetter' /\ WinnerFit(q)'
  BY <1>2, <1>5, <1>8, <1>22, ResultsKeep, SetterKeeps
<1> QED
  BY <1>5, <1>7, <1>8, <1>9, <1>14, <1>16, <1>17, <1>19, <1>20, <1>21, <1>23, StepKeeps


-----------------------------------------------------------------------------
(* Edits. *)

LEMMA EditKeeps ==
  ASSUME IInv, NEW q \in Reqs, UNCHANGED results, UpdateTask(q) \/ BulkCreateTasks(q)
  PROVE  IInv'
<1>1. TypeOK /\ DOMAIN req = Reqs
  BY DEF IInv
<1>2. UNCHANGED <<repoVars, run, wf, skipped, owed, results>> /\ At(q, "new") /\ Return(q)
  BY DEF UpdateTask, BulkCreateTasks, Called
<1>3. Others(q) /\ req'[q] = [at |-> "done"]
  BY <1>1, <1>2, ReturnGives
<1>4. Fit(q)' /\ StartsFit(q)'
  BY <1>3, DoneIsReady
<1>5. ASSUME task' \in Seq(TaskRow), Len(task') <= MaxTasks, Len(task') >= Len(task),
         \A t \in Tasks' : task'[t].state = "merged" => t \in Tasks /\ task[t].state = "merged",
         edited' \subseteq Tasks'
      PROVE  IInv'
  BY <1>2, <1>3, <1>4, <1>5, TaskStepKeeps DEF At
<1>6. CASE UpdateTask(q)
  <2>1. PICK t \in Tasks, state \in {"todo", "done"} :
          task' = [task EXCEPT ![t].state = state] /\ edited' = edited \cup {t}
    BY <1>6 DEF UpdateTask
  <2> DEFINE row == [task[t] EXCEPT !.state = state]
  <2>2. task[t] \in TaskRow
    BY <1>1, ElementOfSeq DEF TypeOK, Tasks
  <2>3. row \in TaskRow /\ row.state = state
    BY <2>2 DEF TaskRow, TASK_STATES
  <2>4. task' = [task EXCEPT ![t] = row]
    BY <1>1, <2>1 DEF TypeOK
  <2> HIDE DEF row
  <2>5. task' \in Seq(TaskRow) /\ Len(task') = Len(task)
        /\ \A j \in 1..Len(task) : task'[j] = IF j = t THEN row ELSE task[j]
    BY <1>1, <2>3, <2>4, ExceptSeq DEF TypeOK, Tasks
  <2> QED
    BY <1>1, <1>5, <2>1, <2>3, <2>5 DEF TypeOK, Tasks
<1>7. CASE BulkCreateTasks(q)
  <2> DEFINE row == [state |-> "backlog", assignee |-> "none"]
  <2>1. PICK n \in 1..BulkCreateMax :
          /\ Len(task) + n <= MaxTasks /\ task' = task \o [i \in 1..n |-> row]
          /\ edited' = edited \cup (Len(task) + 1 .. Len(task) + n)
    BY <1>7 DEF BulkCreateTasks
  <2>2. row \in TaskRow /\ row.state # "merged" /\ n \in Nat
    BY BoardAssumption DEF TaskRow, TASK_STATES
  <2> HIDE DEF row
  <2> DEFINE rows == [i \in 1..n |-> row]
  <2>3. rows \in Seq(TaskRow) /\ Len(rows) = n /\ \A i \in 1..n : rows[i] = row
    BY <2>2
  <2>4. task' = task \o rows
    BY <2>1
  <2> HIDE DEF rows
  <2>5. task' \in Seq(TaskRow) /\ Len(task') = Len(task) + n /\ Len(task) \in Nat
        /\ \A i \in 1..Len(task) + n :
             task'[i] = IF i <= Len(task) THEN task[i] ELSE rows[i - Len(task)]
    <3>1. task \in Seq(TaskRow) /\ rows \in Seq(TaskRow)
      BY <1>1, <2>3 DEF TypeOK
    <3>2. task \o rows \in Seq(TaskRow) /\ Len(task \o rows) = Len(task) + Len(rows)
          /\ \A i \in 1..Len(task) + Len(rows) :
               (task \o rows)[i] = IF i <= Len(task) THEN task[i] ELSE rows[i - Len(task)]
      BY <3>1, ConcatProperties, Zenon
    <3> QED
      BY <2>3, <2>4, <3>1, <3>2
  <2>6. \A t \in Tasks' : task'[t].state = "merged" => t \in Tasks /\ task[t].state = "merged"
    BY <2>2, <2>3, <2>5 DEF Tasks
  <2>7. edited' \subseteq Tasks'
    <3>1. edited \subseteq 1..Len(task)
      BY <1>1 DEF TypeOK, Tasks
    <3>2. 1..Len(task) \subseteq 1..Len(task') /\ Len(task) + 1 .. Len(task) + n \subseteq 1..Len(task')
      BY <2>2, <2>5
    <3> QED
      BY <2>1, <3>1, <3>2 DEF Tasks
  <2>8. Len(task') <= MaxTasks /\ Len(task') >= Len(task)
    BY <2>1, <2>2, <2>5
  <2> QED
    BY <1>5, <2>5, <2>6, <2>7, <2>8
<1> QED
  BY <1>6, <1>7

-----------------------------------------------------------------------------
(* The choice of a winner. *)

LEMMA ClearSiblingsKeeps ==
  ASSUME IInv, NEW q \in Reqs, UNCHANGED results, ClearSiblings(q)
  PROVE  IInv'
<1> DEFINE t == run[req[q].run].task
<1>1. Fit(q) /\ TypeOK /\ DOMAIN req = Reqs
  BY DEF IInv, Ready
<1>2. UNCHANGED <<repoVars, task, run, wf, skipped, owed, edited, results>> /\ At(q, "clear")
      /\ (\A r \in RunsOf(t) : ~Locked(r)) /\ GotoWith(q, "set", [rows |-> RunsOf(t)])
  BY DEF ClearSiblings, board, boardVars
<1>3. Recorded(q) /\ Has(q, {"note", "at"})
  BY <1>1, <1>2 DEF Fit, At, Has
<1>4. Others(q) /\ DOMAIN req'[q] = DOMAIN req[q] \cup {"rows"} /\ req'[q].at = "set"
      /\ req'[q].rows = RunsOf(t) /\ req'[q].run = req[q].run
  BY <1>1, <1>2, <1>3, GotoWithGives DEF Has, Recorded
<1>5. Grows /\ NoNewWinner
  BY <1>1, <1>2 DEF Grows, NoNewWinner, Runs, TypeOK, repoVars
<1>6. \A p \in Reqs \ {q} : SameResults(p) /\ By(p)' = By(p)
  BY <1>2 DEF SameResults, By
<1>7. TypeOK' /\ StartedOnce' /\ ChainBounded' /\ MergedIsTrue' /\ OutcomesStand'
  BY <1>2 DEF IInv, TypeOK, StartedOnce, ChainBounded, MergedIsTrue, OutcomesStand, RepoRowType,
     repoVars, Tasks, Runs, RunsOf
<1>8. StrandedExplained'
  BY <1>2, <1>4, StrandedKeeps DEF StrandedExplained, Runs, IInv, At
<1>9. ResultsFit'
  BY <1>2, <1>4, <1>5, ResultsKeep
<1>10. Fit(q)'
  BY <1>2, <1>3, <1>4 DEF Fit, Places, Has, At, Recorded, Runs
<1>11. StartsFit(q)'
  BY <1>4 DEF StartsFit, Fresh, About, At
<1>12. WinnerFit(q)'
  BY <1>2, <1>3, <1>4 DEF WinnerFit, RunsOf, Runs, Recorded
<1>13. OneSetter'
  <2>1. ASSUME NEW p \in Reqs \ {q}, At(p, "set")' PROVE run[req[p].run].task # t
    <3>1. req'[p] = req[p] /\ At(p, "set")
      BY <1>4, <2>1 DEF Others, At
    <3>2. req[p].run \in req[p].rows /\ req[p].run \in Runs
      BY <3>1 DEF IInv, Ready, Fit, WinnerFit, Recorded, At
    <3>3. Locked(req[p].run)
      BY <3>1, <3>2 DEF Locked
    <3> QED
      BY <1>2, <3>2, <3>3 DEF RunsOf
  <2>2. ASSUME NEW p \in Reqs, NEW r \in Reqs, At(p, "set")', At(r, "set")', p # r, p # q, r # q
        PROVE  run[req[p].run].task # run[req[r].run].task
    BY <1>4, <2>2 DEF IInv, OneSetter, Others, At
  <2>3. \A p \in Reqs \ {q} : req'[p] = req[p]
    BY <1>4 DEF Others
  <2> SUFFICES ASSUME NEW p \in Reqs, NEW r \in Reqs, At(p, "set")', At(r, "set")', p # r
      PROVE  run'[req'[p].run].task # run'[req'[r].run].task
    BY DEF OneSetter
  <2> QED
    BY <1>2, <1>4, <2>1, <2>2, <2>3
<1> QED
  BY <1>4, <1>5, <1>6, <1>7, <1>8, <1>9, <1>10, <1>11, <1>12, <1>13, StepKeeps

LEMMA SetWinnerKeeps ==
  ASSUME IInv, NEW q \in Reqs, UNCHANGED results, SetWinner(q)
  PROVE  IInv'
<1> DEFINE t == run[req[q].run].task
<1>1. Fit(q) /\ WinnerFit(q) /\ TypeOK /\ DOMAIN req = Reqs
  BY DEF IInv, Ready
<1>2. UNCHANGED <<repoVars, task, wf, skipped, owed, edited, results>> /\ At(q, "set") /\ Goto(q, "post")
      /\ run' = [r \in Runs |-> IF r \in req[q].rows \cup {req[q].run}
                                THEN [run[r] EXCEPT !.selected = (r = req[q].run)]
                                ELSE run[r]]
  BY DEF SetWinner
<1>3. Recorded(q) /\ Has(q, {"note", "at"})
  BY <1>1, <1>2 DEF Fit, At, Has
<1>4. Others(q) /\ DOMAIN req'[q] = DOMAIN req[q] /\ req'[q].at = "post"
  BY <1>1, <1>2, <1>3, GotoGives DEF Has
<1>5. /\ req[q].rows \subseteq RunsOf(t) /\ req[q].run \in req[q].rows
      /\ \A r \in RunsOf(t) : run[r].selected => r \in req[q].rows
  BY <1>1, <1>2 DEF WinnerFit
<1>6. \A r \in Runs : run[r] \in RunRow
  BY <1>1, ElementOfSeq DEF TypeOK, Runs
<1>7. Len(run) \in Nat /\ run' \in Seq(RunRow) /\ Len(run') = Len(run) /\ Runs' = Runs
  <2>1. Len(run) \in Nat
    BY <1>1 DEF TypeOK
  <2>2. \A r \in Runs : [run[r] EXCEPT !.selected = (r = req[q].run)] \in RunRow
    BY <1>6 DEF RunRow
  <2>3. \A r \in 1..Len(run) : run'[r] \in RunRow
    BY <1>2, <1>6, <2>2 DEF Runs
  <2>4. DOMAIN run' = 1..Len(run) /\ run' = [r \in 1..Len(run) |-> run'[r]]
    BY <1>2 DEF Runs
  <2> QED
    BY <2>1, <2>3, <2>4 DEF Runs
<1>8. \A r \in Runs : /\ run'[r].task = run[r].task /\ run'[r].state = run[r].state
                      /\ run'[r].parent = run[r].parent
  BY <1>2, <1>6 DEF RunRow
<1>9. \A r \in Runs : run[r].task # t => run'[r].selected = run[r].selected
  BY <1>2, <1>5, <1>6 DEF RunRow, RunsOf
<1>10. \A r \in Runs : run[r].task = t => (run'[r].selected <=> r = req[q].run)
  BY <1>2, <1>5, <1>6 DEF RunRow, RunsOf
<1>11. OneSelected'
  BY <1>7, <1>8, <1>9, <1>10 DEF IInv, OneSelected
<1>12. Grows
  <2>1. Len(task) \in Nat /\ task' = task /\ repoId' = repoId
    BY <1>1, <1>2 DEF TypeOK, repoVars
  <2> QED
    BY <1>7, <1>8, <2>1 DEF Grows
<1>13. ASSUME NEW p \in Reqs \ {q} PROVE Ready(p)'
  <2>1. Ready(p) /\ req'[p] = req[p] /\ SameResults(p) /\ By(p)' = By(p)
    BY <1>2, <1>4 DEF IInv, Others, SameResults, By
  <2>2. Fit(p)' /\ StartsFit(p)'
    BY <1>12, <2>1, StaysFit, StaysStartsFit DEF Ready
  <2>3. WinnerFit(p)'
    <3> SUFFICES ASSUME At(p, "set")' PROVE WinnerFit(p)'
      BY DEF WinnerFit
    <3>1. At(p, "set") /\ req[p].run \in Runs /\ WinnerFit(p)
      BY <2>1 DEF At, Ready, Fit, Recorded
    <3>2. run[req[p].run].task # t
      BY <1>2, <3>1 DEF IInv, OneSetter
    <3> QED
      BY <1>7, <1>8, <1>9, <2>1, <3>1, <3>2 DEF WinnerFit, RunsOf
  <2> QED
    BY <2>2, <2>3 DEF Ready
<1>14. Ready(q)'
  BY <1>3, <1>4 DEF Ready, Fit, StartsFit, WinnerFit, Fresh, About, At, Has, Places
<1>15. TypeOK'
  BY <1>1, <1>2, <1>7, <1>8 DEF TypeOK, RepoRowType, repoVars, Tasks
<1>16. StartedOnce' /\ ChainBounded'
  BY <1>2 DEF IInv, StartedOnce, ChainBounded
<1>17. MergedIsTrue'
  <2>1. UNCHANGED <<task, Tasks>> /\ MergedIsTrue
    BY <1>2 DEF Tasks, IInv
  <2>2. \A k \in Tasks : RunsOf(k)' = RunsOf(k)
    BY <1>7, <1>8 DEF RunsOf
  <2> QED
    BY <1>8, <2>1, <2>2 DEF MergedIsTrue, RunsOf
<1>18. OutcomesStand'
  <2>1. OutcomesStand /\ \A k \in DOMAIN results : results[k].run \in {0} \cup Runs
    BY DEF IInv, ResultsFit
  <2> QED
    BY <1>2, <1>8, <2>1 DEF OutcomesStand
<1>19. StrandedExplained'
  BY <1>2, <1>4, <1>7, StrandedKeeps DEF StrandedExplained, IInv, At
<1>20. ResultsFit' /\ OneSetter'
  BY <1>2, <1>4, <1>12, ResultsKeep, SetterKeeps
<1> QED
  BY <1>4, <1>11, <1>13, <1>14, <1>15, <1>16, <1>17, <1>18, <1>19, <1>20 DEF IInv, Others


-----------------------------------------------------------------------------
(* Teams. *)

\* Where a team is in its order.
LEMMA TeamPlace ==
  ASSUME NEW q \in Reqs, InTeam(q), req[q].order # <<>>
  PROVE  LET all == topoOrder(req[q].graph)
             rest == req[q].order
             k == Len(all) - Len(rest) + 1
         IN  /\ InOrder(req[q].graph, all) /\ all \in Seq(Ids(req[q].graph))
             /\ k \in 1..Len(all) /\ Head(rest) = all[k] /\ Head(rest) \in STRING
             /\ Tail(rest) \in Seq(STRING) /\ Len(Tail(rest)) = Len(all) - k
             /\ \A i \in 1..Len(Tail(rest)) : /\ Tail(rest)[i] = rest[i + 1]
                                              /\ Tail(rest)[i] = all[k + i]
             /\ \A i \in 1..Len(all) : all[i] = all[k] => i = k
             /\ Len(rest) = Len(all) - k + 1 /\ Len(all) \in Nat
<1> DEFINE all == topoOrder(req[q].graph)
           rest == req[q].order
           k == Len(all) - Len(rest) + 1
<1>1. /\ InOrder(req[q].graph, all) /\ rest \in Seq(STRING) /\ Len(rest) <= Len(all)
      /\ \A i \in 1..Len(rest) : rest[i] = all[Len(all) - Len(rest) + i]
  BY DEF InTeam
<1>2. all \in Seq(Ids(req[q].graph)) /\ IsInjective(all)
  BY <1>1 DEF InOrder
<1>3. Head(rest) \in STRING /\ Tail(rest) \in Seq(STRING) /\ Len(Tail(rest)) = Len(rest) - 1
      /\ \A i \in 1..Len(Tail(rest)) : Tail(rest)[i] = rest[i + 1]
  BY <1>1, HeadTailProperties
<1> HIDE DEF all, rest
<1>4. rest # <<>> /\ Len(all) \in Nat /\ DOMAIN all = 1..Len(all)
  BY <1>2 DEF rest
<1>5. Len(rest) \in Nat \ {0} /\ Head(rest) = rest[1]
  BY <1>1, <1>4
<1>6. k \in 1..Len(all) /\ Head(rest) = all[k] /\ Len(rest) = Len(all) - k + 1
  BY <1>1, <1>4, <1>5
<1>7. \A i \in 1..Len(all) : all[i] = all[k] => i = k
  BY <1>2, <1>4, <1>6 DEF IsInjective
<1>8. \A i \in 1..Len(Tail(rest)) : Tail(rest)[i] = all[k + i]
  <2> SUFFICES ASSUME NEW i \in 1..Len(Tail(rest)) PROVE Tail(rest)[i] = all[k + i]
    OBVIOUS
  <2>1. i + 1 \in 1..Len(rest) /\ k + i = Len(all) - Len(rest) + (i + 1)
    BY <1>3, <1>4, <1>5
  <2> QED
    BY <1>1, <1>3, <2>1
<1>9. Len(Tail(rest)) = Len(all) - k
  BY <1>3, <1>4, <1>5
<1> QED
  BY <1>1, <1>2, <1>3, <1>4, <1>6, <1>7, <1>8, <1>9 DEF all, rest

LEMMA RunTeamKeeps ==
  ASSUME IInv, NEW q \in Reqs, RunTeam(q)
  PROVE  IInv'
<1>1. Fit(q) /\ StartsFit(q) /\ TypeOK /\ DOMAIN req = Reqs
  BY DEF IInv, Ready
<1>2. UNCHANGED <<repoVars, task, run, wf, skipped, owed, edited, results>> /\ At(q, "new")
  BY DEF RunTeam, board, boardVars, Called
<1>3. CASE Return(q)
  BY <1>2, <1>3, ReturnKeeps DEF At
<1>4. ASSUME NEW graph \in Graphs, topoOrder(graph) # Thrown,
             Enter(q, "team", [at |-> "role", graph |-> graph, order |-> topoOrder(graph)])
      PROVE  IInv'
  <2> DEFINE all == topoOrder(graph)
  <2>1. InOrder(graph, all) /\ all \in Seq(Ids(graph)) /\ Ids(graph) \subseteq STRING
    BY <1>4, TopoOrderCorrect, GraphAssumption DEF InOrder
  <2>2. Others(q) /\ req'[q] = [at |-> "role", graph |-> graph, order |-> all]
    BY <1>1, <1>4, EnterGives
  <2> HIDE DEF all
  <2>3. all \in Seq(STRING) /\ Len(all) \in Nat
    BY <2>1
  <2>4. \A i \in 1..Len(all) : <<q, all[i]>> \notin DOMAIN results
    BY <1>2 DEF IInv, ResultsFit, At
  <2>5. InTeam(q)'
    <3>1. /\ DOMAIN req'[q] = {"at", "graph", "order"} /\ req'[q].graph = graph /\ req'[q].order = all
      BY <2>2
    <3>2. \A i \in 1..Len(all) : all[i] = all[Len(all) - Len(all) + i]
      BY <2>3
    <3>3. \A i \in 1..Len(all) : <<q, all[i]>> \in DOMAIN results' <=> i <= Len(all) - Len(all)
      BY <1>2, <2>3, <2>4
    <3>4. topoOrder(req'[q].graph) = all
      BY <3>1 DEF all
    <3> QED
      BY <1>4, <2>1, <2>3, <3>1, <3>2, <3>3, <3>4 DEF InTeam, Has, Lacks
  <2>6. Fit(q)'
    BY <2>2, <2>5 DEF Fit, Places, Has, At
  <2>7. By(q)' = {}
    BY <1>1, <1>2 DEF StartsFit, Fresh, At, By
  <2>8. StartsFit(q)'
    BY <2>2, <2>7 DEF StartsFit, Fresh, About, At
  <2> QED
    BY <1>2, <2>2, <2>6, <2>8, HoldKeeps DEF At
<1> QED
  BY <1>3, <1>4 DEF RunTeam

\* A role has its outcome.
LEMMA ConcludeKeeps ==
  ASSUME IInv, NEW q \in Reqs, UNCHANGED board, req[q].at \in {"role", "poll"}, InTeam(q),
         req[q].order # <<>>, NEW r \in {0} \cup Runs, NEW outcome,
         r # 0 => outcome = "timeout" \/ (outcome \in awaited /\ outcome = run[r].state),
         Conclude(q, r, outcome)
  PROVE  IInv'
<1> DEFINE all == topoOrder(req[q].graph)
           rest == req[q].order
           k == Len(all) - Len(rest) + 1
           key == <<q, Head(rest)>>
           res == [run |-> r, outcome |-> outcome]
<1>1. Fit(q) /\ StartsFit(q) /\ TypeOK /\ DOMAIN req = Reqs /\ "at" \in DOMAIN req[q]
  BY DEF IInv, Ready, Fit, Has
<1>2. UNCHANGED <<repoVars, task, run, wf, skipped, owed, edited>>
  BY DEF board, boardVars
<1>3. Others(q) /\ DOMAIN req'[q] = DOMAIN req[q] \cup {"order"} /\ req'[q].at = "role"
      /\ req'[q].order = Tail(rest) /\ \A f \in DOMAIN req[q] \ {"order", "at"} : req'[q][f] = req[q][f]
  <2>1. GotoWith(q, "role", [order |-> Tail(rest)])
    BY DEF Conclude
  <2> HIDE DEF rest
  <2> QED
    BY <1>1, <2>1, GotoWithGives
<1>4. DOMAIN results' = DOMAIN results \cup {key} /\ results'[key] = res
      /\ \A i \in DOMAIN results \ {key} : results'[i] = results[i]
  BY DEF Conclude, Put
<1>5. /\ InOrder(req[q].graph, all) /\ k \in 1..Len(all) /\ Head(rest) = all[k] /\ Head(rest) \in STRING
      /\ Tail(rest) \in Seq(STRING) /\ Len(Tail(rest)) = Len(all) - k
      /\ \A i \in 1..Len(Tail(rest)) : Tail(rest)[i] = rest[i + 1] /\ Tail(rest)[i] = all[k + i]
      /\ \A i \in 1..Len(all) : all[i] = all[k] => i = k
      /\ Len(rest) = Len(all) - k + 1 /\ Len(all) \in Nat
  BY TeamPlace
<1>6. /\ Has(q, {"graph", "order"}) /\ Lacks(q, {"todo", "depth"}) /\ req[q].graph \in Graphs
      /\ \A i \in 1..Len(all) : <<q, all[i]>> \in DOMAIN results <=> i <= Len(all) - Len(rest)
  BY DEF InTeam
<1>7. InTeam(q)'
  <2>1. Has(q, {"graph", "order"})' /\ Lacks(q, {"todo", "depth"})' /\ req'[q].graph = req[q].graph
    BY <1>3, <1>6 DEF Has, Lacks
  <2> HIDE DEF all, rest
  <2>2. \A i \in 1..Len(Tail(rest)) : Tail(rest)[i] = all[Len(all) - Len(Tail(rest)) + i]
    BY <1>5
  <2>3. \A i \in 1..Len(all) : <<q, all[i]>> \in DOMAIN results' <=> i <= Len(all) - Len(Tail(rest))
    <3> SUFFICES ASSUME NEW i \in 1..Len(all)
        PROVE <<q, all[i]>> \in DOMAIN results' <=> i <= k
      BY <1>5
    <3>1. CASE i = k
      BY <1>4, <1>5, <3>1
    <3>2. CASE i # k
      <4>1. <<q, all[i]>> # key
        BY <1>5, <3>2
      <4>2. i <= k <=> i <= Len(all) - Len(rest)
        BY <1>5, <3>2
      <4> QED
        BY <1>4, <1>6, <4>1, <4>2
    <3> QED
      BY <3>1, <3>2
  <2>4. Len(Tail(rest)) <= Len(all)
    BY <1>5
  <2> QED
    BY <1>3, <1>5, <1>6, <2>1, <2>2, <2>3, <2>4 DEF InTeam, all
<1>8. Fit(q)'
  BY <1>1, <1>3, <1>7 DEF Fit, Places, Has, At
<1>9. StartsFit(q)'
  <2>1. \A w \in By(q) : \A i \in 2..Len(rest) : w.role # rest[i]
    BY <1>1, <1>5 DEF StartsFit, At
  <2>2. \A i \in 1..Len(Tail(rest)) : i + 1 \in 2..Len(rest) /\ Tail(rest)[i] = rest[i + 1]
    BY <1>5
  <2>3. \A w \in By(q)' : \A i \in 1..Len(req'[q].order) : w.role # req'[q].order[i]
    <3> HIDE DEF rest
    <3> QED
      BY <1>2, <1>3, <2>1, <2>2 DEF By
  <2> QED
    BY <1>3, <2>3 DEF StartsFit, Fresh, About, At
<1>10. Grows /\ NoNewWinner
  BY <1>1, <1>2 DEF Grows, NoNewWinner, Runs, TypeOK, repoVars
<1>11. \A p \in Reqs \ {q} : SameResults(p) /\ By(p)' = By(p)
  BY <1>2, <1>4 DEF SameResults, By
<1>12. TypeOK' /\ StartedOnce' /\ ChainBounded' /\ MergedIsTrue'
  BY <1>2 DEF IInv, TypeOK, StartedOnce, ChainBounded, MergedIsTrue, RepoRowType,
     repoVars, Tasks, Runs, RunsOf
<1>13. Runs' = Runs /\ run' = run
  BY <1>2 DEF Runs
<1>14. OutcomesStand'
  <2> SUFFICES ASSUME NEW i \in DOMAIN results'
      PROVE  \/ results'[i].outcome \in {"timeout", "awaiting_plan_approval"} \/ results'[i].run = 0
             \/ run[results'[i].run].state = results'[i].outcome
             \/ results'[i].outcome = "held_for_human" /\ run[results'[i].run].state = "merged"
    BY <1>13 DEF OutcomesStand
  <2>1. CASE i = key
    BY <1>4, <2>1
  <2>2. CASE i # key
    BY <1>4, <2>2 DEF IInv, OutcomesStand
  <2> QED
    BY <2>1, <2>2
<1>15. ResultsFit'
  <2> SUFFICES ASSUME NEW i \in DOMAIN results'
      PROVE /\ i \in Reqs \X STRING /\ req'[i[1]].at # "new" /\ results'[i].run \in {0} \cup Runs
            /\ results'[i].run # 0 => results'[i].outcome \in awaited
    BY <1>13 DEF ResultsFit
  <2>1. CASE i = key
    <3>1. i \in Reqs \X STRING /\ i[1] = q
      BY <1>5, <2>1
    <3> QED
      BY <1>3, <1>4, <2>1, <3>1 DEF awaited
  <2>2. CASE i # key
    <3>1. /\ i \in Reqs \X STRING /\ req[i[1]].at # "new" /\ results[i].run \in {0} \cup Runs
          /\ results[i].run # 0 => results[i].outcome \in awaited
      BY <1>4, <2>2 DEF IInv, ResultsFit
    <3> QED
      BY <1>3, <1>4, <2>2, <3>1 DEF Others
  <2> QED
    BY <2>1, <2>2
<1>16. StrandedExplained'
  BY <1>2, <1>3, <1>13, StrandedKeeps DEF StrandedExplained, IInv, At
<1>17. OneSetter' /\ WinnerFit(q)'
  BY <1>3, <1>10, SetterKeeps
<1> QED
  BY <1>3, <1>8, <1>9, <1>10, <1>11, <1>12, <1>14, <1>15, <1>16, <1>17, StepKeeps

LEMMA NextRoleKeeps ==
  ASSUME IInv, NEW q \in Reqs, NextRole(q)
  PROVE  IInv'
<1>1. Fit(q) /\ StartsFit(q) /\ TypeOK /\ DOMAIN req = Reqs /\ At(q, "role") /\ InTeam(q)
      /\ "at" \in DOMAIN req[q]
  BY DEF IInv, Ready, NextRole, Fit, Has, At
<1>2. UNCHANGED board /\ UNCHANGED <<repoVars, task, run, wf, skipped, owed, edited>>
  BY DEF NextRole, board, boardVars
<1>3. CASE Return(q) /\ UNCHANGED results
  BY <1>1, <1>2, <1>3, ReturnKeeps DEF At
<1>4. ASSUME NEW outcome, req[q].order # <<>>, Conclude(q, 0, outcome) PROVE IInv'
  BY <1>1, <1>2, <1>4, ConcludeKeeps DEF At
<1>5. ASSUME UNCHANGED results, req[q].order # <<>>,
             NEW a \in pickAgentForRole(NodeOf(req[q].graph, Head(req[q].order))),
             GotoWith(q, "open", [agent |-> a, repo |-> repoId[Board], base |-> 0,
                                  next |-> "poll", polls |-> 0])
      PROVE  IInv'
  <2>1. a \in Agents
    BY <1>5 DEF pickAgentForRole
  <2>2. Others(q) /\ DOMAIN req'[q] = DOMAIN req[q] \cup {"agent", "repo", "base", "next", "polls"}
        /\ req'[q].at = "open" /\ req'[q].agent = a /\ req'[q].base = 0 /\ req'[q].next = "poll"
        /\ \A f \in DOMAIN req[q] \ {"agent", "repo", "base", "next", "polls", "at"} :
             req'[q][f] = req[q][f]
    BY <1>1, <1>5, GotoWithGives
  <2>3. "order" \in DOMAIN req[q] /\ req'[q].order = req[q].order
    BY <1>1, <2>2 DEF InTeam, Has
  <2>4. InTeam(q)'
    BY <1>1, <1>5, <2>2 DEF InTeam, Has, Lacks
  <2>5. Working(q)'
    BY <1>5, <2>2, <2>3, <2>4 DEF Working, Has
  <2>6. 0 \in 0..Len(run)'
    BY <1>1, <1>2 DEF TypeOK
  <2>7. Opening(q)'
    BY <2>1, <2>2, <2>5, <2>6 DEF Opening, InLoop, Has
  <2>8. Fit(q)'
    BY <1>1, <2>2, <2>7 DEF Fit, Places, Has, At
  <2>9. StartsFit(q)'
    <3>1. \A w \in By(q) : \A i \in 1..Len(req[q].order) : w.role # req[q].order[i]
      BY <1>1 DEF StartsFit, At
    <3>2. By(q)' = By(q)
      BY <1>2 DEF By
    <3> QED
      BY <2>2, <2>3, <3>1, <3>2 DEF StartsFit, Fresh, About, At
  <2> QED
    BY <1>1, <1>2, <1>5, <2>2, <2>8, <2>9, HoldKeeps DEF At
<1> QED
  BY <1>3, <1>4, <1>5 DEF NextRole

LEMMA AwaitRunTerminalKeeps ==
  ASSUME IInv, NEW q \in Reqs, AwaitRunTerminal(q)
  PROVE  IInv'
<1>1. Fit(q) /\ StartsFit(q) /\ TypeOK /\ DOMAIN req = Reqs /\ At(q, "poll") /\ Working(q)
      /\ Recorded(q) /\ "at" \in DOMAIN req[q]
  BY DEF IInv, Ready, AwaitRunTerminal, Fit, Has, At
<1>2. UNCHANGED board /\ UNCHANGED <<repoVars, task, run, wf, skipped, owed, edited>>
  BY DEF AwaitRunTerminal, board, boardVars
<1>3. ASSUME NEW outcome, outcome = "timeout" \/ (outcome \in awaited /\ outcome = run[req[q].run].state),
             Conclude(q, req[q].run, outcome)
      PROVE  IInv'
  BY <1>1, <1>2, <1>3, ConcludeKeeps DEF At, Working, Recorded
<1>4. ASSUME GotoWith(q, "poll", [polls |-> req[q].polls + 1]), UNCHANGED results
      PROVE  IInv'
  <2>1. Others(q) /\ DOMAIN req'[q] = DOMAIN req[q] \cup {"polls"} /\ req'[q].at = "poll"
        /\ \A f \in DOMAIN req[q] \ {"polls", "at"} : req'[q][f] = req[q][f]
    BY <1>1, <1>4, GotoWithGives
  <2>2. InTeam(q) /\ "order" \in DOMAIN req[q] /\ req'[q].order = req[q].order
    BY <1>1, <2>1 DEF Working, InTeam, Has
  <2>3. InTeam(q)'
    BY <1>4, <2>1, <2>2 DEF InTeam, Has, Lacks
  <2>4. Working(q)' /\ Recorded(q)'
    BY <1>1, <1>2, <2>1, <2>2, <2>3 DEF Working, Recorded, Has, Runs
  <2>5. Fit(q)'
    BY <1>1, <2>1, <2>4 DEF Fit, Places, At, Has
  <2>6. By(q)' = By(q)
    BY <1>2 DEF By
  <2>7. StartsFit(q)'
    BY <1>1, <2>1, <2>2, <2>6 DEF StartsFit, Fresh, About, At
  <2> QED
    BY <1>1, <1>2, <1>4, <2>1, <2>5, <2>7, HoldKeeps DEF At
<1> QED
  BY <1>3, <1>4 DEF AwaitRunTerminal


-----------------------------------------------------------------------------
(* Repos of threads. *)

\* A step that writes the repos, the board being as it is.
LEMMA RepoStepKeeps ==
  ASSUME IInv, NEW q \in Reqs, Others(q), UNCHANGED <<boardVars, results>>,
         req[q].at \notin {"repo", "start", "dead"}, req'[q].at \notin {"new", "set"},
         DOMAIN repoId \subseteq DOMAIN repoId', RepoRowType', Fit(q)', StartsFit(q)'
  PROVE  IInv'
<1>1. UNCHANGED <<task, run, wf, skipped, owed, edited, results>> /\ TypeOK
  BY DEF boardVars, IInv
<1>2. Grows /\ NoNewWinner
  BY <1>1 DEF Grows, NoNewWinner, Runs, TypeOK
<1>3. \A p \in Reqs \ {q} : SameResults(p) /\ By(p)' = By(p)
  BY <1>1 DEF SameResults, By
<1>4. TypeOK'
  BY <1>1 DEF TypeOK, Tasks, Runs
<1>5. StartedOnce' /\ ChainBounded' /\ MergedIsTrue' /\ OutcomesStand'
  BY <1>1 DEF IInv, StartedOnce, ChainBounded, MergedIsTrue, OutcomesStand, Tasks, Runs, RunsOf
<1>6. StrandedExplained'
  BY <1>1, StrandedKeeps DEF StrandedExplained, IInv, Runs
<1>7. ResultsFit' /\ OneSetter' /\ WinnerFit(q)'
  BY <1>1, <1>2, ResultsKeep, SetterKeeps
<1> QED
  BY <1>2, <1>3, <1>4, <1>5, <1>6, <1>7, StepKeeps

\* A row is written for a thread and a repo that exist, and only once.
LEMMA RepoRows ==
  ASSUME RepoRowType, NEW q \in Reqs, Fit(q), RepoHandler(q)
  PROVE  RepoRowType' /\ DOMAIN repoId \subseteq DOMAIN repoId'
<1> USE DEF RepoRowType, ThreadRepoRow
<1>1. CASE UNCHANGED repoVars
  BY <1>1 DEF repoVars
<1>2. CASE DemoteOthers(q)
  <2> DEFINE t == req[q].thread
  <2>1. attached' = (attached \ RowsOf(t)) \cup {<<t, row[2], FALSE>> : row \in RowsOf(t)}
        /\ repoId' = repoId
    BY <1>2 DEF DemoteOthers
  <2> HIDE DEF t
  <2>2. \A v \in attached' :
          \/ v \in attached /\ v[1] # t
          \/ \E row \in attached : row[1] = t /\ v = <<t, row[2], FALSE>>
    BY <2>1 DEF RowsOf
  <2>3. ASSUME NEW row \in attached, row[1] = t
        PROVE  <<t, row[2], FALSE>> \in ThreadRepoRow
    BY <2>3
  <2>4. attached' \subseteq ThreadRepoRow
    BY <2>2, <2>3
  <2>5. ASSUME NEW v \in attached'
        PROVE  (v[1] # t => v \in attached) /\ (v[1] = t => v = <<t, v[2], FALSE>>)
    <3>1. CASE v \in attached /\ v[1] # t
      BY <3>1
    <3>2. ASSUME NEW row \in attached, v = <<t, row[2], FALSE>>
          PROVE  v[1] = t /\ v = <<t, v[2], FALSE>>
      BY <3>2
    <3> QED
      BY <2>2, <3>1, <3>2
  <2>6. ASSUME NEW v \in attached', NEW w \in attached', v[1] = w[1], v[2] = w[2]
        PROVE  v = w
    <3>1. CASE v[1] = t
      <4>1. v = <<t, v[2], FALSE>> /\ w = <<t, w[2], FALSE>>
        BY <2>5, <2>6, <3>1
      <4> QED
        BY <2>6, <4>1
    <3>2. CASE v[1] # t
      <4>1. v \in attached /\ w \in attached
        BY <2>5, <2>6, <3>2
      <4> QED
        BY <2>6, <4>1
    <3> QED
      BY <3>1, <3>2
  <2> QED
    BY <2>1, <2>4, <2>6
<1>3. CASE AttachRepo(q)
  <2>1. Attaching(q)
    BY <1>3 DEF Fit, AttachRepo, At
  <2>2. attached' = Upsert(req[q].thread, req[q].repo, req[q].primary) /\ repoId' = repoId
    BY <1>3 DEF AttachRepo
  <2> QED
    BY <2>1, <2>2 DEF Upsert, Attaching
<1>4. CASE MirrorPrimary(q)
  <2>1. Attaching(q)
    BY <1>4 DEF Fit, MirrorPrimary, At
  <2> QED
    BY <1>4, <2>1 DEF MirrorPrimary, Attaching, ThreadRow
<1>5. CASE RemoveThreadRepo(q)
  BY <1>5 DEF RemoveThreadRepo
<1>6. CASE ForkThread(q)
  BY <1>6 DEF ForkThread, NewThread, Put
<1>7. CASE CopyRepos(q)
  <2>1. Copying(q)
    BY <1>7 DEF Fit, CopyRepos, At
  <2>2. attached' = attached \cup {row \in req[q].rows : ~\E old \in RowsOf(row[1]) : old[2] = row[2]}
        /\ repoId' = repoId
    BY <1>7 DEF CopyRepos
  <2>3. attached' \subseteq ThreadRepoRow
    BY <2>1, <2>2 DEF Copying
  <2>4. \A v, w \in attached' : v[1] = w[1] /\ v[2] = w[2] => v = w
    BY <2>1, <2>2 DEF Copying, RowsOf
  <2> QED
    BY <2>2, <2>3, <2>4
<1>8. CASE CreateThread(q)
  <2>1. PICK t \in Threads \ DOMAIN repoId, r \in ThreadRow : NewThread(t, r)
    BY <1>8 DEF CreateThread
  <2>2. attached' = attached
    BY <1>8 DEF CreateThread
  <2> QED
    BY <2>1, <2>2 DEF NewThread, Put
<1> QED
  BY <1>1, <1>2, <1>3, <1>4, <1>5, <1>6, <1>7, <1>8 DEF RepoHandler, AddThreadRepo

LEMMA RepoHandlerKeeps ==
  ASSUME IInv, NEW q \in Reqs, UNCHANGED <<boardVars, results>>, RepoHandler(q)
  PROVE  IInv'
<1>1. Fit(q) /\ StartsFit(q) /\ TypeOK /\ RepoRowType /\ DOMAIN req = Reqs /\ "at" \in DOMAIN req[q]
  BY DEF IInv, Ready, TypeOK, Fit, Has
<1>2. RepoRowType' /\ DOMAIN repoId \subseteq DOMAIN repoId' /\ By(q)' = By(q)
  BY <1>1, RepoRows DEF boardVars, By
<1>3. ASSUME Others(q), req[q].at \notin {"repo", "start", "dead"}, req'[q].at \notin {"new", "set"},
             Fit(q)', StartsFit(q)'
      PROVE  IInv'
  BY <1>2, <1>3, RepoStepKeeps
<1>4. ASSUME Return(q), req[q].at \notin {"repo", "start", "dead"} PROVE IInv'
  <2>1. Others(q) /\ req'[q] = [at |-> "done"]
    BY <1>1, <1>4, ReturnGives
  <2> QED
    BY <1>3, <1>4, <2>1, DoneIsReady
<1>5. ASSUME NEW call, NEW rec, Enter(q, call, rec), rec.at \in {"demote", "attach", "copy"}, Fit(q)'
      PROVE  IInv'
  <2>1. At(q, "new") /\ Others(q) /\ req'[q] = rec
    BY <1>1, <1>5, EnterGives
  <2>2. StartsFit(q)'
    BY <1>5, <2>1 DEF StartsFit, Fresh, About, At
  <2> QED
    BY <1>3, <1>5, <2>1, <2>2 DEF At
<1>6. CASE AddThreadRepo(q)
  <2>1. PICK t \in DOMAIN repoId, r \in Repos, primary \in BOOLEAN :
          Enter(q, "addRepo", [at |-> IF primary THEN "demote" ELSE "attach",
                               thread |-> t, repo |-> r, primary |-> primary])
    BY <1>6 DEF AddThreadRepo
  <2> DEFINE place == IF primary THEN "demote" ELSE "attach"
             rec == [at |-> place, thread |-> t, repo |-> r, primary |-> primary]
  <2>2. req'[q] = rec /\ place \in {"demote", "attach"}
    BY <1>1, <2>1, EnterGives
  <2> HIDE DEF place
  <2>3. Fit(q)'
    BY <1>2, <2>2 DEF Fit, Places, Attaching, Has, At
  <2>4. Enter(q, "addRepo", rec) /\ rec.at \in {"demote", "attach", "copy"}
    BY <2>1, <2>2 DEF place
  <2> HIDE DEF rec
  <2> QED
    BY <1>5, <2>3, <2>4
<1>7. ASSUME At(q, "demote") \/ At(q, "attach"), NEW place \in {"attach", "mirror"}, Goto(q, place)
      PROVE  IInv'
  <2>1. Others(q) /\ DOMAIN req'[q] = DOMAIN req[q] /\ req'[q].at = place
        /\ \A f \in DOMAIN req[q] \ {"at"} : req'[q][f] = req[q][f]
    BY <1>1, <1>7, GotoGives
  <2>2. Attaching(q)
    BY <1>1, <1>7 DEF Fit, At
  <2>3. Fit(q)'
    BY <1>1, <1>2, <1>7, <2>1, <2>2 DEF Fit, Places, Attaching, Has, At
  <2>4. StartsFit(q)'
    BY <1>7, <2>1 DEF StartsFit, Fresh, About, At
  <2> QED
    BY <1>3, <1>7, <2>1, <2>3, <2>4 DEF At
<1>8. CASE DemoteOthers(q)
  BY <1>7, <1>8 DEF DemoteOthers
<1>9. CASE AttachRepo(q)
  BY <1>4, <1>7, <1>9 DEF AttachRepo, At
<1>10. CASE MirrorPrimary(q)
  BY <1>4, <1>10 DEF MirrorPrimary, At
<1>11. CASE RemoveThreadRepo(q)
  BY <1>4, <1>11 DEF RemoveThreadRepo, Called, At
<1>12. CASE ForkThread(q)
  <2>1. PICK t \in DOMAIN repoId, fork \in Threads \ DOMAIN repoId :
          Enter(q, "fork", [at |-> "copy", thread |-> fork,
                            rows |-> {<<fork, row[2], row[3]>> : row \in RowsOf(t)}])
    BY <1>12 DEF ForkThread
  <2> DEFINE rows == {<<fork, row[2], row[3]>> : row \in RowsOf(t)}
  <2>2. rows \subseteq ThreadRepoRow
    BY <1>1 DEF RowsOf, RepoRowType, ThreadRepoRow
  <2>3. \A v, w \in rows : v[1] = w[1] /\ v[2] = w[2] => v = w
    BY <1>1 DEF RowsOf, RepoRowType, ThreadRepoRow
  <2> HIDE DEF rows
  <2>4. Enter(q, "fork", [at |-> "copy", thread |-> fork, rows |-> rows])
    BY <2>1 DEF rows
  <2>5. req'[q] = [at |-> "copy", thread |-> fork, rows |-> rows]
    BY <1>1, <2>4, EnterGives
  <2>6. Fit(q)'
    BY <2>2, <2>3, <2>5 DEF Fit, Places, Copying, Has, At
  <2> QED
    BY <1>5, <2>4, <2>6
<1>13. CASE CopyRepos(q)
  BY <1>4, <1>13 DEF CopyRepos, At
<1>14. CASE CreateThread(q)
  <2>1. PICK t \in Threads \ DOMAIN repoId, r \in ThreadRow :
          IF r = NoRepo THEN Called(q, "thread") /\ Return(q)
          ELSE Enter(q, "thread", [at |-> "copy", thread |-> t, rows |-> {<<t, r, TRUE>>}])
    BY <1>14 DEF CreateThread
  <2>2. CASE r = NoRepo
    BY <1>4, <2>1, <2>2 DEF Called, At
  <2>3. CASE r # NoRepo
    <3>1. <<t, r, TRUE>> \in ThreadRepoRow
      <4>1. t \in Threads /\ r \in Repos
        BY <2>3 DEF ThreadRow
      <4> QED
        BY <4>1 DEF ThreadRepoRow
    <3>2. Enter(q, "thread", [at |-> "copy", thread |-> t, rows |-> {<<t, r, TRUE>>}])
      BY <2>1, <2>3
    <3>3. req'[q] = [at |-> "copy", thread |-> t, rows |-> {<<t, r, TRUE>>}]
      BY <1>1, <3>2, EnterGives
    <3>4. Copying(q)'
      <4> DEFINE row == <<t, r, TRUE>>
      <4>1. row \in ThreadRepoRow /\ req'[q].rows = {row} /\ "rows" \in DOMAIN req'[q]
        BY <3>1, <3>3
      <4> HIDE DEF row
      <4> QED
        BY <4>1 DEF Copying, Has
    <3>5. Fit(q)'
      BY <3>3, <3>4 DEF Fit, Places, Has, At
    <3> QED
      BY <1>5, <3>2, <3>5
  <2> QED
    BY <2>2, <2>3
<1> QED
  BY <1>6, <1>8, <1>9, <1>10, <1>11, <1>12, <1>13, <1>14 DEF RepoHandler

-----------------------------------------------------------------------------
(* What is not a request. *)

\* A step of the fusion activity: no request is touched, no run becomes the winner.
LEMMA ActivityKeeps ==
  ASSUME IInv, UNCHANGED <<req, repoVars, wf, skipped, results>>, Grows, NoNewWinner, Runs' = Runs,
         TypeOK', MergedIsTrue', OutcomesStand'
  PROVE  IInv'
<1>1. \A p \in Reqs : Ready(p)'
  BY StaysReady DEF IInv, SameResults, By
<1>2. StartedOnce' /\ ChainBounded' /\ ResultsFit'
  BY DEF IInv, StartedOnce, ChainBounded, ResultsFit
<1>3. OneSelected'
  BY DEF IInv, OneSelected, NoNewWinner, Grows
<1>4. OneSetter'
  <2>1. \A p \in Reqs : At(p, "set") => req[p].run \in Runs
    BY DEF IInv, Ready, Fit, Recorded, At
  <2> QED
    BY <2>1 DEF IInv, OneSetter, At, Grows
<1>5. StrandedExplained'
  BY DEF IInv, StrandedExplained, Opened
<1> QED
  BY <1>1, <1>2, <1>3, <1>4, <1>5 DEF IInv

LEMMA MoveRunKeeps ==
  ASSUME IInv, NEW r \in Runs, NEW to, MoveRun(r, to), UNCHANGED results
  PROVE  IInv'
<1> DEFINE row == [run[r] EXCEPT !.state = to]
<1>1. TypeOK /\ UNCHANGED <<req, repoVars, task, wf, skipped, edited>>
  BY DEF IInv, MoveRun
<1>2. canTransition(run[r].state, to) /\ run' = [run EXCEPT ![r].state = to]
      /\ owed' \subseteq owed \cup {r}
  BY DEF MoveRun
<1>3. run[r] \in RunRow /\ run[r].state \in RunStates
  <2>1. run[r] \in RunRow
    BY <1>1, ElementOfSeq DEF TypeOK, Runs
  <2> QED
    BY <2>1 DEF RunRow
<1>4. to \in RunStates /\ run[r].state \in {"pending", "running", "held_for_human", "awaiting_plan_approval"}
      /\ (run[r].state = "held_for_human" => to = "merged")
  BY <1>2, <1>3 DEF canTransition, TRANSITIONS, RunStates
<1>5. row \in RunRow /\ row.state = to /\ row.task = run[r].task /\ row.parent = run[r].parent
      /\ row.selected = run[r].selected
  BY <1>3, <1>4 DEF RunRow
<1>6. run' = [run EXCEPT ![r] = row]
  BY <1>1, <1>2 DEF TypeOK
<1> HIDE DEF row
<1>7. run' \in Seq(RunRow) /\ Len(run') = Len(run) /\ Len(run) \in Nat
      /\ \A j \in 1..Len(run) : run'[j] = IF j = r THEN row ELSE run[j]
  BY <1>1, <1>5, <1>6, ExceptSeq DEF TypeOK, Runs
<1>8. Runs' = Runs /\ NoNewWinner
  BY <1>5, <1>7 DEF Runs, NoNewWinner
<1>9. Grows
  <2>1. Len(task) \in Nat /\ task' = task /\ repoId' = repoId
    BY <1>1 DEF TypeOK, repoVars
  <2> QED
    BY <1>5, <1>7, <2>1 DEF Grows, Runs
<1>10. TypeOK'
  BY <1>1, <1>2, <1>5, <1>7, <1>8 DEF TypeOK, RepoRowType, repoVars, Tasks, Runs
<1>11. \A j \in Runs : /\ run'[j].task = run[j].task
                       /\ run'[j].state = IF j = r THEN to ELSE run[j].state
  BY <1>5, <1>7 DEF Runs
<1>12. MergedIsTrue'
  <2>1. MergedIsTrue /\ UNCHANGED <<task, Tasks>>
    BY <1>1 DEF IInv, Tasks
  <2>2. \A t \in Tasks : RunsOf(t)' = RunsOf(t)
    BY <1>8, <1>11 DEF RunsOf
  <2>3. \A j \in Runs : run[j].state = "merged" => run'[j].state = "merged"
    BY <1>4, <1>11
  <2> QED
    BY <2>1, <2>2, <2>3 DEF MergedIsTrue, RunsOf
<1>13. OutcomesStand'
  <2> SUFFICES ASSUME NEW k \in DOMAIN results
      PROVE  \/ results[k].outcome \in {"timeout", "awaiting_plan_approval"} \/ results[k].run = 0
             \/ run'[results[k].run].state = results[k].outcome
             \/ results[k].outcome = "held_for_human" /\ run'[results[k].run].state = "merged"
    BY DEF OutcomesStand
  <2>1. /\ results[k].run \in {0} \cup Runs
        /\ results[k].run # 0 => results[k].outcome \in awaited
        /\ \/ results[k].outcome \in {"timeout", "awaiting_plan_approval"} \/ results[k].run = 0
           \/ run[results[k].run].state = results[k].outcome
           \/ results[k].outcome = "held_for_human" /\ run[results[k].run].state = "merged"
    BY DEF IInv, ResultsFit, OutcomesStand
  <2>2. CASE results[k].run = 0
    BY <2>2
  <2>3. CASE results[k].run # r /\ results[k].run # 0
    BY <1>11, <2>1, <2>3
  <2>4. CASE results[k].run = r /\ results[k].run # 0
    BY <1>4, <1>11, <2>1, <2>4 DEF awaited
  <2> QED
    BY <2>2, <2>3, <2>4
<1> QED
  BY <1>1, <1>8, <1>9, <1>10, <1>12, <1>13, ActivityKeeps

LEMMA TaskOfRunKeeps ==
  ASSUME IInv, NEW r \in Runs, TaskOfRun(r) \/ LoseTaskWrite(r), UNCHANGED results
  PROVE  IInv'
<1> DEFINE t == run[r].task
           state == IF run[r].state = "merged" THEN "merged" ELSE "blocked"
           row == [task[t] EXCEPT !.state = state]
<1>1. TypeOK /\ UNCHANGED <<req, repoVars, run, wf, skipped, edited>> /\ owed' \subseteq owed
      /\ t \in 1..Len(task)
  BY DEF IInv, TypeOK, TaskOfRun, LoseTaskWrite, Tasks
<1>2. task[t] \in TaskRow
  BY <1>1, ElementOfSeq DEF TypeOK
<1>3. row \in TaskRow /\ row.state = state
  BY <1>2 DEF TaskRow, TASK_STATES
<1>4. task' = task \/ task' = [task EXCEPT ![t] = row]
  BY <1>1 DEF TaskOfRun, LoseTaskWrite, TypeOK
<1> HIDE DEF row
<1>5. task' \in Seq(TaskRow) /\ Len(task') = Len(task) /\ Len(task) \in Nat
      /\ \A j \in 1..Len(task) : task'[j] = task[j] \/ (j = t /\ task'[j] = row)
  <2>1. CASE task' = task
    BY <1>1, <2>1 DEF TypeOK
  <2>2. CASE task' = [task EXCEPT ![t] = row]
    BY <1>1, <1>3, <2>2, ExceptSeq DEF TypeOK
  <2> QED
    BY <1>4, <2>1, <2>2
<1>6. Tasks' = Tasks /\ Runs' = Runs /\ NoNewWinner /\ Grows
  BY <1>1, <1>5 DEF Tasks, Runs, NoNewWinner, Grows, TypeOK, repoVars
<1>7. TypeOK'
  BY <1>1, <1>5, <1>6 DEF TypeOK, RepoRowType, repoVars, Tasks, Runs
<1>8. OutcomesStand'
  BY <1>1 DEF IInv, OutcomesStand
<1>9. MergedIsTrue'
  <2> SUFFICES ASSUME NEW j \in Tasks, task'[j].state = "merged"
      PROVE \E i \in RunsOf(j) : run[i].state = "merged"
    BY <1>1, <1>6 DEF MergedIsTrue, RunsOf
  <2>1. CASE task'[j] = task[j]
    BY <2>1 DEF IInv, MergedIsTrue
  <2>2. CASE j = t /\ task'[j] = row
    BY <1>3, <2>2 DEF RunsOf
  <2> QED
    BY <1>5, <2>1, <2>2 DEF Tasks
<1> QED
  BY <1>1, <1>6, <1>7, <1>8, <1>9, ActivityKeeps

LEMMA CrashKeeps ==
  ASSUME IInv, NEW q \in Reqs, Crash(q), UNCHANGED results
  PROVE  IInv'
<1>1. DOMAIN req = Reqs /\ "at" \in DOMAIN req[q]
      /\ UNCHANGED <<repoVars, task, run, wf, skipped, owed, edited, results>>
  BY DEF IInv, Ready, Fit, Has, Crash
<1>2. Others(q) /\ DOMAIN req'[q] = DOMAIN req[q] /\ req'[q].at = "dead"
      /\ \A f \in DOMAIN req[q] \ {"at"} : req'[q][f] = req[q][f]
  <2>1. Goto(q, "dead")
    BY DEF Crash, Die, Goto
  <2> QED
    BY <1>1, <2>1, GotoGives
<1>3. Fit(q)' /\ StartsFit(q)'
  BY <1>1, <1>2 DEF Fit, StartsFit, Places, Fresh, About, Has, At
<1>4. Kept(q, "run") /\ Kept(q, "next")
  BY <1>2 DEF Kept
<1> QED
  BY <1>1, <1>2, <1>3, <1>4, HoldKeeps DEF At


-----------------------------------------------------------------------------
(* The invariant. *)

LEMMA HandlerKeeps ==
  ASSUME IInv, NEW q \in Reqs, Handler(q), UNCHANGED results
  PROVE  IInv'
<1>1. CASE PostMessage(q) \/ PostAgentMessage(q) \/ Reassign(q) \/ FanOut(q) \/ Restore(q) \/ SelectRun(q)
  BY <1>1, Calls
<1>2. CASE HandleMentions(q) \/ ResolveMention(q) \/ StartForAgent(q) \/ MentionsDone(q)
  BY <1>2, MentionSteps
<1>3. CASE ReadRepo(q) \/ Announce(q) \/ AddTaskRelation(q)
  BY <1>3, SmallSteps
<1>4. CASE UpdateTask(q) \/ BulkCreateTasks(q)
  BY <1>4, EditKeeps
<1>5. CASE OpenTask(q)
  BY <1>5, OpenTaskKeeps
<1>6. CASE OpenRun(q)
  BY <1>6, OpenRunKeeps
<1>7. CASE SkipStart(q)
  BY <1>7, SkipStartKeeps
<1>8. CASE StartFusionRun(q)
  BY <1>8, StartFusionRunKeeps
<1>9. CASE AssignTask(q)
  BY <1>9, AssignTaskKeeps
<1>10. CASE FanOutNext(q)
  BY <1>10, FanOutSteps
<1>11. CASE ClearSiblings(q)
  BY <1>11, ClearSiblingsKeeps
<1>12. CASE SetWinner(q)
  BY <1>12, SetWinnerKeeps
<1>13. CASE Crash(q)
  BY <1>13, CrashKeeps
<1> QED
  BY <1>1, <1>2, <1>3, <1>4, <1>5, <1>6, <1>7, <1>8, <1>9, <1>10, <1>11, <1>12, <1>13
  DEF Handler, TaskDetailRoutes

LEMMA StepsKeep ==
  ASSUME IInv, [TeamNext]_teamVars
  PROVE  IInv'
<1>1. CASE UNCHANGED teamVars
  <2>1. UNCHANGED <<req, repoVars, task, run, wf, skipped, owed, edited, results>>
    BY <1>1 DEF teamVars, vars, board, boardVars
  <2>2. Grows /\ NoNewWinner /\ Runs' = Runs
    BY <2>1 DEF IInv, TypeOK, Grows, NoNewWinner, Runs, repoVars
  <2>3. TypeOK' /\ MergedIsTrue' /\ OutcomesStand'
    BY <2>1 DEF IInv, TypeOK, RepoRowType, repoVars, MergedIsTrue, OutcomesStand, Tasks, Runs, RunsOf
  <2> QED
    BY <2>1, <2>2, <2>3, ActivityKeeps
<1>2. ASSUME NEW q \in Reqs, TeamSteps(q) PROVE IInv'
  BY <1>2, RunTeamKeeps, NextRoleKeeps, AwaitRunTerminalKeeps DEF TeamSteps
<1>3. CASE Next /\ UNCHANGED results
  <2>1. ASSUME NEW q \in Reqs, Handler(q) PROVE IInv'
    BY <1>3, <2>1, HandlerKeeps
  <2>2. ASSUME NEW q \in Reqs, RepoHandler(q) /\ UNCHANGED boardVars PROVE IInv'
    BY <1>3, <2>2, RepoHandlerKeeps
  <2>3. ASSUME NEW r \in Runs, NEW to \in Outcomes, MoveRun(r, to) PROVE IInv'
    BY <1>3, <2>3, MoveRunKeeps
  <2>4. ASSUME NEW r \in Runs, TaskOfRun(r) \/ LoseTaskWrite(r) PROVE IInv'
    BY <1>3, <2>4, TaskOfRunKeeps
  <2> QED
    BY <1>3, <2>1, <2>2, <2>3, <2>4 DEF Next
<1> QED
  BY <1>1, <1>2, <1>3 DEF TeamNext

LEMMA InitEstablishes ==
  ASSUME TeamInit
  PROVE  TeamInv
<1>1. PICK plan \in Plans : req = Planned(plan)
  BY DEF TeamInit, Init
<1>2. DOMAIN req = Reqs /\ \A q \in Reqs : DOMAIN req[q] = {"at", "call"} /\ req[q].at = "new"
  BY <1>1 DEF Planned
<1>3. task = <<[state |-> "backlog", assignee |-> "none"]>> /\ run = <<>> /\ wf = {} /\ skipped = {}
      /\ owed = {} /\ edited = {} /\ results = <<>>
  BY DEF TeamInit, Init
<1>4. \A q \in Reqs : Ready(q) /\ TeamFit(q)
  <2> SUFFICES ASSUME NEW q \in Reqs PROVE Ready(q) /\ TeamFit(q)
    OBVIOUS
  <2>1. DOMAIN req[q] = {"at", "call"} /\ req[q].at = "new" /\ By(q) = {}
    BY <1>2, <1>3 DEF By
  <2>2. Fit(q)
    BY <2>1 DEF Fit, Places, Has, At
  <2>3. StartsFit(q) /\ WinnerFit(q)
    BY <2>1 DEF StartsFit, WinnerFit, Fresh, About, At
  <2>4. TeamFit(q)
    BY <2>1 DEF TeamFit, Has
  <2> QED
    BY <2>2, <2>3, <2>4 DEF Ready
<1>5. Runs = {} /\ DOMAIN results = {} /\ Len(run) = 0
  BY <1>3 DEF Runs
<1>6. Tasks = {1} /\ task \in Seq(TaskRow) /\ Len(task) = 1 /\ task[1].state = "backlog"
  <2> DEFINE row == [state |-> "backlog", assignee |-> "none"]
  <2>1. row \in TaskRow /\ row.state = "backlog"
    BY DEF TaskRow, TASK_STATES
  <2> HIDE DEF row
  <2>2. task = <<row>>
    BY <1>3 DEF row
  <2> QED
    BY <2>1, <2>2 DEF Tasks
<1>7. RepoRowType
  <2>1. PICK r \in Tokens \cup {NoRepo} :
          /\ repoId = [t \in {Board} |-> r]
          /\ attached = IF r = NoRepo THEN {} ELSE {<<Board, r, TRUE>>}
    BY DEF TeamInit, Init
  <2>2. Board \in Threads /\ (r = NoRepo \/ r \in Repos)
    BY <2>1, BoardAssumption
  <2>3. DOMAIN repoId \subseteq Threads /\ \A t \in DOMAIN repoId : repoId[t] \in ThreadRow
    BY <2>1, <2>2 DEF ThreadRow
  <2>4. CASE attached = {}
    BY <2>3, <2>4 DEF RepoRowType
  <2>5. CASE r # NoRepo /\ attached = {<<Board, r, TRUE>>}
    <3>1. <<Board, r, TRUE>> \in ThreadRepoRow
      BY <2>2, <2>5 DEF ThreadRepoRow
    <3> QED
      BY <2>3, <2>5, <3>1 DEF RepoRowType
  <2> QED
    BY <2>1, <2>4, <2>5
<1>8. TypeOK
  <2>1. run \in Seq(RunRow) /\ Len(run) <= MaxRuns /\ Len(task) <= MaxTasks
    BY <1>3, <1>5, <1>6, BoardAssumption
  <2> QED
    BY <1>3, <1>5, <1>6, <1>7, <2>1 DEF TypeOK
<1>9. StartedOnce /\ ChainBounded /\ StrandedExplained /\ ResultsFit /\ OutcomesStand
  BY <1>3, <1>5 DEF StartedOnce, ChainBounded, StrandedExplained, ResultsFit, OutcomesStand
<1>10. MergedIsTrue
  BY <1>6 DEF MergedIsTrue
<1>11. OneSetter /\ OneSelected
  BY <1>2, <1>5 DEF OneSetter, OneSelected, At
<1> QED
  BY <1>2, <1>4, <1>8, <1>9, <1>10, <1>11 DEF IInv, TeamInv


\* Nobody comes to hold a graph but a team.
LEMMA TeamPlacesKeep ==
  ASSUME TeamInv, NEW q \in Reqs, Handler(q) \/ RepoHandler(q) \/ TeamSteps(q)
  PROVE  TeamFit(q)' /\ \A p \in Reqs \ {q} : req'[p] = req[p]
<1> DEFINE goal == TeamFit(q)' /\ \A p \in Reqs \ {q} : req'[p] = req[p]
<1>1. DOMAIN req = Reqs /\ "at" \in DOMAIN req[q] /\ TeamFit(q) /\ Fit(q)
  BY DEF TeamInv, IInv, Ready, Fit, Has
<1>2. ASSUME Return(q) PROVE goal
  BY <1>1, <1>2, ReturnGives DEF Others, TeamFit, Has
<1>3. ASSUME NEW call, NEW rec, Enter(q, call, rec), "graph" \notin DOMAIN rec \/ rec.at = "role" PROVE goal
  BY <1>1, <1>3, EnterGives DEF Others, TeamFit, Has
<1>4. ASSUME NEW place, Goto(q, place),
             \/ ~Has(q, {"graph"})
             \/ place \in {"role", "poll", "dead"}
             \/ place \in {"run", "start"} /\ "next" \in DOMAIN req[q] /\ req[q].next = "poll"
      PROVE  goal
  BY <1>1, <1>4, GotoGives DEF Others, TeamFit, Has, About
<1>5. ASSUME NEW place, NEW rec, "at" \notin DOMAIN rec, "graph" \notin DOMAIN rec, GotoWith(q, place, rec),
             \/ ~Has(q, {"graph"})
             \/ place \in {"role", "poll"}
             \/ place \in {"open", "run", "repo", "start"} /\ req'[q].next = "poll"
      PROVE  goal
  BY <1>1, <1>5, GotoWithGives DEF Others, TeamFit, Has, About
<1>6. \/ ~Has(q, {"graph"})
      \/ req[q].at \in {"role", "poll", "done", "dead"}
      \/ About(q) /\ req[q].next = "poll"
  BY <1>1 DEF TeamFit
<1>7. About(q) => "next" \in DOMAIN req[q]
  BY <1>1 DEF Fit, Opening, Has, About, At
<1> SUFFICES goal
  OBVIOUS
<1> HIDE DEF goal
<1>8. CASE PostMessage(q) \/ PostAgentMessage(q) \/ Reassign(q) \/ FanOut(q) \/ Restore(q) \/ SelectRun(q)
  <2>1. CASE PostMessage(q)
    BY <1>3, <2>1 DEF PostMessage
  <2>2. CASE PostAgentMessage(q)
    BY <1>3, <2>2 DEF PostAgentMessage
  <2>3. CASE Reassign(q)
    BY <1>3, <2>3 DEF Reassign
  <2>4. CASE FanOut(q)
    BY <1>3, <2>4 DEF FanOut
  <2>5. CASE Restore(q)
    BY <1>3, <2>5 DEF Restore
  <2>6. CASE SelectRun(q)
    BY <1>3, <2>6 DEF SelectRun
  <2> QED
    BY <1>8, <2>1, <2>2, <2>3, <2>4, <2>5, <2>6
<1>9. CASE MentionsDone(q) \/ Announce(q) \/ AddTaskRelation(q) \/ UpdateTask(q) \/ BulkCreateTasks(q)
  BY <1>2, <1>9 DEF MentionsDone, Announce, AddTaskRelation, UpdateTask, BulkCreateTasks
<1>10. ASSUME req[q].at \in {"mentions", "each", "assign", "fan", "clear", "set", "demote", "attach"}
       PROVE  ~Has(q, {"graph"})
  BY <1>6, <1>10 DEF About, At
<1>11. CASE HandleMentions(q) \/ ResolveMention(q) \/ StartForAgent(q)
  <2>1. ~Has(q, {"graph"})
    BY <1>10, <1>11 DEF HandleMentions, ResolveMention, StartForAgent, At
  <2>2. CASE HandleMentions(q)
    BY <1>2, <1>5, <2>1, <2>2 DEF HandleMentions
  <2>3. CASE ResolveMention(q)
    BY <1>5, <2>1, <2>3 DEF ResolveMention
  <2>4. CASE StartForAgent(q)
    <3>1. \/ GotoWith(q, "each", [todo |-> Tail(req[q].todo)])
          \/ GotoWith(q, "open", [agent |-> Head(req[q].todo), base |-> 0, next |-> "each"])
      BY <2>4 DEF StartForAgent
    <3>2. CASE GotoWith(q, "each", [todo |-> Tail(req[q].todo)])
      BY <1>5, <2>1, <3>2
    <3>3. CASE GotoWith(q, "open", [agent |-> Head(req[q].todo), base |-> 0, next |-> "each"])
      BY <1>5, <2>1, <3>3
    <3> QED
      BY <3>1, <3>2, <3>3
  <2> QED
    BY <1>11, <2>2, <2>3, <2>4
<1>12. CASE FanOutNext(q)
  <2>1. ~Has(q, {"graph"})
    BY <1>10, <1>12 DEF FanOutNext, At
  <2> QED
    BY <1>4, <1>5, <1>12, <2>1 DEF FanOutNext
<1>13. CASE AssignTask(q) \/ ClearSiblings(q) \/ SetWinner(q)
  <2>1. ~Has(q, {"graph"})
    BY <1>10, <1>13 DEF AssignTask, ClearSiblings, SetWinner, At
  <2> QED
    BY <1>4, <1>5, <1>13, <2>1 DEF AssignTask, ClearSiblings, SetWinner
<1>14. CASE OpenTask(q) \/ OpenRun(q) \/ ReadRepo(q)
  <2>1. \/ ~Has(q, {"graph"})
        \/ "next" \in DOMAIN req[q] /\ req[q].next = "poll"
    BY <1>6, <1>7, <1>14 DEF OpenTask, OpenRun, ReadRepo, At
  <2>2. ASSUME NEW place \in {"run", "repo", "start"}, NEW rec, {"at", "graph", "next"} \cap DOMAIN rec = {},
               GotoWith(q, place, rec)
        PROVE  goal
    BY <1>1, <1>5, <2>1, <2>2, GotoWithGives
  <2>3. CASE OpenTask(q)
    BY <2>2, <2>3 DEF OpenTask
  <2>4. CASE OpenRun(q)
    BY <2>2, <2>4 DEF OpenRun
  <2>5. CASE ReadRepo(q)
    BY <2>2, <2>5 DEF ReadRepo
  <2> QED
    BY <1>14, <2>3, <2>4, <2>5
<1>15. CASE SkipStart(q) \/ StartFusionRun(q)
  <2>1. ~Has(q, {"graph"}) \/ req[q].next = "poll"
    BY <1>6, <1>15 DEF SkipStart, StartFusionRun, At
  <2> QED
    BY <1>4, <1>5, <1>15, <2>1 DEF SkipStart, StartFusionRun
<1>16. CASE Crash(q)
  <2>1. Goto(q, "dead")
    BY <1>16 DEF Crash, Die, Goto
  <2> QED
    BY <1>4, <2>1
<1>17. CASE RunTeam(q)
  BY <1>2, <1>3, <1>17 DEF RunTeam
<1>18. CASE NextRole(q)
  <2>1. ASSUME NEW outcome, Conclude(q, 0, outcome) PROVE goal
    BY <1>5, <2>1 DEF Conclude
  <2>2. ASSUME NEW a, GotoWith(q, "open", [agent |-> a, repo |-> repoId[Board], base |-> 0,
                                            next |-> "poll", polls |-> 0])
        PROVE  goal
    <3>1. req'[q].next = "poll"
      BY <1>1, <2>2, GotoWithGives
    <3> QED
      BY <1>5, <2>2, <3>1
  <2> QED
    BY <1>2, <1>18, <2>1, <2>2 DEF NextRole
<1>19. CASE AwaitRunTerminal(q)
  <2>1. ASSUME NEW outcome, Conclude(q, req[q].run, outcome) PROVE goal
    BY <1>5, <2>1 DEF Conclude
  <2> QED
    BY <1>5, <1>19, <2>1 DEF AwaitRunTerminal
<1>20. CASE RepoHandler(q)
  <2>1. CASE AddThreadRepo(q)
    BY <1>3, <2>1 DEF AddThreadRepo
  <2>2. CASE DemoteOthers(q) \/ AttachRepo(q)
    <3>1. ~Has(q, {"graph"})
      BY <1>10, <2>2 DEF DemoteOthers, AttachRepo, At
    <3> QED
      BY <1>2, <1>4, <2>2, <3>1 DEF DemoteOthers, AttachRepo
  <2>3. CASE MirrorPrimary(q) \/ RemoveThreadRepo(q) \/ CopyRepos(q)
    BY <1>2, <2>3 DEF MirrorPrimary, RemoveThreadRepo, CopyRepos
  <2>4. CASE ForkThread(q)
    BY <1>3, <2>4 DEF ForkThread
  <2>5. CASE CreateThread(q)
    BY <1>2, <1>3, <2>5 DEF CreateThread
  <2> QED
    BY <1>20, <2>1, <2>2, <2>3, <2>4, <2>5 DEF RepoHandler
<1> QED
  BY <1>8, <1>9, <1>11, <1>12, <1>13, <1>14, <1>15, <1>16, <1>17, <1>18, <1>19, <1>20
  DEF Handler, TeamSteps, TaskDetailRoutes, goal

\* A team is at one of its places, and has a role ahead of it when it is at work.
LEMMA TeamsAre ==
  ASSUME TeamInv, NEW q \in Teams
  PROVE  q \in Reqs /\ InTeam(q) /\ (~At(q, "role") => req[q].order # <<>>)
<1>1. q \in Reqs /\ Fit(q) /\ TeamFit(q) /\ Busy(q) /\ Has(q, {"graph"})
  BY DEF Teams, TeamInv, IInv, Ready, Has
<1>2. \/ At(q, "role") \/ At(q, "poll")
      \/ About(q) /\ req[q].next = "poll"
  BY <1>1 DEF TeamFit, Busy, At
<1>3. At(q, "poll") \/ (About(q) /\ req[q].next = "poll") => Working(q)
  BY <1>1 DEF Fit, At, About, Opening, InLoop
<1> QED
  BY <1>1, <1>2, <1>3 DEF Fit, Working, At

\* A role at work, or done, comes in the order after all it depends on.
LEMMA InOrderHolds ==
  ASSUME TeamInv
  PROVE  RolesInOrder
<1> SUFFICES ASSUME NEW q \in Teams, NEW id \in Resolved(q) \cup AtWork(q)
    PROVE  Prerequisites(req[q].graph, id) \subseteq Resolved(q)
  BY DEF RolesInOrder
<1> DEFINE graph == req[q].graph
           all == topoOrder(graph)
           rest == req[q].order
<1>1. q \in Reqs /\ InTeam(q) /\ (~At(q, "role") => rest # <<>>)
  BY TeamsAre
<1>2. /\ InOrder(graph, all)
      /\ \A i \in 1..Len(all) : <<q, all[i]>> \in DOMAIN results <=> i <= Len(all) - Len(rest)
      /\ rest \in Seq(STRING) /\ Len(rest) <= Len(all)
  BY <1>1 DEF InTeam
<1>3. all \in Seq(Ids(graph)) /\ ToSet(all) = Ids(graph)
      /\ \A i \in DOMAIN all : Prerequisites(graph, all[i]) \subseteq {all[j] : j \in 1..(i - 1)}
  BY <1>2 DEF InOrder
<1>4. PICK i \in 1..Len(all) : id = all[i] /\ i <= Len(all) - Len(rest) + 1
  <2>1. CASE id \in Resolved(q)
    <3>1. id \in Ids(graph) /\ <<q, id>> \in DOMAIN results
      BY <2>1 DEF Resolved
    <3> HIDE DEF graph, all, rest
    <3>2. PICK i \in 1..Len(all) : id = all[i]
      BY <1>3, <3>1 DEF ToSet
    <3>3. i <= Len(all) - Len(rest)
      BY <1>2, <3>1, <3>2
    <3> QED
      BY <1>2, <1>3, <3>2, <3>3
  <2>2. CASE id \in AtWork(q)
    <3>1. ~At(q, "role") /\ id = Head(rest)
      BY <2>2 DEF AtWork
    <3>2. LET k == Len(all) - Len(rest) + 1 IN k \in 1..Len(all) /\ Head(rest) = all[k]
      BY <1>1, <3>1, TeamPlace
    <3> HIDE DEF all, rest
    <3> QED
      BY <1>2, <1>3, <3>1, <3>2
  <2> QED
    BY <2>1, <2>2
<1> HIDE DEF graph, all, rest
<1>5. Len(all) \in Nat /\ Len(rest) \in Nat /\ DOMAIN all = 1..Len(all)
  BY <1>2, <1>3
<1> SUFFICES ASSUME NEW dep \in Prerequisites(graph, id) PROVE dep \in Resolved(q)
  BY DEF graph
<1>6. PICK j \in 1..(i - 1) : dep = all[j]
  BY <1>3, <1>4, <1>5
<1>7. j \in 1..Len(all) /\ j <= Len(all) - Len(rest)
  BY <1>4, <1>5, <1>6
<1>8. dep \in Ids(graph) /\ <<q, dep>> \in DOMAIN results
  BY <1>2, <1>3, <1>6, <1>7
<1> QED
  BY <1>8 DEF Resolved, graph

\* At most one run of a task is selected, counted.
LEMMA OneWinnerCounts ==
  ASSUME IInv
  PROVE  OneWinner
<1> SUFFICES ASSUME NEW t \in Tasks PROVE Cardinality({r \in RunsOf(t) : run[r].selected}) <= 1
  BY DEF OneWinner
<1> DEFINE winners == {r \in RunsOf(t) : run[r].selected}
<1>1. \A r, s \in winners : r = s
  BY DEF RunsOf, IInv, OneSelected
<1> HIDE DEF winners
<1>2. ASSUME winners = {} PROVE Cardinality(winners) <= 1
  BY <1>2, FS_EmptySet
<1>3. ASSUME NEW r \in winners PROVE Cardinality(winners) <= 1
  <2>1. winners = {r}
    BY <1>1
  <2>2. Cardinality({r}) = 1
    BY FS_Singleton
  <2> QED
    BY <2>1, <2>2
<1> QED
  BY <1>2, <1>3 DEF winners

\* The invariant, of every behaviour of the board and its teams.
THEOREM Invariance == TeamSpec => []TeamInv
<1>1. TeamInit => TeamInv
  BY InitEstablishes
<1>2. TeamInv /\ [TeamNext]_teamVars => TeamInv'
  <2> SUFFICES ASSUME TeamInv, [TeamNext]_teamVars PROVE TeamInv'
    OBVIOUS
  <2>1. IInv'
    BY StepsKeep DEF TeamInv
  <2>2. CASE UNCHANGED req
    BY <2>1, <2>2 DEF TeamInv, TeamFit, Has, About, At
  <2>3. ASSUME NEW q \in Reqs, Handler(q) \/ RepoHandler(q) \/ TeamSteps(q) PROVE TeamInv'
    <3>1. \A p \in Reqs \ {q} : TeamFit(p)'
      BY <2>3, TeamPlacesKeep DEF TeamInv, TeamFit, Has, About, At
    <3> QED
      BY <2>1, <2>3, <3>1, TeamPlacesKeep DEF TeamInv
  <2> QED
    BY <2>2, <2>3 DEF TeamNext, Next, MoveRun, TaskOfRun, LoseTaskWrite, teamVars, vars
<1> QED
  BY <1>1, <1>2, PTL DEF TeamSpec

\* However selections, new runs and transitions interleave, at most one run of a task
\* is selected: the lock of selectRun's transaction (tasks.ts) covers every run but
\* those inserted since, and those are not selected.
THEOREM OneWinnerHolds == TeamSpec => []OneWinner
  BY Invariance, OneWinnerCounts, PTL DEF TeamInv

\* Mentions and fan-outs start whom they name, once, no deeper than MAX_DEPTH, and all
\* rows and workflow inputs refer to rows that exist (mentions.ts, tasks.ts).
THEOREM MentionsBoundedHolds == TeamSpec => []MentionsBounded
  BY Invariance, PTL DEF TeamInv, IInv, MentionsBounded

\* A run row without a workflow is about to get one, found no repo or token, or its
\* request died in between: no other path strands a run.
THEOREM StrandedExplainedHolds == TeamSpec => []StrandedExplained
  BY Invariance, PTL DEF TeamInv, IInv

\* A task is shown as merged only if one of its runs merged, whatever runs, edits and
\* lost writes come in between (transitionRun, runs.ts).
THEOREM MergedIsTrueHolds == TeamSpec => []MergedIsTrue
  BY Invariance, PTL DEF TeamInv, IInv

\* A team of roles works in an order its graph allows, and what it hands from one role
\* to the next stays true (role-graph.ts).
THEOREM TeamSoundHolds == TeamSpec => []TeamSound
<1>1. TeamInv => TeamSound
  BY InOrderHolds DEF TeamSound, TeamInv, IInv
<1> QED
  BY <1>1, Invariance, PTL

=============================================================================
