---------------------------- MODULE WorkflowProofs ---------------------------
(***************************************************************************)
(* Workflow runs use the queue only through its operations, each begun in  *)
(* the state it requires, and leave no transaction behind when they end.   *)
(***************************************************************************)
EXTENDS Workflow, FiniteSetTheorems, TLAPS

-----------------------------------------------------------------------------

\* The nodes after claim_task have a task, and so has a request that has chosen one.
HaveTask(w) ==
    /\ flow[w].step \in {"lookup", "adopt", "open_run", "agent", "finalize", "finishing",
                         "close_run"} => flow[w].task \in Tasks
    /\ tx[w].step \in {"claim_commit", "flush", "commit"} => tx[w].task \in Tasks

\* A request is a record of these fields; what rows it holds does not matter here.
HasFields(w) ==
    tx[w] = [step |-> tx[w].step, task |-> tx[w].task,
             seen |-> tx[w].seen, want |-> tx[w].want]

\* What one run's steps preserve for that run.
Sound(w) ==
    /\ flow[w] \in Flow
    /\ flow[w].step = "claiming" <=> tx[w].step \in {"claim", "select", "claim_commit"}
    /\ flow[w].step = "finishing" <=> tx[w].step \in {"flush", "commit"}
    /\ HaveTask(w) /\ HasFields(w)

\* Inductive: the conjuncts on the nodes give the queue's guards what they need.
WInv ==
    /\ tx = [w \in Runs |-> tx[w]]
    /\ flow \in [Runs -> Flow]
    /\ \A w \in Runs : Sound(w)

\* Every node's step is a step of the queue, or none.
LEMMA StepsAreQueueSteps ==
  ASSUME WInv, [Next]_vars
  PROVE  Queue!Next \/ UNCHANGED queuevars
<1>1. ASSUME NEW w \in Runs, NEW t \in Tasks \cup {Nobody}, Start(w, t)
      PROVE  UNCHANGED queuevars
  BY <1>1 DEF Start
<1>2. ASSUME NEW w \in Runs, ClaimTask(w) PROVE Queue!Next \/ UNCHANGED queuevars
  <2>1. CASE Lookup(w) \/ Adopt(w) \/ OpenRun(w)
    BY <2>1 DEF Lookup, Adopt, OpenRun
  <2>2. CASE BeginClaim(w)
    BY <2>2 DEF BeginClaim, Queue!Next, Queue!ClaimStep
  <2>3. CASE Claiming(w)
    BY <2>3 DEF Claiming, Queue!Next, Queue!ClaimStep
  <2>4. CASE ClaimSucceeds(w)
    BY <2>4 DEF ClaimSucceeds, Queue!Next
  <2>5. CASE ClaimFindsNothing(w)
    BY <2>5 DEF ClaimFindsNothing, Queue!Next, Queue!ClaimStep
  <2> QED BY <1>2, <2>1, <2>2, <2>3, <2>4, <2>5 DEF ClaimTask
<1>3. ASSUME NEW w \in Runs, RunAgent(w) \/ TimesOut(w) PROVE UNCHANGED queuevars
  BY <1>3 DEF RunAgent, TimesOut
<1>4. ASSUME NEW w \in Runs, FinalizeTask(w) PROVE Queue!Next \/ UNCHANGED queuevars
  <2>1. CASE Finalize(w)
    <3> DEFINE t == flow[w].task
    <3>1. Queue!BeginComplete(w, t) \/ Queue!BeginFail(w, t, FALSE)
      BY <2>1 DEF Finalize
    <3>2. Queue!Begin(w, t)
      BY <3>1 DEF Queue!Begin
    <3>3. t \in Tasks
      BY <2>1 DEF Finalize, WInv, Sound, HaveTask
    <3> QED BY <3>2, <3>3 DEF Queue!Next
  <2>2. CASE FinalizeRefused(w) \/ CloseRun(w)
    BY <2>2 DEF FinalizeRefused, CloseRun
  <2>3. CASE Finishing(w)
    BY <2>3 DEF Finishing, Queue!Next
  <2> QED BY <1>4, <2>1, <2>2, <2>3 DEF FinalizeTask
<1>5. ASSUME NEW w \in Runs, FinishingFails(w) \/ Crash(w)
      PROVE  Queue!Next \/ UNCHANGED queuevars
  BY <1>5 DEF FinishingFails, Crash, Queue!Next
<1>6. ASSUME Elsewhere PROVE Queue!Next
  BY <1>6 DEF Elsewhere, Queue!Next
<1> QED BY <1>1, <1>2, <1>3, <1>4, <1>5, <1>6 DEF Next, Proceed, vars, queuevars

LEMMA InitSound == Init => WInv
<1> SUFFICES ASSUME Init PROVE WInv
  OBVIOUS
<1>1. NotStarted \in Flow
  BY DEF NotStarted, Flow, Steps
<1>2. \A w \in Runs : flow[w] = NotStarted /\ tx[w] = Queue!Idle
  BY DEF Init, Queue!Init
<1>3. \A w \in Runs : Sound(w)
  BY <1>1, <1>2 DEF Sound, HaveTask, HasFields, NotStarted, Queue!Idle
<1> QED BY <1>1, <1>2, <1>3 DEF WInv, Init, Queue!Init

\* A step of one run leaves the others alone.
LEMMA OneRunMoves ==
  ASSUME WInv, NEW w \in Runs, NEW f, NEW x,
         flow' = [flow EXCEPT ![w] = f], tx' = [tx EXCEPT ![w] = x],
         Sound(w)'
  PROVE  WInv'
<1>1. flow'[w] \in Flow
  BY DEF Sound
<1>2. \A v \in Runs \ {w} : flow'[v] = flow[v] /\ tx'[v] = tx[v]
  BY DEF WInv
<1>3. ASSUME NEW v \in Runs PROVE Sound(v)'
  <2>1. CASE v = w
    BY <2>1
  <2>2. CASE v # w
    BY <1>2, <2>2 DEF WInv, Sound, HaveTask, HasFields
  <2> QED BY <2>1, <2>2
<1>4. tx' = [v \in Runs |-> tx'[v]]
  BY DEF WInv
<1>5. flow' \in [Runs -> Flow]
  BY <1>1 DEF WInv
<1> QED BY <1>3, <1>4, <1>5 DEF WInv

\* The request of w moves to the given step, the others stay where they are.
Moves(w, step) ==
    /\ tx' = [tx EXCEPT ![w] = tx'[w]]
    /\ tx'[w].step = step
    /\ HasFields(w)'

\* Where each operation of the queue leaves the request of its caller.
LEMMA QueueMoves ==
  ASSUME WInv, NEW w \in Runs
  PROVE  /\ Queue!RequestClaim(w) => Moves(w, "claim")
         /\ Queue!AcquireClaimLock(w) => Moves(w, "select")
         /\ Queue!SelectCandidate(w) => Moves(w, "claim_commit") /\ tx'[w].task \in Tasks
         /\ Queue!ClaimNothing(w) \/ Queue!Commit(w) \/ Queue!Crash(w) => Moves(w, "idle")
         /\ \A t \in Tasks : \A want : Queue!Load(w, t, want) =>
                Moves(w, "flush") /\ tx'[w].task = t
         /\ Queue!Flush(w) => Moves(w, "commit") /\ tx'[w].task = tx[w].task
<1>0. HasFields(w) /\ tx = [v \in Runs |-> tx[v]]
  BY DEF WInv, Sound
<1>1. ASSUME NEW step, tx' = [tx EXCEPT ![w].step = step]
      PROVE  Moves(w, step) /\ tx'[w].task = tx[w].task
  <2>1. tx'[w] = [tx[w] EXCEPT !.step = step]
    BY <1>0, <1>1
  <2>2. tx'[w] = [step |-> step, task |-> tx[w].task, seen |-> tx[w].seen, want |-> tx[w].want]
    BY <1>0, <2>1 DEF HasFields
  <2> QED BY <1>0, <1>1, <2>2 DEF Moves, HasFields
<1>2. ASSUME NEW step, NEW task, NEW seen, NEW want,
             tx' = [tx EXCEPT ![w] = [step |-> step, task |-> task, seen |-> seen, want |-> want]]
      PROVE  Moves(w, step) /\ tx'[w].task = task
  BY <1>0, <1>2 DEF Moves, HasFields
<1>3. Queue!RequestClaim(w) => Moves(w, "claim")
  BY <1>1 DEF Queue!RequestClaim
<1>4. Queue!AcquireClaimLock(w) => Moves(w, "select")
  BY <1>1 DEF Queue!AcquireClaimLock
<1>5. ASSUME Queue!SelectCandidate(w)
      PROVE  Moves(w, "claim_commit") /\ tx'[w].task \in Tasks
  <2>1. PICK t \in Tasks :
          tx' = [tx EXCEPT ![w] = [step |-> "claim_commit", task |-> t, seen |-> rows[t],
                                   want |-> Queue!Claimed(rows[t], w)]]
    BY <1>5 DEF Queue!SelectCandidate
  <2> QED BY <1>2, <2>1
<1>6. Queue!ClaimNothing(w) \/ Queue!Commit(w) \/ Queue!Crash(w) => Moves(w, "idle")
  BY <1>2 DEF Queue!ClaimNothing, Queue!Commit, Queue!Crash, Queue!Idle
<1>7. ASSUME NEW t \in Tasks, NEW want, Queue!Load(w, t, want)
      PROVE  Moves(w, "flush") /\ tx'[w].task = t
  BY <1>2, <1>7 DEF Queue!Load
<1>8. Queue!Flush(w) => Moves(w, "commit") /\ tx'[w].task = tx[w].task
  BY <1>1 DEF Queue!Flush
<1> QED BY <1>3, <1>4, <1>5, <1>6, <1>7, <1>8

\* A node's step that leaves the queue alone moves between nodes without a transaction.
LEMMA NodeStep ==
  ASSUME WInv, NEW w \in Runs, UNCHANGED queuevars,
         flow' = [flow EXCEPT ![w] = flow'[w]], flow'[w] \in Flow,
         tx[w].step \notin {"claim", "select", "claim_commit", "flush", "commit"},
         flow'[w].step \notin {"claiming", "finishing"},
         flow'[w].step \in {"lookup", "adopt", "open_run", "agent", "finalize", "close_run"}
            => flow'[w].task \in Tasks
  PROVE  WInv'
<1>1. tx' = [tx EXCEPT ![w] = tx[w]] /\ tx'[w] = tx[w]
  BY DEF WInv, queuevars
<1>2. HasFields(w)'
  BY <1>1 DEF WInv, Sound, HasFields
<1>3. Sound(w)'
  BY <1>1, <1>2 DEF Sound, HaveTask
<1> QED BY <1>1, <1>3, OneRunMoves

\* A step that moves the request of w and its node together.
LEMMA RequestStep ==
  ASSUME WInv, NEW w \in Runs, NEW step, Moves(w, step),
         flow' = [flow EXCEPT ![w] = flow'[w]], flow'[w] \in Flow,
         flow'[w].step = "claiming" <=> step \in {"claim", "select", "claim_commit"},
         flow'[w].step = "finishing" <=> step \in {"flush", "commit"},
         HaveTask(w)'
  PROVE  WInv'
<1>1. Sound(w)'
  BY DEF Sound, Moves
<1> QED BY <1>1, OneRunMoves DEF Moves

LEMMA ClaimTaskSound ==
  ASSUME WInv, NEW w \in Runs, ClaimTask(w)
  PROVE  WInv'
<1>0. flow \in [Runs -> Flow] /\ flow[w] \in Flow /\ Sound(w)
  BY DEF WInv
<1>1. CASE Lookup(w)
  <2>1. flow[w].task \in Tasks
    BY <1>0, <1>1 DEF Lookup, Sound, HaveTask
  <2>2. \E step \in {"claim", "adopt", "finalize"} : flow' = [flow EXCEPT ![w].step = step]
    BY <1>1 DEF Lookup, Goto
  <2>3. /\ flow' = [flow EXCEPT ![w] = flow'[w]] /\ flow'[w] \in Flow
        /\ flow'[w].step \in {"claim", "adopt", "finalize"} /\ flow'[w].task = flow[w].task
    BY <1>0, <2>2 DEF Flow, Steps
  <2> QED BY <1>0, <1>1, <2>1, <2>3, NodeStep DEF Lookup, Sound
<1>2. CASE Adopt(w)
  <2>1. flow[w].task \in Tasks
    BY <1>0, <1>2 DEF Adopt, Sound, HaveTask
  <2>2. /\ flow' = [flow EXCEPT ![w] = flow'[w]] /\ flow'[w] \in Flow
        /\ flow'[w].step = "open_run" /\ flow'[w].task = flow[w].task
    BY <1>0, <1>2 DEF Adopt, Goto, Flow, Steps
  <2> QED BY <1>0, <1>2, <2>1, <2>2, NodeStep DEF Adopt, Sound
<1>3. CASE BeginClaim(w)
  <2>1. Moves(w, "claim")
    BY <1>3, QueueMoves DEF BeginClaim
  <2>2. /\ flow' = [flow EXCEPT ![w] = flow'[w]] /\ flow'[w] \in Flow
        /\ flow'[w].step = "claiming"
    BY <1>0, <1>3 DEF BeginClaim, Goto, Flow, Steps
  <2> QED BY <2>1, <2>2, RequestStep DEF Moves, HaveTask
<1>4. CASE Claiming(w)
  <2>1. \/ Moves(w, "select")
        \/ Moves(w, "claim_commit") /\ tx'[w].task \in Tasks
    BY <1>4, QueueMoves DEF Claiming
  <2>2. /\ flow' = [flow EXCEPT ![w] = flow'[w]] /\ flow'[w] \in Flow
        /\ flow'[w].step = "claiming"
    BY <1>0, <1>4 DEF Claiming
  <2> QED BY <2>1, <2>2, RequestStep DEF Moves, HaveTask
<1>5. CASE ClaimSucceeds(w)
  <2>1. Moves(w, "idle")
    BY <1>5, QueueMoves DEF ClaimSucceeds
  <2>2. tx[w].task \in Tasks
    BY <1>0, <1>5 DEF ClaimSucceeds, Queue!Commit, Sound, HaveTask
  <2>3. /\ flow' = [flow EXCEPT ![w] = flow'[w]] /\ flow'[w] \in Flow
        /\ flow'[w].step = "open_run" /\ flow'[w].task \in Tasks
    BY <1>0, <1>5, <2>2 DEF ClaimSucceeds, Flow, Steps
  <2> QED BY <2>1, <2>3, RequestStep DEF Moves, HaveTask
<1>6. CASE ClaimFindsNothing(w)
  <2>1. Moves(w, "idle")
    BY <1>6, QueueMoves DEF ClaimFindsNothing
  <2>2. /\ flow' = [flow EXCEPT ![w] = flow'[w]] /\ flow'[w] \in Flow
        /\ flow'[w].step \in {"finalize", "done"}
        /\ flow'[w].step = "finalize" => flow'[w].task \in Tasks
    BY <1>0, <1>6 DEF ClaimFindsNothing, Flow, Steps
  <2> QED BY <2>1, <2>2, RequestStep DEF Moves, HaveTask
<1>7. CASE OpenRun(w)
  <2>1. flow[w].task \in Tasks
    BY <1>0, <1>7 DEF OpenRun, Sound, HaveTask
  <2>2. /\ flow' = [flow EXCEPT ![w] = flow'[w]] /\ flow'[w] \in Flow
        /\ flow'[w].step = "agent" /\ flow'[w].task = flow[w].task
    BY <1>0, <1>7 DEF OpenRun, Goto, Flow, Steps
  <2> QED BY <1>0, <1>7, <2>1, <2>2, NodeStep DEF OpenRun, Sound
<1> QED BY <1>1, <1>2, <1>3, <1>4, <1>5, <1>6, <1>7 DEF ClaimTask

LEMMA FinalizeTaskSound ==
  ASSUME WInv, NEW w \in Runs, FinalizeTask(w)
  PROVE  WInv'
<1>0. flow \in [Runs -> Flow] /\ flow[w] \in Flow /\ Sound(w)
  BY DEF WInv
<1>1. CASE Finalize(w)
  <2> DEFINE t == flow[w].task
  <2>1. t \in Tasks
    BY <1>0, <1>1 DEF Finalize, Sound, HaveTask
  <2>2. \E want : Queue!Load(w, t, want)
    BY <1>1 DEF Finalize, Queue!BeginComplete, Queue!BeginFail
  <2>3. Moves(w, "flush") /\ tx'[w].task = t
    BY <2>1, <2>2, QueueMoves
  <2>4. Goto(w, "finishing")
    BY <1>1 DEF Finalize
  <2>5. /\ flow' = [flow EXCEPT ![w] = flow'[w]] /\ flow'[w] \in Flow
        /\ flow'[w].step = "finishing" /\ flow'[w].task = t
    BY <1>0, <2>4 DEF Goto, Flow, Steps
  <2> QED BY <2>1, <2>3, <2>5, RequestStep DEF Moves, HaveTask
<1>2. CASE FinalizeRefused(w)
  <2>1. flow[w].task \in Tasks
    BY <1>0, <1>2 DEF FinalizeRefused, Sound, HaveTask
  <2>2. /\ flow' = [flow EXCEPT ![w] = flow'[w]] /\ flow'[w] \in Flow
        /\ flow'[w].step = "close_run" /\ flow'[w].task = flow[w].task
    BY <1>0, <1>2 DEF FinalizeRefused, Goto, Flow, Steps
  <2> QED BY <1>0, <1>2, <2>1, <2>2, NodeStep DEF FinalizeRefused, Sound
<1>3. CASE Finishing(w)
  <2>1. flow[w].task \in Tasks
    BY <1>0, <1>3 DEF Finishing, Sound, HaveTask
  <2>2. CASE Queue!Flush(w) /\ UNCHANGED flow
    <3>1. Moves(w, "commit") /\ tx'[w].task = tx[w].task
      BY <2>2, QueueMoves
    <3>2. tx[w].task \in Tasks
      BY <1>0, <2>2 DEF Queue!Flush, Sound, HaveTask
    <3>3. flow' = [flow EXCEPT ![w] = flow'[w]] /\ flow'[w] = flow[w]
      BY <1>0, <2>2
    <3> QED BY <1>0, <1>3, <2>1, <3>1, <3>2, <3>3, RequestStep DEF Finishing, Moves, HaveTask
  <2>3. CASE Queue!Commit(w) /\ Goto(w, "close_run")
    <3>1. Moves(w, "idle")
      BY <2>3, QueueMoves
    <3>2. /\ flow' = [flow EXCEPT ![w] = flow'[w]] /\ flow'[w] \in Flow
          /\ flow'[w].step = "close_run" /\ flow'[w].task = flow[w].task
      BY <1>0, <2>3 DEF Goto, Flow, Steps
    <3> QED BY <2>1, <3>1, <3>2, RequestStep DEF Moves, HaveTask
  <2> QED BY <1>3, <2>2, <2>3 DEF Finishing
<1>4. CASE CloseRun(w)
  <2>1. /\ flow' = [flow EXCEPT ![w] = flow'[w]] /\ flow'[w] \in Flow
        /\ flow'[w].step = "done"
    BY <1>0, <1>4 DEF CloseRun, Terminal, Flow, Steps
  <2> QED BY <1>0, <1>4, <2>1, NodeStep DEF CloseRun, Sound
<1> QED BY <1>1, <1>2, <1>3, <1>4 DEF FinalizeTask

LEMMA NextSound == WInv /\ [Next]_vars => WInv'
<1> SUFFICES ASSUME WInv, [Next]_vars PROVE WInv'
  OBVIOUS
<1>0. ASSUME NEW w \in Runs
      PROVE  flow \in [Runs -> Flow] /\ flow[w] \in Flow /\ Sound(w)
  BY DEF WInv
<1>1. ASSUME NEW w \in Runs, NEW t \in Tasks \cup {Nobody}, Start(w, t) PROVE WInv'
  <2>1. /\ flow' = [flow EXCEPT ![w] = flow'[w]] /\ flow'[w] \in Flow
        /\ flow'[w].step \in {"claim", "lookup"}
        /\ flow'[w].step = "lookup" => flow'[w].task \in Tasks
    BY <1>0, <1>1 DEF Start, Flow, Steps
  <2> QED BY <1>0, <1>1, <2>1, NodeStep DEF Start, Sound
<1>2. ASSUME NEW w \in Runs, RunAgent(w) PROVE WInv'
  <2>1. flow[w].task \in Tasks
    BY <1>0, <1>2 DEF RunAgent, Sound, HaveTask
  <2>a. \A outcome : RouteAfterRun(outcome) = "finalize"
    BY DEF RouteAfterRun, RouteAfterCheck, StatusAfterRun
  <2>b. PICK outcome \in Outcomes :
          flow' = [flow EXCEPT ![w].step = "finalize", ![w].outcome = outcome]
    BY <1>2, <2>a DEF RunAgent
  <2>2. /\ flow' = [flow EXCEPT ![w] = flow'[w]] /\ flow'[w] \in Flow
        /\ flow'[w].step = "finalize" /\ flow'[w].task = flow[w].task
    BY <1>0, <2>b DEF Flow, Steps
  <2> QED BY <1>0, <1>2, <2>1, <2>2, NodeStep DEF RunAgent, Sound
<1>3. ASSUME NEW w \in Runs, FinishingFails(w) PROVE WInv'
  <2>1. flow[w].task \in Tasks /\ Moves(w, "idle")
    BY <1>0, <1>3, QueueMoves DEF FinishingFails, Sound, HaveTask
  <2>2. /\ flow' = [flow EXCEPT ![w] = flow'[w]] /\ flow'[w] \in Flow
        /\ flow'[w].step = "close_run" /\ flow'[w].task = flow[w].task
    BY <1>0, <1>3 DEF FinishingFails, Goto, Flow, Steps
  <2> QED BY <2>1, <2>2, RequestStep DEF Moves, HaveTask
<1>4. ASSUME NEW w \in Runs, Crash(w) PROVE WInv'
  <2>1. /\ flow' = [flow EXCEPT ![w] = flow'[w]] /\ flow'[w] \in Flow
        /\ flow'[w].step = "done"
    BY <1>0, <1>4 DEF Crash, Flow, Steps
  <2>2. CASE tx[w].step = "idle"
    BY <1>4, <2>1, <2>2, NodeStep DEF Crash
  <2>3. CASE tx[w].step # "idle"
    <3>1. Moves(w, "idle")
      BY <1>4, <2>3, QueueMoves DEF Crash
    <3> QED BY <2>1, <3>1, RequestStep DEF Moves, HaveTask
  <2> QED BY <2>2, <2>3
<1>5. ASSUME NEW w \in Runs, TimesOut(w) PROVE WInv'
  <2>1. /\ flow' = [flow EXCEPT ![w] = flow'[w]] /\ flow'[w] \in Flow
        /\ flow'[w].step = "done"
    BY <1>0, <1>5 DEF TimesOut, Flow, Steps
  <2> QED BY <1>0, <1>5, <2>1, NodeStep DEF TimesOut, Sound
<1>6. ASSUME UNCHANGED <<tx, flow>> PROVE WInv'
  BY <1>6 DEF WInv, Sound, HaveTask, HasFields
<1>7. Elsewhere \/ UNCHANGED vars => UNCHANGED <<tx, flow>>
  BY DEF Elsewhere, vars, Queue!Enqueue, Queue!LeaseExpires, Queue!Recover
<1> QED BY <1>1, <1>2, <1>3, <1>4, <1>5, <1>6, <1>7, ClaimTaskSound, FinalizeTaskSound
   DEF Next, Proceed

\* The inductive invariant holds in every reachable state.
THEOREM WorkflowInvariance == Spec => []WInv
  BY InitSound, NextSound, PTL DEF Spec

\* Whatever node a run leaves by, it leaves no transaction of its own behind.
THEOREM NoTransactionLeftBehind == Spec => []TransactionsMatchNodes
<1>1. WInv => TransactionsMatchNodes
  BY DEF WInv, Sound, TransactionsMatchNodes
<1> QED BY <1>1, WorkflowInvariance, PTL

\* Any number of concurrent workflow runs, crashing wherever they may, behave towards
\* the tasks table as callers of the queue do: TaskQueue's theorems hold of them.
THEOREM WorkflowUsesQueue == Spec => UsesQueue
<1>1. Init => Queue!Init
  BY DEF Init
<1>2. WInv /\ [Next]_vars => [Queue!Next]_(Queue!vars)
  BY StepsAreQueueSteps DEF Queue!vars, queuevars
<1> QED BY <1>1, <1>2, WorkflowInvariance, PTL DEF Spec, UsesQueue, Queue!Spec

-----------------------------------------------------------------------------
(* The connection pool.                                                    *)

LEMMA HeldIsFinite ==
  /\ IsFiniteSet(Held) /\ Cardinality(Held) \in Nat
  /\ IsFiniteSet(Held') /\ Cardinality(Held') \in Nat
<1>1. IsFiniteSet(Runs \X {"lookup", "queue"})
  <2>1. IsFiniteSet({"lookup"} \cup {"queue"})
    BY FS_Singleton, FS_AddElement
  <2>2. {"lookup"} \cup {"queue"} = {"lookup", "queue"}
    OBVIOUS
  <2> QED BY <2>1, <2>2, RunsAreFinite, FS_Product
<1>2. Held \subseteq Runs \X {"lookup", "queue"} /\ Held' \subseteq Runs \X {"lookup", "queue"}
  BY DEF Held, Connections
<1> QED BY <1>1, <1>2, FS_Subset, FS_CardinalityType

\* The connections kept are never more than the pool has.
PoolSuffices == Cardinality(Held) <= PoolSize

\* A run keeps no connection that it did not, or takes one where there is one.
TakesOneAtMost(w) ==
    \/ Connections(w)' \subseteq Connections(w)
    \/ ~Exhausted /\ \E c : Connections(w)' \subseteq Connections(w) \cup {c}

LEMMA PoolStep ==
  ASSUME WInv, PoolSuffices, NEW w \in Runs, flow' = [flow EXCEPT ![w] = flow'[w]],
         TakesOneAtMost(w)
  PROVE  PoolSuffices'
<1>0. \A v \in Runs \ {w} : Connections(v)' = Connections(v)
  BY DEF WInv, Connections, Looking
<1>1. CASE Connections(w)' \subseteq Connections(w)
  <2>1. Held' \subseteq Held
    BY <1>0, <1>1 DEF Held
  <2>2. Cardinality(Held') <= Cardinality(Held)
    BY <2>1, HeldIsFinite, FS_Subset
  <2> QED BY <2>2, HeldIsFinite, PoolIsNotEmpty DEF PoolSuffices
<1>2. CASE ~Exhausted /\ \E c : Connections(w)' \subseteq Connections(w) \cup {c}
  <2>1. PICK c : Connections(w)' \subseteq Connections(w) \cup {c}
    BY <1>2
  <2>2. Held' \subseteq Held \cup {<<w, c>>}
    BY <1>0, <2>1 DEF Held
  <2>3. /\ IsFiniteSet(Held \cup {<<w, c>>})
        /\ Cardinality(Held \cup {<<w, c>>}) \in Nat
        /\ Cardinality(Held \cup {<<w, c>>}) <= Cardinality(Held) + 1
    <3> DEFINE x == <<w, c>>
    <3> HIDE DEF x
    <3>1. /\ IsFiniteSet(Held \cup {x})
          /\ Cardinality(Held \cup {x}) = Cardinality(Held)
               \/ Cardinality(Held \cup {x}) = Cardinality(Held) + 1
      BY HeldIsFinite, FS_AddElement
    <3>2. /\ IsFiniteSet(Held \cup {x})
          /\ Cardinality(Held \cup {x}) \in Nat
          /\ Cardinality(Held \cup {x}) <= Cardinality(Held) + 1
      BY <3>1, HeldIsFinite
    <3> QED BY <3>2 DEF x
  <2>4. Cardinality(Held') <= Cardinality(Held \cup {<<w, c>>})
    BY <2>2, <2>3, FS_Subset
  <2>5. Cardinality(Held) < PoolSize
    BY <1>2, HeldIsFinite, PoolIsNotEmpty DEF Exhausted
  <2> QED BY <2>3, <2>4, <2>5, HeldIsFinite, PoolIsNotEmpty DEF PoolSuffices
<1> QED BY <1>1, <1>2 DEF TakesOneAtMost

\* A run that goes to a node that keeps no connection.
LEMMA ReleasingStep ==
  ASSUME WInv, PoolSuffices, NEW w \in Runs, flow' = [flow EXCEPT ![w] = flow'[w]],
         \/ flow'[w].step \notin {"claim", "adopt", "claiming", "finishing"}
         \/ flow'[w].step = "claim" /\ flow'[w].task = Nobody
  PROVE  PoolSuffices'
<1>1. Connections(w)' = {}
  BY DEF Connections, Looking
<1> QED BY <1>1, PoolStep DEF TakesOneAtMost

\* The nodes take a connection only when the pool has one left.
LEMMA PoolKeeps == WInv /\ PoolSuffices /\ [Next]_vars => PoolSuffices'
<1> SUFFICES ASSUME WInv, PoolSuffices, [Next]_vars PROVE PoolSuffices'
  OBVIOUS
<1>0. ASSUME NEW w \in Runs PROVE flow \in [Runs -> Flow] /\ flow[w] \in Flow
  BY DEF WInv
<1>1. ASSUME NEW w \in Runs, NEW t \in Tasks \cup {Nobody}, Start(w, t) PROVE PoolSuffices'
  <2>1. /\ flow' = [flow EXCEPT ![w] = flow'[w]] /\ flow'[w].task = t
        /\ flow'[w].step = IF t = Nobody THEN "claim" ELSE "lookup"
    BY <1>0, <1>1 DEF Start, Flow
  <2> QED BY <2>1, ReleasingStep
<1>2. ASSUME NEW w \in Runs, Lookup(w) PROVE PoolSuffices'
  <2>1. PICK step \in {"claim", "adopt", "finalize"} : flow' = [flow EXCEPT ![w].step = step]
    BY <1>2 DEF Lookup, Goto
  <2>2. /\ flow' = [flow EXCEPT ![w] = flow'[w]]
        /\ flow'[w].step \in {"claim", "adopt", "finalize"}
    BY <1>0, <2>1 DEF Flow
  <2>3. Connections(w)' \subseteq Connections(w) \cup {"lookup"}
    BY <2>2 DEF Connections
  <2> QED BY <1>2, <2>2, <2>3, PoolStep DEF Lookup, TakesOneAtMost
<1>3. ASSUME NEW w \in Runs, BeginClaim(w) PROVE PoolSuffices'
  <2>1. /\ flow' = [flow EXCEPT ![w] = flow'[w]]
        /\ flow'[w].step = "claiming" /\ flow'[w].task = flow[w].task
    BY <1>0, <1>3 DEF BeginClaim, Goto, Flow
  <2>2. Connections(w)' \subseteq Connections(w) \cup {"queue"}
    BY <1>3, <2>1 DEF Connections, Looking, BeginClaim
  <2> QED BY <1>3, <2>1, <2>2, PoolStep DEF BeginClaim, TakesOneAtMost
<1>4. ASSUME NEW w \in Runs, Finalize(w) PROVE PoolSuffices'
  <2>1. flow' = [flow EXCEPT ![w] = flow'[w]] /\ flow'[w].step = "finishing"
    BY <1>0, <1>4 DEF Finalize, Goto, Flow
  <2>2. Connections(w)' \subseteq Connections(w) \cup {"queue"}
    BY <2>1 DEF Connections, Looking
  <2> QED BY <1>4, <2>1, <2>2, PoolStep DEF Finalize, TakesOneAtMost
<1>5. ASSUME UNCHANGED flow PROVE PoolSuffices'
  BY <1>5 DEF PoolSuffices, Held, Connections, Looking
<1>6. ASSUME NEW w \in Runs, NEW step \in {"open_run", "agent", "finalize", "close_run"},
             Goto(w, step)
      PROVE  PoolSuffices'
  <2>1. flow' = [flow EXCEPT ![w] = flow'[w]] /\ flow'[w].step = step
    BY <1>0, <1>6 DEF Goto, Flow
  <2> QED BY <2>1, ReleasingStep
<1>7. ASSUME NEW w \in Runs,
             ClaimSucceeds(w) \/ ClaimFindsNothing(w) \/ TimesOut(w) \/ CloseRun(w) \/ Crash(w)
      PROVE  PoolSuffices'
  <2>1. /\ flow' = [flow EXCEPT ![w] = flow'[w]]
        /\ flow'[w].step \in {"open_run", "finalize", "done"}
    BY <1>0, <1>7 DEF ClaimSucceeds, ClaimFindsNothing, TimesOut, CloseRun, Crash, Flow
  <2> QED BY <2>1, ReleasingStep
<1>8. ASSUME NEW w \in Runs, RunAgent(w) PROVE PoolSuffices'
  <2>1. PICK outcome \in Outcomes :
          flow' = [flow EXCEPT ![w].step = "finalize", ![w].outcome = outcome]
    BY <1>8 DEF RunAgent, RouteAfterRun, RouteAfterCheck, StatusAfterRun
  <2>2. flow' = [flow EXCEPT ![w] = flow'[w]] /\ flow'[w].step = "finalize"
    BY <1>0, <2>1 DEF Flow
  <2> QED BY <2>2, ReleasingStep
<1>9. ASSUME NEW w \in Runs, ClaimTask(w) PROVE PoolSuffices'
  BY <1>2, <1>3, <1>5, <1>6, <1>7, <1>9 DEF ClaimTask, Adopt, Claiming, OpenRun
<1>10. ASSUME NEW w \in Runs, FinalizeTask(w) \/ FinishingFails(w) PROVE PoolSuffices'
  BY <1>4, <1>5, <1>6, <1>7, <1>10 DEF FinalizeTask, FinalizeRefused, Finishing, FinishingFails
<1>11. Elsewhere \/ UNCHANGED vars => UNCHANGED flow
  BY DEF Elsewhere, vars
<1> QED BY <1>1, <1>5, <1>7, <1>8, <1>9, <1>10, <1>11 DEF Next, Proceed

LEMMA PoolInvariance == Spec => []PoolSuffices
<1>1. Init => PoolSuffices
  <2> SUFFICES ASSUME Init PROVE PoolSuffices
    OBVIOUS
  <2>1. \A w \in Runs : Connections(w) = {}
    BY DEF Init, NotStarted, Connections, Looking
  <2>2. Held = {}
    BY <2>1 DEF Held
  <2> QED BY <2>2, FS_EmptySet, PoolIsNotEmpty DEF PoolSuffices
<1> QED BY <1>1, PoolKeeps, WorkflowInvariance, PTL DEF Spec

\* A run that waits keeps at most the connection of its lookup, so a pool exhausted by
\* such runs alone has one of them for each connection.
LEMMA WaitingRunsKeepOne == PoolSuffices => DeadlockTakesManyRuns
<1> SUFFICES ASSUME PoolSuffices, Deadlocked
             PROVE  Cardinality({w \in Runs : Connections(w) # {}}) = PoolSize
  BY DEF DeadlockTakesManyRuns
<1> DEFINE H == {w \in Runs : Connections(w) # {}}
           f == [w \in H |-> <<w, "lookup">>]
<1>1. ASSUME NEW w \in H PROVE Connections(w) = {"lookup"}
  BY <1>1 DEF Deadlocked, Connections
<1>2. Held = {<<w, "lookup">> : w \in H}
  <2>1. ASSUME NEW u \in Held PROVE u \in {<<w, "lookup">> : w \in H}
    <3>1. PICK w \in Runs : u \in {w} \X Connections(w)
      BY DEF Held
    <3>2. w \in H
      BY <3>1
    <3>3. u = <<w, "lookup">>
      BY <1>1, <3>1, <3>2
    <3> QED BY <3>2, <3>3
  <2>2. ASSUME NEW w \in H PROVE <<w, "lookup">> \in Held
    <3>1. <<w, "lookup">> \in {w} \X Connections(w)
      BY <1>1
    <3> QED BY <3>1 DEF Held
  <2> QED BY <2>1, <2>2
<1>3. f \in Bijection(H, Held)
  BY <1>2 DEF Bijection, Injection, Surjection, IsInjective
<1>4. IsFiniteSet(H)
  BY RunsAreFinite, FS_Subset
<1>5. Cardinality(H) = Cardinality(Held)
  <2>1. ExistsBijection(H, Held)
    BY <1>3 DEF ExistsBijection
  <2> HIDE DEF H, f
  <2> QED BY <1>4, <2>1, FS_Bijection
<1>6. Cardinality(Held) = PoolSize
  BY HeldIsFinite, PoolIsNotEmpty DEF Deadlocked, Exhausted, PoolSuffices
<1> QED BY <1>5, <1>6

\* However many runs there are, a pool is only deadlocked by as many as it has
\* connections.
THEOREM DeadlockNeedsAFullPool == Spec => []DeadlockTakesManyRuns
  BY WaitingRunsKeepOne, PoolInvariance, PTL

\* In particular, not in a process that runs fewer workflows than that.
THEOREM NoDeadlockOfFewRuns ==
  ASSUME Cardinality(Runs) < PoolSize
  PROVE  Spec => []~Deadlocked
<1>1. PoolSuffices => ~Deadlocked
  <2> DEFINE H == {w \in Runs : Connections(w) # {}}
  <2>1. /\ Cardinality(H) <= Cardinality(Runs)
        /\ Cardinality(H) \in Nat /\ Cardinality(Runs) \in Nat
    BY RunsAreFinite, FS_Subset, FS_CardinalityType
  <2> QED BY <2>1, WaitingRunsKeepOne, PoolIsNotEmpty DEF DeadlockTakesManyRuns
<1> QED BY <1>1, PoolInvariance, PTL

-----------------------------------------------------------------------------
(* The run rows.                                                           *)

\* A context names a run, and its rows keep their shape.
RInv ==
    /\ runrows \in [Runs -> RunRow]
    /\ run_id \in [Contexts -> Runs \cup {Nobody}]

LEMMA RowsInvariance == Spec => []RInv
<1>1. Init => RInv
  BY DEF Init, RInv, NoRunRow, RunRow
<1>2. RInv /\ WInv /\ [Next]_vars => RInv'
  <2> SUFFICES ASSUME RInv, WInv, [Next]_vars PROVE RInv'
    OBVIOUS
  <2>1. ASSUME NEW w \in Runs, OpenRun(w) PROVE RInv'
    <3>1. flow[w].task \in Tasks
      BY <2>1 DEF WInv, Sound, HaveTask, OpenRun
    <3> QED BY <2>1, <3>1 DEF OpenRun, RInv, RunRow
  <2>2. ASSUME NEW w \in Runs, CloseRun(w) PROVE RInv'
    <3>1. Terminal(w) \in {"success", "failed"}
      BY DEF Terminal
    <3> QED BY <2>2, <3>1 DEF CloseRun, RInv, RunRow
  <2>3. ASSUME UNCHANGED <<runrows, run_id>> PROVE RInv'
    BY <2>3 DEF RInv
  <2>4. ASSUME NEW w \in Runs, NEW t \in Tasks \cup {Nobody},
               \/ Start(w, t) \/ RunAgent(w) \/ TimesOut(w) \/ FinishingFails(w) \/ Crash(w)
               \/ (ClaimTask(w) /\ ~OpenRun(w)) \/ (FinalizeTask(w) /\ ~CloseRun(w))
        PROVE  UNCHANGED <<runrows, run_id>>
    BY <2>4 DEF Start, ClaimTask, Lookup, Adopt, BeginClaim, Claiming, ClaimSucceeds,
                ClaimFindsNothing, RunAgent, TimesOut, FinalizeTask, Finalize,
                FinalizeRefused, Finishing, FinishingFails, Crash
  <2>5. Elsewhere \/ UNCHANGED vars => UNCHANGED <<runrows, run_id>>
    BY DEF Elsewhere, vars
  <2> QED BY <2>1, <2>2, <2>3, <2>4, <2>5 DEF Next, Proceed
<1> QED BY <1>1, <1>2, WorkflowInvariance, PTL DEF Spec

\* The queue under the workflow is TaskQueue with the runs for agents, so what is
\* proved there holds here.
OfTheQueue == INSTANCE TaskQueueProofs WITH Agents <- Runs

\* The two instances have the same definitions; SMT sees it an action at a time.
LEMMA SameQueue ==
    /\ Queue!Init => OfTheQueue!Init
    /\ [Queue!Next]_(Queue!vars) => [OfTheQueue!Next]_(OfTheQueue!vars)
    /\ OfTheQueue!TypeOK => Queue!TypeOK
<1>1. Queue!Init => OfTheQueue!Init
  BY DEF Queue!Init, OfTheQueue!Init, Queue!Absent, OfTheQueue!Absent, Queue!Idle,
         OfTheQueue!Idle
<1>2. OfTheQueue!TypeOK => Queue!TypeOK
  BY DEF Queue!TypeOK, OfTheQueue!TypeOK, Queue!Row, OfTheQueue!Row, Queue!Request,
         OfTheQueue!Request, Queue!States, OfTheQueue!States, Queue!Leases,
         OfTheQueue!Leases, Queue!Steps, OfTheQueue!Steps
<1>3. ASSUME NEW t \in Tasks
      PROVE  Queue!Enqueue(t) \/ Queue!LeaseExpires(t)
                => OfTheQueue!Enqueue(t) \/ OfTheQueue!LeaseExpires(t)
  BY DEF Queue!Enqueue, OfTheQueue!Enqueue, Queue!LeaseExpires,
         OfTheQueue!LeaseExpires, Queue!NewRow, OfTheQueue!NewRow, Queue!Absent,
         OfTheQueue!Absent
<1>4. ASSUME NEW a \in Runs PROVE Queue!ClaimStep(a) => OfTheQueue!ClaimStep(a)
  <2>1. Queue!RequestClaim(a) => OfTheQueue!RequestClaim(a)
    BY DEF Queue!RequestClaim, OfTheQueue!RequestClaim
  <2>2. Queue!AcquireClaimLock(a) => OfTheQueue!AcquireClaimLock(a)
    BY DEF Queue!AcquireClaimLock, OfTheQueue!AcquireClaimLock, Queue!HoldsClaimLock,
           OfTheQueue!HoldsClaimLock
  <2>3. Queue!SelectCandidate(a) => OfTheQueue!SelectCandidate(a)
    BY DEF Queue!SelectCandidate, OfTheQueue!SelectCandidate, Queue!Reclaimable,
           OfTheQueue!Reclaimable, Queue!Locked, OfTheQueue!Locked, Queue!Locks,
           OfTheQueue!Locks, Queue!Claimed, OfTheQueue!Claimed
  <2>4. Queue!ClaimNothing(a) => OfTheQueue!ClaimNothing(a)
    BY DEF Queue!ClaimNothing, OfTheQueue!ClaimNothing, Queue!Reclaimable,
           OfTheQueue!Reclaimable, Queue!Locked, OfTheQueue!Locked, Queue!Locks,
           OfTheQueue!Locks, Queue!Idle, OfTheQueue!Idle, Queue!Absent,
           OfTheQueue!Absent
  <2> QED BY <2>1, <2>2, <2>3, <2>4 DEF Queue!ClaimStep, OfTheQueue!ClaimStep
<1>5. ASSUME NEW a \in Runs
      PROVE  /\ Queue!Flush(a) => OfTheQueue!Flush(a)
             /\ Queue!Commit(a) => OfTheQueue!Commit(a)
             /\ Queue!Crash(a) => OfTheQueue!Crash(a)
  BY DEF Queue!Flush, OfTheQueue!Flush, Queue!Locked, OfTheQueue!Locked, Queue!Locks,
         OfTheQueue!Locks, Queue!Commit, OfTheQueue!Commit, Queue!Overwrite,
         OfTheQueue!Overwrite, Queue!Column, OfTheQueue!Column, Queue!Crash,
         OfTheQueue!Crash, Queue!Idle, OfTheQueue!Idle, Queue!Absent,
         OfTheQueue!Absent
<1>6. ASSUME NEW a \in Runs, NEW t \in Tasks PROVE Queue!Begin(a, t) => OfTheQueue!Begin(a, t)
  <2>1. Queue!BeginComplete(a, t) => OfTheQueue!BeginComplete(a, t)
    BY DEF Queue!BeginComplete, OfTheQueue!BeginComplete, Queue!Load, OfTheQueue!Load,
           Queue!Completed, OfTheQueue!Completed
  <2>2. ASSUME NEW retry \in BOOLEAN
        PROVE  Queue!BeginFail(a, t, retry) => OfTheQueue!BeginFail(a, t, retry)
    BY DEF Queue!BeginFail, OfTheQueue!BeginFail, Queue!Load, OfTheQueue!Load,
           Queue!MayRetry, OfTheQueue!MayRetry, Queue!Requeued, OfTheQueue!Requeued,
           Queue!Failed, OfTheQueue!Failed
  <2> QED BY <2>1, <2>2 DEF Queue!Begin, OfTheQueue!Begin
<1>7. Queue!Recover => OfTheQueue!Recover
  BY DEF Queue!Recover, OfTheQueue!Recover, Queue!Stale, OfTheQueue!Stale,
         Queue!Locked, OfTheQueue!Locked, Queue!Locks, OfTheQueue!Locks,
         Queue!Recovered, OfTheQueue!Recovered
<1>8. Queue!Next => OfTheQueue!Next
  BY <1>3, <1>4, <1>5, <1>6, <1>7 DEF Queue!Next, OfTheQueue!Next
<1> QED BY <1>1, <1>2, <1>8 DEF Queue!vars, OfTheQueue!vars

\* Type correctness of tables, requests, runs and contexts.
THEOREM WorkflowTypeCorrect == Spec => []TypeOK
<1>1. OfTheQueue!Spec => []OfTheQueue!TypeOK
  BY OfTheQueue!TypeCorrect, TasksAreOrdered, BudgetsAreCounts, NobodyIsNull
<1>2. Spec => []Queue!TypeOK
  BY <1>1, SameQueue, WorkflowUsesQueue, PTL DEF UsesQueue, Queue!Spec, OfTheQueue!Spec
<1>3. Queue!TypeOK /\ WInv /\ RInv => TypeOK
  BY DEF TypeOK, WInv, RInv
<1> QED BY <1>2, <1>3, WorkflowInvariance, RowsInvariance, PTL

-----------------------------------------------------------------------------
(* What the queue's theorems say of the runs.                              *)

LEMMA QueueInvariance == Spec => []OfTheQueue!IInv
<1>1. OfTheQueue!Spec => []OfTheQueue!IInv
  BY OfTheQueue!Invariance, TasksAreOrdered, BudgetsAreCounts, NobodyIsNull
<1> QED BY <1>1, SameQueue, WorkflowUsesQueue, PTL DEF UsesQueue, Queue!Spec, OfTheQueue!Spec

LEMMA StepsOfTheQueue == WInv /\ [Next]_vars => [OfTheQueue!Next]_(OfTheQueue!vars)
  BY StepsAreQueueSteps, SameQueue DEF Queue!vars, queuevars

\* A run takes a decision on its task in finalize, and nowhere else.
LEMMA DecisionsBegin ==
  ASSUME WInv, OfTheQueue!IInv, [Next]_vars, NEW w \in Runs, tx'[w].step \in {"flush", "commit"}
  PROVE  \/ /\ tx[w].step \in {"flush", "commit"} /\ tx'[w].task = tx[w].task
            /\ tx'[w].seen = tx[w].seen /\ tx'[w].want = tx[w].want
         \/ Finalize(w)
<1> DEFINE Goal == \/ /\ tx[w].step \in {"flush", "commit"} /\ tx'[w].task = tx[w].task
                      /\ tx'[w].seen = tx[w].seen /\ tx'[w].want = tx[w].want
                   \/ Finalize(w)
<1>0. tx \in [Runs -> OfTheQueue!Request] /\ tx[w] \in OfTheQueue!Request
  BY DEF OfTheQueue!IInv, OfTheQueue!TypeOK
<1>1. ASSUME tx'[w] = tx[w] PROVE Goal
  BY <1>1
<1>2. ASSUME NEW v \in Runs, Finalize(v) PROVE Goal
  <2>1. CASE v = w
    BY <1>2, <2>1
  <2>2. CASE v # w
    <3>1. \E want : Queue!Load(v, flow[v].task, want)
      BY <1>2 DEF Finalize, Queue!BeginComplete, Queue!BeginFail
    <3> QED BY <1>0, <1>1, <2>2, <3>1 DEF Queue!Load
  <2> QED BY <2>1, <2>2
<1>3. ASSUME NEW v \in Runs, Finishing(v) PROVE Goal
  <2>1. CASE Queue!Flush(v) /\ v = w
    BY <1>0, <2>1 DEF Queue!Flush, OfTheQueue!Request
  <2>2. CASE Queue!Flush(v) /\ v # w
    BY <1>0, <1>1, <2>2 DEF Queue!Flush
  <2>3. CASE Queue!Commit(v)
    BY <1>0, <1>1, <2>3 DEF Queue!Commit, Queue!Idle
  <2> QED BY <1>3, <2>1, <2>2, <2>3 DEF Finishing
<1>4. ASSUME NEW v \in Runs,
             \/ Queue!RequestClaim(v) \/ Queue!AcquireClaimLock(v) \/ Queue!SelectCandidate(v)
             \/ Queue!ClaimNothing(v) \/ Queue!Commit(v) \/ Queue!Crash(v)
      PROVE  Goal
  <2>1. PICK step \in {"claim", "select", "claim_commit", "idle"} : Moves(v, step)
    BY <1>4, QueueMoves
  <2>2. v # w /\ tx'[w] = tx[w]
    BY <1>0, <2>1 DEF Moves
  <2> QED BY <1>1, <2>2
<1>5. ASSUME UNCHANGED tx PROVE Goal
  BY <1>1, <1>5
<1>6. ASSUME NEW v \in Runs, ClaimTask(v) PROVE Goal
  BY <1>4, <1>5, <1>6
     DEF ClaimTask, Lookup, Adopt, BeginClaim, Claiming, ClaimSucceeds, ClaimFindsNothing,
         OpenRun, queuevars
<1>7. ASSUME NEW v \in Runs, RunAgent(v) \/ TimesOut(v) \/ FinishingFails(v) \/ Crash(v)
      PROVE  Goal
  BY <1>4, <1>5, <1>7 DEF RunAgent, TimesOut, FinishingFails, Crash, queuevars
<1>8. ASSUME NEW v \in Runs, FinalizeTask(v) PROVE Goal
  BY <1>2, <1>3, <1>5, <1>8 DEF FinalizeTask, FinalizeRefused, CloseRun, queuevars
<1>9. ASSUME NEW v \in Runs, NEW t \in Tasks \cup {Nobody}, Start(v, t) PROVE UNCHANGED tx
  BY <1>9 DEF Start, queuevars
<1>10. Elsewhere \/ UNCHANGED vars => UNCHANGED tx
  BY DEF Elsewhere, vars, Queue!Enqueue, Queue!LeaseExpires, Queue!Recover
<1> QED BY <1>5, <1>6, <1>7, <1>8, <1>9, <1>10 DEF Next, Proceed

\* finalize() decides on the row it reads then: completed with its own result, or failed
\* if its agent reported failure.  It never asks for a retry.
LEMMA FinalizeDecides ==
  ASSUME WInv, OfTheQueue!IInv, NEW w \in Runs, Finalize(w)
  PROVE  LET t == flow[w].task IN
         /\ t \in Tasks /\ tx'[w].task = t /\ tx'[w].seen = rows[t]
         /\ rows[t].state \in {"running", "pending"} /\ UNCHANGED rows
         /\ tx'[w].want = IF flow[w].outcome = "failed"
                          THEN OfTheQueue!Failed(rows[t]) ELSE OfTheQueue!Completed(rows[t], w)
         /\ flow'[w].outcome = flow[w].outcome /\ flow'[w].task = t
<1> DEFINE t == flow[w].task
           want == IF flow[w].outcome = "failed" THEN Queue!Failed(rows[t])
                                                 ELSE Queue!Completed(rows[t], w)
<1>1. t \in Tasks
  BY DEF Finalize, WInv, Sound, HaveTask
<1>2. Queue!Load(w, t, want) /\ rows[t].state \in {"running", "pending"}
  BY <1>1 DEF Finalize, Terminal, Queue!BeginComplete, Queue!BeginFail, OfTheQueue!IInv
<1>3. /\ UNCHANGED rows /\ tx'[w] = [step |-> "flush", task |-> t, seen |-> rows[t],
                                     want |-> want]
  BY <1>2 DEF Queue!Load, OfTheQueue!IInv, OfTheQueue!TypeOK
<1>4. want = IF flow[w].outcome = "failed"
             THEN OfTheQueue!Failed(rows[t]) ELSE OfTheQueue!Completed(rows[t], w)
  BY DEF Queue!Failed, Queue!Completed, OfTheQueue!Failed, OfTheQueue!Completed
<1>5. flow'[w].outcome = flow[w].outcome /\ flow'[w].task = t
  BY DEF Finalize, Goto, WInv, Flow
<1> HIDE DEF want
<1> QED BY <1>1, <1>2, <1>3, <1>4, <1>5

\* So what a run means to leave is a finished task.
NoRetry == \A w \in Runs : tx[w].step \in {"flush", "commit"} =>
                              tx[w].want.state \in {"completed", "failed"}

LEMMA RunsDoNotRetry == Spec => []NoRetry
<1>1. Init => NoRetry
  BY DEF Init, Queue!Init, Queue!Idle, NoRetry
<1>2. WInv /\ OfTheQueue!IInv /\ NoRetry /\ [Next]_vars => NoRetry'
  <2> SUFFICES ASSUME WInv, OfTheQueue!IInv, NoRetry, [Next]_vars,
                      NEW w \in Runs, tx'[w].step \in {"flush", "commit"}
               PROVE  tx'[w].want.state \in {"completed", "failed"}
    BY DEF NoRetry
  <2>1. CASE tx[w].step \in {"flush", "commit"} /\ tx'[w].want = tx[w].want
    BY <2>1 DEF NoRetry
  <2>2. CASE Finalize(w)
    <3>1. PICK t \in Tasks : tx'[w].want \in {OfTheQueue!Failed(rows[t]),
                                              OfTheQueue!Completed(rows[t], w)}
      BY <2>2, FinalizeDecides
    <3>2. rows[t] \in OfTheQueue!Row
      BY DEF OfTheQueue!IInv, OfTheQueue!TypeOK
    <3> QED BY <3>1, <3>2 DEF OfTheQueue!Failed, OfTheQueue!Completed, OfTheQueue!Row
  <2> QED BY <2>1, <2>2, DecisionsBegin
<1> QED BY <1>1, <1>2, WorkflowInvariance, QueueInvariance, PTL DEF Spec

\* However many retries the producers allow, runs alone do not take a running task's
\* lease away: the documented claim fails only with callers that retry.
THEOREM RunsKeepLeases == Spec => []Queue!RunningIsLeased
<1>1. Init => Queue!RunningIsLeased
  BY DEF Init, Queue!Init, Queue!Absent, Queue!RunningIsLeased
<1>2. /\ WInv /\ OfTheQueue!IInv /\ NoRetry /\ [Next]_vars
      /\ Queue!RunningIsLeased
      => Queue!RunningIsLeased'
  <2> SUFFICES ASSUME WInv, OfTheQueue!IInv, NoRetry, [Next]_vars, Queue!RunningIsLeased,
                      NEW t \in Tasks, OfTheQueue!Unleased(rows'[t])
               PROVE  FALSE
    BY DEF Queue!RunningIsLeased, OfTheQueue!Unleased
  <2>1. [OfTheQueue!Next]_(OfTheQueue!vars)
    BY StepsOfTheQueue
  <2>2. ~OfTheQueue!Unleased(rows[t])
    BY DEF Queue!RunningIsLeased, OfTheQueue!Unleased
  <2>3. PICK w \in Runs : OfTheQueue!StaleRetry(w)
    BY <2>1, <2>2, OfTheQueue!StepsKeepLeases, TasksAreOrdered, BudgetsAreCounts, NobodyIsNull
  <2>4. tx[w].want = OfTheQueue!Requeued(tx[w].seen) /\ tx[w].step = "commit"
    BY <2>3 DEF OfTheQueue!StaleRetry
  <2>5. tx[w].seen \in OfTheQueue!Row
    BY DEF OfTheQueue!IInv, OfTheQueue!TypeOK, OfTheQueue!Request
  <2>6. tx[w].want.state = "pending"
    BY <2>4, <2>5 DEF OfTheQueue!Requeued, OfTheQueue!Row
  <2> QED BY <2>4, <2>6 DEF NoRetry
<1> QED BY <1>1, <1>2, WorkflowInvariance, QueueInvariance, RunsDoNotRetry, PTL DEF Spec

-----------------------------------------------------------------------------
(* How tasks end.                                                          *)

\* What an agent has reported stands from then on, and a decision in flight on the task
\* follows it.
Reported(w) ==
    /\ flow[w].outcome # "none" =>
         flow[w].step \in {"finalize", "finishing", "close_run", "done"}
    /\ tx[w].step \in {"flush", "commit"} =>
         /\ tx[w].task = flow[w].task
         /\ tx[w].seen.output = Nobody
         /\ tx[w].want = IF flow[w].outcome = "failed"
                         THEN OfTheQueue!Failed(tx[w].seen)
                         ELSE OfTheQueue!Completed(tx[w].seen, w)

\* A result is there from the first time that a task is completed, and is that of a run
\* which is past its decision.
EndFits(t) ==
    /\ rows[t].state = "failed" =>
         \E w \in Runs : flow[w].task = t /\ flow[w].outcome = "failed"
    /\ rows[t].state = "completed" => \E w \in Runs : rows[t].output = w
    /\ rows[t].output # Nobody => OfTheQueue!Final(rows[t])
    /\ \A w \in Runs : rows[t].output = w =>
         /\ flow[w].step \in {"close_run", "done"}
         /\ flow[w].task = t /\ flow[w].outcome # "failed"

EInv == (\A w \in Runs : Reported(w)) /\ (\A t \in Tasks : EndFits(t))

\* No step takes a report back, or sends a run back once it has decided.
KeepsReport(w) ==
    /\ \/ flow[w].outcome # "none"
       \/ flow[w].step \in {"finishing", "close_run", "done"}
       => flow'[w].outcome = flow[w].outcome /\ flow'[w].task = flow[w].task
    /\ flow[w].step = "finishing" => flow'[w].step \in {"finishing", "close_run", "done"}
    /\ flow[w].step \in {"close_run", "done"} => flow'[w].step \in {"close_run", "done"}
    /\ flow'[w].outcome # "none" =>
         flow'[w].step \in {"finalize", "finishing", "close_run", "done"}

LEMMA ReportsStay ==
  ASSUME WInv, [Next]_vars, NEW v \in Runs, Reported(v)
  PROVE  KeepsReport(v)
<1>0. flow \in [Runs -> Flow] /\ flow[v] \in Flow
  BY DEF WInv
<1>1. ASSUME flow'[v] = flow[v] PROVE KeepsReport(v)
  BY <1>1 DEF KeepsReport, Reported
<1>2. ASSUME NEW w \in Runs, flow' = [flow EXCEPT ![w] = flow'[w]], w # v PROVE KeepsReport(v)
  BY <1>0, <1>1, <1>2
<1>3. ASSUME NEW step, Goto(v, step), flow[v].step \notin {"close_run", "done"},
             flow[v].step = "finishing" => step \in {"close_run", "finishing"},
             flow[v].step = "finalize" => step \in {"close_run", "finishing"}
      PROVE  KeepsReport(v)
  BY <1>0, <1>3 DEF Goto, Flow, KeepsReport, Reported
<1>4. ASSUME NEW w \in Runs, NEW step, Goto(w, step),
             flow[w].step \notin {"close_run", "done"},
             flow[w].step = "finishing" => step \in {"close_run", "finishing"},
             flow[w].step = "finalize" => step \in {"close_run", "finishing"}
      PROVE  KeepsReport(v)
  <2>1. CASE w = v
    BY <1>3, <1>4, <2>1
  <2>2. CASE w # v
    BY <1>0, <1>1, <1>4, <2>2 DEF Goto
  <2> QED BY <2>1, <2>2
<1>5. ASSUME NEW w \in Runs, NEW t \in Tasks \cup {Nobody}, Start(w, t) PROVE KeepsReport(v)
  <2>1. CASE w = v
    BY <1>0, <1>5, <2>1 DEF Start, Flow, KeepsReport, Reported
  <2>2. CASE w # v
    BY <1>0, <1>1, <1>5, <2>2 DEF Start
  <2> QED BY <2>1, <2>2
<1>6. ASSUME NEW w \in Runs,
             \/ ClaimSucceeds(w) \/ ClaimFindsNothing(w) \/ TimesOut(w) \/ RunAgent(w)
             \/ CloseRun(w) \/ Crash(w)
      PROVE  KeepsReport(v)
  <2>1. CASE w = v
    <3>1. flow[v].step \in {"claiming", "agent"} => flow[v].outcome = "none"
      BY DEF Reported
    <3>2. CASE ClaimSucceeds(v) \/ ClaimFindsNothing(v)
      BY <1>0, <3>1, <3>2 DEF ClaimSucceeds, ClaimFindsNothing, Flow, KeepsReport
    <3>3. CASE RunAgent(v)
      BY <1>0, <3>1, <3>3
         DEF RunAgent, RouteAfterRun, RouteAfterCheck, StatusAfterRun, Flow, KeepsReport
    <3>4. CASE TimesOut(v) \/ CloseRun(v) \/ Crash(v)
      BY <1>0, <3>4 DEF TimesOut, CloseRun, Crash, Flow, KeepsReport
    <3> QED BY <1>6, <2>1, <3>2, <3>3, <3>4
  <2>2. CASE w # v
    BY <1>0, <1>1, <1>6, <2>2
       DEF ClaimSucceeds, ClaimFindsNothing, TimesOut, RunAgent, CloseRun, Crash
  <2> QED BY <2>1, <2>2
<1>7. ASSUME NEW w \in Runs, ClaimTask(w) PROVE KeepsReport(v)
  BY <1>1, <1>4, <1>6, <1>7 DEF ClaimTask, Lookup, Adopt, BeginClaim, Claiming, OpenRun
<1>8. ASSUME NEW w \in Runs, FinalizeTask(w) \/ FinishingFails(w) PROVE KeepsReport(v)
  BY <1>1, <1>4, <1>6, <1>8
     DEF FinalizeTask, Finalize, FinalizeRefused, Finishing, FinishingFails
<1>9. Elsewhere \/ UNCHANGED vars => UNCHANGED flow
  BY DEF Elsewhere, vars
<1> QED BY <1>1, <1>5, <1>6, <1>7, <1>8, <1>9 DEF Next, Proceed

\* A commit of finalize() ends the task as it decided; one of claim() starts it.
LEMMA CommitsEnd ==
  ASSUME OfTheQueue!IInv, EInv, NEW w \in Runs, OfTheQueue!Commit(w)
  PROVE  LET t == tx[w].task IN
         /\ t \in Tasks /\ \A u \in Tasks \ {t} : rows'[u] = rows[u]
         /\ \/ rows'[t].state = "running" /\ rows'[t].output = Nobody
            \/ /\ tx[w].step = "commit" /\ flow[w].outcome = "failed" /\ flow[w].task = t
               /\ rows'[t].state = "failed" /\ rows'[t].output = rows[t].output
            \/ /\ tx[w].step = "commit" /\ flow[w].outcome # "failed" /\ flow[w].task = t
               /\ rows'[t].state = "completed" /\ rows'[t].output = w
<1> DEFINE t == tx[w].task
           seen == tx[w].seen
           want == tx[w].want
<1>1. /\ t \in Tasks /\ seen.state \in {"pending", "running"}
      /\ \/ OfTheQueue!Reclaimable(seen) /\ want = OfTheQueue!Claimed(seen, w) /\ rows[t] = seen
         \/ tx[w].step = "commit"
  BY OfTheQueue!CommitIsSound, TasksAreOrdered, BudgetsAreCounts, NobodyIsNull
<1>2. /\ seen \in OfTheQueue!Row /\ rows[t] \in OfTheQueue!Row
      /\ rows' = [rows EXCEPT ![t] = OfTheQueue!Overwrite(rows[t], seen, want)]
      /\ rows \in [Tasks -> OfTheQueue!Row]
  BY <1>1 DEF OfTheQueue!IInv, OfTheQueue!TypeOK, OfTheQueue!Request, OfTheQueue!Commit
<1>3. /\ \A u \in Tasks \ {t} : rows'[u] = rows[u]
      /\ rows'[t].state = OfTheQueue!Column(rows[t].state, seen.state, want.state)
      /\ rows'[t].output = OfTheQueue!Column(rows[t].output, seen.output, want.output)
  BY <1>1, <1>2 DEF OfTheQueue!Overwrite
<1>4. CASE OfTheQueue!Reclaimable(seen) /\ want = OfTheQueue!Claimed(seen, w) /\ rows[t] = seen
  <2>1. want.state = "running" /\ want.output = seen.output
    BY <1>2, <1>4 DEF OfTheQueue!Claimed, OfTheQueue!Row
  <2>2. rows[t].output = Nobody
    BY <1>1, <1>4 DEF EInv, EndFits, OfTheQueue!Final, OfTheQueue!Reclaimable
  <2> QED BY <1>1, <1>3, <1>4, <2>1, <2>2 DEF OfTheQueue!Column
<1>5. CASE tx[w].step = "commit"
  <2>1. /\ flow[w].task = t /\ seen.output = Nobody
        /\ want = IF flow[w].outcome = "failed" THEN OfTheQueue!Failed(seen)
                                                ELSE OfTheQueue!Completed(seen, w)
    BY <1>5 DEF EInv, Reported
  <2>2. CASE flow[w].outcome = "failed"
    <3>1. want.state = "failed" /\ want.output = seen.output
      BY <1>2, <2>1, <2>2 DEF OfTheQueue!Failed, OfTheQueue!Row
    <3> QED BY <1>1, <1>3, <1>5, <2>1, <2>2, <3>1 DEF OfTheQueue!Column
  <2>3. CASE flow[w].outcome # "failed"
    <3>1. want.state = "completed" /\ want.output = w
      BY <1>2, <2>1, <2>3 DEF OfTheQueue!Completed, OfTheQueue!Row
    <3> QED BY <1>1, <1>3, <1>5, <2>1, <2>3, <3>1, NobodyIsNull DEF OfTheQueue!Column
  <2> QED BY <2>2, <2>3
<1> QED BY <1>1, <1>4, <1>5

LEMMA EndsKeep ==
  ASSUME WInv, WInv', OfTheQueue!IInv, EInv, [Next]_vars
  PROVE  EInv'
<1>0. /\ \A w \in Runs : KeepsReport(w)
      /\ rows \in [Tasks -> OfTheQueue!Row] /\ \A t \in Tasks : rows[t] \in OfTheQueue!Row
  BY ReportsStay DEF EInv, OfTheQueue!IInv, OfTheQueue!TypeOK
<1>1. ASSUME NEW w \in Runs PROVE Reported(w)'
  <2>1. ASSUME tx'[w].step \in {"flush", "commit"}
        PROVE  /\ tx'[w].task = flow'[w].task /\ tx'[w].seen.output = Nobody
               /\ tx'[w].want = IF flow'[w].outcome = "failed"
                                THEN OfTheQueue!Failed(tx'[w].seen)
                                ELSE OfTheQueue!Completed(tx'[w].seen, w)
    <3>1. CASE /\ tx[w].step \in {"flush", "commit"} /\ tx'[w].task = tx[w].task
               /\ tx'[w].seen = tx[w].seen /\ tx'[w].want = tx[w].want
      <4>1. flow[w].step = "finishing"
        BY <3>1 DEF WInv, Sound
      <4>2. flow'[w].task = flow[w].task /\ flow'[w].outcome = flow[w].outcome
        BY <1>0, <4>1 DEF KeepsReport
      <4> QED BY <3>1, <4>2 DEF EInv, Reported
    <3>2. CASE Finalize(w)
      <4>1. rows[flow[w].task].output = Nobody
        BY <3>2, FinalizeDecides DEF EInv, EndFits, OfTheQueue!Final
      <4> QED BY <3>2, <4>1, FinalizeDecides
    <3> QED BY <2>1, <3>1, <3>2, DecisionsBegin
  <2> QED BY <1>0, <2>1 DEF Reported, KeepsReport
<1>2. ASSUME NEW t \in Tasks,
             \/ rows'[t].state = rows[t].state
             \/ rows'[t].state \in {"pending", "running"} /\ rows[t].output = Nobody,
             rows'[t].output = rows[t].output
      PROVE  EndFits(t)'
  <2>1. ASSUME NEW w \in Runs, rows[t].output = w
        PROVE  /\ flow'[w].step \in {"close_run", "done"}
               /\ flow'[w].task = t /\ flow'[w].outcome # "failed"
    BY <1>0, <2>1 DEF EInv, EndFits, KeepsReport
  <2>2. ASSUME NEW w \in Runs, flow[w].task = t, flow[w].outcome = "failed"
        PROVE  flow'[w].task = t /\ flow'[w].outcome = "failed"
    BY <1>0, <2>2 DEF KeepsReport
  <2>3. EndFits(t)
    BY DEF EInv
  <2> QED BY <1>2, <2>1, <2>2, <2>3 DEF EndFits, OfTheQueue!Final
<1>3. ASSUME NEW w \in Runs, OfTheQueue!Commit(w), NEW t \in Tasks PROVE EndFits(t)'
  <2>1. CASE t # tx[w].task
    BY <1>2, <1>3, <2>1, CommitsEnd
  <2>2. CASE t = tx[w].task /\ rows'[t].state = "running" /\ rows'[t].output = Nobody
    BY <2>2, NobodyIsNull DEF EndFits
  <2>3. CASE /\ t = tx[w].task /\ tx[w].step = "commit"
             /\ flow[w].outcome = "failed" /\ flow[w].task = t
             /\ rows'[t].state = "failed" /\ rows'[t].output = rows[t].output
    <3>1. flow'[w].outcome = "failed" /\ flow'[w].task = t
      BY <1>0, <2>3 DEF KeepsReport
    <3>2. ASSUME NEW v \in Runs, rows[t].output = v
          PROVE  /\ flow'[v].step \in {"close_run", "done"}
                 /\ flow'[v].task = t /\ flow'[v].outcome # "failed"
      BY <1>0, <3>2 DEF EInv, EndFits, KeepsReport
    <3> QED BY <2>3, <3>1, <3>2 DEF EndFits, OfTheQueue!Final
  <2>4. CASE /\ t = tx[w].task /\ tx[w].step = "commit"
             /\ flow[w].outcome # "failed" /\ flow[w].task = t
             /\ rows'[t].state = "completed" /\ rows'[t].output = w
    <3>1. flow[w].step = "finishing"
      BY <2>4 DEF WInv, Sound
    <3>2. tx'[w].step = "idle"
      BY <1>3 DEF OfTheQueue!Commit, OfTheQueue!Idle, OfTheQueue!IInv, OfTheQueue!TypeOK
    <3>3. flow'[w].step # "finishing"
      BY <3>2 DEF WInv, Sound
    <3>4. /\ flow'[w].step \in {"close_run", "done"}
          /\ flow'[w].task = t /\ flow'[w].outcome # "failed"
      BY <1>0, <2>4, <3>1, <3>3 DEF KeepsReport
    <3> QED BY <2>4, <3>4 DEF EndFits, OfTheQueue!Final
  <2> QED BY <1>3, <2>1, <2>2, <2>3, <2>4, CommitsEnd
<1>4. ASSUME NEW t \in Tasks, NEW u \in Tasks, OfTheQueue!Enqueue(u) PROVE EndFits(t)'
  <2>1. CASE t = u
    <3>1. rows'[t].state = "pending" /\ rows'[t].output = Nobody
      BY <1>0, <1>4, <2>1 DEF OfTheQueue!Enqueue, OfTheQueue!NewRow, OfTheQueue!Absent
    <3> QED BY <3>1, NobodyIsNull DEF EndFits
  <2>2. CASE t # u
    BY <1>0, <1>2, <1>4, <2>2 DEF OfTheQueue!Enqueue
  <2> QED BY <2>1, <2>2
<1>5. ASSUME NEW t \in Tasks, NEW u \in Tasks, OfTheQueue!LeaseExpires(u) PROVE EndFits(t)'
  BY <1>0, <1>2, <1>5 DEF OfTheQueue!LeaseExpires, OfTheQueue!Row
<1>6. ASSUME NEW t \in Tasks, OfTheQueue!Recover PROVE EndFits(t)'
  <2>1. CASE OfTheQueue!Stale(rows[t])
    <3>1. rows[t].output = Nobody
      BY <2>1 DEF EInv, EndFits, OfTheQueue!Final, OfTheQueue!Stale
    <3>2. rows'[t].state = "pending" /\ rows'[t].output = rows[t].output
      BY <1>0, <1>6, <2>1 DEF OfTheQueue!Recover, OfTheQueue!Recovered, OfTheQueue!Row
    <3> QED BY <1>2, <3>1, <3>2
  <2>2. CASE ~OfTheQueue!Stale(rows[t])
    BY <1>2, <1>6, <2>2 DEF OfTheQueue!Recover
  <2> QED BY <2>1, <2>2
<1>7. ASSUME NEW t \in Tasks, UNCHANGED rows PROVE EndFits(t)'
  BY <1>2, <1>7
<1>8. ASSUME NEW w \in Runs, NEW u \in Tasks, OfTheQueue!Begin(w, u) PROVE UNCHANGED rows
  BY <1>8 DEF OfTheQueue!Begin, OfTheQueue!BeginComplete, OfTheQueue!BeginFail, OfTheQueue!Load
<1>9. ASSUME NEW w \in Runs, OfTheQueue!ClaimStep(w) \/ OfTheQueue!Flush(w) \/ OfTheQueue!Crash(w)
      PROVE  UNCHANGED rows
  BY <1>9 DEF OfTheQueue!ClaimStep, OfTheQueue!RequestClaim, OfTheQueue!AcquireClaimLock,
              OfTheQueue!SelectCandidate, OfTheQueue!ClaimNothing, OfTheQueue!Flush,
              OfTheQueue!Crash
<1>10. \A t \in Tasks : EndFits(t)'
  BY <1>3, <1>4, <1>5, <1>6, <1>7, <1>8, <1>9, StepsOfTheQueue
     DEF OfTheQueue!Next, OfTheQueue!vars
<1> QED BY <1>1, <1>10 DEF EInv

\* However runs race for a task, crash and write over each other, a task is failed only
\* by a run whose agent reported failure on it, and completed only with the result of a
\* run whose agent did not.
THEOREM EndsAreReported == Spec => []TasksEndAsReported
<1>1. Init => EInv
  BY NobodyIsNull
     DEF Init, Queue!Init, Queue!Absent, Queue!Idle, NotStarted, EInv, Reported, EndFits
<1>2. EInv => TasksEndAsReported
  BY DEF EInv, EndFits, TasksEndAsReported
<1>3. WInv /\ WInv' /\ OfTheQueue!IInv /\ EInv /\ [Next]_vars => EInv'
  BY EndsKeep
<1> QED BY <1>1, <1>2, <1>3, WorkflowInvariance, QueueInvariance, PTL DEF Spec

-----------------------------------------------------------------------------
(* What the documented meaning of "completed" depends on.                  *)

\* A run that claims its task itself reaches finalize only by way of its agent, and a
\* task holds the result of a run only when that run's agent has run.
Worked(w) ==
    /\ flow[w].step \in {"idle", "claim", "claiming"} => flow[w].task = Nobody
    /\ flow[w].step \notin {"lookup", "adopt"}
    /\ flow[w].step \in {"finalize", "finishing", "close_run"} => flow[w].outcome # "none"

ResultsAreWork ==
    /\ \A w \in Runs : Worked(w)
    /\ \A t \in Tasks, w \in Runs : rows[t].output = w => flow[w].outcome # "none"

NoTaskGiven == \A w \in Runs, t \in Tasks : ~Start(w, t)

\* One run moves, on a path where what its agent reported is not forgotten.
LEMMA WorkedStep ==
  ASSUME WInv, \A v \in Runs : Worked(v), NEW w \in Runs,
         flow' = [flow EXCEPT ![w] = flow'[w]], Worked(w)',
         flow[w].outcome # "none" => flow'[w].outcome # "none"
  PROVE  \A v \in Runs : Worked(v)' /\ (flow[v].outcome # "none" => flow'[v].outcome # "none")
<1> SUFFICES ASSUME NEW v \in Runs
             PROVE  Worked(v)' /\ (flow[v].outcome # "none" => flow'[v].outcome # "none")
  OBVIOUS
<1>1. CASE v = w
  BY <1>1
<1>2. CASE v # w
  <2>1. flow'[v] = flow[v]
    BY <1>2 DEF WInv
  <2> QED BY <2>1 DEF Worked
<1> QED BY <1>1, <1>2

LEMMA WorkIsKept ==
  ASSUME WInv, \A v \in Runs : Worked(v), [Next]_vars, NoTaskGiven
  PROVE  \A v \in Runs : Worked(v)' /\ (flow[v].outcome # "none" => flow'[v].outcome # "none")
<1> DEFINE Goal ==
             \A v \in Runs : Worked(v)' /\ (flow[v].outcome # "none" => flow'[v].outcome # "none")
<1>0. ASSUME NEW w \in Runs
      PROVE  /\ flow \in [Runs -> Flow] /\ flow[w] \in Flow /\ Worked(w)
             /\ flow[w].step \notin {"lookup", "adopt"}
  BY DEF WInv, Worked
<1>1. ASSUME NEW w \in Runs, NEW t \in Tasks \cup {Nobody}, Start(w, t) PROVE Goal
  <2>1. t = Nobody
    BY <1>1 DEF NoTaskGiven
  <2>2. flow' = [flow EXCEPT ![w].step = "claim", ![w].task = Nobody]
    BY <1>1, <2>1 DEF Start
  <2>3. /\ flow' = [flow EXCEPT ![w] = flow'[w]] /\ flow'[w].step = "claim"
        /\ flow'[w].task = Nobody /\ flow'[w].outcome = flow[w].outcome
    BY <1>0, <2>2 DEF Flow
  <2> QED BY <2>3, WorkedStep DEF Worked
<1>2. ASSUME NEW w \in Runs, NEW step, Goto(w, step),
             \/ flow[w].step = "claim" /\ step = "claiming"
             \/ flow[w].step = "open_run" /\ step = "agent"
             \/ /\ flow[w].step \in {"finalize", "finishing"}
                /\ step \in {"finishing", "close_run"}
      PROVE  Goal
  <2>1. /\ flow' = [flow EXCEPT ![w] = flow'[w]] /\ flow'[w].step = step
        /\ flow'[w].task = flow[w].task /\ flow'[w].outcome = flow[w].outcome
    BY <1>0, <1>2 DEF Goto, Flow
  <2> QED BY <1>0, <1>2, <2>1, WorkedStep DEF Worked
<1>3. ASSUME NEW w \in Runs,
             ClaimSucceeds(w) \/ ClaimFindsNothing(w) \/ TimesOut(w) \/ CloseRun(w) \/ Crash(w)
      PROVE  Goal
  <2>1. flow[w].step = "claiming" => flow[w].task = Nobody
    BY <1>0 DEF Worked
  <2>2. /\ flow' = [flow EXCEPT ![w] = flow'[w]]
        /\ flow'[w].step \in {"open_run", "done"} /\ flow'[w].outcome = flow[w].outcome
    BY <1>0, <1>3, <2>1 DEF ClaimSucceeds, ClaimFindsNothing, TimesOut, CloseRun, Crash, Flow
  <2> QED BY <2>2, WorkedStep DEF Worked
<1>4. ASSUME NEW w \in Runs, RunAgent(w) PROVE Goal
  <2>1. PICK outcome \in Outcomes :
          flow' = [flow EXCEPT ![w].step = "finalize", ![w].outcome = outcome]
    BY <1>4 DEF RunAgent, RouteAfterRun, RouteAfterCheck, StatusAfterRun
  <2>2. /\ flow' = [flow EXCEPT ![w] = flow'[w]]
        /\ flow'[w].step = "finalize" /\ flow'[w].outcome = outcome
    BY <1>0, <2>1 DEF Flow
  <2>3. outcome # "none"
    BY OutcomesAreKnown
  <2> QED BY <2>2, <2>3, WorkedStep DEF Worked
<1>5. ASSUME UNCHANGED flow PROVE Goal
  BY <1>5 DEF Worked
<1>6. ASSUME NEW w \in Runs, ClaimTask(w) PROVE Goal
  BY <1>0, <1>2, <1>3, <1>5, <1>6
     DEF ClaimTask, Lookup, Adopt, BeginClaim, Claiming, OpenRun
<1>7. ASSUME NEW w \in Runs, FinalizeTask(w) \/ FinishingFails(w) PROVE Goal
  BY <1>2, <1>3, <1>5, <1>7
     DEF FinalizeTask, Finalize, FinalizeRefused, Finishing, FinishingFails
<1>8. Elsewhere \/ UNCHANGED vars => UNCHANGED flow
  BY DEF Elsewhere, vars
<1> QED BY <1>1, <1>3, <1>4, <1>5, <1>6, <1>7, <1>8 DEF Next, Proceed

\* A run that claims its task itself completes none that its agent has not worked on: the
\* documented meaning of "completed" fails only with runs that are given a task.
THEOREM ClaimersCompleteTheirWork == Spec /\ [][NoTaskGiven]_vars => []CompletedByWork
<1>1. Init => ResultsAreWork
  BY NobodyIsNull DEF Init, Queue!Init, Queue!Absent, NotStarted, ResultsAreWork, Worked
<1>2. WInv /\ OfTheQueue!IInv /\ ResultsAreWork /\ [Next]_vars /\ [NoTaskGiven]_vars
      => ResultsAreWork'
  <2> SUFFICES ASSUME WInv, OfTheQueue!IInv, ResultsAreWork, [Next]_vars, [NoTaskGiven]_vars
               PROVE  ResultsAreWork'
    OBVIOUS
  <2>1. CASE UNCHANGED vars
    BY <2>1 DEF vars, ResultsAreWork, Worked
  <2>2. CASE NoTaskGiven
    <3>1. \A v \in Runs : Worked(v)' /\ (flow[v].outcome # "none" => flow'[v].outcome # "none")
      BY <2>2, WorkIsKept DEF ResultsAreWork
    <3>2. ASSUME NEW t \in Tasks, NEW w \in Runs, rows'[t].output = w
          PROVE  flow'[w].outcome # "none"
      <4>1. CASE rows[t].output = w
        BY <3>1, <4>1 DEF ResultsAreWork
      <4>2. CASE rows[t].output # w
        <5>1. [OfTheQueue!Next]_(OfTheQueue!vars)
          BY StepsOfTheQueue
        <5>2. tx[w].step = "commit"
          BY <3>2, <4>2, <5>1, OfTheQueue!ResultsAreTheirAgents, TasksAreOrdered,
             BudgetsAreCounts, NobodyIsNull
        <5>3. flow[w].step = "finishing"
          BY <5>2 DEF WInv, Sound
        <5> QED BY <3>1, <5>3 DEF ResultsAreWork, Worked
      <4> QED BY <4>1, <4>2
    <3> QED BY <3>1, <3>2 DEF ResultsAreWork
  <2> QED BY <2>1, <2>2
<1>3. ResultsAreWork => CompletedByWork
  BY DEF ResultsAreWork, CompletedByWork, Finished
<1> QED BY <1>1, <1>2, <1>3, WorkflowInvariance, QueueInvariance, PTL DEF Spec

-----------------------------------------------------------------------------
(* Why runs end.                                                           *)

\* How many steps a run has left at most, by its node and its request to the queue.
StepsLeft(node, request) ==
    CASE node = "done" -> 0
      [] node = "close_run" -> 1
      [] node = "finishing" -> IF request = "commit" THEN 2 ELSE 3
      [] node = "finalize" -> 4
      [] node = "agent" -> 5
      [] node = "open_run" -> 6
      [] node = "claiming" -> (CASE request = "claim_commit" -> 7
                                 [] request = "select" -> 8
                                 [] OTHER -> 9)
      [] node \in {"claim", "adopt"} -> 10
      [] node = "lookup" -> 11
      [] OTHER -> 12

Left(w) == StepsLeft(flow[w].step, tx[w].step)

Advances(w) == Left(w)' < Left(w) /\ \A v \in Runs \ {w} : Left(v)' = Left(v)

LEMMA OneAdvances ==
  ASSUME WInv, NEW w \in Runs, flow' = [flow EXCEPT ![w] = flow'[w]],
         tx' = [tx EXCEPT ![w] = tx'[w]],
         StepsLeft(flow'[w].step, tx'[w].step) < StepsLeft(flow[w].step, tx[w].step)
  PROVE  Advances(w)
<1>1. ASSUME NEW v \in Runs \ {w} PROVE flow'[v] = flow[v] /\ tx'[v] = tx[v]
  BY DEF WInv
<1> QED BY <1>1 DEF Advances, Left

\* From one node to another, without the queue or with the end of a request.
LEMMA NodeAdvances ==
  ASSUME WInv, NEW w \in Runs, flow' = [flow EXCEPT ![w] = flow'[w]],
         UNCHANGED tx \/ Moves(w, "idle"),
         \/ flow'[w].step = "done" /\ flow[w].step # "done"
         \/ flow'[w].step = "close_run" /\ flow[w].step \in {"finalize", "finishing"}
         \/ /\ flow'[w].step = "finalize"
            /\ flow[w].step \in {"agent", "claiming", "lookup"}
         \/ flow'[w].step = "agent" /\ flow[w].step = "open_run"
         \/ flow'[w].step = "open_run" /\ flow[w].step \in {"claiming", "adopt"}
         \/ flow'[w].step \in {"claim", "adopt"} /\ flow[w].step = "lookup"
         \/ flow'[w].step \in {"claim", "lookup"} /\ flow[w].step = "idle"
  PROVE  Advances(w)
<1>1. tx' = [tx EXCEPT ![w] = tx'[w]]
  BY DEF WInv, Moves
<1>2. flow[w].step \in Steps
  BY DEF WInv, Flow
<1>3. StepsLeft(flow'[w].step, tx'[w].step) < StepsLeft(flow[w].step, tx[w].step)
  BY <1>2 DEF StepsLeft, Steps
<1> QED BY <1>1, <1>3, OneAdvances

\* Within claim_task and finalize, to the next statement of the queue.
LEMMA RequestAdvances ==
  ASSUME WInv, NEW w \in Runs, flow' = [flow EXCEPT ![w] = flow'[w]], NEW step, Moves(w, step),
         \/ step = "claim" /\ flow[w].step = "claim" /\ flow'[w].step = "claiming"
         \/ /\ flow[w].step = "claiming" /\ flow'[w].step = "claiming"
            /\ \/ step = "select" /\ tx[w].step = "claim"
               \/ step = "claim_commit" /\ tx[w].step = "select"
         \/ step = "flush" /\ flow[w].step = "finalize" /\ flow'[w].step = "finishing"
         \/ /\ flow[w].step = "finishing" /\ flow'[w].step = "finishing"
            /\ step = "commit" /\ tx[w].step = "flush"
  PROVE  Advances(w)
<1>1. tx' = [tx EXCEPT ![w] = tx'[w]] /\ tx'[w].step = step
  BY DEF Moves
<1>2. StepsLeft(flow'[w].step, tx'[w].step) < StepsLeft(flow[w].step, tx[w].step)
  BY <1>1 DEF StepsLeft
<1> QED BY <1>1, <1>2, OneAdvances

LEMMA ClaimTaskAdvances ==
  ASSUME WInv, NEW w \in Runs, ClaimTask(w)
  PROVE  Advances(w)
<1>0. flow \in [Runs -> Flow] /\ flow[w] \in Flow
  BY DEF WInv
<1>1. CASE Lookup(w)
  <2>1. PICK step \in {"claim", "adopt", "finalize"} : flow' = [flow EXCEPT ![w].step = step]
    BY <1>1 DEF Lookup, Goto
  <2>2. /\ flow' = [flow EXCEPT ![w] = flow'[w]]
        /\ flow'[w].step \in {"claim", "adopt", "finalize"}
    BY <1>0, <2>1 DEF Flow
  <2> QED BY <1>1, <2>2, NodeAdvances DEF Lookup, queuevars
<1>2. CASE Adopt(w)
  <2>1. flow' = [flow EXCEPT ![w] = flow'[w]] /\ flow'[w].step = "open_run"
    BY <1>0, <1>2 DEF Adopt, Goto, Flow
  <2> QED BY <1>2, <2>1, NodeAdvances DEF Adopt, queuevars
<1>3. CASE BeginClaim(w)
  <2>1. flow' = [flow EXCEPT ![w] = flow'[w]] /\ flow'[w].step = "claiming"
    BY <1>0, <1>3 DEF BeginClaim, Goto, Flow
  <2>2. Moves(w, "claim") /\ flow[w].step = "claim"
    BY <1>3, QueueMoves DEF BeginClaim
  <2> QED BY <2>1, <2>2, RequestAdvances
<1>4. CASE Claiming(w)
  <2>1. flow' = [flow EXCEPT ![w] = flow'[w]] /\ flow'[w] = flow[w]
        /\ flow[w].step = "claiming"
    BY <1>0, <1>4 DEF Claiming
  <2>2. \/ Moves(w, "select") /\ tx[w].step = "claim"
        \/ Moves(w, "claim_commit") /\ tx[w].step = "select"
    BY <1>4, QueueMoves DEF Claiming, Queue!AcquireClaimLock, Queue!SelectCandidate
  <2> QED BY <2>1, <2>2, RequestAdvances
<1>5. CASE ClaimSucceeds(w) \/ ClaimFindsNothing(w)
  <2>1. Moves(w, "idle")
    BY <1>5, QueueMoves DEF ClaimSucceeds, ClaimFindsNothing
  <2>2. /\ flow' = [flow EXCEPT ![w] = flow'[w]] /\ flow[w].step = "claiming"
        /\ flow'[w].step \in {"open_run", "finalize", "done"}
    BY <1>0, <1>5 DEF ClaimSucceeds, ClaimFindsNothing, Flow
  <2> QED BY <2>1, <2>2, NodeAdvances
<1>6. CASE OpenRun(w)
  <2>1. flow' = [flow EXCEPT ![w] = flow'[w]] /\ flow'[w].step = "agent"
    BY <1>0, <1>6 DEF OpenRun, Goto, Flow
  <2> QED BY <1>6, <2>1, NodeAdvances DEF OpenRun, queuevars
<1> QED BY <1>1, <1>2, <1>3, <1>4, <1>5, <1>6 DEF ClaimTask

LEMMA FinalizeTaskAdvances ==
  ASSUME WInv, NEW w \in Runs, FinalizeTask(w) \/ FinishingFails(w)
  PROVE  Advances(w)
<1>0. flow \in [Runs -> Flow] /\ flow[w] \in Flow
  BY DEF WInv
<1>1. CASE Finalize(w)
  <2>1. \E want : Queue!Load(w, flow[w].task, want)
    BY <1>1 DEF Finalize, Queue!BeginComplete, Queue!BeginFail
  <2>2. Moves(w, "flush") /\ flow[w].step = "finalize"
    BY <1>1, <2>1, QueueMoves DEF Finalize, WInv, Sound, HaveTask
  <2>3. flow' = [flow EXCEPT ![w] = flow'[w]] /\ flow'[w].step = "finishing"
    BY <1>0, <1>1 DEF Finalize, Goto, Flow
  <2> QED BY <2>2, <2>3, RequestAdvances
<1>2. CASE FinalizeRefused(w)
  <2>1. flow' = [flow EXCEPT ![w] = flow'[w]] /\ flow'[w].step = "close_run"
    BY <1>0, <1>2 DEF FinalizeRefused, Goto, Flow
  <2> QED BY <1>2, <2>1, NodeAdvances DEF FinalizeRefused, queuevars
<1>3. CASE Finishing(w) /\ Queue!Flush(w) /\ UNCHANGED flow
  <2>1. flow' = [flow EXCEPT ![w] = flow'[w]] /\ flow'[w] = flow[w]
    BY <1>0, <1>3
  <2>2. Moves(w, "commit") /\ tx[w].step = "flush" /\ flow[w].step = "finishing"
    BY <1>3, QueueMoves DEF Finishing, Queue!Flush
  <2> QED BY <2>1, <2>2, RequestAdvances
<1>4. CASE \/ Finishing(w) /\ Queue!Commit(w) /\ Goto(w, "close_run")
           \/ FinishingFails(w)
  <2>1. flow' = [flow EXCEPT ![w] = flow'[w]] /\ flow'[w].step = "close_run"
    BY <1>0, <1>4 DEF FinishingFails, Goto, Flow
  <2>2. Moves(w, "idle") /\ flow[w].step = "finishing"
    BY <1>4, QueueMoves DEF Finishing, FinishingFails
  <2> QED BY <2>1, <2>2, NodeAdvances
<1>5. CASE CloseRun(w)
  <2>1. flow' = [flow EXCEPT ![w] = flow'[w]] /\ flow'[w].step = "done"
    BY <1>0, <1>5 DEF CloseRun, Flow
  <2> QED BY <1>5, <2>1, NodeAdvances DEF CloseRun, queuevars
<1> QED BY <1>1, <1>2, <1>3, <1>4, <1>5 DEF FinalizeTask, Finishing

\* Whoever moves, a run never goes back: each step is one of a run with fewer steps left,
\* or leaves all runs where they are.  No node is a loop, a retry or a wait for another
\* run's result, so a run takes twelve steps at most, however runs interleave and fail.
THEOREM RunsOnlyAdvance ==
    Spec => [][\/ \E w \in Runs : Advances(w)
               \/ Elsewhere /\ \A w \in Runs : Left(w)' = Left(w)]_vars
<1>1. WInv /\ [Next]_vars =>
        [\/ \E w \in Runs : Advances(w)
         \/ Elsewhere /\ \A w \in Runs : Left(w)' = Left(w)]_vars
  <2> SUFFICES ASSUME WInv, Next
               PROVE  \/ \E w \in Runs : Advances(w)
                      \/ Elsewhere /\ \A w \in Runs : Left(w)' = Left(w)
    OBVIOUS
  <2>0. ASSUME NEW w \in Runs PROVE flow \in [Runs -> Flow] /\ flow[w] \in Flow
    BY DEF WInv
  <2>1. ASSUME NEW w \in Runs, NEW t \in Tasks \cup {Nobody}, Start(w, t) PROVE Advances(w)
    <3>1. flow' = [flow EXCEPT ![w] = flow'[w]] /\ flow'[w].step \in {"claim", "lookup"}
      BY <2>0, <2>1 DEF Start, Flow
    <3> QED BY <2>1, <3>1, NodeAdvances DEF Start, queuevars
  <2>2. ASSUME NEW w \in Runs, RunAgent(w) PROVE Advances(w)
    <3>1. PICK outcome \in Outcomes :
            flow' = [flow EXCEPT ![w].step = "finalize", ![w].outcome = outcome]
      BY <2>2 DEF RunAgent, RouteAfterRun, RouteAfterCheck, StatusAfterRun
    <3>2. flow' = [flow EXCEPT ![w] = flow'[w]] /\ flow'[w].step = "finalize"
      BY <2>0, <3>1 DEF Flow
    <3> QED BY <2>2, <3>2, NodeAdvances DEF RunAgent, queuevars
  <2>3. ASSUME NEW w \in Runs, Crash(w) PROVE Advances(w)
    <3>1. flow' = [flow EXCEPT ![w] = flow'[w]] /\ flow'[w].step = "done"
      BY <2>0, <2>3 DEF Crash, Flow
    <3>2. UNCHANGED tx \/ Moves(w, "idle")
      BY <2>3, QueueMoves DEF Crash, queuevars
    <3> QED BY <2>3, <3>1, <3>2, NodeAdvances DEF Crash
  <2>4. ASSUME NEW w \in Runs, TimesOut(w) PROVE Advances(w)
    <3>1. flow' = [flow EXCEPT ![w] = flow'[w]] /\ flow'[w].step = "done"
      BY <2>0, <2>4 DEF TimesOut, Flow
    <3> QED BY <2>4, <3>1, NodeAdvances DEF TimesOut, queuevars
  <2>5. ASSUME Elsewhere PROVE \A w \in Runs : Left(w)' = Left(w)
    BY <2>5 DEF Elsewhere, Left, Queue!Enqueue, Queue!LeaseExpires, Queue!Recover
  <2> QED BY <2>1, <2>2, <2>3, <2>4, <2>5, ClaimTaskAdvances, FinalizeTaskAdvances
          DEF Next, Proceed
<1> QED BY <1>1, WorkflowInvariance, PTL DEF Spec

=============================================================================
