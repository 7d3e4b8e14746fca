--------------------------- MODULE TaskQueueProofs ---------------------------
(***************************************************************************)
(* What TaskQueue guarantees for every set of tasks and agents.            *)
(***************************************************************************)
EXTENDS TaskQueue, TLAPS

-----------------------------------------------------------------------------
(* The rows the methods produce.                                           *)

LEMMA AbsentIsRow == Absent \in Row /\ Idle \in Request
  BY DEF Absent, Row, States, Leases, Idle, Request, Steps

LEMMA ProducedRows ==
  ASSUME NEW row \in Row, NEW a \in Agents
  PROVE  /\ Claimed(row, a) \in Row
         /\ Completed(row, a) \in Row
         /\ Requeued(row) \in Row
         /\ Failed(row) \in Row
         /\ Recovered(row) \in Row
<1>1. Claimed(row, a) \in Row
  BY DEF Row, States, Leases, Claimed
<1>2. Completed(row, a) \in Row
  BY DEF Row, States, Leases, Completed
<1>3. Requeued(row) \in Row
  <2>1. row.retries + 1 \in Nat
    BY DEF Row
  <2> QED BY <2>1 DEF Row, States, Leases, Requeued
<1>4. Failed(row) \in Row
  BY DEF Row, States, Leases, Failed
<1>5. Recovered(row) \in Row
  BY DEF Row, States, Recovered
<1> QED BY <1>1, <1>2, <1>3, <1>4, <1>5

LEMMA NewRowIsRow ==
  ASSUME NEW b \in Budgets
  PROVE  NewRow(b) \in Row
  BY BudgetsAreCounts DEF NewRow, Absent, Row, States, Leases

\* Whatever mixture of columns the unit of work writes, the outcome is a row.
LEMMA OverwriteIsRow ==
  ASSUME NEW cur \in Row, NEW seen \in Row, NEW want \in Row
  PROVE  Overwrite(cur, seen, want) \in Row
  BY DEF Overwrite, Column, Row

\* Over the row it was computed from, the unit of work writes what was wanted.
LEMMA OverwriteUnchanged ==
  ASSUME NEW seen \in Row, NEW want \in Row, want.budget = seen.budget
  PROVE  Overwrite(seen, seen, want) = want
<1>1. want = [state |-> want.state, agent |-> want.agent, lease |-> want.lease,
              retries |-> want.retries, budget |-> want.budget, output |-> want.output]
  BY DEF Row
<1>2. Overwrite(seen, seen, want) =
        [state |-> want.state, agent |-> want.agent, lease |-> want.lease,
         retries |-> want.retries, budget |-> want.budget, output |-> want.output]
  BY DEF Overwrite, Column
<1> QED BY <1>1, <1>2

-----------------------------------------------------------------------------

LEMMA TypePreserved == TypeOK /\ [Next]_vars => TypeOK'
<1> SUFFICES ASSUME TypeOK, [Next]_vars PROVE TypeOK'
  OBVIOUS
<1>1. ASSUME NEW t \in Tasks, Enqueue(t) PROVE TypeOK'
  BY <1>1, NewRowIsRow DEF Enqueue, TypeOK
<1>2. ASSUME NEW t \in Tasks, LeaseExpires(t) PROVE TypeOK'
  BY <1>2 DEF LeaseExpires, TypeOK, Row, Leases
<1>3. ASSUME NEW a \in Agents, RequestClaim(a) \/ AcquireClaimLock(a) \/ Flush(a)
      PROVE  TypeOK'
  BY <1>3 DEF RequestClaim, AcquireClaimLock, Flush, TypeOK, Request, Steps
<1>4. ASSUME NEW a \in Agents, SelectCandidate(a) PROVE TypeOK'
  <2>1. PICK t \in Tasks :
           tx' = [tx EXCEPT ![a] = [step |-> "claim_commit", task |-> t,
                                    seen |-> rows[t], want |-> Claimed(rows[t], a)]]
    BY <1>4 DEF SelectCandidate
  <2>2. rows[t] \in Row /\ Claimed(rows[t], a) \in Row
    BY ProducedRows DEF TypeOK
  <2>3. tx' \in [Agents -> Request]
    BY <2>1, <2>2 DEF TypeOK, Request, Steps
  <2> QED BY <1>4, <2>3 DEF SelectCandidate, TypeOK
<1>5. ASSUME NEW a \in Agents, ClaimNothing(a) \/ Crash(a) PROVE TypeOK'
  BY <1>5, AbsentIsRow DEF ClaimNothing, Crash, TypeOK
<1>6. ASSUME NEW a \in Agents, Commit(a) PROVE TypeOK'
  <2>1. tx[a].seen \in Row /\ tx[a].want \in Row
    BY DEF TypeOK, Request
  <2>2. \A t \in Tasks : Overwrite(rows[t], tx[a].seen, tx[a].want) \in Row
    BY <2>1, OverwriteIsRow DEF TypeOK
  <2>3. rows' \in [Tasks -> Row]
    BY <1>6, <2>2 DEF Commit, TypeOK
  <2> QED BY <1>6, <2>3, AbsentIsRow DEF Commit, TypeOK
<1>7. ASSUME NEW a \in Agents, NEW t \in Tasks, Begin(a, t) PROVE TypeOK'
  <2>1. ASSUME NEW want \in Row, Load(a, t, want) PROVE TypeOK'
    BY <2>1 DEF Load, TypeOK, Request, Steps
  <2>2. rows[t] \in Row
    BY DEF TypeOK
  <2>3. CASE BeginComplete(a, t)
    BY <2>1, <2>2, <2>3, ProducedRows DEF BeginComplete
  <2>4. ASSUME NEW retry \in BOOLEAN, BeginFail(a, t, retry) PROVE TypeOK'
    BY <2>1, <2>2, <2>4, ProducedRows DEF BeginFail
  <2> QED BY <1>7, <2>3, <2>4 DEF Begin
<1>8. ASSUME Recover PROVE TypeOK'
  <2>1. \A t \in Tasks : rows[t] \in Row
    BY DEF TypeOK
  <2>2. \A t \in Tasks : Recovered(rows[t]) \in Row
    BY <2>1 DEF Row, States, Recovered
  <2> QED BY <1>8, <2>1, <2>2 DEF Recover, TypeOK
<1>9. CASE UNCHANGED vars
  BY <1>9 DEF vars, TypeOK
<1> QED
  BY <1>1, <1>2, <1>3, <1>4, <1>5, <1>6, <1>7, <1>8, <1>9 DEF Next, ClaimStep

\* Type correctness: rows and requests keep their shape through every method,
\* race and crash.
THEOREM TypeCorrect == Spec => []TypeOK
<1>1. Init => TypeOK
  BY AbsentIsRow DEF Init, TypeOK
<1> QED BY <1>1, TypePreserved, PTL DEF Spec

-----------------------------------------------------------------------------
(* The inductive invariant, one step per action.                           *)

\* An idle request owes the invariant nothing.
LEMMA IdleOwesNothing ==
  ASSUME NEW a \in Agents, tx[a] = Idle
  PROVE  ClaimKeepsItsRow(a) /\ IntentFitsWhatWasSeen(a)
  BY DEF ClaimKeepsItsRow, IntentFitsWhatWasSeen, Idle

LEMMA InitEstablishes == Init => IInv
<1> SUFFICES ASSUME Init PROVE IInv
  OBVIOUS
<1>1. TypeOK
  BY AbsentIsRow DEF Init, TypeOK
<1>2. RetriesWithinBudget /\ AgentMatchesState
  BY DEF Init, RetriesWithinBudget, AgentMatchesState, AgentMatches, Absent
<1>3. \A a \in Agents : ClaimKeepsItsRow(a) /\ IntentFitsWhatWasSeen(a)
  BY IdleOwesNothing DEF Init
<1>4. OneWriterPerRow
  BY DEF Init, OneWriterPerRow, Locks, Idle
<1>5. \A t \in Tasks : rows[t].state # "awaiting_review"
  BY DEF Init, Absent
<1> QED BY <1>1, <1>2, <1>3, <1>4, <1>5 DEF IInv, RequestsAreSound

\* What a commit leaves in a row that matched its state and budget before.
LEMMA CommitKeepsRowSound ==
  ASSUME NEW cur \in Row, NEW seen \in Row, NEW want \in Row, NEW a \in Agents,
         AgentMatches(cur), cur.retries <= cur.budget, cur.budget = seen.budget,
         AgentMatches(seen), seen.state \in {"pending", "running"},
         \/ want = Claimed(seen, a) /\ cur = seen
         \/ want = Completed(seen, a)
         \/ want = Requeued(seen) /\ MayRetry(seen)
         \/ want = Failed(seen)
  PROVE  LET new == Overwrite(cur, seen, want) IN
         /\ AgentMatches(new)
         /\ new.retries <= new.budget
         /\ new.budget = cur.budget
         /\ cur.state \notin {"absent", "awaiting_review"}
              => new.state \notin {"absent", "awaiting_review"}
<1> DEFINE new == Overwrite(cur, seen, want)
<1> USE DEF Overwrite, Column, AgentMatches
<1>1. CASE want = Claimed(seen, a) /\ cur = seen
  <2>1. want.state = "running" /\ want.agent = a /\ want.retries = seen.retries
    BY <1>1 DEF Claimed, Row
  <2>2. new.state = "running" /\ new.agent = a
    BY <1>1, <2>1
  <2> QED BY <1>1, <2>1, <2>2, NobodyIsNull
<1>2. CASE want = Completed(seen, a)
  <2>1. want.state = "completed" /\ want.retries = seen.retries
    BY <1>2 DEF Completed, Row
  <2> QED BY <2>1
<1>3. CASE want = Requeued(seen) /\ MayRetry(seen)
  <2>1. /\ want.state = "pending" /\ want.agent = Nobody
        /\ want.retries = seen.retries + 1 /\ want.retries <= cur.budget
    BY <1>3 DEF Requeued, MayRetry, Row
  <2>2. new.retries <= new.budget
    BY <2>1
  <2>3. CASE seen.state = "pending"
    BY <2>1, <2>2, <2>3
  <2>4. CASE seen.state = "running"
    BY <2>1, <2>2, <2>4
  <2> QED BY <2>3, <2>4
<1>4. CASE want = Failed(seen)
  <2>1. want.state = "failed" /\ want.retries = seen.retries
    BY <1>4 DEF Failed, Row
  <2> QED BY <2>1
<1> QED BY <1>1, <1>2, <1>3, <1>4

\* A step on the rows disturbs no request, if it leaves every reclaimable row (a
\* claim may hold it) and every budget as they are and deletes no row.
LEMMA RowStepKeepsRequests ==
  ASSUME RequestsAreSound, UNCHANGED tx,
         \A t \in Tasks : Reclaimable(rows[t]) => rows'[t] = rows[t],
         \A t \in Tasks : rows[t].state # "absent" =>
            rows'[t].state # "absent" /\ rows'[t].budget = rows[t].budget
  PROVE  RequestsAreSound'
<1>1. OneWriterPerRow'
  BY DEF RequestsAreSound, OneWriterPerRow, Locks
<1>2. ASSUME NEW a \in Agents PROVE ClaimKeepsItsRow(a)'
  BY DEF RequestsAreSound, ClaimKeepsItsRow
<1>3. ASSUME NEW a \in Agents PROVE IntentFitsWhatWasSeen(a)'
  BY DEF RequestsAreSound, IntentFitsWhatWasSeen
<1> QED BY <1>1, <1>2, <1>3 DEF RequestsAreSound

\* A step of one request disturbs no other, if it locks no row that has a writer.
LEMMA RequestStepKeepsOthers ==
  ASSUME TypeOK, RequestsAreSound, UNCHANGED rows, NEW a \in Agents,
         \A b \in Agents \ {a} : tx'[b] = tx[b],
         ClaimKeepsItsRow(a)', IntentFitsWhatWasSeen(a)',
         \A t \in Tasks : Locks(a, t)' => \A b \in Agents \ {a} : ~Locks(b, t)
  PROVE  RequestsAreSound'
<1>1. \A b \in Agents \ {a} : \A t \in Tasks : Locks(b, t)' = Locks(b, t)
  BY DEF Locks
<1>2. OneWriterPerRow'
  BY <1>1 DEF RequestsAreSound, OneWriterPerRow
<1>3. ASSUME NEW b \in Agents PROVE ClaimKeepsItsRow(b)' /\ IntentFitsWhatWasSeen(b)'
  <2>1. CASE b = a
    BY <2>1
  <2>2. CASE b # a
    <3>1. tx'[b] = tx[b] /\ rows' = rows
      BY <2>2
    <3>2. ClaimKeepsItsRow(b)'
      BY <3>1 DEF RequestsAreSound, ClaimKeepsItsRow
    <3>3. IntentFitsWhatWasSeen(b)'
      BY <3>1 DEF RequestsAreSound, IntentFitsWhatWasSeen
    <3> QED BY <3>2, <3>3
  <2> QED BY <2>1, <2>2
<1> QED BY <1>2, <1>3 DEF RequestsAreSound

\* The part of IInv that speaks of rows alone.
RowsAreSound ==
    /\ RetriesWithinBudget
    /\ AgentMatchesState
    /\ \A t \in Tasks : rows[t].state # "awaiting_review"

\* The decision complete() or fail() took on the row it loaded.
Decided(a) ==
    \/ tx[a].want = Completed(tx[a].seen, a)
    \/ tx[a].want = Requeued(tx[a].seen) /\ MayRetry(tx[a].seen)
    \/ tx[a].want = Failed(tx[a].seen)

\* What a commit is about: a claim over the very row it selected, or a decision
\* over whatever the row has become.
LEMMA CommitIsSound ==
  ASSUME IInv, NEW a \in Agents, Commit(a)
  PROVE  LET t == tx[a].task IN
         /\ t \in Tasks /\ Locks(a, t)
         /\ AgentMatches(tx[a].seen) /\ tx[a].seen.state \in {"pending", "running"}
         /\ rows[t].budget = tx[a].seen.budget
         /\ rows[t].state # "absent"
         /\ \/ /\ tx[a].step = "claim_commit" /\ Reclaimable(tx[a].seen)
               /\ tx[a].want = Claimed(tx[a].seen, a) /\ rows[t] = tx[a].seen
            \/ tx[a].step = "commit" /\ Decided(a)
<1>1. CASE tx[a].step = "claim_commit"
  <2>1. ClaimKeepsItsRow(a)
    BY DEF IInv, RequestsAreSound
  <2> QED BY <1>1, <2>1 DEF IInv, ClaimKeepsItsRow, Reclaimable, AgentMatchesState, Locks
<1>2. CASE tx[a].step = "commit"
  BY <1>2 DEF IInv, RequestsAreSound, IntentFitsWhatWasSeen, Decided, Locks
<1> QED BY <1>1, <1>2 DEF Commit

LEMMA NextPreserves == IInv /\ [Next]_vars => IInv'
<1> SUFFICES ASSUME IInv, [Next]_vars PROVE RowsAreSound' /\ RequestsAreSound'
  BY TypePreserved DEF IInv, RowsAreSound
<1> USE DEF IInv
<1>0. /\ \A t \in Tasks : rows[t] \in Row
      /\ \A a \in Agents : tx[a] \in Request
      /\ RowsAreSound
  BY DEF TypeOK, RowsAreSound
<1>1. ASSUME NEW t \in Tasks, Enqueue(t) PROVE RowsAreSound' /\ RequestsAreSound'
  <2>1. PICK b \in Budgets : rows' = [rows EXCEPT ![t] = NewRow(b)]
    BY <1>1 DEF Enqueue
  <2>2. /\ NewRow(b).state = "pending" /\ NewRow(b).agent = Nobody
        /\ NewRow(b).retries = 0 /\ NewRow(b).budget \in Nat
    BY BudgetsAreCounts DEF NewRow, Absent
  <2>3. RowsAreSound'
    BY <1>0, <2>1, <2>2
       DEF TypeOK, RowsAreSound, RetriesWithinBudget, AgentMatchesState, AgentMatches
  <2>4. RequestsAreSound'
    BY <1>1, <2>1, RowStepKeepsRequests DEF Enqueue, Reclaimable, TypeOK
  <2> QED BY <2>3, <2>4
<1>2. ASSUME NEW t \in Tasks, LeaseExpires(t) PROVE RowsAreSound' /\ RequestsAreSound'
  <2>1. \A u \in Tasks : /\ rows'[u].state = rows[u].state /\ rows'[u].agent = rows[u].agent
                         /\ rows'[u].retries = rows[u].retries
                         /\ rows'[u].budget = rows[u].budget
    BY <1>0, <1>2 DEF LeaseExpires, TypeOK, Row
  <2>2. RowsAreSound'
    BY <1>0, <2>1 DEF RowsAreSound, RetriesWithinBudget, AgentMatchesState, AgentMatches
  <2>3. \A u \in Tasks : Reclaimable(rows[u]) => rows'[u] = rows[u]
    BY <1>0, <1>2 DEF LeaseExpires, Reclaimable, TypeOK
  <2> QED BY <1>2, <2>1, <2>2, <2>3, RowStepKeepsRequests DEF LeaseExpires
<1>3. ASSUME Recover PROVE RowsAreSound' /\ RequestsAreSound'
  <2>1. \A t \in Tasks : rows'[t] = IF Stale(rows[t]) THEN Recovered(rows[t]) ELSE rows[t]
    BY <1>3 DEF Recover
  <2>2. ASSUME NEW t \in Tasks
        PROVE  /\ Recovered(rows[t]).state = "pending" /\ Recovered(rows[t]).agent = Nobody
               /\ Recovered(rows[t]).retries = rows[t].retries
               /\ Recovered(rows[t]).budget = rows[t].budget
    BY <1>0 DEF Recovered, Row
  <2>3. RowsAreSound'
    BY <1>0, <2>1, <2>2 DEF RowsAreSound, RetriesWithinBudget, AgentMatchesState, AgentMatches
  <2>4. \A t \in Tasks : Reclaimable(rows[t]) => rows'[t] = rows[t]
    BY <2>1 DEF Reclaimable, Stale
  <2>5. \A t \in Tasks : rows[t].state # "absent" =>
           rows'[t].state # "absent" /\ rows'[t].budget = rows[t].budget
    BY <2>1, <2>2
  <2> QED BY <1>3, <2>3, <2>4, <2>5, RowStepKeepsRequests DEF Recover
<1>4. ASSUME NEW a \in Agents, RequestClaim(a) \/ AcquireClaimLock(a)
      PROVE  RowsAreSound' /\ RequestsAreSound'
  <2>1. tx'[a].step \in {"claim", "select"} /\ \A b \in Agents \ {a} : tx'[b] = tx[b]
    BY <1>0, <1>4 DEF RequestClaim, AcquireClaimLock, TypeOK, Request
  <2>2. UNCHANGED rows
    BY <1>4 DEF RequestClaim, AcquireClaimLock
  <2>3. /\ ClaimKeepsItsRow(a)' /\ IntentFitsWhatWasSeen(a)'
        /\ \A t \in Tasks : ~Locks(a, t)'
    BY <2>1 DEF ClaimKeepsItsRow, IntentFitsWhatWasSeen, Locks
  <2> QED BY <1>0, <2>1, <2>2, <2>3, RequestStepKeepsOthers
          DEF RowsAreSound, RetriesWithinBudget, AgentMatchesState
<1>5. ASSUME NEW a \in Agents, SelectCandidate(a) PROVE RowsAreSound' /\ RequestsAreSound'
  <2>1. PICK t \in Tasks :
           /\ Reclaimable(rows[t]) /\ ~Locked(t)
           /\ tx' = [tx EXCEPT ![a] = [step |-> "claim_commit", task |-> t,
                                      seen |-> rows[t], want |-> Claimed(rows[t], a)]]
    BY <1>5 DEF SelectCandidate
  <2>2. UNCHANGED rows
    BY <1>5 DEF SelectCandidate
  <2>3. /\ tx'[a].step = "claim_commit" /\ tx'[a].task = t
        /\ tx'[a].seen = rows[t] /\ tx'[a].want = Claimed(rows[t], a)
        /\ \A b \in Agents \ {a} : tx'[b] = tx[b]
    BY <2>1 DEF TypeOK
  <2>4. ClaimKeepsItsRow(a)' /\ IntentFitsWhatWasSeen(a)'
    BY <2>1, <2>2, <2>3 DEF ClaimKeepsItsRow, IntentFitsWhatWasSeen
  <2>5. \A u \in Tasks : Locks(a, u)' => \A b \in Agents \ {a} : ~Locks(b, u)
    BY <2>1, <2>3 DEF Locks, Locked
  <2> QED BY <1>0, <2>2, <2>3, <2>4, <2>5, RequestStepKeepsOthers
          DEF RowsAreSound, RetriesWithinBudget, AgentMatchesState
<1>6. ASSUME NEW a \in Agents, ClaimNothing(a) \/ Crash(a)
      PROVE  RowsAreSound' /\ RequestsAreSound'
  <2>1. UNCHANGED rows /\ tx'[a] = Idle /\ \A b \in Agents \ {a} : tx'[b] = tx[b]
    BY <1>6 DEF ClaimNothing, Crash, TypeOK
  <2>2. /\ ClaimKeepsItsRow(a)' /\ IntentFitsWhatWasSeen(a)'
        /\ \A t \in Tasks : ~Locks(a, t)'
    BY <2>1 DEF ClaimKeepsItsRow, IntentFitsWhatWasSeen, Locks, Idle
  <2> QED BY <1>0, <2>1, <2>2, RequestStepKeepsOthers
          DEF RowsAreSound, RetriesWithinBudget, AgentMatchesState
<1>7. ASSUME NEW a \in Agents, Flush(a) PROVE RowsAreSound' /\ RequestsAreSound'
  <2>1. /\ UNCHANGED rows /\ ~Locked(tx[a].task)
        /\ tx[a].step = "flush" /\ tx'[a].step = "commit"
        /\ tx'[a].task = tx[a].task /\ tx'[a].seen = tx[a].seen /\ tx'[a].want = tx[a].want
        /\ \A b \in Agents \ {a} : tx'[b] = tx[b]
    BY <1>0, <1>7 DEF Flush, TypeOK, Request
  <2>2. ClaimKeepsItsRow(a)'
    BY <2>1 DEF ClaimKeepsItsRow
  <2>3. IntentFitsWhatWasSeen(a)'
    BY <2>1 DEF RequestsAreSound, IntentFitsWhatWasSeen
  <2>4. \A u \in Tasks : Locks(a, u)' => \A b \in Agents \ {a} : ~Locks(b, u)
    BY <2>1 DEF Locks, Locked
  <2> QED BY <1>0, <2>1, <2>2, <2>3, <2>4, RequestStepKeepsOthers
          DEF RowsAreSound, RetriesWithinBudget, AgentMatchesState
<1>8. ASSUME NEW a \in Agents, NEW t \in Tasks, Begin(a, t)
      PROVE  RowsAreSound' /\ RequestsAreSound'
  <2>1. ASSUME NEW want, Load(a, t, want), rows[t].state \in {"running", "pending"},
               \/ want = Completed(rows[t], a)
               \/ want = Requeued(rows[t]) /\ MayRetry(rows[t])
               \/ want = Failed(rows[t])
        PROVE  RowsAreSound' /\ RequestsAreSound'
    <3>1. /\ UNCHANGED rows
          /\ tx'[a].step = "flush" /\ tx'[a].task = t
          /\ tx'[a].seen = rows[t] /\ tx'[a].want = want
          /\ \A b \in Agents \ {a} : tx'[b] = tx[b]
      BY <2>1 DEF Load, TypeOK
    <3>2. ClaimKeepsItsRow(a)' /\ \A u \in Tasks : ~Locks(a, u)'
      BY <3>1 DEF ClaimKeepsItsRow, Locks
    <3>3. IntentFitsWhatWasSeen(a)'
      BY <2>1, <3>1 DEF IntentFitsWhatWasSeen, AgentMatchesState
    <3> QED BY <1>0, <3>1, <3>2, <3>3, RequestStepKeepsOthers
            DEF RowsAreSound, RetriesWithinBudget, AgentMatchesState
  <2>2. CASE BeginComplete(a, t)
    BY <2>1, <2>2 DEF BeginComplete
  <2>3. ASSUME NEW retry \in BOOLEAN, BeginFail(a, t, retry)
        PROVE  RowsAreSound' /\ RequestsAreSound'
    <3>1. rows[t].state \in {"running", "pending"}
      BY <2>3 DEF BeginFail
    <3>2. CASE retry /\ MayRetry(rows[t])
      BY <2>1, <2>3, <3>1, <3>2 DEF BeginFail
    <3>3. CASE ~(retry /\ MayRetry(rows[t]))
      BY <2>1, <2>3, <3>1, <3>3 DEF BeginFail
    <3> QED BY <3>2, <3>3
  <2> QED BY <1>8, <2>2, <2>3 DEF Begin
<1>9. ASSUME NEW a \in Agents, Commit(a) PROVE RowsAreSound' /\ RequestsAreSound'
  <2> DEFINE t == tx[a].task
             new == Overwrite(rows[t], tx[a].seen, tx[a].want)
  <2>1. /\ t \in Tasks /\ Locks(a, t)
        /\ rows' = [rows EXCEPT ![t] = new] /\ tx' = [tx EXCEPT ![a] = Idle]
    BY <1>9, CommitIsSound DEF Commit
  <2>2. /\ AgentMatches(tx[a].seen) /\ tx[a].seen.state \in {"pending", "running"}
        /\ rows[t].budget = tx[a].seen.budget
        /\ rows[t].state # "absent"
        /\ \/ tx[a].want = Claimed(tx[a].seen, a) /\ rows[t] = tx[a].seen
           \/ Decided(a)
    BY <1>9, CommitIsSound
  <2>3. /\ AgentMatches(new) /\ new.retries <= new.budget /\ new.budget = rows[t].budget
        /\ new.state \notin {"absent", "awaiting_review"}
    <3>1. AgentMatches(rows[t]) /\ rows[t].retries <= rows[t].budget
      BY <2>1 DEF AgentMatchesState, RetriesWithinBudget
    <3>2. tx[a].seen \in Row /\ tx[a].want \in Row /\ rows[t] \in Row
      BY <1>0, <2>1 DEF Request
    <3>3. rows[t].state \notin {"absent", "awaiting_review"}
      BY <2>1, <2>2
    <3> QED BY <2>2, <3>1, <3>2, <3>3, CommitKeepsRowSound DEF Decided
  <2>4. RowsAreSound'
    BY <1>0, <2>1, <2>3 DEF TypeOK, RowsAreSound, RetriesWithinBudget, AgentMatchesState
  <2>5. /\ tx'[a] = Idle /\ \A b \in Agents \ {a} : tx'[b] = tx[b] /\ ~Locks(b, t)
        /\ \A u \in Tasks \ {t} : rows'[u] = rows[u]
        /\ rows'[t].budget = rows[t].budget /\ rows'[t].state # "absent"
    BY <2>1, <2>3 DEF TypeOK, RequestsAreSound, OneWriterPerRow
  <2>6. OneWriterPerRow'
    <3>1. \A u \in Tasks : ~Locks(a, u)'
      BY <2>5 DEF Locks, Idle
    <3>2. \A b \in Agents \ {a}, u \in Tasks : Locks(b, u)' = Locks(b, u)
      BY <2>5 DEF Locks
    <3> QED BY <3>1, <3>2 DEF RequestsAreSound, OneWriterPerRow
  <2>7. ASSUME NEW b \in Agents PROVE ClaimKeepsItsRow(b)' /\ IntentFitsWhatWasSeen(b)'
    <3>1. CASE b = a
      BY <2>5, <3>1 DEF ClaimKeepsItsRow, IntentFitsWhatWasSeen, Idle
    <3>2. CASE b # a
      <4>1. ClaimKeepsItsRow(b) /\ IntentFitsWhatWasSeen(b) /\ tx'[b] = tx[b] /\ ~Locks(b, t)
        BY <2>5, <3>2 DEF RequestsAreSound
      <4>2. ClaimKeepsItsRow(b)'
        BY <2>5, <4>1 DEF ClaimKeepsItsRow, Locks
      <4>3. IntentFitsWhatWasSeen(b)'
        BY <2>5, <4>1 DEF IntentFitsWhatWasSeen
      <4> QED BY <4>2, <4>3
    <3> QED BY <3>1, <3>2
  <2> QED BY <2>4, <2>6, <2>7 DEF RequestsAreSound
<1>10. CASE UNCHANGED vars
  BY <1>0, <1>10 DEF vars, RowsAreSound, RetriesWithinBudget, AgentMatchesState,
     RequestsAreSound, OneWriterPerRow, Locks, ClaimKeepsItsRow, IntentFitsWhatWasSeen
<1> QED
  BY <1>1, <1>2, <1>3, <1>4, <1>5, <1>6, <1>7, <1>8, <1>9, <1>10 DEF Next, ClaimStep

\* The requests and the rows stay sound together, whatever the number of tasks and
\* agents.
THEOREM Invariance == Spec => []IInv
  BY InitEstablishes, NextPreserves, PTL DEF Spec

\* A pending row has no agent and a running row has one, though the two columns are
\* written separately by racing writers.
THEOREM AgentTracksState == Spec => []AgentMatchesState
<1>1. IInv => AgentMatchesState
  BY DEF IInv
<1> QED BY <1>1, Invariance, PTL

-----------------------------------------------------------------------------
(* What a step may do to the holder of a task.                             *)

\* complete() and fail() never make a row running, and never change the agent of
\* one that stays running.
LEMMA DecisionsNeverGrant ==
  ASSUME NEW a \in Agents, Decided(a), NEW cur \in Row, tx[a].seen \in Row,
         AgentMatches(tx[a].seen), tx[a].seen.state \in {"pending", "running"}
  PROVE  LET new == Overwrite(cur, tx[a].seen, tx[a].want) IN
         new.state = "running" => cur.state = "running" /\ new.agent = cur.agent
<1> DEFINE seen == tx[a].seen
           want == tx[a].want
<1> USE DEF Overwrite, Column, AgentMatches
<1>1. CASE want = Completed(seen, a) \/ want = Failed(seen)
  <2>1. want.state \in {"completed", "failed"}
    BY <1>1 DEF Completed, Failed, Row
  <2> QED BY <2>1
<1>2. CASE want = Requeued(seen)
  <2>1. want.state = "pending" /\ want.agent = Nobody
    BY <1>2 DEF Requeued, Row
  <2> QED BY <2>1
<1> QED BY <1>1, <1>2 DEF Decided

\* A step makes a row running by a claim, over a reclaimable row, and only one row.
LEMMA GrantsAreClaims ==
  ASSUME IInv, [Next]_vars
  PROVE  \/ \A t \in Tasks : rows'[t].state = "running" =>
                rows[t].state = "running" /\ rows'[t].agent = rows[t].agent
         \/ \E t \in Tasks, a \in Agents :
                /\ Reclaimable(rows[t])
                /\ rows' = [rows EXCEPT ![t] = Claimed(rows[t], a)]
<1> DEFINE Keeps(t) == rows'[t].state = "running" =>
                         rows[t].state = "running" /\ rows'[t].agent = rows[t].agent
<1>0. /\ rows \in [Tasks -> Row] /\ \A t \in Tasks : rows[t] \in Row
      /\ \A a \in Agents : tx[a].seen \in Row
  BY DEF IInv, TypeOK, Request
<1>1. ASSUME NEW t \in Tasks, Enqueue(t) PROVE \A u \in Tasks : Keeps(u)
  BY <1>0, <1>1 DEF Enqueue, NewRow, Absent
<1>2. ASSUME NEW t \in Tasks, LeaseExpires(t) PROVE \A u \in Tasks : Keeps(u)
  BY <1>0, <1>2 DEF LeaseExpires, Row
<1>3. ASSUME Recover PROVE \A u \in Tasks : Keeps(u)
  BY <1>0, <1>3 DEF Recover, Recovered, Row
<1>4. ASSUME UNCHANGED rows PROVE \A u \in Tasks : Keeps(u)
  BY <1>4
<1>5. ASSUME NEW a \in Agents, Commit(a)
      PROVE  \/ \A u \in Tasks : Keeps(u)
             \/ /\ tx[a].task \in Tasks /\ Reclaimable(rows[tx[a].task])
                /\ rows' = [rows EXCEPT ![tx[a].task] = Claimed(rows[tx[a].task], a)]
  <2> DEFINE t == tx[a].task
  <2>1. /\ t \in Tasks
        /\ rows' = [rows EXCEPT ![t] = Overwrite(rows[t], tx[a].seen, tx[a].want)]
        /\ AgentMatches(tx[a].seen) /\ tx[a].seen.state \in {"pending", "running"}
    BY <1>5, CommitIsSound DEF Commit
  <2>2. CASE Decided(a)
    BY <1>0, <2>1, <2>2, DecisionsNeverGrant
  <2>3. CASE /\ Reclaimable(tx[a].seen)
             /\ tx[a].want = Claimed(tx[a].seen, a) /\ rows[t] = tx[a].seen
    <3>1. Overwrite(rows[t], tx[a].seen, tx[a].want) = Claimed(rows[t], a)
      <4>1. rows[t] \in Row /\ Claimed(rows[t], a) \in Row
        BY <1>0, <2>1, ProducedRows
      <4>2. Claimed(rows[t], a).budget = rows[t].budget
        BY <4>1 DEF Claimed, Row
      <4> QED BY <2>3, <4>1, <4>2, OverwriteUnchanged
    <3> QED BY <2>1, <2>3, <3>1
  <2> QED BY <1>5, <2>2, <2>3, CommitIsSound
<1>6. ASSUME NEW a \in Agents, NEW t \in Tasks, Begin(a, t) PROVE UNCHANGED rows
  BY <1>6 DEF Begin, BeginComplete, BeginFail, Load
<1>7. ASSUME NEW a \in Agents, ClaimStep(a) \/ Flush(a) \/ Crash(a) PROVE UNCHANGED rows
  BY <1>7 DEF ClaimStep, RequestClaim, AcquireClaimLock, SelectCandidate, ClaimNothing,
              Flush, Crash
<1> QED BY <1>1, <1>2, <1>3, <1>4, <1>5, <1>6, <1>7 DEF Next, vars

\* Only a pending row without a live lease becomes running, whatever other methods
\* do between the SELECT and the COMMIT of the claim.
THEOREM GrantsAreSafe == Spec => GrantsOnlyReclaimable
<1>1. IInv /\ [Next]_vars =>
        [\A t \in Tasks : rows[t].state # "running" /\ rows'[t].state = "running"
                           => Reclaimable(rows[t])]_vars
  <2> SUFFICES ASSUME IInv, [Next]_vars, NEW t \in Tasks,
                      rows[t].state # "running", rows'[t].state = "running"
               PROVE  Reclaimable(rows[t])
    OBVIOUS
  <2>1. PICK u \in Tasks, a \in Agents :
           Reclaimable(rows[u]) /\ rows' = [rows EXCEPT ![u] = Claimed(rows[u], a)]
    BY GrantsAreClaims
  <2>2. u = t
    BY <2>1 DEF IInv, TypeOK
  <2> QED BY <2>1, <2>2
<1> QED BY <1>1, Invariance, PTL DEF Spec, GrantsOnlyReclaimable

\* The state of a finished task changes only by a request that read the row before it
\* finished: a request that starts later is refused.
THEOREM FinishedStays == Spec => FinishedUnlessLoadedBefore
<1>1. IInv /\ [Next]_vars =>
        [\A t \in Tasks : Final(rows[t]) /\ rows'[t].state # rows[t].state =>
            \E a \in Agents : /\ tx[a].step = "commit" /\ tx[a].task = t
                              /\ ~Final(tx[a].seen)]_vars
  <2> SUFFICES ASSUME IInv, Next, NEW t \in Tasks,
                      Final(rows[t]), rows'[t].state # rows[t].state
               PROVE  \E a \in Agents : /\ tx[a].step = "commit" /\ tx[a].task = t
                                        /\ ~Final(tx[a].seen)
    BY DEF vars
  <2>0. rows \in [Tasks -> Row] /\ rows[t] \in Row
    BY DEF IInv, TypeOK
  <2>1. ASSUME NEW u \in Tasks PROVE ~Enqueue(u) /\ ~LeaseExpires(u)
    BY <2>0 DEF Enqueue, LeaseExpires, Final, Row
  <2>2. ~Recover
    BY <2>0 DEF Recover, Stale, Final
  <2>3. ASSUME NEW a \in Agents PROVE ~ClaimStep(a) /\ ~Flush(a) /\ ~Crash(a)
    BY DEF ClaimStep, RequestClaim, AcquireClaimLock, SelectCandidate, ClaimNothing,
           Flush, Crash
  <2>4. ASSUME NEW a \in Agents, NEW u \in Tasks PROVE ~Begin(a, u)
    BY DEF Begin, BeginComplete, BeginFail, Load
  <2>5. PICK a \in Agents : Commit(a)
    BY <2>1, <2>2, <2>3, <2>4 DEF Next
  <2>6. tx[a].task = t
    BY <2>0, <2>5 DEF Commit
  <2>7. tx[a].step = "commit"
    BY <2>5, <2>6, CommitIsSound DEF Final, Reclaimable
  <2>8. ~Final(tx[a].seen)
    BY <2>5, CommitIsSound DEF Final
  <2> QED BY <2>6, <2>7, <2>8
<1> QED BY <1>1, Invariance, PTL DEF Spec, FinishedUnlessLoadedBefore

-----------------------------------------------------------------------------
(* Whose result a task holds.                                              *)

\* A result is stored only by the commit of its own agent's complete().
LEMMA ResultsAreTheirAgents ==
  ASSUME IInv, [Next]_vars, NEW t \in Tasks, rows'[t].output # rows[t].output,
         rows'[t].output # Nobody
  PROVE  rows'[t].output \in Agents /\ tx[rows'[t].output].step = "commit"
<1>0. rows \in [Tasks -> Row] /\ \A u \in Tasks : rows[u] \in Row
  BY DEF IInv, TypeOK
<1>1. ASSUME NEW u \in Tasks, Enqueue(u) PROVE FALSE
  BY <1>0, <1>1 DEF Enqueue, NewRow, Absent
<1>2. ASSUME NEW u \in Tasks, LeaseExpires(u) PROVE FALSE
  BY <1>0, <1>2 DEF LeaseExpires, Row
<1>3. ASSUME Recover PROVE FALSE
  BY <1>0, <1>3 DEF Recover, Recovered, Row
<1>4. ASSUME NEW a \in Agents, Commit(a)
      PROVE  rows'[t].output = a /\ tx[a].step = "commit"
  <2> DEFINE seen == tx[a].seen
             want == tx[a].want
             new == Overwrite(rows[t], seen, want)
  <2>0. tx[a] \in Request
    BY DEF IInv, TypeOK
  <2>1. t = tx[a].task /\ rows' = [rows EXCEPT ![t] = new] /\ seen \in Row
    BY <1>0, <1>4, <2>0 DEF Commit, Request
  <2>2. new.output = Column(rows[t].output, seen.output, want.output)
    BY DEF Overwrite
  <2> HIDE DEF new
  <2>3. rows'[t] = new
    BY <1>0, <2>1
  <2>4. want.output # seen.output /\ rows'[t].output = want.output
    BY <2>2, <2>3 DEF Column
  <2>5. want # Claimed(seen, a) /\ want # Requeued(seen) /\ want # Failed(seen)
    BY <2>1, <2>4 DEF Claimed, Requeued, Failed, Row
  <2>6. want = Completed(seen, a) /\ tx[a].step = "commit"
    BY <1>4, <2>5, CommitIsSound DEF Decided
  <2> QED BY <2>1, <2>4, <2>6 DEF Completed, Row
<1>5. ASSUME UNCHANGED rows PROVE FALSE
  BY <1>5
<1>6. ASSUME NEW a \in Agents, NEW u \in Tasks, Begin(a, u) PROVE UNCHANGED rows
  BY <1>6 DEF Begin, BeginComplete, BeginFail, Load
<1>7. ASSUME NEW a \in Agents, ClaimStep(a) \/ Flush(a) \/ Crash(a) PROVE UNCHANGED rows
  BY <1>7 DEF ClaimStep, RequestClaim, AcquireClaimLock, SelectCandidate, ClaimNothing,
              Flush, Crash
<1> QED BY <1>1, <1>2, <1>3, <1>4, <1>5, <1>6, <1>7 DEF Next, vars

-----------------------------------------------------------------------------
(* What a step may do to the lease of a task.                              *)

Unleased(row) == row.state = "running" /\ row.lease = "null"

\* A retry that saw its task pending, with a lease.
StaleRetry(a) ==
    /\ tx[a].step = "commit"
    /\ tx[a].seen.state = "pending" /\ tx[a].seen.lease # "null"
    /\ tx[a].want = Requeued(tx[a].seen) /\ MayRetry(tx[a].seen)

\* A commit leaves a running row without a lease only if it is that of a stale retry.
LEMMA CommitsKeepLeases ==
  ASSUME IInv, NEW a \in Agents, Commit(a)
  PROVE  LET t == tx[a].task IN
         /\ t \in Tasks /\ \A u \in Tasks \ {t} : rows'[u] = rows[u]
         /\ Unleased(rows'[t]) =>
              Unleased(rows[t]) \/ (rows[t].state = "running" /\ StaleRetry(a))
<1> DEFINE t == tx[a].task
           seen == tx[a].seen
           want == tx[a].want
           new == Overwrite(rows[t], seen, want)
<1>0. /\ rows \in [Tasks -> Row] /\ tx[a] \in Request
  BY DEF IInv, TypeOK
<1>1. /\ t \in Tasks /\ seen \in Row /\ want \in Row /\ rows[t] \in Row
      /\ rows' = [rows EXCEPT ![t] = new]
      /\ \/ want = Claimed(seen, a) /\ rows[t] = seen
         \/ tx[a].step = "commit" /\ Decided(a)
  BY <1>0, CommitIsSound DEF Commit, Request
<1>2. rows'[t] = new /\ \A u \in Tasks \ {t} : rows'[u] = rows[u]
  BY <1>0, <1>1
<1>3. new.state = Column(rows[t].state, seen.state, want.state)
      /\ new.lease = Column(rows[t].lease, seen.lease, want.lease)
  BY DEF Overwrite
<1> HIDE DEF new
<1>4. CASE want = Claimed(seen, a) /\ rows[t] = seen
  <2>1. want.lease = "live"
    BY <1>1, <1>4 DEF Claimed, Row
  <2>2. new.lease = "live"
    BY <1>3, <1>4, <2>1 DEF Column
  <2> QED BY <1>1, <1>2, <2>2 DEF Unleased
<1>5. CASE want = Completed(seen, a) \/ want = Failed(seen)
  <2>1. want.state \in {"completed", "failed"}
    BY <1>1, <1>5 DEF Completed, Failed, Row
  <2>2. seen.state \in {"pending", "running"}
    BY CommitIsSound
  <2>3. new.state \in {"completed", "failed"}
    BY <1>3, <2>1, <2>2 DEF Column
  <2> QED BY <1>1, <1>2, <2>3 DEF Unleased
<1>6. CASE tx[a].step = "commit" /\ want = Requeued(seen) /\ MayRetry(seen)
  <2>1. want.state = "pending" /\ want.lease = "null"
    BY <1>1, <1>6 DEF Requeued, Row
  <2>2. Unleased(new) => /\ rows[t].state = "running" /\ seen.state = "pending"
                         /\ rows[t].lease = "null" \/ seen.lease # "null"
    BY <1>3, <2>1 DEF Column, Unleased
  <2> QED BY <1>1, <1>2, <1>6, <2>2 DEF Unleased, StaleRetry
<1> QED BY <1>1, <1>4, <1>5, <1>6 DEF Decided

\* The other steps leave no running row without a lease that had one.
LEMMA StepsKeepLeases ==
  ASSUME IInv, [Next]_vars, NEW t \in Tasks, Unleased(rows'[t])
  PROVE  \/ Unleased(rows[t])
         \/ \E a \in Agents : /\ Commit(a) /\ tx[a].task = t
                              /\ rows[t].state = "running" /\ StaleRetry(a)
<1>0. rows \in [Tasks -> Row] /\ \A u \in Tasks : rows[u] \in Row
  BY DEF IInv, TypeOK
<1>1. ASSUME NEW u \in Tasks, Enqueue(u) PROVE Unleased(rows[t])
  BY <1>0, <1>1 DEF Enqueue, NewRow, Absent, Unleased
<1>2. ASSUME NEW u \in Tasks, LeaseExpires(u) PROVE Unleased(rows[t])
  BY <1>0, <1>2 DEF LeaseExpires, Row, Unleased
<1>3. ASSUME Recover PROVE Unleased(rows[t])
  BY <1>0, <1>3 DEF Recover, Recovered, Row, Unleased
<1>4. ASSUME UNCHANGED rows PROVE Unleased(rows[t])
  BY <1>4
<1>5. ASSUME NEW a \in Agents, Commit(a)
      PROVE  \/ Unleased(rows[t])
             \/ tx[a].task = t /\ rows[t].state = "running" /\ StaleRetry(a)
  BY <1>5, CommitsKeepLeases
<1>6. ASSUME NEW a \in Agents, NEW u \in Tasks, Begin(a, u) PROVE UNCHANGED rows
  BY <1>6 DEF Begin, BeginComplete, BeginFail, Load
<1>7. ASSUME NEW a \in Agents, ClaimStep(a) \/ Flush(a) \/ Crash(a) PROVE UNCHANGED rows
  BY <1>7 DEF ClaimStep, RequestClaim, AcquireClaimLock, SelectCandidate, ClaimNothing,
              Flush, Crash
<1> QED BY <1>1, <1>2, <1>3, <1>4, <1>5, <1>6, <1>7 DEF Next, vars

\* A running task loses its lease to a retry only that loaded it between a recovery
\* and the claim by which it runs.
THEOREM LeasesLostToStaleRetries == Spec => LeaseLostOnlyToStaleRetry
<1>1. IInv /\ [Next]_vars =>
        [\A t \in Tasks : rows'[t].state = "running" /\ rows'[t].lease = "null" =>
           \/ rows[t].state = "running" /\ rows[t].lease = "null"
           \/ /\ rows[t].state = "running"
              /\ \E a \in Agents :
                    /\ tx[a].step = "commit" /\ tx[a].task = t
                    /\ tx[a].seen.state = "pending" /\ tx[a].seen.lease # "null"
                    /\ tx[a].want = Requeued(tx[a].seen)]_vars
  BY StepsKeepLeases DEF Unleased, StaleRetry
<1> QED BY <1>1, Invariance, PTL DEF Spec, LeaseLostOnlyToStaleRetry

\* The documented claim holds in a system without retries.
THEOREM LeasesKeptWithoutRetries ==
  ASSUME Budgets \subseteq {0}
  PROVE  Spec => []RunningIsLeased
<1> DEFINE NoBudget == \A t \in Tasks : rows[t].budget = 0
<1>1. Init => NoBudget /\ RunningIsLeased
  BY DEF Init, Absent, RunningIsLeased
<1>2. IInv /\ NoBudget /\ [Next]_vars => NoBudget'
  <2> SUFFICES ASSUME IInv, NoBudget, [Next]_vars, NEW t \in Tasks
               PROVE  rows'[t].budget = 0
    OBVIOUS
  <2>0. rows \in [Tasks -> Row] /\ \A u \in Tasks : rows[u] \in Row
    BY DEF IInv, TypeOK
  <2>1. ASSUME NEW u \in Tasks, Enqueue(u) PROVE rows'[t].budget = 0
    <3>1. PICK b \in Budgets : rows' = [rows EXCEPT ![u] = NewRow(b)]
      BY <2>1 DEF Enqueue
    <3>2. NewRow(b).budget = 0
      BY DEF NewRow, Absent
    <3> QED BY <2>0, <3>1, <3>2
  <2>2. ASSUME NEW u \in Tasks, LeaseExpires(u) PROVE rows'[t].budget = 0
    BY <2>0, <2>2 DEF LeaseExpires, Row
  <2>3. ASSUME Recover PROVE rows'[t].budget = 0
    BY <2>0, <2>3 DEF Recover, Recovered, Row
  <2>4. ASSUME NEW a \in Agents, Commit(a) PROVE rows'[t].budget = 0
    BY <2>0, <2>4, CommitIsSound DEF Commit, Overwrite
  <2>5. ASSUME UNCHANGED rows PROVE rows'[t].budget = 0
    BY <2>5
  <2>6. ASSUME NEW a \in Agents, NEW u \in Tasks, Begin(a, u) PROVE UNCHANGED rows
    BY <2>6 DEF Begin, BeginComplete, BeginFail, Load
  <2>7. ASSUME NEW a \in Agents, ClaimStep(a) \/ Flush(a) \/ Crash(a) PROVE UNCHANGED rows
    BY <2>7 DEF ClaimStep, RequestClaim, AcquireClaimLock, SelectCandidate, ClaimNothing,
                Flush, Crash
  <2> QED BY <2>1, <2>2, <2>3, <2>4, <2>5, <2>6, <2>7 DEF Next, vars
<1>3. IInv /\ NoBudget /\ RunningIsLeased /\ [Next]_vars => RunningIsLeased'
  <2> SUFFICES ASSUME IInv, NoBudget, RunningIsLeased, [Next]_vars,
                      NEW t \in Tasks, Unleased(rows'[t])
               PROVE  FALSE
    BY DEF RunningIsLeased, Unleased
  <2>1. PICK a \in Agents : Commit(a) /\ tx[a].task = t /\ StaleRetry(a)
    BY StepsKeepLeases DEF RunningIsLeased, Unleased
  <2>2. tx[a].seen.budget = 0 /\ tx[a].seen \in Row
    BY <2>1, CommitIsSound DEF IInv, TypeOK, Request
  <2> QED BY <2>1, <2>2 DEF StaleRetry, MayRetry, Row
<1> QED BY <1>1, <1>2, <1>3, Invariance, PTL DEF Spec

\* And in one without recovery, where nothing leaves a lease on a pending row.
THEOREM LeasesKeptWithoutRecovery == Spec /\ [][~Recover]_vars => []RunningIsLeased
<1> DEFINE LeaseFits(row) == /\ row.state = "pending" => row.lease = "null"
                             /\ row.state = "running" => row.lease # "null"
           AllFit == /\ \A t \in Tasks : LeaseFits(rows[t])
                     /\ \A a \in Agents : LeaseFits(tx[a].seen)
<1>1. Init => AllFit
  BY DEF Init, Absent, Idle
<1>2. IInv /\ AllFit /\ [Next]_vars /\ [~Recover]_vars => AllFit'
  <2> SUFFICES ASSUME IInv, AllFit, [Next]_vars, [~Recover]_vars
               PROVE  AllFit'
    OBVIOUS
  <2>0. /\ rows \in [Tasks -> Row] /\ tx \in [Agents -> Request]
        /\ \A t \in Tasks : rows[t] \in Row
        /\ \A a \in Agents : tx[a] \in Request
    BY DEF IInv, TypeOK
  <2>1. ASSUME NEW t \in Tasks, rows'[t].state = "running"
        PROVE  rows'[t].lease # "null"
    BY <2>1, StepsKeepLeases DEF Unleased, StaleRetry
  <2>2. ASSUME NEW t \in Tasks, rows'[t].state = "pending"
        PROVE  rows'[t].lease = "null"
    <3>1. ASSUME NEW u \in Tasks, Enqueue(u) PROVE rows'[t].lease = "null"
      BY <2>0, <2>2, <3>1 DEF Enqueue, NewRow, Absent
    <3>2. ASSUME NEW u \in Tasks, LeaseExpires(u) PROVE rows'[t].lease = "null"
      BY <2>0, <2>2, <3>2 DEF LeaseExpires, Row
    <3>3. ASSUME NEW a \in Agents, Commit(a) PROVE rows'[t].lease = "null"
      <4> DEFINE seen == tx[a].seen
                 want == tx[a].want
                 new == Overwrite(rows[t], seen, want)
      <4>1. CASE t # tx[a].task
        BY <2>0, <2>2, <3>3, <4>1 DEF Commit
      <4>2. CASE t = tx[a].task
        <5>1. rows' = [rows EXCEPT ![t] = new] /\ seen \in Row /\ LeaseFits(seen)
          BY <2>0, <3>3, <4>2 DEF Commit, Request
        <5>2. new.state = Column(rows[t].state, seen.state, want.state)
              /\ new.lease = Column(rows[t].lease, seen.lease, want.lease)
          BY DEF Overwrite
        <5> HIDE DEF new
        <5>3. new.state = "pending" /\ rows'[t] = new
          BY <2>0, <2>2, <5>1
        <5>4. want.state = "pending" \/ want.state = seen.state
          BY <5>2, <5>3 DEF Column
        <5>5. CASE want = Claimed(seen, a) /\ rows[t] = seen
          <6>1. want.state = "running"
            BY <5>1, <5>5 DEF Claimed, Row
          <6> QED BY <5>2, <5>3, <5>5, <6>1 DEF Column
        <5>6. CASE want = Completed(seen, a) \/ want = Failed(seen)
          <6>1. want.state \in {"completed", "failed"}
            BY <5>1, <5>6 DEF Completed, Failed, Row
          <6>2. seen.state \in {"pending", "running"}
            BY <3>3, CommitIsSound
          <6> QED BY <5>4, <6>1, <6>2
        <5>7. CASE want = Requeued(seen)
          <6>1. want.state = "pending" /\ want.lease = "null"
            BY <5>1, <5>7 DEF Requeued, Row
          <6>2. seen.state \in {"pending", "running"}
            BY <3>3, CommitIsSound
          <6>3. seen.state = "running" => new.lease = "null"
            BY <5>1, <5>2, <6>1 DEF Column
          <6>4. seen.state = "pending" => rows[t].state = "pending" /\ new.lease = rows[t].lease
            BY <5>1, <5>2, <5>3, <6>1 DEF Column
          <6> QED BY <5>3, <6>2, <6>3, <6>4
        <5> QED BY <3>3, <4>2, <5>5, <5>6, <5>7, CommitIsSound DEF Decided
      <4> QED BY <4>1, <4>2
    <3>4. ASSUME UNCHANGED rows PROVE rows'[t].lease = "null"
      BY <2>2, <3>4
    <3>5. ASSUME NEW a \in Agents, NEW u \in Tasks, Begin(a, u) PROVE UNCHANGED rows
      BY <3>5 DEF Begin, BeginComplete, BeginFail, Load
    <3>6. ASSUME NEW a \in Agents, ClaimStep(a) \/ Flush(a) \/ Crash(a) PROVE UNCHANGED rows
      BY <3>6 DEF ClaimStep, RequestClaim, AcquireClaimLock, SelectCandidate, ClaimNothing,
                  Flush, Crash
    <3> QED BY <3>1, <3>2, <3>3, <3>4, <3>5, <3>6 DEF Next, vars
  <2>3. ASSUME NEW a \in Agents PROVE LeaseFits(tx'[a].seen)
    <3>1. ASSUME NEW b \in Agents, tx' = [tx EXCEPT ![b] = Idle]
          PROVE  LeaseFits(tx'[a].seen)
      BY <2>0, <3>1 DEF Idle, Absent
    <3>2. ASSUME NEW b \in Agents, NEW step, tx' = [tx EXCEPT ![b].step = step]
          PROVE  LeaseFits(tx'[a].seen)
      BY <2>0, <3>2 DEF Request
    <3>3. ASSUME NEW b \in Agents, NEW t \in Tasks, NEW step, NEW want,
                 tx' = [tx EXCEPT ![b] = [step |-> step, task |-> t,
                                          seen |-> rows[t], want |-> want]]
          PROVE  LeaseFits(tx'[a].seen)
      BY <2>0, <3>3
    <3>4. ASSUME NEW b \in Agents, ClaimStep(b) \/ Flush(b) \/ Commit(b) \/ Crash(b)
          PROVE  LeaseFits(tx'[a].seen)
      BY <3>1, <3>2, <3>3, <3>4
         DEF ClaimStep, RequestClaim, AcquireClaimLock, SelectCandidate, ClaimNothing,
             Flush, Commit, Crash
    <3>5. ASSUME NEW b \in Agents, NEW t \in Tasks, Begin(b, t)
          PROVE  LeaseFits(tx'[a].seen)
      BY <3>3, <3>5 DEF Begin, BeginComplete, BeginFail, Load
    <3>6. ASSUME UNCHANGED tx PROVE LeaseFits(tx'[a].seen)
      BY <3>6
    <3>7. ASSUME NEW t \in Tasks, Enqueue(t) \/ LeaseExpires(t) PROVE UNCHANGED tx
      BY <3>7 DEF Enqueue, LeaseExpires
    <3>8. Recover => UNCHANGED tx
      BY DEF Recover
    <3> QED BY <3>4, <3>5, <3>6, <3>7, <3>8 DEF Next, vars
  <2> QED BY <2>1, <2>2, <2>3
<1>3. AllFit => RunningIsLeased
  BY DEF RunningIsLeased
<1> QED BY <1>1, <1>2, <1>3, Invariance, PTL DEF Spec

-----------------------------------------------------------------------------
(* The queue implements Assignment.                                        *)

\* A task passes from one agent to another only by way of nobody's: claims, results,
\* failures, recoveries and crashes together are steps of Assignment.
THEOREM Refinement == Spec => ImplementsAssignment
<1>1. Init => Holding!Init
  BY DEF Init, Holding!Init, holder, Absent
<1>2. IInv /\ [Next]_vars => [Holding!Next]_holder
  <2> SUFFICES ASSUME IInv, [Next]_vars PROVE Holding!Next \/ UNCHANGED holder
    OBVIOUS
  <2>0. rows \in [Tasks -> Row] /\ AgentMatchesState
    BY DEF IInv, TypeOK
  <2>1. CASE \A t \in Tasks : rows'[t].state = "running" =>
                rows[t].state = "running" /\ rows'[t].agent = rows[t].agent
    <3> DEFINE T == {t \in Tasks : rows[t].state = "running" /\ rows'[t].state # "running"}
    <3>1. \A t \in T : holder[t] # Nobody
      BY <2>0 DEF holder, AgentMatchesState, AgentMatches
    <3>2. holder' = [t \in Tasks |-> IF t \in T THEN Nobody ELSE holder[t]]
      BY <2>1 DEF holder
    <3>3. Holding!TakeBack(T)
      BY <3>1, <3>2 DEF Holding!TakeBack
    <3>4. T \in SUBSET Tasks
      OBVIOUS
    <3> QED BY <3>3, <3>4 DEF Holding!Next
  <2>2. ASSUME NEW t \in Tasks, NEW a \in Agents, Reclaimable(rows[t]),
               rows' = [rows EXCEPT ![t] = Claimed(rows[t], a)]
        PROVE  Holding!Next
    <3>1. rows[t] \in Row /\ rows'[t] = Claimed(rows[t], a)
      BY <2>0, <2>2
    <3>2. rows'[t].state = "running" /\ rows'[t].agent = a
      BY <3>1 DEF Claimed, Row
    <3>3. holder' = [holder EXCEPT ![t] = a]
      BY <2>0, <2>2, <3>2 DEF holder
    <3>4. holder[t] = Nobody
      BY <2>2 DEF holder, Reclaimable
    <3> QED BY <3>3, <3>4 DEF Holding!Next, Holding!Grant
  <2> QED BY <2>1, <2>2, GrantsAreClaims
<1> QED BY <1>1, <1>2, Invariance, PTL DEF Spec, ImplementsAssignment, Holding!Spec

=============================================================================
