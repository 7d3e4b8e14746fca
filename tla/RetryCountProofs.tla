-------------------------- MODULE RetryCountProofs --------------------------
(***************************************************************************)
(* What retry_count says of the retries of a task, for every set of tasks, *)
(* agents and budgets.                                                     *)
(***************************************************************************)
EXTENDS RetryCount, TaskQueueProofs

\* The history restricts nothing: with it, the queue is still the queue.
LEMMA CountedQueue == CountedSpec => Spec
<1>1. CountedInit => Init
  BY DEF CountedInit
<1>2. [CountedNext]_<<vars, counters>> => [Next]_vars
  BY DEF CountedNext
<1> QED BY <1>1, <1>2, PTL DEF CountedSpec, Spec

\* Only a Begin makes a request a retry, and it reads the row in the same step.
LEMMA RetriesBegin ==
  ASSUME IInv, [Next]_vars, NEW t \in Tasks, NEW a \in Agents, IsRetry(tx[a], t)'
  PROVE  /\ ~(Commit(a) /\ IsRetry(tx[a], t))
         /\ \/ IsRetry(tx[a], t) /\ tx'[a].seen = tx[a].seen
            \/ tx'[a].seen = rows[t] /\ UNCHANGED rows
<1> DEFINE Goal == \/ IsRetry(tx[a], t) /\ tx'[a].seen = tx[a].seen
                   \/ tx'[a].seen = rows[t] /\ UNCHANGED rows
<1>0. tx \in [Agents -> Request]
  BY DEF IInv, TypeOK
<1>1. ASSUME NEW b \in Agents, tx' = [tx EXCEPT ![b] = Idle] PROVE Goal /\ ~Commit(a)
  <2>1. b # a
    BY <1>0, <1>1 DEF IsRetry, Idle
  <2>2. tx'[a] = tx[a] /\ tx'[a] # Idle
    BY <1>0, <1>1, <2>1 DEF IsRetry, Idle
  <2> QED BY <1>0, <2>2 DEF IsRetry, Commit
<1>2. ASSUME NEW b \in Agents, ClaimNothing(b) \/ Commit(b) \/ Crash(b)
      PROVE  Goal /\ ~Commit(a)
  BY <1>1, <1>2 DEF ClaimNothing, Commit, Crash
<1>3. ~Commit(a)
  BY <1>1 DEF Commit
<1>4. ASSUME NEW b \in Agents, NEW step \in Steps, tx' = [tx EXCEPT ![b].step = step],
             tx[b].step = "flush" \/ step \in {"claim", "select"}
      PROVE  Goal
  BY <1>0, <1>4 DEF IsRetry, Request
<1>5. ASSUME NEW b \in Agents, RequestClaim(b) \/ AcquireClaimLock(b) \/ Flush(b) PROVE Goal
  BY <1>4, <1>5 DEF RequestClaim, AcquireClaimLock, Flush, Steps
<1>6. ASSUME NEW b \in Agents, SelectCandidate(b) PROVE Goal
  <2>1. tx'[b].step = "claim_commit" /\ \A c \in Agents \ {b} : tx'[c] = tx[c]
    BY <1>0, <1>6 DEF SelectCandidate
  <2> QED BY <2>1 DEF IsRetry
<1>7. ASSUME NEW b \in Agents, NEW u \in Tasks, NEW want, Load(b, u, want) PROVE Goal
  BY <1>0, <1>7 DEF Load, IsRetry
<1>8. ASSUME NEW b \in Agents, NEW u \in Tasks, Begin(b, u) PROVE Goal
  BY <1>7, <1>8 DEF Begin, BeginComplete, BeginFail
<1>9. ASSUME UNCHANGED tx PROVE Goal
  BY <1>9 DEF IsRetry
<1>10. ASSUME NEW u \in Tasks, Enqueue(u) \/ LeaseExpires(u) PROVE Goal
  BY <1>9, <1>10 DEF Enqueue, LeaseExpires
<1>11. ASSUME Recover PROVE Goal
  BY <1>9, <1>11 DEF Recover
<1> QED
  BY <1>2, <1>3, <1>5, <1>6, <1>8, <1>9, <1>10, <1>11 DEF Next, ClaimStep, vars

\* A retry that commits writes the count it read plus one.
LEMMA RetriesCount ==
  ASSUME IInv, NEW t \in Tasks, NEW a \in Agents, Commit(a), IsRetry(tx[a], t)
  PROVE  rows'[t].retries = tx[a].seen.retries + 1
<1>1. /\ tx[a].seen \in Row /\ rows \in [Tasks -> Row]
      /\ rows' = [rows EXCEPT ![t] = Overwrite(rows[t], tx[a].seen, tx[a].want)]
  BY DEF IInv, TypeOK, Request, Commit, IsRetry
<1>2. tx[a].want.retries = tx[a].seen.retries + 1 /\ tx[a].seen.retries \in Nat
  BY <1>1 DEF IsRetry, Requeued, Row
<1>3. rows'[t].retries = Column(rows[t].retries, tx[a].seen.retries, tx[a].want.retries)
  BY <1>1 DEF Overwrite
<1> QED BY <1>2, <1>3 DEF Column

\* Nothing else writes the count, and no row is deleted.
LEMMA OnlyRetriesCount ==
  ASSUME IInv, [Next]_vars, NEW t \in Tasks,
         ~\E a \in Agents : IsRetry(tx[a], t) /\ Commit(a)
  PROVE  /\ \/ rows'[t].retries = rows[t].retries
            \/ rows[t].state = "absent" /\ rows'[t].retries = 0
         /\ rows'[t].state = "absent" =>
               rows[t].state = "absent" /\ rows'[t].retries = rows[t].retries
<1> DEFINE Goal ==
      /\ \/ rows'[t].retries = rows[t].retries
         \/ rows[t].state = "absent" /\ rows'[t].retries = 0
      /\ rows'[t].state = "absent" =>
            rows[t].state = "absent" /\ rows'[t].retries = rows[t].retries
<1>0. /\ rows \in [Tasks -> Row] /\ \A u \in Tasks : rows[u] \in Row
      /\ \A a \in Agents : tx[a] \in Request
  BY DEF IInv, TypeOK
<1>1. ASSUME UNCHANGED rows PROVE Goal
  BY <1>1
<1>2. ASSUME NEW u \in Tasks, Enqueue(u) PROVE Goal
  BY <1>0, <1>2 DEF Enqueue, NewRow, Absent
<1>3. ASSUME NEW u \in Tasks, LeaseExpires(u) PROVE Goal
  BY <1>0, <1>3 DEF LeaseExpires, Row
<1>4. ASSUME Recover PROVE Goal
  <2>1. Recovered(rows[t]).retries = rows[t].retries /\ Recovered(rows[t]).state = "pending"
    BY <1>0 DEF Recovered, Row
  <2> QED BY <1>4, <2>1 DEF Recover
<1>5. ASSUME NEW a \in Agents, Commit(a) PROVE Goal
  <2>1. CASE tx[a].task # t
    BY <1>0, <1>5, <2>1 DEF Commit
  <2>2. CASE tx[a].task = t
    <3> DEFINE seen == tx[a].seen
               want == tx[a].want
    <3>1. seen \in Row /\ want \in Row
      BY <1>0 DEF Request
    <3>2. rows'[t] = Overwrite(rows[t], seen, want) /\ rows[t].state # "absent"
      BY <1>0, <1>5, <2>2, CommitIsSound DEF Commit
    <3>3. \/ want = Claimed(seen, a) \/ want = Completed(seen, a) \/ want = Failed(seen)
      BY <1>5, <2>2, CommitIsSound DEF Decided, IsRetry
    <3>4. want.retries = seen.retries /\ want.state # "absent"
      BY <3>1, <3>3 DEF Claimed, Completed, Failed, Row
    <3>5. /\ rows'[t].retries = Column(rows[t].retries, seen.retries, want.retries)
          /\ rows'[t].state = Column(rows[t].state, seen.state, want.state)
      BY <3>2 DEF Overwrite
    <3> QED BY <3>2, <3>4, <3>5 DEF Column
  <2> QED BY <2>1, <2>2
<1>6. ASSUME NEW a \in Agents, NEW u \in Tasks, Begin(a, u) PROVE UNCHANGED rows
  BY <1>6 DEF Begin, BeginComplete, BeginFail, Load
<1>7. ASSUME NEW a \in Agents, ClaimStep(a) \/ Flush(a) \/ Crash(a) PROVE UNCHANGED rows
  BY <1>7 DEF ClaimStep, RequestClaim, AcquireClaimLock, SelectCandidate, ClaimNothing,
              Flush, Crash
<1> QED BY <1>1, <1>2, <1>3, <1>4, <1>5, <1>6, <1>7 DEF Next, vars

LEMMA CountPreserved ==
  IInv /\ IInv' /\ CountInv /\ [CountedNext]_<<vars, counters>> => CountInv'
<1> SUFFICES ASSUME IInv, IInv', CountInv, [CountedNext]_<<vars, counters>> PROVE CountInv'
  OBVIOUS
<1>1. CASE UNCHANGED <<vars, counters>>
  BY <1>1 DEF CountInv, RequeuesAreCounted, Overlapping, IsRetry, vars, counters
<1>2. CASE CountedNext
  <2>0. [Next]_vars /\ Count
    BY <1>2 DEF CountedNext
  <2> DEFINE Retried(t) == \E a \in Agents : IsRetry(tx[a], t) /\ Commit(a)
  <2>1. /\ requeued' = [t \in Tasks |-> IF t \notin raced /\ Retried(t) THEN requeued[t] + 1
                                                                   ELSE requeued[t]]
        /\ raced' = raced \cup {t \in Tasks : Overlapping(t)'}
    BY <2>0 DEF Count
  <2> HIDE DEF Retried
  <2>2. requeued' \in [Tasks -> Nat]
    BY <2>1 DEF CountInv
  <2>3. \A t \in Tasks \ raced' : t \notin raced /\ ~Overlapping(t)'
    BY <2>1
  <2>4. ASSUME NEW t \in Tasks \ raced, Retried(t)
        PROVE  /\ rows'[t].retries = rows[t].retries + 1
               /\ \A a \in Agents : ~(IsRetry(tx[a], t)' /\ IsRetry(tx[a], t))
    <3>1. PICK b \in Agents : IsRetry(tx[b], t) /\ Commit(b)
      BY <2>4 DEF Retried
    <3>2. rows'[t].retries = rows[t].retries + 1
      BY <3>1, RetriesCount DEF CountInv
    <3>3. \A a \in Agents : IsRetry(tx[a], t) => a = b
      BY <3>1 DEF CountInv, Overlapping
    <3>4. ~IsRetry(tx[b], t)'
      BY <2>0, <3>1, RetriesBegin
    <3> QED BY <3>2, <3>3, <3>4
  <2>5. ASSUME NEW t \in Tasks, ~Retried(t)
        PROVE  /\ \/ rows'[t].retries = rows[t].retries
                  \/ rows[t].state = "absent" /\ rows'[t].retries = 0
               /\ rows'[t].state = "absent" =>
                     rows[t].state = "absent" /\ rows'[t].retries = rows[t].retries
    BY <2>0, <2>5, OnlyRetriesCount DEF Retried
  <2>6. ASSUME NEW t \in Tasks, rows'[t].state = "absent" PROVE rows'[t].retries = 0
    <3>1. CASE Retried(t)
      <4>1. PICK b \in Agents : IsRetry(tx[b], t) /\ Commit(b)
        BY <3>1 DEF Retried
      <4>2. rows'[t].state = Column(rows[t].state, tx[b].seen.state, tx[b].want.state)
        BY <4>1 DEF Commit, IsRetry, Overwrite, IInv, TypeOK
      <4>3. rows[t].state # "absent" /\ tx[b].seen \in Row
        BY <4>1, CommitIsSound DEF IsRetry, IInv, TypeOK, Request
      <4>4. tx[b].want.state = "pending"
        BY <4>1, <4>3 DEF IsRetry, Requeued, Row
      <4> QED BY <2>6, <4>2, <4>3, <4>4 DEF Column
    <3>2. CASE ~Retried(t)
      BY <2>5, <2>6, <3>2 DEF CountInv
    <3> QED BY <3>1, <3>2
  <2>7. ASSUME NEW t \in Tasks \ raced' PROVE requeued'[t] = rows'[t].retries
    <3>1. t \notin raced /\ requeued[t] = rows[t].retries
      BY <2>3 DEF CountInv, RequeuesAreCounted
    <3>2. CASE Retried(t)
      BY <2>1, <2>4, <3>1, <3>2
    <3>3. CASE ~Retried(t)
      BY <2>1, <2>5, <3>1, <3>3 DEF CountInv
    <3> QED BY <3>2, <3>3
  <2>8. ASSUME NEW t \in Tasks \ raced', NEW a \in Agents, IsRetry(tx[a], t)'
        PROVE  tx'[a].seen.retries = rows'[t].retries
    <3>1. t \notin raced
      BY <2>3
    <3>2. CASE tx'[a].seen = rows[t] /\ UNCHANGED rows
      BY <3>2
    <3>3. CASE IsRetry(tx[a], t) /\ tx'[a].seen = tx[a].seen
      <4>1. tx'[a].seen.retries = rows[t].retries
        BY <3>1, <3>3 DEF CountInv
      <4>2. ~Retried(t)
        BY <2>4, <2>8, <3>1, <3>3
      <4>3. rows[t].state # "absent"
        BY <3>3 DEF IInv, RequestsAreSound, IntentFitsWhatWasSeen, IsRetry
      <4> QED BY <2>5, <4>1, <4>2, <4>3
    <3> QED BY <2>0, <2>8, <3>2, <3>3, RetriesBegin
  <2>9. ASSUME NEW t \in Tasks \ raced' PROVE requeued'[t] <= rows'[t].budget
    <3>1. rows'[t].retries <= rows'[t].budget
      BY DEF IInv, RetriesWithinBudget
    <3> QED BY <2>7, <3>1
  <2> QED BY <2>2, <2>3, <2>6, <2>7, <2>8, <2>9 DEF CountInv, RequeuesAreCounted
<1> QED BY <1>1, <1>2

\* A task is requeued exactly as often as its retry_count says and no more often than
\* its max_retries allows, unless two fail() calls that retry it overlapped.
THEOREM RequeuesCounted == CountedSpec => []RequeuesAreCounted
<1>1. CountedInit => CountInv
  <2> SUFFICES ASSUME CountedInit PROVE CountInv
    OBVIOUS
  <2>1. \A a \in Agents, t \in Tasks : ~IsRetry(tx[a], t)
    BY DEF CountedInit, Init, IsRetry, Idle
  <2> QED BY <2>1, BudgetsAreCounts
          DEF CountedInit, Init, CountInv, RequeuesAreCounted, Overlapping, Absent
<1>2. CountInv => RequeuesAreCounted
  BY DEF CountInv
<1> QED BY <1>1, <1>2, CountPreserved, CountedQueue, Invariance, PTL DEF CountedSpec

=============================================================================
