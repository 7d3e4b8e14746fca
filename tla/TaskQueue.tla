------------------------------ MODULE TaskQueue ------------------------------
(***************************************************************************)
(* The durable task queue, app/orchestrator/queue.py, on PostgreSQL: the   *)
(* rows of the tasks table and the transactions with which concurrent      *)
(* agents claim, complete, fail and recover them.                          *)
(*                                                                         *)
(* Every TaskQueue method runs in one session_scope (app/db/__init__.py),  *)
(* a READ COMMITTED transaction that commits on a clean exit.  complete    *)
(* and fail read their row with a plain SELECT, decide, and flush an       *)
(* UPDATE: the decision is taken on what was read, the UPDATE then waits   *)
(* for the row lock and hits whatever row is there by then.  The UPDATE    *)
(* names only the columns whose value the method changed, because the ORM  *)
(* compares the new values with the ones it loaded.                        *)
(*                                                                         *)
(* Time is abstracted to what the queries tell apart: a lease is NULL, in  *)
(* the future ("live") or in the past ("expired").                         *)
(***************************************************************************)
EXTENDS Integers

CONSTANTS
    Tasks,      \* row ids; their order is the order of created_at
    Agents,     \* callers, each with one request in flight, claiming for itself
    Budgets,    \* the values of max_retries that producers ask for
    Nobody      \* SQL NULL in assigned_agent_id, an empty output_payload

ASSUME TasksAreOrdered == Tasks \subseteq Nat
ASSUME BudgetsAreCounts == Budgets \subseteq Nat
ASSUME NobodyIsNull == Nobody \notin Agents

VARIABLES
    rows,       \* the committed tasks table
    tx          \* the request each agent has in flight

vars == <<rows, tx>>

-----------------------------------------------------------------------------

States == {"absent", "pending", "running", "awaiting_review", "completed", "failed"}
Leases == {"null", "live", "expired"}

Row == [state: States, agent: Agents \cup {Nobody}, lease: Leases,
        retries: Nat, budget: Nat, output: Agents \cup {Nobody}]

\* An id under which no row has been inserted yet.
Absent == [state |-> "absent", agent |-> Nobody, lease |-> "null",
           retries |-> 0, budget |-> 0, output |-> Nobody]

Steps == {"idle", "claim", "select", "claim_commit", "flush", "commit"}

\* seen is the row as the request loaded it, want the row it means to leave.
Request == [step: Steps, task: Tasks \cup {Nobody}, seen: Row, want: Row]
Idle == [step |-> "idle", task |-> Nobody, seen |-> Absent, want |-> Absent]

-----------------------------------------------------------------------------
(* What each method makes of the row it loaded.                            *)

NewRow(budget) == [Absent EXCEPT !.state = "pending", !.budget = budget]

Claimed(row, a) == [row EXCEPT !.state = "running", !.agent = a, !.lease = "live"]

Completed(row, a) == [row EXCEPT !.state = "completed", !.output = a, !.lease = "null"]


MayRetry(row) == row.retries + 1 <= row.budget

\* Variant: counts the attempts that are left.
RequeuedCountingDown(row) == [row EXCEPT !.state = "pending", !.agent = Nobody,
                                         !.lease = "null", !.retries = row.retries - 1]

Requeued(row) == [row EXCEPT !.state = "pending", !.agent = Nobody,
                             !.lease = "null", !.retries = row.retries + 1]

Failed(row) == [row EXCEPT !.state = "failed", !.lease = "null"]

\* Variant: the agent is not reset.
RecoveredForItsAgent(row) == [row EXCEPT !.state = "pending"]

Recovered(row) == [row EXCEPT !.state = "pending", !.agent = Nobody]

\* Variant: recovery left to claim(), which takes over expired leases itself.
ReclaimableOrStale(row) ==
    \/ row.state = "pending" /\ row.lease # "live"
    \/ row.state = "running" /\ row.lease = "expired"

Reclaimable(row) == row.state = "pending" /\ row.lease # "live"

Stale(row) == row.state = "running" /\ row.lease = "expired"

-----------------------------------------------------------------------------
(* The unit of work: a column is written iff the method changed it.        *)

Column(cur, seen, want) == IF want = seen THEN cur ELSE want

\* Variant: lease_until is set by every UPDATE.
OverwriteLeaseToo(cur, seen, want) ==
    [state   |-> Column(cur.state, seen.state, want.state),
     agent   |-> Column(cur.agent, seen.agent, want.agent),
     lease   |-> want.lease,
     retries |-> Column(cur.retries, seen.retries, want.retries),
     budget  |-> cur.budget,
     output  |-> Column(cur.output, seen.output, want.output)]

Overwrite(cur, seen, want) ==
    [state   |-> Column(cur.state, seen.state, want.state),
     agent   |-> Column(cur.agent, seen.agent, want.agent),
     lease   |-> Column(cur.lease, seen.lease, want.lease),
     retries |-> Column(cur.retries, seen.retries, want.retries),
     budget  |-> cur.budget,
     output  |-> Column(cur.output, seen.output, want.output)]

\* Variant: claim() selects without FOR UPDATE.
LocksOnFlush(a, t) == tx[a].step = "commit" /\ tx[a].task = t

\* A claimer locks the row it selects, a writer the row it flushes, until the
\* transaction ends.
Locks(a, t) == tx[a].step \in {"claim_commit", "commit"} /\ tx[a].task = t
Locked(t) == \E a \in Agents : Locks(a, t)

\* pg_advisory_xact_lock: taken before the SELECT, released with the transaction.
HoldsClaimLock(a) == tx[a].step \in {"select", "claim_commit"}

-----------------------------------------------------------------------------

Init ==
    /\ rows = [t \in Tasks |-> Absent]
    /\ tx = [a \in Agents |-> Idle]

Enqueue(t) ==
    /\ rows[t].state = "absent"
    /\ \E b \in Budgets : rows' = [rows EXCEPT ![t] = NewRow(b)]
    /\ UNCHANGED tx

\* claim() up to the advisory lock it waits for.
RequestClaim(a) ==
    /\ tx[a].step = "idle"
    /\ tx' = [tx EXCEPT ![a].step = "claim"]
    /\ UNCHANGED rows

AcquireClaimLock(a) ==
    /\ tx[a].step = "claim"
    /\ \A b \in Agents : ~HoldsClaimLock(b)
    /\ tx' = [tx EXCEPT ![a].step = "select"]
    /\ UNCHANGED rows

\* SELECT ... ORDER BY created_at LIMIT 1 FOR UPDATE SKIP LOCKED, and the
\* UPDATE of the row it returned, which the row lock makes one step.
SelectCandidate(a) ==
    LET candidates == {t \in Tasks : Reclaimable(rows[t]) /\ ~Locked(t)}
    IN  /\ tx[a].step = "select"
        /\ \E t \in candidates :
             /\ \A u \in candidates : t <= u
             /\ tx' = [tx EXCEPT ![a] = [step |-> "claim_commit", task |-> t,
                                         seen |-> rows[t], want |-> Claimed(rows[t], a)]]
        /\ UNCHANGED rows

\* No candidate: claim returns None and its transaction ends.
ClaimNothing(a) ==
    /\ tx[a].step = "select"
    /\ \A t \in Tasks : Reclaimable(rows[t]) => Locked(t)
    /\ tx' = [tx EXCEPT ![a] = Idle]
    /\ UNCHANGED rows

\* The plain SELECT of complete and fail, and the decision taken on it.  A row
\* that fails the state check raises and leaves everything as it is.
Load(a, t, want) ==
    /\ tx[a].step = "idle"
    /\ tx' = [tx EXCEPT ![a] = [step |-> "flush", task |-> t,
                                seen |-> rows[t], want |-> want]]
    /\ UNCHANGED rows

\* Variant: also finishes a task that awaits a review.
BeginCompleteParked(a, t) ==
    /\ rows[t].state \in {"running", "pending", "awaiting_review"}
    /\ Load(a, t, Completed(rows[t], a))

\* complete() never asks who holds the task: any caller may report a result.
BeginComplete(a, t) ==
    /\ rows[t].state \in {"running", "pending"}
    /\ Load(a, t, Completed(rows[t], a))

\* Variant: fail() without its check of the state.
BeginFailUnchecked(a, t, retry) ==
    /\ rows[t].state # "absent"
    /\ Load(a, t, IF retry /\ MayRetry(rows[t]) THEN Requeued(rows[t])
                                                ELSE Failed(rows[t]))

BeginFail(a, t, retry) ==
    /\ rows[t].state \in {"running", "awaiting_review", "pending"}
    /\ Load(a, t, IF retry /\ MayRetry(rows[t]) THEN Requeued(rows[t])
                                                ELSE Failed(rows[t]))

\* The UPDATE waits until it gets the row lock.
Flush(a) ==
    /\ tx[a].step = "flush"
    /\ ~Locked(tx[a].task)
    /\ tx' = [tx EXCEPT ![a].step = "commit"]
    /\ UNCHANGED rows

Commit(a) ==
    /\ tx[a].step \in {"claim_commit", "commit"}
    /\ rows' = [rows EXCEPT ![tx[a].task] = Overwrite(@, tx[a].seen, tx[a].want)]
    /\ tx' = [tx EXCEPT ![a] = Idle]

\* One UPDATE over every stale row.  It waits for the locked ones and checks
\* its WHERE again on what it then finds, so it takes effect when none is locked.
Recover ==
    /\ \E t \in Tasks : Stale(rows[t])
    /\ \A t \in Tasks : Stale(rows[t]) => ~Locked(t)
    /\ rows' = [t \in Tasks |-> IF Stale(rows[t]) THEN Recovered(rows[t]) ELSE rows[t]]
    /\ UNCHANGED tx

\* The clock passes lease_until; no code renews a lease.
LeaseExpires(t) ==
    /\ rows[t].lease = "live"
    /\ rows' = [rows EXCEPT ![t].lease = "expired"]
    /\ UNCHANGED tx

\* The process dies, or the method raises: the transaction rolls back and its
\* locks are gone.
Crash(a) ==
    /\ tx[a].step # "idle"
    /\ tx' = [tx EXCEPT ![a] = Idle]
    /\ UNCHANGED rows

ClaimStep(a) ==
    RequestClaim(a) \/ AcquireClaimLock(a) \/ SelectCandidate(a) \/ ClaimNothing(a)

Begin(a, t) ==
    BeginComplete(a, t) \/ \E retry \in BOOLEAN : BeginFail(a, t, retry)

Next ==
    \/ \E t \in Tasks : Enqueue(t) \/ LeaseExpires(t)
    \/ \E a \in Agents : ClaimStep(a) \/ Flush(a) \/ Commit(a) \/ Crash(a)
    \/ \E a \in Agents, t \in Tasks : Begin(a, t)
    \/ Recover

Spec == Init /\ [][Next]_vars

-----------------------------------------------------------------------------
(* Properties.                                                             *)

\* Every row and every request in flight has the shape the schema gives it.
TypeOK ==
    /\ rows \in [Tasks -> Row]
    /\ tx \in [Agents -> Request]

\* The stored count of retries stays within max_retries, whatever stale count a racing
\* fail() writes back.  How often the task was really requeued is RetryCount's matter.
RetriesWithinBudget == \A t \in Tasks : rows[t].retries <= rows[t].budget

\* assigned_agent_id is "UUID of the agent that has claimed this task, or NULL
\* when unclaimed" (models/task.py).  The ORM writes state and agent separately
\* and only when they changed, so a stale writer could leave one without the other.
AgentMatches(row) ==
    /\ row.state = "pending" => row.agent = Nobody
    /\ row.state = "running" => row.agent # Nobody

AgentMatchesState == \A t \in Tasks : AgentMatches(rows[t])

\* claim() grants only rows that are pending without a live lease when the claim
\* commits: the row lock covers the gap between the SELECT and the COMMIT.
GrantsOnlyReclaimable ==
    [][\A t \in Tasks : rows[t].state # "running" /\ rows'[t].state = "running"
                         => Reclaimable(rows[t])]_vars

\* Leases keep their promise: the queue implements Assignment, where a task changes
\* hands only by way of nobody's.  A task is held by the agent of a running row.
holder == [t \in Tasks |-> IF rows[t].state = "running" THEN rows[t].agent ELSE Nobody]
Holding == INSTANCE Assignment
ImplementsAssignment == Holding!Spec

Final(row) == row.state \in {"completed", "failed"}

\* The state checks of complete() and fail() refuse a finished task: its state can
\* still change, but only by a request that loaded the row before it finished.
FinishedUnlessLoadedBefore ==
    [][\A t \in Tasks : Final(rows[t]) /\ rows'[t].state # rows[t].state =>
         \E a \in Agents : /\ tx[a].step = "commit" /\ tx[a].task = t
                           /\ ~Final(tx[a].seen)]_vars

\* No step leaves a running task without a lease, but for one: a retry that loaded the
\* task pending, with the lease that recovery had left on it, and commits after a claim.
LeaseLostOnlyToStaleRetry ==
    [][\A t \in Tasks : rows'[t].state = "running" /\ rows'[t].lease = "null" =>
         \/ rows[t].state = "running" /\ rows[t].lease = "null"
         \/ /\ rows[t].state = "running"
            /\ \E a \in Agents : /\ tx[a].step = "commit" /\ tx[a].task = t
                                 /\ tx[a].seen.state = "pending" /\ tx[a].seen.lease # "null"
                                 /\ tx[a].want = Requeued(tx[a].seen)]_vars

\* A row has one writer at a time; a claim commits over the very row it selected,
\* untouched since; and a writer waiting for its lock, whatever the row has become,
\* still holds an intention that was right for the row it loaded.
OneWriterPerRow ==
    \A a, b \in Agents, t \in Tasks : Locks(a, t) /\ Locks(b, t) => a = b

ClaimKeepsItsRow(a) ==
    tx[a].step = "claim_commit" =>
        /\ tx[a].task \in Tasks
        /\ tx[a].seen = rows[tx[a].task]
        /\ Reclaimable(tx[a].seen)
        /\ tx[a].want = Claimed(tx[a].seen, a)

IntentFitsWhatWasSeen(a) ==
    tx[a].step \in {"flush", "commit"} =>
        /\ tx[a].task \in Tasks
        /\ rows[tx[a].task].state # "absent"
        /\ rows[tx[a].task].budget = tx[a].seen.budget
        /\ tx[a].seen.state \in {"pending", "running"} /\ AgentMatches(tx[a].seen)
        /\ \/ tx[a].want = Completed(tx[a].seen, a)
           \/ tx[a].want = Requeued(tx[a].seen) /\ MayRetry(tx[a].seen)
           \/ tx[a].want = Failed(tx[a].seen)

RequestsAreSound ==
    /\ OneWriterPerRow
    /\ \A a \in Agents : ClaimKeepsItsRow(a) /\ IntentFitsWhatWasSeen(a)

\* Inductive: the properties of the rows lean on those of the requests, and the
\* other way round.
IInv ==
    /\ TypeOK
    /\ RetriesWithinBudget
    /\ AgentMatchesState
    /\ RequestsAreSound
    /\ \A t \in Tasks : rows[t].state # "awaiting_review"  \* set by the workflow only

-----------------------------------------------------------------------------
(* What the documentation says and the code does not keep.                 *)

\* "An agent that claims a task holds a lease" (SPEC.md): without one, a crash
\* of the agent is never noticed.
RunningIsLeased == \A t \in Tasks : rows[t].state = "running" => rows[t].lease # "null"

=============================================================================
