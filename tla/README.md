# A TLA+ model of the agent orchestration platform

This directory models the concurrent core of the repository: a durable task queue in
PostgreSQL, agents that claim tasks from it under leases, a workflow graph that drives
an agent run per task, a policy layer ("decision boundary") that gates the tools an
agent may use, and a queue of human reviews. The modules are checked by TLC on small
instances; the properties that matter most are proved with TLAPS for every value of
the constants. Paths are relative to `src/`.

## 1. The system

| part | state it keeps | operations | hard because |
|---|---|---|---|
| **Task queue** `app/orchestrator/queue.py` | the `tasks` table | enqueue, claim, complete, fail, recover_stale_tasks, get | transactions of many processes; decisions on rows read without a lock; leases that expire |
| **Human review queue** `app/orchestrator/review.py` | the `review_queue` table, a dict of futures per process | post, wait, resolve, list_pending, get | coroutines that interleave at awaits; lost wake-ups; two resolvers |
| **Workflow graph** `app/orchestrator/langgraph_flow.py` | the graph's state, the `runs` table, a memoised `_RunContext` | run_workflow: claim_task, run_agent, check_decision_boundary, request_human_review, finalize; resume_workflow | several transactions per run, nodes that swallow errors, a context shared by runs, a session held while another is awaited; a review gate that writes item and task in transactions of their own |
| **Agent** `app/orchestrator/agent.py` | a loop of LLM answers and tool calls | run | awaits between deciding and acting; bounded rounds |
| **Decision boundary** `app/orchestrator/decision_boundary.py` | a ledger of blast radius per principal | begin_task, evaluate, end_task | one dict shared by all runs |
| **Sessions** `app/db/__init__.py` | a pool of connections | session_scope | commit or rollback around everything above; whoever finds the pool exhausted waits until it times out |
| HTTP API `app/api`, admin UI `app/ui` | none | routes | thin wrappers; see section 7 |
| **RAG** `app/rag` | embedding cache (a dict and a list), `source_documents`, working memory | chunk_documents, embed, store_documents, retrieve, remember | threads that share an LRU whose lock is released while a provider is asked; failures half-way |
| Evaluation, tracing, logging, settings, scripts | reports, logs | | sequential |

How they interact: a producer (or `POST /api/agents/{id}/run`) enqueues a task;
`run_workflow` claims it through the queue, opens a row in `runs`, runs an `Agent`,
which asks the decision boundary before each tool call, and finalizes the task through
the queue. A run that needs review is meant to post an item, park its task, and leave the
rest to `resume_workflow`. `POST /api/tasks/recover` returns tasks with expired leases.

What makes each part correct:

* queue: a task is in one agent's hands at a time; its retries are counted and bounded; state,
  agent and lease of a row belong together; a finished task stays finished; requests
  return;
* reviews: a verdict is stored before anybody acts on it, is given once, and reaches
  whoever waits for it;
* workflow: it works on the task it was asked for, completes tasks only for work done
  and approved, ends them as a run reported, leaves no transaction open, and ends, even if the pool is exhausted;
* review gate: a task is parked with an item posted for it, is left alone until a verdict,
  and is failed only after one;
* RAG: a text is stored whole, in order and with its own vectors, or not at all; the
  cache's dict and list stay in step; every call ends;
* agent and boundary: no tool is run that the policy stops, no budget exceeded, no ledger entry left
  behind, and the loop ends.

`PROJECT.json` lists the hazards line by line, with the properties that cover them.

## 2. Modules

| module | models | state and actions |
|---|---|---|
| `TaskQueue` | `TaskQueue` on PostgreSQL | `rows`, `tx`: the committed table, and the transaction each agent has open |
| `RetryCount` | `TaskQueue` with a history of its retries, beside the column that counts them | the history variables `requeued` and `raced` |
| `Assignment` | the promise of a lease, abstractly | `holder`: granted from nobody, taken back to nobody |
| `HumanReview` | `HumanReviewQueue` | `items`, `futures`, `waiting`, `resolving` |
| `Workflow` | `run_workflow` and its nodes, **composed with `TaskQueue`** by `INSTANCE ... WITH Agents <- Runs` | `flow`, `runrows`, `run_id`, and the queue's variables; the connection pool as `Connections`, what each run keeps of it |
| `ReviewGate` | `request_human_review_node`, the finalize after it, and `resume_workflow`, **composed with `TaskQueue` and `HumanReview`** | `gate`, `resume`, and the variables of both queues |
| `DecisionBoundary` | `Agent.run` and `DecisionBoundaryMiddleware` | `ledger`, `run`, and the history variable `overlapped` |
| `Chunking` | `chunk_documents` and, as `Splits`, what a list of chunks is for | operators |
| `EmbeddingCache` | `EmbeddingClient.embed` under threads | `providers`, `cache`, `order`, `call` |
| `Retriever` | `store_documents` and `retrieve`, **composed with the cache** by extending it | `op`, `stored`, and the cache's variables |
| `MC*` | instances for TLC | |
| `*Proofs` | theorems and their proofs | |

Each module also holds, next to a definition, a few *variants* of it ("Variant: ...").
They are plausible bugs of the same code, and no specification uses them: substituted
for the definition they follow, each makes one of the properties fail, which shows
that the property has something to say about that code. `PROJECT.json` pairs them.

### Transactions

`complete()` and `fail()` are not one step each. The session is READ COMMITTED; the
row is read with a plain SELECT (`session.get`), the state check and the new values are
computed from it, and the UPDATE follows at the flush. Accordingly a request is

    BeginComplete / BeginFail   SELECT, check, decide    (tx.seen, tx.want)
    Flush                       UPDATE, waits for the row lock
    Commit                      the UPDATE takes effect, locks are released

and `Overwrite` lets the UPDATE name only the columns that differ from what was loaded,
as SQLAlchemy's unit of work does. The UPDATE is `WHERE id = ...`, so it applies to
whatever the row has become. `claim()` is RequestClaim, AcquireClaimLock (the advisory
lock), SelectCandidate (`FOR UPDATE SKIP LOCKED`: from here on the row is locked, so
its UPDATE can be part of the step) and Commit, or ClaimNothing. `recover_stale_tasks()`
is one UPDATE statement, which is atomic once it has its locks: PostgreSQL re-evaluates
the WHERE clause on rows it had to wait for. `Crash` is a rollback at any point: the
process dies, the connection breaks or the method raises.

Time is reduced to what the queries compare: a lease is NULL, live or expired, and
`LeaseExpires` may happen at any moment. Payloads are reduced to who wrote them.
`_ADVISORY_LOCK_CLAIM` is a single lock for all processes, as in the code (the
`README.md` of the repository speaks of `pg_advisory_xact_lock(task_id)`).

### Coroutines

In `HumanReview` and `DecisionBoundary` the actors are coroutines of one event loop:
what a method does between two awaits is one step. So `post()` is followed by a
separate registration of the future (closing the session awaits), `resolve()` wakes
after its commit (or, cancelled there, wakes nobody: `CutShort`), and `evaluate()` is split at the estimate it awaits (Propose,
Decide). A tool call that needs review is entered in the ledger by `evaluate()` and
dropped by the `end_task` that follows without an await, so `Decide` has only the net
effect. What stops a tool is what `evaluate()` asks: `sensitive_tools`, the roles' lists and
the ledger. `Tool.dangerous` and `_ALWAYS_REVIEW_ACTIONS` have no place in the model because
the loop never looks at them (section 4).

### The workflow

`flow[w].step` is the node, or the await within the node, where run `w` stands. A run
uses the queue only by the queue's own actions, under its own name as agent. `Context`
says which runs share a memoised graph: `run_workflow` with equal arguments does.
A run is given no task, or one whose row exists: ids are made with the row at its
enqueue. `Outcomes`, the results the agent may report, is a parameter, because the nodes are
written for all of them while the agent `run_agent_node` builds today has no tools and
no LLM and can only succeed.
A run takes part in the queue under its own identity. With the default arguments all
runs share the principal `"agent:orchestrator"`, which is not a UUID; PostgreSQL
refuses it as an agent id and the run raises in `claim_task` (an instance of `Crash`).
Distinct identities are what the parameter `principal` is for.

A session takes a connection with its first statement and keeps it until it ends. Between
two of its steps a run keeps one for the queue's transaction, and one more for the session
in which `claim_task_node` looked up the given task, which is still open while `claim()` or
`get()` runs in a session of its own. `Exhausted` compares what all runs keep with
`PoolSize`; every step that needs a connection is disabled then, that of `run_agent_node` (which
reads the task's payload) like those of `claim_task_node`. `TimesOut` is the error that
SQLAlchemy's pool raises after 30 seconds; `finalize_node` catches it and goes on.

### The review gate

No route of the graph leads to `request_human_review_node` today (`workflow_reviewed` shows
why), and nothing in the program calls `resume_workflow`. Both are exported, and are what the
graph is built for; `ReviewGate` models them as they are written, so that the race
conditions that await whoever repairs the route are known. A gate enters with a task that
is running, posts an item (`HumanReview!Post`), parks the task, and goes on to finalize,
as the edge of the graph does. Parking loads the row and writes `awaiting_review` whatever its state is, in a
transaction after that of the item. `resume_workflow` is `HumanReview`'s resolve()
followed, for a rejection, by a transaction that writes `failed` on whatever it loads.
Gates, humans and agents are all callers of the one `TaskQueue`, with its row locks and
column-wise updates. Nobody waits for futures here, so they are constant.

### Embeddings

A call of `embed()` is a Hit, or a Miss followed by steps at the providers and a Put: the lock
is held for the lookup and for the insertion, not in between. A vector is a record of the
text it was computed from and of its provider, so that a vector under the wrong key or in
the wrong row shows. Keys are stripped texts (SHA-256 tells apart what they tell
apart), so the cached vector of a text may be the one of a text with other blanks around
it, which is what the code does. `Retriever` makes one piece after the other pass through
the cache, as `embed_batch` does, and inserts all rows in one step, as the transaction
does. Chunking is exact, character by character over an alphabet of letters and one
blank; around blanks `strip()` can make a chunk lie within the one before, or repeat it,
which `Splits` allows.

## 3. Runs

Passing runs (`CHECK_DEADLOCK FALSE` where every run of the program may be over):

| run | question | instance |
|---|---|---|
| `task_queue` | do the rows stay sound, and is Assignment implemented, whatever interleaving of claims, reports, recoveries, lease expiries and crashes, to which writer alone is a lease lost, and when can retry_count be trusted? | 1 task, 3 agents (symmetric), budgets 0 and 1 |
| `human_review` | are futures awaited, verdicts stored before they are announced, and futures filed in time answered, or whose fault is it? | 1 item, 3 waiters, 2 resolvers |
| `workflow` | does the composition keep to the queue's operations, leave no transaction behind, end tasks as runs reported, and does every run end, though runs can exhaust the pool, and are they as many as the connections when they block each other? | 2 runs, 2 tasks, shared context, a pool of 2 |
| `review_gate` | was an item posted for every parked task, is it left alone, does a rejection follow a verdict, and is Assignment still implemented? | 1 gate, 1 human, 2 other agents (symmetric), 1 task, budget 1, one agent's transaction at a time beside those of the gate and the human |
| `retriever` | are texts stored whole with their vectors, is the cache sound, does every call end? | 2 threads, 3 texts, 2 queries, cache of 2, two attempts, every choice of keys, chunks of 1 and of 3 with overlap 2 |
| `decision_boundary` | are policy and budgets kept with roles, allow- and blocklists? | 3 runs, 2 principals with budgets 2 and 0, estimates 0, 1, 2 and the failure value 1000, 4 tools, 2 rounds of 2 calls |

Why these bounds are enough to be interesting. Everything that can go wrong with a row
concerns two writers that loaded it at different times and a claimer: one task, three
agents. Budgets 0 and 1 give a task that may not be retried and one that may once, so
that a stale `fail()` can meet the bound. Two tasks matter where the order of claims
does, that is in `workflow`, where a run may be given another task than it asked for.
The engine's default pool has 5 connections and 10 more in reserve; the pool of 2 is the
smallest in which every run can hold a connection and wait for another, and two runs do
(the theorem `DeadlockNeedsAFullPool` is about any size). In `review_gate` the unguarded writers
are the gate and the human, each against two agents that claim, report and recover; an item belongs to
one gate. The budget is 1, so that a `fail()` sends a parked task back to pending, where another agent
claims it or the gate's finalize finds it. The constraint `OneAgentAtATime` keeps the state space in
reach: how agents overlap with each other is the question of `task_queue`, and the theorems
are about any overlap.
In the review queue a waiter must be overwritten by a second and pushed out by a
third while one resolver is between its commit and its wake-up and the other holds a
stale reading; items do not interact. In the decision boundary the third run is the
one of another principal that must not disturb. In `retriever` three keys compete for a cache of two, so that threads evict what
the other has just missed or inserted; a text has one chunk, several equal ones, or blanks
at a cut; of two attempts at the provider either may succeed or fail. `MCRetriever` also assumes,
and TLC evaluates, that `ChunkDocuments` satisfies `Splits` for each of the 1093 texts of up to six
characters and each setting with chunks of up to four, which the theorem `DocumentsAreSplit` says
of all texts and settings. Nothing else is capped: retries are
bounded by the budget, the history of `RetryCount` by stopping at a task whose retries overlapped, rounds by `MaxIterations`, attempts
by `MaxRetries`. Symmetry is declared only in runs
without liveness, over agents; task ids are ordered by their creation and
not symmetric.

Fairness. Claims of liveness assume only that
the event loop resumes what is ready (weak fairness of the steps of a started request,
node or loop), that the database grants its locks to waiters in turn (strong fairness, as they can be overtaken but not for ever), that the pool times out
whoever waits for a connection (in `Workflow` both are part of the strong fairness of `Proceed`, one
per run: some step of a run that is enabled again and again is taken), and that
the agent's run returns, which is a loop of at most `max_iterations` rounds: the code sets no
timeout on LLM or tools, and a call that never returns would keep its run for ever. Threads
of the retriever run on once started; the providers' SDK has a timeout of its own. Nobody is assumed to resolve an item, to
crash, to cancel, or to call the recover route.

## 4. What the documentation says and the code does not keep

Each of these runs checks one property and finds it violated. `PROJECT.json` quotes the
sentence each refers to.

| run | what happens |
|---|---|
| `running_is_leased` | a `fail()` that loaded its task pending after a recovery, and retries it, clears the lease of a claim that committed meanwhile and leaves it running; without a lease recovery never finds it |
| `resolved_is_immutable` | two resolvers read pending, the second overwrites the first |
| `await_returns` | a verdict between the commit of `post()` and the registration of its future wakes nobody |
| `workflow_completed_by_work` | a run given a task reads it pending, another run claims it, the first finds nothing to claim and completes it over the head of the other |
| `workflow_reviewed` | the route to the review node tests a status that no node sets; the task is completed unreviewed |
| `budget_per_task` | two runs of one principal reset each other's ledger entry |

The same races have further consequences, which the modules have as behaviours but no run is spent
on:

* `max_retries` is the "maximum number of times this task may be retried" (`queue.py:66`) and
  `retry_count` the "number of times this task has been re-enqueued after failure"
  (`models/task.py:55`). Two `fail()` calls that read the same count both requeue the task,
  and the second writes the count of the first: with an agent that claims the task between
  their commits, a task with a budget of one is retried twice with a count of one. `RequeuesAreCounted`
  says that both sentences hold of every task of which no two retries were in flight together, and
  claims nothing of the others.
* "Callers awaiting wait are notified when resolve is invoked" (`review.py:67-69`) holds for one
  caller per item: a second one replaces the future of the first, and whichever is cancelled or answered drops
  the entry of the other, which then waits for ever. `AnsweredUnlessShared` says that an answer is missed in no
  other way, short of a resolver cancelled between its commit and its wake-up.
* the run id lives in a context that runs with equal arguments share, and is never reset: a run closes
  the row that was opened last in its context, be it that of a run still at work, and a run that
  opened none (it gave up in `claim_task_node`) closes an earlier one's. Rows of `runs` are therefore no record
  of how a run ended, and no property says they are.
* a run reports the end it meant to give its task, also when `complete()` refused or the
  database failed (`langgraph_flow.py:517`); `TasksEndAsReported` says that conversely no
  task ends otherwise than one of its runs reported.
* a `fail()` that loaded its row before a `complete()` committed sends the completed
  task back to pending (`FinishedUnlessLoadedBefore` says that this is the only way).
* a run asked for one pending task claims the oldest (`ClaimSucceeds` replaces `flow[w].task`).
* a recovered task is granted to a second agent while the first still works, since there is no
  heartbeat (repository `README.md:129`), and the report of the first may then finish it for the
  second: `complete()` does not ask who reports.
* nothing calls `recover_stale_tasks` but the route, so that `Recover` has no fairness although
  `docs/PROJECT_OVERVIEW.md:102` lists a sweeper.

The agent's gate is narrower than its documentation. A tool with `dangerous` set is "subject to the
decision-boundary policy (HITL review) regardless of arguments" (`agent.py:100-102`), and the tools of
`_ALWAYS_REVIEW_ACTIONS`, `http.post` and `http.delete` among them, "always require review" (`agent.py:170-191`).
Only `Agent.should_request_human_review` consults either (`agent.py:274-303`), and nothing in the program calls it:
`Agent.run` asks `evaluate()`, which knows `sensitive_tools` alone. So a dangerous tool, or one on the
agent's list and not on the middleware's, runs without review as long as the budget allows.
`ForbiddenToolsNeverRun` is about what `evaluate()` stops, and about nothing else.

At the review gate, `resume_workflow` says that it "transitions the task to the appropriate
terminal state" (`langgraph_flow.py:780-781`). It does for a rejection that comes after the
parking. An approved task is left parked for "the resume call from the caller" to complete
(`langgraph_flow.py:797-798`), but `complete()` refuses a task that awaits review, so no call of the
program completes it. A rejection given between the two transactions of the node is overwritten
by the parking: the task is parked with its item resolved, no listing of pending items shows it, and nothing takes it out but a `fail()`
(`ParkedWasPosted` therefore asks for an item, not for a pending one). The
same is left when the transaction after the verdict fails, since `resolve()` refuses the
second attempt. The comment that finalize "will see status=awaiting_review and end without
marking the task done" (`langgraph_flow.py:661-662`) describes a test that `finalize_node`
does not make: it is the refusal of `complete()` that keeps a parked task parked, and a
run whose task was failed and requeued in between completes it after all. Finally, the gate and the
human write the state alone: a parked row keeps its agent, and two `fail()` calls racing on it can
leave it pending with one, which `AgentMatchesState` excludes for the queue by itself.

In the RAG layer, a pseudo-embedding made while the OpenAI provider was down stays in the cache
after the provider has come back, and is compared with real vectors until it is evicted (field
`by` of a vector).

Also at odds with the documentation, though nothing a run could show: `fail_task`, its
dead letter queue and its audit row (repository `README.md:130`) do not exist; `claim()`'s
SQLite branch releases its lock before the SELECT it protects (`queue.py:210`);
`evaluate()` announces a denial for principals without a review role that it never gives
(`decision_boundary.py:252-255`); `POST /api/review/{id}/resolve` and the admin form
call `resolve()` without awaiting it; `POST /api/tasks/{id}/complete` and `/fail` catch
ValueError where the queue raises KeyError and RuntimeError;
`store_documents` sets neither `fetched_at` nor, by default, `external_id`, which
`document.py:62-90` declares NOT NULL, so that the database refuses its rows (in the model
`DatabaseRaises`; `Persist` is what the method does when the table takes them); and
`retrieve` selects `doc_metadata`, a column that exists nowhere (`retriever.py:193`).

## 5. Proofs

All proofs are checked to the last leaf by tlapm with Z3, Zenon and LS4. Assumptions are the
named ASSUMEs of the modules only: ids are ordered, budgets and radii are natural
numbers, NULL is not an id, every run has a context or a principal, at least one round, a
pool that is not empty, gates that are no other callers, a letter that is no blank.

Every invariant and every action property of a passing run is a theorem for all values of
the constants. Four of the six claims that section 4 refutes are theorems too, under the
condition that the code leaves unguarded:

| claim | holds if | theorem |
|---|---|---|
| `RunningIsLeased` | no task may be retried | `LeasesKeptWithoutRetries` |
| `RunningIsLeased` | nobody recovers stale tasks | `LeasesKeptWithoutRecovery` |
| `RunningIsLeased` | only workflow runs work on tasks | `RunsKeepLeases` |
| `ResolvedIsImmutable` | no two resolutions of an item overlap | `ImmutableUnlessShared` |
| `CompletedByWork` | no run is handed a task; all claim theirs | `ClaimersCompleteTheirWork` |
| `BudgetPerTask` | no two runs act for one principal | `BudgetKeptByOwnPrincipals` |

Of the other two, `AwaitReturns` is a claim of liveness, and `ReviewedBeforeCompleted` fails
for every run whose agent asks for review, so that no condition on the schedule saves it.

**`TaskQueueProofs`**, from `IInv`. `AgentMatchesState` and `RetriesWithinBudget` (the column
never exceeds the budget) speak of rows, but are not inductive: a request may write what it decided on an older row. `IInv`
therefore says of each request in flight that its intention was right for the row it
*saw* (`IntentFitsWhatWasSeen`), that a claim holds the very row it selected
(`ClaimKeepsItsRow`), that a row has one writer (`OneWriterPerRow`), and that budgets
never change after the load. The key step is `Commit`: `Overwrite` applied to any
sound row, from a sound intention, is sound, whichever columns it leaves alone.
Proved: `TypeCorrect`, `Invariance`,
`AgentTracksState`, `GrantsAreSafe`, `FinishedStays`, and `Refinement`: the queue
implements `Assignment` under `holder[t] = rows[t].agent if running`.

On leases, `running_is_leased` shows that a running task can lose its own;
`LeasesLostToStaleRetries` says how, and that there is no other way. The lease is a column like
any other, written only if it differs from what was loaded. A late writer that loaded the task running writes
its new state too; a claim writes a lease; so the one that leaves `running` and
clears the lease has loaded a pending row, with the lease that `recover_stale_tasks` left on it
("leave the lease as-is", `queue.py:343`), and has decided to retry. Hence it takes both a recovery and a
retry, and without either of them the documented claim is an invariant: that is what
`LeasesKeptWithoutRetries` and `LeasesKeptWithoutRecovery` prove, the latter with
an invariant that speaks of the rows that requests have seen as well as of the table.

**`RetryCountProofs`**, from `CountInv` on top of `IInv`. The step that could go wrong is the commit of a
retry, which writes the count it read plus one. `CountInv` says that an unraced task has at
most one retry in flight, and that this one still sees the count of the row; since nothing but a
retry writes the column (`OnlyRetriesCount`), and another retry that loads the row before the first has
committed makes the task raced, column and history move together. Proved:
`RequeuesCounted`.

**`HumanReviewProofs`**, from `HInv`: the type invariant, the two properties, and what
resolvers know of the item between commit and wake-up. Proved: `FuturesStayAwaited`,
`VerdictsCommitFirst`, `TypeCorrect`. `ResolversApart` says that no two calls of `resolve()` on one item are
between their SELECT and their COMMIT. Under `[]ResolversApart` a resolver that decides still sees what it
loaded (`DecideOnPending`), and from this follow `ImmutableUnlessShared` and
`WokenWithTheStoredVerdict`: whoever is woken has the verdict that is in the database and
stays there. A lock on the row that is read (`FOR UPDATE`) would establish the condition.

**`WorkflowProofs`**, from `WInv`: types and `TransactionsMatchNodes`. Proved:
`WorkflowTypeCorrect`, `NoTransactionLeftBehind`, and `WorkflowUsesQueue`: every step of the workflow is a step of
`TaskQueue` or leaves its tables alone. `OfTheQueue == INSTANCE TaskQueueProofs WITH Agents <- Runs`
brings in the theorems about the queue, and with `WorkflowUsesQueue` its inductive invariant
holds of the tables under the workflow (`QueueInvariance`). Two theorems are proved on top of it.
`RunsKeepLeases`: the invariant `RunsDoNotRetry` says that no request of a run
means to requeue its task, as `finalize_node` reports a failure without retry, so that by
the result above runs lose no leases, whatever the budgets. `ClaimersCompleteTheirWork`: as long as
every run is started without a task and claims one, a task is only completed by a run whose agent worked; the
refuted `CompletedByWork` is about runs that were handed a task, as `POST /api/agents/{id}/run` does.
`EndsAreReported` is the invariant `TasksEndAsReported`, carried through every way a row can change under the
workflow: a request of a run that means to complete or fail a task was decided in `Finalize`
(`DecisionsBegin`, `FinalizeDecides`), the run's task and report do not change from there to its
commit (`ReportsStay`), and a commit that leaves a row finished either wrote state and result itself or
found them there (`CommitsEnd`, `EndsKeep`).

The pool: `PoolSuffices`, an invariant, says that runs never keep more connections than there are; a
step that takes one is guarded by `Exhausted` (`PoolKeeps`). When all that
hold connections wait for another, each holds one, so they are exactly as many as
connections (`DeadlockNeedsAFullPool`). `NoDeadlockOfFewRuns` draws the practical conclusion: fewer runs than connections
never block each other.

`RunsOnlyAdvance` is what can be proved of the liveness property `RunsEnd`: `StepsLeft` is a number of at
most twelve, and each step is one of a run that has less of it afterwards, while all others keep theirs, or is a step of
somebody else that leaves all runs where they are. No interleaving takes a run round in circles.

**`ReviewGateProofs`**, from `RInv`. `ParkedWasPosted` is not inductive, as the write that parks a
task was decided transactions earlier and may be applied to a row that has changed: `RInv`
says that a row awaits review only by a gate that has posted, that every
request in flight which means to write `awaiting_review`, or has loaded it, goes back to such a
gate, and which requests a gate and a human may have open at each step. Proved, for any tasks, budgets, agents,
gates and humans: all five properties of the run `review_gate`, the
refinement `ImplementsAssignment` among them. It holds although gate and human check nothing: neither
writes `running`, nor an agent.

**`DecisionBoundaryProofs`**, from `DInv`: while a run is not marked as overlapped, its
ledger entry is what it has spent; two active runs of a principal are both marked; and
what stands in the loop behind a check has passed it. Proved: `BudgetKeptWhenAlone`,
`GatesHold`, `LedgerStaysTransient`, `TypeCorrect`, and `BudgetKeptByOwnPrincipals`: if no two runs act
for one principal then `BudgetPerTask`, the very property the run `budget_per_task`
refutes, holds for every run. Sharing a principal is the only way to exceed a budget.
`RunsOnlyAdvance`: each step takes the loop to its next round or leaves fewer calls of the
present one to deal with, and rounds are at most `MaxIterations` by `TypeCorrect`; that an agent's run comes to an
end, which `RunsEnd` assumes of it, rests on nothing but the LLM and the tools returning.

**`ChunkingProofs`**. `DocumentsAreSplit`: for every text, chunk size and smaller overlap
the output of `chunk_documents` satisfies `Splits`. The loop of the code is stated without recursion, by the number of its
last round (`LastRound`) and the rounds whose chunk is not blank (`kept`); that number exists because
each round moves by `size - overlap`, at least one (`LoopEnds`, from the least-element
principle, which is well-foundedness of the naturals and no induction over the text). Every other
character belongs to the first round that reaches it (`FirstRoundTo`), whose window begins
before it since `overlap < size`. Stripping moves the ends of a window inwards to the first and the last letter in it
(`WindowOfStripped`), and these ends only grow from round to round, which gives the layout from left to right;
`InOrder` keeps that order when rounds are dropped (`InOrderAscends`).

**`RetrieverProofs`**, from `CInv`: the calls in flight carry vectors of the texts they were
asked for, the list is one of cached keys, dict and list agree, vectors fit their keys.
`Put` is the step that matters: the key is taken out of a list without duplicates, put
at its end, and the oldest are cut off (`TouchProperties`, `DropOldest`); what is left of the dict
is exactly what is left of the list, also if another thread inserted or evicted the same key since
the miss. Proved for any texts, threads, providers and capacity: `CacheStaysInStep`,
`VectorsStayWithKeys`. On top of it `OInv` says of each store and query that its vectors belong to the first of its
pieces, that a call under way is for the next piece, and that its rows are those of its
pieces once there is a vector for each. Proved from it and from `DocumentsAreSplit`, for any
texts and settings: `TextsStoredWhole`, `RowsKeepTheirVectors` and
`TypeCorrect`. That stripping
a stripped text changes nothing (`StripIsKey`) is proved for every text.

## 6. Only model-checked

Liveness: `AnsweredUnlessShared`, `RunsEnd` and `OpsEnd`. Each needs to know that an action stays ENABLED
until fairness makes it happen, which is out of the prover's reach. For `RunsEnd` the decreasing measure is proved
(`RunsOnlyAdvance`); what TLC alone shows is that some step of a run that is not done is
enabled again and again, so that fairness makes the measure decrease to zero.
Every other property of a passing run is proved.

## 7. Not modelled

* The SQLite fallback of the queue, used by unit tests. The `session` parameter of the
  queue's methods, which no caller passes.
* Several processes with a `HumanReviewQueue` each, and restarts: futures are per
  instance, so a waiter elsewhere or before a restart is simply never woken.
* The connections of everyone but the runs: a pool shared with the routes is smaller for the
  runs, which `PoolSize` covers, as long as the routes return theirs. In `ReviewGate` the pool is left out.
* The routes beyond the calls they make of the queue, the admin UI, ORM declarations, migrations, tracing, logging, settings.
* `memory.py`: working memory with a TTL, and episodes; nothing in the program calls it. The ranking of a query, backoff
  times and the counters of hits and misses.
* Evaluation: a loop over tasks that a person starts, with pure graders and nothing to interleave with.
* The error statuses of `claim_task_node` for an id that is invalid or that names no row, which go on to
  finalize like a task that cannot be run, where the queue refuses it.
* The tests of a tool's danger that the loop does not make (section 4).

## 8. Plan

Done: `TaskQueue`, `RetryCount`, `Assignment`, `HumanReview`, `Workflow` with the connection pool, `ReviewGate`,
`DecisionBoundary`, `Chunking`, `EmbeddingCache`, `Retriever`; a theorem for every safety property of
a passing run, and for each refuted one that has a condition to hold under.
What could follow, in this order:

1. Several processes with a `HumanReviewQueue` each: which waiters can be woken at all.
2. The SQLite fallback as a variant of `TaskQueue` without claim and row locks.
3. At the review gate: under which condition an item resolved is a task unparked (section 4), as a theorem
   like those on leases and verdicts; the measure of a run as far as the gate.
4. `WorkingMemory`, should the program begin to call it: entries with a TTL; no expired
   value is returned.
