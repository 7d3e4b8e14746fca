------------------------------- MODULE Workflow ------------------------------
(***************************************************************************)
(* Workflow runs over the task queue, app/orchestrator/langgraph_flow.py:  *)
(* claim_task -> run_agent -> (check_decision_boundary) -> finalize, driven *)
(* by run_workflow.  Each node awaits the queue, so runs of one process    *)
(* and of several interleave between any two database round trips.  The    *)
(* queue is TaskQueue as it is: a run takes part in it as an agent.        *)
(*                                                                         *)
(* _get_compiled_graph memoises the compiled graph with its _RunContext by *)
(* the arguments of run_workflow, so runs started with the same arguments  *)
(* share one context: Context says which.                                  *)
(*                                                                         *)
(* The runs of a process also share its pool of database connections: a    *)
(* session takes one with its first statement and keeps it until it ends.  *)
(* Who finds the pool exhausted waits, until it times out.                 *)
(***************************************************************************)
EXTENDS Integers, FiniteSets

CONSTANTS
    Tasks, Budgets, Nobody,     \* as in TaskQueue
    Runs,                       \* calls of run_workflow
    Contexts, Context,          \* the _RunContext that a run's graph was compiled with
    Outcomes,                   \* what an Agent run may report
    PoolSize                    \* connections of the engine's pool

ASSUME TasksAreOrdered == Tasks \subseteq Nat
ASSUME BudgetsAreCounts == Budgets \subseteq Nat
ASSUME NobodyIsNull == Nobody \notin Runs
ASSUME ContextOfEachRun == Context \in [Runs -> Contexts]
ASSUME RunsAreFinite == IsFiniteSet(Runs)
ASSUME PoolIsNotEmpty == PoolSize \in Nat \ {0}
ASSUME OutcomesAreKnown == Outcomes \subseteq {"success", "failed", "partial", "review"}

VARIABLES
    rows, tx,   \* the tasks table and the transactions on it
    flow,       \* the state each run's graph carries from node to node
    runrows,    \* the runs table, a row per run
    run_id      \* _RunContext.run_id

vars == <<rows, tx, flow, runrows, run_id>>
queuevars == <<rows, tx>>

Queue == INSTANCE TaskQueue WITH Agents <- Runs

-----------------------------------------------------------------------------

Steps == {"idle", "lookup", "claim", "claiming", "adopt", "open_run", "agent",
          "finalize", "finishing", "close_run", "done"}

\* result is what run_workflow reports, "raised" when it does not return.
Flow == [step: Steps, task: Tasks \cup {Nobody},
         outcome: Outcomes \cup {"none"}, result: {"none", "success", "failed", "raised"}]
NotStarted == [step |-> "idle", task |-> Nobody,
               outcome |-> "none", result |-> "none"]

\* A row is inserted as failed and closed with the terminal status; by is the run
\* whose scratchpad its log holds.
RunRow == [task: Tasks \cup {Nobody}, status: {"absent", "open", "success", "failed"},
           by: Runs \cup {Nobody}]
NoRunRow == [task |-> Nobody, status |-> "absent", by |-> Nobody]

Init ==
    /\ Queue!Init
    /\ flow = [w \in Runs |-> NotStarted]
    /\ runrows = [w \in Runs |-> NoRunRow]
    /\ run_id = [c \in Contexts |-> Nobody]

Goto(w, step) == flow' = [flow EXCEPT ![w].step = step]

-----------------------------------------------------------------------------
(* The connection pool                                                     *)

\* The session in which claim_task looks a given task up stays open while the queue's
\* own session claims or adopts it.
Looking(w) == flow[w].step \in {"claim", "adopt", "claiming"} /\ flow[w].task # Nobody

\* Variant: run_workflow keeps a session of its own around the graph.
ConnectionsAndOneOfTheRun(w) ==
    {c \in {"run", "lookup", "queue"} :
        \/ c = "run" /\ flow[w].step \notin {"idle", "done"}
        \/ c = "lookup" /\ Looking(w)
        \/ c = "queue" /\ flow[w].step \in {"claiming", "finishing"}}

\* The connections a run keeps between two of its steps.
Connections(w) ==
    {c \in {"lookup", "queue"} :
        \/ c = "lookup" /\ Looking(w)
        \/ c = "queue" /\ flow[w].step \in {"claiming", "finishing"}}

Held == UNION {{w} \X Connections(w) : w \in Runs}

Exhausted == Cardinality(Held) >= PoolSize

-----------------------------------------------------------------------------
(* claim_task                                                              *)

\* A caller asks for any task or for one it knows: an id (uuid4) is made with its row.
Start(w, t) ==
    /\ flow[w].step = "idle"
    /\ t \in {Nobody} \cup {u \in Tasks : rows[u].state # "absent"}
    /\ flow' = [flow EXCEPT ![w].step = IF t = Nobody THEN "claim" ELSE "lookup",
                            ![w].task = t]
    /\ UNCHANGED <<queuevars, runrows, run_id>>

\* With a task id: claim if it is pending, adopt it if it runs for an agent, give up
\* otherwise.  Giving up leads through run_agent, which does nothing, to finalize.
Lookup(w) ==
    LET row == rows[flow[w].task] IN
    /\ flow[w].step = "lookup" /\ ~Exhausted
    /\ Goto(w, CASE row.state = "pending" -> "claim"
                 [] row.state = "running" /\ row.agent # Nobody -> "adopt"
                 [] OTHER -> "finalize")
    /\ UNCHANGED <<queuevars, runrows, run_id>>

\* queue.get(), in a session of its own.
Adopt(w) ==
    /\ flow[w].step = "adopt" /\ ~Exhausted
    /\ Goto(w, "open_run")
    /\ UNCHANGED <<queuevars, runrows, run_id>>

BeginClaim(w) ==
    /\ flow[w].step = "claim" /\ ~Exhausted
    /\ Queue!RequestClaim(w)
    /\ Goto(w, "claiming")
    /\ UNCHANGED <<runrows, run_id>>

Claiming(w) ==
    /\ flow[w].step = "claiming"
    /\ Queue!AcquireClaimLock(w) \/ Queue!SelectCandidate(w)
    /\ UNCHANGED <<flow, runrows, run_id>>

\* queue.claim() returns the oldest claimable task, which the run then works on.
ClaimSucceeds(w) ==
    /\ flow[w].step = "claiming"
    /\ flow' = [flow EXCEPT ![w].step = "open_run", ![w].task = tx[w].task]
    /\ Queue!Commit(w)
    /\ UNCHANGED <<runrows, run_id>>

\* Variant: a run without work asks again.
ClaimAgain(w) ==
    /\ flow[w].step = "claiming"
    /\ Queue!ClaimNothing(w)
    /\ Goto(w, "claim")
    /\ UNCHANGED <<runrows, run_id>>

\* queue.claim() returns None: the status is "completed", and the graph goes on to
\* finalize with the task id it was given, if any.
ClaimFindsNothing(w) ==
    /\ flow[w].step = "claiming"
    /\ Queue!ClaimNothing(w)
    /\ flow' = IF flow[w].task # Nobody THEN [flow EXCEPT ![w].step = "finalize"]
               ELSE [flow EXCEPT ![w].step = "done", ![w].result = "failed"]
    /\ UNCHANGED <<runrows, run_id>>

\* The pool's timeout raises through claim_task or run_agent.
TimesOut(w) ==
    /\ Exhausted
    /\ flow[w].step \in {"lookup", "adopt", "claim", "agent"}
    /\ flow' = [flow EXCEPT ![w].step = "done", ![w].result = "raised"]
    /\ UNCHANGED <<queuevars, runrows, run_id>>

\* The INSERT of the run row, which fails when the agent is not registered or no
\* connection is to be had.
OpenRun(w) ==
    /\ flow[w].step = "open_run"
    /\ \/ /\ ~Exhausted
          /\ runrows' = [runrows EXCEPT ![w] = [task |-> flow[w].task, status |-> "open",
                                                by |-> Nobody]]
          /\ run_id' = [run_id EXCEPT ![Context[w]] = w]
       \/ /\ run_id' = [run_id EXCEPT ![Context[w]] = Nobody]
          /\ UNCHANGED runrows
    /\ Goto(w, "agent")
    /\ UNCHANGED queuevars

-----------------------------------------------------------------------------
(* run_agent, check_decision_boundary and their routes                     *)

\* The status run_agent leaves in the state.
StatusAfterRun(outcome) ==
    CASE outcome = "success" -> "completed"
      [] outcome = "failed" -> "failed"
      [] OTHER -> "running"

\* check_decision_boundary leaves the status alone, and the edge after it looks there.
RouteAfterCheck(status) ==
    IF status = "awaiting_review" THEN "request_human_review" ELSE "finalize"

\* Only an outcome that requires review is routed by way of check_decision_boundary.
RouteAfterRun(outcome) ==
    IF outcome = "review" THEN RouteAfterCheck(StatusAfterRun(outcome)) ELSE "finalize"

\* The task's payload is read in a session that ends before the agent runs.
RunAgent(w) ==
    /\ flow[w].step = "agent" /\ ~Exhausted
    /\ \E outcome \in Outcomes :
         flow' = [flow EXCEPT ![w].step = RouteAfterRun(outcome), ![w].outcome = outcome]
    /\ UNCHANGED <<queuevars, runrows, run_id>>

-----------------------------------------------------------------------------
(* finalize                                                                *)

\* Variant: nothing done is a failure.
TerminalUnlessDone(w) ==
    IF flow[w].outcome \in {"failed", "none"} THEN "failed" ELSE "success"

\* Variant: the run gets the state of its task.
TerminalOfTask(w) == IF flow[w].outcome = "failed" THEN "failed" ELSE "completed"

\* Only a reported failure fails the task: success, a partial run, a run that needs
\* review and no run at all complete it.
Terminal(w) == IF flow[w].outcome = "failed" THEN "failed" ELSE "success"

\* Variant: finalize writes the task itself.
FinalizeByHand(w) ==
    /\ flow[w].step = "finalize"
    /\ Queue!Load(w, flow[w].task, Queue!Completed(rows[flow[w].task], w))
    /\ Goto(w, "finishing")
    /\ UNCHANGED <<runrows, run_id>>

Finalize(w) ==
    /\ flow[w].step = "finalize" /\ ~Exhausted
    /\ \/ /\ Terminal(w) = "success"
          /\ Queue!BeginComplete(w, flow[w].task)
          /\ Goto(w, "finishing")
       \/ /\ Terminal(w) = "failed"
          /\ Queue!BeginFail(w, flow[w].task, FALSE)
          /\ Goto(w, "finishing")
    /\ UNCHANGED <<runrows, run_id>>

\* The queue raises, for a finished task or for want of a connection;
\* finalize logs it and goes on.
FinalizeRefused(w) ==
    /\ flow[w].step = "finalize"
    /\ Exhausted \/ rows[flow[w].task].state \notin {"running", "pending"}
    /\ Goto(w, "close_run")
    /\ UNCHANGED <<queuevars, runrows, run_id>>

Finishing(w) ==
    /\ flow[w].step = "finishing"
    /\ \/ Queue!Flush(w) /\ UNCHANGED flow
       \/ Queue!Commit(w) /\ Goto(w, "close_run")
    /\ UNCHANGED <<runrows, run_id>>

\* The database raises instead: rolled back, logged, and the run goes on.
FinishingFails(w) ==
    /\ flow[w].step = "finishing"
    /\ Queue!Crash(w)
    /\ Goto(w, "close_run")
    /\ UNCHANGED <<runrows, run_id>>

\* The run row to update is the one the context names by now; an error is only logged.
CloseRun(w) ==
    LET r == run_id[Context[w]] IN
    /\ flow[w].step = "close_run"
    /\ \/ UNCHANGED runrows
       \/ /\ r # Nobody /\ ~Exhausted
          /\ runrows' = [runrows EXCEPT ![r].status = Terminal(w), ![r].by = w]
    /\ flow' = [flow EXCEPT ![w].step = "done", ![w].result = Terminal(w)]
    /\ UNCHANGED <<queuevars, run_id>>

\* Variant: the exception passes by the session's exit.
CrashHoldingLocks(w) ==
    /\ flow[w].step \notin {"idle", "done"}
    /\ flow' = [flow EXCEPT ![w].step = "done", ![w].result = "raised"]
    /\ UNCHANGED <<queuevars, runrows, run_id>>

\* The process dies, or claim_task or run_agent raises.
Crash(w) ==
    /\ flow[w].step \notin {"idle", "done"}
    /\ IF tx[w].step = "idle" THEN UNCHANGED queuevars ELSE Queue!Crash(w)
    /\ flow' = [flow EXCEPT ![w].step = "done", ![w].result = "raised"]
    /\ UNCHANGED <<runrows, run_id>>

-----------------------------------------------------------------------------

ClaimTask(w) ==
    \/ Lookup(w) \/ Adopt(w) \/ BeginClaim(w) \/ Claiming(w)
    \/ ClaimSucceeds(w) \/ ClaimFindsNothing(w) \/ OpenRun(w)

FinalizeTask(w) == Finalize(w) \/ FinalizeRefused(w) \/ Finishing(w) \/ CloseRun(w)

Proceed(w) == ClaimTask(w) \/ RunAgent(w) \/ FinalizeTask(w) \/ TimesOut(w)

\* Producers, the clock, and POST /api/tasks/recover, of any process.
Elsewhere ==
    /\ \/ \E t \in Tasks : Queue!Enqueue(t) \/ Queue!LeaseExpires(t)
       \/ Queue!Recover
    /\ UNCHANGED <<flow, runrows, run_id>>

Next ==
    \/ \E w \in Runs, t \in Tasks \cup {Nobody} : Start(w, t)
    \/ \E w \in Runs : Proceed(w)
    \/ \E w \in Runs : FinishingFails(w) \/ Crash(w)
    \/ Elsewhere

Spec == Init /\ [][Next]_vars

\* The event loop runs what is ready, the database grants its locks in turn, the pool
\* times out who waits for a connection, and the agent's run is bounded by
\* max_iterations.  Strong, as a lock may be taken and freed again while a run waits.
Fairness == \A w \in Runs : SF_vars(Proceed(w))

FairSpec == Spec /\ Fairness

-----------------------------------------------------------------------------
(* Properties.                                                             *)

\* Every variable keeps the shape the code gives it.
TypeOK ==
    /\ Queue!TypeOK
    /\ flow \in [Runs -> Flow]
    /\ runrows \in [Runs -> RunRow]
    /\ run_id \in [Contexts -> Runs \cup {Nobody}]

\* The workflow touches tasks only through the queue's operations, each begun in the
\* state it requires, whatever node fails or is overtaken: what TaskQueue guarantees
\* holds of it too.
UsesQueue == Queue!Spec

\* A run has a transaction open exactly while claim_task or finalize awaits it: a
\* run that is over, by whatever exit, has left none behind to block the others.
TransactionsMatchNodes ==
    \A w \in Runs :
        /\ flow[w].step = "claiming" <=> tx[w].step \in {"claim", "select", "claim_commit"}
        /\ flow[w].step = "finishing" <=> tx[w].step \in {"flush", "commit"}

\* Every run that is started comes to an end: as none starts twice, there is time and
\* again a moment when none is under way.
RunsEnd == []<>(\A w \in Runs : flow[w].step \in {"idle", "done"})

\* Runs that wait for a connection while they keep one can block each other until one
\* times out, but not few of them: with every connection kept by such runs, there is
\* one of them for each connection of the pool.
Deadlocked ==
    /\ Exhausted
    /\ \A w \in Runs : Connections(w) # {} => flow[w].step \in {"claim", "adopt"}

DeadlockTakesManyRuns ==
    Deadlocked => Cardinality({w \in Runs : Connections(w) # {}}) = PoolSize

\* A task ends as one of its runs reported, whatever other runs of it do: it is failed
\* only if an agent at work on it reported failure, and it is completed only with the
\* result of a run that did not.  The state and the result are columns that racing
\* finalizers write from stale reads.
TasksEndAsReported ==
    \A t \in Tasks :
        /\ rows[t].state = "failed" =>
             \E w \in Runs : flow[w].task = t /\ flow[w].outcome = "failed"
        /\ rows[t].state = "completed" =>
             \E w \in Runs : /\ rows[t].output = w
                            /\ flow[w].task = t /\ flow[w].outcome # "failed"

-----------------------------------------------------------------------------
(* What the documentation says and the code does not keep.                 *)

Finished(t, w) == rows[t].state = "completed" /\ rows[t].output = w

\* finalize_node: "completed if the agent reported success".
CompletedByWork ==
    \A t \in Tasks, w \in Runs : Finished(t, w) => flow[w].outcome # "none"

\* check_decision_boundary_node: "If the agent flagged requires_review ... route to
\* request_human_review", which pauses for a human verdict.
ReviewedBeforeCompleted ==
    \A t \in Tasks, w \in Runs : Finished(t, w) => flow[w].outcome # "review"

=============================================================================
