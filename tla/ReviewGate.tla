------------------------------ MODULE ReviewGate ------------------------------
(***************************************************************************)
(* The pause for a human verdict, app/orchestrator/langgraph_flow.py:      *)
(* request_human_review_node posts an item and parks its task, the graph   *)
(* goes on to finalize, and resume_workflow resolves the item and fails    *)
(* the task of a rejected one.  Item and task are written in transactions  *)
(* of their own, the task without a look at the state it is in, while      *)
(* other agents use the queue.                                             *)
(*                                                                         *)
(* Queue and HumanReview are used as they are.  Nobody waits for a future: *)
(* the node posts without awaiting the verdict.                            *)
(***************************************************************************)
EXTENDS Integers

CONSTANTS
    Tasks, Budgets, Nobody,     \* as in TaskQueue
    Agents,     \* other callers of the queue
    Gates,      \* calls of request_human_review_node, and the items they post
    Humans      \* calls of resume_workflow

ASSUME TasksAreOrdered == Tasks \subseteq Nat
ASSUME BudgetsAreCounts == Budgets \subseteq Nat

\* Whoever has a transaction on the queue.
Callers == Agents \cup Gates \cup Humans

ASSUME NobodyIsNull == Nobody \notin Callers
ASSUME GatesAreTheirOwn == Gates \cap (Agents \cup Humans) = {}

VARIABLES
    rows, tx,           \* the tasks table and the transactions on it
    items, resolving,   \* the review_queue table and the resolve() calls on it
    gate,               \* where each run stands that asks for a review
    resume              \* where each call of resume_workflow stands

vars == <<rows, tx, items, resolving, gate, resume>>
queuevars == <<rows, tx>>
reviewvars == <<items, resolving>>

Queue == INSTANCE TaskQueue WITH Agents <- Callers

Review == INSTANCE HumanReview WITH
    Items <- Gates, Waiters <- Gates,
    futures <- [g \in Gates |-> Nobody],
    waiting <- [g \in Gates |-> [step |-> "idle", item |-> Nobody, verdict |-> "none"]]

-----------------------------------------------------------------------------

Gate == [step: {"idle", "post", "park", "parking", "finalize", "finishing", "done"},
         task: Tasks \cup {Nobody}]

Resume == [step: {"idle", "resolving", "reject", "rejecting"}, item: Gates \cup {Nobody}]
NotResuming == [step |-> "idle", item |-> Nobody]

Init ==
    /\ Queue!Init /\ Review!Init
    /\ gate = [g \in Gates |-> [step |-> "idle", task |-> Nobody]]
    /\ resume = [h \in Humans |-> NotResuming]

Goto(g, step) == gate' = [gate EXCEPT ![g].step = step]

\* What the node and resume_workflow make of the row they loaded, whatever its state.
Parked(row) == [row EXCEPT !.state = "awaiting_review"]
Rejected(row) == [row EXCEPT !.state = "failed"]

-----------------------------------------------------------------------------
(* request_human_review and finalize                                       *)

\* The run came here with a task that was running when it claimed or adopted it.
Enter(g, t) ==
    /\ gate[g].step = "idle"
    /\ rows[t].state = "running"
    /\ gate' = [gate EXCEPT ![g] = [step |-> "post", task |-> t]]
    /\ UNCHANGED <<queuevars, reviewvars, resume>>

\* Variant: logs the error of post() and goes on.
PostSwallowing(g) ==
    /\ gate[g].step = "post"
    /\ Review!Post(g, g) \/ UNCHANGED items
    /\ Goto(g, "park")
    /\ UNCHANGED <<queuevars, resolving, resume>>

Post(g) ==
    /\ gate[g].step = "post"
    /\ Review!Post(g, g)
    /\ Goto(g, "park")
    /\ UNCHANGED <<queuevars, resume>>

\* session.get and the assignment of the state; an unchanged row is not written.
Park(g) ==
    LET t == gate[g].task IN
    /\ gate[g].step = "park"
    /\ \/ /\ rows[t].state # "awaiting_review"
          /\ Queue!Load(g, t, Parked(rows[t]))
          /\ Goto(g, "parking")
       \/ /\ rows[t].state = "awaiting_review"
          /\ Goto(g, "finalize")
          /\ UNCHANGED queuevars
    /\ UNCHANGED <<reviewvars, resume>>

Parking(g) ==
    /\ gate[g].step = "parking"
    /\ \/ Queue!Flush(g) /\ UNCHANGED gate
       \/ Queue!Commit(g) /\ Goto(g, "finalize")
    /\ UNCHANGED <<reviewvars, resume>>

\* The edge to finalize, which completes a task whose agent neither succeeded nor
\* failed, and logs a refusal.
Finalize(g) ==
    LET t == gate[g].task IN
    /\ gate[g].step = "finalize"
    /\ \/ /\ Queue!BeginComplete(g, t)
          /\ Goto(g, "finishing")
       \/ /\ rows[t].state \notin {"running", "pending"}
          /\ Goto(g, "done")
          /\ UNCHANGED queuevars
    /\ UNCHANGED <<reviewvars, resume>>

Finishing(g) ==
    /\ gate[g].step = "finishing"
    /\ \/ Queue!Flush(g) /\ UNCHANGED gate
       \/ Queue!Commit(g) /\ Goto(g, "done")
    /\ UNCHANGED <<reviewvars, resume>>

Rollback(c) == IF tx[c].step = "idle" THEN UNCHANGED queuevars ELSE Queue!Crash(c)

\* The process dies, or the database raises.
GateFails(g) ==
    /\ gate[g].step \notin {"idle", "done"}
    /\ Rollback(g)
    /\ Goto(g, "done")
    /\ UNCHANGED <<reviewvars, resume>>

-----------------------------------------------------------------------------
(* resume_workflow                                                         *)

ResumeAt(h, step) == resume' = [resume EXCEPT ![h].step = step]

\* Called with an item and the task it was posted for; notes make no difference here.
BeginResume(h, g) ==
    /\ resume[h].step = "idle"
    /\ Review!BeginResolve(h, g) /\ ~resolving'[h].noted
    /\ resume' = [resume EXCEPT ![h] = [step |-> "resolving", item |-> g]]
    /\ UNCHANGED <<queuevars, gate>>

\* Variant: goes on to the task when resolve() fails.
ResolveThenRejectAnyway(h) ==
    /\ resume[h].step = "resolving"
    /\ \/ Review!Flush(h) /\ UNCHANGED resume
       \/ Review!Commit(h) /\ UNCHANGED resume
       \/ /\ Review!Wake(h) \/ Review!Abort(h)
          /\ IF resolving[h].verdict = "rejected" THEN ResumeAt(h, "reject")
             ELSE resume' = [resume EXCEPT ![h] = NotResuming]
    /\ UNCHANGED <<queuevars, gate>>

\* An approval only reads the task and leaves it parked.
Resolve(h) ==
    /\ resume[h].step = "resolving"
    /\ \/ Review!Flush(h) /\ UNCHANGED resume
       \/ Review!Commit(h) /\ UNCHANGED resume
       \/ /\ Review!Wake(h)
          /\ IF resolving[h].verdict = "rejected" THEN ResumeAt(h, "reject")
             ELSE resume' = [resume EXCEPT ![h] = NotResuming]
       \/ /\ Review!Abort(h) \/ Review!CutShort(h)
          /\ resume' = [resume EXCEPT ![h] = NotResuming]
    /\ UNCHANGED <<queuevars, gate>>

Reject(h) ==
    LET t == gate[resume[h].item].task IN
    /\ resume[h].step = "reject"
    /\ Queue!Load(h, t, Rejected(rows[t]))
    /\ ResumeAt(h, "rejecting")
    /\ UNCHANGED <<reviewvars, gate>>

Rejecting(h) ==
    /\ resume[h].step = "rejecting"
    /\ \/ Queue!Flush(h) /\ UNCHANGED resume
       \/ Queue!Commit(h) /\ resume' = [resume EXCEPT ![h] = NotResuming]
    /\ UNCHANGED <<reviewvars, gate>>

ResumeFails(h) ==
    /\ resume[h].step \in {"reject", "rejecting"}
    /\ Rollback(h)
    /\ resume' = [resume EXCEPT ![h] = NotResuming]
    /\ UNCHANGED <<reviewvars, gate>>

-----------------------------------------------------------------------------

\* Producers, the clock, POST /api/tasks/recover, and the other agents.
Elsewhere ==
    /\ \/ \E t \in Tasks : Queue!Enqueue(t) \/ Queue!LeaseExpires(t)
       \/ Queue!Recover
       \/ \E a \in Agents :
            \/ Queue!ClaimStep(a) \/ Queue!Flush(a) \/ Queue!Commit(a) \/ Queue!Crash(a)
            \/ \E t \in Tasks : Queue!Begin(a, t)
    /\ UNCHANGED <<reviewvars, gate, resume>>

Next ==
    \/ \E g \in Gates, t \in Tasks : Enter(g, t)
    \/ \E g \in Gates : Post(g) \/ Park(g) \/ Parking(g) \/ Finalize(g) \/ Finishing(g)
    \/ \E g \in Gates : GateFails(g)
    \/ \E h \in Humans, g \in Gates : BeginResume(h, g)
    \/ \E h \in Humans : Resolve(h) \/ Reject(h) \/ Rejecting(h) \/ ResumeFails(h)
    \/ Elsewhere

Spec == Init /\ [][Next]_vars

-----------------------------------------------------------------------------
(* Properties.                                                             *)

\* Tables, transactions and callers keep the shape the code gives them.
TypeOK ==
    /\ Queue!TypeOK /\ Review!TypeOK
    /\ gate \in [Gates -> Gate]
    /\ resume \in [Humans -> Resume]

\* No task is parked before an item was posted for it, wherever the node fails between
\* its two transactions.  The item need not be pending any more: a verdict may come in
\* between, and then no listing shows it and resolve() refuses it.
ParkedWasPosted ==
    \A t \in Tasks : rows[t].state = "awaiting_review" =>
        \E g \in Gates : gate[g].task = t /\ items[g].status # "absent"

\* A parked task is left alone by claims, recoveries and the reports of its agent: it
\* leaves awaiting_review by a fail() or a rejection, or by a request that loaded the
\* row before it was parked.
ParkedIsLeftAlone ==
    [][\A t \in Tasks :
         rows[t].state = "awaiting_review" /\ rows'[t].state # "awaiting_review" =>
           \E c \in Callers :
             /\ tx[c].step = "commit" /\ tx[c].task = t
             /\ \/ tx[c].seen.state # "awaiting_review"
                \/ tx[c].want.state \in {"failed", "pending"} /\ c \notin Gates]_vars

\* resume_workflow fails a task only after a verdict on its item is in the database.
RejectsAfterVerdict ==
    \A h \in Humans : resume[h].step \in {"reject", "rejecting"} =>
        items[resume[h].item].status \in Review!Verdicts

\* The unguarded writes of the gate take no task from its holder to another: with
\* gates and humans around, the queue still implements Assignment.
ImplementsAssignment == Queue!ImplementsAssignment

=============================================================================
