----------------------------- MODULE RetryCount -----------------------------
(***************************************************************************)
(* TaskQueue with a history of its retries, which the column retry_count   *)
(* is meant to hold: "Number of times this task has been re-enqueued after *)
(* failure" (models/task.py).  The actions of TaskQueue are unchanged; the *)
(* two history variables only record what they do.                         *)
(*                                                                         *)
(* fail() reads retry_count without a lock and writes back what it read    *)
(* plus one.  Two calls that read the same count both requeue the task and *)
(* the column counts one of them, so the column can only be trusted for a  *)
(* task whose retries never overlapped.                                    *)
(***************************************************************************)
EXTENDS TaskQueue

VARIABLES
    requeued,   \* how often each task has been requeued by a fail()
    raced       \* tasks of which two retries were in flight at once

counters == <<requeued, raced>>

\* Request r is a fail() that has decided to retry task t.
IsRetry(r, t) ==
    /\ r.step \in {"flush", "commit"}
    /\ r.task = t
    /\ r.want = Requeued(r.seen)

Overlapping(t) ==
    \E a, b \in Agents : a # b /\ IsRetry(tx[a], t) /\ IsRetry(tx[b], t)

CountedInit == Init /\ requeued = [t \in Tasks |-> 0] /\ raced = {}

\* A retry takes effect when the transaction of its fail() commits.  A task
\* that has been raced is no longer counted, which keeps the history finite.
Count ==
    /\ raced' = raced \cup {t \in Tasks : Overlapping(t)'}
    /\ requeued' = [t \in Tasks |->
                      IF t \notin raced /\ \E a \in Agents : IsRetry(tx[a], t) /\ Commit(a)
                      THEN requeued[t] + 1
                      ELSE requeued[t]]

CountedNext == Next /\ Count

CountedSpec == CountedInit /\ [][CountedNext]_<<vars, counters>>

-----------------------------------------------------------------------------

\* "Maximum number of times this task may be retried" (TaskCreate.max_retries): a
\* task is requeued exactly as often as retry_count says and never more often than
\* its producer allows, unless two fail() calls that both decided to retry it were
\* in flight together: then it may be requeued more often than max_retries.
RequeuesAreCounted ==
    \A t \in Tasks \ raced :
        /\ requeued[t] = rows[t].retries
        /\ requeued[t] <= rows[t].budget

\* Inductive: at most one retry of an unraced task is in flight, and it read the
\* count that is still in the row.
CountInv ==
    /\ requeued \in [Tasks -> Nat]
    /\ \A t \in Tasks : rows[t].state = "absent" => rows[t].retries = 0
    /\ \A t \in Tasks \ raced : ~Overlapping(t)
    /\ \A t \in Tasks \ raced, a \in Agents :
          IsRetry(tx[a], t) => tx[a].seen.retries = rows[t].retries
    /\ RequeuesAreCounted

=============================================================================
