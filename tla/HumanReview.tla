----------------------------- MODULE HumanReview -----------------------------
(***************************************************************************)
(* The human-in-the-loop queue, app/orchestrator/review.py: the rows of    *)
(* review_queue, and the futures with which one process lets its           *)
(* coroutines wait for a verdict.  Coroutines interleave at every await,   *)
(* so what a method does between two awaits is one step.  As in the task   *)
(* queue, a resolver loads the row, decides, and its UPDATE later hits the *)
(* row that is there by then, column by column.                            *)
(***************************************************************************)
EXTENDS Integers

CONSTANTS
    Items,      \* ids of review items
    Waiters,    \* coroutines that post items and wait for verdicts
    Humans,     \* resolve() calls, each made on behalf of one person
    Nobody      \* SQL NULL; no future registered; no item

ASSUME NobodyIsNull == Nobody \notin Items \cup Waiters \cup Humans

VARIABLES
    items,      \* the committed review_queue table
    futures,    \* HumanReviewQueue._futures: whose future is filed under an id
    waiting,    \* where each waiter stands, and the verdict it was handed
    resolving   \* where each resolve() call stands

vars == <<items, futures, waiting, resolving>>

-----------------------------------------------------------------------------

Verdicts == {"approved", "rejected"}

Item == [status: {"absent", "pending"} \cup Verdicts,
         by: Humans \cup {Nobody}, note: Humans \cup {Nobody}]
Absent == [status |-> "absent", by |-> Nobody, note |-> Nobody]
\* Variant: stores the name of the status, not its value.
PostedByName == [status |-> "PENDING", by |-> Nobody, note |-> Nobody]

Posted == [status |-> "pending", by |-> Nobody, note |-> Nobody]

Wait == [step: {"idle", "posted", "waiting", "woken"},
         item: Items \cup {Nobody}, verdict: Verdicts \cup {"none"}]
NotWaiting == [step |-> "idle", item |-> Nobody, verdict |-> "none"]

\* A call that was cut short has stored its verdict and woken nobody.
Resolve == [step: {"idle", "flush", "commit", "wake", "cut"}, item: Items \cup {Nobody},
            verdict: Verdicts \cup {"none"}, noted: BOOLEAN]
NotResolving == [step |-> "idle", item |-> Nobody, verdict |-> "none", noted |-> FALSE]

Init ==
    /\ items = [i \in Items |-> Absent]
    /\ futures = [i \in Items |-> Nobody]
    /\ waiting = [w \in Waiters |-> NotWaiting]
    /\ resolving = [h \in Humans |-> NotResolving]

-----------------------------------------------------------------------------
(* post() and wait()                                                       *)

\* The INSERT commits; with await_resolution the caller goes on to wait(), but
\* closing the session awaits first.
Post(w, i) ==
    /\ waiting[w].step = "idle" /\ items[i].status = "absent"
    /\ items' = [items EXCEPT ![i] = Posted]
    /\ \E await_resolution \in BOOLEAN :
         waiting' = IF await_resolution
                    THEN [waiting EXCEPT ![w] = [NotWaiting EXCEPT !.step = "posted", !.item = i]]
                    ELSE waiting
    /\ UNCHANGED <<futures, resolving>>

\* wait() files a fresh future without looking at the item or at the future that
\* may already be there.
Register(w, i) ==
    /\ waiting' = [waiting EXCEPT ![w] = [NotWaiting EXCEPT !.step = "waiting", !.item = i]]
    /\ futures' = [futures EXCEPT ![i] = w]
    /\ UNCHANGED <<items, resolving>>

WaitAfterPost(w) == waiting[w].step = "posted" /\ Register(w, waiting[w].item)

\* A caller that got the id from post() or list_pending().
WaitById(w, i) ==
    /\ waiting[w].step = "idle" /\ items[i].status # "absent"
    /\ Register(w, i)

\* Leaving without a future filed.
Leave(w) ==
    /\ waiting' = [waiting EXCEPT ![w] = NotWaiting]
    /\ UNCHANGED <<items, futures, resolving>>

\* The end of wait(), by its result or by cancellation: the finally clause drops
\* whatever future is filed under the id.
Return(w) ==
    /\ waiting' = [waiting EXCEPT ![w] = NotWaiting]
    /\ futures' = [futures EXCEPT ![waiting[w].item] = Nobody]
    /\ UNCHANGED <<items, resolving>>

Awake(w) == waiting[w].step = "woken" /\ Return(w)

\* Cancelled while it waits, or in post() before it has filed a future.
Cancel(w) ==
    \/ waiting[w].step = "waiting" /\ Return(w)
    \/ waiting[w].step = "posted" /\ Leave(w)

-----------------------------------------------------------------------------
(* resolve()                                                               *)

\* The SELECT and the status check: a resolved item raises.
BeginResolve(h, i) ==
    /\ resolving[h].step = "idle"
    /\ items[i].status = "pending"
    /\ \E verdict \in Verdicts, noted \in BOOLEAN :
         resolving' = [resolving EXCEPT ![h] = [step |-> "flush", item |-> i,
                                                verdict |-> verdict, noted |-> noted]]
    /\ UNCHANGED <<items, futures, waiting>>

Locked(i) == \E h \in Humans : resolving[h].step = "commit" /\ resolving[h].item = i

Flush(h) ==
    /\ resolving[h].step = "flush"
    /\ ~Locked(resolving[h].item)
    /\ resolving' = [resolving EXCEPT ![h].step = "commit"]
    /\ UNCHANGED <<items, futures, waiting>>

\* Variant: returns once the verdict is stored.
CommitOnly(h) ==
    LET i == resolving[h].item IN
    /\ resolving[h].step = "commit"
    /\ items' = [items EXCEPT ![i] =
                   [status |-> resolving[h].verdict, by |-> h,
                    note |-> IF resolving[h].noted THEN h ELSE items[i].note]]
    /\ resolving' = [resolving EXCEPT ![h] = NotResolving]
    /\ UNCHANGED <<futures, waiting>>

\* The row was loaded with note NULL, so a verdict without a note writes none.
Commit(h) ==
    LET i == resolving[h].item IN
    /\ resolving[h].step = "commit"
    /\ items' = [items EXCEPT ![i] =
                   [status |-> resolving[h].verdict, by |-> h,
                    note |-> IF resolving[h].noted THEN h ELSE items[i].note]]
    /\ resolving' = [resolving EXCEPT ![h].step = "wake"]
    /\ UNCHANGED <<futures, waiting>>

\* Variant: sets the result inside the session, which then fails to commit.
WakeInSession(h) ==
    LET i == resolving[h].item
        w == futures[i]
    IN  /\ resolving[h].step = "commit"
        /\ futures' = [futures EXCEPT ![i] = Nobody]
        /\ waiting' = IF w = Nobody THEN waiting
                      ELSE [waiting EXCEPT ![w].step = "woken",
                                           ![w].verdict = resolving[h].verdict]
        /\ resolving' = [resolving EXCEPT ![h] = NotResolving]
        /\ UNCHANGED items

\* After the session is closed: take the future and set its result.
Wake(h) ==
    LET i == resolving[h].item
        w == futures[i]
    IN  /\ resolving[h].step = "wake"
        /\ futures' = [futures EXCEPT ![i] = Nobody]
        /\ waiting' = IF w = Nobody THEN waiting
                      ELSE [waiting EXCEPT ![w].step = "woken",
                                           ![w].verdict = resolving[h].verdict]
        /\ resolving' = [resolving EXCEPT ![h] = NotResolving]
        /\ UNCHANGED items

\* The UPDATE or the COMMIT raises: rollback, and nobody is woken.
Abort(h) ==
    /\ resolving[h].step \in {"flush", "commit"}
    /\ resolving' = [resolving EXCEPT ![h] = NotResolving]
    /\ UNCHANGED <<items, futures, waiting>>

\* Cancelled after the COMMIT, while the session is being closed: no one is woken.
CutShort(h) ==
    /\ resolving[h].step = "wake"
    /\ resolving' = [resolving EXCEPT ![h].step = "cut"]
    /\ UNCHANGED <<items, futures, waiting>>

Next ==
    \/ \E w \in Waiters, i \in Items : Post(w, i) \/ WaitById(w, i)
    \/ \E w \in Waiters : WaitAfterPost(w) \/ Awake(w) \/ Cancel(w)
    \/ \E h \in Humans, i \in Items : BeginResolve(h, i)
    \/ \E h \in Humans : Flush(h) \/ Commit(h) \/ Wake(h) \/ Abort(h) \/ CutShort(h)

Spec == Init /\ [][Next]_vars

\* The event loop runs every coroutine that is ready, and the database serves the
\* waiters of a row lock in turn.  Nobody has to cancel, or to start resolving.
Fairness ==
    /\ \A w \in Waiters : WF_vars(WaitAfterPost(w)) /\ WF_vars(Awake(w))
    /\ \A h \in Humans : SF_vars(Flush(h)) /\ WF_vars(Commit(h)) /\ WF_vars(Wake(h))

FairSpec == Spec /\ Fairness

-----------------------------------------------------------------------------
(* Properties.                                                             *)

\* Tables and coroutines have the shape the schema and the code give them.
TypeOK ==
    /\ items \in [Items -> Item]
    /\ futures \in [Items -> Waiters \cup {Nobody}]
    /\ waiting \in [Waiters -> Wait]
    /\ resolving \in [Humans -> Resolve]

\* The dict of futures holds none that nobody awaits any more, though waiters
\* overwrite each other's entry, are cancelled, and drop entries not their own: a
\* verdict set on such a future would be lost, and the entry would never go away.
FuturesAreAwaited ==
    \A i \in Items : futures[i] # Nobody =>
        waiting[futures[i]].step = "waiting" /\ waiting[futures[i]].item = i

\* A waiter is never handed a verdict on an item that the database still holds
\* pending: what it acts on has been committed first.
VerdictsAreCommitted ==
    \A w \in Waiters : waiting[w].step = "woken" =>
        items[waiting[w].item].status \in Verdicts

\* A resolve() of item i has stored its verdict and never came to wake anybody.
WasCutShort(i) == \E h \in Humans : resolving[h].step = "cut" /\ resolving[h].item = i

\* "Callers awaiting wait are notified when resolve is invoked" (HumanReviewQueue): a
\* future filed while its item is pending is answered once the item is resolved, unless
\* another caller waits for the same item, whose entry replaces or whose end drops this
\* one's, or the resolver is cut short: then its owner may wait for ever.
AnsweredUnlessShared ==
    \A i \in Items, w \in Waiters :
        [](/\ futures[i] = w /\ items[i].status = "pending"
           /\ <>(items[i].status \in Verdicts)
           => <>(\/ waiting[w].step # "waiting"
                 \/ \E v \in Waiters \ {w} : waiting[v].step = "waiting" /\ waiting[v].item = i
                 \/ WasCutShort(i)))

-----------------------------------------------------------------------------
(* What the documentation says and the code does not keep.                 *)

\* "Items are immutable once resolved" (models/review.py).
ResolvedIsImmutable ==
    [][\A i \in Items : items[i].status \in Verdicts => items'[i] = items[i]]_vars

\* "When await_resolution=True, returns the resolved item (after a human calls
\* resolve)" (post() in orchestrator/review.py): whenever that call runs to its end.
AwaitReturns ==
    \A i \in Items, w \in Waiters :
        waiting[w].step = "posted" /\ waiting[w].item = i /\ items[i].status \in Verdicts
            ~> waiting[w].step \in {"idle", "woken"} \/ WasCutShort(i)

=============================================================================
