-------------------------- MODULE HumanReviewProofs --------------------------
(***************************************************************************)
(* Proofs about HumanReview, for any number of items, waiters and humans.  *)
(***************************************************************************)
EXTENDS HumanReview, TLAPS

\* The resolve() calls that are under way know their item and their verdict, and one
\* that has come to wake its waiter has committed.
ResolversAreSound ==
    \A h \in Humans : resolving[h].step # "idle" =>
        /\ resolving[h].item \in Items /\ resolving[h].verdict \in Verdicts
        /\ resolving[h].step = "wake" => items[resolving[h].item].status \in Verdicts

WaitersHaveItems == \A w \in Waiters : waiting[w].step # "idle" => waiting[w].item \in Items

\* Inductive: a waiter is woken with a verdict that ResolversAreSound has committed,
\* through a future that FuturesAreAwaited ties to the same item.
HInv ==
    /\ TypeOK
    /\ ResolversAreSound
    /\ WaitersHaveItems
    /\ FuturesAreAwaited
    /\ VerdictsAreCommitted

-----------------------------------------------------------------------------

LEMMA InitSound == Init => HInv
<1> SUFFICES ASSUME Init PROVE HInv
  OBVIOUS
<1>1. TypeOK
  BY DEF Init, TypeOK, Item, Absent, Wait, NotWaiting, Resolve, NotResolving
<1> QED BY <1>1 DEF Init, HInv, ResolversAreSound, WaitersHaveItems, FuturesAreAwaited,
                    VerdictsAreCommitted, NotWaiting, NotResolving

\* Filing a future takes it from whoever had filed one for the item, and the new owner
\* waits for that very item.
LEMMA RegisterSound ==
  ASSUME HInv, NEW w \in Waiters, NEW i \in Items, Register(w, i),
         waiting[w].step \in {"idle", "posted"}
  PROVE  HInv'
<1> USE DEF HInv
<1>1. waiting'[w] \in Wait /\ waiting'[w].step = "waiting" /\ waiting'[w].item = i
  BY DEF TypeOK, Register, Wait, NotWaiting
<1>2. \A v \in Waiters \ {w} : waiting'[v] = waiting[v]
  BY DEF TypeOK, Register
<1>3. TypeOK'
  BY <1>1 DEF TypeOK, Register
<1>4. ResolversAreSound' /\ WaitersHaveItems' /\ VerdictsAreCommitted'
  BY <1>1, <1>2 DEF Register, ResolversAreSound, WaitersHaveItems, VerdictsAreCommitted
<1>5. FuturesAreAwaited'
  <2> SUFFICES ASSUME NEW j \in Items, futures'[j] # Nobody
               PROVE  waiting'[futures'[j]].step = "waiting" /\ waiting'[futures'[j]].item = j
    BY DEF FuturesAreAwaited
  <2>1. CASE j = i
    BY <1>1, <2>1 DEF TypeOK, Register
  <2>2. CASE j # i
    <3>1. futures'[j] = futures[j] /\ futures[j] \in Waiters
      BY <2>2 DEF TypeOK, Register
    <3> QED BY <1>2, <3>1 DEF FuturesAreAwaited
  <2> QED BY <2>1, <2>2
<1> QED BY <1>3, <1>4, <1>5

\* A waiter that leaves drops the entry of its item, be it its own or another's; no
\* other entry can be its own.
LEMMA ReturnSound ==
  ASSUME HInv, NEW w \in Waiters, Return(w), waiting[w].step \in {"waiting", "woken"}
  PROVE  HInv'
<1> USE DEF HInv
<1>0. waiting[w].item \in Items
  BY DEF WaitersHaveItems
<1>1. waiting'[w] = NotWaiting /\ NotWaiting \in Wait
  BY DEF TypeOK, Return, Wait, NotWaiting
<1>2. \A v \in Waiters \ {w} : waiting'[v] = waiting[v]
  BY DEF TypeOK, Return
<1>3. TypeOK'
  BY <1>0, <1>1 DEF TypeOK, Return
<1>4. ResolversAreSound' /\ WaitersHaveItems' /\ VerdictsAreCommitted'
  BY <1>1, <1>2 DEF Return, ResolversAreSound, WaitersHaveItems, VerdictsAreCommitted,
                    NotWaiting
<1>5. FuturesAreAwaited'
  <2> SUFFICES ASSUME NEW j \in Items, futures'[j] # Nobody
               PROVE  waiting'[futures'[j]].step = "waiting" /\ waiting'[futures'[j]].item = j
    BY DEF FuturesAreAwaited
  <2>1. j # waiting[w].item /\ futures'[j] = futures[j]
    BY <1>0 DEF TypeOK, Return
  <2>2. futures[j] \in Waiters /\ futures[j] # w
    BY <2>1 DEF TypeOK, FuturesAreAwaited
  <2> QED BY <1>2, <2>1, <2>2 DEF FuturesAreAwaited
<1> QED BY <1>3, <1>4, <1>5

\* A poster cancelled before it files a future owns none.
LEMMA LeaveSound ==
  ASSUME HInv, NEW w \in Waiters, Leave(w), waiting[w].step = "posted"
  PROVE  HInv'
<1> USE DEF HInv
<1>1. waiting'[w] = NotWaiting /\ NotWaiting \in Wait
  BY DEF TypeOK, Leave, Wait, NotWaiting
<1>2. \A v \in Waiters \ {w} : waiting'[v] = waiting[v]
  BY DEF TypeOK, Leave
<1>3. TypeOK'
  BY <1>1 DEF TypeOK, Leave
<1>4. ResolversAreSound' /\ WaitersHaveItems' /\ VerdictsAreCommitted'
  BY <1>1, <1>2 DEF Leave, ResolversAreSound, WaitersHaveItems, VerdictsAreCommitted,
                    NotWaiting
<1>5. FuturesAreAwaited'
  BY <1>2 DEF Leave, FuturesAreAwaited, TypeOK
<1> QED BY <1>3, <1>4, <1>5

\* A resolver that moves on without touching rows or waiters.
LEMMA ResolverStep ==
  ASSUME HInv, NEW h \in Humans, NEW r \in Resolve, resolving' = [resolving EXCEPT ![h] = r],
         r.step \in {"idle", "flush", "commit", "cut"},
         r.step # "idle" => r.item \in Items /\ r.verdict \in Verdicts,
         UNCHANGED <<items, futures, waiting>>
  PROVE  HInv'
<1> USE DEF HInv
<1>1. TypeOK'
  BY DEF TypeOK
<1>2. resolving'[h] = r /\ \A g \in Humans \ {h} : resolving'[g] = resolving[g]
  BY DEF TypeOK
<1>3. ResolversAreSound'
  BY <1>2 DEF ResolversAreSound
<1> QED BY <1>1, <1>3 DEF WaitersHaveItems, FuturesAreAwaited, VerdictsAreCommitted

LEMMA CommitSound ==
  ASSUME HInv, NEW h \in Humans, Commit(h)
  PROVE  HInv'
<1> USE DEF HInv
<1> DEFINE i == resolving[h].item
<1>0. i \in Items /\ resolving[h].verdict \in Verdicts
  BY DEF Commit, ResolversAreSound
<1>1. /\ items'[i] \in Item /\ items'[i].status \in Verdicts
      /\ \A j \in Items \ {i} : items'[j] = items[j]
  BY <1>0 DEF Commit, TypeOK, Item
<1>2. /\ resolving'[h] \in Resolve /\ resolving'[h].step = "wake"
      /\ resolving'[h].item = i /\ resolving'[h].verdict = resolving[h].verdict
  BY DEF Commit, TypeOK, Resolve
<1>3. \A g \in Humans \ {h} : resolving'[g] = resolving[g]
  BY DEF Commit, TypeOK
<1>4. TypeOK'
  BY <1>0, <1>1, <1>2 DEF Commit, TypeOK
<1>5. ResolversAreSound'
  BY <1>0, <1>1, <1>2, <1>3 DEF ResolversAreSound
<1>6. VerdictsAreCommitted'
  BY <1>1 DEF Commit, VerdictsAreCommitted, WaitersHaveItems
<1> QED BY <1>4, <1>5, <1>6 DEF Commit, WaitersHaveItems, FuturesAreAwaited

LEMMA WakeSound ==
  ASSUME HInv, NEW h \in Humans, Wake(h)
  PROVE  HInv'
<1> USE DEF HInv
<1> DEFINE i == resolving[h].item
           w == futures[i]
<1>0. /\ i \in Items /\ resolving[h].verdict \in Verdicts /\ items[i].status \in Verdicts
      /\ futures' = [futures EXCEPT ![i] = Nobody] /\ items' = items
  BY DEF Wake, ResolversAreSound
<1>1. resolving'[h] = NotResolving /\ \A g \in Humans \ {h} : resolving'[g] = resolving[g]
  BY DEF Wake, TypeOK
<1>2. ResolversAreSound' /\ resolving' \in [Humans -> Resolve]
  BY <1>0, <1>1 DEF Wake, ResolversAreSound, NotResolving, TypeOK, Resolve
<1>3. CASE w = Nobody
  <2>1. waiting' = waiting
    BY <1>3 DEF Wake
  <2>2. FuturesAreAwaited'
    BY <1>0, <1>3, <2>1 DEF FuturesAreAwaited, TypeOK
  <2> QED BY <1>0, <1>2, <2>1, <2>2 DEF TypeOK, WaitersHaveItems, VerdictsAreCommitted
<1>4. CASE w # Nobody
  <2>0. w \in Waiters /\ waiting[w].step = "waiting" /\ waiting[w].item = i
    BY <1>0, <1>4 DEF TypeOK, FuturesAreAwaited
  <2>1. waiting' = [waiting EXCEPT ![w].step = "woken", ![w].verdict = resolving[h].verdict]
    BY <1>4 DEF Wake
  <2>a. waiting'[w] = [step |-> "woken", item |-> i, verdict |-> resolving[h].verdict]
    <3>1. waiting[w] = [step |-> "waiting", item |-> i, verdict |-> waiting[w].verdict]
      BY <2>0 DEF TypeOK, Wait
    <3> QED BY <2>0, <2>1, <3>1 DEF TypeOK
  <2>b. waiting' = [waiting EXCEPT ![w] = waiting'[w]]
    BY <2>0, <2>1 DEF TypeOK
  <2>2. /\ waiting'[w] \in Wait /\ waiting'[w].step = "woken" /\ waiting'[w].item = i
        /\ \A v \in Waiters \ {w} : waiting'[v] = waiting[v]
        /\ waiting' \in [Waiters -> Wait]
    BY <1>0, <2>0, <2>a, <2>b DEF TypeOK, Wait
  <2>3. \A j \in Items : futures'[j] # Nobody =>
           j # i /\ futures'[j] = futures[j] /\ futures[j] \in Waiters \ {w}
    BY <1>0, <2>0 DEF TypeOK, FuturesAreAwaited
  <2>4. FuturesAreAwaited'
    BY <2>2, <2>3 DEF FuturesAreAwaited
  <2>5. WaitersHaveItems' /\ VerdictsAreCommitted'
    BY <1>0, <2>0, <2>2 DEF WaitersHaveItems, VerdictsAreCommitted
  <2> QED BY <1>0, <1>2, <2>2, <2>4, <2>5 DEF TypeOK
<1> QED BY <1>3, <1>4

LEMMA PostSound ==
  ASSUME HInv, NEW w \in Waiters, NEW i \in Items, Post(w, i)
  PROVE  HInv'
<1> USE DEF HInv
<1>1. Posted \in Item /\ items[i].status = "absent"
  BY DEF Posted, Item, Post
<1>2. /\ waiting'[w] \in Wait /\ waiting'[w].step \in {"idle", "posted"}
      /\ waiting'[w].step = "posted" => waiting'[w].item = i
      /\ \A v \in Waiters \ {w} : waiting'[v] = waiting[v]
      /\ waiting' \in [Waiters -> Wait]
  <2> DEFINE posted == [NotWaiting EXCEPT !.step = "posted", !.item = i]
  <2>1. posted \in Wait /\ posted.step = "posted" /\ posted.item = i
    BY DEF Wait, NotWaiting
  <2>2. waiting' = [waiting EXCEPT ![w] = posted] \/ waiting' = waiting
    BY DEF Post
  <2>3. waiting[w].step = "idle"
    BY DEF Post
  <2> QED BY <2>1, <2>2, <2>3 DEF TypeOK
<1>3. \A j \in Items \ {i} : items'[j] = items[j]
  BY DEF Post, TypeOK
<1>4. TypeOK'
  BY <1>1, <1>2 DEF Post, TypeOK
<1>5. ResolversAreSound'
  BY <1>1, <1>3 DEF Post, ResolversAreSound, Verdicts
<1>6. WaitersHaveItems'
  BY <1>2 DEF WaitersHaveItems
<1>7. VerdictsAreCommitted'
  BY <1>1, <1>2, <1>3 DEF VerdictsAreCommitted, WaitersHaveItems, Verdicts
<1>8. FuturesAreAwaited'
  BY <1>2 DEF Post, FuturesAreAwaited, TypeOK
<1> QED BY <1>4, <1>5, <1>6, <1>7, <1>8

LEMMA NextSound == HInv /\ [Next]_vars => HInv'
<1> SUFFICES ASSUME HInv, [Next]_vars PROVE HInv'
  OBVIOUS
<1>1. ASSUME NEW w \in Waiters, NEW i \in Items, Post(w, i) \/ WaitById(w, i) PROVE HInv'
  BY <1>1, PostSound, RegisterSound DEF WaitById
<1>2. ASSUME NEW w \in Waiters, WaitAfterPost(w) PROVE HInv'
  <2>1. waiting[w].item \in Items
    BY <1>2 DEF WaitAfterPost, HInv, WaitersHaveItems
  <2> QED BY <1>2, <2>1, RegisterSound DEF WaitAfterPost
<1>3. ASSUME NEW w \in Waiters, Awake(w) \/ Cancel(w) PROVE HInv'
  BY <1>3, ReturnSound, LeaveSound DEF Awake, Cancel
<1>4. ASSUME NEW h \in Humans, NEW i \in Items, BeginResolve(h, i) PROVE HInv'
  <2>1. PICK verdict \in Verdicts, noted \in BOOLEAN :
          resolving' = [resolving EXCEPT ![h] = [step |-> "flush", item |-> i,
                                                 verdict |-> verdict, noted |-> noted]]
    BY <1>4 DEF BeginResolve
  <2> DEFINE r == [step |-> "flush", item |-> i, verdict |-> verdict, noted |-> noted]
  <2>2. r \in Resolve
    BY DEF Resolve
  <2> QED BY <1>4, <2>1, <2>2, ResolverStep DEF BeginResolve
<1>5. ASSUME NEW h \in Humans, Flush(h) PROVE HInv'
  <2> DEFINE r == [resolving[h] EXCEPT !.step = "commit"]
  <2>1. /\ r \in Resolve /\ r.step = "commit" /\ r.item = resolving[h].item
        /\ r.verdict = resolving[h].verdict
    BY DEF HInv, TypeOK, Resolve
  <2>2. r.item \in Items /\ r.verdict \in Verdicts
    BY <1>5, <2>1 DEF Flush, HInv, ResolversAreSound
  <2>3. resolving' = [resolving EXCEPT ![h] = r]
    BY <1>5 DEF Flush
  <2> QED BY <1>5, <2>1, <2>2, <2>3, ResolverStep DEF Flush
<1>6. ASSUME NEW h \in Humans, Abort(h) PROVE HInv'
  <2>1. NotResolving \in Resolve /\ NotResolving.step = "idle"
    BY DEF NotResolving, Resolve
  <2> QED BY <1>6, <2>1, ResolverStep DEF Abort
<1>7. ASSUME NEW h \in Humans, Commit(h) \/ Wake(h) PROVE HInv'
  BY <1>7, CommitSound, WakeSound
<1>9. ASSUME NEW h \in Humans, CutShort(h) PROVE HInv'
  <2> DEFINE r == [resolving[h] EXCEPT !.step = "cut"]
  <2>1. /\ r \in Resolve /\ r.step = "cut" /\ r.item = resolving[h].item
        /\ r.verdict = resolving[h].verdict
    BY DEF HInv, TypeOK, Resolve
  <2>2. r.item \in Items /\ r.verdict \in Verdicts
    BY <1>9, <2>1 DEF CutShort, HInv, ResolversAreSound
  <2>3. resolving' = [resolving EXCEPT ![h] = r]
    BY <1>9 DEF CutShort
  <2> QED BY <1>9, <2>1, <2>2, <2>3, ResolverStep DEF CutShort
<1>8. ASSUME UNCHANGED vars PROVE HInv'
  BY <1>8 DEF vars, HInv, TypeOK, ResolversAreSound, WaitersHaveItems, FuturesAreAwaited,
              VerdictsAreCommitted
<1> QED BY <1>1, <1>2, <1>3, <1>4, <1>5, <1>6, <1>7, <1>8, <1>9 DEF Next

-----------------------------------------------------------------------------

\* The inductive invariant holds in every reachable state.
THEOREM Invariance == Spec => []HInv
  BY InitSound, NextSound, PTL DEF Spec

\* Items, resolvers and waiters keep their types, whoever resolves what and when.
THEOREM TypeCorrect == Spec => []TypeOK
<1>1. HInv => TypeOK
  BY DEF HInv
<1> QED BY <1>1, Invariance, PTL

\* No entry of _futures is ever left without somebody awaiting it.
THEOREM FuturesStayAwaited == Spec => []FuturesAreAwaited
<1>1. HInv => FuturesAreAwaited
  BY DEF HInv
<1> QED BY <1>1, Invariance, PTL

\* No waiter is ever handed a verdict that is not in the database.
THEOREM VerdictsCommitFirst == Spec => []VerdictsAreCommitted
<1>1. HInv => VerdictsAreCommitted
  BY DEF HInv
<1> QED BY <1>1, Invariance, PTL

-----------------------------------------------------------------------------
(* What the documented immutability of resolved items depends on.          *)

Deciding(h) == resolving[h].step \in {"flush", "commit"}

\* No two resolve() calls are between their SELECT and their COMMIT on one item.
ResolversApart ==
    \A g, h \in Humans : Deciding(g) /\ Deciding(h) /\ resolving[g].item = resolving[h].item
                           => g = h

\* What a resolver saw is still so.
DecideOnPending == \A h \in Humans : Deciding(h) => items[resolving[h].item].status = "pending"

\* Only a commit changes the status of a posted item, and only of its own item.
LEMMA StatusStays ==
  ASSUME HInv, [Next]_vars, NEW i \in Items, items'[i] # items[i]
  PROVE  \/ items[i].status = "absent"
         \/ \E h \in Humans : Commit(h) /\ resolving[h].item = i
<1>0. items \in [Items -> Item]
  BY DEF HInv, TypeOK
<1>1. ASSUME NEW w \in Waiters, NEW j \in Items, Post(w, j) PROVE items[i].status = "absent"
  BY <1>0, <1>1 DEF Post
<1>2. ASSUME NEW h \in Humans, Commit(h) PROVE resolving[h].item = i
  BY <1>0, <1>2 DEF Commit
<1>3. ASSUME NEW w \in Waiters, NEW j \in Items, WaitById(w, j) PROVE FALSE
  BY <1>3 DEF WaitById, Register
<1>4. ASSUME NEW w \in Waiters, WaitAfterPost(w) \/ Awake(w) \/ Cancel(w) PROVE FALSE
  BY <1>4 DEF WaitAfterPost, Register, Awake, Cancel, Return, Leave
<1>5. ASSUME NEW h \in Humans, Flush(h) \/ Wake(h) \/ Abort(h) \/ CutShort(h) PROVE FALSE
  BY <1>5 DEF Flush, Wake, Abort, CutShort
<1>6. ASSUME NEW h \in Humans, NEW j \in Items, BeginResolve(h, j) PROVE FALSE
  BY <1>6 DEF BeginResolve
<1> QED BY <1>1, <1>2, <1>3, <1>4, <1>5, <1>6 DEF Next, vars

\* A resolver decides on one item from its SELECT to its COMMIT.
LEMMA DecidingKeepsItem ==
  ASSUME HInv, [Next]_vars, NEW h \in Humans, Deciding(h)'
  PROVE  \/ Deciding(h) /\ resolving'[h].item = resolving[h].item /\ ~Commit(h)
         \/ \E i \in Items : /\ BeginResolve(h, i) /\ resolving'[h].item = i
                             /\ items[i].status = "pending" /\ items' = items
<1>0. resolving \in [Humans -> Resolve] /\ resolving[h] \in Resolve
  BY DEF HInv, TypeOK
<1> DEFINE Same == Deciding(h) /\ resolving'[h].item = resolving[h].item
<1>1. ASSUME NEW g \in Humans, NEW i \in Items, BeginResolve(g, i)
      PROVE  \/ Same /\ g # h
             \/ g = h /\ resolving'[h].item = i /\ items[i].status = "pending" /\ items' = items
  <2>1. PICK verdict \in Verdicts, noted \in BOOLEAN :
          resolving' = [resolving EXCEPT ![g] = [step |-> "flush", item |-> i,
                                                 verdict |-> verdict, noted |-> noted]]
    BY <1>1 DEF BeginResolve
  <2> QED BY <1>0, <1>1, <2>1 DEF BeginResolve, Deciding
<1>2. ASSUME NEW g \in Humans, Flush(g) PROVE Same
  BY <1>0, <1>2 DEF Flush, Deciding, Resolve
<1>3. ASSUME NEW g \in Humans, Commit(g) PROVE Same /\ g # h
  BY <1>0, <1>3 DEF Commit, Deciding, Resolve
<1>4. ASSUME NEW g \in Humans, Wake(g) \/ Abort(g) \/ CutShort(g) PROVE Same
  BY <1>0, <1>4 DEF Wake, Abort, CutShort, Deciding, NotResolving, Resolve
<1>5. ASSUME UNCHANGED resolving PROVE Same
  BY <1>5 DEF Deciding
<1>6. ASSUME NEW w \in Waiters, NEW j \in Items, Post(w, j) \/ WaitById(w, j)
      PROVE  UNCHANGED resolving
  BY <1>6 DEF Post, WaitById, Register
<1>7. ASSUME NEW w \in Waiters, WaitAfterPost(w) \/ Awake(w) \/ Cancel(w)
      PROVE  UNCHANGED resolving
  BY <1>7 DEF WaitAfterPost, Register, Awake, Cancel, Return, Leave
<1>8. ASSUME Same, Commit(h) PROVE FALSE
  BY <1>0, <1>8 DEF Commit, Deciding, Resolve
<1> QED BY <1>1, <1>2, <1>3, <1>4, <1>5, <1>6, <1>7, <1>8 DEF Next, vars

\* Under that condition what a resolver saw stays so until it commits.
LEMMA DecidingKeeps ==
  ASSUME HInv, ResolversApart, DecideOnPending, [Next]_vars
  PROVE  DecideOnPending'
<1> SUFFICES ASSUME NEW h \in Humans, Deciding(h)'
             PROVE  items'[resolving'[h].item].status = "pending"
  BY DEF DecideOnPending
<1>1. CASE Deciding(h) /\ resolving'[h].item = resolving[h].item /\ ~Commit(h)
  <2> DEFINE i == resolving[h].item
  <2>1. i \in Items /\ items[i].status = "pending"
    BY <1>1 DEF HInv, ResolversAreSound, DecideOnPending, Deciding
  <2>2. ASSUME NEW g \in Humans, Commit(g), resolving[g].item = i PROVE FALSE
    <3>1. Deciding(g)
      BY <2>2 DEF Commit, Deciding
    <3>2. g = h
      BY <1>1, <2>2, <3>1 DEF ResolversApart
    <3> QED BY <1>1, <2>2, <3>2
  <2>3. items'[i] = items[i]
    BY <2>1, <2>2, StatusStays
  <2> QED BY <1>1, <2>1, <2>3
<1>2. CASE \E i \in Items : /\ BeginResolve(h, i) /\ resolving'[h].item = i
                            /\ items[i].status = "pending" /\ items' = items
  BY <1>2
<1> QED BY <1>1, <1>2, DecidingKeepsItem

\* So no commit finds its item resolved.
LEMMA ResolvedStays ==
  ASSUME HInv, DecideOnPending, [Next]_vars, NEW i \in Items, items[i].status \in Verdicts
  PROVE  items'[i] = items[i]
<1> SUFFICES ASSUME items'[i] # items[i] PROVE FALSE
  OBVIOUS
<1>1. PICK h \in Humans : Commit(h) /\ resolving[h].item = i
  BY StatusStays DEF Verdicts
<1> QED BY <1>1 DEF DecideOnPending, Deciding, Commit, Verdicts

LEMMA DecideOnPendingHolds == Spec /\ []ResolversApart => []DecideOnPending
<1>1. Init => DecideOnPending
  BY DEF Init, DecideOnPending, Deciding, NotResolving
<1>2. HInv /\ ResolversApart /\ DecideOnPending /\ [Next]_vars => DecideOnPending'
  BY DecidingKeeps
<1> QED BY <1>1, <1>2, Invariance, PTL DEF Spec

\* A resolved item is immutable as long as no two resolutions of it overlap: the status
\* check of resolve() is all that protects it, and it is only as good as its SELECT.
THEOREM ImmutableUnlessShared == Spec /\ []ResolversApart => ResolvedIsImmutable
<1>1. HInv /\ DecideOnPending /\ [Next]_vars =>
        [\A i \in Items : items[i].status \in Verdicts => items'[i] = items[i]]_vars
  BY ResolvedStays
<1> QED BY <1>1, DecideOnPendingHolds, Invariance, PTL DEF Spec, ResolvedIsImmutable

\* The verdict that a waiter is handed, and the one that a resolver is about to hand over,
\* are what the database holds.
Told ==
    /\ \A h \in Humans : resolving[h].step = "wake" =>
          items[resolving[h].item].status = resolving[h].verdict
    /\ \A w \in Waiters : waiting[w].step = "woken" =>
          items[waiting[w].item].status = waiting[w].verdict

LEMMA ToldStep ==
  ASSUME HInv, DecideOnPending, Told, Next
  PROVE  Told'
<1>0. /\ items \in [Items -> Item] /\ resolving \in [Humans -> Resolve]
      /\ waiting \in [Waiters -> Wait] /\ futures \in [Items -> Waiters \cup {Nobody}]
  BY DEF HInv, TypeOK
<1>a. \A i \in Items : items[i].status \in Verdicts => items'[i] = items[i]
  BY ResolvedStays
<1>b. /\ \A h \in Humans : resolving[h].step = "wake" =>
            /\ resolving[h].item \in Items
            /\ items'[resolving[h].item].status = resolving[h].verdict
      /\ \A w \in Waiters : waiting[w].step = "woken" =>
            /\ waiting[w].item \in Items
            /\ items'[waiting[w].item].status = waiting[w].verdict
  BY <1>a DEF HInv, ResolversAreSound, WaitersHaveItems, VerdictsAreCommitted, Told
<1>1. ASSUME NEW h \in Humans, resolving'[h].step = "wake"
      PROVE  items'[resolving'[h].item].status = resolving'[h].verdict
  <2>1. CASE resolving'[h] = resolving[h]
    BY <1>1, <1>b, <2>1
  <2>2. CASE resolving'[h] # resolving[h]
    <3>1. Commit(h)
      <4>1. ASSUME NEW g \in Humans, NEW i \in Items, BeginResolve(g, i) PROVE FALSE
        <5>1. PICK verdict \in Verdicts, noted \in BOOLEAN :
                resolving' = [resolving EXCEPT ![g] = [step |-> "flush", item |-> i,
                                                       verdict |-> verdict, noted |-> noted]]
          BY <4>1 DEF BeginResolve
        <5> QED BY <1>0, <1>1, <2>2, <5>1
      <4>2. ASSUME NEW g \in Humans, Flush(g) \/ Wake(g) \/ Abort(g) \/ CutShort(g) PROVE FALSE
        BY <1>0, <1>1, <2>2, <4>2 DEF Flush, Wake, Abort, CutShort, NotResolving, Resolve
      <4>3. ASSUME NEW g \in Humans, Commit(g) PROVE g = h
        BY <1>0, <2>2, <4>3 DEF Commit
      <4>4. ASSUME NEW w \in Waiters, NEW i \in Items, Post(w, i) \/ WaitById(w, i) PROVE FALSE
        BY <2>2, <4>4 DEF Post, WaitById, Register
      <4>5. ASSUME NEW w \in Waiters, WaitAfterPost(w) \/ Awake(w) \/ Cancel(w) PROVE FALSE
        BY <2>2, <4>5 DEF WaitAfterPost, Register, Awake, Cancel, Return, Leave
      <4> QED BY <4>1, <4>2, <4>3, <4>4, <4>5 DEF Next
    <3>2. resolving[h].item \in Items
      BY <3>1 DEF Commit, HInv, ResolversAreSound
    <3>3. /\ resolving'[h].item = resolving[h].item
          /\ resolving'[h].verdict = resolving[h].verdict
      BY <1>0, <3>1 DEF Commit, Resolve
    <3>4. items'[resolving[h].item].status = resolving[h].verdict
      BY <1>0, <3>1, <3>2 DEF Commit
    <3> QED BY <3>3, <3>4
  <2> QED BY <2>1, <2>2
<1>2. ASSUME NEW w \in Waiters, waiting'[w].step = "woken"
      PROVE  items'[waiting'[w].item].status = waiting'[w].verdict
  <2>1. CASE waiting'[w] = waiting[w]
    BY <1>2, <1>b, <2>1
  <2>2. CASE waiting'[w] # waiting[w]
    <3>1. \E h \in Humans : Wake(h)
      <4>1. ASSUME NEW v \in Waiters, NEW i \in Items, Post(v, i) PROVE FALSE
        BY <1>0, <1>2, <2>2, <4>1 DEF Post, NotWaiting
      <4>2. ASSUME NEW v \in Waiters, NEW i, Register(v, i) PROVE FALSE
        BY <1>0, <1>2, <2>2, <4>2 DEF Register, NotWaiting
      <4>3. ASSUME NEW v \in Waiters, Return(v) PROVE FALSE
        BY <1>0, <1>2, <2>2, <4>3 DEF Return, NotWaiting
      <4>6. ASSUME NEW v \in Waiters, Leave(v) PROVE FALSE
        BY <1>0, <1>2, <2>2, <4>6 DEF Leave, NotWaiting
      <4>4. ASSUME NEW h \in Humans, Flush(h) \/ Commit(h) \/ Abort(h) \/ CutShort(h)
            PROVE  FALSE
        BY <2>2, <4>4 DEF Flush, Commit, Abort, CutShort
      <4>5. ASSUME NEW h \in Humans, NEW i \in Items, BeginResolve(h, i) PROVE FALSE
        BY <2>2, <4>5 DEF BeginResolve
      <4> QED BY <4>1, <4>2, <4>3, <4>4, <4>5, <4>6
            DEF Next, WaitById, WaitAfterPost, Awake, Cancel
    <3>2. PICK h \in Humans : Wake(h)
      BY <3>1
    <3> DEFINE i == resolving[h].item
               v == futures[i]
    <3>3. /\ i \in Items /\ v # Nobody /\ v \in Waiters /\ resolving[h].step = "wake"
          /\ waiting' = [waiting EXCEPT ![v].step = "woken", ![v].verdict = resolving[h].verdict]
      BY <1>0, <2>2, <3>2 DEF Wake, HInv, ResolversAreSound
    <3>4. v = w
      BY <1>0, <2>2, <3>3
    <3>5. waiting[w].item = i
      BY <3>3, <3>4 DEF HInv, FuturesAreAwaited
    <3>6. waiting'[w].item = i /\ waiting'[w].verdict = resolving[h].verdict
      BY <1>0, <3>3, <3>4, <3>5 DEF Wait
    <3> QED BY <1>b, <3>3, <3>6
  <2> QED BY <2>1, <2>2
<1> QED BY <1>1, <1>2 DEF Told

\* Under the same condition nobody acts on a verdict other than the one that stands.
THEOREM WokenWithTheStoredVerdict == Spec /\ []ResolversApart => []Told
<1>1. Init => Told
  BY DEF Init, Told, NotResolving, NotWaiting
<1>2. HInv /\ DecideOnPending /\ Told /\ [Next]_vars => Told'
  <2> SUFFICES ASSUME HInv, DecideOnPending, Told, UNCHANGED vars PROVE Told'
    BY ToldStep
  <2> QED BY DEF vars, Told
<1> QED BY <1>1, <1>2, DecideOnPendingHolds, Invariance, PTL DEF Spec

=============================================================================
