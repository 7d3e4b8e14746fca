--------------------------- MODULE ReviewGateProofs ---------------------------
(***************************************************************************)
(* What holds of parked tasks and their review items, for any tasks,       *)
(* agents, gates and humans.                                               *)
(***************************************************************************)
EXTENDS ReviewGate, TLAPS

\* An item was posted for the task, whatever has become of it.
HasItem(t) == \E g \in Gates : gate[g].task = t /\ items[g].status # "absent"

\* The review half of the invariant: an item appears when its gate posts it, and every
\* call that is under way knows an item that exists.
GatesAreSound ==
    \A g \in Gates :
        /\ gate[g].step # "idle" => gate[g].task \in Tasks
        /\ gate[g].step \in {"idle", "post"} => items[g].status = "absent"
        /\ gate[g].step = "park" => items[g].status # "absent"

ResolversAreSound ==
    \A h \in Humans : resolving[h].step # "idle" =>
        /\ resolving[h].item \in Gates /\ resolving[h].verdict \in Review!Verdicts
        /\ items[resolving[h].item].status # "absent"
        /\ resolving[h].step = "wake" => items[resolving[h].item].status \in Review!Verdicts

ResumesAreSound ==
    \A h \in Humans :
        /\ resume[h].step = "resolving" =>
             resolving[h].step # "idle" /\ resolving[h].item = resume[h].item
        /\ resume[h].step \in {"reject", "rejecting"} =>
             /\ resume[h].item \in Gates
             /\ items[resume[h].item].status \in Review!Verdicts

ReviewSound ==
    /\ Review!TypeOK /\ gate \in [Gates -> Gate] /\ resume \in [Humans -> Resume]
    /\ GatesAreSound /\ ResolversAreSound /\ ResumesAreSound

\* The queue half: what a request may want of a row it loaded as seen.  It parks only a
\* task with an item; a parked row it only fails or requeues, and not from a gate.
MayWant(c, t, seen, want) ==
    /\ want.state \in {"completed", "failed", "pending", "awaiting_review"}
    /\ want.agent \in {seen.agent, Nobody}
    /\ want.state = "awaiting_review" => HasItem(t)
    /\ seen.state = "awaiting_review" => want.state \in {"failed", "pending"} /\ c \notin Gates

WritesAreSound(c) ==
    tx[c].step \in {"flush", "commit"} =>
        tx[c].task \in Tasks /\ MayWant(c, tx[c].task, tx[c].seen, tx[c].want)

RequestsAreSound ==
    /\ Queue!OneWriterPerRow
    /\ \A c \in Callers : Queue!ClaimKeepsItsRow(c) /\ WritesAreSound(c)

QueueSound == Queue!TypeOK /\ RequestsAreSound /\ ParkedWasPosted

\* Inductive: a parked row leans on the request that parked it, the request on the item
\* its gate posted before.
RInv == ReviewSound /\ QueueSound

-----------------------------------------------------------------------------
(* The review half.                                                        *)

LEMMA ReviewInit == Init => ReviewSound
<1> SUFFICES ASSUME Init PROVE ReviewSound
  OBVIOUS
<1> USE DEF Init, Review!Init
<1>1. Review!TypeOK
  BY DEF Review!TypeOK, Review!Item, Review!Absent, Review!Wait, Review!Resolve,
         Review!NotResolving
<1>2. gate \in [Gates -> Gate] /\ resume \in [Humans -> Resume]
  BY DEF Gate, Resume, NotResuming
<1>3. GatesAreSound /\ ResolversAreSound /\ ResumesAreSound
  BY DEF GatesAreSound, ResolversAreSound, ResumesAreSound, Review!Absent,
         Review!NotResolving, NotResuming
<1> QED BY <1>1, <1>2, <1>3 DEF ReviewSound

\* A gate that moves on without posting keeps its task.
LEMMA GateMovesOn ==
  ASSUME ReviewSound, NEW g \in Gates, NEW step, Goto(g, step), UNCHANGED <<reviewvars, resume>>,
         gate[g].step # "idle", step \in {"parking", "finalize", "finishing", "done"}
  PROVE  ReviewSound' /\ \A t \in Tasks : HasItem(t) => HasItem(t)'
<1> USE DEF ReviewSound, reviewvars
<1>1. /\ gate' \in [Gates -> Gate] /\ gate'[g].step = step /\ gate'[g].task = gate[g].task
      /\ \A f \in Gates \ {g} : gate'[f] = gate[f]
  BY DEF Goto, Gate
<1>2. GatesAreSound'
  BY <1>1 DEF GatesAreSound
<1>3. Review!TypeOK' /\ ResolversAreSound' /\ ResumesAreSound'
  BY DEF Review!TypeOK, ResolversAreSound, ResumesAreSound
<1>4. \A t \in Tasks : HasItem(t) => HasItem(t)'
  BY <1>1 DEF HasItem
<1> QED BY <1>1, <1>2, <1>3, <1>4

LEMMA EnterSound ==
  ASSUME ReviewSound, NEW g \in Gates, NEW u \in Tasks, Enter(g, u)
  PROVE  ReviewSound' /\ \A t \in Tasks : HasItem(t) => HasItem(t)'
<1> USE DEF ReviewSound, reviewvars
<1>1. /\ gate' \in [Gates -> Gate] /\ gate'[g] = [step |-> "post", task |-> u]
      /\ gate[g].step = "idle" /\ \A f \in Gates \ {g} : gate'[f] = gate[f]
  BY DEF Enter, Gate
<1>2. items[g].status = "absent" /\ UNCHANGED <<items, resolving, resume>>
  BY <1>1 DEF GatesAreSound, Enter
<1>3. GatesAreSound'
  BY <1>1, <1>2 DEF GatesAreSound
<1>4. Review!TypeOK' /\ ResolversAreSound' /\ ResumesAreSound'
  BY <1>2 DEF Review!TypeOK, ResolversAreSound, ResumesAreSound
<1>5. \A t \in Tasks : HasItem(t) => HasItem(t)'
  BY <1>1, <1>2 DEF HasItem
<1> QED BY <1>1, <1>2, <1>3, <1>4, <1>5

LEMMA PostSound ==
  ASSUME ReviewSound, NEW g \in Gates, Post(g)
  PROVE  ReviewSound' /\ \A t \in Tasks : HasItem(t) => HasItem(t)'
<1> USE DEF ReviewSound, reviewvars
<1>1. /\ gate' \in [Gates -> Gate] /\ gate'[g].step = "park" /\ gate'[g].task = gate[g].task
      /\ gate[g].step = "post" /\ \A f \in Gates \ {g} : gate'[f] = gate[f]
  BY DEF Post, Goto, Gate
<1>2. /\ items[g].status = "absent" /\ items' = [items EXCEPT ![g] = Review!Posted]
      /\ UNCHANGED <<resolving, resume>>
  BY DEF Post, Review!Post
<1>3. Review!Posted \in Review!Item /\ Review!Posted.status = "pending"
  BY DEF Review!Posted, Review!Item
<1>4. /\ items' \in [Gates -> Review!Item] /\ items'[g].status = "pending"
      /\ \A f \in Gates \ {g} : items'[f] = items[f]
  BY <1>2, <1>3 DEF Review!TypeOK
<1>5. Review!TypeOK'
  BY <1>2, <1>4 DEF Review!TypeOK
<1>6. GatesAreSound'
  BY <1>1, <1>4 DEF GatesAreSound
<1>7. ResolversAreSound'
  BY <1>2, <1>4 DEF ResolversAreSound
<1>8. ResumesAreSound'
  BY <1>2, <1>4 DEF ResumesAreSound, Review!Verdicts
<1>9. \A t \in Tasks : HasItem(t) => HasItem(t)'
  BY <1>1, <1>4 DEF HasItem
<1> QED BY <1>1, <1>2, <1>5, <1>6, <1>7, <1>8, <1>9

\* What resolvers and resumers leave alone: the gates, and that an item exists.
LEMMA ItemsGrow ==
  ASSUME ReviewSound, UNCHANGED gate, items' \in [Gates -> Review!Item],
         \A g \in Gates : \/ items'[g] = items[g]
                          \/ /\ items'[g].status \in Review!Verdicts
                             /\ items[g].status # "absent"
  PROVE  GatesAreSound' /\ \A t \in Tasks : HasItem(t) => HasItem(t)'
<1>1. \A g \in Gates : items[g].status # "absent" <=> items'[g].status # "absent"
  BY DEF Review!Verdicts
<1> QED BY <1>1 DEF ReviewSound, GatesAreSound, HasItem

\* A resolver that moves on while its resumer waits for it, or ends with it.
LEMMA ResolverStep ==
  ASSUME ReviewSound, NEW h \in Humans, NEW r \in Review!Resolve, NEW s \in Resume,
         resolving' = [resolving EXCEPT ![h] = r], resume' = [resume EXCEPT ![h] = s],
         UNCHANGED <<items, gate>>,
         r.step # "idle" => /\ r.item \in Gates /\ r.verdict \in Review!Verdicts
                            /\ items[r.item].status # "absent"
                            /\ r.step # "wake",
         s.step = "resolving" => r.step # "idle" /\ r.item = s.item,
         s.step \in {"reject", "rejecting"} =>
            s.item \in Gates /\ items[s.item].status \in Review!Verdicts
  PROVE  ReviewSound' /\ \A t \in Tasks : HasItem(t) => HasItem(t)'
<1> USE DEF ReviewSound
<1>1. /\ resolving' \in [Humans -> Review!Resolve] /\ resolving'[h] = r
      /\ \A k \in Humans \ {h} : resolving'[k] = resolving[k]
  BY DEF Review!TypeOK
<1>2. /\ resume' \in [Humans -> Resume] /\ resume'[h] = s
      /\ \A k \in Humans \ {h} : resume'[k] = resume[k]
  OBVIOUS
<1>3. Review!TypeOK'
  BY <1>1 DEF Review!TypeOK
<1>4. ResolversAreSound'
  BY <1>1 DEF ResolversAreSound
<1>5. ResumesAreSound'
  BY <1>1, <1>2 DEF ResumesAreSound
<1>6. GatesAreSound' /\ \A t \in Tasks : HasItem(t) => HasItem(t)'
  BY DEF GatesAreSound, HasItem
<1> QED BY <1>2, <1>3, <1>4, <1>5, <1>6

LEMMA BeginResumeSound ==
  ASSUME ReviewSound, NEW h \in Humans, NEW g \in Gates, BeginResume(h, g)
  PROVE  ReviewSound' /\ \A t \in Tasks : HasItem(t) => HasItem(t)'
<1>1. PICK verdict \in Review!Verdicts, noted \in BOOLEAN :
        resolving' = [resolving EXCEPT ![h] = [step |-> "flush", item |-> g,
                                               verdict |-> verdict, noted |-> noted]]
  BY DEF BeginResume, Review!BeginResolve
<1> DEFINE r == [step |-> "flush", item |-> g, verdict |-> verdict, noted |-> noted]
           s == [step |-> "resolving", item |-> g]
<1>2. r \in Review!Resolve /\ s \in Resume
  BY DEF Review!Resolve, Resume
<1>3. /\ items[g].status = "pending" /\ resume' = [resume EXCEPT ![h] = s]
      /\ UNCHANGED <<items, gate>>
  BY DEF BeginResume, Review!BeginResolve
<1> QED BY <1>1, <1>2, <1>3, ResolverStep

LEMMA CommitVerdictSound ==
  ASSUME ReviewSound, NEW h \in Humans, Review!Commit(h), UNCHANGED <<gate, resume>>
  PROVE  ReviewSound' /\ \A t \in Tasks : HasItem(t) => HasItem(t)'
<1> USE DEF ReviewSound
<1> DEFINE i == resolving[h].item
<1>0. /\ i \in Gates /\ resolving[h].verdict \in Review!Verdicts
      /\ items[i].status # "absent" /\ resolving[h].step # "idle"
  BY DEF Review!Commit, ResolversAreSound
<1>1. /\ items' \in [Gates -> Review!Item] /\ items'[i].status \in Review!Verdicts
      /\ \A j \in Gates \ {i} : items'[j] = items[j]
  BY <1>0 DEF Review!Commit, Review!TypeOK, Review!Item
<1>2. /\ resolving'[h] \in Review!Resolve /\ resolving'[h].step = "wake"
      /\ resolving'[h].item = i /\ resolving'[h].verdict = resolving[h].verdict
      /\ \A k \in Humans \ {h} : resolving'[k] = resolving[k]
      /\ resolving' \in [Humans -> Review!Resolve]
  BY DEF Review!Commit, Review!TypeOK, Review!Resolve
<1>3. Review!TypeOK'
  BY <1>1, <1>2 DEF Review!TypeOK
<1>4. GatesAreSound' /\ \A t \in Tasks : HasItem(t) => HasItem(t)'
  BY <1>0, <1>1, ItemsGrow
<1>5. \A j \in Gates : /\ items[j].status # "absent" => items'[j].status # "absent"
                       /\ items[j].status \in Review!Verdicts
                            => items'[j].status \in Review!Verdicts
  BY <1>1 DEF Review!Verdicts
<1>6. ResolversAreSound'
  BY <1>0, <1>1, <1>2, <1>5 DEF ResolversAreSound
<1>7. ResumesAreSound'
  BY <1>0, <1>2, <1>5 DEF ResumesAreSound
<1> QED BY <1>3, <1>4, <1>6, <1>7

LEMMA ResolveSound ==
  ASSUME ReviewSound, NEW h \in Humans, Resolve(h)
  PROVE  ReviewSound' /\ \A t \in Tasks : HasItem(t) => HasItem(t)'
<1>0. /\ resolving[h] \in Review!Resolve /\ resume[h] \in Resume
      /\ Review!NotResolving \in Review!Resolve /\ NotResuming \in Resume
      /\ resume[h].step = "resolving" /\ resolving[h].item = resume[h].item
  BY DEF ReviewSound, Review!TypeOK, Review!NotResolving, Review!Resolve, NotResuming, Resume,
         Resolve, ResumesAreSound
<1>1. ASSUME Review!Flush(h), UNCHANGED <<resume, gate>>
      PROVE  ReviewSound' /\ \A t \in Tasks : HasItem(t) => HasItem(t)'
  <2> DEFINE r == [resolving[h] EXCEPT !.step = "commit"]
  <2>1. /\ r \in Review!Resolve /\ r.step = "commit" /\ r.item = resolving[h].item
        /\ r.verdict = resolving[h].verdict
    BY <1>0 DEF Review!Resolve
  <2>2. resolving' = [resolving EXCEPT ![h] = r] /\ UNCHANGED items
    BY <1>1 DEF Review!Flush
  <2>3. /\ r.item \in Gates /\ r.verdict \in Review!Verdicts /\ items[r.item].status # "absent"
    BY <1>1, <2>1 DEF Review!Flush, ReviewSound, ResolversAreSound
  <2>4. resume' = [resume EXCEPT ![h] = resume[h]]
    BY <1>1 DEF ReviewSound
  <2> QED BY <1>0, <1>1, <2>1, <2>2, <2>3, <2>4, ResolverStep
<1>2. ASSUME Review!Wake(h) \/ Review!Abort(h), NEW s \in Resume, UNCHANGED gate,
             resume' = [resume EXCEPT ![h] = s], s.step # "resolving",
             s.step \in {"reject", "rejecting"} =>
                s.item \in Gates /\ items[s.item].status \in Review!Verdicts
      PROVE  ReviewSound' /\ \A t \in Tasks : HasItem(t) => HasItem(t)'
  <2>1. resolving' = [resolving EXCEPT ![h] = Review!NotResolving] /\ UNCHANGED items
    BY <1>2 DEF Review!Wake, Review!Abort
  <2>2. Review!NotResolving.step = "idle"
    BY DEF Review!NotResolving
  <2> QED BY <1>0, <1>2, <2>1, <2>2, ResolverStep
<1>3. CASE Review!Wake(h) /\ UNCHANGED gate /\ ResumeAt(h, "reject")
  <2> DEFINE s == [resume[h] EXCEPT !.step = "reject"]
  <2>1. s \in Resume /\ s.step = "reject" /\ s.item = resolving[h].item
    BY <1>0 DEF Resume
  <2>2. s.item \in Gates /\ items[s.item].status \in Review!Verdicts
    BY <1>3, <2>1 DEF Review!Wake, ReviewSound, ResolversAreSound
  <2>3. resume' = [resume EXCEPT ![h] = s]
    BY <1>3 DEF ResumeAt
  <2> QED BY <1>2, <1>3, <2>1, <2>2, <2>3
<1>4. CASE /\ Review!Wake(h) \/ Review!Abort(h)
           /\ UNCHANGED gate /\ resume' = [resume EXCEPT ![h] = NotResuming]
  <2>1. NotResuming.step = "idle"
    BY DEF NotResuming
  <2> QED BY <1>0, <1>2, <1>4, <2>1
<1>5. CASE Review!Commit(h) /\ UNCHANGED <<gate, resume>>
  BY <1>5, CommitVerdictSound
<1>6. CASE Review!CutShort(h) /\ UNCHANGED gate /\ resume' = [resume EXCEPT ![h] = NotResuming]
  <2> DEFINE r == [resolving[h] EXCEPT !.step = "cut"]
  <2>1. /\ r \in Review!Resolve /\ r.step = "cut" /\ r.item = resolving[h].item
        /\ r.verdict = resolving[h].verdict
    BY <1>0 DEF Review!Resolve
  <2>2. resolving' = [resolving EXCEPT ![h] = r] /\ UNCHANGED items
    BY <1>6 DEF Review!CutShort
  <2>3. /\ r.item \in Gates /\ r.verdict \in Review!Verdicts /\ items[r.item].status # "absent"
    BY <1>6, <2>1 DEF Review!CutShort, ReviewSound, ResolversAreSound
  <2>4. NotResuming.step = "idle"
    BY DEF NotResuming
  <2> QED BY <1>0, <1>6, <2>1, <2>2, <2>3, <2>4, ResolverStep
<1> QED BY <1>1, <1>3, <1>4, <1>5, <1>6 DEF Resolve

\* The second half of resume_workflow: the verdict stands, the item is not touched.
LEMMA RejectStepSound ==
  ASSUME ReviewSound, NEW h \in Humans, UNCHANGED <<reviewvars, gate>>,
         resume[h].step \in {"reject", "rejecting"},
         \/ ResumeAt(h, "rejecting")
         \/ resume' = [resume EXCEPT ![h] = NotResuming]
         \/ UNCHANGED resume
  PROVE  ReviewSound' /\ \A t \in Tasks : HasItem(t) => HasItem(t)'
<1> USE DEF ReviewSound, reviewvars
<1>1. /\ resume' \in [Humans -> Resume]
      /\ \A k \in Humans \ {h} : resume'[k] = resume[k]
      /\ \/ resume'[h].step \in {"reject", "rejecting"} /\ resume'[h].item = resume[h].item
         \/ resume'[h] = NotResuming
  BY DEF ResumeAt, Resume, NotResuming
<1>2. ResumesAreSound'
  BY <1>1 DEF ResumesAreSound, NotResuming
<1>3. Review!TypeOK' /\ GatesAreSound' /\ ResolversAreSound'
  BY DEF Review!TypeOK, GatesAreSound, ResolversAreSound
<1> QED BY <1>1, <1>2, <1>3 DEF HasItem

\* Every step keeps the review half, and takes no item from a task.
LEMMA ReviewPreserved ==
  ASSUME ReviewSound, [Next]_vars
  PROVE  ReviewSound' /\ \A t \in Tasks : HasItem(t) => HasItem(t)'
<1>1. ASSUME NEW g \in Gates, NEW u \in Tasks, Enter(g, u)
      PROVE  ReviewSound' /\ \A t \in Tasks : HasItem(t) => HasItem(t)'
  BY <1>1, EnterSound
<1>2. ASSUME UNCHANGED <<reviewvars, gate, resume>>
      PROVE  ReviewSound' /\ \A t \in Tasks : HasItem(t) => HasItem(t)'
  BY <1>2 DEF reviewvars, ReviewSound, Review!TypeOK, GatesAreSound, ResolversAreSound,
              ResumesAreSound, HasItem
<1>3. ASSUME NEW g \in Gates,
             Park(g) \/ Parking(g) \/ Finalize(g) \/ Finishing(g) \/ GateFails(g)
      PROVE  ReviewSound' /\ \A t \in Tasks : HasItem(t) => HasItem(t)'
  <2>1. gate[g].step # "idle" /\ UNCHANGED <<reviewvars, resume>>
    BY <1>3 DEF Park, Parking, Finalize, Finishing, GateFails
  <2>2. UNCHANGED gate \/ \E step \in {"parking", "finalize", "finishing", "done"} : Goto(g, step)
    BY <1>3 DEF Park, Parking, Finalize, Finishing, GateFails
  <2> QED BY <1>2, <2>1, <2>2, GateMovesOn
<1>4. ASSUME NEW g \in Gates, Post(g)
      PROVE  ReviewSound' /\ \A t \in Tasks : HasItem(t) => HasItem(t)'
  BY <1>4, PostSound
<1>5. ASSUME NEW h \in Humans, NEW g \in Gates, BeginResume(h, g)
      PROVE  ReviewSound' /\ \A t \in Tasks : HasItem(t) => HasItem(t)'
  BY <1>5, BeginResumeSound
<1>6. ASSUME NEW h \in Humans, Resolve(h)
      PROVE  ReviewSound' /\ \A t \in Tasks : HasItem(t) => HasItem(t)'
  BY <1>6, ResolveSound
<1>7. ASSUME NEW h \in Humans, Reject(h) \/ Rejecting(h) \/ ResumeFails(h)
      PROVE  ReviewSound' /\ \A t \in Tasks : HasItem(t) => HasItem(t)'
  BY <1>7, RejectStepSound DEF Reject, Rejecting, ResumeFails
<1>8. Elsewhere \/ UNCHANGED vars => UNCHANGED <<reviewvars, gate, resume>>
  BY DEF Elsewhere, vars, reviewvars
<1> QED BY <1>1, <1>2, <1>3, <1>4, <1>5, <1>6, <1>7, <1>8 DEF Next

-----------------------------------------------------------------------------
(* The queue half.  Whoever takes it, a step on the tables is one of five. *)

\* complete(), fail(), the gate and resume_workflow load a row to write something sound.
Decides(c, t) ==
    \E want \in Queue!Row : Queue!Load(c, t, want) /\ MayWant(c, t, rows[t], want)

RowStep == (\E t \in Tasks : Queue!Enqueue(t) \/ Queue!LeaseExpires(t)) \/ Queue!Recover

RequestStep(c) == Queue!ClaimStep(c) \/ Queue!Flush(c) \/ Queue!Crash(c)
                    \/ \E t \in Tasks : Decides(c, t)

QueueStep ==
    \/ UNCHANGED queuevars
    \/ RowStep
    \/ \E c \in Callers : RequestStep(c) \/ Queue!Commit(c)

LEMMA ProducedRows ==
  ASSUME NEW row \in Queue!Row, NEW c \in Callers
  PROVE  /\ Queue!Claimed(row, c) \in Queue!Row /\ Queue!Completed(row, c) \in Queue!Row
         /\ Queue!Requeued(row) \in Queue!Row /\ Queue!Failed(row) \in Queue!Row
         /\ Queue!Recovered(row) \in Queue!Row
         /\ Parked(row) \in Queue!Row /\ Rejected(row) \in Queue!Row
<1> USE DEF Queue!Row, Queue!States, Queue!Leases
<1>1. Queue!Requeued(row) \in Queue!Row
  <2>1. row.retries + 1 \in Nat
    OBVIOUS
  <2> QED BY <2>1 DEF Queue!Requeued
<1>2. Queue!Claimed(row, c) \in Queue!Row /\ Queue!Completed(row, c) \in Queue!Row
  BY DEF Queue!Claimed, Queue!Completed
<1>3. Queue!Failed(row) \in Queue!Row /\ Queue!Recovered(row) \in Queue!Row
  BY DEF Queue!Failed, Queue!Recovered
<1>4. Parked(row) \in Queue!Row /\ Rejected(row) \in Queue!Row
  BY DEF Parked, Rejected
<1> QED BY <1>1, <1>2, <1>3, <1>4

LEMMA CompleteDecides ==
  ASSUME QueueSound, NEW c \in Callers, NEW t \in Tasks, Queue!BeginComplete(c, t)
  PROVE  Decides(c, t)
<1>1. rows[t] \in Queue!Row
  BY DEF QueueSound, Queue!TypeOK
<1> DEFINE want == Queue!Completed(rows[t], c)
<1>2. want \in Queue!Row /\ want.state = "completed" /\ want.agent = rows[t].agent
  BY <1>1, ProducedRows DEF Queue!Completed, Queue!Row
<1>3. Queue!Load(c, t, want) /\ rows[t].state # "awaiting_review"
  BY DEF Queue!BeginComplete
<1> QED BY <1>2, <1>3 DEF Decides, MayWant

\* fail() may take a parked task; of the callers, only gates never call it.
LEMMA FailDecides ==
  ASSUME QueueSound, NEW c \in Agents, NEW t \in Tasks, NEW retry \in BOOLEAN,
         Queue!BeginFail(c, t, retry)
  PROVE  Decides(c, t)
<1>0. rows[t] \in Queue!Row /\ c \in Callers /\ c \notin Gates
  BY GatesAreTheirOwn DEF QueueSound, Queue!TypeOK, Callers
<1> DEFINE requeued == Queue!Requeued(rows[t])
           failed == Queue!Failed(rows[t])
<1>1. /\ requeued \in Queue!Row /\ requeued.state = "pending" /\ requeued.agent = Nobody
      /\ failed \in Queue!Row /\ failed.state = "failed" /\ failed.agent = rows[t].agent
  BY <1>0, ProducedRows DEF Queue!Requeued, Queue!Failed, Queue!Row
<1>2. Queue!Load(c, t, requeued) \/ Queue!Load(c, t, failed)
  BY DEF Queue!BeginFail
<1> QED BY <1>0, <1>1, <1>2 DEF Decides, MayWant

LEMMA ParkDecides ==
  ASSUME RInv, NEW g \in Gates, gate[g].step = "park",
         rows[gate[g].task].state # "awaiting_review",
         Queue!Load(g, gate[g].task, Parked(rows[gate[g].task]))
  PROVE  gate[g].task \in Tasks /\ Decides(g, gate[g].task)
<1> DEFINE t == gate[g].task
           want == Parked(rows[t])
<1>0. t \in Tasks /\ HasItem(t)
  BY DEF RInv, ReviewSound, GatesAreSound, HasItem
<1>1. rows[t] \in Queue!Row
  BY <1>0 DEF RInv, QueueSound, Queue!TypeOK
<1>2. want \in Queue!Row /\ want.state = "awaiting_review" /\ want.agent = rows[t].agent
  BY <1>1, ProducedRows DEF Parked, Queue!Row, Callers
<1> QED BY <1>0, <1>2 DEF Decides, MayWant

LEMMA RejectDecides ==
  ASSUME RInv, NEW h \in Humans, Reject(h)
  PROVE  \E t \in Tasks : Decides(h, t)
<1> DEFINE g == resume[h].item
           t == gate[g].task
           want == Rejected(rows[t])
<1>0. g \in Gates /\ items[g].status \in Review!Verdicts
  BY DEF Reject, RInv, ReviewSound, ResumesAreSound
<1>1. t \in Tasks
  BY <1>0 DEF RInv, ReviewSound, GatesAreSound, Review!Verdicts
<1>2. rows[t] \in Queue!Row /\ h \notin Gates
  BY <1>1, GatesAreTheirOwn DEF RInv, QueueSound, Queue!TypeOK
<1>3. want \in Queue!Row /\ want.state = "failed" /\ want.agent = rows[t].agent
  BY <1>2, ProducedRows DEF Rejected, Queue!Row, Callers
<1>4. Queue!Load(h, t, want)
  BY DEF Reject
<1> QED BY <1>1, <1>2, <1>3, <1>4 DEF Decides, MayWant

LEMMA StepsOnTheQueue ==
  ASSUME RInv, [Next]_vars
  PROVE  QueueStep
<1> USE DEF QueueStep, RequestStep
<1>0. \A c \in Agents \cup Gates \cup Humans : c \in Callers
  BY DEF Callers
<1>1. ASSUME NEW g \in Gates, NEW t \in Tasks, Enter(g, t) PROVE QueueStep
  BY <1>1 DEF Enter
<1>2. ASSUME NEW g \in Gates, Post(g) PROVE QueueStep
  BY <1>2 DEF Post
<1>3. ASSUME NEW g \in Gates, Park(g) PROVE QueueStep
  BY <1>0, <1>3, ParkDecides DEF Park
<1>4. ASSUME NEW g \in Gates, Parking(g) \/ Finishing(g) PROVE QueueStep
  BY <1>0, <1>4 DEF Parking, Finishing
<1>5. ASSUME NEW g \in Gates, Finalize(g) PROVE QueueStep
  <2>1. gate[g].task \in Tasks
    BY <1>5 DEF Finalize, RInv, ReviewSound, GatesAreSound
  <2> QED BY <1>0, <1>5, <2>1, CompleteDecides DEF Finalize, RInv
<1>6. ASSUME NEW c \in Callers, Rollback(c) PROVE QueueStep
  BY <1>6 DEF Rollback
<1>7. ASSUME NEW h \in Humans, NEW g \in Gates, BeginResume(h, g) PROVE QueueStep
  BY <1>7 DEF BeginResume
<1>8. ASSUME NEW h \in Humans, Resolve(h) PROVE QueueStep
  BY <1>8 DEF Resolve
<1>9. ASSUME NEW h \in Humans, Reject(h) PROVE QueueStep
  BY <1>0, <1>9, RejectDecides
<1>10. ASSUME NEW h \in Humans, Rejecting(h) PROVE QueueStep
  BY <1>0, <1>10 DEF Rejecting
<1>11. ASSUME Elsewhere PROVE QueueStep
  <2>1. ASSUME NEW a \in Agents, NEW t \in Tasks, Queue!Begin(a, t) PROVE QueueStep
    BY <1>0, <2>1, CompleteDecides, FailDecides DEF Queue!Begin, RInv
  <2>2. ASSUME NEW a \in Agents,
               Queue!ClaimStep(a) \/ Queue!Flush(a) \/ Queue!Commit(a) \/ Queue!Crash(a)
        PROVE  QueueStep
    BY <1>0, <2>2
  <2> QED BY <1>11, <2>1, <2>2 DEF Elsewhere, RowStep
<1>12. ASSUME UNCHANGED vars PROVE QueueStep
  BY <1>12 DEF vars, queuevars
<1> QED
  BY <1>0, <1>1, <1>2, <1>3, <1>4, <1>5, <1>6, <1>7, <1>8, <1>9, <1>10, <1>11, <1>12
     DEF Next, GateFails, ResumeFails

-----------------------------------------------------------------------------
(* What a commit does to its row.                                          *)

\* A claim commits over the very row it selected; a decision writes the columns it
\* changed over whatever the row has become.
LEMMA CommitMeans ==
  ASSUME QueueSound, NEW c \in Callers, Queue!Commit(c)
  PROVE  LET t == tx[c].task
             new == Queue!Overwrite(rows[t], tx[c].seen, tx[c].want)
         IN  /\ t \in Tasks /\ new \in Queue!Row /\ Queue!Locks(c, t)
             /\ rows' = [rows EXCEPT ![t] = new] /\ tx' = [tx EXCEPT ![c] = Queue!Idle]
             /\ \/ Queue!Reclaimable(rows[t]) /\ new = Queue!Claimed(rows[t], c)
                \/ /\ tx[c].step = "commit" /\ MayWant(c, t, tx[c].seen, tx[c].want)
                   /\ new.state = IF tx[c].want.state = tx[c].seen.state
                                  THEN rows[t].state ELSE tx[c].want.state
                   /\ new.agent \in {rows[t].agent, Nobody}
<1> DEFINE t == tx[c].task
           seen == tx[c].seen
           want == tx[c].want
           new == Queue!Overwrite(rows[t], seen, want)
<1>1. t \in Tasks
  BY DEF Queue!Commit, QueueSound, RequestsAreSound, Queue!ClaimKeepsItsRow, WritesAreSound
<1>2. rows[t] \in Queue!Row /\ seen \in Queue!Row /\ want \in Queue!Row
  BY <1>1 DEF QueueSound, Queue!TypeOK, Queue!Request
<1>3. new \in Queue!Row
  BY <1>2 DEF Queue!Overwrite, Queue!Column, Queue!Row
<1>4. Queue!Locks(c, t) /\ rows' = [rows EXCEPT ![t] = new] /\ tx' = [tx EXCEPT ![c] = Queue!Idle]
  BY DEF Queue!Commit, Queue!Locks
<1>5. CASE tx[c].step = "claim_commit"
  <2>1. seen = rows[t] /\ Queue!Reclaimable(seen) /\ want = Queue!Claimed(seen, c)
    BY <1>5 DEF QueueSound, RequestsAreSound, Queue!ClaimKeepsItsRow
  <2>2. want.budget = seen.budget
    BY <1>2, <2>1 DEF Queue!Claimed, Queue!Row
  <2>3. new = [state |-> want.state, agent |-> want.agent, lease |-> want.lease,
               retries |-> want.retries, budget |-> want.budget, output |-> want.output]
    BY <2>1, <2>2 DEF Queue!Overwrite, Queue!Column
  <2>4. want = [state |-> want.state, agent |-> want.agent, lease |-> want.lease,
                retries |-> want.retries, budget |-> want.budget, output |-> want.output]
    BY <1>2 DEF Queue!Row
  <2>5. new = Queue!Claimed(rows[t], c)
    BY <2>1, <2>3, <2>4
  <2> QED BY <1>1, <1>3, <1>4, <2>1, <2>5
<1>6. CASE tx[c].step = "commit"
  <2>1. MayWant(c, t, seen, want)
    BY <1>6 DEF QueueSound, RequestsAreSound, WritesAreSound
  <2>2. /\ new.state = IF want.state = seen.state THEN rows[t].state ELSE want.state
        /\ new.agent = IF want.agent = seen.agent THEN rows[t].agent ELSE want.agent
    BY DEF Queue!Overwrite, Queue!Column
  <2>3. new.agent \in {rows[t].agent, Nobody}
    BY <2>1, <2>2 DEF MayWant
  <2> QED BY <1>1, <1>3, <1>4, <1>6, <2>1, <2>2, <2>3
<1> QED BY <1>5, <1>6 DEF Queue!Commit

-----------------------------------------------------------------------------
(* The three kinds of steps keep the queue half, if no task loses its item.  *)

LEMMA RowStepSound ==
  ASSUME QueueSound, RowStep, \A t \in Tasks : HasItem(t) => HasItem(t)'
  PROVE  QueueSound'
<1> USE DEF QueueSound
<1>0. /\ \A t \in Tasks : rows[t] \in Queue!Row
      /\ UNCHANGED tx
  BY DEF RowStep, Queue!TypeOK, Queue!Enqueue, Queue!LeaseExpires, Queue!Recover
<1>1. /\ rows' \in [Tasks -> Queue!Row]
      /\ \A t \in Tasks : /\ Queue!Reclaimable(rows[t]) => rows'[t] = rows[t]
                          /\ rows'[t].state \in {rows[t].state, "pending"}
  <2>1. ASSUME NEW t \in Tasks, Queue!Enqueue(t) PROVE <1>1!1 /\ <1>1!2
    <3>1. PICK b \in Budgets : rows' = [rows EXCEPT ![t] = Queue!NewRow(b)]
      BY <2>1 DEF Queue!Enqueue
    <3>2. Queue!NewRow(b) \in Queue!Row /\ Queue!NewRow(b).state = "pending"
      BY BudgetsAreCounts DEF Queue!NewRow, Queue!Absent, Queue!Row, Queue!States, Queue!Leases
    <3> QED BY <2>1, <3>1, <3>2 DEF Queue!Enqueue, Queue!Reclaimable, Queue!TypeOK
  <2>2. ASSUME NEW t \in Tasks, Queue!LeaseExpires(t) PROVE <1>1!1 /\ <1>1!2
    <3>1. /\ rows'[t] \in Queue!Row /\ rows'[t].state = rows[t].state
          /\ rows' = [rows EXCEPT ![t] = rows'[t]] /\ ~Queue!Reclaimable(rows[t])
      BY <2>2 DEF Queue!LeaseExpires, Queue!TypeOK, Queue!Row, Queue!Leases, Queue!Reclaimable
    <3> QED BY <3>1 DEF Queue!TypeOK
  <2>3. ASSUME Queue!Recover PROVE <1>1!1 /\ <1>1!2
    <3>1. \A t \in Tasks : /\ Queue!Recovered(rows[t]) \in Queue!Row
                           /\ Queue!Recovered(rows[t]).state = "pending"
      BY <1>0 DEF Queue!Recovered, Queue!Row, Queue!States
    <3>2. rows' = [t \in Tasks |-> IF Queue!Stale(rows[t]) THEN Queue!Recovered(rows[t])
                                   ELSE rows[t]]
      BY <2>3 DEF Queue!Recover
    <3> QED BY <1>0, <3>1, <3>2 DEF Queue!Stale, Queue!Reclaimable
  <2> QED BY <2>1, <2>2, <2>3 DEF RowStep
<1>2. Queue!TypeOK'
  BY <1>0, <1>1 DEF Queue!TypeOK
<1>3. RequestsAreSound'
  <2>1. Queue!OneWriterPerRow'
    BY <1>0 DEF RequestsAreSound, Queue!OneWriterPerRow, Queue!Locks
  <2>2. ASSUME NEW c \in Callers PROVE Queue!ClaimKeepsItsRow(c)' /\ WritesAreSound(c)'
    <3>1. Queue!ClaimKeepsItsRow(c)'
      BY <1>0, <1>1 DEF RequestsAreSound, Queue!ClaimKeepsItsRow
    <3>2. WritesAreSound(c)'
      BY <1>0 DEF RequestsAreSound, WritesAreSound, MayWant
    <3> QED BY <3>1, <3>2
  <2> QED BY <2>1, <2>2 DEF RequestsAreSound
<1>4. ParkedWasPosted'
  BY <1>1 DEF ParkedWasPosted, HasItem
<1> QED BY <1>2, <1>3, <1>4

LEMMA RequestStepSound ==
  ASSUME QueueSound, NEW c \in Callers, RequestStep(c),
         \A t \in Tasks : HasItem(t) => HasItem(t)'
  PROVE  QueueSound'
<1> USE DEF QueueSound
<1>0. /\ UNCHANGED rows /\ tx' = [tx EXCEPT ![c] = tx'[c]] /\ tx'[c] \in Queue!Request
      /\ Queue!ClaimKeepsItsRow(c)' /\ WritesAreSound(c)'
      /\ \A t \in Tasks : Queue!Locks(c, t)' => ~Queue!Locked(t)
  <2> USE DEF Queue!Locks, Queue!ClaimKeepsItsRow, WritesAreSound
  <2>1. CASE Queue!RequestClaim(c) \/ Queue!AcquireClaimLock(c)
    BY <2>1 DEF Queue!RequestClaim, Queue!AcquireClaimLock, Queue!TypeOK, Queue!Request,
                Queue!Steps
  <2>2. CASE Queue!ClaimNothing(c) \/ Queue!Crash(c)
    <3>1. Queue!Idle \in Queue!Request
      BY DEF Queue!Idle, Queue!Request, Queue!Steps, Queue!Absent, Queue!Row, Queue!States,
             Queue!Leases
    <3> QED BY <2>2, <3>1 DEF Queue!ClaimNothing, Queue!Crash, Queue!TypeOK, Queue!Idle
  <2>3. CASE Queue!SelectCandidate(c)
    <3>1. PICK t \in Tasks :
            /\ Queue!Reclaimable(rows[t]) /\ ~Queue!Locked(t)
            /\ tx' = [tx EXCEPT ![c] = [step |-> "claim_commit", task |-> t, seen |-> rows[t],
                                        want |-> Queue!Claimed(rows[t], c)]]
      BY <2>3 DEF Queue!SelectCandidate
    <3>2. rows[t] \in Queue!Row /\ Queue!Claimed(rows[t], c) \in Queue!Row /\ UNCHANGED rows
      BY <2>3, ProducedRows DEF Queue!TypeOK, Queue!SelectCandidate
    <3> QED BY <3>1, <3>2 DEF Queue!TypeOK, Queue!Request, Queue!Steps
  <2>4. CASE Queue!Flush(c)
    <3>1. /\ UNCHANGED rows /\ ~Queue!Locked(tx[c].task) /\ tx[c].step = "flush"
          /\ tx'[c] \in Queue!Request /\ tx'[c].step = "commit" /\ tx'[c].task = tx[c].task
          /\ tx'[c].seen = tx[c].seen /\ tx'[c].want = tx[c].want
          /\ tx' = [tx EXCEPT ![c] = tx'[c]]
      BY <2>4 DEF Queue!Flush, Queue!TypeOK, Queue!Request, Queue!Steps
    <3>2. tx[c].task \in Tasks /\ MayWant(c, tx[c].task, tx[c].seen, tx[c].want)
      BY <3>1 DEF RequestsAreSound
    <3>3. MayWant(c, tx[c].task, tx[c].seen, tx[c].want)'
      BY <3>1, <3>2 DEF MayWant
    <3> QED BY <3>1, <3>2, <3>3
  <2>5. ASSUME NEW t \in Tasks, Decides(c, t) PROVE <1>0
    <3>1. PICK want \in Queue!Row : Queue!Load(c, t, want) /\ MayWant(c, t, rows[t], want)
      BY <2>5 DEF Decides
    <3>2. rows[t] \in Queue!Row /\ UNCHANGED rows
      BY <3>1 DEF Queue!TypeOK, Queue!Load
    <3>3. /\ tx'[c] = [step |-> "flush", task |-> t, seen |-> rows[t], want |-> want]
          /\ tx' = [tx EXCEPT ![c] = tx'[c]]
      BY <3>1 DEF Queue!Load, Queue!TypeOK
    <3>4. MayWant(c, t, rows[t], want)'
      BY <3>1, <3>2 DEF MayWant
    <3> QED BY <3>2, <3>3, <3>4 DEF Queue!Request, Queue!Steps
  <2> QED BY <2>1, <2>2, <2>3, <2>4, <2>5 DEF RequestStep, Queue!ClaimStep
<1>1. Queue!TypeOK' /\ ParkedWasPosted'
  BY <1>0 DEF Queue!TypeOK, ParkedWasPosted, HasItem
<1>2. \A d \in Callers \ {c} : tx'[d] = tx[d]
  BY <1>0 DEF Queue!TypeOK
<1>3. Queue!OneWriterPerRow'
  BY <1>0, <1>2 DEF RequestsAreSound, Queue!OneWriterPerRow, Queue!Locks, Queue!Locked
<1>4. ASSUME NEW d \in Callers \ {c} PROVE Queue!ClaimKeepsItsRow(d)' /\ WritesAreSound(d)'
  BY <1>0, <1>2 DEF RequestsAreSound, Queue!ClaimKeepsItsRow, WritesAreSound, MayWant
<1> QED BY <1>0, <1>1, <1>3, <1>4 DEF RequestsAreSound

LEMMA CommitSound ==
  ASSUME QueueSound, NEW c \in Callers, Queue!Commit(c),
         \A t \in Tasks : HasItem(t) => HasItem(t)'
  PROVE  QueueSound'
<1> USE DEF QueueSound
<1> DEFINE t == tx[c].task
           new == Queue!Overwrite(rows[t], tx[c].seen, tx[c].want)
<1>1. /\ t \in Tasks /\ new \in Queue!Row /\ Queue!Locks(c, t)
      /\ rows' = [rows EXCEPT ![t] = new] /\ tx' = [tx EXCEPT ![c] = Queue!Idle]
  BY CommitMeans
<1>2. new.state = "awaiting_review" => rows[t].state = "awaiting_review" \/ HasItem(t)
  <2>1. CASE new = Queue!Claimed(rows[t], c)
    BY <1>1, <2>1 DEF Queue!Claimed, Queue!TypeOK, Queue!Row
  <2> QED BY <2>1, CommitMeans DEF MayWant
<1>3. /\ tx'[c] = Queue!Idle /\ \A u \in Tasks \ {t} : rows'[u] = rows[u]
      /\ \A d \in Callers \ {c} : tx'[d] = tx[d] /\ ~Queue!Locks(d, t)
  BY <1>1 DEF Queue!TypeOK, RequestsAreSound, Queue!OneWriterPerRow
<1>4. Queue!TypeOK'
  <2>1. Queue!Idle \in Queue!Request
    BY DEF Queue!Idle, Queue!Request, Queue!Steps, Queue!Absent, Queue!Row, Queue!States,
           Queue!Leases
  <2> QED BY <1>1, <2>1 DEF Queue!TypeOK
<1>5. ParkedWasPosted'
  <2> SUFFICES ASSUME NEW u \in Tasks, rows'[u].state = "awaiting_review" PROVE HasItem(u)'
    BY DEF ParkedWasPosted, HasItem
  <2>1. rows[u].state = "awaiting_review" \/ HasItem(u)
    <3>1. rows'[t] = new
      BY <1>1 DEF Queue!TypeOK
    <3> QED BY <1>2, <1>3, <3>1
  <2> QED BY <2>1 DEF ParkedWasPosted, HasItem
<1>6. Queue!OneWriterPerRow'
  BY <1>3 DEF RequestsAreSound, Queue!OneWriterPerRow, Queue!Locks, Queue!Idle
<1>7. ASSUME NEW d \in Callers PROVE Queue!ClaimKeepsItsRow(d)' /\ WritesAreSound(d)'
  <2>1. CASE d = c
    BY <1>3, <2>1 DEF Queue!ClaimKeepsItsRow, WritesAreSound, Queue!Idle
  <2>2. CASE d # c
    <3>1. tx'[d] = tx[d] /\ ~Queue!Locks(d, t)
      BY <1>3, <2>2
    <3>2. Queue!ClaimKeepsItsRow(d)'
      BY <1>3, <3>1 DEF RequestsAreSound, Queue!ClaimKeepsItsRow, Queue!Locks
    <3>3. WritesAreSound(d)'
      BY <3>1 DEF RequestsAreSound, WritesAreSound, MayWant
    <3> QED BY <3>2, <3>3
  <2> QED BY <2>1, <2>2
<1> QED BY <1>4, <1>5, <1>6, <1>7 DEF RequestsAreSound

-----------------------------------------------------------------------------

LEMMA InitSound == Init => RInv
<1> SUFFICES ASSUME Init PROVE QueueSound
  BY ReviewInit DEF RInv
<1> USE DEF Init, Queue!Init
<1>1. Queue!TypeOK
  BY DEF Queue!TypeOK, Queue!Idle, Queue!Request, Queue!Steps, Queue!Absent, Queue!Row,
         Queue!States, Queue!Leases
<1>2. RequestsAreSound /\ ParkedWasPosted
  BY DEF RequestsAreSound, Queue!OneWriterPerRow, Queue!Locks, Queue!ClaimKeepsItsRow,
         WritesAreSound, ParkedWasPosted, Queue!Idle, Queue!Absent
<1> QED BY <1>1, <1>2 DEF QueueSound

LEMMA NextSound == RInv /\ [Next]_vars => RInv'
<1> SUFFICES ASSUME RInv, [Next]_vars PROVE RInv'
  OBVIOUS
<1>1. ReviewSound' /\ \A t \in Tasks : HasItem(t) => HasItem(t)'
  BY ReviewPreserved DEF RInv
<1>2. CASE UNCHANGED queuevars
  <2>1. Queue!TypeOK' /\ Queue!OneWriterPerRow' /\ \A c \in Callers : Queue!ClaimKeepsItsRow(c)'
    BY <1>2 DEF queuevars, RInv, QueueSound, RequestsAreSound, Queue!TypeOK,
                Queue!OneWriterPerRow, Queue!Locks, Queue!ClaimKeepsItsRow
  <2>2. ParkedWasPosted' /\ \A c \in Callers : WritesAreSound(c)'
    BY <1>1, <1>2 DEF queuevars, RInv, QueueSound, RequestsAreSound, WritesAreSound, MayWant,
                      ParkedWasPosted, HasItem
  <2> QED BY <1>1, <2>1, <2>2 DEF RInv, QueueSound, RequestsAreSound
<1> QED
  BY <1>1, <1>2, StepsOnTheQueue, RowStepSound, RequestStepSound, CommitSound
     DEF QueueStep, RInv

\* Items, gates, resolvers, rows and requests stay sound together, for any numbers of them.
THEOREM Invariance == Spec => []RInv
  BY InitSound, NextSound, PTL DEF Spec

\* Type correctness, through both queues and the calls that use them.
THEOREM TypeCorrect == Spec => []TypeOK
<1>1. RInv => TypeOK
  BY DEF RInv, ReviewSound, QueueSound, TypeOK
<1> QED BY <1>1, Invariance, PTL

\* A task in awaiting_review has had an item posted for it, wherever the gate fails
\* between its two transactions and whoever writes the row meanwhile; whether the item
\* is still pending by then is another matter.
THEOREM ParkedTasksWerePosted == Spec => []ParkedWasPosted
<1>1. RInv => ParkedWasPosted
  BY DEF RInv, QueueSound
<1> QED BY <1>1, Invariance, PTL

\* resume_workflow never fails a task on a verdict that was rolled back.
THEOREM RejectionsFollowVerdicts == Spec => []RejectsAfterVerdict
<1>1. RInv => RejectsAfterVerdict
  BY DEF RInv, ReviewSound, ResumesAreSound, RejectsAfterVerdict
<1> QED BY <1>1, Invariance, PTL

-----------------------------------------------------------------------------
(* What a step may do to a parked row, and to the holder of a task.        *)

\* Claims, recoveries, expiring leases and the reports of agents pass a parked row by:
\* only a fail() or a rejection takes it out, or a request that had read it earlier.
THEOREM ParkedLeftAlone == Spec => ParkedIsLeftAlone
<1> DEFINE Released(t) ==
             \E c \in Callers :
               /\ tx[c].step = "commit" /\ tx[c].task = t
               /\ \/ tx[c].seen.state # "awaiting_review"
                  \/ tx[c].want.state \in {"failed", "pending"} /\ c \notin Gates
<1>1. RInv /\ [Next]_vars =>
        [\A t \in Tasks : rows[t].state = "awaiting_review"
                          /\ rows'[t].state # "awaiting_review" => Released(t)]_vars
  <2> SUFFICES ASSUME RInv, [Next]_vars, NEW t \in Tasks,
                      rows[t].state = "awaiting_review", rows'[t].state # "awaiting_review"
               PROVE  Released(t)
    OBVIOUS
  <2>0. QueueSound /\ rows \in [Tasks -> Queue!Row] /\ rows[t] \in Queue!Row
    BY DEF RInv, QueueSound, Queue!TypeOK
  <2>1. ASSUME NEW u \in Tasks PROVE ~Queue!Enqueue(u) /\ ~Queue!LeaseExpires(u)
    BY <2>0 DEF Queue!Enqueue, Queue!LeaseExpires, Queue!Row
  <2>2. ~Queue!Recover
    BY <2>0 DEF Queue!Recover, Queue!Stale
  <2>3. ASSUME NEW c \in Callers PROVE ~RequestStep(c)
    BY DEF RequestStep, Decides, Queue!ClaimStep, Queue!RequestClaim, Queue!AcquireClaimLock,
           Queue!SelectCandidate, Queue!ClaimNothing, Queue!Flush, Queue!Crash, Queue!Load
  <2>4. PICK c \in Callers : Queue!Commit(c)
    BY <2>1, <2>2, <2>3, StepsOnTheQueue DEF QueueStep, RowStep, queuevars
  <2>5. tx[c].task = t
    BY <2>0, <2>4 DEF Queue!Commit
  <2>6. tx[c].step = "commit" /\ MayWant(c, t, tx[c].seen, tx[c].want)
    BY <2>0, <2>4, <2>5, CommitMeans DEF Queue!Reclaimable
  <2> QED BY <2>5, <2>6 DEF MayWant
<1> QED BY <1>1, Invariance, PTL DEF Spec, ParkedIsLeftAlone

\* A row becomes running only by a claim; otherwise it may lose its agent, to nobody.
LEMMA GrantsAreClaims ==
  ASSUME RInv, [Next]_vars
  PROVE  \/ \A t \in Tasks : rows'[t].state = "running" =>
               rows[t].state = "running" /\ rows'[t].agent \in {rows[t].agent, Nobody}
         \/ \E t \in Tasks, c \in Callers :
               /\ Queue!Reclaimable(rows[t])
               /\ rows' = [rows EXCEPT ![t] = Queue!Claimed(rows[t], c)]
<1> DEFINE Keeps(t) == rows'[t].state = "running" =>
             rows[t].state = "running" /\ rows'[t].agent \in {rows[t].agent, Nobody}
<1>0. /\ QueueSound /\ rows \in [Tasks -> Queue!Row]
      /\ \A t \in Tasks : rows[t] \in Queue!Row
  BY DEF RInv, QueueSound, Queue!TypeOK
<1>1. ASSUME RowStep PROVE \A t \in Tasks : Keeps(t)
  <2>1. ASSUME NEW u \in Tasks, Queue!Enqueue(u) PROVE \A t \in Tasks : Keeps(t)
    BY <1>0, <2>1 DEF Queue!Enqueue, Queue!NewRow, Queue!Absent
  <2>2. ASSUME NEW u \in Tasks, Queue!LeaseExpires(u) PROVE \A t \in Tasks : Keeps(t)
    BY <1>0, <2>2 DEF Queue!LeaseExpires, Queue!Row
  <2>3. ASSUME Queue!Recover PROVE \A t \in Tasks : Keeps(t)
    BY <1>0, <2>3 DEF Queue!Recover, Queue!Recovered, Queue!Row
  <2> QED BY <1>1, <2>1, <2>2, <2>3 DEF RowStep
<1>2. ASSUME UNCHANGED rows PROVE \A t \in Tasks : Keeps(t)
  BY <1>2
<1>3. ASSUME NEW c \in Callers, RequestStep(c) PROVE UNCHANGED rows
  BY <1>3 DEF RequestStep, Decides, Queue!ClaimStep, Queue!RequestClaim, Queue!AcquireClaimLock,
         Queue!SelectCandidate, Queue!ClaimNothing, Queue!Flush, Queue!Crash, Queue!Load
<1>4. ASSUME NEW c \in Callers, Queue!Commit(c)
      PROVE  \/ \A t \in Tasks : Keeps(t)
             \/ \E t \in Tasks : /\ Queue!Reclaimable(rows[t])
                                 /\ rows' = [rows EXCEPT ![t] = Queue!Claimed(rows[t], c)]
  <2> DEFINE t == tx[c].task
             new == Queue!Overwrite(rows[t], tx[c].seen, tx[c].want)
  <2>1. t \in Tasks /\ rows' = [rows EXCEPT ![t] = new]
    BY <1>0, <1>4, CommitMeans
  <2>2. CASE Queue!Reclaimable(rows[t]) /\ new = Queue!Claimed(rows[t], c)
    BY <2>1, <2>2
  <2>3. CASE /\ MayWant(c, t, tx[c].seen, tx[c].want)
             /\ new.state = IF tx[c].want.state = tx[c].seen.state
                            THEN rows[t].state ELSE tx[c].want.state
             /\ new.agent \in {rows[t].agent, Nobody}
    <3>1. new.state = "running" => rows[t].state = "running"
      BY <2>3 DEF MayWant
    <3> QED BY <1>0, <2>1, <2>3, <3>1
  <2> QED BY <1>0, <1>4, <2>2, <2>3, CommitMeans
<1> QED BY <1>1, <1>2, <1>3, <1>4, StepsOnTheQueue DEF QueueStep, queuevars

\* With the unguarded writes of the gate around, the queue still implements Assignment.
THEOREM Refinement == Spec => ImplementsAssignment
<1>1. Init => Queue!Holding!Init
  BY DEF Init, Queue!Init, Queue!Holding!Init, Queue!holder, Queue!Absent
<1>2. RInv /\ [Next]_vars => [Queue!Holding!Next]_Queue!holder
  <2> SUFFICES ASSUME RInv, [Next]_vars PROVE Queue!Holding!Next \/ UNCHANGED Queue!holder
    OBVIOUS
  <2>0. rows \in [Tasks -> Queue!Row]
    BY DEF RInv, QueueSound, Queue!TypeOK
  <2>1. CASE \A t \in Tasks : rows'[t].state = "running" =>
               rows[t].state = "running" /\ rows'[t].agent \in {rows[t].agent, Nobody}
    <3> DEFINE T == {t \in Tasks : Queue!holder[t] # Nobody /\ Queue!holder'[t] = Nobody}
    <3>1. \A t \in Tasks : Queue!holder'[t] \in {Queue!holder[t], Nobody}
      BY <2>1 DEF Queue!holder
    <3>2. Queue!holder' = [t \in Tasks |-> IF t \in T THEN Nobody ELSE Queue!holder[t]]
      BY <3>1 DEF Queue!holder
    <3>3. Queue!Holding!TakeBack(T)
      BY <3>2 DEF Queue!Holding!TakeBack
    <3> QED BY <3>3 DEF Queue!Holding!Next
  <2>2. ASSUME NEW t \in Tasks, NEW c \in Callers, Queue!Reclaimable(rows[t]),
               rows' = [rows EXCEPT ![t] = Queue!Claimed(rows[t], c)]
        PROVE  Queue!Holding!Next
    <3>1. rows[t] \in Queue!Row /\ rows'[t] = Queue!Claimed(rows[t], c)
      BY <2>0, <2>2
    <3>2. rows'[t].state = "running" /\ rows'[t].agent = c
      BY <3>1 DEF Queue!Claimed, Queue!Row
    <3>3. Queue!holder' = [Queue!holder EXCEPT ![t] = c]
      BY <2>0, <2>2, <3>2 DEF Queue!holder
    <3>4. Queue!holder[t] = Nobody
      BY <2>2 DEF Queue!holder, Queue!Reclaimable
    <3> QED BY <3>3, <3>4 DEF Queue!Holding!Next, Queue!Holding!Grant
  <2> QED BY <2>1, <2>2, GrantsAreClaims
<1> QED BY <1>1, <1>2, Invariance, PTL
        DEF Spec, ImplementsAssignment, Queue!ImplementsAssignment, Queue!Holding!Spec

=============================================================================
