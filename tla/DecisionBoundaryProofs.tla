------------------------ MODULE DecisionBoundaryProofs -----------------------
(***************************************************************************)
(* Proofs about DecisionBoundary, for any number of runs and principals,   *)
(* any policy, any budgets and any answers of LLM, estimator and tools.    *)
(***************************************************************************)
EXTENDS DecisionBoundary, TLAPS

Gated(r, tool) ==
    /\ tool \notin Sensitive
    /\ AllowedForPrincipal(Principal[r], tool)

\* What a run knows: its tool has passed the checks that come before its step, and
\* while it has its principal to itself the ledger entry is what it has spent.
RunSound(r) ==
    /\ run[r].step = "idle" => run[r].spent = 0
    /\ run[r].step \in {"estimate", "tool"} =>
          run[r].tool \in Tools /\ AllowedForPrincipal(Principal[r], run[r].tool)
    /\ run[r].step = "tool" => run[r].tool \notin Sensitive
    /\ \A tool \in run[r].used : Gated(r, tool)
    /\ r \notin overlapped =>
          /\ run[r].spent <= Budget[Principal[r]]
          /\ Active(r) => ledger[Principal[r]] = run[r].spent

\* Two runs that are active for one principal are both marked.
RivalsAreMarked ==
    \A q, r \in Runs : /\ q # r /\ Principal[q] = Principal[r]
                       /\ Active(q) /\ Active(r)
                       => q \in overlapped

\* Inductive: a run that is not marked is the only one to touch its ledger entry.
DInv ==
    /\ TypeOK
    /\ \A r \in Runs : RunSound(r)
    /\ RivalsAreMarked
    /\ LedgerIsTransient

-----------------------------------------------------------------------------

LEMMA InitSound == Init => DInv
<1> SUFFICES ASSUME Init PROVE DInv
  OBVIOUS
<1>1. NotStarted \in Run /\ \A r \in Runs : run[r] = NotStarted
  BY BoundsAreCounts DEF NotStarted, Run, Outcomes, Init
<1>2. TypeOK
  BY <1>1 DEF Init, TypeOK
<1>3. \A r \in Runs : RunSound(r)
  <2> SUFFICES ASSUME NEW r \in Runs PROVE RunSound(r)
    OBVIOUS
  <2>1. Budget[Principal[r]] \in Nat
    BY PrincipalsAreGiven, BudgetsAreCounts
  <2>2. run[r].step = "idle" /\ run[r].spent = 0 /\ run[r].used = {}
    BY <1>1 DEF NotStarted
  <2> QED BY <2>1, <2>2 DEF RunSound, Active
<1>4. RivalsAreMarked /\ LedgerIsTransient
  BY <1>1, PrincipalsAreGiven DEF Init, RivalsAreMarked, LedgerIsTransient, Active, NotStarted
<1> QED BY <1>2, <1>3, <1>4 DEF DInv

\* An active run that steps, and has kept its own part, has kept the whole: the other
\* runs of its principal are marked, and the others look at other entries.
LEMMA StepKeeps ==
  ASSUME DInv, NEW r \in Runs, Active(r), UNCHANGED overlapped,
         NEW x \in Run, run' = [run EXCEPT ![r] = x], x.step # "idle",
         NEW l \in Nat \cup {None}, ledger' = [ledger EXCEPT ![Principal[r]] = l],
         l # None => x.step # "done" \/ x.outcome = "raised",
         RunSound(r)'
  PROVE  DInv'
<1> USE DEF DInv
<1>1. TypeOK'
  BY DEF TypeOK
<1>2. run'[r] = x /\ \A q \in Runs \ {r} : run'[q] = run[q]
  BY DEF TypeOK
<1>3. Principal[r] \in Principals /\ \A q \in Runs : Principal[q] \in Principals
  BY PrincipalsAreGiven
<1>4. /\ ledger'[Principal[r]] = l
      /\ \A p \in Principals \ {Principal[r]} : ledger'[p] = ledger[p]
  BY <1>3 DEF TypeOK
<1>5. ASSUME NEW q \in Runs, q # r PROVE RunSound(q)'
  <2>1. run'[q] = run[q] /\ (Active(q)' <=> Active(q))
    BY <1>2, <1>5 DEF Active
  <2>2. q \notin overlapped /\ Active(q) => Principal[q] # Principal[r]
    BY <1>5 DEF RivalsAreMarked
  <2>3. q \notin overlapped /\ Active(q) => ledger'[Principal[q]] = ledger[Principal[q]]
    BY <1>3, <1>4, <2>2
  <2>4. RunSound(q)
    OBVIOUS
  <2> QED BY <2>1, <2>3, <2>4 DEF RunSound, Gated, AllowedForPrincipal, Listed
<1>6. \A q \in Runs : RunSound(q)'
  BY <1>5
<1>7. RivalsAreMarked'
  BY <1>2 DEF RivalsAreMarked, Active
<1>8. LedgerIsTransient'
  <2> SUFFICES ASSUME NEW p \in Principals, ledger'[p] # None
               PROVE  \E q \in Runs : Principal[q] = p /\ (Active(q)' \/ run'[q].outcome = "raised")
    BY DEF LedgerIsTransient
  <2>1. CASE p = Principal[r]
    BY <1>2, <1>4, <2>1 DEF Active
  <2>2. CASE p # Principal[r]
    <3>1. PICK q \in Runs : Principal[q] = p /\ (Active(q) \/ run[q].outcome = "raised")
      BY <1>4, <2>2 DEF LedgerIsTransient
    <3>2. q # r /\ run'[q] = run[q]
      BY <1>2, <2>2, <3>1
    <3> QED BY <3>1, <3>2 DEF Active
  <2> QED BY <2>1, <2>2
<1> QED BY <1>1, <1>6, <1>7, <1>8

\* Ending a run, by any return of Agent.run.
LEMMA FinishKeeps ==
  ASSUME DInv, NEW r \in Runs, Active(r), NEW outcome \in Outcomes, Finish(r, outcome)
  PROVE  DInv'
<1> DEFINE x == [run[r] EXCEPT !.step = "done", !.outcome = outcome]
<1>1. /\ x \in Run /\ x.step = "done" /\ x.used = run[r].used /\ x.spent = run[r].spent
      /\ run' = [run EXCEPT ![r] = x] /\ run'[r] = x
  BY DEF DInv, TypeOK, Finish, Run
<1>2. RunSound(r)'
  BY <1>1 DEF DInv, RunSound, Finish, Active, Gated, AllowedForPrincipal, Listed
<1> QED BY <1>1, <1>2, StepKeeps DEF Finish

LEMMA BeginKeeps ==
  ASSUME DInv, NEW r \in Runs, Begin(r)
  PROVE  DInv'
<1> USE DEF DInv
<1> DEFINE x == [run[r] EXCEPT !.step = "llm", !.iteration = 1]
           p == Principal[r]
<1>0. 1 \in 0..MaxIterations /\ run[r] \in Run
  BY BoundsAreCounts DEF TypeOK
<1>a. x \in Run /\ x.step = "llm" /\ x.used = run[r].used /\ x.spent = run[r].spent
  BY <1>0 DEF Run
<1>1. /\ x \in Run /\ x.step = "llm" /\ x.used = run[r].used /\ x.spent = run[r].spent
      /\ run'[r] = x /\ \A q \in Runs \ {r} : run'[q] = run[q]
      /\ run' = [run EXCEPT ![r] = x]
  BY <1>a DEF TypeOK, Begin
<1>2. p \in Principals /\ \A q \in Runs : Principal[q] \in Principals
  BY PrincipalsAreGiven
<1>3. ledger'[p] = 0 /\ \A o \in Principals \ {p} : ledger'[o] = ledger[o]
  BY <1>2 DEF TypeOK, Begin
<1>4. overlapped \subseteq overlapped' /\ Rivals(r) \subseteq overlapped' /\ overlapped' \subseteq Runs
      /\ (Rivals(r) # {} => r \in overlapped')
  BY DEF TypeOK, Begin, Rivals
<1>5. TypeOK'
  <2>1. ledger' \in [Principals -> Nat \cup {None}]
    BY <1>2 DEF TypeOK, Begin
  <2>2. run' \in [Runs -> Run]
    BY <1>a, <1>1 DEF TypeOK
  <2> QED BY <1>4, <2>1, <2>2 DEF TypeOK
<1>6. RunSound(r)'
  <2>1. run[r].spent = 0 /\ Budget[p] \in Nat
    BY <1>2, BudgetsAreCounts DEF Begin, RunSound
  <2> QED BY <1>1, <1>3, <2>1 DEF RunSound, Active, Gated, AllowedForPrincipal, Listed
<1>7. ASSUME NEW q \in Runs, q # r PROVE RunSound(q)'
  <2>1. run'[q] = run[q] /\ (Active(q)' <=> Active(q))
    BY <1>1, <1>7 DEF Active
  <2>2. q \notin overlapped' /\ Active(q) => Principal[q] # p
    BY <1>4, <1>7 DEF Rivals
  <2>3. q \notin overlapped' /\ Active(q) => ledger'[Principal[q]] = ledger[Principal[q]]
    BY <1>2, <1>3, <2>2
  <2>4. RunSound(q)
    OBVIOUS
  <2> QED BY <1>4, <2>1, <2>3, <2>4 DEF RunSound, Gated, AllowedForPrincipal, Listed
<1>8. RivalsAreMarked'
  <2> SUFFICES ASSUME NEW q \in Runs, NEW s \in Runs, q # s, Principal[q] = Principal[s],
                      Active(q)', Active(s)'
               PROVE  q \in overlapped'
    BY DEF RivalsAreMarked
  <2>1. CASE q = r
    <3>1. s \in Rivals(r)
      BY <1>1, <2>1 DEF Rivals, Active
    <3> QED BY <1>4, <2>1, <3>1
  <2>2. CASE s = r
    <3>1. q \in Rivals(r)
      BY <1>1, <2>2 DEF Rivals, Active
    <3> QED BY <1>4, <3>1
  <2>3. CASE q # r /\ s # r
    BY <1>1, <1>4, <2>3 DEF RivalsAreMarked, Active
  <2> QED BY <2>1, <2>2, <2>3
<1>9. LedgerIsTransient'
  <2> SUFFICES ASSUME NEW o \in Principals, ledger'[o] # None
               PROVE  \E q \in Runs : Principal[q] = o /\ (Active(q)' \/ run'[q].outcome = "raised")
    BY DEF LedgerIsTransient
  <2>1. CASE o = p
    BY <1>1, <2>1 DEF Active
  <2>2. CASE o # p
    <3>1. PICK q \in Runs : Principal[q] = o /\ (Active(q) \/ run[q].outcome = "raised")
      BY <1>3, <2>2 DEF LedgerIsTransient
    <3>2. q # r /\ run'[q] = run[q]
      BY <1>1, <2>2, <3>1
    <3> QED BY <3>1, <3>2 DEF Active
  <2> QED BY <2>1, <2>2
<1> QED BY <1>5, <1>6, <1>7, <1>8, <1>9

LEMMA AnswerKeeps ==
  ASSUME DInv, NEW r \in Runs, Answer(r)
  PROVE  DInv'
<1>1. Active(r) /\ run[r] \in Run
  BY DEF Answer, Active, DInv, TypeOK
<1>2. CASE Finish(r, "success")
  BY <1>1, <1>2, FinishKeeps DEF Outcomes
<1>3. ASSUME NEW n \in 1..MaxCalls, run' = [run EXCEPT ![r].step = "call", ![r].calls = n],
             UNCHANGED <<ledger, overlapped>>
      PROVE  DInv'
  <2> DEFINE x == [run[r] EXCEPT !.step = "call", !.calls = n]
  <2>1. n \in 0..MaxCalls
    BY BoundsAreCounts
  <2>2. x \in Run /\ x.step = "call" /\ x.used = run[r].used /\ x.spent = run[r].spent
    BY <1>1, <2>1 DEF Run
  <2>3. run' = [run EXCEPT ![r] = x] /\ run'[r] = x
    BY <1>3 DEF DInv, TypeOK
  <2>4. RunSound(r)'
    BY <1>1, <1>3, <2>2, <2>3
       DEF DInv, RunSound, Active, Gated, AllowedForPrincipal, Listed
  <2>5. PICK l \in Nat \cup {None} : ledger' = [ledger EXCEPT ![Principal[r]] = l]
    BY <1>3, PrincipalsAreGiven DEF DInv, TypeOK
  <2> QED BY <1>1, <1>3, <2>2, <2>3, <2>4, <2>5, StepKeeps
<1> QED BY <1>2, <1>3 DEF Answer

LEMMA RaiseKeeps ==
  ASSUME DInv, NEW r \in Runs, Raise(r)
  PROVE  DInv'
<1> DEFINE x == [run[r] EXCEPT !.step = "done", !.outcome = "raised"]
<1>1. Active(r) /\ run[r] \in Run
  BY DEF Raise, DInv, TypeOK
<1>2. /\ x \in Run /\ x.step = "done" /\ x.outcome = "raised"
      /\ x.used = run[r].used /\ x.spent = run[r].spent
  BY <1>1 DEF Run, Outcomes
<1>3. run' = [run EXCEPT ![r] = x] /\ run'[r] = x
  BY DEF Raise, DInv, TypeOK
<1>4. RunSound(r)'
  BY <1>1, <1>2, <1>3 DEF Raise, DInv, RunSound, Active, Gated, AllowedForPrincipal, Listed
<1>5. PICK l \in Nat \cup {None} : ledger' = [ledger EXCEPT ![Principal[r]] = l]
  BY PrincipalsAreGiven DEF Raise, DInv, TypeOK
<1> QED BY <1>1, <1>2, <1>3, <1>4, <1>5, StepKeeps DEF Raise

LEMMA ProposeKeeps ==
  ASSUME DInv, NEW r \in Runs, Propose(r)
  PROVE  DInv'
<1>1. Active(r) /\ run[r] \in Run
  BY DEF Propose, Active, DInv, TypeOK
<1>2. PICK tool \in Tools :
        IF AllowedForPrincipal(Principal[r], tool)
        THEN /\ run' = [run EXCEPT ![r].step = "estimate", ![r].tool = tool]
             /\ UNCHANGED <<ledger, overlapped>>
        ELSE Finish(r, "failed")
  BY DEF Propose
<1>3. CASE ~AllowedForPrincipal(Principal[r], tool)
  BY <1>1, <1>2, <1>3, FinishKeeps DEF Outcomes
<1>4. CASE AllowedForPrincipal(Principal[r], tool)
  <2> DEFINE x == [run[r] EXCEPT !.step = "estimate", !.tool = tool]
  <2>1. /\ x \in Run /\ x.step = "estimate" /\ x.tool = tool
        /\ x.used = run[r].used /\ x.spent = run[r].spent
    BY <1>1 DEF Run
  <2>2. run' = [run EXCEPT ![r] = x] /\ run'[r] = x
    BY <1>2, <1>4 DEF DInv, TypeOK
  <2>a. AllowedForPrincipal(Principal[r], run'[r].tool)
    BY <1>4, <2>1, <2>2
  <2>b. \A used \in run'[r].used : Gated(r, used)
    BY <2>1, <2>2 DEF DInv, RunSound
  <2>c. r \notin overlapped => /\ run'[r].spent <= Budget[Principal[r]]
                               /\ ledger'[Principal[r]] = run'[r].spent
    BY <1>1, <1>2, <1>4, <2>1, <2>2 DEF DInv, RunSound
  <2>3. RunSound(r)'
    BY <1>2, <1>4, <2>1, <2>2, <2>a, <2>b, <2>c
       DEF RunSound, Active, Gated, AllowedForPrincipal, Listed
  <2>4. PICK l \in Nat \cup {None} : ledger' = [ledger EXCEPT ![Principal[r]] = l]
    BY <1>2, <1>4, PrincipalsAreGiven DEF DInv, TypeOK
  <2> QED BY <1>1, <1>2, <1>4, <2>1, <2>2, <2>3, <2>4, StepKeeps
<1> QED BY <1>3, <1>4

LEMMA DecideKeeps ==
  ASSUME DInv, NEW r \in Runs, Decide(r)
  PROVE  DInv'
<1> DEFINE p == Principal[r]
<1>1. Active(r) /\ run[r] \in Run /\ run[r].step = "estimate"
  BY DEF Decide, Active, DInv, TypeOK
<1>2. PICK radius \in Estimates :
        IF run[r].tool \in Sensitive \/ Accumulated(p) + radius > Budget[p]
        THEN Finish(r, "review")
        ELSE /\ ledger' = [ledger EXCEPT ![p] = Accumulated(p) + radius]
             /\ run' = [run EXCEPT ![r].step = "tool", ![r].spent = @ + radius]
             /\ UNCHANGED overlapped
  BY DEF Decide
<1>3. CASE run[r].tool \in Sensitive \/ Accumulated(p) + radius > Budget[p]
  BY <1>1, <1>2, <1>3, FinishKeeps DEF Outcomes
<1>4. CASE ~(run[r].tool \in Sensitive \/ Accumulated(p) + radius > Budget[p])
  <2> DEFINE x == [run[r] EXCEPT !.step = "tool", !.spent = run[r].spent + radius]
             l == Accumulated(p) + radius
  <2>1. radius \in Nat /\ p \in Principals /\ Budget[p] \in Nat /\ run[r].spent \in Nat
    BY <1>1, RadiiAreCounts, PrincipalsAreGiven, BudgetsAreCounts DEF Estimates, Run
  <2>2. Accumulated(p) \in Nat /\ l \in Nat /\ l <= Budget[p]
    BY <1>4, <2>1 DEF Accumulated, DInv, TypeOK
  <2>0. run[r].spent + radius \in Nat
    BY <2>1
  <2>3. /\ x \in Run /\ x.step = "tool" /\ x.tool = run[r].tool
        /\ x.used = run[r].used /\ x.spent = run[r].spent + radius
    BY <1>1, <2>0 DEF Run
  <2>4. run' = [run EXCEPT ![r] = x] /\ run'[r] = x
    BY <1>2, <1>4 DEF DInv, TypeOK
  <2>5. ledger' = [ledger EXCEPT ![p] = l] /\ ledger'[p] = l
    BY <1>2, <1>4, <2>1 DEF DInv, TypeOK
  <2>6. r \notin overlapped => Accumulated(p) = run[r].spent
    BY <1>1, <2>1, NoneIsNone DEF DInv, RunSound, Accumulated
  <2>7. r \notin overlapped' => x.spent <= Budget[p] /\ ledger'[p] = x.spent
    BY <1>2, <1>4, <2>2, <2>3, <2>5, <2>6
  <2>8. RunSound(r)'
    BY <1>1, <1>4, <2>3, <2>4, <2>7
       DEF DInv, RunSound, Active, Gated, AllowedForPrincipal, Listed
  <2> QED BY <1>1, <1>2, <1>4, <2>2, <2>3, <2>4, <2>5, <2>8, StepKeeps
<1> QED BY <1>3, <1>4

LEMMA UseToolKeeps ==
  ASSUME DInv, NEW r \in Runs, UseTool(r)
  PROVE  DInv'
<1> DEFINE used == [run[r] EXCEPT !.used = run[r].used \cup {run[r].tool}, !.tool = None,
                                  !.calls = run[r].calls - 1]
<1>1. /\ Active(r) /\ run[r] \in Run /\ run[r].step = "tool" /\ run[r].tool \in Tools
      /\ Gated(r, run[r].tool)
  BY DEF UseTool, Active, DInv, TypeOK, RunSound, Gated
<1>2. used.used = run[r].used \cup {run[r].tool} /\ used.spent = run[r].spent
  BY <1>1 DEF Run
<1>3. \A tool \in used.used : Gated(r, tool)
  BY <1>1, <1>2 DEF DInv, RunSound
<1>4. used.calls \in 0..MaxCalls => used \in Run
  BY <1>1 DEF Run
<1>5. ASSUME NEW x \in Run, x.step \in {"call", "llm", "done"}, run' = [run EXCEPT ![r] = x],
             x.used = used.used, x.spent = used.spent, UNCHANGED overlapped,
             \/ UNCHANGED ledger /\ x.step # "done"
             \/ ledger' = [ledger EXCEPT ![Principal[r]] = None] /\ x.step = "done"
      PROVE  DInv'
  <2>1. run'[r] = x
    BY <1>5 DEF DInv, TypeOK
  <2>2. r \notin overlapped => /\ x.spent <= Budget[Principal[r]]
                               /\ x.step # "done" => ledger'[Principal[r]] = x.spent
    BY <1>1, <1>2, <1>5 DEF DInv, RunSound
  <2>a. \A tool \in run'[r].used : Gated(r, tool)
    BY <1>3, <1>5, <2>1
  <2>b. r \notin overlapped' =>
          /\ run'[r].spent <= Budget[Principal[r]]
          /\ run'[r].step # "done" => ledger'[Principal[r]] = run'[r].spent
    BY <1>5, <2>1, <2>2
  <2>3. RunSound(r)'
    BY <1>5, <2>1, <2>a, <2>b DEF RunSound, Active, Gated, AllowedForPrincipal, Listed
  <2>4. CASE UNCHANGED ledger /\ x.step # "done"
    <3>1. PICK l \in Nat \cup {None} : ledger' = [ledger EXCEPT ![Principal[r]] = l]
      BY <2>4, PrincipalsAreGiven DEF DInv, TypeOK
    <3> QED BY <1>1, <1>5, <2>3, <2>4, <3>1, StepKeeps
  <2>5. CASE ledger' = [ledger EXCEPT ![Principal[r]] = None] /\ x.step = "done"
    BY <1>1, <1>5, <2>3, <2>5, StepKeeps
  <2> QED BY <1>5, <2>4, <2>5
<1>6. ASSUME used.calls > 0, run' = [run EXCEPT ![r] = [used EXCEPT !.step = "call"]],
             UNCHANGED <<ledger, overlapped>>
      PROVE  DInv'
  <2> DEFINE x == [used EXCEPT !.step = "call"]
  <2>1. used.calls \in 0..MaxCalls
    BY <1>1, <1>6, BoundsAreCounts DEF Run
  <2>2. x \in Run /\ x.step = "call" /\ x.used = used.used /\ x.spent = used.spent
    BY <1>4, <2>1 DEF Run
  <2> QED BY <1>5, <1>6, <2>2
<1>7. ASSUME used.calls = 0, used.iteration < MaxIterations, UNCHANGED <<ledger, overlapped>>,
             run' = [run EXCEPT ![r] = [used EXCEPT !.step = "llm",
                                                    !.iteration = used.iteration + 1]]
      PROVE  DInv'
  <2> DEFINE x == [used EXCEPT !.step = "llm", !.iteration = used.iteration + 1]
  <2>1. used \in Run
    BY <1>4, <1>7, BoundsAreCounts
  <2>2. used.iteration + 1 \in 0..MaxIterations
    <3>1. used.iteration \in 0..MaxIterations
      BY <2>1 DEF Run
    <3> QED BY <1>7, <3>1, BoundsAreCounts
  <2>3. x \in Run /\ x.step = "llm" /\ x.used = used.used /\ x.spent = used.spent
    BY <2>1, <2>2 DEF Run
  <2> QED BY <1>5, <1>7, <2>3
<1>8. ASSUME used.calls = 0, UNCHANGED overlapped,
             run' = [run EXCEPT ![r] = [used EXCEPT !.step = "done", !.outcome = "partial"]],
             ledger' = [ledger EXCEPT ![Principal[r]] = None]
      PROVE  DInv'
  <2> DEFINE x == [used EXCEPT !.step = "done", !.outcome = "partial"]
  <2>1. used \in Run
    BY <1>4, <1>8, BoundsAreCounts
  <2>2. x \in Run /\ x.step = "done" /\ x.used = used.used /\ x.spent = used.spent
    BY <2>1 DEF Run, Outcomes
  <2> QED BY <1>5, <1>8, <2>2
<1> QED BY <1>6, <1>7, <1>8 DEF UseTool

LEMMA NextKeeps == DInv /\ [Next]_vars => DInv'
<1> SUFFICES ASSUME DInv, [Next]_vars PROVE DInv'
  OBVIOUS
<1>1. CASE UNCHANGED vars
  <2>1. ledger' = ledger /\ run' = run /\ overlapped' = overlapped
    BY <1>1 DEF vars
  <2>2. TypeOK' /\ RivalsAreMarked' /\ LedgerIsTransient'
    BY <2>1 DEF DInv, TypeOK, RivalsAreMarked, LedgerIsTransient, Active
  <2>3. ASSUME NEW r \in Runs PROVE RunSound(r)'
    BY <2>1 DEF DInv, RunSound, Active, Gated, AllowedForPrincipal, Listed
  <2> QED BY <2>2, <2>3 DEF DInv
<1> QED BY <1>1, BeginKeeps, AnswerKeeps, RaiseKeeps, ProposeKeeps, DecideKeeps, UseToolKeeps
        DEF Next, Step

-----------------------------------------------------------------------------

\* The inductive invariant holds in every reachable state.
THEOREM Invariance == Spec => []DInv
  BY InitSound, NextKeeps, PTL DEF Spec

\* The runs and the ledger keep their types, whatever the policy and the estimates.
THEOREM TypeCorrect == Spec => []TypeOK
<1>1. DInv => TypeOK
  BY DEF DInv
<1> QED BY <1>1, Invariance, PTL

\* A run that has its principal to itself stays within the budget, whatever the policy,
\* the estimates and the interleaving with the runs of others.
THEOREM BudgetKeptWhenAlone == Spec => []BudgetWhenAlone
<1>1. DInv => BudgetWhenAlone
  BY DEF DInv, RunSound, BudgetWhenAlone
<1> QED BY <1>1, Invariance, PTL

\* If no two runs act for one principal, every run stays within its budget.
THEOREM BudgetKeptByOwnPrincipals ==
  ASSUME \A q, r \in Runs : Principal[q] = Principal[r] => q = r
  PROVE  Spec => []BudgetPerTask
<1> DEFINE Alone == DInv /\ overlapped = {}
<1>1. Init => Alone
  BY InitSound DEF Init
<1>2. Alone /\ [Next]_vars => Alone'
  <2> SUFFICES ASSUME Alone, [Next]_vars PROVE overlapped' = {}
    BY NextKeeps
  <2>1. \A r \in Runs : Rivals(r) = {}
    BY DEF Rivals
  <2> QED BY <2>1 DEF Next, Step, vars, Begin, Answer, Raise, Propose, Decide, UseTool, Finish
<1>3. Alone => BudgetPerTask
  BY DEF DInv, RunSound, BudgetPerTask
<1> QED BY <1>1, <1>2, <1>3, PTL DEF Spec

\* No tool that evaluate() stops is run by anybody, even by runs that spoil each other's
\* ledger entry.
THEOREM GatesHold == Spec => []ForbiddenToolsNeverRun
<1>1. DInv => ForbiddenToolsNeverRun
  BY DEF DInv, RunSound, Gated, AllowedForPrincipal, ForbiddenToolsNeverRun
<1> QED BY <1>1, Invariance, PTL

\* The ledger has no entries of principals that are done.
THEOREM LedgerStaysTransient == Spec => []LedgerIsTransient
<1>1. DInv => LedgerIsTransient
  BY DEF DInv
<1> QED BY <1>1, Invariance, PTL

-----------------------------------------------------------------------------
(* Why a run ends.                                                         *)

\* A run begins with its first round, and one that works on an answer has a call of it
\* left to make.
Counted(r) ==
    /\ run[r].step = "idle" => run[r].iteration = 0
    /\ run[r].step \in {"call", "estimate", "tool"} => run[r].calls \in 1..MaxCalls

\* How many steps are left of a round at most, by the node and the calls left.
LeftOfRound(step, calls) ==
    CASE step = "llm" -> 3 * MaxCalls + 2
      [] step = "call" -> 3 * calls + 1
      [] step = "estimate" -> 3 * calls
      [] step = "tool" -> 3 * calls - 1
      [] OTHER -> 0

\* r goes on to its next round, or has less of its round left; nobody else moves.
Advances(r) ==
    /\ \A q \in Runs \ {r} : run'[q] = run[q]
    /\ \/ run'[r].iteration = run[r].iteration + 1
       \/ /\ run'[r].iteration = run[r].iteration
          /\ LeftOfRound(run'[r].step, run'[r].calls) < LeftOfRound(run[r].step, run[r].calls)

LEMMA WithinRound ==
  ASSUME NEW r \in Runs, run \in [Runs -> Run], Counted(r), NEW x,
         run' = [run EXCEPT ![r] = x], x.iteration = run[r].iteration,
         \/ run[r].step = "llm" /\ x.step = "call" /\ x.calls \in 1..MaxCalls
         \/ run[r].step = "call" /\ x.step = "estimate" /\ x.calls = run[r].calls
         \/ run[r].step = "estimate" /\ x.step = "tool" /\ x.calls = run[r].calls
         \/ /\ run[r].step = "tool" /\ x.step = "call"
            /\ x.calls = run[r].calls - 1 /\ x.calls > 0
         \/ Active(r) /\ x.step = "done"
  PROVE  Advances(r) /\ Counted(r)'
<1>1. run'[r] = x /\ \A q \in Runs \ {r} : run'[q] = run[q]
  OBVIOUS
<1>2. /\ run[r].step \in {"idle", "llm", "call", "estimate", "tool", "done"}
      /\ run[r].calls \in 0..MaxCalls /\ MaxCalls \in Nat
  BY BoundsAreCounts DEF Run
<1>3. LeftOfRound(x.step, x.calls) < LeftOfRound(run[r].step, run[r].calls)
  BY <1>2 DEF LeftOfRound, Counted, Active
<1>4. x.step # "idle" /\ (x.step \in {"call", "estimate", "tool"} => x.calls \in 1..MaxCalls)
  BY <1>2 DEF Counted
<1> QED BY <1>1, <1>3, <1>4 DEF Advances, Counted

\* The next round, the first included.
LEMMA NextRound ==
  ASSUME NEW r \in Runs, run \in [Runs -> Run], NEW x,
         run' = [run EXCEPT ![r] = x], x.step = "llm", x.iteration = run[r].iteration + 1
  PROVE  Advances(r) /\ Counted(r)'
<1>1. run'[r] = x /\ \A q \in Runs \ {r} : run'[q] = run[q]
  OBVIOUS
<1> QED BY <1>1 DEF Advances, Counted

LEMMA LeavingAdvances ==
  ASSUME DInv, NEW r \in Runs, Counted(r), NEW outcome,
         Active(r), run' = [run EXCEPT ![r].step = "done", ![r].outcome = outcome]
  PROVE  Advances(r) /\ Counted(r)'
<1> DEFINE x == [run[r] EXCEPT !.step = "done", !.outcome = outcome]
<1>1. run[r] \in Run /\ run \in [Runs -> Run]
  BY DEF DInv, TypeOK
<1>2. x.step = "done" /\ x.iteration = run[r].iteration /\ run' = [run EXCEPT ![r] = x]
  BY <1>1 DEF Run
<1> HIDE DEF x
<1> QED BY <1>1, <1>2, WithinRound

LEMMA UseToolAdvances ==
  ASSUME DInv, NEW r \in Runs, Counted(r), UseTool(r)
  PROVE  Advances(r) /\ Counted(r)'
<1> DEFINE used == [run[r] EXCEPT !.used = run[r].used \cup {run[r].tool}, !.tool = None,
                                  !.calls = run[r].calls - 1]
<1>1. run[r] \in Run /\ run \in [Runs -> Run] /\ run[r].step = "tool" /\ Active(r)
  BY DEF DInv, TypeOK, UseTool, Active
<1>2. \/ used.calls > 0 /\ run' = [run EXCEPT ![r] = [used EXCEPT !.step = "call"]]
      \/ run' = [run EXCEPT ![r] = [used EXCEPT !.step = "llm", !.iteration = @ + 1]]
      \/ run' = [run EXCEPT ![r] = [used EXCEPT !.step = "done", !.outcome = "partial"]]
  BY DEF UseTool
<1>3. \A s, o : /\ [used EXCEPT !.step = s].step = s
                /\ [used EXCEPT !.step = s].calls = run[r].calls - 1
                /\ [used EXCEPT !.step = s].iteration = run[r].iteration
                /\ [used EXCEPT !.step = s, !.outcome = o].step = s
                /\ [used EXCEPT !.step = s, !.outcome = o].iteration = run[r].iteration
                /\ [used EXCEPT !.step = s, !.iteration = @ + 1].step = s
                /\ [used EXCEPT !.step = s, !.iteration = @ + 1].iteration
                      = run[r].iteration + 1
                /\ used.calls = run[r].calls - 1
  BY <1>1 DEF Run
<1> HIDE DEF used
<1>4. CASE used.calls > 0 /\ run' = [run EXCEPT ![r] = [used EXCEPT !.step = "call"]]
  BY <1>1, <1>3, <1>4, WithinRound
<1>5. CASE run' = [run EXCEPT ![r] = [used EXCEPT !.step = "llm", !.iteration = @ + 1]]
  BY <1>1, <1>3, <1>5, NextRound
<1>6. CASE run' = [run EXCEPT ![r] = [used EXCEPT !.step = "done", !.outcome = "partial"]]
  BY <1>1, <1>3, <1>6, WithinRound
<1> QED BY <1>2, <1>4, <1>5, <1>6

LEMMA StepAdvances ==
  ASSUME DInv, NEW r \in Runs, Counted(r), Begin(r) \/ Step(r) \/ Raise(r)
  PROVE  Advances(r) /\ Counted(r)'
<1>0. run \in [Runs -> Run] /\ run[r] \in Run
  BY DEF DInv, TypeOK
<1>1. CASE Begin(r)
  <2> DEFINE x == [run[r] EXCEPT !.step = "llm", !.iteration = 1]
  <2>1. x.step = "llm" /\ x.iteration = 1 /\ run' = [run EXCEPT ![r] = x]
    BY <1>0, <1>1 DEF Begin, Run
  <2>2. run[r].iteration = 0
    BY <1>1 DEF Begin, Counted
  <2>3. x.iteration = run[r].iteration + 1
    BY <2>1, <2>2
  <2> HIDE DEF x
  <2> QED BY <1>0, <2>1, <2>3, NextRound
<1>2. ASSUME NEW outcome, Finish(r, outcome), Active(r) PROVE Advances(r) /\ Counted(r)'
  BY <1>2, LeavingAdvances DEF Finish
<1>3. CASE Answer(r)
  <2>1. CASE Finish(r, "success")
    BY <1>2, <1>3, <2>1 DEF Answer, Active
  <2>2. ASSUME NEW n \in 1..MaxCalls, run' = [run EXCEPT ![r].step = "call", ![r].calls = n]
        PROVE  Advances(r) /\ Counted(r)'
    <3> DEFINE x == [run[r] EXCEPT !.step = "call", !.calls = n]
    <3>1. /\ x.step = "call" /\ x.calls = n /\ x.iteration = run[r].iteration
          /\ run' = [run EXCEPT ![r] = x]
      BY <1>0, <2>2 DEF Run
    <3> HIDE DEF x
    <3> QED BY <1>0, <1>3, <3>1, WithinRound DEF Answer
  <2> QED BY <1>3, <2>1, <2>2 DEF Answer
<1>4. CASE Propose(r)
  <2>1. PICK tool \in Tools : \/ Finish(r, "failed")
                              \/ run' = [run EXCEPT ![r].step = "estimate", ![r].tool = tool]
    BY <1>4 DEF Propose
  <2> DEFINE x == [run[r] EXCEPT !.step = "estimate", !.tool = tool]
  <2>2. CASE run' = [run EXCEPT ![r].step = "estimate", ![r].tool = tool]
    <3>1. /\ x.step = "estimate" /\ x.calls = run[r].calls
          /\ x.iteration = run[r].iteration /\ run' = [run EXCEPT ![r] = x]
      BY <1>0, <2>2 DEF Run
    <3> HIDE DEF x
    <3> QED BY <1>0, <1>4, <3>1, WithinRound DEF Propose
  <2> QED BY <1>2, <1>4, <2>1, <2>2 DEF Propose, Active
<1>5. CASE Decide(r)
  <2>1. PICK radius \in Estimates :
          \/ Finish(r, "review")
          \/ run' = [run EXCEPT ![r].step = "tool", ![r].spent = @ + radius]
    BY <1>5 DEF Decide
  <2> DEFINE x == [run[r] EXCEPT !.step = "tool", !.spent = run[r].spent + radius]
  <2>2. CASE run' = [run EXCEPT ![r].step = "tool", ![r].spent = @ + radius]
    <3>1. /\ x.step = "tool" /\ x.calls = run[r].calls
          /\ x.iteration = run[r].iteration /\ run' = [run EXCEPT ![r] = x]
      BY <1>0, <2>2 DEF Run
    <3> HIDE DEF x
    <3> QED BY <1>0, <1>5, <3>1, WithinRound DEF Decide
  <2> QED BY <1>2, <1>5, <2>1, <2>2 DEF Decide, Active
<1>6. CASE Raise(r)
  BY <1>6, LeavingAdvances DEF Raise
<1> QED BY <1>1, <1>3, <1>4, <1>5, <1>6, UseToolAdvances DEF Step

\* Whatever the LLM answers, a run goes forward: within a round it uses up the calls of
\* the answer, and by its type it has at most MaxIterations rounds.
THEOREM RunsOnlyAdvance == Spec => [][\E r \in Runs : Advances(r)]_vars
<1> DEFINE AllCounted == \A r \in Runs : Counted(r)
<1>1. Init => AllCounted
  <2> SUFFICES ASSUME Init, NEW r \in Runs PROVE Counted(r)
    OBVIOUS
  <2>1. run[r].step = "idle" /\ run[r].iteration = 0
    BY DEF Init, NotStarted
  <2> QED BY <2>1 DEF Counted
<1>2. DInv /\ AllCounted /\ [Next]_vars =>
        AllCounted' /\ [\E r \in Runs : Advances(r)]_vars
  <2> SUFFICES ASSUME DInv, AllCounted, [Next]_vars
               PROVE  AllCounted' /\ [\E r \in Runs : Advances(r)]_vars
    OBVIOUS
  <2>1. CASE UNCHANGED vars
    BY <2>1 DEF vars, Counted
  <2>2. ASSUME NEW r \in Runs, Begin(r) \/ Step(r) \/ Raise(r)
        PROVE  AllCounted' /\ Advances(r)
    <3>1. Advances(r) /\ Counted(r)'
      BY <2>2, StepAdvances
    <3>2. ASSUME NEW q \in Runs PROVE Counted(q)'
      BY <3>1 DEF Advances, Counted
    <3> QED BY <3>1, <3>2
  <2> QED BY <2>1, <2>2 DEF Next
<1> QED BY <1>1, <1>2, Invariance, PTL DEF Spec

=============================================================================
