--------------------------- MODULE DecisionBoundary --------------------------
(***************************************************************************)
(* Agent runs behind the decision boundary: the loop of Agent.run          *)
(* (app/orchestrator/agent.py) and DecisionBoundaryMiddleware              *)
(* (app/orchestrator/decision_boundary.py), whose ledger of accumulated    *)
(* blast radius is a dict with one entry per principal.  A run awaits the  *)
(* LLM, the estimator and the tool; the middleware is shared by whatever   *)
(* runs go on meanwhile, those of the same principal included.             *)
(***************************************************************************)
EXTENDS Integers

CONSTANTS
    Runs,               \* calls of Agent.run
    Principals, Principal,  \* on whose behalf each run acts
    Budget,             \* blast_radius_budget of each principal
    Tools, Sensitive,   \* sensitive_tools
    RolesOf,            \* the roles of each principal
    Allowlist, Blocklist,   \* role_allowlists, role_blocklist: dicts from roles to tools
    Radii,              \* what the blast-radius estimator may return
    MaxIterations, MaxCalls,    \* rounds of a run; tool calls in an answer of the LLM
    None                \* no ledger entry; no tool proposed yet

ASSUME PrincipalsAreGiven == Principal \in [Runs -> Principals]
ASSUME BudgetsAreCounts == Budget \in [Principals -> Nat]
ASSUME RadiiAreCounts == Radii \subseteq Nat
ASSUME BoundsAreCounts == MaxIterations \in Nat \ {0} /\ MaxCalls \in Nat
ASSUME NoneIsNone == None \notin Nat /\ None \notin Tools

VARIABLES
    ledger,     \* DecisionBoundaryMiddleware._ledger
    run,        \* where each run stands in its loop
    overlapped  \* history: the runs that shared their principal with another for a while

vars == <<ledger, run, overlapped>>

-----------------------------------------------------------------------------

Outcomes == {"none", "success", "failed", "partial", "review", "raised"}

\* calls: tool calls of the last answer still to be made; used and spent: the tools
\* that were run, and the blast radius allowed for them.
Run == [step: {"idle", "llm", "call", "estimate", "tool", "done"},
        iteration: 0..MaxIterations, calls: 0..MaxCalls, tool: Tools \cup {None},
        used: SUBSET Tools, spent: Nat, outcome: Outcomes]
NotStarted == [step |-> "idle", iteration |-> 0, calls |-> 0, tool |-> None,
               used |-> {}, spent |-> 0, outcome |-> "none"]

Active(r) == run[r].step \notin {"idle", "done"}
Rivals(r) == {q \in Runs \ {r} : Principal[q] = Principal[r] /\ Active(q)}

Init ==
    /\ ledger = [p \in Principals |-> None]
    /\ run = [r \in Runs |-> NotStarted]
    /\ overlapped = {}

-----------------------------------------------------------------------------
(* The policy                                                              *)

\* _ledger.get(principal.id, 0)
Accumulated(p) == IF ledger[p] = None THEN 0 ELSE ledger[p]

Listed(list, role, tool) == role \in DOMAIN list /\ tool \in list[role]

\* Variant: the allowlists are consulted first.
AllowlistFirst(p, tool) ==
    \/ DOMAIN Allowlist = {}
    \/ \E role \in RolesOf[p] : Listed(Allowlist, role, tool)

\* Without roles a principal may do anything, unless somebody has an allowlist.
AllowedForPrincipal(p, tool) ==
    IF RolesOf[p] = {} THEN DOMAIN Allowlist = {}
    ELSE /\ \A role \in RolesOf[p] : ~Listed(Blocklist, role, tool)
         /\ \/ DOMAIN Allowlist = {}
            \/ \E role \in RolesOf[p] : Listed(Allowlist, role, tool)

\* An estimator that raises counts as 1000.
Estimates == Radii \cup {1000}

-----------------------------------------------------------------------------
(* The run                                                                 *)

\* begin_task resets the ledger of the principal.
Begin(r) ==
    /\ run[r].step = "idle"
    /\ ledger' = [ledger EXCEPT ![Principal[r]] = 0]
    /\ run' = [run EXCEPT ![r].step = "llm", ![r].iteration = 1]
    /\ overlapped' = IF Rivals(r) = {} THEN overlapped
                     ELSE overlapped \cup Rivals(r) \cup {r}

\* Variant: end_task is left to the caller.
FinishWithoutEndTask(r, outcome) ==
    /\ run' = [run EXCEPT ![r].step = "done", ![r].outcome = outcome]
    /\ UNCHANGED <<ledger, overlapped>>

\* Every return of run() calls end_task first, which drops the entry.
Finish(r, outcome) ==
    /\ ledger' = [ledger EXCEPT ![Principal[r]] = None]
    /\ run' = [run EXCEPT ![r].step = "done", ![r].outcome = outcome]
    /\ UNCHANGED overlapped

\* The LLM answers, with tool calls or without.
Answer(r) ==
    /\ run[r].step = "llm"
    /\ \/ Finish(r, "success")
       \/ /\ \E n \in 1..MaxCalls :
               run' = [run EXCEPT ![r].step = "call", ![r].calls = n]
          /\ UNCHANGED <<ledger, overlapped>>

\* The LLM call raises or the task is cancelled, and run() is left without end_task.
Raise(r) ==
    /\ Active(r)
    /\ run' = [run EXCEPT ![r].step = "done", ![r].outcome = "raised"]
    /\ UNCHANGED <<ledger, overlapped>>

\* The first part of evaluate(), up to the estimate it awaits.  The loop asks nobody else:
\* neither the tool's dangerous flag nor _ALWAYS_REVIEW_ACTIONS is looked at.
Propose(r) ==
    /\ run[r].step = "call"
    /\ \E tool \in Tools :
         IF AllowedForPrincipal(Principal[r], tool)
         THEN /\ run' = [run EXCEPT ![r].step = "estimate", ![r].tool = tool]
              /\ UNCHANGED <<ledger, overlapped>>
         ELSE Finish(r, "failed")

\* Variant: the accumulated radius is read before the estimate is awaited, and lost.
DecideOnRadius(r) ==
    LET p == Principal[r] IN
    /\ run[r].step = "estimate"
    /\ \E radius \in Estimates :
         IF run[r].tool \in Sensitive \/ radius > Budget[p]
         THEN Finish(r, "review")
         ELSE /\ ledger' = [ledger EXCEPT ![p] = radius]
              /\ run' = [run EXCEPT ![r].step = "tool", ![r].spent = @ + radius]
              /\ UNCHANGED overlapped

\* The rest of it, from the estimate on.  A call that needs review is entered in the
\* ledger too, but run() then ends the task in the same breath.
Decide(r) ==
    LET p == Principal[r] IN
    /\ run[r].step = "estimate"
    /\ \E radius \in Estimates :
         IF run[r].tool \in Sensitive \/ Accumulated(p) + radius > Budget[p]
         THEN Finish(r, "review")
         ELSE /\ ledger' = [ledger EXCEPT ![p] = Accumulated(p) + radius]
              /\ run' = [run EXCEPT ![r].step = "tool", ![r].spent = @ + radius]
              /\ UNCHANGED overlapped

\* Variant: the round is counted after it was compared.
UseToolOneRoundMore(r) ==
    /\ run[r].step = "tool" /\ run[r].iteration <= MaxIterations
    /\ run' = [run EXCEPT ![r].step = "llm", ![r].iteration = @ + 1, ![r].calls = 0]
    /\ UNCHANGED <<ledger, overlapped>>

\* The tool returns, or what it raised is turned into a result.  On to the next call,
\* the next round, or out of rounds.
UseTool(r) ==
    LET used == [run[r] EXCEPT !.used = @ \cup {run[r].tool}, !.tool = None, !.calls = @ - 1]
    IN  /\ run[r].step = "tool"
        /\ \/ /\ used.calls > 0
              /\ run' = [run EXCEPT ![r] = [used EXCEPT !.step = "call"]]
              /\ UNCHANGED <<ledger, overlapped>>
           \/ /\ used.calls = 0 /\ used.iteration < MaxIterations
              /\ run' = [run EXCEPT ![r] = [used EXCEPT !.step = "llm", !.iteration = @ + 1]]
              /\ UNCHANGED <<ledger, overlapped>>
           \/ /\ used.calls = 0 /\ used.iteration = MaxIterations
              /\ run' = [run EXCEPT ![r] = [used EXCEPT !.step = "done", !.outcome = "partial"]]
              /\ ledger' = [ledger EXCEPT ![Principal[r]] = None]
              /\ UNCHANGED overlapped

Step(r) == Answer(r) \/ Propose(r) \/ Decide(r) \/ UseTool(r)

Next == \E r \in Runs : Begin(r) \/ Step(r) \/ Raise(r)

Spec == Init /\ [][Next]_vars

-----------------------------------------------------------------------------
(* Properties.                                                             *)

\* Ledger and runs have the shape the code gives them.
TypeOK ==
    /\ ledger \in [Principals -> Nat \cup {None}]
    /\ run \in [Runs -> Run]
    /\ overlapped \in SUBSET Runs

\* "Max blast-radius sum the principal may incur across a single task before a review
\* is required": kept by every run that has its principal to itself from its begin_task
\* to its end_task, whatever earlier runs left in the ledger, and however its estimates
\* are interleaved with the runs of others.
BudgetWhenAlone ==
    \A r \in Runs : r \notin overlapped => run[r].spent <= Budget[Principal[r]]

\* No tool is ever run that evaluate() calls sensitive, that a role of the principal
\* forbids, or that no role of it allows: deciding and running are separated by awaits,
\* and the answer may name further tools.  Tools that only Tool.dangerous or
\* _ALWAYS_REVIEW_ACTIONS (agent.py) would send to review are not among them; they run.
ForbiddenToolsNeverRun ==
    \A r \in Runs, tool \in Tools : tool \in run[r].used =>
        LET roles == RolesOf[Principal[r]] IN
        /\ tool \notin Sensitive
        /\ \A role \in roles : ~Listed(Blocklist, role, tool)
        /\ DOMAIN Allowlist # {} => \E role \in roles : Listed(Allowlist, role, tool)

\* The ledger has entries only for principals that are at work, or whose last run was
\* cut short by an exception: nothing else accumulates in a long-lived middleware.
LedgerIsTransient ==
    \A p \in Principals : ledger[p] # None =>
        \E r \in Runs : Principal[r] = p /\ (Active(r) \/ run[r].outcome = "raised")

-----------------------------------------------------------------------------
(* What the documentation says and the code does not keep.                 *)

\* The same budget, promised "across a single task" (Principal), for every run: the
\* ledger is "accumulated within a single task" (DecisionBoundaryMiddleware).
BudgetPerTask == \A r \in Runs : run[r].spent <= Budget[Principal[r]]

=============================================================================
