----------------------------- MODULE MCTaskQueue -----------------------------
(* Small instances of TaskQueue, with its history, for TLC. *)
EXTENDS RetryCount, TLC

CONSTANTS a1, a2, a3, NTasks

MCTasks == 1..NTasks
MCBudgets == {0, 1}
TwoAgents == {a1, a2}
ThreeAgents == {a1, a2, a3}

\* Agents are interchangeable; task ids are not, claim() orders them.
Symmetry == Permutations(Agents)

=============================================================================
