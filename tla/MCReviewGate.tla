---------------------------- MODULE MCReviewGate -----------------------------
(* A small instance of ReviewGate for TLC. *)
EXTENDS ReviewGate, FiniteSets, TLC

CONSTANTS a1, a2, NTasks

MCTasks == 1..NTasks
MCAgents == {a1, a2}

\* Bound: the transactions of an agent, a gate and a human overlap; that agents overlap
\* with each other is for MCTaskQueue.
OneAgentAtATime == Cardinality({a \in Agents : tx[a].step # "idle"}) <= 1

Symmetry == Permutations(MCAgents)

=============================================================================
