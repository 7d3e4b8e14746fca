----------------------------- MODULE MCWorkflow ------------------------------
(* Small instances of Workflow for TLC. *)
EXTENDS Workflow

CONSTANTS w1, w2, NTasks

MCTasks == 1..NTasks
MCRuns == {w1, w2}

\* Runs started with the same arguments share a context, others have their own.
SharedContext == [w \in MCRuns |-> "shared"]
OwnContext == [w \in MCRuns |-> w]

=============================================================================
