-------------------------- MODULE MCDecisionBoundary -------------------------
(* Small instances of DecisionBoundary for TLC. *)
EXTENDS DecisionBoundary, TLC

CONSTANTS r1, r2, r3, alice, bob, read, list, shell, mail

\* Two runs of alice, who has two roles, and one of bob, who has a third.
MCPrincipal == (r1 :> alice) @@ (r2 :> alice) @@ (r3 :> bob)
MCRolesOf == (alice :> {"agent", "clerk"}) @@ (bob :> {"guest"})
MCAllowlist == ("agent" :> {read, shell, mail}) @@ ("guest" :> {list})
MCBlocklist == ("clerk" :> {mail})
\* Bob may do only what has no radius at all.
MCBudget == (alice :> 2) @@ (bob :> 0)

TwoRuns == {r1, r2}
ThreeRuns == {r1, r2, r3}
MCTools == {read, list, shell, mail}

\* A policy without roles and lists, as built by default.
OpenRolesOf == (alice :> {}) @@ (bob :> {})
NoList == [role \in {} |-> {}]
SharedPrincipal == (r1 :> alice) @@ (r2 :> alice)

=============================================================================
