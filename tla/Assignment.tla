------------------------------ MODULE Assignment -----------------------------
(***************************************************************************)
(* What leases promise: a task is in the hands of one agent at a time, and *)
(* changes hands only by way of nobody's.  Several tasks may be taken back *)
(* at once, one is granted at a time.                                      *)
(***************************************************************************)
CONSTANTS Tasks, Agents, Nobody

VARIABLE holder

Init == holder = [t \in Tasks |-> Nobody]

Grant(t, a) ==
    /\ holder[t] = Nobody
    /\ holder' = [holder EXCEPT ![t] = a]

TakeBack(T) ==
    /\ \A t \in T : holder[t] # Nobody
    /\ holder' = [t \in Tasks |-> IF t \in T THEN Nobody ELSE holder[t]]

Next ==
    \/ \E t \in Tasks, a \in Agents : Grant(t, a)
    \/ \E T \in SUBSET Tasks : TakeBack(T)

Spec == Init /\ [][Next]_holder

=============================================================================
