----------------------------- MODULE TaskHistory -----------------------------
(***************************************************************************)
(* What the task store promises: each task has one history, which begins   *)
(* with an intake and is only ever extended by one accepted transition.    *)
(***************************************************************************)
EXTENDS Sequences

CONSTANTS Tasks, Intakes, Moves

VARIABLE history

Init == history = [t \in Tasks |-> <<>>]

\* TASK_CREATED.
Create(t, i) ==
    /\ history[t] = <<>>
    /\ history' = [history EXCEPT ![t] = <<i>>]

\* TRANSITION_ACCEPTED.
Extend(t, m) ==
    /\ history[t] # <<>>
    /\ history' = [history EXCEPT ![t] = Append(@, m)]

Next == \E t \in Tasks : \/ \E i \in Intakes : Create(t, i)
                         \/ \E m \in Moves : Extend(t, m)

Spec == Init /\ [][Next]_history
=============================================================================
