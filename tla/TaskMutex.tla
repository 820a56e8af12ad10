------------------------------ MODULE TaskMutex ------------------------------
(***************************************************************************)
(* What WorkflowStore.acquire_task_lock promises, without SQLite, marker   *)
(* or generations: for each task a mutual-exclusion lock that is taken     *)
(* only when free, that only the client that took it can free, and that    *)
(* stays locked for ever when its client vanishes, because                 *)
(* stale_after_seconds never takes a lock over.                            *)
(***************************************************************************)
CONSTANTS Clients, Tasks, Free, Orphaned

VARIABLE owner

TypeOK == owner \in [Tasks -> Clients \cup {Free, Orphaned}]

Init == owner = [t \in Tasks |-> Free]

\* acquire_task_lock returns, or is on its way to return, the lock.
Take(c, t) ==
    /\ owner[t] = Free
    /\ owner' = [owner EXCEPT ![t] = c]

\* WorkflowTaskLock.release.
Give(c, t) ==
    /\ owner[t] = c
    /\ owner' = [owner EXCEPT ![t] = Free]

\* The client crashed, or its call raised although its row was committed.
Abandon(c, t) ==
    /\ owner[t] = c
    /\ owner' = [owner EXCEPT ![t] = Orphaned]

Next == \E c \in Clients, t \in Tasks :
            Take(c, t) \/ Give(c, t) \/ Abandon(c, t)

Spec == Init /\ [][Next]_owner
=============================================================================
