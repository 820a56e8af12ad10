--------------------------- MODULE AuditGenerations ---------------------------
(***************************************************************************)
(* Audit generations: what the workflow contracts demand of a recovery     *)
(* transaction, what the store does with its start event and its state row,*)
(* and what WorkflowEngine._trusted_audit_lineage reads afterwards.        *)
(*                                                                         *)
(* src/ has the contracts, the two store operations and the reader, but no *)
(* procedure that plans and executes a recovery: Prepare and the order of  *)
(* its two calls are taken from how the tests start a generation.          *)
(*                                                                         *)
(* One task; its rows are those of audit_events and the audit part of its  *)
(* task_states row.  The states a task moves between are TaskLifecycle's.  *)
(* Records that a validator only compares with a copy of themselves, as    *)
(* details.audit_generation is one of the event's own fields, are kept     *)
(* once.  A hash stands for the content of one event.                      *)
(***************************************************************************)
EXTENDS Naturals

CONSTANTS Hashes,   \* event hashes
          Ids,      \* event ids, which name a sequence number and repeat
          None      \* null

VARIABLES
    rows,      \* audit_events
    current,   \* the audit head in the task_states row
    plan,      \* the accepted recovery transaction in progress, or None
    appended   \* whether its start event has been appended

vars == <<rows, current, plan, appended>>

Positive == Nat \ {0}

Starting == {"quarantine_and_start_generation", "rollback_to_valid_prefix"}
Actions == Starting \cup {"replay", "classify_threat_model_limit"}

StartType(action) ==
    IF action = "rollback_to_valid_prefix" THEN "ROLLBACK_RECORDED"
                                           ELSE "RECOVERY_RECORDED"
OperationKind(action) ==
    IF action = "rollback_to_valid_prefix" THEN "ROLLBACK" ELSE "RECOVERY"

RecoveryTypes == {"RECOVERY_RECORDED", "ROLLBACK_RECORDED"}
EventTypes == RecoveryTypes \cup {"TASK_CREATED", "TRANSITION_ACCEPTED"}

\* previous_trusted_prefix: the last event a recovery trusts.
Prefixes == [generation : Positive, sequence : Positive, id : Ids, hash : Hashes]

Events == [generation : Positive, sequence : Positive, type : EventTypes, id : Ids,
           hash : Hashes, previous : Hashes \cup {None}, prefix : Prefixes \cup {None}]

Heads == [generation : Positive, id : Ids, hash : Hashes]

HeadOf(e) == [generation |-> e.generation, id |-> e.id, hash |-> e.hash]
PrefixOf(e) == [generation |-> e.generation, sequence |-> e.sequence,
                id |-> e.id, hash |-> e.hash]

-----------------------------------------------------------------------------
(* The contracts.                                                          *)

\* validate_audit_event, with its audit generation.
ValidEvent(e) ==
    /\ e.sequence = 1 <=> e.previous = None
    /\ e.type = "TASK_CREATED" =>
           e.generation = 1 /\ e.sequence = 1 /\ e.prefix = None
    /\ e.type = "TRANSITION_ACCEPTED" => e.sequence # 1 /\ e.prefix = None
    /\ e.type \in RecoveryTypes =>
           e.generation # 1 /\ e.sequence = 1 /\ e.prefix # None

\* An idempotency record's part that is not a copy of the request or the result.
Records == [kind : {"RECOVERY", "ROLLBACK"}, path : {"recovery", "rollback"}]

\* A recovery transaction: request, result, diagnostic and planned artifacts.
Transactions ==
    [action : Actions, kind : {"RECOVERY", "ROLLBACK"},
     accepted : BOOLEAN, failClosed : BOOLEAN,
     newGeneration : Positive \cup {None}, startedBy : Ids \cup {None},
     prefix : Prefixes, quarantined : BOOLEAN,
     event : Events \cup {None}, state : Heads \cup {None},
     record : Records \cup {None}]

\* validate_recovery_result.
ValidResult(t) ==
    IF t.accepted THEN ~ t.failClosed /\ (t.newGeneration # None => t.startedBy # None)
                  ELSE t.failClosed /\ t.newGeneration = None /\ t.startedBy = None

\* The artifact matrix.  Its rows for results that are neither accepted nor
\* fail-closed are never reached.
FitsMatrix(t) ==
    LET starts == t.accepted /\ t.action \in Starting
    IN  /\ t.quarantined = starts
        /\ (t.event # None) = starts
        /\ (t.state # None) = starts
        /\ (t.record # None) = t.accepted

\* The operation graph and what validate_recovery_transaction compares itself.
FitsGraph(t) ==
    /\ t.kind = OperationKind(t.action)
    /\ t.accepted /\ t.action \notin Starting =>
           t.newGeneration = None /\ t.startedBy = None
    /\ t.event # None =>
           /\ ValidEvent(t.event)
           /\ t.event.type = StartType(t.action)
           /\ t.event.prefix = t.prefix
           /\ t.startedBy = t.event.id
           /\ t.newGeneration = t.event.generation
           /\ t.newGeneration = t.prefix.generation + 1
           /\ t.state # None => t.state = HeadOf(t.event)
    /\ t.record # None => t.record = [kind |-> t.kind, path |-> "recovery"]

ValidTransaction(t) == ValidResult(t) /\ FitsMatrix(t) /\ FitsGraph(t)

\* What write_idempotency_record_once demands of the record's transaction path.
StorablePath(r) == r.path = (IF r.kind = "ROLLBACK" THEN "rollback" ELSE "recovery")

-----------------------------------------------------------------------------
(* The reader: _trusted_audit_lineage.                                     *)

At(d, g, k) == d.generation = g /\ d.sequence = k

\* The rows of generation g are one chain up to row n, which is the first with the
\* expected hash and has the expected id.
ChainEnds(g, n, id, hash) ==
    /\ \A k \in 1..n : \E d \in rows :
          /\ At(d, g, k)
          /\ IF k = 1 THEN d.previous = None
                      ELSE \E c \in rows : At(c, g, k - 1) /\ d.previous = c.hash
    /\ \E d \in rows : At(d, g, n) /\ d.hash = hash /\ d.id = id
    /\ \A d \in rows : d.generation = g /\ d.sequence < n => d.hash # hash

\* The reader returns: from the current head, which is the last row of its
\* generation, it goes back from generation to generation to the first one.
\* ends[g] is where it stops in generation g; 0 if it does not come by.
Readable ==
    LET last == current.generation
    IN  \E ends \in [1..last -> Nat] :
          /\ ends[last] # 0
          /\ ChainEnds(last, ends[last], current.id, current.hash)
          /\ \A d \in rows : d.generation = last => d.sequence <= ends[last]
          /\ \A g \in 1..last : ends[g] # 0 =>
                \E s \in rows :
                   /\ At(s, g, 1)
                   /\ IF s.prefix = None THEN g = 1
                      ELSE /\ s.prefix.generation < g
                           /\ ends[s.prefix.generation] = s.prefix.sequence
                           /\ ChainEnds(s.prefix.generation, s.prefix.sequence,
                                        s.prefix.id, s.prefix.hash)

\* The events the reader returns.
InLineage(e) ==
    \/ e.generation = current.generation
    \/ /\ e.generation < current.generation
       /\ \E s \in rows : At(s, e.generation + 1, 1) /\ e.sequence <= s.prefix.sequence

-----------------------------------------------------------------------------
(* The store.                                                              *)

\* A hash no other event has.
Fresh(h) == /\ \A d \in rows : d.hash # h
            /\ plan # None => plan.event.hash # h

Created(i, h) == [generation |-> 1, sequence |-> 1, type |-> "TASK_CREATED", id |-> i,
                  hash |-> h, previous |-> None, prefix |-> None]

\* Intake has committed the first event.
Init ==
    /\ \E i \in Ids, h \in Hashes :
          /\ rows = {Created(i, h)}
          /\ current = HeadOf(Created(i, h))
    /\ plan = None
    /\ appended = FALSE

\* The last row of the current generation is the head.
IsTail(d) == /\ HeadOf(d) = current
             /\ \A e \in rows : e.generation = d.generation => e.sequence <= d.sequence

\* commit_task_state_and_audit: the event succeeds the authoritative head.
Commit ==
    /\ \E d \in rows, i \in Ids, h \in Hashes :
          /\ IsTail(d)
          /\ Fresh(h)
          /\ LET e == [generation |-> d.generation, sequence |-> d.sequence + 1,
                       type |-> "TRANSITION_ACCEPTED", id |-> i, hash |-> h,
                       previous |-> d.hash, prefix |-> None]
             IN  rows' = rows \cup {e} /\ current' = HeadOf(e)
    /\ UNCHANGED <<plan, appended>>

\* A recovery is planned from an event of the trusted lineage; only one that
\* starts a generation writes rows.
Prepare ==
    /\ plan = None
    /\ \E t \in Transactions :
          /\ ValidTransaction(t) /\ t.accepted /\ t.action \in Starting
          /\ \E d \in rows : InLineage(d) /\ t.prefix = PrefixOf(d)
          /\ Fresh(t.event.hash)
          /\ plan' = t
    /\ UNCHANGED <<rows, current, appended>>

\* append_audit_event: a coordinate that is taken is an error.
Append ==
    /\ plan # None /\ ~ appended
    /\ IF \E d \in rows : At(d, plan.event.generation, plan.event.sequence)
       THEN plan' = None /\ UNCHANGED <<rows, appended>>
       ELSE rows' = rows \cup {plan.event} /\ appended' = TRUE /\ UNCHANGED plan
    /\ UNCHANGED current

\* write_task_state: whatever the row was, it becomes the planned one.
WriteState ==
    /\ plan # None /\ appended
    /\ current' = plan.state
    /\ plan' = None /\ appended' = FALSE
    /\ UNCHANGED rows

\* The recovery dies, or gives up, between its calls.
Abandon ==
    /\ plan # None
    /\ plan' = None /\ appended' = FALSE
    /\ UNCHANGED <<rows, current>>

\* A dead recovery is taken up again: the artifact matrix has a start event that is on
\* disk as planned, before its phase is recorded, reconciled and not appended again.
\* Assumed of the executor: it does not take up a recovery whose generation has begun.
Resume ==
    /\ plan = None
    /\ \E t \in Transactions \ {None} :
          /\ ValidTransaction(t) /\ t.accepted /\ t.action \in Starting
          /\ t.event \in rows
          /\ t.event.generation = current.generation + 1
          /\ plan' = t
    /\ appended' = TRUE
    /\ UNCHANGED <<rows, current>>

Next == Commit \/ Prepare \/ Append \/ WriteState \/ Abandon \/ Resume

Spec == Init /\ [][Next]_vars

-----------------------------------------------------------------------------
\* AC-013 in part: whatever commits and recoveries do, also one that dies half-way,
\* the reader finds a trusted lineage from the current head to generation one.
LineageReadable == Readable

\* A recovery that gets as far as its start event goes back to an event of the
\* current generation: a rollback into an earlier one finds its coordinate taken.
RollbackStaysInGeneration == appended => plan.prefix.generation = current.generation

\* The first start event that append_audit_event takes decides the next generation:
\* as long as its state row is not written, be its recovery at work, dead or taken up
\* again, no other recovery gets its own start event in, and the task stays in its
\* generation until it enters the one of this very event.
StartEventDecides ==
    [][\A o \in rows : o.generation = current.generation + 1 =>
          /\ \A e \in rows' : e.generation = o.generation => e = o
          /\ current'.generation = current.generation \/ current' = HeadOf(o)]_vars

\* A committed event leaves the trusted lineage only because a recovery trusts an
\* earlier event of its generation, be it planned before the commit or after.
OnlyRecoveryDrops ==
    [][\A e \in rows : InLineage(e) =>
          \/ InLineage(e)'
          \/ /\ appended
             /\ e.generation = plan.prefix.generation
             /\ e.sequence > plan.prefix.sequence]_vars
===============================================================================
