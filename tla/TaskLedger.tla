------------------------------ MODULE TaskLedger ------------------------------
(***************************************************************************)
(* How WorkflowEngine.intake and WorkflowEngine.advance write a task, and  *)
(* how WorkflowStore.commit_task_state_and_audit and                       *)
(* write_idempotency_record_once commit and export it.                     *)
(*                                                                         *)
(* Neither call takes a lock: an engine reads the state row, then the      *)
(* audit rows, prepares an event, and the commit checks under              *)
(* BEGIN IMMEDIATE that the event still succeeds the head.  SQLite rows    *)
(* are committed together; audit.jsonl, state.json, the idempotency        *)
(* exports and intake.json are written after the commit, one by one.       *)
(*                                                                         *)
(* An event's hash chain fixes everything before it, so an event is its    *)
(* history: the contents of all events up to it.  Front(history) is its    *)
(* previous_event_hash, and a state row is the history of its audit head.  *)
(* Its sequence number is stored apart, as in the code.  Two requests are  *)
(* the same content when they would be byte-identical, timestamps too.     *)
(***************************************************************************)
EXTENDS Naturals, Sequences

CONSTANTS Engines,   \* processes that run a WorkflowEngine on the state root
          Tasks,
          Intakes,   \* contents of an intake
          Moves,     \* contents of a transition
          None,      \* no row, no file, no task
          MaxEvents, \* bound: no transition is prepared beyond it
          CanCrash   \* whether engines crash

ASSUME TaskLedgerAssumption ==
    /\ Intakes \cap Moves = {}
    /\ None \notin Intakes \cup Moves \cup Tasks
    /\ MaxEvents \in Nat
    /\ CanCrash \in BOOLEAN

VARIABLES
    events,     \* audit_events: task -> sequence of [seq, hist]
    row,        \* task_states: task -> history of the audit head, or <<>>
    proof,      \* idempotency_records of the initialization
    lines,      \* audit.jsonl: the exported events, in file order
    stateFile,  \* state.json
    proofFile,  \* the exported idempotency record and canonical request
    intakeFile, \* intake.json
    pc, task, request,
    head,       \* the state the engine read: history of its audit head
    event,      \* the event the engine prepared
    outcome     \* how the engine's last call ended

dbVars   == <<events, row, proof>>
fileVars == <<lines, stateFile, proofFile, intakeFile>>
callVars == <<task, request, head, event>>
vars == <<dbVars, fileVars, pc, callVars, outcome>>

Contents == Intakes \cup Moves
Histories == Seq(Contents)
Events == [seq : Nat, hist : Histories]
NoEvent == [seq |-> 0, hist |-> <<>>]

Front1(h) == SubSeq(h, 1, Len(h) - 1)

PCs == {"idle", "exists", "prove", "proofFile", "audit", "commit", "line",
        "append", "state", "intake"}
Outcomes == {"none", "done", "noProof", "otherIntake", "refused",
             "duplicateLine", "crashed"}

Init ==
    /\ events = [t \in Tasks |-> <<>>]
    /\ row = [t \in Tasks |-> <<>>]
    /\ proof = [t \in Tasks |-> None]
    /\ lines = [t \in Tasks |-> <<>>]
    /\ stateFile = [t \in Tasks |-> <<>>]
    /\ proofFile = [t \in Tasks |-> None]
    /\ intakeFile = [t \in Tasks |-> None]
    /\ pc = [p \in Engines |-> "idle"]
    /\ task = [p \in Engines |-> None]
    /\ request = [p \in Engines |-> None]
    /\ head = [p \in Engines |-> <<>>]
    /\ event = [p \in Engines |-> NoEvent]
    /\ outcome = [p \in Engines |-> "none"]

-----------------------------------------------------------------------------
Goto(p, l) == pc' = [pc EXCEPT ![p] = l]

\* The call ends: its locals are gone.
Return(p, how) ==
    /\ Goto(p, "idle")
    /\ task' = [task EXCEPT ![p] = None]
    /\ request' = [request EXCEPT ![p] = None]
    /\ head' = [head EXCEPT ![p] = <<>>]
    /\ event' = [event EXCEPT ![p] = NoEvent]
    /\ outcome' = [outcome EXCEPT ![p] = how]

Raise(p, how) == Return(p, how) /\ UNCHANGED <<dbVars, fileVars>>

Begin(p, t, r) ==
    /\ pc[p] = "idle"
    /\ task' = [task EXCEPT ![p] = t]
    /\ request' = [request EXCEPT ![p] = r]
    /\ outcome' = [outcome EXCEPT ![p] = "none"]

-----------------------------------------------------------------------------
(* WorkflowEngine.intake.                                                  *)

\* The initialization proof is read first; without one the task is looked up.
IntakeReadProof(p, t, i) ==
    /\ Begin(p, t, i)
    /\ Goto(p, IF proof[t] = None THEN "exists" ELSE "prove")
    /\ event' = [event EXCEPT ![p] = [seq |-> 1, hist |-> <<i>>]]
    /\ UNCHANGED <<dbVars, fileVars, head>>

\* A task without a proof is reported as corrupt.
IntakeTaskExists(p) ==
    /\ pc[p] = "exists"
    /\ IF row[task[p]] = <<>>
       THEN /\ Goto(p, "prove")
            /\ UNCHANGED <<dbVars, fileVars, callVars, outcome>>
       ELSE Raise(p, "noProof")

\* Mutation: the existing record is not compared with the request.
SameProofUnchecked(p) == proof[task[p]] # None

\* The stored record carries the identity of this request.
SameProof(p) == proof[task[p]] = request[p]

\* write_idempotency_record_once: an equal record is returned at once, without
\* its exports; a different one is a conflict; else the row is inserted.
WriteProof(p) ==
    LET t == task[p] IN
    /\ pc[p] = "prove"
    /\ \/ /\ proof[t] = None
          /\ proof' = [proof EXCEPT ![t] = request[p]]
          /\ Goto(p, "proofFile")
          /\ UNCHANGED <<events, row, fileVars, callVars, outcome>>
       \/ /\ proof[t] # None
          /\ SameProof(p)
          /\ Goto(p, "commit")
          /\ UNCHANGED <<dbVars, fileVars, callVars, outcome>>
       \/ /\ proof[t] # None
          /\ ~ SameProof(p)
          /\ Raise(p, "otherIntake")

ExportProof(p) ==
    /\ pc[p] = "proofFile"
    /\ proofFile' = [proofFile EXCEPT ![task[p]] = request[p]]
    /\ Goto(p, "commit")
    /\ UNCHANGED <<dbVars, lines, stateFile, intakeFile, callVars, outcome>>

-----------------------------------------------------------------------------
(* WorkflowEngine.advance: _prepare_transition_validation.                 *)

\* status(): the state row.
ReadStatus(p, t, m) ==
    /\ row[t] # <<>>
    /\ Len(row[t]) < MaxEvents
    /\ Begin(p, t, m)
    /\ head' = [head EXCEPT ![p] = row[t]]
    /\ Goto(p, "audit")
    /\ UNCHANGED <<dbVars, fileVars, event>>

\* audit(): the rows, in another snapshot; sequence = len(events) + 1.
ReadAudit(p) ==
    /\ pc[p] = "audit"
    /\ event' = [event EXCEPT ![p] =
                    [seq |-> Len(events[task[p]]) + 1,
                     hist |-> Append(head[p], request[p])]]
    /\ Goto(p, "commit")
    /\ UNCHANGED <<dbVars, fileVars, task, request, head, outcome>>

-----------------------------------------------------------------------------
(* WorkflowStore.commit_task_state_and_audit.                              *)

\* Mutation: only the sequence number is compared with the head.
SucceedsBySequence(e, t) == e.seq = Len(events[t]) + 1

\* _validate_authoritative_predecessor.
Succeeds(e, t) ==
    IF row[t] = <<>>
    THEN events[t] = <<>> /\ e.seq = 1 /\ Len(e.hist) = 1
    ELSE /\ Len(e.hist) > 1
         /\ e.seq = Len(events[t]) + 1
         /\ Front1(e.hist) = row[t]
         /\ events[t] # <<>>
         /\ events[t][Len(events[t])].hist = row[t]

\* Mutation: the first free coordinate counts as taken.
OccupiedOffByOne(e, t) == e.seq \in 1..(Len(events[t]) + 1)

\* The coordinate of the event has a row already.
Occupied(e, t) == e.seq \in 1..Len(events[t])

\* The very event and state are committed already.
Replayed(e, t) ==
    /\ Occupied(e, t)
    /\ \E n \in 1..Len(events[t]) : n = e.seq /\ events[t][n] = e
    /\ row[t] = e.hist

Commit(p) ==
    LET t == task[p]
        e == event[p] IN
    /\ pc[p] = "commit"
    /\ \/ /\ Replayed(e, t)
          /\ Goto(p, "line")
          /\ UNCHANGED <<dbVars, fileVars, callVars, outcome>>
       \/ /\ ~ Occupied(e, t)
          /\ Succeeds(e, t)
          /\ events' = [events EXCEPT ![t] = Append(@, e)]
          /\ row' = [row EXCEPT ![t] = e.hist]
          /\ Goto(p, "line")
          /\ UNCHANGED <<proof, fileVars, callVars, outcome>>
       \/ /\ ~ Replayed(e, t)
          /\ Occupied(e, t) \/ ~ Succeeds(e, t)
          /\ Raise(p, "refused")

\* Mutation: the export starts before the transaction has committed.
ExportsEarly(p) == pc[p] \in {"commit", "line"}

ExportsNow(p) == pc[p] = "line"

TimesExported(h, t) == {n \in 1..Len(lines[t]) : lines[t][n] = h}

\* _ensure_audit_export_line: the file is read, then appended to.
CheckLine(p) ==
    LET found == TimesExported(event[p].hist, task[p]) IN
    /\ ExportsNow(p)
    /\ \/ /\ found = {}
          /\ Goto(p, "append")
          /\ UNCHANGED <<dbVars, fileVars, callVars, outcome>>
       \/ /\ \E n \in found : found = {n}
          /\ Goto(p, "state")
          /\ UNCHANGED <<dbVars, fileVars, callVars, outcome>>
       \/ /\ \E n, k \in found : n # k
          /\ Raise(p, "duplicateLine")

\* Mutations: O_APPEND is missing, the file is started again; and the request
\* is written where the event belongs.
Truncated(s, h) == <<h>>
RequestAppended(s, h) == Append(s, h[Len(h)])

\* O_APPEND.
Appended(s, h) == Append(s, h)

AppendLine(p) ==
    /\ pc[p] = "append"
    /\ lines' = [lines EXCEPT ![task[p]] = Appended(@, event[p].hist)]
    /\ Goto(p, "state")
    /\ UNCHANGED <<dbVars, stateFile, proofFile, intakeFile, callVars, outcome>>

\* write_state_atomic; an advance ends here.
WriteState(p) ==
    /\ pc[p] = "state"
    /\ stateFile' = [stateFile EXCEPT ![task[p]] = event[p].hist]
    /\ IF request[p] \in Intakes
       THEN Goto(p, "intake") /\ UNCHANGED <<callVars, outcome>>
       ELSE Return(p, "done")
    /\ UNCHANGED <<dbVars, lines, proofFile, intakeFile>>

WriteIntake(p) ==
    /\ pc[p] = "intake"
    /\ intakeFile' = [intakeFile EXCEPT ![task[p]] = request[p]]
    /\ Return(p, "done")
    /\ UNCHANGED <<dbVars, lines, stateFile, proofFile>>

\* The process dies: committed rows and written files stay.
Crash(p) ==
    /\ CanCrash
    /\ pc[p] # "idle"
    /\ Raise(p, "crashed")

-----------------------------------------------------------------------------
Next ==
    \E p \in Engines :
        \/ \E t \in Tasks, i \in Intakes : IntakeReadProof(p, t, i)
        \/ \E t \in Tasks, m \in Moves : ReadStatus(p, t, m)
        \/ IntakeTaskExists(p)
        \/ WriteProof(p)
        \/ ExportProof(p)
        \/ ReadAudit(p)
        \/ Commit(p)
        \/ CheckLine(p)
        \/ AppendLine(p)
        \/ WriteState(p)
        \/ WriteIntake(p)
        \/ Crash(p)

Spec == Init /\ [][Next]_vars

-----------------------------------------------------------------------------
TypeOK ==
    /\ events \in [Tasks -> Seq(Events)]
    /\ row \in [Tasks -> Histories]
    /\ proof \in [Tasks -> Intakes \cup {None}]
    /\ lines \in [Tasks -> Seq(Histories)]
    /\ stateFile \in [Tasks -> Histories]
    /\ proofFile \in [Tasks -> Intakes \cup {None}]
    /\ intakeFile \in [Tasks -> Intakes \cup {None}]
    /\ pc \in [Engines -> PCs]
    /\ task \in [Engines -> Tasks \cup {None}]
    /\ request \in [Engines -> Contents \cup {None}]
    /\ head \in [Engines -> Histories]
    /\ event \in [Engines -> Events]
    /\ outcome \in [Engines -> Outcomes]

IsPrefix1(g, h) == Len(g) <= Len(h) /\ g = SubSeq(h, 1, Len(g))

\* The audit rows of a task form one hash chain that ends in its state row,
\* although sequence number and previous hash are read in different snapshots:
\* _validate_authoritative_predecessor lets no lost update through.
ChainIntact ==
    \A t \in Tasks :
        /\ Len(row[t]) = Len(events[t])
        /\ \A n \in 1..Len(events[t]) :
              events[t][n] = [seq |-> n, hist |-> SubSeq(row[t], 1, n)]

\* audit.jsonl and state.json never show an event or a state that SQLite has
\* not committed, nor intake.json an intake other than the recorded one.
ExportsAreCommitted ==
    \A t \in Tasks :
        /\ \A n \in 1..Len(lines[t]) : IsPrefix1(lines[t][n], row[t])
        /\ IsPrefix1(stateFile[t], row[t])
        /\ intakeFile[t] # None => row[t] # <<>> /\ row[t][1] = intakeFile[t]

\* The recorded initialization request is the one the task began with.
ProofMatchesHistory ==
    \A t \in Tasks : row[t] # <<>> => proof[t] = row[t][1]

\* A call past its audit line has it in audit.jsonl, whatever others append.
CallsHaveLines ==
    \A p \in Engines :
        pc[p] \in {"state", "intake"} => TimesExported(event[p].hist, task[p]) # {}

\* The files that a call writes last: each shows an event that has its line.
FilesHaveLines ==
    \A t \in Tasks :
        /\ stateFile[t] # <<>> => TimesExported(stateFile[t], t) # {}
        /\ intakeFile[t] # None => TimesExported(<<intakeFile[t]>>, t) # {}

\* What state.json and intake.json show is in audit.jsonl, however long ago the call
\* returned that wrote them and whoever has appended, crashed or replayed since; and
\* so is the event of a call that is about to write them.
AcceptedEventIsExported == CallsHaveLines /\ FilesHaveLines

\* A commit is refused only because another one came first: when nobody else
\* has extended the task since its state was read, the caller is not refused.
RefusedMeansOvertaken ==
    [][\A p \in Engines :
          pc[p] = "commit" /\ outcome'[p] = "refused" => row[task[p]] # head[p]]_vars

\* The history SQLite holds, as TaskHistory describes it.
TH == INSTANCE TaskHistory WITH history <- row

ImplementsTaskHistory == TH!Spec
=============================================================================
