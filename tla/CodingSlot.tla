------------------------------ MODULE CodingSlot ------------------------------
(***************************************************************************)
(* The coding slot of a gate: acgps/workflow_store.py keeps the two-attempt*)
(* budget and the candidates of a gate in one file, slot.json;             *)
(* acgps/coding_execution.py decides from a snapshot of it whether an      *)
(* attempt may start and derives the record the attempt ends with.         *)
(*                                                                         *)
(* A controller reads the slot without a lock, evaluates the prelaunch     *)
(* gates on what it read, reserves an attempt, runs the agent process, and *)
(* publishes a record built from the old snapshot and the reservation.     *)
(* Each of reserve, publish and retire takes the gate's task lock, reads   *)
(* the file, checks what it read, validates the result and replaces the    *)
(* file.  The lock is the one AuthorityLock models, here by its            *)
(* abstraction TaskMutex: taken only when free, and orphaned for ever when *)
(* its holder vanishes.                                                    *)
(*                                                                         *)
(* Hashes, timestamps and process output are abstracted to what the checks *)
(* tell apart.  Reservation times are distinct by their attempt numbers.   *)
(***************************************************************************)
EXTENDS Naturals, FiniteSets

CONSTANTS Controllers, \* processes that drive attempts
          Candidates,  \* candidate ids
          Bindings,    \* identities of packet, baseline, executor, capabilities
          None,
          Orphaned,    \* the lock of a vanished holder
          MaxHolds,    \* bound: prelaunch HOLD records that are published
          CanCrash     \* whether controllers vanish

ASSUME CodingSlotAssumption ==
    /\ None \notin Candidates \cup Bindings \cup Controllers
    /\ Orphaned \notin Controllers \cup {None}
    /\ MaxHolds \in Nat
    /\ CanCrash \in BOOLEAN

VARIABLES
    slot,     \* slot.json
    lock,     \* the task lock of the gate: a controller, None or Orphaned
    pc,       \* what each controller does next
    seen,     \* the slot as a call has read it under the lock, or None
    view,     \* the snapshot of the slot a controller decides from
    binding,  \* the identity of what it is about to run
    job,      \* the record it is about to publish, or only its reservation
    outcome   \* how its last call ended

callVars == <<view, binding, job>>
lockVars == <<lock, seen>>
vars == <<slot, lockVars, pc, callVars, outcome>>

SlotStates == {"EMPTY", "FROZEN_REVIEW_V1", "EMPTY_FOR_REMEDIATION",
               "FROZEN_REVIEW_V2"}
Kinds == {"ORDINARY", "REMEDIATION"}
AttemptOutcomes == {"CANDIDATE_READY", "ATTEMPT_HOLD", "ATTEMPT_FAILED"}

\* reserved_attempt: remaining_before is 3 - number, remaining_after 2 - number.
Reservations == [number : 1..2, kind : Kinds, parent : Candidates \cup {None}]

ASSUME ReservationAssumption == None \notin Reservations

\* What the checks compare of a slot, before and after an attempt.
Faces == [state : SlotStates, active : Candidates \cup {None},
          historical : SUBSET Candidates]
Face(s) == [state |-> s.state, active |-> s.active, historical |-> s.historical]

\* A record: PRELAUNCH_HOLD records have no attempt, remaining is their budget.
Records == [id : Controllers \X Nat,
            attempt : Reservations \cup {None}, remaining : 0..2,
            before : Faces, outcome : AttemptOutcomes \cup {"PRELAUNCH_HOLD"},
            candidate : Candidates \cup {None}, binding : Bindings]

\* initialize_coding_execution_slot.
EmptySlot == [gate |-> None, state |-> "EMPTY", remaining |-> 2,
              active |-> None, historical |-> {}, reserved |-> None,
              records |-> {}]

Init ==
    /\ slot = EmptySlot
    /\ lock = None
    /\ seen = [c \in Controllers |-> None]
    /\ pc = [c \in Controllers |-> "idle"]
    /\ view = [c \in Controllers |-> EmptySlot]
    /\ binding \in [Controllers -> Bindings]
    /\ job = [c \in Controllers |-> None]
    /\ outcome = [c \in Controllers |-> "none"]

-----------------------------------------------------------------------------
Goto(c, l) == pc' = [pc EXCEPT ![c] = l]
Report(c, how) == outcome' = [outcome EXCEPT ![c] = how]

\* Execution ids are new for every record a controller builds.
FreshId(c) == <<c, Cardinality({r \in slot.records : r.id[1] = c})>>

Ready(s) == {r \in s.records : r.outcome = "CANDIDATE_READY"}

\* _validate_coding_execution_state: what every read and write checks.
Valid(s) ==
    /\ s.state \in {"EMPTY", "EMPTY_FOR_REMEDIATION"} => s.active = None
    /\ s.state \in {"FROZEN_REVIEW_V1", "FROZEN_REVIEW_V2"} => s.active # None
    /\ s.active \notin s.historical
    /\ s.reserved # None => s.reserved.number = 2 - s.remaining
    /\ \A r \in s.records : r.attempt # None => r.binding = s.gate
    /\ Cardinality({r \in s.records : r.attempt # None})
         + (IF s.reserved = None THEN 0 ELSE 1) = 2 - s.remaining
    /\ \A q, r \in Ready(s) : q.candidate = r.candidate => q = r
    /\ ({s.active} \ {None}) \cup s.historical \subseteq {r.candidate : r \in Ready(s)}

-----------------------------------------------------------------------------
(* evaluate_prelaunch.                                                     *)

\* read_coding_execution_slot: no lock.
ReadSlot(c) ==
    /\ pc[c] = "idle"
    /\ view' = [view EXCEPT ![c] = slot]
    /\ binding' \in [Controllers -> Bindings]
    /\ \A d \in Controllers \ {c} : binding'[d] = binding[d]
    /\ Goto(c, "preflight")
    /\ Report(c, "none")
    /\ UNCHANGED <<slot, lockVars, job>>

\* Gate P1, for an ordinary and for a remediation attempt.
P1Ordinary(s) ==
    s.state = "EMPTY" /\ s.remaining \in 1..2 /\ s.active = None /\ s.reserved = None
P1Remediation(s) ==
    /\ s.state = "EMPTY_FOR_REMEDIATION" /\ s.remaining = 1 /\ s.active = None
    /\ s.reserved = None
    /\ Cardinality(s.historical) = 1

KindFor(s) == IF P1Ordinary(s) THEN "ORDINARY" ELSE "REMEDIATION"
ParentFor(s) == IF P1Ordinary(s) THEN None
                                 ELSE CHOOSE p \in s.historical : TRUE

\* All seven gates pass: the controller will reserve.
PreflightPasses(c) ==
    /\ pc[c] = "preflight"
    /\ P1Ordinary(view[c]) \/ P1Remediation(view[c])
    /\ Goto(c, "reserve")
    /\ UNCHANGED <<slot, lockVars, callVars, outcome>>

\* build_prelaunch_hold_record: some gate failed, P1 or another.
PreflightHolds(c) ==
    /\ pc[c] = "preflight"
    /\ Cardinality({r \in slot.records : r.attempt = None}) < MaxHolds
    /\ job' = [job EXCEPT ![c] =
                  [id |-> FreshId(c), attempt |-> None,
                   remaining |-> view[c].remaining, before |-> Face(view[c]),
                   outcome |-> "PRELAUNCH_HOLD", candidate |-> None,
                   binding |-> binding[c]]]
    /\ Goto(c, "publish")
    /\ UNCHANGED <<slot, lockVars, view, binding, outcome>>

-----------------------------------------------------------------------------
(* The gate's lock around reserve, publish and retire.  A contended        *)
(* acquisition raises and the controller calls again.                      *)

LockedCalls == {"reserve", "publish", "retire"}

\* Mutation: the lock is not looked at.
LockIgnored == TRUE
LockFree == lock = None

\* The lock is acquired and the file is read.
Lock(c) ==
    /\ pc[c] \in LockedCalls
    /\ seen[c] = None
    /\ LockFree
    /\ lock' = c
    /\ seen' = [seen EXCEPT ![c] = slot]
    /\ UNCHANGED <<slot, pc, callVars, outcome>>

\* The call ends one way or the other and releases its lock.
Unlock(c) ==
    /\ seen[c] # None
    /\ lock' = IF lock = c THEN None ELSE lock
    /\ seen' = [seen EXCEPT ![c] = None]

\* The file is replaced when the new state validates; otherwise nothing is
\* written and the error says that the state is corrupt.
Write(c, s, l, how) ==
    IF Valid(s)
    THEN slot' = s /\ Goto(c, l) /\ Report(c, how)
    ELSE slot' = slot /\ Goto(c, "idle") /\ Report(c, "corrupt")

Refuse(c) ==
    /\ Goto(c, "idle")
    /\ Report(c, "refused")
    /\ job' = [job EXCEPT ![c] = None]
    /\ UNCHANGED <<slot, view, binding>>

\* Mutations: the budget is taken from the snapshot that the prelaunch gates saw;
\* and an ordinary attempt is granted in any state of the slot.
MayReserveOverBudget(c) ==
    /\ seen[c].reserved = None
    /\ KindFor(view[c]) = "ORDINARY" /\ seen[c].state = "EMPTY"
MayReserveAnyState(c) ==
    /\ seen[c].reserved = None
    /\ seen[c].remaining > 0

MayReserve(c) ==
    /\ seen[c].reserved = None
    /\ seen[c].remaining > 0
    /\ \/ KindFor(view[c]) = "ORDINARY" /\ seen[c].state = "EMPTY"
       \/ /\ KindFor(view[c]) = "REMEDIATION"
          /\ seen[c].state = "EMPTY_FOR_REMEDIATION" /\ seen[c].remaining = 1
          /\ ParentFor(view[c]) \in seen[c].historical

\* reserve_coding_execution_attempt.
Reserve(c) ==
    LET attempt == [number |-> 3 - seen[c].remaining, kind |-> KindFor(view[c]),
                    parent |-> ParentFor(view[c])] IN
    /\ pc[c] = "reserve"
    /\ Unlock(c)
    /\ \/ /\ MayReserve(c)
          /\ Write(c, [seen[c] EXCEPT !.remaining = @ - 1, !.reserved = attempt],
                   "running", "reserved")
          /\ job' = [job EXCEPT ![c] = attempt]
          /\ UNCHANGED <<view, binding>>
       \/ /\ ~ MayReserve(c)
          /\ Refuse(c)

-----------------------------------------------------------------------------
(* run_bounded_process and build_completed_attempt_record.                 *)

\* How the observations add up: the process ended well or not, the agent
\* claims DONE, BLOCKED or FAILED, and events, rows and clone reconcile or not.
DerivedOutcome(processOk, claim, reconciled) ==
    CASE processOk /\ claim = "DONE" /\ reconciled -> "CANDIDATE_READY"
      [] ~ processOk \/ claim = "FAILED"           -> "ATTEMPT_FAILED"
      [] OTHER                                     -> "ATTEMPT_HOLD"

\* The process has ended; the record carries the old snapshot, and a candidate id of
\* the caller's choice, be it in use or not.
FinishWith(c, ok) ==
    /\ pc[c] = "running"
    /\ \E reconciled \in BOOLEAN, claim \in {"DONE", "BLOCKED", "FAILED"}, k \in Candidates :
          LET result == DerivedOutcome(ok, claim, reconciled) IN
          /\ job' = [job EXCEPT ![c] =
                        [id |-> FreshId(c), attempt |-> @,
                         remaining |-> 2 - @.number, before |-> Face(view[c]),
                         outcome |-> result,
                         candidate |-> IF result = "CANDIDATE_READY" THEN k ELSE None,
                         binding |-> binding[c]]]
    /\ Goto(c, "publish")
    /\ UNCHANGED <<slot, lockVars, view, binding, outcome>>

Finish(c) == \E ok \in BOOLEAN : FinishWith(c, ok)

\* run_bounded_process raised, or the clone has another commit, tree or git
\* control directory than before, or changed paths that no patch row covers:
\* whatever outcome is derived, the contract of the record refuses it, and the
\* reservation has no record.
Unrecordable(c) ==
    /\ pc[c] = "running"
    /\ Goto(c, "idle")
    /\ Report(c, "unrecordable")
    /\ job' = [job EXCEPT ![c] = None]
    /\ UNCHANGED <<slot, lockVars, view, binding>>

-----------------------------------------------------------------------------
(* publish_coding_execution_record.                                        *)

\* Mutation: a record is not looked for among those published.
NeverPublished(s, r) == FALSE

\* The very record is there already: a repeated call.
Published(s, r) == r \in s.records

\* Reserved attempts all run the packet, baseline and executor of the first.
SameGate(s, r) == s.gate \in {None, r.binding}

Fits(s, r) ==
    /\ r.before = Face(s)
    /\ IF r.attempt = None
       THEN s.reserved = None /\ r.remaining = s.remaining
       ELSE SameGate(s, r) /\ s.reserved = r.attempt

\* The states a record of an attempt leaves.
StateAfter(s, r) ==
    IF r.outcome # "CANDIDATE_READY" THEN s.state
    ELSE IF r.attempt.kind = "REMEDIATION" THEN "FROZEN_REVIEW_V2"
    ELSE "FROZEN_REVIEW_V1"
ActiveAfter(s, r) ==
    IF r.outcome = "CANDIDATE_READY" THEN r.candidate ELSE s.active

\* Mutation: the reservation is left behind.
InstalledStillReserved(s, r) ==
    [s EXCEPT !.gate = r.binding, !.state = StateAfter(s, r),
              !.active = ActiveAfter(s, r), !.records = @ \cup {r}]

\* The slot with the record of an attempt, its candidate installed if ready.
Installed(s, r) ==
    [s EXCEPT !.gate = r.binding, !.state = StateAfter(s, r),
              !.active = ActiveAfter(s, r), !.reserved = None,
              !.records = @ \cup {r}]

WithHold(s, r) == [s EXCEPT !.records = @ \cup {r}]

Publish(c) ==
    LET s == seen[c]
        r == job[c] IN
    /\ pc[c] = "publish"
    /\ Unlock(c)
    /\ \/ /\ Published(s, r)
          /\ Goto(c, "published")
          /\ Report(c, "replayed")
          /\ UNCHANGED <<slot, callVars>>
       \/ /\ ~ Published(s, r)
          /\ Fits(s, r)
          /\ Write(c, IF r.attempt = None THEN WithHold(s, r) ELSE Installed(s, r),
                   "published", "recorded")
          /\ UNCHANGED callVars
       \/ /\ ~ Published(s, r)
          /\ ~ Fits(s, r)
          /\ Refuse(c)

\* The answer was lost and the record is published once more, or the controller
\* is done with it.
Settle(c) ==
    /\ pc[c] = "published"
    /\ \/ Goto(c, "publish") /\ UNCHANGED job
       \/ Goto(c, "idle") /\ job' = [job EXCEPT ![c] = None]
    /\ UNCHANGED <<slot, lockVars, view, binding, outcome>>

-----------------------------------------------------------------------------
(* retire_coding_execution_candidate_for_remediation, with a human's       *)
(* authorization, for the candidate seen in an earlier read.               *)

AskRetire(c) ==
    /\ pc[c] = "preflight"
    /\ view[c].active # None
    /\ Goto(c, "retire")
    /\ UNCHANGED <<slot, lockVars, callVars, outcome>>

\* Mutation: any active candidate can be retired.
RetirableAny(s, k) == s.active = k

Retirable(s, k) ==
    /\ s.state = "FROZEN_REVIEW_V1"
    /\ s.active = k
    /\ s.remaining = 1
    /\ s.reserved = None
    /\ s.historical = {}

Retire(c) ==
    LET k == view[c].active IN
    /\ pc[c] = "retire"
    /\ Unlock(c)
    /\ \/ /\ Retirable(seen[c], k)
          /\ Write(c, [seen[c] EXCEPT !.state = "EMPTY_FOR_REMEDIATION",
                                      !.active = None, !.historical = {k}],
                   "idle", "retired")
          /\ UNCHANGED callVars
       \/ /\ ~ Retirable(seen[c], k)
          /\ Refuse(c)

-----------------------------------------------------------------------------
\* The process vanishes: the file is whole, its lock row stays.
Crash(c) ==
    /\ CanCrash
    /\ pc[c] # "idle"
    /\ lock' = IF lock = c THEN Orphaned ELSE lock
    /\ seen' = [seen EXCEPT ![c] = None]
    /\ Goto(c, "idle")
    /\ Report(c, "crashed")
    /\ job' = [job EXCEPT ![c] = None]
    /\ UNCHANGED <<slot, view, binding>>

Preflight(c) == PreflightPasses(c) \/ PreflightHolds(c) \/ AskRetire(c)
Locked(c) == Reserve(c) \/ Publish(c) \/ Retire(c)

Next ==
    \E c \in Controllers :
        \/ ReadSlot(c)
        \/ Preflight(c)
        \/ Lock(c)
        \/ Locked(c)
        \/ Finish(c)
        \/ Unrecordable(c)
        \/ Settle(c)
        \/ Crash(c)

Spec == Init /\ [][Next]_vars

-----------------------------------------------------------------------------
SlotTypeOK ==
    /\ slot.gate \in Bindings \cup {None}
    /\ Face(slot) \in Faces
    /\ slot.remaining \in 0..2
    /\ slot.reserved \in Reservations \cup {None}
    /\ slot.records \subseteq Records

TypeOK ==
    /\ SlotTypeOK
    /\ lock \in Controllers \cup {None, Orphaned}
    /\ \A c \in Controllers : seen[c] # None => lock = c
    /\ pc \in [Controllers -> {"idle", "preflight", "reserve", "running",
                               "publish", "published", "retire"}]
    /\ job \in [Controllers -> Records \cup Reservations \cup {None}]

Recorded(c) == job[c] \in slot.records

\* An attempt of c has started and its result is not in the slot.
Running(c) ==
    pc[c] = "running" \/ (pc[c] = "publish" /\ job[c].attempt # None /\ ~ Recorded(c))

\* Two agent processes never work for one gate at a time, although every
\* controller decides to start from a snapshot it took without the lock.
OneAttemptAtATime ==
    \A c, d \in Controllers : Running(c) /\ Running(d) => c = d

\* While a candidate is under review no attempt is reserved, and a reservation
\* has the kind and parent that the slot's state calls for.
ReviewExcludesAttempts ==
    slot.reserved # None =>
        \/ /\ slot.state = "EMPTY"
           /\ slot.reserved.kind = "ORDINARY" /\ slot.reserved.parent = None
        \/ /\ slot.state = "EMPTY_FOR_REMEDIATION"
           /\ slot.reserved.kind = "REMEDIATION"
           /\ slot.historical = {slot.reserved.parent}

\* The record's candidate has the id of the candidate it remediates.
ReusesId(r) ==
    /\ r.outcome = "CANDIDATE_READY"
    /\ r.attempt.kind = "REMEDIATION"
    /\ r.candidate = r.attempt.parent

\* No sequence of accepted calls leads to a slot that
\* _validate_coding_execution_state rejects, but for one: the caller publishes the
\* remediation under the candidate id of its parent, which no check of the record
\* catches; nothing is written then and the reservation stays.
OnlyReuseCorrupts ==
    \A c \in Controllers :
        outcome[c] = "corrupt" => job[c] \in Records /\ ReusesId(job[c])

\* A frozen candidate leaves review only as the parent of a remediation, and the
\* remediated candidate never does.
FrozenStaysFrozen ==
    [][slot.active # None /\ slot'.active # slot.active =>
          /\ slot.state = "FROZEN_REVIEW_V1"
          /\ slot'.historical = {slot.active}
          /\ slot'.remaining = 1]_vars

\* publish_coding_execution_record refuses neither a publication that is repeated
\* because its answer was lost, whatever happened to the slot in between, nor the
\* record of an attempt that ran, however old the snapshot it was built from,
\* unless the packet, baseline or executor differs from the first attempt's.  What the
\* validation of the whole slot makes of the record is OnlyReuseCorrupts's.
WorkIsNotRefused ==
    [][\A c \in Controllers :
          /\ pc[c] = "publish"
          /\ \/ Recorded(c)
             \/ Running(c) /\ slot.gate \in {None, job[c].binding}
          => outcome'[c] # "refused"]_vars
=============================================================================
