---------------------------- MODULE AuthorityLock ----------------------------
(***************************************************************************)
(* The per-task lock of acgps/workflow_store.py and the control-store      *)
(* authority protocol it runs on.                                          *)
(*                                                                         *)
(* Several processes share one state root: control.sqlite3, whose table    *)
(* task_locks is the lock and whose singleton control_authority counts the *)
(* committed lock changes, and .control_store_authority.json, a marker     *)
(* file that carries the generation and a digest of those two tables.      *)
(* SQLite serialises writers (BEGIN IMMEDIATE); a SELECT outside a         *)
(* transaction sees the last commit; the marker is replaced atomically but *)
(* no lock covers it.                                                      *)
(*                                                                         *)
(* The SHA-256 digest is the pair of things it is computed from, read by   *)
(* two SELECTs: the authority row (its generation) and the lock rows.      *)
(* A lock instance id is a fresh 128-bit token: a member of Instances that *)
(* neither a row nor a live call uses.                                     *)
(***************************************************************************)
EXTENDS Naturals

CONSTANTS Procs,      \* operating-system processes that open the state root
          Tasks,      \* lock keys (task or gate ids)
          Instances,  \* lock_instance_id tokens
          NoLock,     \* no row, or no token
          NoTask,     \* no key
          MaxGen,     \* bound: no acquisition starts at this generation
          CanFail     \* whether processes crash and COMMIT or file I/O fails

ASSUME AuthorityLockAssumption ==
    /\ NoLock \notin Instances \cup Procs
    /\ {"free", "orphaned"} \cap Procs = {}
    /\ NoTask \notin Tasks
    /\ MaxGen \in Nat
    /\ CanFail \in BOOLEAN

VARIABLES
    gen,      \* control_authority.authority_generation, committed
    rows,     \* task_locks, committed: key -> lock_instance_id
    marker,   \* the marker file: generation and digest
    writer,   \* the process inside BEGIN IMMEDIATE
    pc,       \* where each process is
    op,       \* the call it makes: acquire_task_lock or release
    task,     \* the key of that call
    inst,     \* the token of that call, kept while the lock is held
    phase,    \* why it reads the store: open, landed (after COMMIT), recheck
    mark,     \* the marker it read
    seen,     \* what its SELECTs returned so far
    base,     \* generation and digest before its transaction
    target,   \* generation and digest it committed
    held,     \* _HELD_LOCK_PATHS of the process
    outcome   \* how its last call ended

storeVars == <<gen, rows, marker, writer>>
callVars  == <<op, task, inst>>
readVars  == <<phase, mark, seen>>
txVars    == <<base, target>>
vars == <<storeVars, pc, callVars, readVars, txVars, held, outcome>>

Nobody == NoLock  \* value of writer when no transaction is open

RowMaps == [Tasks -> Instances \cup {NoLock}]
Digests == [auth : Nat, rows : RowMaps]
Stamps  == [gen : Nat, digest : Digests]

Stamp(g, a, r) == [gen |-> g, digest |-> [auth |-> a, rows |-> r]]

NoRows  == [t \in Tasks |-> NoLock]
Genesis == Stamp(0, 0, NoRows)

\* Generation and digest of the store as one transaction sees it.
Current == Stamp(gen, gen, rows)

PCs == {"idle", "marker", "generation", "authority", "locks", "repair",
        "begin", "commit", "compare", "publish", "verify", "holding"}
Outcomes == {"none", "granted", "conflict", "corrupt", "notLanded", "lost",
             "failed", "released", "crashed"}

Init ==
    /\ gen = 0
    /\ rows = NoRows
    /\ marker = Genesis
    /\ writer = Nobody
    /\ pc = [p \in Procs |-> "idle"]
    /\ op = [p \in Procs |-> "none"]
    /\ task = [p \in Procs |-> NoTask]
    /\ inst = [p \in Procs |-> NoLock]
    /\ phase = [p \in Procs |-> "open"]
    /\ mark = [p \in Procs |-> Genesis]
    /\ seen = [p \in Procs |-> Genesis]
    /\ base = [p \in Procs |-> Genesis]
    /\ target = [p \in Procs |-> Genesis]
    /\ held = [p \in Procs |-> {}]
    /\ outcome = [p \in Procs |-> "none"]

-----------------------------------------------------------------------------
(* Control flow shared by the steps of a call.                             *)

Goto(p, l) == pc' = [pc EXCEPT ![p] = l]

\* Locals that go out of scope.
ForgetReads(p) ==
    /\ mark' = [mark EXCEPT ![p] = Genesis]
    /\ seen' = [seen EXCEPT ![p] = Genesis]

ForgetTransaction(p) ==
    /\ base' = [base EXCEPT ![p] = Genesis]
    /\ target' = [target EXCEPT ![p] = Genesis]

\* The call is over and its lock object, if any, is gone.
Return(p, how) ==
    /\ Goto(p, "idle")
    /\ op' = [op EXCEPT ![p] = "none"]
    /\ task' = [task EXCEPT ![p] = NoTask]
    /\ inst' = [inst EXCEPT ![p] = NoLock]
    /\ outcome' = [outcome EXCEPT ![p] = how]
    /\ phase' = [phase EXCEPT ![p] = "open"]
    /\ ForgetReads(p)
    /\ ForgetTransaction(p)

Rollback(p) == IF writer = p THEN Nobody ELSE writer

\* An exception: the open transaction rolls back, _HELD_LOCK_PATHS stays.
Raise(p, how) ==
    /\ Return(p, how)
    /\ writer' = Rollback(p)
    /\ UNCHANGED <<gen, rows, marker, held>>

FreshInstances == {i \in Instances : /\ \A t \in Tasks : rows[t] # i
                                     /\ \A q \in Procs : inst[q] # i}

-----------------------------------------------------------------------------
(* acquire_task_lock and WorkflowTaskLock.release: the call begins.        *)

Acquire(p, t) ==
    /\ pc[p] = "idle"
    /\ gen < MaxGen
    /\ t \notin held[p]
    /\ \E i \in FreshInstances : inst' = [inst EXCEPT ![p] = i]
    /\ op' = [op EXCEPT ![p] = "acquire"]
    /\ task' = [task EXCEPT ![p] = t]
    /\ outcome' = [outcome EXCEPT ![p] = "none"]
    /\ Goto(p, "marker")
    /\ UNCHANGED <<storeVars, readVars, txVars, held>>

Release(p) ==
    /\ pc[p] = "holding"
    /\ op' = [op EXCEPT ![p] = "release"]
    /\ Goto(p, "marker")
    /\ UNCHANGED <<storeVars, task, inst, readVars, txVars, held, outcome>>

-----------------------------------------------------------------------------
(* _control_connection reads the marker, then connects, then reconciles:   *)
(* three SELECTs in autocommit mode, each of its own snapshot.             *)
(* _commit_authority_transaction runs the same SELECTs on a second         *)
(* connection after its COMMIT.                                            *)

ReadMarker(p) ==
    /\ pc[p] = "marker"
    /\ mark' = [mark EXCEPT ![p] = marker]
    /\ Goto(p, "generation")
    /\ UNCHANGED <<storeVars, callVars, phase, seen, txVars, held, outcome>>

ReadGeneration(p) ==
    /\ pc[p] = "generation"
    /\ seen' = [seen EXCEPT ![p] = Stamp(gen, 0, NoRows)]
    /\ Goto(p, "authority")
    /\ UNCHANGED <<storeVars, callVars, phase, mark, txVars, held, outcome>>

\* First SELECT of _control_store_authority_digest.
ReadAuthorityRow(p) ==
    /\ pc[p] = "authority"
    /\ seen' = [seen EXCEPT ![p] = Stamp(seen[p].gen, gen, NoRows)]
    /\ Goto(p, "locks")
    /\ UNCHANGED <<storeVars, callVars, phase, mark, txVars, held, outcome>>

\* Where a connection that passed its reconciliation goes on.
AfterOpen(p) == IF phase[p] = "open" THEN "begin" ELSE "verify"

\* Mutation: the generation is read after the digest.
GenerationReadLast(p) == Stamp(gen, seen[p].digest.auth, rows)

\* What the three SELECTs add up to.
ReadStamp(p) == Stamp(seen[p].gen, seen[p].digest.auth, rows)

\* Mutation: only a marker two generations behind is repaired.
RepairableTooLate(read, m) == read.gen > m.gen + 1

\* A marker behind the store is repaired, anything else is corruption.
Repairable(read, m) == read.gen > m.gen

\* Second SELECT of the digest, and what the caller makes of the result.
ReadLockRows(p) ==
    LET read == ReadStamp(p) IN
    /\ pc[p] = "locks"
    /\ IF phase[p] = "landed"
       THEN IF read = target[p]
            THEN /\ Goto(p, "compare")
                 /\ ForgetReads(p)
                 /\ UNCHANGED <<storeVars, callVars, phase, txVars, held,
                                outcome>>
            ELSE Raise(p, "notLanded")
       ELSE \/ /\ read = mark[p]
               /\ Goto(p, AfterOpen(p))
               /\ ForgetReads(p)
               /\ UNCHANGED <<storeVars, callVars, phase, txVars, held,
                              outcome>>
            \/ /\ read # mark[p]
               /\ Repairable(read, mark[p])
               /\ Goto(p, "repair")
               /\ seen' = [seen EXCEPT ![p] = read]
               /\ UNCHANGED <<storeVars, callVars, phase, mark, txVars,
                              held, outcome>>
            \/ /\ read # mark[p]
               /\ ~ Repairable(read, mark[p])
               /\ Raise(p, "corrupt")

\* The reconciliation overwrites the marker with what was read, unchecked;
\* a failed write is swallowed.
RepairMarker(p) ==
    /\ pc[p] = "repair"
    /\ \/ marker' = seen[p]
       \/ CanFail /\ marker' = marker
    /\ Goto(p, AfterOpen(p))
    /\ ForgetReads(p)
    /\ UNCHANGED <<gen, rows, writer, callVars, phase, txVars, held, outcome>>

-----------------------------------------------------------------------------
(* The authority transaction.                                              *)

\* BEGIN IMMEDIATE, and the reconciliation under the write lock.
Begin(p) ==
    /\ pc[p] = "begin"
    /\ writer = Nobody
    /\ IF marker = Current \/ Repairable(Current, marker)
       THEN /\ \/ marker' = Current
               \/ CanFail /\ marker' = marker
            /\ writer' = p
            /\ base' = [base EXCEPT ![p] = Current]
            /\ Goto(p, "commit")
            /\ UNCHANGED <<gen, rows, callVars, readVars, target, held,
                           outcome>>
       ELSE Raise(p, "corrupt")

\* Mutation: no busy_timeout, the process waits as long as it takes.
BeginWaits(p) == FALSE /\ Raise(p, "failed")

\* busy_timeout expires while another process holds the write lock.
BeginTimeout(p) ==
    /\ pc[p] = "begin"
    /\ writer # Nobody
    /\ Raise(p, "failed")

\* Mutations: INSERT OR REPLACE; and a row whose holder is gone is replaced.
KeyReplaced(p) == TRUE
KeyFreeOrStale(p) ==
    op[p] = "acquire" => \A q \in Procs \ {p} : rows[task[p]] # inst[q]
                                                \/ rows[task[p]] = NoLock

\* The primary key of task_locks lets the INSERT through.
KeyFree(p) == op[p] = "acquire" => rows[task[p]] = NoLock

\* The INSERT fails on the primary key: roll back.
InsertConflict(p) ==
    /\ pc[p] = "commit"
    /\ ~ KeyFree(p)
    /\ Raise(p, "conflict")

\* Mutations: the owner is stored as the token; the DELETE has no WHERE clause.
RowsAfterByOwner(p) ==
    IF op[p] = "acquire" THEN [rows EXCEPT ![task[p]] = p] ELSE NoRows
RowsAfterUnscoped(p) ==
    IF op[p] = "acquire" THEN [rows EXCEPT ![task[p]] = inst[p]] ELSE NoRows

\* INSERT of the row; or DELETE of the row with this key and token.
RowsAfter(p) ==
    IF op[p] = "acquire"
    THEN [rows EXCEPT ![task[p]] = inst[p]]
    ELSE [t \in Tasks |-> IF t = task[p] /\ rows[t] = inst[p]
                          THEN NoLock ELSE rows[t]]

\* The change, generation + 1, COMMIT.
Commit(p) ==
    /\ pc[p] = "commit"
    /\ KeyFree(p)
    /\ gen' = gen + 1
    /\ rows' = RowsAfter(p)
    /\ target' = [target EXCEPT ![p] = Stamp(gen + 1, gen + 1, RowsAfter(p))]
    /\ writer' = Nobody
    /\ phase' = [phase EXCEPT ![p] = "landed"]
    /\ Goto(p, "generation")
    /\ UNCHANGED <<marker, callVars, mark, seen, base, held, outcome>>

\* COMMIT itself fails: everything rolls back.
CommitFails(p) ==
    /\ CanFail
    /\ pc[p] = "commit"
    /\ Raise(p, "failed")

-----------------------------------------------------------------------------
(* The marker is published: compared with base, then replaced, in two      *)
(* steps; a mismatch and a failed write are both swallowed.                *)

\* A release is complete; an acquisition opens a connection once more.
AfterPublish(p) ==
    IF op[p] = "release"
    THEN /\ Return(p, "released")
         /\ held' = [held EXCEPT ![p] = @ \ {task[p]}]
    ELSE /\ Goto(p, "marker")
         /\ phase' = [phase EXCEPT ![p] = "recheck"]
         /\ ForgetTransaction(p)
         /\ UNCHANGED <<callVars, mark, seen, held, outcome>>

CompareMarker(p) ==
    /\ pc[p] = "compare"
    /\ \/ /\ marker = base[p]
          /\ Goto(p, "publish")
          /\ UNCHANGED <<callVars, readVars, txVars, held, outcome>>
       \/ /\ marker # base[p]
          /\ AfterPublish(p)
    /\ UNCHANGED storeVars

PublishMarker(p) ==
    /\ pc[p] = "publish"
    /\ \/ marker' = target[p]
       \/ CanFail /\ marker' = marker
    /\ AfterPublish(p)
    /\ UNCHANGED <<gen, rows, writer>>

\* acquire_task_lock reads its own row back before it returns the lock.
VerifyRow(p) ==
    /\ pc[p] = "verify"
    /\ IF rows[task[p]] = inst[p]
       THEN /\ held' = [held EXCEPT ![p] = @ \cup {task[p]}]
            /\ outcome' = [outcome EXCEPT ![p] = "granted"]
            /\ Goto(p, "holding")
            /\ phase' = [phase EXCEPT ![p] = "open"]
            /\ UNCHANGED <<storeVars, callVars, mark, seen, txVars>>
       ELSE Raise(p, "lost")

\* The process dies and is started again: its memory is gone, SQLite rolls
\* its transaction back, its committed rows stay.
Crash(p) ==
    /\ CanFail
    /\ pc[p] # "idle" \/ held[p] # {}
    /\ Return(p, "crashed")
    /\ held' = [held EXCEPT ![p] = {}]
    /\ writer' = Rollback(p)
    /\ UNCHANGED <<gen, rows, marker>>

-----------------------------------------------------------------------------
\* The steps a call takes by itself once it has begun.
Proceed(p) ==
    \/ ReadMarker(p)
    \/ ReadGeneration(p)
    \/ ReadAuthorityRow(p)
    \/ ReadLockRows(p)
    \/ RepairMarker(p)
    \/ Begin(p)
    \/ BeginTimeout(p)
    \/ InsertConflict(p)
    \/ Commit(p)
    \/ CommitFails(p)
    \/ CompareMarker(p)
    \/ PublishMarker(p)
    \/ VerifyRow(p)

Next ==
    \E p \in Procs :
        \/ \E t \in Tasks : Acquire(p, t)
        \/ Release(p)
        \/ Proceed(p)
        \/ Crash(p)

Spec == Init /\ [][Next]_vars

\* A process that is inside a call keeps executing it, and a holder releases
\* (every caller takes the lock in a with statement).
Fairness == \A p \in Procs : WF_vars(Proceed(p)) /\ WF_vars(Release(p))

FairSpec == Spec /\ Fairness
-----------------------------------------------------------------------------
TypeOK ==
    /\ gen \in Nat
    /\ rows \in RowMaps
    /\ marker \in Stamps
    /\ writer \in Procs \cup {Nobody}
    /\ pc \in [Procs -> PCs]
    /\ op \in [Procs -> {"none", "acquire", "release"}]
    /\ task \in [Procs -> Tasks \cup {NoTask}]
    /\ inst \in [Procs -> Instances \cup {NoLock}]
    /\ phase \in [Procs -> {"open", "landed", "recheck"}]
    /\ mark \in [Procs -> Stamps]
    /\ seen \in [Procs -> Stamps]
    /\ base \in [Procs -> Stamps]
    /\ target \in [Procs -> Stamps]
    /\ held \in [Procs -> SUBSET Tasks]
    /\ outcome \in [Procs -> Outcomes]

\* The process has its lock row committed: its acquisition has landed and its
\* release has not.
Owns(p) ==
    \/ pc[p] = "holding"
    \/ op[p] = "acquire" /\ phase[p] \in {"landed", "recheck"}
    \/ op[p] = "release" /\ phase[p] = "open"

\* No two processes are given the lock of one task: acquire_task_lock returns
\* to both only if the PRIMARY KEY of task_locks was bypassed.
MutualExclusion ==
    \A p, q \in Procs :
        pc[p] = "holding" /\ pc[q] = "holding" /\ task[p] = task[q] => p = q

\* From the COMMIT of an acquisition to that of its release the row of the task
\* carries this process's token: nobody steals a lock by age, and the check
\* "lock acquisition did not commit to the current authority" never fires.
OwnerKeepsRow ==
    \A p \in Procs : Owns(p) => rows[task[p]] = inst[p]

\* Whatever stale process overwrites the marker last, with a generation and a
\* digest read in different snapshots, the marker stays one that the next
\* _reconcile_authority_marker under the write lock accepts: never ahead of the
\* store, and exact when level with it.
MarkerRecoverable ==
    /\ marker.gen <= gen
    /\ marker.gen = gen => marker = Current

\* What the process knows of the store has been overtaken by another process.
Overtaken(p) ==
    IF phase[p] = "landed" THEN gen # target[p].gen
                           ELSE mark[p] # marker \/ ReadStamp(p) # Current

\* The store is never corrupt here, so WORKFLOW_STATE_CORRUPT is a false alarm. It
\* is only raised by a process that read while another one wrote: not under the
\* write lock, not by acquire_task_lock's last check, and not because a crash, a
\* failed COMMIT or a failed marker write came before the call.
AlarmsComeFromRaces ==
    [][\A p \in Procs :
          pc[p] # "idle" /\ outcome'[p] \in {"corrupt", "notLanded", "lost"}
          => pc[p] = "locks" /\ Overtaken(p)]_vars

\* Every call of acquire_task_lock or release comes to an end, even against a
\* process that begins one transaction after another: BEGIN IMMEDIATE is not
\* fair, the 30 s busy_timeout is what ends the wait.
EveryCallReturns ==
    \A p \in Procs : pc[p] # "idle" ~> pc[p] \in {"idle", "holding"}

\* _commit_authority_transaction raises "authority commit did not land in the
\* current control store" only when the generation it committed is not there.
DeniedCommitIsAbsent ==
    [][\A p \in Procs :
          pc[p] = "locks" /\ phase[p] = "landed" /\ pc'[p] = "idle"
          => gen < target[p].gen]_vars

\* Who has the lock of t, given lock rows r and the live tokens i.
OwnerIn(r, i, t) ==
    IF r[t] = NoLock THEN "free"
    ELSE IF \E p \in Procs : i[p] = r[t]
         THEN CHOOSE p \in Procs : i[p] = r[t]
         ELSE "orphaned"

\* The lock table as its callers may see it: TaskMutex.
owner == [t \in Tasks |-> OwnerIn(rows, inst, t)]

TM == INSTANCE TaskMutex WITH
        Clients <- Procs, Free <- "free", Orphaned <- "orphaned"

\* acquire_task_lock and release, with the marker, the crashes and the failures
\* around them, never do more to the lock table than TaskMutex: a lock is taken
\* from nobody, freed by its holder only, and orphaned for good when the holder
\* vanishes or its call raises after the COMMIT.
ImplementsTaskMutex == TM!Spec
=============================================================================
