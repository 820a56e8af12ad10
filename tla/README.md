# A TLA+ model of the ACGPS controller

ACGPS ("governed project controller", `acgps/` in the repository) moves software tasks through a fixed
workflow. Every step of a task is a *transition* that a policy authorizes, a gate backs with evidence files
and an append-only audit log records; some transitions wait for a human; code is written by a bounded agent
process that a per-gate slot admits. This directory models the parts that keep state, checks them with TLC
and proves every safety property these checks state with TLAPS.

The code is a Python library and a command line. There is no server: every command is a process that opens
the state root, does one thing and ends, so *concurrency* means several commands at once, *crash* means a
command that dies, and *state* means SQLite rows and files.

## Inventory

| Part | State it keeps | Operations | Hard about it |
|---|---|---|---|
| Control store (`workflow_store.py`) | `task_locks`, `control_authority` and the marker file `.control_store_authority.json` | `acquire_task_lock`, `release`, the authority transaction | rows, a counter and a marker file that only SQLite's write lock orders; swallowed marker writes; checks from several snapshots |
| Task ledger (`workflow_store.py`, `WorkflowEngine.intake/advance`) | `task_states`, `audit_events`, `idempotency_records`; `audit.jsonl`, `state.json`, `intake.json`, proof files | `intake`, `commit_task_state_and_audit`, `write_idempotency_record_once`, reads | no lock is taken: reads, preparation and commit are apart; exports follow the commit one by one |
| Human decisions (`human_decisions.py`, pause and resume in the engine) | `decisions/pending`, `decisions/resolved`, `pending_decision_id` | `create`, `resolve`, `list_pending`, resume | files are written before the rows are; all tasks share one listing |
| Coding slot (`workflow_store.py`, `coding_execution.py`) | `slot.json` of a gate | initialize, read, reserve, publish, retire | decisions from an unlocked snapshot; a budget of two; lost answers; dead controllers |
| Transition gates (`workflow_engine.py`, `review_adapter.py`) | none of their own: the audit lineage | `_validate_gate_evidence` and the gates below it | what is admitted depends on a search through the lineage, and detours change what is found |
| Policy (`policy.py`, `config/`) | none | `evaluate_policy` | pure |
| Control store's creation (`_initialize_control_store`) | `control.sqlite3`, its authority row and the marker | `WorkflowStore.__init__` | nothing excludes two first starts; every stage may be met or left by a crash |
| Contracts (`contracts.py`, `workflow_contracts.py`) | none | validators | pure; the recovery half has no executor, but two store operations and a reader depend on it |
| Trusted queries and previews (`workflow_engine.py`) | none | summaries, previews, commit verifications, the trusted result advance | reads that are repeated to notice a store that moved |
| Process adapter (`codex_exec_adapter.py`) | a process tree in a Windows job, its pipes, an observation; a clone | `run_bounded_process`, clone inspection | time limits race with exits; descendants hold pipes; termination takes effect later; the supervisor may vanish at any point |
| Packets and handoffs, command line, scripts | none | build, compare, parse, print | none |

How they interact: `advance` reads the ledger, asks the policy, runs a gate, perhaps writes a decision file,
and commits to the ledger. The coding slot takes the control store's lock. The ledger shares the database
with the lock but takes none of its locks. A human answers through `advance` with a resolution. The coding
slot and the workflow of a task only meet in the evidence files that a controller carries over.

What makes each part correct is said with each module below; what can go wrong in it, at which line, is
listed under `hazards` in `PROJECT.json`.

## Modules

`AuthorityLock` — one action per step that another process can come between: reading the marker
(`_read_authority_marker`), each of the three SELECTs of a reconciliation, the repair, `BEGIN IMMEDIATE` with
the reconciliation under the write lock, the row change with `COMMIT`, the comparison through a second
connection, comparing and replacing the marker, reading the row back. `gen`, `rows` and `marker` are the
store, `writer` is SQLite's write lock; everything else is local to a process. The digest is not a number but
the pair it is computed from, read in two statements, so a digest of two snapshots is representable. Tokens
are never reused by two live calls, as 128-bit random tokens are not.
The lock's own export file, whose failed write is swallowed and which nobody reads, is left out.

`StoreBootstrap` — how `WorkflowStore.__init__` creates the database and its marker in a fresh root or validates what
is there: one action per look at the file system and per transaction, three processes at once, crashes, failed marker
writes and an operator who loses a file. The locks of `AuthorityLock` appear as one step that advances generation and
marker. Files are lost only while nobody is starting: a file that vanishes under a running SQLite connection is not
modelled.

`TaskMutex` — what a caller of `acquire_task_lock` may rely on: a lock that is free, somebody's, or orphaned
for good.

`TaskLedger` — `intake` and `advance` step by step: the reads, each transaction, each export. An event stands
for its whole history because it contains its predecessor's hash; the sequence number is kept apart because
the code takes it from another snapshot. Two requests with the same content stand for byte-identical requests.

`TaskHistory` — the append-only history per task that the rows promise.

`WorkflowPolicy` — the transition table of `config/workflow_policy.yaml`, the human gate, required actors and
evidence kinds, as constants and operators. `HumanPause`, `TaskLifecycle` and `TrustedQueries` extend it.

`AuditGenerations` — what the workflow contracts demand of a recovery transaction (`ValidTransaction`, with the
result's truth table, the artifact matrix and the operation graph), the two store operations that only a recovery uses
(`append_audit_event` and `write_task_state`, two transactions) next to the commit of ordinary transitions, and the reader
`_trusted_audit_lineage`, which goes back from generation to generation. `src/acgps/` contains no procedure that plans and executes a recovery, so
`Prepare` takes any valid transaction that trusts an event of the lineage, and the order of the two calls is that of
`src/tests/test_workflow_engine.py`. A recovery that died after its start event is taken up again (`Resume`), as the artifact matrix asks
for an artifact that is on disk before its phase record (`stale_matching`); what is assumed of the executor is that it does not take
up a recovery whose generation has begun. This module is not run, only proved about: the sets it quantifies over are infinite.

`HumanPause` — `advance` with its decision files. A file appears empty (`Torn`) and is filled in a second step, as
`_write_once` does. `list_pending` reads the files in one step and the waiting rows in a later one. The
commit is the atomic one that `TaskLedger` checks in detail. An `advance` that pauses may carry a resolution: the check that one is "only
valid when resuming" is in the last branch of an `if` whose first is the pause, so the resolution is written, whichever request
it names, and the committed event does not mention it (`Carried`, `Requested`, `Resolve`). The task it names can then only be resumed with this very
resolution; `Answer`, the human of the liveness run, is assumed to give it. Evidence may refuse any request and is left out: a
refusal changes nothing.

`CodingSlot` — controllers that read the slot, evaluate prelaunch gate P1 on what they read, reserve, run, and
publish. A locked call is two steps, acquiring the lock with the read of the file (`Lock`), and the rest with
the release; between them nobody else writes the file, which is what the lock is for and what one of the
mutations breaks. Candidate ids are the caller's choice, reused ones included (`FinishWith`). A crash leaves the lock orphaned, as `TaskMutex` says. `Unrecordable` is an attempt whose
clone drifted, whose record the contract refuses under any outcome.

`BoundedProcess` — `run_bounded_process`: the root is created suspended, put into a job, resumed and supervised with
`communicate`'s time limits; processes spawn others, pass on and close pipes, end or hang. A termination, by call or by
the closing of the job's last handle, takes effect later: until then the process is counted and holds its pipes but does
nothing. Every way out is an action: an observation, an exception at each call, a supervisor that vanishes. `hit` records
that somebody was terminated while at work and only properties read it.

`CodingAttempt` — `BoundedProcess` under `CodingSlot`: an attempt no longer ends in any way at any time but as the
observation of the process says (`build_completed_attempt_record`). In `src/` nothing but tests calls
`run_bounded_process`; that a controller runs it between reservation and publication is how
the fields of the record place it, and the only assumption about that controller.

`TaskLifecycle` — one task's lineage of accepted transitions and the gates that read it. Evidence is reduced to
what later gates look up: findings raised and closed, and the time of the oldest verification record. Time is
the number of accepted events: the code compares timestamps that its callers supply, and the model takes them to be true ones. Of an agent's
packet only `edited` is kept: whether it differs from the one that `generate_task_packet` makes. No plain gate asks, and the
receipt of the later verification does. The lineage is trusted, that is, what `TaskLedger`'s `ChainIntact` says of it.
The last part of the module runs a gate again on the lineage that ends with the transition it admitted, as
`transition_commit_verification` and the five verifiers behind it do; only that of an agent's result makes the receipt as well, those of
handoffs, manifests, closures and resumes do not.

`TrustedQueries` — the read-only half of the engine and the trusted result advance. What matters of these calls is
the order in which they look at rows, files and lists and what they compare, so each call is a *script*, built
from the scripts of the calls it makes, and the reader has one action per kind of instruction. A task is the sequence
of its states, which is what its audit head identifies. Around the reader, others open the store (which alone
refuses a read-only connection, because of SQLite's journal files), commit, ask for decisions, take locks, and rewrite
evidence and captures. Besides the trusted result advance, the ordinary advance into TASK_REVIEW, whose evidence may be replaced between
its validation and its hashing, and both closures, which look at their manifests again (`LastLook`), are calls; one
evidence file stands for each of several, since each is validated, hashed and looked at in the same order. `quiet`, `matched` and `late` record what happened during the call and only properties read
them. A call starts in any store that is left behind: with requests whose pauses were not committed (`Orphanable`) and with the journal of a
writer that is at work or dead (`busy`); these count as changes made before. A row and its lineage are read in one step, and so are the files and the resolutions of one listing.

The `MC...` modules only add symmetry sets and the histories of `TrustedQueries`; the `...Proofs` modules are described
under Proofs; every `.cfg` says what it instantiates.

## Runs

The violated properties state what documents, docstrings, comments or messages of the repository say.

| Run | Instance | Shows |
|---|---|---|
| `AuthorityLock_safety` | 2 processes, 2 locks, 3 tokens, failures, fairness | `MutualExclusion`, `OwnerKeepsRow`, `MarkerRecoverable`; corruption is only reported after a race (`AlarmsComeFromRaces`); the lock table implements `TaskMutex`; every call comes to an end |
| `AuthorityLock_landed` | 2 processes, no failures | violated: a landed commit is reported as not landed |
| `StoreBootstrap_safety` | 3 processes, crashes, lost files | all that are ready agree on one authority; only a failure leaves a database that no start accepts |
| `TaskLedger_safety` | 2 engines, 1 task, 2 intakes, 2 moves, crashes | one hash chain; exports behind it; proof equal to the first event; `state.json` and `intake.json` show nothing that `audit.jsonl` lacks; the rows implement `TaskHistory`; a refusal means somebody else was first |
| `HumanPause_safety` | 2 engines, 2 tasks, crashes, illegal requests and resolutions out of place too | a waiting task has its request, a resume its resolution, and it leads only where it was approved and legal |
| `HumanPause_live` | 1 engine, 2 tasks, legal requests, pauses with resolutions, fairness | every answered pause ends |
| `HumanPause_orphan` | engines that crash or compete | violated: AC-014 |
| `CodingSlot_safety` | 2 controllers, crashes, drifting clones, 2 bindings | one attempt at a time; review excludes attempts; frozen stays frozen; corrupt only when a remediation reuses its parent's id; recordable work is not refused |
| `CodingAttempt_safety` | 2 controllers, 1 binding, 1 descendant, crashes, fairness | no process works on when its supervisor has stopped; observations are true; only undisturbed work succeeds; agents work only under their own reservation; every reservation ends unless a controller vanished, the clone drifted or a parent's id was reused |
| `TaskLifecycle_safety` | 2 findings, each state entered twice, 1 pause | planned once; every finding closed; verified after the fix; work goes on from plans and reviews that were not resumed from a pause; what was accepted can be verified once committed, unless its packet was edited |
| `TaskLifecycle_planned` | the same | violated: README's PLAN_READY rule and AC-007 |
| `TrustedQueries_safety` | 2 tasks with 5 histories each (3 for closures), 13 calls, 3 changes, leftovers included | an answer is still true when it is given, a verified capture once was, an advance commits what it verified, nothing fails without cause |

Every property of a passing run has a mutation of the modelled code that violates it; the mutated operators
stand beside the originals, marked "Mutation".

**Bounds.** `MaxGen` bounds where an acquisition may start, so that every release still fits: with 1 a second process meets the
marker of a first that has acquired and is about to release; every safety property of that run is also
proved without the bound. `StoreBootstrap` has one process more than there are creators that matter, so that one can
validate what two others race to create. One descendant suffices for a pipe that outlives its root; the proofs of
`CodingAttempt` have any number. `MaxEvents` and `MaxSeq` bound
histories; a race needs one event before it and two after. `MaxSeq = 3` of `HumanPause_safety` is a pause and its resume; with `OneTime` a pause and the
resolution it carries have one time, since two engines have two. `Orphanable` has an orphaned request only where a state of `Stages` was to be paused. `MaxHolds` bounds prelaunch HOLD records, which
change nothing but the list; `CodingAttempt_safety` has none and one binding, because `CodingSlot_safety` has both. `MaxVisits = 2` lets each state be entered twice: a complete fix cycle with a second
review or a blocked integration. `MaxPauses = 1` gives every state one pause. `MaxChanges = 3` is a store that is opened and two
commits, so that a task leaves its state and comes back, or a file that is changed and changed back around a commit; the
histories are a task that does not exist, is new, works, waits, and has been resumed. Two engines suffice because all they share is
compared with the head at the commit, so that a third engine only repeats what the second does.

**Deadlock** is not checked: every model stops at its bounds, and closed or abandoned tasks stop for good.

**Fairness.** A process inside a call continues it (weak fairness): the code has no wait but SQLite's, which
`busy_timeout` ends, and that end is an action. A holder releases, since every caller uses `with`. In
`HumanPause`, a question asked again and again is answered (strong fairness on the human). In `CodingAttempt`
nothing is assumed of the agents, which may hang, spawn and keep pipes for ever: that the supervisor goes on is `communicate`'s time limits
(weak fairness of `StartAndSupervise`, in which `Expire` is always an alternative) and the accounting deadline (`DeadlinePasses`, separately, since
recounting would otherwise be progress enough). A controller that finds the lock taken tries again (strong fairness
of `Lock`): the code raises `WORKFLOW_CONCURRENT_WRITE` and leaves the retry to its operator, so this is an assumption
about operators. Nothing fair is assumed of crashes: a vanished holder's lock and a vanished controller's reservation stay
for ever. A crash ends the call that `EveryCallReturns` speaks of; `ReservationEnds` names these cases.

## Disagreements between the code and what is said of it

Three runs end in a counterexample; `PROJECT.json` quotes the line each contradicts:

* A lock commit can be denied though it landed (`AuthorityLock_landed`).
* A pending decision whose pause was never committed blocks every listing and every resume of the project
  (`HumanPause_orphan`).
* A plan accepted by resuming a pause leads to a PLAN_READY task that no Coder packet gets out of
  (`TaskLifecycle_planned`).

Behaviour that the models also show and that no run is spent on:

* A crash between the COMMIT and an export, or an engine whose export is overtaken, leaves `state.json` or
  `audit.jsonl` behind the rows until that very event is replayed (`TaskLedger`: `Crash` at "line", "append",
  "state"). The docstring of `commit_task_state_and_audit` speaks of reconciled exports.
* An intake that loses a race between `IntakeReadProof` and `IntakeTaskExists` reports a missing proof.
* A pause requested for CLOSED (from VERIFIED or RC_READY), or for another stage that the table does not
  allow, has no acceptable resolution; `HumanPause_live` therefore assumes legal requests, and resolutions
  that can be written (`LegalOnly`, `SensibleReply`).
* An advance that pauses accepts a decision resolution and writes it (`workflow_engine.py:3120`). If its own commit is refused, or if it names
  another task's request, `decisions/resolved` holds a resolution that no event is bound to, and any other answer to that request is refused.
  If the resolution is refused, the pause is not committed and its request stays (a third way to the counterexample of `HumanPause_orphan`).
* A review paused on its way to FIX_REQUIRED stores evidence that `_current_fix_cycle_blockers` reads as bare
  findings; `WorkGoesOn` names this exception.
* RC_READY can be reached through IMPLEMENTING, BLOCKED, SYSTEM_QA and VERIFIED without any reviewer, although rule 5 of
  `docs/WORKFLOW_STATE_MACHINE.md` asks for independent review: the policy authorizes these edges, and the manifest's closed
  findings need not come from a review of this task.
* A resume from SYSTEM_QA to FIX_REQUIRED is accepted, and `waiting_human_resume_transition_commit_verification` can never
  verify it: `_validate_gate_evidence` returns no snapshots for bare findings, and none never equals what was bound.
  `EveryCommitVerifies` leaves such tails out (`HasSnapshots`).
* The plain gates compare an agent's packet with its result and with the ids of the task, not with the packet that
  `generate_task_packet` makes. A transition that one of them accepts with an edited packet is committed and never verifies
  (`EveryCommitVerifies` says exactly this); when it was accepted through a pause it does verify.
* Commits made by a task's own way out of `SYSTEM_QA`, `BLOCKED` or into a pause have no verifier (`Verifiable`); README says that
  unsupported tails fail closed.
* The assurance overview compares its decision queue with its progress summary by counts and decisions. Two tasks that
  exchange their states while the queue is made are not noticed, so `ReportIsCurrent` promises only the pending decisions of
  queues and overviews.
* `trusted_task_packet_result_transition_gate_preview` binds packet and result between two receipts without comparing
  the bindings with either (`take` in the script): an edit that is undone in time is reported in the bindings. The
  advance does compare them.
* `trusted_project_assurance_overview_verification` reads the capture first and last, with both overviews in between,
  unlike the modelled verifications of captured summaries; a capture that is replaced and put back around both passes.
* Verification records need to be newer than the implementation only if there was a FIX_REQUIRED event
  (`Fresh`).
* The reservation of a controller that dies, and of an attempt that cannot be recorded, is never given back. Nor is that of a remediation
  whose candidate is published under its parent's id: the record is valid, the slot with it is not (`workflow_store.py:1308`), the call
  reports `WORKFLOW_STATE_CORRUPT` about a slot that is sound, and nothing is written (`OnlyReuseCorrupts`).
* A request without a committed pause makes even a call fail that nobody disturbs, if it lists the pending decisions; `NoFalseAlarm` names this
  cause (`Lists`). A summary lists them only when some task waits, so an orphan may stay unnoticed until then.
* A crash, or a failed marker write, between the creation of `control.sqlite3` and its marker leaves a root that every later
  start refuses with "requires explicit versioned migration", for which there is no command. A start that merely
  runs at the same time as the creation gets the same message, and succeeds when repeated.
* The gates that ask for bare findings return no snapshots, so a findings file that is replaced between validation and
  hashing is bound unseen (`workflow_engine.py:3407`). Nothing promises otherwise, and no property covers it.
* AC-013 and `docs/SYSTEM_DESIGN.md:93` describe recovery of an audit generation; `src/` has its contracts and its reader but no executor. Of
  one that followed the contracts, `AuditGenerationsProofs` shows that the reader would always find its way back, but that
  no rollback's idempotency record could be stored (the contract fixes a path below `recovery-`, the store demands
  `rollback-`), that a rollback into an earlier generation would always be refused (its coordinate is taken), and that a
  death between the two writes would bar every other recovery of the task until that one is taken up again. Sequence numbers start again in a new
  generation, so the id `decision-<token>-<sequence>` of a pause may be one that the earlier generation used, which
  `create` refuses. The matrix rows for results that are neither accepted nor fail-closed cannot be reached.

## Proofs

Each theorem holds for all values of the constants, from the named assumptions of its modules alone (special values such as
`None` are not members of the sets they are added to, bounds are natural numbers). `AuditGenerations` needs no assumption.

**`AuthorityLockProofs`** — `TypeCorrect`, `Exclusion`, `RowsKept`, `MarkerNeverAhead`, `AlarmsAreRaces`, `CallsAreFinite`, `Refinement` and the inductive
invariant behind them, `Invariance`. Mutual exclusion is not inductive: that a holder's row carries its token must be known
(`OwnerKeepsRow`), and that tokens of live calls differ (`TokensDistinct`), and that no other row carries the
token of a call (`TokensOnOwnRow`), else a release could delete, or an insertion reuse, somebody's row. Which row a call owns depends on where it is, so
the calls must be in phase (`CallsInPhase`): what `op` and `phase` are at each place. The transaction in progress is the only writer
(`WriterCommits`). The marker needs its own strengthening, `ReadsInOrder`: whatever a process has read, published
as its base, committed as its target or is about to write, is a stamp that is not ahead of the store and that is exact if
its generation is still the store's. A digest of two snapshots passes this test because the generation is read first.
`AlarmsAreRaces` adds what a call knows of its own commit
(`LandedReadsLater`): the generation read after a COMMIT is at least the one it committed. So if the comparison fails although nobody has
overtaken the call, what it read is the store and the marker it read is the store's, and these agree or can be repaired.
`CallsAreFinite` is the part of `EveryCallReturns` that needs no fairness: each step of a call lowers `StepsLeft` (at most 18: three
connections, each reconciled once), and no step of another process raises it.
The refinement maps a lock to the process
that has its live token, to nobody if there is no row, and to `orphaned` if no live call has the token; a step that ends a call
abandons its lock if the row is committed.

**`StoreBootstrapProofs`** — `TypeCorrect`, `Agreement`, `RacesDoNoHarm`. Once the root has been opened under an id,
every marker, on disk or read, carries this id, and so does the row while the database is there; a creator on its way to
the INSERT finds the row taken or the root never opened.

**`TaskLedgerProofs`** — `TypeCorrect`, `OneChain`, `ExportsFollow`, `ProofFits`, `ExportsComplete`, `OnlyOvertakenIsRefused` and the
`Refinement` of `TaskHistory`. An engine that has entered the commit carries what it read extended by its request, and the
guard of the commit compares what it read with the row; so a row only grows at its end, and what is exported or still to be
exported is a beginning of it for ever. `ExportsComplete` needs that a line, once written, stays whoever appends, and that `state.json` and `intake.json`
are written by calls past their line only.

**`CodingAttemptProofs`**, of the slot: `TypeCorrect`, `OneAttempt`, `ReviewExclusive`, `Uncorrupted`, `ReviewKept`, `WorkAccepted`.
`Sound` says of a slot what its validation checks and what is true besides; each of the four writes keeps it under the
conditions its call has checked. `CallOK` says of a controller that while its attempt runs the slot is reserved for just this
attempt and looks as it did in the old snapshot, so that the record it will build fits. `Uncorrupted` rests on the candidate ids: every id
a record has installed is the active one or a historical one (`Installable`), so that while an attempt is reserved the only id in use is
that of its parent (`ParentOnly`), and any other lets the record pass (`InstallPasses`). Of the attempt: `ImplementsSlot` (each step
of the composition is one of `CodingSlot` or a stutter, so the theorems above hold of it), `NobodyOutlives`, `ReportsAreTrue`,
`SuccessIsUndisturbed`, `ReservedWork`. `RootInv`: until it is in the job the root is suspended and alone, and from then on every
closing of the job reaches the whole tree. `NoteInv`: somebody at work is terminated only where the time-out or the error is noted, or
where the call will raise.

**`HumanPauseProofs`** — `TypeCorrect`, `RequestOnFile`, `ResumesRecorded`, `ResumesApproved`. A file is written only by the one engine
that created it, so once whole it never changes; and as long as the row of its task has not moved since, a call knows the
state it was prepared in. A commit happens only then, with its file whole.

**`TaskLifecycleProofs`** — `TypeCorrect`, `PlannedOnce`, `NothingSlipsThrough`, `MeasuredAfterFix`, `TailsVerify`, `NeverStuck`.
Judged by where it paused, a task passes from the states before its plan to those in between and on to those after its
verification, and never returns. So there is one plan, one verification and one fix cycle that the gates of INTEGRATING and
VERIFIED look at; the parts of `IInv` say which events the lineage must hold at each stage (`Linked`, `Planned`, `Verified`, `Closing`,
`Kinds`, `Stamped`).

**`AuditGenerationsProofs`** — `LineageAlwaysReadable`, `RollbackNeverLeavesGeneration`, `FirstStartEventDecides`, `LineageOnlyGrows`, and of the
contracts alone `RollbackRecordUnstorable` and `OnlyAcceptedStarts`. Every generation up to the current one has its first row
(`Headed`), so the coordinate a start event needs is free only for a recovery that goes back to an event of the current
generation (`FreeCoordinate`); hence each generation continues the one before it (`Started`), at a row that is still there.
The proof that the reader succeeds hands it the sequence number at which it stops in each generation.

**`TrustedQueriesProofs`** — `TypeCorrect`, `ReportsAreCurrent`, `CapturesMatch`, `CommitsAreVerified`, `AlarmsHaveCauses`, from
`TrustedQueriesAssumption` (the projects a call may find are legal histories, `None` is no state) and `CallsAssumption` (the calls have
scripts). The first half is about the scripts alone. A script is `WellFormed` when each instruction finds what it
relies on (`Needs`, `Gives`, `Provided`) and the two halves of `list_pending` stay together (`Paired`); since every script is built by
concatenation, it suffices that a concatenation of well-formed scripts is well-formed if the first gives what the second needs
(`Then`, `Joined`), for any number of tasks. Scripts that commit are `Careful` as well: each file they commit is
bound after it has been validated and looked at again. `ScriptForm` collects this. The second half is about behaviours. Every
action of the reader is one `Look`: it finds something, notes it and goes on to the next instruction that applies (`ReadsLook`).
So what a left-behind instruction has established can be stated by its place in the script: what was seen
of a lineage is a beginning of it (`SeenEarlier`, which is why a lineage that is equal again has never moved), that a task's call has its task
(`TaskFound`), that at the comparison of two queues the second is still true (`QueueCurrent`), that the capture
opened was once true (`CaptureNoted`), that read and bound evidence is valid and is on disk unless an edit was late (`EvidenceNoted`),
and that in a quiet store everything read is what is there (`Undisturbed`). None of the four properties is inductive without these,
because each speaks of the end of the call only.

Only model-checked is liveness under fairness (`EveryCallReturns`, `PauseEnds`, `ReservationEnds`), because the proof system
does not reason about `ENABLED`, on which fairness is defined; and the three violations, which are witnesses. Only proved:
`AuditGenerations`.

## Not modelled

The `components` list of `PROJECT.json` says what and why. In short: the labels that policy routing computes for risk, skills and models, on which
no transition depends; the shape checks of contracts, field by field; the construction and comparison of packets and
handoff receipts, which are pure; reading a clone and parsing an agent's events; the command line; scripts, schemas and templates.
Of the workflow contracts, transition transactions and the recovery and transition branches of the idempotency record have no caller in
`src/`. Of the trusted queries, the verifications of captured overviews, queues and resolution
previews and the chain from a resolution to a resume gate are left out: they repeat the modelled scripts up to four times, and with them
the number of interleavings is out of TLC's reach. The retry of `write_idempotency_record_once` that finds its record and never writes the
export files (`workflow_store.py:2135`) has no property because nothing in the engine reads these files.

## How the parts were ordered

The lock and authority protocol and the ledger come first because everything else rests on them; then the human decisions, the slot and
the gates, which decide what happens to a task; then the queries that only read. Creation of the store and the bounded
process stand below the first and the fourth; the proofs follow the modules, and the recovery contracts come last, since no
code of the repository executes them. What could follow: the remaining captured verifications on one task, an abstract
call that `TrustedQueries` implements, and the transition transactions of the contracts.
