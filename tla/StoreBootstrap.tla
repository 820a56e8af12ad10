---------------------------- MODULE StoreBootstrap ----------------------------
(***************************************************************************)
(* How WorkflowStore opens a state root: _initialize_control_store of      *)
(* acgps/workflow_store.py creates control.sqlite3 and its authority       *)
(* marker in a fresh root, or validates what is there.                     *)
(*                                                                         *)
(* Nothing excludes two processes that start on one root.  Each reads the  *)
(* marker, then looks for the database, then for any other file, and only  *)
(* then connects, which creates the database file.  Schema and authority   *)
(* row follow in transactions of their own and the marker comes last, so   *)
(* a process may meet, or die and leave, every stage of the creation.      *)
(* Afterwards the locks of AuthorityLock advance generation and marker;    *)
(* here a lock change is one step.                                         *)
(***************************************************************************)
EXTENDS Naturals

CONSTANTS Procs,    \* processes that open the state root
          Ids,      \* authority ids: secrets.token_hex(16)
          None,     \* no row, no marker, no id
          MaxGen,   \* bound: no lock changes beyond this generation
          CanFail   \* whether processes crash and marker writes fail

ASSUME StoreBootstrapAssumption ==
    /\ None \notin Ids
    /\ None \notin [id : Ids, gen : Nat]
    /\ MaxGen \in Nat
    /\ CanFail \in BOOLEAN

VARIABLES
    file,     \* control.sqlite3: absent, empty, or with its tables
    row,      \* the authority id in control_authority, committed
    gen,      \* its authority_generation
    marker,   \* the marker file: an id and a generation, or None
    foreign,  \* whether the root holds files of something else
    lost,     \* which file the operator has lost, if any
    pc,       \* where each process is
    mark,     \* the marker a process read
    id,       \* the authority id it creates or has opened
    outcome,  \* how its last start ended
    first,    \* ghost: the id under which the root was first opened
    hurt      \* ghost: whether a creation was cut short

rootVars == <<file, row, gen, marker, foreign, lost>>
procVars == <<pc, mark, id, outcome>>
ghosts   == <<first, hurt>>
vars == <<rootVars, procVars, ghosts>>

Marker(a, g) == [id |-> a, gen |-> g]
Markers == [id : Ids, gen : Nat]

Creating == {"schema", "insert", "publish"}
PCs == {"idle", "path", "fresh", "connect", "reopen", "validate", "open"}
          \cup Creating
Outcomes == {"none", "opened", "missing", "notFresh", "migration", "corrupt",
             "initializationFailed", "crashed"}

Init ==
    /\ file = "absent"
    /\ row = None
    /\ gen = 0
    /\ marker = None
    /\ foreign \in BOOLEAN
    /\ lost = "nothing"
    /\ pc = [p \in Procs |-> "idle"]
    /\ mark = [p \in Procs |-> None]
    /\ id = [p \in Procs |-> None]
    /\ outcome = [p \in Procs |-> "none"]
    /\ first = None
    /\ hurt = FALSE

-----------------------------------------------------------------------------
Goto(p, l) == pc' = [pc EXCEPT ![p] = l]

\* The start fails, or the process ends: what it knew is gone.
Leave(p, how) ==
    /\ Goto(p, "idle")
    /\ mark' = [mark EXCEPT ![p] = None]
    /\ id' = [id EXCEPT ![p] = None]
    /\ outcome' = [outcome EXCEPT ![p] = how]

Raise(p, how) == Leave(p, how) /\ UNCHANGED <<rootVars, ghosts>>

\* The constructor returns a store bound to authority a.
Opened(p, a) ==
    /\ Goto(p, "open")
    /\ id' = [id EXCEPT ![p] = a]
    /\ mark' = [mark EXCEPT ![p] = None]
    /\ outcome' = [outcome EXCEPT ![p] = "opened"]
    /\ first' = IF first = None THEN a ELSE first

\* _read_authority_marker.
ReadMarker(p) ==
    /\ pc[p] = "idle"
    /\ Goto(p, "path")
    /\ mark' = [mark EXCEPT ![p] = marker]
    /\ outcome' = [outcome EXCEPT ![p] = "none"]
    /\ UNCHANGED <<rootVars, id, ghosts>>

\* What database and marker together ask for.
PathAsks(p) ==
    CASE file = "absent" /\ mark[p] # None -> "missing"
      [] file = "absent" /\ mark[p] = None -> "fresh"
      [] file # "absent" /\ mark[p] = None -> "migration"
      [] OTHER -> "reopen"

\* path.exists(): create, reopen or refuse.
CheckPath(p) ==
    /\ pc[p] = "path"
    /\ \/ /\ PathAsks(p) \in {"fresh", "reopen"}
          /\ Goto(p, PathAsks(p))
          /\ UNCHANGED <<rootVars, mark, id, outcome, ghosts>>
       \/ /\ PathAsks(p) \in {"missing", "migration"}
          /\ Raise(p, PathAsks(p))

\* _state_root_is_fresh_for_initialization: no file of any kind.
RootIsEmpty == file = "absent" /\ marker = None /\ ~ foreign

\* A new random authority id is drawn once the root has been found empty.
CheckFresh(p, a) ==
    /\ pc[p] = "fresh"
    /\ \/ /\ RootIsEmpty
          /\ id' = [id EXCEPT ![p] = a]
          /\ Goto(p, "connect")
          /\ UNCHANGED <<rootVars, mark, outcome, ghosts>>
       \/ /\ ~ RootIsEmpty
          /\ Raise(p, "notFresh")

\* sqlite3.connect creates the file, or opens the one that came in between.
Connect(p) ==
    /\ pc[p] = "connect"
    /\ file' = IF file = "absent" THEN "empty" ELSE file
    /\ Goto(p, "schema")
    /\ UNCHANGED <<row, gen, marker, foreign, lost, mark, id, outcome, ghosts>>

\* Version pragmas, WAL mode and CREATE TABLE IF NOT EXISTS.
CreateSchema(p) ==
    /\ pc[p] = "schema"
    /\ file' = "tables"
    /\ Goto(p, "insert")
    /\ UNCHANGED <<row, gen, marker, foreign, lost, mark, id, outcome, ghosts>>

\* Mutation: a creator that finds the database locked after its insert gives up.
LockedAfterInsert(p) ==
    /\ pc[p] \in {"schema", "insert", "publish"}
    /\ Raise(p, "initializationFailed")

\* Another creator's lock outlasts the busy timeout, or WAL mode cannot be set
\* under it.
Locked(p) ==
    /\ pc[p] \in {"schema", "insert"}
    /\ \E q \in Procs \ {p} : pc[q] \in {"schema", "insert"}
    /\ Raise(p, "initializationFailed")

\* Mutation: INSERT OR REPLACE.
SingletonReplaced == TRUE

\* The singleton row of control_authority is still to be inserted.
SingletonFree == row = None

\* The INSERT decides between two creators; the loser raises.
InsertAuthority(p) ==
    /\ pc[p] = "insert"
    /\ \/ /\ SingletonFree
          /\ row' = id[p]
          /\ gen' = 0
          /\ Goto(p, "publish")
          /\ UNCHANGED <<file, marker, foreign, lost, mark, id, outcome, ghosts>>
       \/ /\ ~ SingletonFree
          /\ Raise(p, "initializationFailed")

\* Generation and digest are read back and published, whatever the marker is.
PublishMarker(p) ==
    /\ pc[p] = "publish"
    /\ marker' = Marker(id[p], gen)
    /\ Opened(p, id[p])
    /\ UNCHANGED <<file, row, gen, foreign, lost, hurt>>

\* The marker file cannot be written: the constructor raises.
PublishFails(p) ==
    /\ CanFail
    /\ pc[p] = "publish"
    /\ Leave(p, "initializationFailed")
    /\ hurt' = TRUE
    /\ UNCHANGED <<rootVars, first>>

\* _control_connection reads the marker again and insists on the same authority.
Reopen(p) ==
    /\ pc[p] = "reopen"
    /\ \/ /\ marker # None
          /\ marker.id = mark[p].id
          /\ mark' = [mark EXCEPT ![p] = marker]
          /\ Goto(p, "validate")
          /\ UNCHANGED <<rootVars, id, outcome, ghosts>>
       \/ /\ marker = None \/ marker.id # mark[p].id
          /\ Raise(p, "corrupt")

\* The row must be of the marker's authority and not behind it.
Authentic(m) == file = "tables" /\ row = m.id /\ m.gen <= gen

\* _validate_control_store_connection and _reconcile_authority_marker, which
\* repairs a marker that is behind.
Validate(p) ==
    /\ pc[p] = "validate"
    /\ \/ /\ Authentic(mark[p])
          /\ \/ marker' = IF mark[p].gen < gen THEN Marker(row, gen) ELSE marker
             \/ CanFail /\ marker' = marker
          /\ Opened(p, row)
          /\ UNCHANGED <<file, row, gen, foreign, lost, hurt>>
       \/ /\ ~ Authentic(mark[p])
          /\ Raise(p, "corrupt")

-----------------------------------------------------------------------------
\* A lock is taken or released by an open store: see AuthorityLock.
LockChange(p) ==
    /\ pc[p] = "open"
    /\ gen < MaxGen
    /\ marker # None
    /\ marker.id = id[p]
    /\ row = id[p]
    /\ gen' = gen + 1
    /\ \/ marker' = Marker(row, gen + 1)
       \/ CanFail /\ marker' = marker
    /\ UNCHANGED <<file, row, foreign, lost, procVars, ghosts>>

Close(p) ==
    /\ pc[p] = "open"
    /\ Leave(p, "none")
    /\ UNCHANGED <<rootVars, ghosts>>

\* A process that dies while it creates the store leaves what it has committed.
Crash(p) ==
    /\ CanFail
    /\ pc[p] # "idle"
    /\ Leave(p, "crashed")
    /\ hurt' = (hurt \/ pc[p] \in Creating)
    /\ UNCHANGED <<rootVars, first>>

\* An operator loses the database, with its journal files, or the marker, while
\* no process is starting.
Lose ==
    /\ lost = "nothing"
    /\ \A p \in Procs : pc[p] \in {"idle", "open"}
    /\ \/ /\ file # "absent"
          /\ file' = "absent"
          /\ row' = None
          /\ gen' = 0
          /\ lost' = "database"
          /\ UNCHANGED marker
       \/ /\ marker # None
          /\ marker' = None
          /\ lost' = "marker"
          /\ UNCHANGED <<file, row, gen>>
    /\ UNCHANGED <<foreign, procVars, ghosts>>

-----------------------------------------------------------------------------
\* Nobody else has drawn a random id.
Unused(a) ==
    /\ a # row /\ a # first
    /\ marker # None => a # marker.id
    /\ \A p \in Procs : a # id[p]

Next ==
    \/ \E p \in Procs :
          \/ ReadMarker(p)
          \/ CheckPath(p)
          \/ \E a \in Ids : Unused(a) /\ CheckFresh(p, a)
          \/ Connect(p)
          \/ CreateSchema(p)
          \/ Locked(p)
          \/ InsertAuthority(p)
          \/ PublishMarker(p)
          \/ PublishFails(p)
          \/ Reopen(p)
          \/ Validate(p)
          \/ LockChange(p)
          \/ Close(p)
          \/ Crash(p)
    \/ Lose

Spec == Init /\ [][Next]_vars

-----------------------------------------------------------------------------
TypeOK ==
    /\ file \in {"absent", "empty", "tables"}
    /\ row \in Ids \cup {None}
    /\ gen \in Nat
    /\ marker \in Markers \cup {None}
    /\ foreign \in BOOLEAN
    /\ lost \in {"nothing", "database", "marker"}
    /\ pc \in [Procs -> PCs]
    /\ mark \in [Procs -> Markers \cup {None}]
    /\ id \in [Procs -> Ids \cup {None}]
    /\ outcome \in [Procs -> Outcomes]
    /\ first \in Ids \cup {None}
    /\ hurt \in BOOLEAN

\* However many processes start on one root, they agree on its authority: all
\* that have it open, the database and the marker name the id under which it was
\* first opened, and a marker never runs ahead of its database.  A second
\* _initialize_control_store neither replaces the store nor adopts another's.
OneAuthority ==
    /\ \A p \in Procs : pc[p] = "open" => id[p] = first
    /\ first # None => row \in {first, None}
    /\ marker # None =>
          /\ marker.id = first
          /\ lost # "database" => row = first /\ marker.gen <= gen

\* A database without a marker, which every later start refuses with "existing
\* control store requires explicit versioned migration", is only left behind by a
\* creator that died or could not write the marker, or by an operator: that two
\* processes create the store at once never leaves the root unusable.
UnusableOnlyAfterFailure ==
    file # "absent" /\ marker = None /\ ~ hurt /\ lost = "nothing"
    => \E p \in Procs : pc[p] \in Creating
=============================================================================
