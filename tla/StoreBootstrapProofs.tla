------------------------- MODULE StoreBootstrapProofs -------------------------
(***************************************************************************)
(* OneAuthority and UnusableOnlyAfterFailure of StoreBootstrap, for every  *)
(* number of processes and ids.                                            *)
(*                                                                         *)
(* The argument: once the root has been opened under first, every marker   *)
(* and every marker that was read carries first, and the row does as long  *)
(* as the database is there.  A creator that is still on its way to the    *)
(* INSERT either finds the row taken or the root was never opened.         *)
(***************************************************************************)
EXTENDS StoreBootstrap, TLAPS

\* The row needs its table; whoever is on the way knows what it needs.
Stages ==
    /\ row # None => file = "tables"
    /\ \A p \in Procs :
          /\ pc[p] \in {"reopen", "validate"} => mark[p] # None
          /\ pc[p] \in Creating \cup {"connect"} => id[p] # None
          /\ pc[p] = "insert" => file = "tables"

\* Whatever names an authority names the one the root was opened under.
Bound ==
    /\ \A p \in Procs :
          /\ pc[p] = "open" => first # None /\ id[p] = first
          /\ mark[p] # None => first # None /\ mark[p].id = first
    /\ first # None => row \in {first, None}
    /\ marker # None => marker.id = first
    /\ marker # None /\ lost # "database" => row = first /\ marker.gen <= gen
    /\ marker = None /\ first # None => row = first /\ lost = "marker"

\* A creator on its way meets a taken row or a root that was never opened; one
\* that has inserted its row is alone and before any marker.
Creation ==
    \A p \in Procs :
        /\ pc[p] \in {"connect", "schema", "insert"} /\ row = None => first = None
        /\ pc[p] = "publish" => row = id[p] /\ first = None
        /\ \A q \in Procs : pc[p] = "publish" /\ pc[q] = "publish" => p = q

\* As long as nothing has failed, a database without a marker is being created,
\* and a row without a marker by the one who inserted it.
Unharmed ==
    marker = None /\ ~ hurt /\ lost = "nothing" =>
        /\ file # "absent" => \E p \in Procs : pc[p] \in Creating
        /\ row # None => \E p \in Procs : pc[p] = "publish"

IInv == TypeOK /\ Stages /\ Bound /\ Creation /\ Unharmed

-----------------------------------------------------------------------------
\* The invariant holds of a root that nobody has opened.
LEMMA InitIInv == Init => IInv
<1> SUFFICES ASSUME Init PROVE IInv
  OBVIOUS
<1>1. TypeOK
  BY StoreBootstrapAssumption DEF Init, TypeOK, PCs, Outcomes
<1>2. Stages /\ Bound /\ Creation /\ Unharmed
  BY DEF Init, Stages, Bound, Creation, Unharmed, Creating
<1>3. QED
  BY <1>1, <1>2 DEF IInv

-----------------------------------------------------------------------------
(* One lemma per action.                                                   *)

\* A start reads the marker: what it knows is what is published.
LEMMA ReadMarkerKeeps ==
  ASSUME IInv, NEW p \in Procs, ReadMarker(p)
  PROVE  IInv'
<1> USE StoreBootstrapAssumption DEF IInv, TypeOK, Stages, ReadMarker, Goto, rootVars, ghosts
<1>1. TypeOK'
  BY DEF PCs, Creating, Outcomes
<1>2. Stages'
  BY DEF Creating
<1>3. Bound'
  BY DEF Bound, Creation, Creating, Markers
<1>4. Creation'
  BY DEF Bound, Creation, Creating
<1>5. Unharmed'
  BY DEF Bound, Creation, Unharmed, Creating
<1>6. QED
  BY <1>1, <1>2, <1>3, <1>4, <1>5 DEF IInv

\* A start that goes on knows which files it saw.
LEMMA CheckPathKeeps ==
  ASSUME IInv, NEW p \in Procs, CheckPath(p)
  PROVE  IInv'
<1> USE StoreBootstrapAssumption DEF IInv, TypeOK, Stages, CheckPath, Goto, Raise, Leave, rootVars, procVars, ghosts, PathAsks
<1>1. TypeOK'
  BY DEF PCs, Creating, Outcomes
<1>2. Stages'
  BY DEF Creating
<1>3. Bound'
  BY DEF Bound, Creation, Creating, Markers
<1>4. Creation'
  BY DEF Bound, Creation, Creating
<1>5. Unharmed'
  BY DEF Bound, Creation, Unharmed, Creating
<1>6. QED
  BY <1>1, <1>2, <1>3, <1>4, <1>5 DEF IInv

\* An empty root was never opened: neither marker nor database.
LEMMA CheckFreshKeeps ==
  ASSUME IInv, NEW p \in Procs, NEW a \in Ids, CheckFresh(p, a)
  PROVE  IInv'
<1> USE StoreBootstrapAssumption DEF IInv, TypeOK, Stages, CheckFresh, Goto, Raise, Leave, rootVars, procVars, ghosts, RootIsEmpty
<1>1. TypeOK'
  BY DEF PCs, Creating, Outcomes
<1>2. Stages'
  BY DEF Creating
<1>3. Bound'
  BY DEF Bound, Creation, Creating, Markers
<1>4. Creation'
  BY DEF Bound, Creation, Creating
<1>5. Unharmed'
  BY DEF Bound, Creation, Unharmed, Creating
<1>6. QED
  BY <1>1, <1>2, <1>3, <1>4, <1>5 DEF IInv

\* Opening the file changes no row.
LEMMA ConnectKeeps ==
  ASSUME IInv, NEW p \in Procs, Connect(p)
  PROVE  IInv'
<1> USE StoreBootstrapAssumption DEF IInv, TypeOK, Stages, Connect, Goto, ghosts
<1>1. TypeOK'
  BY DEF PCs, Creating, Outcomes
<1>2. Stages'
  BY DEF Creating
<1>3. Bound'
  BY DEF Bound, Creation, Creating, Markers
<1>4. Creation'
  BY DEF Bound, Creation, Creating
<1>5. Unharmed'
  BY DEF Bound, Creation, Unharmed, Creating
<1>6. QED
  BY <1>1, <1>2, <1>3, <1>4, <1>5 DEF IInv

\* Neither does its schema.
LEMMA CreateSchemaKeeps ==
  ASSUME IInv, NEW p \in Procs, CreateSchema(p)
  PROVE  IInv'
<1> USE StoreBootstrapAssumption DEF IInv, TypeOK, Stages, CreateSchema, Goto, ghosts
<1>1. TypeOK'
  BY DEF PCs, Creating, Outcomes
<1>2. Stages'
  BY DEF Creating
<1>3. Bound'
  BY DEF Bound, Creation, Creating, Markers
<1>4. Creation'
  BY DEF Bound, Creation, Creating
<1>5. Unharmed'
  BY DEF Bound, Creation, Unharmed, Creating
<1>6. QED
  BY <1>1, <1>2, <1>3, <1>4, <1>5 DEF IInv

\* A creator gives up only for another one.
LEMMA LockedKeeps ==
  ASSUME IInv, NEW p \in Procs, Locked(p)
  PROVE  IInv'
<1> USE StoreBootstrapAssumption DEF IInv, TypeOK, Stages, Locked, Goto, Raise, Leave, rootVars, procVars, ghosts
<1>1. TypeOK'
  BY DEF PCs, Creating, Outcomes
<1>2. Stages'
  BY DEF Creating
<1>3. Bound'
  BY DEF Bound, Creation, Creating, Markers
<1>4. Creation'
  BY DEF Bound, Creation, Creating
<1>5. Unharmed'
  BY DEF Bound, Creation, Unharmed, Creating
<1>6. QED
  BY <1>1, <1>2, <1>3, <1>4, <1>5 DEF IInv

\* The INSERT succeeds in a root that was never opened, once.
LEMMA InsertAuthorityKeeps ==
  ASSUME IInv, NEW p \in Procs, InsertAuthority(p)
  PROVE  IInv'
<1> USE StoreBootstrapAssumption DEF IInv, TypeOK, Stages, InsertAuthority, Goto, Raise, Leave, rootVars, procVars, ghosts, SingletonFree
<1>1. TypeOK'
  BY DEF PCs, Creating, Outcomes
<1>2. Stages'
  BY DEF Creating
<1>3. Bound'
  BY DEF Bound, Creation, Creating, Markers
<1>4. Creation'
  BY DEF Bound, Creation, Creating
<1>5. Unharmed'
  BY DEF Bound, Creation, Unharmed, Creating
<1>6. QED
  BY <1>1, <1>2, <1>3, <1>4, <1>5 DEF IInv

\* The first marker names the row of the one creator that inserted.
LEMMA PublishMarkerKeeps ==
  ASSUME IInv, NEW p \in Procs, PublishMarker(p)
  PROVE  IInv'
<1> USE StoreBootstrapAssumption DEF IInv, TypeOK, Stages, PublishMarker, Goto, Opened, Marker, Markers, ghosts
<1>1. TypeOK'
  BY DEF PCs, Creating, Outcomes
<1>2. Stages'
  BY DEF Creating
<1>3. Bound'
  BY DEF Bound, Creation, Creating, Markers
<1>4. Creation'
  BY DEF Bound, Creation, Creating
<1>5. Unharmed'
  BY DEF Bound, Creation, Unharmed, Creating
<1>6. QED
  BY <1>1, <1>2, <1>3, <1>4, <1>5 DEF IInv

\* A failed publication is a failure.
LEMMA PublishFailsKeeps ==
  ASSUME IInv, NEW p \in Procs, PublishFails(p)
  PROVE  IInv'
<1> USE StoreBootstrapAssumption DEF IInv, TypeOK, Stages, PublishFails, Leave, Goto, rootVars
<1>1. TypeOK'
  BY DEF PCs, Creating, Outcomes
<1>2. Stages'
  BY DEF Creating
<1>3. Bound'
  BY DEF Bound, Creation, Creating, Markers
<1>4. Creation'
  BY DEF Bound, Creation, Creating
<1>5. Unharmed'
  BY DEF Bound, Creation, Unharmed, Creating
<1>6. QED
  BY <1>1, <1>2, <1>3, <1>4, <1>5 DEF IInv

\* The marker that is read again is checked against the first.
LEMMA ReopenKeeps ==
  ASSUME IInv, NEW p \in Procs, Reopen(p)
  PROVE  IInv'
<1> USE StoreBootstrapAssumption DEF IInv, TypeOK, Stages, Reopen, Goto, Raise, Leave, rootVars, procVars, ghosts
<1>1. TypeOK'
  BY DEF PCs, Creating, Outcomes
<1>2. Stages'
  BY DEF Creating
<1>3. Bound'
  BY DEF Bound, Creation, Creating, Markers
<1>4. Creation'
  BY DEF Bound, Creation, Creating
<1>5. Unharmed'
  BY DEF Bound, Creation, Unharmed, Creating
<1>6. QED
  BY <1>1, <1>2, <1>3, <1>4, <1>5 DEF IInv

\* What an opened store returns, and the repaired marker, are the row's.
LEMMA ValidateKeeps ==
  ASSUME IInv, NEW p \in Procs, Validate(p)
  PROVE  IInv'
<1> USE StoreBootstrapAssumption DEF IInv, TypeOK, Stages, Validate, Goto, Raise, Leave, rootVars, procVars, ghosts, Opened, Marker, Markers, Authentic
<1>1. TypeOK'
  BY DEF PCs, Creating, Outcomes
<1>2. Stages'
  BY DEF Creating
<1>3. Bound'
  BY DEF Bound, Creation, Creating, Markers
<1>4. Creation'
  BY DEF Bound, Creation, Creating
<1>5. Unharmed'
  BY DEF Bound, Creation, Unharmed, Creating
<1>6. QED
  BY <1>1, <1>2, <1>3, <1>4, <1>5 DEF IInv

\* Lock changes keep the id and move the generation on.
LEMMA LockChangeKeeps ==
  ASSUME IInv, NEW p \in Procs, LockChange(p)
  PROVE  IInv'
<1> USE StoreBootstrapAssumption DEF IInv, TypeOK, Stages, LockChange, Marker, Markers, procVars, ghosts
<1>1. TypeOK'
  BY DEF PCs, Creating, Outcomes
<1>2. Stages'
  BY DEF Creating
<1>3. Bound'
  BY DEF Bound, Creation, Creating, Markers
<1>4. Creation'
  BY DEF Bound, Creation, Creating
<1>5. Unharmed'
  BY DEF Bound, Creation, Unharmed, Creating
<1>6. QED
  BY <1>1, <1>2, <1>3, <1>4, <1>5 DEF IInv

\* Closing forgets only the process's own id.
LEMMA CloseKeeps ==
  ASSUME IInv, NEW p \in Procs, Close(p)
  PROVE  IInv'
<1> USE StoreBootstrapAssumption DEF IInv, TypeOK, Stages, Close, Leave, Goto, rootVars, ghosts
<1>1. TypeOK'
  BY DEF PCs, Creating, Outcomes
<1>2. Stages'
  BY DEF Creating
<1>3. Bound'
  BY DEF Bound, Creation, Creating, Markers
<1>4. Creation'
  BY DEF Bound, Creation, Creating
<1>5. Unharmed'
  BY DEF Bound, Creation, Unharmed, Creating
<1>6. QED
  BY <1>1, <1>2, <1>3, <1>4, <1>5 DEF IInv

\* A crash in the middle of a creation is a failure.
LEMMA CrashKeeps ==
  ASSUME IInv, NEW p \in Procs, Crash(p)
  PROVE  IInv'
<1> USE StoreBootstrapAssumption DEF IInv, TypeOK, Stages, Crash, Leave, Goto, rootVars
<1>1. TypeOK'
  BY DEF PCs, Creating, Outcomes
<1>2. Stages'
  BY DEF Creating
<1>3. Bound'
  BY DEF Bound, Creation, Creating, Markers
<1>4. Creation'
  BY DEF Bound, Creation, Creating
<1>5. Unharmed'
  BY DEF Bound, Creation, Unharmed, Creating
<1>6. QED
  BY <1>1, <1>2, <1>3, <1>4, <1>5 DEF IInv

\* Losing a file is remembered, and happens to no creator.
LEMMA LoseKeeps ==
  ASSUME IInv, Lose
  PROVE  IInv'
<1> USE StoreBootstrapAssumption DEF IInv, TypeOK, Stages, Lose, procVars, ghosts
<1>1. TypeOK'
  BY DEF PCs, Creating, Outcomes
<1>2. Stages'
  BY DEF Creating
<1>3. Bound'
  BY DEF Bound, Creation, Creating, Markers
<1>4. Creation'
  BY DEF Bound, Creation, Creating
<1>5. Unharmed'
  BY DEF Bound, Creation, Unharmed, Creating
<1>6. QED
  BY <1>1, <1>2, <1>3, <1>4, <1>5 DEF IInv

-----------------------------------------------------------------------------
\* IInv is inductive.
LEMMA NextKeepsIInv == IInv /\ [Next]_vars => IInv'
<1> SUFFICES ASSUME IInv, [Next]_vars PROVE IInv'
  OBVIOUS
<1>1. CASE UNCHANGED vars
  BY <1>1 DEF IInv, TypeOK, Stages, Bound, Creation, Unharmed, vars, rootVars,
     procVars, ghosts
<1>2. CASE \E p \in Procs, a \in Ids : CheckFresh(p, a)
  BY <1>2, CheckFreshKeeps
<1>3. CASE \E p \in Procs : ReadMarker(p)
  BY <1>3, ReadMarkerKeeps
<1>4. CASE \E p \in Procs : CheckPath(p)
  BY <1>4, CheckPathKeeps
<1>5. CASE \E p \in Procs : Connect(p)
  BY <1>5, ConnectKeeps
<1>6. CASE \E p \in Procs : CreateSchema(p)
  BY <1>6, CreateSchemaKeeps
<1>7. CASE \E p \in Procs : Locked(p)
  BY <1>7, LockedKeeps
<1>8. CASE \E p \in Procs : InsertAuthority(p)
  BY <1>8, InsertAuthorityKeeps
<1>9. CASE \E p \in Procs : PublishMarker(p)
  BY <1>9, PublishMarkerKeeps
<1>10. CASE \E p \in Procs : PublishFails(p)
  BY <1>10, PublishFailsKeeps
<1>11. CASE \E p \in Procs : Reopen(p)
  BY <1>11, ReopenKeeps
<1>12. CASE \E p \in Procs : Validate(p)
  BY <1>12, ValidateKeeps
<1>13. CASE \E p \in Procs : LockChange(p)
  BY <1>13, LockChangeKeeps
<1>14. CASE \E p \in Procs : Close(p)
  BY <1>14, CloseKeeps
<1>15. CASE \E p \in Procs : Crash(p)
  BY <1>15, CrashKeeps
<1>16. CASE Lose
  BY <1>16, LoseKeeps
<1>17. QED
  BY <1>1, <1>2, <1>3, <1>4, <1>5, <1>6, <1>7, <1>8, <1>9, <1>10, <1>11, <1>12, <1>13, <1>14, <1>15, <1>16 DEF Next

\* IInv holds of every root, whoever starts on it.
LEMMA IInvHolds == Spec => []IInv
  BY InitIInv, NextKeepsIInv, PTL DEF Spec

\* Type correctness of the creation of a store, for every set of processes.
THEOREM TypeCorrect == Spec => []TypeOK
<1>1. IInv => TypeOK
  BY DEF IInv
<1>2. QED
  BY IInvHolds, <1>1, PTL

\* However many processes start on one root, all that open it, its database and
\* its marker agree on one authority.
THEOREM Agreement == Spec => []OneAuthority
<1>1. IInv => OneAuthority
  BY DEF IInv, Bound, OneAuthority
<1>2. QED
  BY IInvHolds, <1>1, PTL

\* Two creators that race never leave a database that no start accepts: only a
\* crash, a failed marker write or a lost file does.
THEOREM RacesDoNoHarm == Spec => []UnusableOnlyAfterFailure
<1>1. IInv => UnusableOnlyAfterFailure
  BY DEF IInv, Unharmed, UnusableOnlyAfterFailure
<1>2. QED
  BY IInvHolds, <1>1, PTL
===============================================================================
