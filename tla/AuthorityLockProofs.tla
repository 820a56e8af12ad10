------------------------- MODULE AuthorityLockProofs -------------------------
(***************************************************************************)
(* What holds of the per-task lock for any number of processes, keys,      *)
(* tokens and generations, with and without failures.                      *)
(***************************************************************************)
EXTENDS AuthorityLock, TLAPS

USE AuthorityLockAssumption DEF Nobody

\* A stamp is built from two generations and a row map.
LEMMA StampType ==
    \A g, a \in Nat, r \in RowMaps : Stamp(g, a, r) \in Stamps
  BY DEF Stamp, Stamps, Digests

\* The values the model resets things to have their types.
LEMMA GenesisType == NoRows \in RowMaps /\ Genesis \in Stamps
  BY StampType DEF NoRows, RowMaps, Genesis

\* The store as one transaction sees it is a stamp.
LEMMA CurrentType == TypeOK => Current \in Stamps
  BY StampType DEF Current, TypeOK

\* What the last SELECT completes is a stamp.
LEMMA ReadStampType ==
    ASSUME TypeOK, NEW p \in Procs
    PROVE  ReadStamp(p) \in Stamps
  BY StampType DEF ReadStamp, TypeOK, Stamps, Digests

\* The INSERT and the DELETE give a row map.
LEMMA RowsAfterType ==
    ASSUME TypeOK, NEW p \in Procs
    PROVE  RowsAfter(p) \in RowMaps
  BY DEF RowsAfter, TypeOK, RowMaps

\* The locals a returning call leaves behind are of their types.
LEMMA ReturnType ==
    ASSUME TypeOK, NEW p \in Procs, NEW how \in Outcomes, Return(p, how)
    PROVE  /\ pc' \in [Procs -> PCs]
           /\ op' \in [Procs -> {"none", "acquire", "release"}]
           /\ task' \in [Procs -> Tasks \cup {NoTask}]
           /\ inst' \in [Procs -> Instances \cup {NoLock}]
           /\ phase' \in [Procs -> {"open", "landed", "recheck"}]
           /\ mark' \in [Procs -> Stamps]
           /\ seen' \in [Procs -> Stamps]
           /\ base' \in [Procs -> Stamps]
           /\ target' \in [Procs -> Stamps]
           /\ outcome' \in [Procs -> Outcomes]
  BY GenesisType DEF Return, Goto, ForgetReads, ForgetTransaction, TypeOK, PCs

\* So an exception preserves the type invariant.
LEMMA RaiseType ==
    ASSUME TypeOK, NEW p \in Procs, NEW how \in Outcomes, Raise(p, how)
    PROVE  TypeOK'
  <1>1. Return(p, how)
    BY DEF Raise
  <1>2. /\ writer' \in Procs \cup {Nobody}
        /\ UNCHANGED <<gen, rows, marker, held>>
    BY DEF Raise, Rollback, TypeOK
  <1> QED
    BY <1>1, <1>2, ReturnType DEF TypeOK

-----------------------------------------------------------------------------
(* The inductive invariant.                                                *)

\* A call that has begun has a key and a token; the steps on each side of a
\* COMMIT, and those of the second connection, belong to their phase.
CallsInPhase ==
    \A p \in Procs :
        /\ pc[p] = "idle" => op[p] = "none" /\ inst[p] = NoLock
                             /\ phase[p] = "open"
        /\ pc[p] # "idle" => op[p] # "none" /\ task[p] \in Tasks
                             /\ inst[p] \in Instances
        /\ pc[p] \in {"begin", "commit", "holding"} => phase[p] = "open"
        /\ pc[p] \in {"compare", "publish"} => phase[p] = "landed"
        /\ pc[p] \in {"marker", "repair", "verify"} => phase[p] # "landed"
        /\ pc[p] = "verify" => phase[p] = "recheck"
        /\ pc[p] = "holding" \/ phase[p] = "recheck" => op[p] = "acquire"

\* SQLite's write lock is held exactly between BEGIN IMMEDIATE and COMMIT.
WriterCommits == \A p \in Procs : writer = p <=> pc[p] = "commit"

\* No two live calls share a token.
TokensDistinct ==
    \A p, q \in Procs : inst[p] = inst[q] /\ inst[p] # NoLock => p = q

\* A live token is in the lock table only as the row of its own key, and only
\* while its process owns that row.
TokensOnOwnRow ==
    \A p \in Procs, t \in Tasks :
        rows[t] = inst[p] /\ rows[t] # NoLock => t = task[p] /\ Owns(p)

\* A stamp that is not ahead of the store, and exact when level with it: safe to
\* be the marker, now and after any later COMMIT.
Recoverable(s) == s.gen <= gen /\ (s.gen = gen => s = Current)

\* The generation is read before the authority row, and that before the lock
\* rows, so whatever is published or written as a repair is recoverable.
ReadsInOrder ==
    \A p \in Procs :
        /\ phase[p] = "landed" => Recoverable(target[p])
        /\ pc[p] = "repair" => Recoverable(seen[p])
        /\ pc[p] = "authority" => seen[p].gen <= gen
        /\ pc[p] = "locks" => /\ seen[p].gen <= seen[p].digest.auth
                              /\ seen[p].digest.auth <= gen

Inv ==
    /\ TypeOK
    /\ CallsInPhase
    /\ WriterCommits
    /\ TokensDistinct
    /\ OwnerKeepsRow
    /\ TokensOnOwnRow
    /\ MarkerRecoverable
    /\ ReadsInOrder

-----------------------------------------------------------------------------
\* Each variable keeps its type in every step, given that calls are in phase.
LEMMA TypeStep ==
    ASSUME TypeOK, CallsInPhase, [Next]_vars
    PROVE  TypeOK'
<1> USE CurrentType, GenesisType, ReadStampType, RowsAfterType, RaiseType
<1> USE DEF storeVars, callVars, readVars, txVars, Goto
<1>1. CASE UNCHANGED vars
  BY <1>1 DEF vars, TypeOK
<1>2. ASSUME NEW p \in Procs, NEW t \in Tasks, Acquire(p, t) PROVE TypeOK'
  <2>1. inst' \in [Procs -> Instances \cup {NoLock}]
    BY <1>2 DEF Acquire, FreshInstances, TypeOK
  <2> QED
    BY <1>2, <2>1 DEF Acquire, TypeOK, PCs, Outcomes
<1>3. ASSUME NEW p \in Procs, Release(p) PROVE TypeOK'
  BY <1>3 DEF Release, TypeOK, PCs
<1>4. ASSUME NEW p \in Procs, ReadMarker(p) PROVE TypeOK'
  BY <1>4 DEF ReadMarker, TypeOK, PCs
<1>5. ASSUME NEW p \in Procs, ReadGeneration(p) PROVE TypeOK'
  BY <1>5, StampType DEF ReadGeneration, TypeOK, PCs
<1>6. ASSUME NEW p \in Procs, ReadAuthorityRow(p) PROVE TypeOK'
  <2>1. seen[p].gen \in Nat
    BY DEF TypeOK, Stamps
  <2> QED
    BY <1>6, <2>1, StampType DEF ReadAuthorityRow, TypeOK, PCs
<1>7. ASSUME NEW p \in Procs, ReadLockRows(p) PROVE TypeOK'
  <2>1. CASE Raise(p, "notLanded") \/ Raise(p, "corrupt")
    BY <2>1 DEF Outcomes
  <2>2. CASE pc' = [pc EXCEPT ![p] = "compare"] /\ ForgetReads(p)
             /\ UNCHANGED <<storeVars, callVars, phase, txVars, held, outcome>>
    BY <2>2 DEF ForgetReads, TypeOK, PCs
  <2>3. CASE pc' = [pc EXCEPT ![p] = AfterOpen(p)] /\ ForgetReads(p)
             /\ UNCHANGED <<storeVars, callVars, phase, txVars, held, outcome>>
    BY <2>3 DEF ForgetReads, AfterOpen, TypeOK, PCs
  <2>4. CASE pc' = [pc EXCEPT ![p] = "repair"]
             /\ seen' = [seen EXCEPT ![p] = ReadStamp(p)]
             /\ UNCHANGED <<storeVars, callVars, phase, mark, txVars, held,
                            outcome>>
    BY <2>4 DEF TypeOK, PCs
  <2> QED
    BY <1>7, <2>1, <2>2, <2>3, <2>4 DEF ReadLockRows
<1>8. ASSUME NEW p \in Procs, RepairMarker(p) PROVE TypeOK'
  <2>1. marker' \in Stamps
    BY <1>8 DEF RepairMarker, TypeOK
  <2> QED
    BY <1>8, <2>1 DEF RepairMarker, ForgetReads, AfterOpen, TypeOK, PCs
<1>9. ASSUME NEW p \in Procs, Begin(p) PROVE TypeOK'
  <2>1. CASE Raise(p, "corrupt")
    BY <2>1 DEF Outcomes
  <2>2. CASE ~ Raise(p, "corrupt")
    <3>1. marker' \in Stamps
      BY <1>9, <2>2 DEF Begin, TypeOK
    <3> QED
      BY <1>9, <2>2, <3>1 DEF Begin, TypeOK, PCs
  <2> QED
    BY <2>1, <2>2
<1>10. ASSUME NEW p \in Procs, BeginTimeout(p) PROVE TypeOK'
  BY <1>10 DEF BeginTimeout, Outcomes
<1>11. ASSUME NEW p \in Procs, InsertConflict(p) PROVE TypeOK'
  BY <1>11 DEF InsertConflict, Outcomes
<1>12. ASSUME NEW p \in Procs, Commit(p) PROVE TypeOK'
  <2>1. gen + 1 \in Nat /\ Stamp(gen + 1, gen + 1, RowsAfter(p)) \in Stamps
    BY StampType DEF TypeOK
  <2> QED
    BY <1>12, <2>1 DEF Commit, TypeOK, PCs
<1>13. ASSUME NEW p \in Procs, CommitFails(p) PROVE TypeOK'
  BY <1>13 DEF CommitFails, Outcomes
<1>14. ASSUME NEW p \in Procs, AfterPublish(p), UNCHANGED <<gen, rows, writer>>,
              marker' \in Stamps
       PROVE  TypeOK'
  <2>1. CASE op[p] = "release"
    <3>1. Return(p, "released") /\ held' = [held EXCEPT ![p] = @ \ {task[p]}]
      BY <1>14, <2>1 DEF AfterPublish
    <3>2. "released" \in Outcomes /\ held' \in [Procs -> SUBSET Tasks]
      BY <3>1 DEF Outcomes, TypeOK
    <3> QED
      BY <1>14, <3>1, <3>2, ReturnType DEF TypeOK
  <2>2. CASE op[p] # "release"
    BY <1>14, <2>2 DEF AfterPublish, ForgetTransaction, TypeOK, PCs
  <2> QED
    BY <2>1, <2>2
<1>15. ASSUME NEW p \in Procs, CompareMarker(p) PROVE TypeOK'
  <2>1. CASE AfterPublish(p)
    BY <1>15, <2>1, <1>14 DEF CompareMarker, TypeOK
  <2>2. CASE ~ AfterPublish(p)
    BY <1>15, <2>2 DEF CompareMarker, TypeOK, PCs
  <2> QED
    BY <2>1, <2>2
<1>16. ASSUME NEW p \in Procs, PublishMarker(p) PROVE TypeOK'
  BY <1>16, <1>14 DEF PublishMarker, TypeOK
<1>17. ASSUME NEW p \in Procs, VerifyRow(p) PROVE TypeOK'
  <2>1. CASE rows[task[p]] = inst[p]
    <3>1. pc[p] = "verify" /\ task[p] \in Tasks
      BY <1>17 DEF VerifyRow, CallsInPhase
    <3> QED
      BY <1>17, <2>1, <3>1 DEF VerifyRow, TypeOK, PCs, Outcomes
  <2>2. CASE rows[task[p]] # inst[p]
    BY <1>17, <2>2 DEF VerifyRow, Outcomes
  <2> QED
    BY <2>1, <2>2
<1>18. ASSUME NEW p \in Procs, Crash(p) PROVE TypeOK'
  <2>1. /\ writer' \in Procs \cup {Nobody}
        /\ held' \in [Procs -> SUBSET Tasks]
        /\ "crashed" \in Outcomes
    BY <1>18 DEF Crash, Rollback, TypeOK, Outcomes
  <2> QED
    BY <1>18, <2>1, ReturnType DEF Crash, TypeOK
<1> QED
  BY <1>1, <1>2, <1>3, <1>4, <1>5, <1>6, <1>7, <1>8, <1>9, <1>10, <1>11,
     <1>12, <1>13, <1>15, <1>16, <1>17, <1>18 DEF Next, Proceed

\* A call that returns or raises gives nothing away: its token and its reads are
\* forgotten, the committed row stays.
LEMMA LeaveStep ==
    ASSUME Inv, TypeOK', NEW p \in Procs, NEW how \in Outcomes, Return(p, how),
           writer' = Rollback(p), UNCHANGED <<gen, rows, marker>>
    PROVE  Inv'
<1> USE DEF Inv, Return, Goto, TypeOK
<1>1. CallsInPhase'
  BY DEF CallsInPhase
<1>2. WriterCommits'
  BY DEF WriterCommits, Rollback, PCs
<1>3. TokensDistinct'
  BY DEF TokensDistinct
<1>4. OwnerKeepsRow'
  BY DEF OwnerKeepsRow, Owns
<1>5. TokensOnOwnRow'
  BY DEF TokensOnOwnRow, Owns
<1>6. MarkerRecoverable'
  BY DEF MarkerRecoverable, Current
<1>7. ReadsInOrder'
  BY DEF ReadsInOrder, Recoverable, Current, ForgetReads, ForgetTransaction
<1> QED
  BY <1>1, <1>2, <1>3, <1>4, <1>5, <1>6, <1>7

\* An exception in any phase preserves the invariant.
LEMMA RaiseStep ==
    ASSUME Inv, TypeOK', NEW p \in Procs, NEW how \in Outcomes, Raise(p, how)
    PROVE  Inv'
  BY LeaveStep DEF Raise

\* A step that only moves a call on inside its phase keeps the claims on rows.
LEMMA MoveStep ==
    ASSUME Inv, NEW p \in Procs, NEW l \in PCs, pc[p] \notin {"idle", "holding"},
           l \notin {"idle", "holding"}, Goto(p, l),
           UNCHANGED <<rows, task, inst, op, phase>>
    PROVE  TokensDistinct' /\ OwnerKeepsRow' /\ TokensOnOwnRow'
<1> USE DEF Inv, Goto, TypeOK
<1>1. TokensDistinct'
  BY DEF TokensDistinct
<1>2. \A q \in Procs : Owns(q)' <=> Owns(q)
  BY DEF Owns
<1> QED
  BY <1>1, <1>2 DEF OwnerKeepsRow, TokensOnOwnRow

\* Stamps stay recoverable while the store does not change.
LEMMA SameStore ==
    ASSUME UNCHANGED <<gen, rows>>
    PROVE  \A s : Recoverable(s)' <=> Recoverable(s)
  BY DEF Recoverable, Current

\* ... and when a COMMIT raises its generation.
LEMMA LaterStore ==
    ASSUME TypeOK, gen' = gen + 1
    PROVE  \A s \in Stamps : Recoverable(s) => Recoverable(s)'
  BY DEF Recoverable, TypeOK, Stamps

\* A new call brings a fresh token, owns nothing yet.
LEMMA AcquireStep ==
    ASSUME Inv, TypeOK', NEW p \in Procs, NEW t \in Tasks, Acquire(p, t)
    PROVE  Inv'
<1> USE DEF Inv, Acquire, TypeOK, storeVars, readVars, txVars, Goto
<1>1. PICK i \in FreshInstances : inst' = [inst EXCEPT ![p] = i]
  OBVIOUS
<1>2. /\ i \in Instances
      /\ \A u \in Tasks : rows[u] # i
      /\ \A q \in Procs : inst[q] # i
  BY DEF FreshInstances
<1>3. CallsInPhase'
  BY <1>1, <1>2 DEF CallsInPhase
<1>4. WriterCommits'
  BY DEF WriterCommits
<1>5. TokensDistinct'
  BY <1>1, <1>2 DEF TokensDistinct
<1>6. OwnerKeepsRow'
  BY <1>1, <1>2 DEF OwnerKeepsRow, Owns, CallsInPhase
<1>7. TokensOnOwnRow'
  BY <1>1, <1>2 DEF TokensOnOwnRow, Owns, CallsInPhase
<1>8. MarkerRecoverable' /\ ReadsInOrder'
  BY SameStore DEF MarkerRecoverable, Current, ReadsInOrder
<1> QED
  BY <1>3, <1>4, <1>5, <1>6, <1>7, <1>8

\* A release starts with the row still its own.
LEMMA ReleaseStep ==
    ASSUME Inv, TypeOK', NEW p \in Procs, Release(p)
    PROVE  Inv'
<1> USE DEF Inv, Release, TypeOK, storeVars, readVars, txVars, Goto
<1>1. CallsInPhase' /\ WriterCommits' /\ TokensDistinct'
  BY DEF CallsInPhase, WriterCommits, TokensDistinct
<1>2. \A q \in Procs : Owns(q)' <=> Owns(q)
  BY DEF CallsInPhase, Owns
<1>3. OwnerKeepsRow' /\ TokensOnOwnRow'
  BY <1>2 DEF OwnerKeepsRow, TokensOnOwnRow
<1>4. MarkerRecoverable' /\ ReadsInOrder'
  BY SameStore DEF MarkerRecoverable, Current, ReadsInOrder
<1> QED
  BY <1>1, <1>3, <1>4

\* ReadMarker, ReadGeneration and ReadAuthorityRow.
LEMMA ReadStep ==
    ASSUME Inv, TypeOK', NEW p \in Procs,
           ReadMarker(p) \/ ReadGeneration(p) \/ ReadAuthorityRow(p)
    PROVE  Inv'
<1> USE DEF Inv, ReadMarker, ReadGeneration, ReadAuthorityRow, TypeOK,
            storeVars, callVars, txVars, Goto
<1>1. CallsInPhase' /\ WriterCommits'
  BY DEF CallsInPhase, WriterCommits
<1>2. TokensDistinct' /\ OwnerKeepsRow' /\ TokensOnOwnRow'
  BY MoveStep DEF PCs
<1>3. MarkerRecoverable'
  BY DEF MarkerRecoverable, Current
<1>4. ReadsInOrder'
  BY SameStore DEF ReadsInOrder, Stamp, Stamps
<1> QED
  BY <1>1, <1>2, <1>3, <1>4

\* The lock rows complete what was read: if the generation read first is still
\* the store's, then so is everything read after it.
LEMMA ReadStampRecoverable ==
    ASSUME Inv, NEW p \in Procs, pc[p] = "locks"
    PROVE  Recoverable(ReadStamp(p))
<1>1. /\ seen[p].gen \in Nat /\ seen[p].digest.auth \in Nat /\ gen \in Nat
      /\ seen[p].gen <= seen[p].digest.auth
      /\ seen[p].digest.auth <= gen
  BY DEF Inv, ReadsInOrder, TypeOK, Stamps, Digests
<1>2. seen[p].gen = gen => seen[p].digest.auth = gen
  BY <1>1
<1> QED
  BY <1>1, <1>2 DEF Recoverable, ReadStamp, Current, Stamp

\* The last SELECT either lets the call go on, or repairs, or raises.
LEMMA ReadLockRowsStep ==
    ASSUME Inv, TypeOK', NEW p \in Procs, ReadLockRows(p)
    PROVE  Inv'
<1> DEFINE Stays == UNCHANGED <<storeVars, callVars, phase, txVars>>
<1>1. CASE Raise(p, "notLanded") \/ Raise(p, "corrupt")
  BY <1>1, RaiseStep DEF Outcomes
<1>2. CASE /\ Stays
           /\ \/ /\ phase[p] = "landed"
                 /\ Goto(p, "compare")
                 /\ ForgetReads(p)
              \/ /\ phase[p] # "landed"
                 /\ Goto(p, AfterOpen(p))
                 /\ ForgetReads(p)
              \/ /\ phase[p] # "landed"
                 /\ Goto(p, "repair")
                 /\ seen' = [seen EXCEPT ![p] = ReadStamp(p)]
  <2> USE <1>2 DEF Inv, ReadLockRows, TypeOK, storeVars, callVars, txVars, Goto
  <2>1. pc[p] = "locks"
    OBVIOUS
  <2>2. CallsInPhase' /\ WriterCommits'
    BY <2>1 DEF CallsInPhase, WriterCommits, AfterOpen
  <2>3. TokensDistinct' /\ OwnerKeepsRow' /\ TokensOnOwnRow'
    BY <2>1, MoveStep DEF AfterOpen, PCs
  <2>4. MarkerRecoverable'
    BY DEF MarkerRecoverable, Current
  <2>5. ReadsInOrder'
    BY <2>1, SameStore, ReadStampRecoverable DEF ReadsInOrder, ForgetReads, AfterOpen
  <2> QED
    BY <2>2, <2>3, <2>4, <2>5
<1> QED
  BY <1>1, <1>2 DEF ReadLockRows

\* An unchecked repair writes a stamp that is recoverable.
LEMMA RepairMarkerStep ==
    ASSUME Inv, TypeOK', NEW p \in Procs, RepairMarker(p)
    PROVE  Inv'
<1> USE DEF Inv, RepairMarker, TypeOK, callVars, txVars, Goto
<1>1. CallsInPhase' /\ WriterCommits'
  BY DEF CallsInPhase, WriterCommits, AfterOpen
<1>2. TokensDistinct' /\ OwnerKeepsRow' /\ TokensOnOwnRow'
  BY MoveStep DEF AfterOpen, PCs
<1>3. MarkerRecoverable'
  BY DEF MarkerRecoverable, ReadsInOrder, Recoverable, Current
<1>4. ReadsInOrder'
  BY SameStore DEF ReadsInOrder, ForgetReads, AfterOpen
<1> QED
  BY <1>1, <1>2, <1>3, <1>4

\* A transaction begins with an exact stamp of the store as its base.
LEMMA BeginStep ==
    ASSUME Inv, TypeOK', NEW p \in Procs, Begin(p)
    PROVE  Inv'
<1>1. CASE Raise(p, "corrupt")
  BY <1>1, RaiseStep DEF Outcomes
<1>2. CASE /\ pc[p] = "begin" /\ writer = Nobody
           /\ marker' \in {Current, marker}
           /\ writer' = p
           /\ Goto(p, "commit")
           /\ UNCHANGED <<gen, rows, callVars, readVars, target>>
  <2> USE <1>2 DEF Inv, TypeOK, callVars, readVars, Goto
  <2>1. CallsInPhase' /\ WriterCommits'
    BY DEF CallsInPhase, WriterCommits
  <2>2. TokensDistinct' /\ OwnerKeepsRow' /\ TokensOnOwnRow'
    BY MoveStep DEF PCs
  <2>3. MarkerRecoverable'
    BY DEF MarkerRecoverable, Current, Stamp
  <2>4. ReadsInOrder'
    BY SameStore DEF ReadsInOrder
  <2> QED
    BY <2>1, <2>2, <2>3, <2>4
<1> QED
  BY <1>1, <1>2 DEF Begin

\* A COMMIT inserts its own row or deletes its own row.
LEMMA CommitStep ==
    ASSUME Inv, TypeOK', NEW p \in Procs, Commit(p)
    PROVE  Inv'
<1> USE DEF Inv, Commit, TypeOK, callVars, Goto
<1>1. CallsInPhase'
  BY DEF CallsInPhase
<1>2. WriterCommits'
  BY DEF WriterCommits
<1>3. TokensDistinct'
  BY DEF TokensDistinct
<1>4. OwnerKeepsRow'
  BY DEF OwnerKeepsRow, Owns, CallsInPhase, TokensDistinct, KeyFree, RowsAfter,
         RowMaps
<1>5. TokensOnOwnRow'
  BY DEF TokensOnOwnRow, Owns, CallsInPhase, TokensDistinct, RowsAfter, RowMaps
<1>6. MarkerRecoverable'
  BY DEF MarkerRecoverable, Stamps
<1>7. ReadsInOrder'
  BY LaterStore DEF ReadsInOrder, CallsInPhase, Recoverable, Current, Stamp, Stamps, Digests
<1> QED
  BY <1>1, <1>2, <1>3, <1>4, <1>5, <1>6, <1>7

\* The end of a publication, whatever it did to the marker.
LEMMA AfterPublishStep ==
    ASSUME Inv, TypeOK', NEW p \in Procs, pc[p] \in {"compare", "publish"},
           AfterPublish(p), UNCHANGED <<gen, rows, writer>>, MarkerRecoverable'
    PROVE  Inv'
<1> USE DEF Inv, AfterPublish, TypeOK, callVars, Goto
<1>1. CallsInPhase'
  BY DEF CallsInPhase, Return
<1>2. WriterCommits'
  BY DEF WriterCommits, Return, PCs
<1>3. TokensDistinct'
  BY DEF TokensDistinct, Return
<1>4. OwnerKeepsRow'
  BY DEF OwnerKeepsRow, Owns, Return, CallsInPhase
<1>5. TokensOnOwnRow'
  BY DEF TokensOnOwnRow, Owns, Return, CallsInPhase
<1>6. ReadsInOrder'
  <2>1. /\ pc'[p] \in {"idle", "marker"} /\ phase'[p] # "landed"
        /\ \A q \in Procs \ {p} : /\ pc'[q] = pc[q] /\ phase'[q] = phase[q]
                                  /\ target'[q] = target[q]
                                  /\ seen'[q] = seen[q]
    BY DEF Return, ForgetReads, ForgetTransaction
  <2>2. gen' = gen /\ rows' = rows
    OBVIOUS
  <2> HIDE DEF AfterPublish, TypeOK
  <2> QED
    BY <2>1, <2>2, SameStore DEF ReadsInOrder
<1> QED
  BY <1>1, <1>2, <1>3, <1>4, <1>5, <1>6

\* The comparison before a publication changes nothing that is shared.
LEMMA CompareMarkerStep ==
    ASSUME Inv, TypeOK', NEW p \in Procs, CompareMarker(p)
    PROVE  Inv'
<1>1. MarkerRecoverable' /\ UNCHANGED <<gen, rows, writer>>
      /\ pc[p] = "compare"
  BY DEF CompareMarker, Inv, MarkerRecoverable, Current, storeVars
<1>2. CASE AfterPublish(p)
  BY <1>1, <1>2, AfterPublishStep
<1>3. CASE Goto(p, "publish") /\ UNCHANGED <<callVars, readVars, txVars>>
  <2> USE <1>1, <1>3 DEF Inv, TypeOK, callVars, readVars, txVars, Goto
  <2>1. CallsInPhase' /\ WriterCommits'
    BY DEF CallsInPhase, WriterCommits
  <2>2. TokensDistinct' /\ OwnerKeepsRow' /\ TokensOnOwnRow'
    BY MoveStep DEF PCs
  <2>3. ReadsInOrder'
    BY SameStore DEF ReadsInOrder
  <2> QED
    BY <2>1, <2>2, <2>3
<1> QED
  BY <1>2, <1>3 DEF CompareMarker

\* A publication writes the stamp of a landed COMMIT.
LEMMA PublishMarkerStep ==
    ASSUME Inv, TypeOK', NEW p \in Procs, PublishMarker(p)
    PROVE  Inv'
<1>1. pc[p] = "publish" /\ UNCHANGED <<gen, rows, writer>> /\ AfterPublish(p)
      /\ marker' \in {target[p], marker}
  BY DEF PublishMarker
<1>2. Recoverable(target[p])
  BY <1>1 DEF Inv, CallsInPhase, ReadsInOrder
<1>3. MarkerRecoverable'
  BY <1>1, <1>2 DEF Inv, MarkerRecoverable, Recoverable, Current
<1> QED
  BY <1>1, <1>3, AfterPublishStep

\* Reading its own row back ends an acquisition as owner.
LEMMA VerifyRowStep ==
    ASSUME Inv, TypeOK', NEW p \in Procs, VerifyRow(p)
    PROVE  Inv'
<1>1. CASE Raise(p, "lost")
  BY <1>1, RaiseStep DEF Outcomes
<1>2. CASE /\ pc[p] = "verify"
           /\ Goto(p, "holding")
           /\ phase' = [phase EXCEPT ![p] = "open"]
           /\ UNCHANGED <<storeVars, callVars, mark, seen, txVars>>
  <2> USE <1>2 DEF Inv, TypeOK, storeVars, callVars, txVars, Goto
  <2>1. CallsInPhase' /\ WriterCommits' /\ TokensDistinct'
    BY DEF CallsInPhase, WriterCommits, TokensDistinct
  <2>2. \A q \in Procs : Owns(q)' <=> Owns(q)
    BY DEF CallsInPhase, Owns
  <2>3. OwnerKeepsRow' /\ TokensOnOwnRow'
    BY <2>2 DEF OwnerKeepsRow, TokensOnOwnRow
  <2>4. MarkerRecoverable' /\ ReadsInOrder'
    BY SameStore DEF MarkerRecoverable, Current, ReadsInOrder
  <2> QED
    BY <2>1, <2>3, <2>4
<1> QED
  BY <1>1, <1>2 DEF VerifyRow

-----------------------------------------------------------------------------
\* The invariant holds in every reachable state, for any number of processes,
\* keys and tokens and whatever crashes or fails.
THEOREM Invariance == Spec => []Inv
<1>1. Init => Inv
  <2> SUFFICES ASSUME Init PROVE Inv
    OBVIOUS
  <2>1. TypeOK
    BY GenesisType DEF Init, TypeOK, PCs, Outcomes
  <2>2. CallsInPhase /\ WriterCommits /\ TokensDistinct /\ OwnerKeepsRow /\ TokensOnOwnRow
    BY DEF Init, CallsInPhase, WriterCommits, TokensDistinct, OwnerKeepsRow,
           TokensOnOwnRow, Owns, NoRows
  <2>3. MarkerRecoverable /\ ReadsInOrder
    BY DEF Init, MarkerRecoverable, ReadsInOrder, Genesis, Current, Stamp
  <2> QED
    BY <2>1, <2>2, <2>3 DEF Inv
<1>2. Inv /\ [Next]_vars => Inv'
  <2> SUFFICES ASSUME Inv, [Next]_vars PROVE Inv'
    OBVIOUS
  <2>1. TypeOK'
    BY TypeStep DEF Inv
  <2>2. CASE UNCHANGED vars
    BY <2>1, <2>2 DEF Inv, vars, storeVars, callVars, readVars, txVars,
       CallsInPhase, WriterCommits, TokensDistinct, OwnerKeepsRow,
       TokensOnOwnRow, Owns, MarkerRecoverable, ReadsInOrder, Recoverable, Current
  <2>3. ASSUME NEW p \in Procs, Crash(p) PROVE Inv'
    BY <2>1, <2>3, LeaveStep DEF Crash, Outcomes
  <2>4. ASSUME NEW p \in Procs,
               BeginTimeout(p) \/ InsertConflict(p) \/ CommitFails(p)
        PROVE  Inv'
    BY <2>1, <2>4, RaiseStep DEF BeginTimeout, InsertConflict, CommitFails, Outcomes
  <2> QED
    BY <2>1, <2>2, <2>3, <2>4, AcquireStep, ReleaseStep, ReadStep,
       ReadLockRowsStep, RepairMarkerStep, BeginStep, CommitStep,
       CompareMarkerStep, PublishMarkerStep, VerifyRowStep DEF Next, Proceed
<1> QED
  BY <1>1, <1>2, PTL DEF Spec

\* Type correctness: every variable of the lock protocol keeps its type.
THEOREM TypeCorrect == Spec => []TypeOK
<1>1. Inv => TypeOK
  BY DEF Inv
<1> QED
  BY <1>1, Invariance, PTL

\* acquire_task_lock never gives one task's lock to two processes.
THEOREM Exclusion == Spec => []MutualExclusion
<1>1. Inv => MutualExclusion
  <2> SUFFICES ASSUME Inv, NEW p \in Procs, NEW q \in Procs,
                      pc[p] = "holding", pc[q] = "holding", task[p] = task[q]
               PROVE  p = q
    BY DEF MutualExclusion
  <2>1. inst[p] = rows[task[p]] /\ inst[q] = rows[task[p]]
    BY DEF Inv, OwnerKeepsRow, Owns
  <2>2. inst[p] # NoLock
    BY DEF Inv, CallsInPhase
  <2> QED
    BY <2>1, <2>2 DEF Inv, TokensDistinct
<1> QED
  BY <1>1, Invariance, PTL

\* A held lock's row is neither stolen nor lost before its release commits.
THEOREM RowsKept == Spec => []OwnerKeepsRow
<1>1. Inv => OwnerKeepsRow
  BY DEF Inv
<1> QED
  BY <1>1, Invariance, PTL

\* No interleaving of repairs and publications leaves a marker that the next
\* reconciliation under the write lock would have to call corrupt.
THEOREM MarkerNeverAhead == Spec => []MarkerRecoverable
<1>1. Inv => MarkerRecoverable
  BY DEF Inv
<1> QED
  BY <1>1, Invariance, PTL

-----------------------------------------------------------------------------
(* When the protocol raises an alarm.                                      *)

\* A call in progress carries no alarm of an earlier call.
AlarmsCleared ==
    \A p \in Procs : pc[p] # "idle" => outcome[p] \in {"none", "granted"}

\* The second connection of a COMMIT looks at the store after that COMMIT.
LandedReadsLater ==
    \A p \in Procs :
        phase[p] = "landed" /\ pc[p] \in {"authority", "locks"}
        => target[p].gen <= seen[p].gen

RaceInv == AlarmsCleared /\ LandedReadsLater

\* An acquisition forgets how the last call ended; a returning call is idle.
LEMMA AlarmsClearedStep ==
    ASSUME Inv, AlarmsCleared, [Next]_vars
    PROVE  AlarmsCleared'
<1> USE DEF Inv, AlarmsCleared, storeVars, callVars, readVars, txVars, Goto
<1>1. CASE UNCHANGED vars
  BY <1>1 DEF vars
<1>2. ASSUME NEW p \in Procs, NEW how, Return(p, how) PROVE AlarmsCleared'
  BY <1>2 DEF Return, TypeOK
<1>3. ASSUME NEW p \in Procs, NEW how, Raise(p, how) PROVE AlarmsCleared'
  BY <1>2, <1>3 DEF Raise
<1>4. ASSUME NEW p \in Procs, NEW t \in Tasks, Acquire(p, t) PROVE AlarmsCleared'
  BY <1>4 DEF Acquire, TypeOK
<1>5. ASSUME NEW p \in Procs, pc[p] # "idle",
             \A q \in Procs \ {p} : pc'[q] = pc[q] /\ outcome'[q] = outcome[q],
             outcome'[p] \in {outcome[p], "granted"}
      PROVE  AlarmsCleared'
  BY <1>5
<1>6. ASSUME NEW p \in Procs, Release(p) \/ Crash(p) PROVE AlarmsCleared'
  BY <1>2, <1>5, <1>6 DEF Release, Crash, TypeOK
<1>7. ASSUME NEW p \in Procs, Proceed(p) PROVE AlarmsCleared'
  <2>1. CASE ReadMarker(p) \/ ReadGeneration(p) \/ ReadAuthorityRow(p)
             \/ RepairMarker(p) \/ Commit(p)
    BY <1>5, <2>1 DEF ReadMarker, ReadGeneration, ReadAuthorityRow, RepairMarker,
       Commit, TypeOK
  <2>2. CASE ReadLockRows(p)
    BY <1>3, <1>5, <2>2 DEF ReadLockRows, TypeOK
  <2>3. CASE Begin(p)
    BY <1>3, <1>5, <2>3 DEF Begin, TypeOK
  <2>4. CASE BeginTimeout(p) \/ InsertConflict(p) \/ CommitFails(p)
    BY <1>3, <2>4 DEF BeginTimeout, InsertConflict, CommitFails
  <2>5. CASE CompareMarker(p) \/ PublishMarker(p)
    BY <1>2, <1>5, <2>5 DEF CompareMarker, PublishMarker, AfterPublish, TypeOK
  <2>6. CASE VerifyRow(p)
    BY <1>3, <1>5, <2>6 DEF VerifyRow, TypeOK
  <2> QED
    BY <1>7, <2>1, <2>2, <2>3, <2>4, <2>5, <2>6 DEF Proceed
<1> QED
  BY <1>1, <1>4, <1>6, <1>7 DEF Next

\* A generation read after a COMMIT is not older than that COMMIT.
LEMMA LandedReadsLaterStep ==
    ASSUME Inv, LandedReadsLater, [Next]_vars
    PROVE  LandedReadsLater'
<1> USE DEF Inv, LandedReadsLater, storeVars, callVars, readVars, txVars, Goto
<1>1. CASE UNCHANGED vars
  BY <1>1 DEF vars
\* A step of p that moves it elsewhere, or leaves it in another phase.
<1>2. ASSUME NEW p \in Procs,
             \A q \in Procs \ {p} : /\ pc'[q] = pc[q] /\ phase'[q] = phase[q]
                                    /\ target'[q] = target[q] /\ seen'[q] = seen[q],
             pc'[p] \notin {"authority", "locks"} \/ phase'[p] # "landed"
      PROVE  LandedReadsLater'
  BY <1>2
<1>3. ASSUME NEW p \in Procs, NEW how, Return(p, how) PROVE LandedReadsLater'
  BY <1>2, <1>3 DEF Return, ForgetReads, ForgetTransaction, TypeOK
<1>4. ASSUME NEW p \in Procs, NEW how, Raise(p, how) PROVE LandedReadsLater'
  BY <1>3, <1>4 DEF Raise
<1>5. ASSUME NEW p \in Procs, NEW t \in Tasks, Acquire(p, t) PROVE LandedReadsLater'
  BY <1>2, <1>5 DEF Acquire, TypeOK
<1>6. ASSUME NEW p \in Procs, Release(p) \/ Crash(p) PROVE LandedReadsLater'
  BY <1>2, <1>3, <1>6 DEF Release, Crash, TypeOK
<1>7. ASSUME NEW p \in Procs, ReadGeneration(p) PROVE LandedReadsLater'
  <2>1. seen'[p].gen = gen
    BY <1>7 DEF ReadGeneration, TypeOK, Stamp
  <2>2. phase[p] = "landed" => target[p].gen <= gen
    BY DEF ReadsInOrder, Recoverable
  <2> QED
    BY <1>7, <2>1, <2>2 DEF ReadGeneration, TypeOK
<1>8. ASSUME NEW p \in Procs, ReadAuthorityRow(p) PROVE LandedReadsLater'
  <2>1. seen'[p].gen = seen[p].gen
    BY <1>8 DEF ReadAuthorityRow, TypeOK, Stamp
  <2> QED
    BY <1>8, <2>1 DEF ReadAuthorityRow, TypeOK
<1>9. ASSUME NEW p \in Procs, Proceed(p) PROVE LandedReadsLater'
  <2>1. CASE ReadMarker(p) \/ RepairMarker(p) \/ Commit(p)
    BY <1>2, <2>1 DEF ReadMarker, RepairMarker, AfterOpen, ForgetReads, Commit, TypeOK
  <2>2. CASE ReadLockRows(p)
    BY <1>2, <1>4, <2>2 DEF ReadLockRows, AfterOpen, ForgetReads, TypeOK
  <2>3. CASE Begin(p)
    BY <1>2, <1>4, <2>3 DEF Begin, TypeOK
  <2>4. CASE BeginTimeout(p) \/ InsertConflict(p) \/ CommitFails(p)
    BY <1>4, <2>4 DEF BeginTimeout, InsertConflict, CommitFails
  <2>5. CASE CompareMarker(p) \/ PublishMarker(p)
    BY <1>2, <1>3, <2>5 DEF CompareMarker, PublishMarker, AfterPublish,
       ForgetTransaction, TypeOK
  <2>6. CASE VerifyRow(p)
    BY <1>2, <1>4, <2>6 DEF VerifyRow, TypeOK
  <2> QED
    BY <1>7, <1>8, <1>9, <2>1, <2>2, <2>3, <2>4, <2>5, <2>6 DEF Proceed
<1> QED
  BY <1>1, <1>5, <1>6, <1>9 DEF Next

\* Under the write lock the marker is recoverable, and so never corrupt.
LEMMA BeginRaisesNothing ==
    ASSUME Inv
    PROVE  marker = Current \/ Repairable(Current, marker)
<1>1. Current.gen = gen
  BY DEF Current, Stamp
<1>2. gen \in Nat /\ marker.gen \in Nat
  BY DEF Inv, TypeOK, Stamps
<1> QED
  BY <1>1, <1>2 DEF Inv, MarkerRecoverable, Repairable

\* An alarm of the last SELECT: another process has written since the first.
LEMMA AlarmIsOvertaken ==
    ASSUME Inv, LandedReadsLater, NEW p \in Procs, pc[p] = "locks",
           IF phase[p] = "landed" THEN ReadStamp(p) # target[p]
           ELSE ReadStamp(p) # mark[p] /\ ~ Repairable(ReadStamp(p), mark[p])
    PROVE  Overtaken(p)
<1>1. gen \in Nat /\ seen[p].gen \in Nat /\ seen[p].digest.auth \in Nat
      /\ target[p].gen \in Nat
  BY DEF Inv, TypeOK, Stamps, Digests
<1>2. CASE phase[p] = "landed"
  <2> SUFFICES ASSUME gen = target[p].gen PROVE FALSE
    BY <1>2 DEF Overtaken
  <2>1. target[p] = Current
    BY <1>2 DEF Inv, ReadsInOrder, Recoverable
  <2>2. seen[p].gen = gen /\ seen[p].digest.auth = gen
    BY <1>1, <1>2 DEF Inv, ReadsInOrder, LandedReadsLater
  <2> QED
    BY <1>2, <2>1, <2>2 DEF ReadStamp, Current
<1>3. CASE phase[p] # "landed"
  <2> SUFFICES ASSUME mark[p] = marker, ReadStamp(p) = Current PROVE FALSE
    BY <1>3 DEF Overtaken
  <2> QED
    BY <1>3, BeginRaisesNothing
<1> QED
  BY <1>2, <1>3

\* WORKFLOW_STATE_CORRUPT is never raised but by the last SELECT of a process that
\* another one has overtaken: whatever crashed or failed before, no call finds a
\* corrupt store under the write lock, and none loses the lock it was given.
THEOREM AlarmsAreRaces == Spec => AlarmsComeFromRaces
<1> DEFINE Alarms == {"corrupt", "notLanded", "lost"}
<1>1. Init => RaceInv
  BY DEF Init, RaceInv, AlarmsCleared, LandedReadsLater
<1>2. Inv /\ RaceInv /\ [Next]_vars => RaceInv'
  BY AlarmsClearedStep, LandedReadsLaterStep DEF RaceInv
<1>3. ASSUME Inv, RaceInv, [Next]_vars, NEW p \in Procs,
             pc[p] # "idle", outcome'[p] \in Alarms
      PROVE  pc[p] = "locks" /\ Overtaken(p)
  <2>1. outcome[p] \notin Alarms /\ outcome'[p] # outcome[p]
    BY <1>3 DEF RaceInv, AlarmsCleared
  <2>2. ~ UNCHANGED vars
    BY <2>1 DEF vars
  <2>3. PICK q \in Procs : \/ \E t \in Tasks : Acquire(q, t)
                           \/ Release(q) \/ Proceed(q) \/ Crash(q)
    BY <1>3, <2>2 DEF Next
  <2>4. outcome \in [Procs -> Outcomes]
    BY <1>3 DEF Inv, TypeOK
  <2>5. CASE ReadLockRows(q)
    <3>1. Raise(q, "notLanded") \/ Raise(q, "corrupt")
      BY <2>1, <2>5 DEF ReadLockRows
    <3>2. p = q
      BY <2>1, <2>4, <3>1 DEF Raise, Return
    <3>3. IF phase[p] = "landed" THEN ReadStamp(p) # target[p]
          ELSE ReadStamp(p) # mark[p] /\ ~ Repairable(ReadStamp(p), mark[p])
      BY <2>1, <2>5, <3>2 DEF ReadLockRows
    <3> QED
      BY <1>3, <2>5, <3>2, <3>3, AlarmIsOvertaken DEF ReadLockRows, RaceInv
  <2>6. ASSUME NEW how, how \notin Alarms, Return(q, how) PROVE FALSE
    BY <1>3, <2>1, <2>4, <2>6 DEF Return
  <2>7. CASE \/ \E t \in Tasks : Acquire(q, t)
             \/ Release(q) \/ Crash(q)
    BY <1>3, <2>1, <2>4, <2>6, <2>7 DEF Acquire, Release, Crash
  <2>8. CASE ReadMarker(q) \/ ReadGeneration(q) \/ ReadAuthorityRow(q)
             \/ RepairMarker(q) \/ Commit(q)
    BY <2>1, <2>8 DEF ReadMarker, ReadGeneration, ReadAuthorityRow, RepairMarker, Commit
  <2>9. CASE Begin(q)
    <3>1. marker = Current \/ Repairable(Current, marker)
      BY <1>3, BeginRaisesNothing
    <3> QED
      BY <2>1, <2>9, <3>1 DEF Begin
  <2>10. CASE BeginTimeout(q) \/ InsertConflict(q) \/ CommitFails(q)
    BY <2>6, <2>10 DEF BeginTimeout, InsertConflict, CommitFails, Raise
  <2>11. CASE CompareMarker(q) \/ PublishMarker(q)
    BY <2>1, <2>6, <2>11 DEF CompareMarker, PublishMarker, AfterPublish
  <2>12. CASE VerifyRow(q)
    <3>1. rows[task[q]] = inst[q]
      BY <1>3, <2>12 DEF VerifyRow, Inv, CallsInPhase, OwnerKeepsRow, Owns
    <3> QED
      BY <1>3, <2>1, <2>4, <2>12, <3>1 DEF VerifyRow
  <2> QED
    BY <2>3, <2>5, <2>7, <2>8, <2>9, <2>10, <2>11, <2>12 DEF Proceed
<1>4. Inv /\ RaceInv /\ [Next]_vars
      => [\A p \in Procs : pc[p] # "idle" /\ outcome'[p] \in Alarms
                           => pc[p] = "locks" /\ Overtaken(p)]_vars
  BY <1>3
<1> QED
  BY <1>1, <1>2, <1>4, Invariance, PTL DEF Spec, AlarmsComeFromRaces

-----------------------------------------------------------------------------
(* Every call has an end to go to.                                         *)

\* How many steps a call may still take: those to the end of the connection at
\* hand, and six for each connection that comes after it.
StepsFrom(place, ph) ==
    LET connections == CASE ph = "open" -> 2
                         [] ph = "landed" -> 1
                         [] OTHER -> 0
        here == CASE place = "marker" -> 6
                  [] place = "generation" -> 5
                  [] place = "authority" -> 4
                  [] place = "locks" -> 3
                  [] place \in {"repair", "compare"} -> 2
                  [] place \in {"begin", "publish", "verify"} -> 1
                  [] OTHER -> 0
    IN  IF place \in {"idle", "holding"} THEN 0 ELSE 6 * connections + here

StepsLeft(p) == StepsFrom(pc[p], phase[p])

\* No step of acquire_task_lock or release is ever repeated, whatever it finds: a
\* marker that is repaired again and again by others does not send a call back, and
\* no step of another process costs a call one of its own.
NoStepIsRepeated ==
    [][\A p \in Procs : Proceed(p) =>
          /\ StepsLeft(p)' < StepsLeft(p)
          /\ \A q \in Procs \ {p} : StepsLeft(q)' = StepsLeft(q)]_vars

\* The steps left where a call stands.
LEMMA StepsTable ==
    /\ \A f : StepsFrom("idle", f) = 0 /\ StepsFrom("holding", f) = 0
    /\ \A l \in PCs \ {"idle", "holding"} :
          /\ StepsFrom(l, "open") \in 12..18
          /\ StepsFrom(l, "landed") = StepsFrom(l, "open") - 6
          /\ StepsFrom(l, "recheck") = StepsFrom(l, "open") - 12
    /\ StepsFrom("marker", "open") = 18
    /\ StepsFrom("generation", "open") = 17
    /\ StepsFrom("authority", "open") = 16
    /\ StepsFrom("locks", "open") = 15
    /\ StepsFrom("repair", "open") = 14
    /\ StepsFrom("begin", "open") = 13
    /\ StepsFrom("commit", "open") = 12
    /\ StepsFrom("compare", "open") = 14
    /\ StepsFrom("publish", "open") = 13
    /\ StepsFrom("verify", "open") = 13
  BY DEF StepsFrom, PCs

\* A step is charged to the call that takes it.
LEMMA StepIsCharged ==
    ASSUME Inv, NEW p \in Procs, Proceed(p)
    PROVE  /\ StepsLeft(p)' < StepsLeft(p)
           /\ \A q \in Procs \ {p} : StepsLeft(q)' = StepsLeft(q)
<1> USE DEF storeVars, callVars, readVars, txVars, Goto
<1>1. /\ pc \in [Procs -> PCs] /\ phase \in [Procs -> {"open", "landed", "recheck"}]
      /\ CallsInPhase
  BY DEF Inv, TypeOK
\* Where a call goes decides how many steps it has left.
<1>2. ASSUME NEW l \in PCs, NEW f \in {"open", "landed", "recheck"},
             pc' = [pc EXCEPT ![p] = l], phase' = [phase EXCEPT ![p] = f],
             StepsFrom(l, f) < StepsFrom(pc[p], phase[p])
      PROVE  /\ StepsLeft(p)' < StepsLeft(p)
             /\ \A q \in Procs \ {p} : StepsLeft(q)' = StepsLeft(q)
  <2>1. /\ pc'[p] = l /\ phase'[p] = f
        /\ \A q \in Procs \ {p} : pc'[q] = pc[q] /\ phase'[q] = phase[q]
    BY <1>1, <1>2
  <2> QED
    BY <1>2, <2>1 DEF StepsLeft
<1>3. ASSUME NEW l \in PCs, Goto(p, l), phase' = phase,
             StepsFrom(l, phase[p]) < StepsFrom(pc[p], phase[p])
      PROVE  /\ StepsLeft(p)' < StepsLeft(p)
             /\ \A q \in Procs \ {p} : StepsLeft(q)' = StepsLeft(q)
  <2>1. phase' = [phase EXCEPT ![p] = phase[p]] /\ phase[p] \in {"open", "landed", "recheck"}
    BY <1>1, <1>3
  <2> QED
    BY <1>2, <1>3, <2>1
<1>4. ASSUME NEW how, Return(p, how), pc[p] \notin {"idle", "holding"},
             phase[p] = "recheck" => pc[p] # "commit"
      PROVE  /\ StepsLeft(p)' < StepsLeft(p)
             /\ \A q \in Procs \ {p} : StepsLeft(q)' = StepsLeft(q)
  <2>1. StepsFrom(pc[p], phase[p]) > 0
    <3>1. pc[p] \in PCs /\ phase[p] \in {"open", "landed", "recheck"}
      BY <1>1
    <3> QED
      BY <1>4, <3>1 DEF StepsFrom, PCs
  <2> QED
    BY <1>2, <1>4, <2>1, StepsTable DEF Return, PCs
<1>5. ASSUME NEW how, Raise(p, how), pc[p] \notin {"idle", "holding"}
      PROVE  /\ StepsLeft(p)' < StepsLeft(p)
             /\ \A q \in Procs \ {p} : StepsLeft(q)' = StepsLeft(q)
  BY <1>1, <1>4, <1>5 DEF Raise, CallsInPhase
<1>6. \A f \in {"open", "landed", "recheck"} :
         /\ StepsFrom("generation", f) < StepsFrom("marker", f)
         /\ StepsFrom("authority", f) < StepsFrom("generation", f)
         /\ StepsFrom("locks", f) < StepsFrom("authority", f)
         /\ StepsFrom("repair", f) < StepsFrom("locks", f)
         /\ StepsFrom("begin", f) < StepsFrom("repair", f)
         /\ StepsFrom("verify", f) < StepsFrom("repair", f)
         /\ StepsFrom("compare", f) < StepsFrom("locks", f)
         /\ StepsFrom("commit", f) < StepsFrom("begin", f)
         /\ StepsFrom("publish", f) < StepsFrom("compare", f)
  BY StepsTable DEF PCs
<1>7. phase[p] \in {"open", "landed", "recheck"}
  BY <1>1
<1>8. CASE ReadMarker(p)
  BY <1>3, <1>6, <1>7, <1>8 DEF ReadMarker, PCs
<1>9. CASE ReadGeneration(p)
  BY <1>3, <1>6, <1>7, <1>9 DEF ReadGeneration, PCs
<1>10. CASE ReadAuthorityRow(p)
  BY <1>3, <1>6, <1>7, <1>10 DEF ReadAuthorityRow, PCs
<1>11. CASE ReadLockRows(p)
  <2>1. CASE \E how : Raise(p, how)
    BY <1>5, <1>11, <2>1 DEF ReadLockRows
  <2>2. CASE \E l \in {"compare", "begin", "verify", "repair"} :
                Goto(p, l) /\ phase' = phase
    <3>1. PICK l \in {"compare", "begin", "verify", "repair"} :
             Goto(p, l) /\ phase' = phase
      BY <2>2
    <3>2. StepsFrom(l, phase[p]) < StepsFrom("locks", phase[p])
      BY <1>7, StepsTable DEF PCs
    <3> QED
      BY <1>3, <1>11, <3>1, <3>2 DEF ReadLockRows, PCs
  <2> QED
    BY <1>11, <2>1, <2>2 DEF ReadLockRows, AfterOpen
<1>12. CASE RepairMarker(p)
  <2>1. pc[p] = "repair" /\ phase' = phase
    BY <1>12 DEF RepairMarker
  <2>2. CASE Goto(p, "begin")
    BY <1>3, <1>6, <1>7, <2>1, <2>2 DEF PCs
  <2>3. CASE Goto(p, "verify")
    BY <1>3, <1>6, <1>7, <2>1, <2>3 DEF PCs
  <2> QED
    BY <1>12, <2>2, <2>3 DEF RepairMarker, AfterOpen
<1>13. CASE Begin(p)
  <2>1. CASE Raise(p, "corrupt")
    BY <1>5, <1>13, <2>1 DEF Begin
  <2>2. CASE Goto(p, "commit") /\ phase' = phase
    BY <1>3, <1>6, <1>7, <1>13, <2>2 DEF Begin, PCs
  <2> QED
    BY <1>13, <2>1, <2>2 DEF Begin
<1>14. CASE BeginTimeout(p) \/ InsertConflict(p) \/ CommitFails(p)
  BY <1>5, <1>14 DEF BeginTimeout, InsertConflict, CommitFails
<1>15. CASE Commit(p)
  <2>1. pc[p] = "commit" /\ phase[p] = "open"
    BY <1>1, <1>15 DEF Commit, CallsInPhase
  <2>2. StepsFrom("generation", "landed") < StepsFrom("commit", "open")
    BY StepsTable DEF PCs
  <2> QED
    BY <1>2, <1>15, <2>1, <2>2 DEF Commit, PCs
<1>16. CASE CompareMarker(p) \/ PublishMarker(p)
  <2>1. pc[p] \in {"compare", "publish"} /\ phase[p] = "landed"
    BY <1>1, <1>16 DEF CompareMarker, PublishMarker, CallsInPhase
  <2>2. CASE Goto(p, "publish") /\ phase' = phase /\ pc[p] = "compare"
    BY <1>3, <1>6, <2>1, <2>2 DEF PCs
  <2>3. CASE AfterPublish(p)
    <3>1. CASE Return(p, "released")
      BY <1>4, <2>1, <3>1
    <3>2. CASE Goto(p, "marker") /\ phase' = [phase EXCEPT ![p] = "recheck"]
      <4>1. StepsFrom("marker", "recheck") < StepsFrom(pc[p], "landed")
        BY <2>1, StepsTable DEF PCs
      <4> QED
        BY <1>2, <2>1, <3>2, <4>1 DEF PCs
    <3> QED
      BY <2>3, <3>1, <3>2 DEF AfterPublish
  <2> QED
    BY <1>16, <2>2, <2>3 DEF CompareMarker, PublishMarker
<1>17. CASE VerifyRow(p)
  <2>1. pc[p] = "verify" /\ phase[p] = "recheck"
    BY <1>1, <1>17 DEF VerifyRow, CallsInPhase
  <2>2. CASE Raise(p, "lost")
    BY <1>5, <2>1, <2>2
  <2>3. CASE Goto(p, "holding") /\ phase' = [phase EXCEPT ![p] = "open"]
    <3>1. StepsFrom("holding", "open") < StepsFrom("verify", "recheck")
      BY StepsTable DEF PCs
    <3> QED
      BY <1>2, <2>1, <2>3, <3>1 DEF PCs
  <2> QED
    BY <1>17, <2>2, <2>3 DEF VerifyRow
<1> QED
  BY <1>8, <1>9, <1>10, <1>11, <1>12, <1>13, <1>14, <1>15, <1>16, <1>17 DEF Proceed

\* A call ends after at most 18 steps of its own: three connections, of which each
\* reconciles once.  This is what EveryCallReturns rests on for any number of
\* processes: only fairness is missing.
THEOREM CallsAreFinite == Spec => NoStepIsRepeated
<1>1. Inv => (\A p \in Procs : Proceed(p) =>
                 /\ StepsLeft(p)' < StepsLeft(p)
                 /\ \A q \in Procs \ {p} : StepsLeft(q)' = StepsLeft(q))
  BY StepIsCharged
<1> QED
  BY <1>1, Invariance, PTL DEF NoStepIsRepeated

-----------------------------------------------------------------------------
(* The lock implements TaskMutex.                                          *)

\* A free row, the row of a live call, and the row of nobody.
LEMMA OwnerInCases ==
    ASSUME NEW r, NEW i, NEW t,
           \A p, q \in Procs : i[p] = i[q] /\ i[p] # NoLock => p = q
    PROVE  /\ r[t] = NoLock => OwnerIn(r, i, t) = "free"
           /\ \A p \in Procs : r[t] # NoLock /\ i[p] = r[t] => OwnerIn(r, i, t) = p
           /\ r[t] # NoLock /\ (\A p \in Procs : i[p] # r[t])
              => OwnerIn(r, i, t) = "orphaned"
  BY DEF OwnerIn

\* The lock table is seen to change only where its row or its live token does.
LEMMA SameOwner ==
    ASSUME Inv, Inv', NEW t \in Tasks, rows'[t] = rows[t],
           rows[t] # NoLock
             => \A q \in Procs : inst'[q] = rows[t] <=> inst[q] = rows[t]
    PROVE  owner'[t] = owner[t]
<1>1. /\ owner[t] = OwnerIn(rows, inst, t)
      /\ owner'[t] = OwnerIn(rows', inst', t)
  BY DEF owner
<1>2. TokensDistinct /\ TokensDistinct'
  BY DEF Inv
<1>3. /\ \A p, q \in Procs : inst[p] = inst[q] /\ inst[p] # NoLock => p = q
      /\ \A p, q \in Procs : inst'[p] = inst'[q] /\ inst'[p] # NoLock => p = q
  BY <1>2 DEF TokensDistinct
<1>4. CASE rows[t] = NoLock
  BY <1>1, <1>3, <1>4, OwnerInCases
<1>5. CASE rows[t] # NoLock /\ \E q \in Procs : inst[q] = rows[t]
  BY <1>1, <1>3, <1>5, OwnerInCases
<1>6. CASE rows[t] # NoLock /\ \A q \in Procs : inst[q] # rows[t]
  BY <1>1, <1>3, <1>6, OwnerInCases
<1> QED
  BY <1>4, <1>5, <1>6

\* Who owns a row in a state of the invariant.
LEMMA OwnerCases ==
    ASSUME Inv, NEW t \in Tasks
    PROVE  /\ rows[t] = NoLock => owner[t] = "free"
           /\ \A p \in Procs : rows[t] # NoLock /\ inst[p] = rows[t] => owner[t] = p
           /\ rows[t] # NoLock /\ (\A p \in Procs : inst[p] # rows[t])
              => owner[t] = "orphaned"
<1>1. owner[t] = OwnerIn(rows, inst, t)
  BY DEF owner
<1>2. \A p, q \in Procs : inst[p] = inst[q] /\ inst[p] # NoLock => p = q
  BY DEF Inv, TokensDistinct
<1> QED
  BY <1>1, <1>2, OwnerInCases

\* The same of the state after a step.
LEMMA OwnerCasesNext ==
    ASSUME Inv', NEW t \in Tasks
    PROVE  /\ rows'[t] = NoLock => owner'[t] = "free"
           /\ \A p \in Procs : rows'[t] # NoLock /\ inst'[p] = rows'[t]
                               => owner'[t] = p
           /\ rows'[t] # NoLock /\ (\A p \in Procs : inst'[p] # rows'[t])
              => owner'[t] = "orphaned"
<1>1. owner'[t] = OwnerIn(rows', inst', t)
  BY DEF owner
<1>2. \A p, q \in Procs : inst'[p] = inst'[q] /\ inst'[p] # NoLock => p = q
  BY DEF Inv, TokensDistinct
<1> QED
  BY <1>1, <1>2, OwnerInCases

\* One lock changes hands and the others do not.
LEMMA OwnerExcept ==
    ASSUME NEW t \in Tasks, NEW v, owner'[t] = v,
           \A u \in Tasks \ {t} : owner'[u] = owner[u]
    PROVE  owner' = [owner EXCEPT ![t] = v]
  BY DEF owner

\* A call that ends abandons its lock if its row is committed.
LEMMA LeaveAbandons ==
    ASSUME Inv, Inv', NEW p \in Procs, NEW how, Return(p, how), rows' = rows
    PROVE  TM!Next \/ owner' = owner
<1>1. \A q \in Procs \ {p} : inst'[q] = inst[q]
  BY DEF Inv, TypeOK, Return
<1>2. inst'[p] = NoLock
  BY DEF Inv, TypeOK, Return
<1>3. CASE \E t \in Tasks : rows[t] # NoLock /\ rows[t] = inst[p]
  <2>1. PICK t \in Tasks : rows[t] # NoLock /\ rows[t] = inst[p]
    BY <1>3
  <2>2. owner[t] = p
    BY <2>1, OwnerCases
  <2>3. owner'[t] = "orphaned"
    <3>1. \A q \in Procs : inst'[q] # rows'[t]
      BY <1>1, <1>2, <2>1 DEF Inv, TokensDistinct
    <3> QED
      BY <2>1, <3>1, OwnerCasesNext
  <2>4. \A u \in Tasks \ {t} : owner'[u] = owner[u]
    <3> SUFFICES ASSUME NEW u \in Tasks \ {t} PROVE owner'[u] = owner[u]
      OBVIOUS
    <3>1. rows[u] # NoLock => rows[u] # inst[p]
      BY <2>1 DEF Inv, TokensOnOwnRow
    <3> QED
      BY <1>1, <1>2, <3>1, SameOwner
  <2>5. TM!Abandon(p, t)
    BY <2>2, <2>3, <2>4, OwnerExcept DEF TM!Abandon
  <2> QED
    BY <2>5 DEF TM!Next
<1>4. CASE \A t \in Tasks : rows[t] # NoLock => rows[t] # inst[p]
  <2>1. \A t \in Tasks : owner'[t] = owner[t]
    BY <1>1, <1>2, <1>4, SameOwner
  <2> QED
    BY <2>1 DEF owner
<1> QED
  BY <1>3, <1>4

\* A COMMIT takes a free lock, or gives back the lock of its process.
LEMMA CommitTakesOrGives ==
    ASSUME Inv, Inv', NEW p \in Procs, Commit(p)
    PROVE  TM!Next
<1> DEFINE t == task[p]
<1>1. /\ t \in Tasks /\ inst[p] \in Instances /\ op[p] \in {"acquire", "release"}
      /\ phase[p] = "open"
  BY DEF Inv, TypeOK, CallsInPhase, Commit
<1>2. inst' = inst /\ rows' = RowsAfter(p) /\ rows \in [Tasks -> Instances \cup {NoLock}]
  BY DEF Inv, TypeOK, RowMaps, Commit, callVars
<1>3. inst[p] # NoLock
  BY <1>1
<1>4. \A u \in Tasks \ {t} : owner'[u] = owner[u]
  <2>1. \A u \in Tasks \ {t} : rows'[u] = rows[u]
    BY <1>1, <1>2 DEF RowsAfter
  <2> QED
    BY <1>2, <2>1, SameOwner
<1>5. CASE op[p] = "acquire"
  <2>1. owner[t] = "free"
    BY <1>1, <1>5, OwnerCases DEF Commit, KeyFree
  <2>2. owner'[t] = p
    <3>1. rows'[t] = inst'[p]
      BY <1>1, <1>2, <1>5 DEF RowsAfter
    <3> QED
      BY <1>1, <1>2, <1>3, <3>1, OwnerCasesNext
  <2>3. TM!Take(p, t)
    BY <1>1, <1>4, <2>1, <2>2, OwnerExcept DEF TM!Take
  <2> QED
    BY <1>1, <2>3 DEF TM!Next
<1>6. CASE op[p] = "release"
  <2>1. rows[t] = inst[p]
    BY <1>1, <1>6 DEF Inv, OwnerKeepsRow, Owns
  <2>2. owner[t] = p
    BY <1>1, <1>3, <2>1, OwnerCases
  <2>3. owner'[t] = "free"
    <3>1. rows'[t] = NoLock
      BY <1>1, <1>2, <1>6, <2>1 DEF RowsAfter
    <3> QED
      BY <1>1, <3>1, OwnerCasesNext
  <2>4. TM!Give(p, t)
    BY <1>1, <1>4, <2>2, <2>3, OwnerExcept DEF TM!Give
  <2> QED
    BY <1>1, <2>4 DEF TM!Next
<1> QED
  BY <1>1, <1>5, <1>6

\* Whatever the marker, the two connections and the failures do, to its callers
\* acquire_task_lock is the mutual-exclusion lock of TaskMutex.
THEOREM Refinement == Spec => ImplementsTaskMutex
<1>1. Init => TM!Init
  <2> SUFFICES ASSUME Init PROVE owner = [t \in Tasks |-> "free"]
    BY DEF TM!Init
  <2> QED
    BY DEF Init, owner, OwnerIn, NoRows
<1>2. Inv /\ Inv' /\ [Next]_vars => [TM!Next]_owner
  <2> SUFFICES ASSUME Inv, Inv', [Next]_vars PROVE TM!Next \/ owner' = owner
    OBVIOUS
  <2>1. CASE rows' = rows /\ inst' = inst
    BY <2>1 DEF owner
  <2>2. ASSUME NEW p \in Procs, NEW how, Return(p, how), rows' = rows
        PROVE  TM!Next \/ owner' = owner
    BY <2>2, LeaveAbandons
  <2>3. ASSUME NEW p \in Procs, NEW how, Raise(p, how)
        PROVE  TM!Next \/ owner' = owner
    BY <2>2, <2>3 DEF Raise
  <2>4. ASSUME NEW p \in Procs, NEW t \in Tasks, Acquire(p, t)
        PROVE  owner' = owner
    <3>1. PICK i \in FreshInstances : inst' = [inst EXCEPT ![p] = i]
      BY <2>4 DEF Acquire
    <3>2. /\ rows' = rows /\ inst[p] = NoLock
          /\ \A u \in Tasks : rows[u] # i
      BY <2>4, <3>1 DEF Acquire, storeVars, FreshInstances, Inv, CallsInPhase
    <3>3. \A u \in Tasks : owner'[u] = owner[u]
      BY <3>1, <3>2, SameOwner DEF Inv, TypeOK
    <3> QED
      BY <3>3 DEF owner
  <2>5. ASSUME NEW p \in Procs, AfterPublish(p), rows' = rows
        PROVE  TM!Next \/ owner' = owner
    BY <2>1, <2>2, <2>5 DEF AfterPublish, callVars
  <2>6. ASSUME NEW p \in Procs, Proceed(p) PROVE TM!Next \/ owner' = owner
    <3> USE DEF storeVars, callVars
    <3>1. CASE ReadMarker(p) \/ ReadGeneration(p) \/ ReadAuthorityRow(p)
               \/ RepairMarker(p)
      BY <2>1, <3>1 DEF ReadMarker, ReadGeneration, ReadAuthorityRow, RepairMarker
    <3>2. CASE ReadLockRows(p)
      BY <2>1, <2>3, <3>2 DEF ReadLockRows
    <3>3. CASE Begin(p) \/ BeginTimeout(p) \/ InsertConflict(p) \/ CommitFails(p)
      BY <2>1, <2>3, <3>3 DEF Begin, BeginTimeout, InsertConflict, CommitFails
    <3>4. CASE Commit(p)
      BY <3>4, CommitTakesOrGives
    <3>5. CASE CompareMarker(p) \/ PublishMarker(p)
      BY <2>1, <2>5, <3>5 DEF CompareMarker, PublishMarker
    <3>6. CASE VerifyRow(p)
      BY <2>1, <2>3, <3>6 DEF VerifyRow
    <3> QED
      BY <2>6, <3>1, <3>2, <3>3, <3>4, <3>5, <3>6 DEF Proceed
  <2>7. ASSUME NEW p \in Procs, Release(p) \/ Crash(p)
        PROVE  TM!Next \/ owner' = owner
    BY <2>1, <2>2, <2>7 DEF Release, Crash, storeVars
  <2>8. CASE UNCHANGED vars
    BY <2>1, <2>8 DEF vars, storeVars, callVars
  <2> QED
    BY <2>4, <2>6, <2>7, <2>8 DEF Next
<1> QED
  BY <1>1, <1>2, Invariance, PTL DEF Spec, ImplementsTaskMutex, TM!Spec
=============================================================================
