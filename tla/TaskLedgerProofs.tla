--------------------------- MODULE TaskLedgerProofs ---------------------------
(***************************************************************************)
(* The invariants and the refinement of TaskLedger, for every number of    *)
(* engines, tasks, requests and events.                                    *)
(*                                                                         *)
(* The argument: an engine that has entered the commit carries an event    *)
(* whose history is what it read, extended by its request; the guard of    *)
(* the commit compares what it read with the row, so a row only ever       *)
(* grows at its end.  Everything exported or still to be exported is       *)
(* therefore a beginning of the row for ever.                              *)
(***************************************************************************)
EXTENDS TaskLedger, SequenceTheorems, TLAPS

-----------------------------------------------------------------------------
(* Sequences: beginnings and one more element.                             *)

\* A sequence is a beginning of itself.
LEMMA PrefixOfItself ==
  ASSUME NEW C, NEW h \in Seq(C)
  PROVE  IsPrefix1(h, h)
  BY SubSeqFull, LenProperties DEF IsPrefix1

\* The empty sequence begins every sequence.
LEMMA EmptyIsPrefix ==
  ASSUME NEW C, NEW h \in Seq(C)
  PROVE  IsPrefix1(<<>>, h)
<1>1. SubSeq(h, 1, 0) = <<>>
  BY SubSeqEmpty
<1>2. Len(h) \in Nat
  BY LenProperties
<1>3. QED
  BY <1>1, <1>2 DEF IsPrefix1

\* The beginnings of a sequence that grows at its end stay as they are.
LEMMA AppendKeepsBeginning ==
  ASSUME NEW C, NEW h \in Seq(C), NEW c \in C, NEW n \in 0..Len(h)
  PROVE  SubSeq(Append(h, c), 1, n) = SubSeq(h, 1, n)
<1>1. CASE n = 0
  BY <1>1, SubSeqEmpty
<1>2. CASE n # 0
  <2>1. Append(h, c) = h \o <<c>> /\ <<c>> \in Seq(C)
    BY AppendIsConcat
  <2>2. n \in 1..Len(h) /\ 1 \in 1..Len(h)
    BY <1>2, LenProperties
  <2>3. QED
    BY <2>1, <2>2, SubSeqOfConcat1
<1>3. QED
  BY <1>1, <1>2

\* A beginning of a sequence begins every extension of it.
LEMMA PrefixOfAppend ==
  ASSUME NEW C, NEW g \in Seq(C), NEW h \in Seq(C), NEW c \in C, IsPrefix1(g, h)
  PROVE  IsPrefix1(g, Append(h, c))
<1>1. Len(g) \in 0..Len(h) /\ Len(Append(h, c)) = Len(h) + 1 /\ Len(h) \in Nat
  BY LenProperties, AppendProperties DEF IsPrefix1
<1>2. g = SubSeq(Append(h, c), 1, Len(g))
  BY <1>1, AppendKeepsBeginning DEF IsPrefix1
<1>3. QED
  BY <1>1, <1>2 DEF IsPrefix1

\* The whole of the sequence is the beginning that was there before.
LEMMA FrontOfAppend ==
  ASSUME NEW C, NEW h \in Seq(C), NEW c \in C
  PROVE  Front1(Append(h, c)) = h
<1>1. Len(Append(h, c)) = Len(h) + 1 /\ Len(h) \in Nat
  BY LenProperties, AppendProperties
<1>2. Len(h) \in 0..Len(h)
  BY <1>1
<1>3. SubSeq(Append(h, c), 1, Len(h)) = h
  BY <1>2, AppendKeepsBeginning, SubSeqFull
<1>4. QED
  BY <1>1, <1>3 DEF Front1

\* A beginning that is not empty has the same first element.
LEMMA PrefixSharesFirst ==
  ASSUME NEW C, NEW g \in Seq(C), NEW h \in Seq(C), IsPrefix1(g, h), g # <<>>
  PROVE  h # <<>> /\ h[1] = g[1]
<1>1. Len(g) \in Nat \ {0} /\ Len(h) \in Nat /\ Len(g) <= Len(h)
  BY EmptySeq, LenProperties DEF IsPrefix1
<1>2. \A i \in 1..Len(g) : h[i] \in C
  BY <1>1, ElementOfSeq
<1>3. \A i \in 1..(Len(g) - 1 + 1) : SubSeq(h, 1, Len(g))[i] = h[1 + i - 1]
  BY <1>1, <1>2, SubSeqProperties
<1>4. SubSeq(h, 1, Len(g))[1] = h[1]
  BY <1>1, <1>3
<1>5. h # <<>>
  BY <1>1, EmptySeq
<1>6. QED
  BY <1>4, <1>5 DEF IsPrefix1

-----------------------------------------------------------------------------
(* The inductive invariant.                                                *)

\* An intake's event is its request alone, and its proof is on record once the
\* call is past it.
IntakeCall(p) ==
    /\ request[p] \in Intakes
    /\ pc[p] # "audit"
    /\ head[p] = <<>>
    /\ event[p] = [seq |-> 1, hist |-> <<request[p]>>]
    /\ pc[p] \notin {"exists", "prove"} => proof[task[p]] = request[p]

\* A transition's event is the history that was read, extended by the request,
\* and its sequence number was read later.
MoveCall(p) ==
    /\ request[p] \in Moves
    /\ pc[p] \notin {"exists", "prove", "proofFile", "intake"}
    /\ head[p] # <<>>
    /\ Len(head[p]) <= Len(row[task[p]])
    /\ pc[p] # "audit" =>
          /\ event[p].hist = Append(head[p], request[p])
          /\ Len(head[p]) < event[p].seq
          /\ event[p].seq <= Len(row[task[p]]) + 1

Exporting == {"line", "append", "state", "intake"}

\* What is exported is committed.
Call(p) ==
    IF pc[p] = "idle" THEN head[p] = <<>>
    ELSE /\ task[p] \in Tasks
         /\ outcome[p] = "none"
         /\ IntakeCall(p) \/ MoveCall(p)
         /\ pc[p] \in Exporting => IsPrefix1(event[p].hist, row[task[p]])

Calls == \A p \in Engines : Call(p)

IInv == /\ TypeOK
        /\ Calls
        /\ ChainIntact
        /\ ExportsAreCommitted
        /\ ProofMatchesHistory
        /\ AcceptedEventIsExported

-----------------------------------------------------------------------------
(* What every action uses.                                                 *)

\* The values a call without locals has.
LEMMA Empties ==
  /\ <<>> \in Histories
  /\ NoEvent \in Events
  /\ \A i \in Intakes : [seq |-> 1, hist |-> <<i>>] \in Events
<1>1. <<>> \in Histories
  BY EmptySeq DEF Histories
<1>2. \A i \in Intakes : <<i>> \in Histories
  BY DEF Histories, Contents
<1>3. QED
  BY <1>1, <1>2 DEF NoEvent, Events

\* A call that ends keeps the types of what it had.
LEMMA ReturnTypes ==
  ASSUME TypeOK, NEW p \in Engines, NEW how \in Outcomes, Return(p, how)
  PROVE  /\ pc' \in [Engines -> PCs]
         /\ task' \in [Engines -> Tasks \cup {None}]
         /\ request' \in [Engines -> Contents \cup {None}]
         /\ head' \in [Engines -> Histories]
         /\ event' \in [Engines -> Events]
         /\ outcome' \in [Engines -> Outcomes]
  BY Empties DEF TypeOK, Return, Goto, PCs

\* The audit lines a call has found stay, whoever appends.
LEMMA OthersKeepLines ==
  ASSUME CallsHaveLines, lines' = lines,
         \A q \in Engines : pc'[q] \in {"state", "intake"} =>
             /\ pc[q] \in {"state", "intake"}
             /\ event'[q] = event[q] /\ task'[q] = task[q]
  PROVE  CallsHaveLines'
<1>1. ASSUME NEW q \in Engines, pc'[q] \in {"state", "intake"}
      PROVE  TimesExported(event[q].hist, task[q])' # {}
  <2>1. pc[q] \in {"state", "intake"} /\ event'[q] = event[q] /\ task'[q] = task[q]
    BY <1>1
  <2>2. TimesExported(event[q].hist, task[q])' = TimesExported(event[q].hist, task[q])
    BY <2>1 DEF TimesExported
  <2>3. QED
    BY <2>1, <2>2 DEF CallsHaveLines
<1>2. QED
  BY <1>1 DEF CallsHaveLines

\* Files that nobody writes keep their lines.
LEMMA FilesKeepLines ==
  ASSUME FilesHaveLines, UNCHANGED <<lines, stateFile, intakeFile>>
  PROVE  FilesHaveLines'
  BY DEF FilesHaveLines, TimesExported

LEMMA OthersStayExported ==
  ASSUME AcceptedEventIsExported, UNCHANGED <<lines, stateFile, intakeFile>>,
         \A q \in Engines : pc'[q] \in {"state", "intake"} =>
             /\ pc[q] \in {"state", "intake"}
             /\ event'[q] = event[q] /\ task'[q] = task[q]
  PROVE  AcceptedEventIsExported'
  BY OthersKeepLines, FilesKeepLines DEF AcceptedEventIsExported

LEMMA IntakeReadProofKeeps ==
  ASSUME IInv, NEW p \in Engines, NEW t \in Tasks, NEW i \in Intakes, IntakeReadProof(p, t, i)
  PROVE  IInv'
<1> USE TaskLedgerAssumption DEF IInv, TypeOK, IntakeReadProof, Goto, Begin, dbVars, fileVars
<1>1. TypeOK'
  BY Empties DEF PCs, Outcomes, Contents
<1>2. Calls'
  <2> SUFFICES ASSUME NEW q \in Engines PROVE Call(q)'
    BY DEF Calls
  <2>1. CASE q = p
    BY <2>1 DEF Calls, Call, IntakeCall, MoveCall, Exporting
  <2>2. CASE q # p
    BY <2>2 DEF Calls, Call, IntakeCall, MoveCall, Exporting
  <2>3. QED
    BY <2>1, <2>2
<1>3. ChainIntact'
  BY DEF ChainIntact
<1>4. ExportsAreCommitted'
  BY DEF ExportsAreCommitted
<1>5. ProofMatchesHistory'
  BY DEF ProofMatchesHistory
<1>6. AcceptedEventIsExported'
  BY OthersStayExported
<1>7. QED
  BY <1>1, <1>2, <1>3, <1>4, <1>5, <1>6 DEF IInv

LEMMA IntakeTaskExistsKeeps ==
  ASSUME IInv, NEW p \in Engines, IntakeTaskExists(p)
  PROVE  IInv'
<1> USE TaskLedgerAssumption DEF IInv, TypeOK, IntakeTaskExists, Goto, Return, Raise, dbVars, fileVars, callVars
<1>1. TypeOK'
  <2>1. CASE Raise(p, "noProof")
    BY <2>1, ReturnTypes DEF Outcomes, Raise
  <2>2. CASE ~ Raise(p, "noProof")
    BY <2>2, Empties DEF PCs
  <2>3. QED
    BY <2>1, <2>2
<1>2. Calls'
  <2> SUFFICES ASSUME NEW q \in Engines PROVE Call(q)'
    BY DEF Calls
  <2>1. CASE q = p
    BY <2>1 DEF Calls, Call, IntakeCall, MoveCall, Exporting
  <2>2. CASE q # p
    BY <2>2 DEF Calls, Call, IntakeCall, MoveCall, Exporting
  <2>3. QED
    BY <2>1, <2>2
<1>3. ChainIntact'
  BY DEF ChainIntact
<1>4. ExportsAreCommitted'
  BY DEF ExportsAreCommitted
<1>5. ProofMatchesHistory'
  BY DEF ProofMatchesHistory
<1>6. AcceptedEventIsExported'
  BY OthersStayExported
<1>7. QED
  BY <1>1, <1>2, <1>3, <1>4, <1>5, <1>6 DEF IInv

LEMMA WriteProofKeeps ==
  ASSUME IInv, NEW p \in Engines, WriteProof(p)
  PROVE  IInv'
<1> USE TaskLedgerAssumption DEF IInv, TypeOK, WriteProof, Goto, Return, Raise, dbVars, fileVars, callVars, SameProof
<1>1. TypeOK'
  <2> request[p] \in Intakes /\ task[p] \in Tasks
    BY DEF Calls, Call, IntakeCall, MoveCall
  <2>1. CASE Raise(p, "otherIntake")
    BY <2>1, ReturnTypes DEF Outcomes, Raise
  <2>2. CASE ~ Raise(p, "otherIntake")
    <3>1. proof' \in [Tasks -> Intakes \cup {None}]
      BY <2>2
    <3>2. pc' \in [Engines -> PCs]
      BY <2>2 DEF PCs
    <3>3. QED
      BY <2>2, <3>1, <3>2
  <2>3. QED
    BY <2>1, <2>2
<1>2. Calls'
  <2> SUFFICES ASSUME NEW q \in Engines PROVE Call(q)'
    BY DEF Calls
  <2>1. CASE q = p
    BY <2>1 DEF Calls, Call, IntakeCall, MoveCall, Exporting
  <2>2. CASE q # p
    BY <2>2 DEF Calls, Call, IntakeCall, MoveCall, Exporting
  <2>3. QED
    BY <2>1, <2>2
<1>3. ChainIntact'
  BY DEF ChainIntact
<1>4. ExportsAreCommitted'
  BY DEF ExportsAreCommitted
<1>5. ProofMatchesHistory'
  <2> SUFFICES ASSUME NEW t \in Tasks, row[t] # <<>> PROVE proof'[t] = row[t][1]
    BY DEF ProofMatchesHistory
  <2>1. proof[t] = row[t][1] /\ row[t][1] \in Contents
    BY ElementOfSeq, EmptySeq, LenProperties DEF ProofMatchesHistory, Histories
  <2>2. proof[t] # None
    BY <2>1 DEF Contents
  <2>3. QED
    BY <2>1, <2>2
<1>6. AcceptedEventIsExported'
  BY OthersStayExported
<1>7. QED
  BY <1>1, <1>2, <1>3, <1>4, <1>5, <1>6 DEF IInv

LEMMA ExportProofKeeps ==
  ASSUME IInv, NEW p \in Engines, ExportProof(p)
  PROVE  IInv'
<1> USE TaskLedgerAssumption DEF IInv, TypeOK, ExportProof, Goto, Return, Raise, dbVars, fileVars, callVars
<1>1. TypeOK'
  BY DEF Calls, Call, IntakeCall, MoveCall, PCs
<1>2. Calls'
  <2> SUFFICES ASSUME NEW q \in Engines PROVE Call(q)'
    BY DEF Calls
  <2>1. CASE q = p
    BY <2>1 DEF Calls, Call, IntakeCall, MoveCall, Exporting
  <2>2. CASE q # p
    BY <2>2 DEF Calls, Call, IntakeCall, MoveCall, Exporting
  <2>3. QED
    BY <2>1, <2>2
<1>3. ChainIntact'
  BY DEF ChainIntact
<1>4. ExportsAreCommitted'
  BY DEF ExportsAreCommitted
<1>5. ProofMatchesHistory'
  BY DEF ProofMatchesHistory
<1>6. AcceptedEventIsExported'
  BY OthersStayExported
<1>7. QED
  BY <1>1, <1>2, <1>3, <1>4, <1>5, <1>6 DEF IInv

LEMMA ReadStatusKeeps ==
  ASSUME IInv, NEW p \in Engines, NEW t \in Tasks, NEW m \in Moves, ReadStatus(p, t, m)
  PROVE  IInv'
<1> USE TaskLedgerAssumption DEF IInv, TypeOK, ReadStatus, Goto, Begin, dbVars, fileVars
<1>1. TypeOK'
  BY Empties DEF PCs, Outcomes, Contents
<1>2. Calls'
  <2> SUFFICES ASSUME NEW q \in Engines PROVE Call(q)'
    BY DEF Calls
  <2>1. CASE q = p
    BY <2>1 DEF Calls, Call, IntakeCall, MoveCall, Exporting
  <2>2. CASE q # p
    BY <2>2 DEF Calls, Call, IntakeCall, MoveCall, Exporting
  <2>3. QED
    BY <2>1, <2>2
<1>3. ChainIntact'
  BY DEF ChainIntact
<1>4. ExportsAreCommitted'
  BY DEF ExportsAreCommitted
<1>5. ProofMatchesHistory'
  BY DEF ProofMatchesHistory
<1>6. AcceptedEventIsExported'
  BY OthersStayExported
<1>7. QED
  BY <1>1, <1>2, <1>3, <1>4, <1>5, <1>6 DEF IInv

LEMMA ReadAuditKeeps ==
  ASSUME IInv, NEW p \in Engines, ReadAudit(p)
  PROVE  IInv'
<1> USE TaskLedgerAssumption DEF IInv, TypeOK, ReadAudit, Goto, Return, Raise, dbVars, fileVars, callVars
<1>1. TypeOK'
  <2>1. Append(head[p], request[p]) \in Histories /\ task[p] \in Tasks
    BY AppendProperties DEF Calls, Call, MoveCall, IntakeCall, Histories, Contents
  <2>2. Len(events[task[p]]) \in Nat
    BY <2>1, LenProperties
  <2>3. event'[p] \in Events
    BY <2>1, <2>2 DEF Events
  <2>4. event' \in [Engines -> Events]
    BY <2>3
  <2>5. QED
    BY <2>4 DEF PCs
<1>2. Calls'
  <2> SUFFICES ASSUME NEW q \in Engines PROVE Call(q)'
    BY DEF Calls
  <2>1. CASE q = p
    <3>1. task[p] \in Tasks /\ MoveCall(p) /\ Len(head[p]) \in Nat
      BY LenProperties DEF Calls, Call, IntakeCall, Histories
    <3>2. Len(events[task[p]]) = Len(row[task[p]]) /\ Len(row[task[p]]) \in Nat
      BY <3>1, LenProperties DEF ChainIntact, Histories
    <3>3. QED
      BY <2>1, <3>1, <3>2 DEF Call, Calls, MoveCall, Exporting
  <2>2. CASE q # p
    BY <2>2 DEF Calls, Call, IntakeCall, MoveCall, Exporting
  <2>3. QED
    BY <2>1, <2>2
<1>3. ChainIntact'
  BY DEF ChainIntact
<1>4. ExportsAreCommitted'
  BY DEF ExportsAreCommitted
<1>5. ProofMatchesHistory'
  BY DEF ProofMatchesHistory
<1>6. AcceptedEventIsExported'
  BY OthersStayExported
<1>7. QED
  BY <1>1, <1>2, <1>3, <1>4, <1>5, <1>6 DEF IInv

LEMMA CheckLineKeeps ==
  ASSUME IInv, NEW p \in Engines, CheckLine(p)
  PROVE  IInv'
<1> USE TaskLedgerAssumption DEF IInv, TypeOK, CheckLine, Goto, Return, Raise, dbVars, fileVars, callVars, ExportsNow
<1>1. TypeOK'
  <2>1. CASE Raise(p, "duplicateLine")
    BY <2>1, ReturnTypes DEF Outcomes, Raise
  <2>2. CASE ~ Raise(p, "duplicateLine")
    BY <2>2, Empties DEF PCs
  <2>3. QED
    BY <2>1, <2>2
<1>2. Calls'
  <2> SUFFICES ASSUME NEW q \in Engines PROVE Call(q)'
    BY DEF Calls
  <2>1. CASE q = p
    BY <2>1 DEF Calls, Call, IntakeCall, MoveCall, Exporting
  <2>2. CASE q # p
    BY <2>2 DEF Calls, Call, IntakeCall, MoveCall, Exporting
  <2>3. QED
    BY <2>1, <2>2
<1>3. ChainIntact'
  BY DEF ChainIntact
<1>4. ExportsAreCommitted'
  BY DEF ExportsAreCommitted
<1>5. ProofMatchesHistory'
  BY DEF ProofMatchesHistory
<1>6. CallsHaveLines'
  <2> SUFFICES ASSUME NEW q \in Engines, pc'[q] \in {"state", "intake"}
               PROVE  TimesExported(event[q].hist, task[q])' # {}
    BY DEF CallsHaveLines
  <2>1. event'[q] = event[q] /\ task'[q] = task[q]
    BY DEF PCs
  <2>2. TimesExported(event[q].hist, task[q])' = TimesExported(event[q].hist, task[q])
    BY <2>1 DEF TimesExported
  <2>3. CASE pc[q] \in {"state", "intake"}
    BY <2>2, <2>3 DEF AcceptedEventIsExported, CallsHaveLines
  <2>4. CASE pc[q] \notin {"state", "intake"}
    <3>1. q = p /\ TimesExported(event[p].hist, task[p]) # {}
      BY <2>4
    <3>2. QED
      BY <3>1, <2>2
  <2>5. QED
    BY <2>3, <2>4
<1>7. FilesHaveLines'
  BY FilesKeepLines DEF AcceptedEventIsExported
<1>8. QED
  BY <1>1, <1>2, <1>3, <1>4, <1>5, <1>6, <1>7 DEF IInv, AcceptedEventIsExported

LEMMA AppendLineKeeps ==
  ASSUME IInv, NEW p \in Engines, AppendLine(p)
  PROVE  IInv'
<1> USE TaskLedgerAssumption DEF IInv, TypeOK, AppendLine, Goto, Return, Raise, dbVars, fileVars, callVars, Appended
<1>1. TypeOK'
  <2>1. event[p].hist \in Histories
    BY DEF Events
  <2>2. lines' \in [Tasks -> Seq(Histories)]
    BY <2>1, AppendProperties
  <2>3. QED
    BY <2>2 DEF PCs
<1>2. Calls'
  <2> SUFFICES ASSUME NEW q \in Engines PROVE Call(q)'
    BY DEF Calls
  <2>1. CASE q = p
    BY <2>1 DEF Calls, Call, IntakeCall, MoveCall, Exporting
  <2>2. CASE q # p
    BY <2>2 DEF Calls, Call, IntakeCall, MoveCall, Exporting
  <2>3. QED
    BY <2>1, <2>2
<1>3. ChainIntact'
  BY DEF ChainIntact
<1>4. ExportsAreCommitted'
  <2>1. task[p] \in Tasks /\ event[p].hist \in Histories
    BY DEF Calls, Call, Events
  <2>2. IsPrefix1(event[p].hist, row[task[p]])
    BY DEF Calls, Call, Exporting
  <2>3. ASSUME NEW t \in Tasks, NEW n \in 1..Len(lines'[t])
        PROVE  IsPrefix1(lines'[t][n], row[t])
    <3>1. CASE t # task[p]
      BY <2>1, <3>1 DEF ExportsAreCommitted
    <3>2. CASE t = task[p]
      <4>1. /\ Len(lines'[t]) = Len(lines[t]) + 1 /\ Len(lines[t]) \in Nat
            /\ \A i \in 1..Len(lines[t]) : lines'[t][i] = lines[t][i]
            /\ lines'[t][Len(lines[t]) + 1] = event[p].hist
        BY <2>1, <3>2, AppendProperties, LenProperties
      <4>2. n \in 1..Len(lines[t]) \/ n = Len(lines[t]) + 1
        BY <4>1
      <4>3. QED
        BY <2>2, <3>2, <4>1, <4>2 DEF ExportsAreCommitted
    <3>3. QED
      BY <3>1, <3>2
  <2>4. QED
    BY <2>3 DEF ExportsAreCommitted
<1>5. ProofMatchesHistory'
  BY DEF ProofMatchesHistory
<1>6. CallsHaveLines'
  <2>1. task[p] \in Tasks /\ event[p].hist \in Histories
    BY DEF Calls, Call, Events
  <2>2. /\ Len(lines'[task[p]]) = Len(lines[task[p]]) + 1 /\ Len(lines[task[p]]) \in Nat
        /\ \A i \in 1..Len(lines[task[p]]) : lines'[task[p]][i] = lines[task[p]][i]
        /\ lines'[task[p]][Len(lines[task[p]]) + 1] = event[p].hist
    BY <2>1, AppendProperties, LenProperties
  <2> SUFFICES ASSUME NEW q \in Engines, pc'[q] \in {"state", "intake"}
               PROVE  \E n \in 1..Len(lines'[task[q]]) : lines'[task[q]][n] = event[q].hist
    BY DEF CallsHaveLines, TimesExported
  <2>3. CASE q = p
    <3>1. Len(lines[task[p]]) + 1 \in 1..Len(lines'[task[p]])
      BY <2>2
    <3>2. QED
      BY <2>2, <2>3, <3>1
  <2>4. CASE q # p
    <3>1. pc[q] \in {"state", "intake"} /\ task[q] \in Tasks
      BY <2>4 DEF Calls, Call
    <3>2. PICK n \in 1..Len(lines[task[q]]) : lines[task[q]][n] = event[q].hist
      <4>1. TimesExported(event[q].hist, task[q]) # {}
        BY <3>1 DEF AcceptedEventIsExported, CallsHaveLines
      <4>2. QED
        BY <4>1 DEF TimesExported
    <3>3. n \in 1..Len(lines'[task[q]]) /\ lines'[task[q]][n] = lines[task[q]][n]
      BY <2>2, <3>1, <3>2
    <3>4. QED
      BY <3>2, <3>3
  <2>5. QED
    BY <2>3, <2>4
<1>7. FilesHaveLines'
  <2>1. task[p] \in Tasks /\ event[p].hist \in Histories
    BY DEF Calls, Call, Events
  <2>2. ASSUME NEW t \in Tasks, NEW h, TimesExported(h, t) # {}
        PROVE  TimesExported(h, t)' # {}
    <3>1. PICK n \in 1..Len(lines[t]) : lines[t][n] = h
      BY <2>2 DEF TimesExported
    <3>2. n \in 1..Len(lines'[t]) /\ lines'[t][n] = lines[t][n]
      BY <2>1, <3>1, AppendProperties, LenProperties
    <3>3. QED
      BY <3>1, <3>2 DEF TimesExported
  <2>3. QED
    BY <2>2 DEF AcceptedEventIsExported, FilesHaveLines
<1>8. QED
  BY <1>1, <1>2, <1>3, <1>4, <1>5, <1>6, <1>7 DEF IInv, AcceptedEventIsExported

LEMMA WriteStateKeeps ==
  ASSUME IInv, NEW p \in Engines, WriteState(p)
  PROVE  IInv'
<1> USE TaskLedgerAssumption DEF IInv, TypeOK, WriteState, Goto, Return, Raise, dbVars, fileVars, callVars
<1>1. TypeOK'
  <2>1. event[p].hist \in Histories
    BY DEF Events
  <2>2. CASE Return(p, "done")
    BY <2>1, <2>2, ReturnTypes DEF Outcomes
  <2>3. CASE ~ Return(p, "done")
    BY <2>1, <2>3 DEF PCs
  <2>4. QED
    BY <2>2, <2>3
<1>2. Calls'
  <2> SUFFICES ASSUME NEW q \in Engines PROVE Call(q)'
    BY DEF Calls
  <2>1. CASE q = p
    BY <2>1 DEF Calls, Call, IntakeCall, MoveCall, Exporting
  <2>2. CASE q # p
    BY <2>2 DEF Calls, Call, IntakeCall, MoveCall, Exporting
  <2>3. QED
    BY <2>1, <2>2
<1>3. ChainIntact'
  BY DEF ChainIntact
<1>4. ExportsAreCommitted'
  <2>1. task[p] \in Tasks /\ IsPrefix1(event[p].hist, row[task[p]])
    BY DEF Calls, Call, Exporting
  <2>2. QED
    BY <2>1 DEF ExportsAreCommitted
<1>5. ProofMatchesHistory'
  BY DEF ProofMatchesHistory
<1>6. CallsHaveLines'
  BY OthersKeepLines DEF AcceptedEventIsExported
<1>7. FilesHaveLines'
  <2>1. task[p] \in Tasks /\ TimesExported(event[p].hist, task[p]) # {}
    BY DEF Calls, Call, AcceptedEventIsExported, CallsHaveLines
  <2>2. /\ FilesHaveLines /\ \A h, t : TimesExported(h, t)' = TimesExported(h, t)
        /\ intakeFile' = intakeFile
        /\ stateFile' = [stateFile EXCEPT ![task[p]] = event[p].hist]
        /\ stateFile \in [Tasks -> Histories]
    BY DEF AcceptedEventIsExported, TimesExported
  <2>3. QED
    BY ONLY <2>1, <2>2 DEF FilesHaveLines
<1>8. QED
  BY <1>1, <1>2, <1>3, <1>4, <1>5, <1>6, <1>7 DEF IInv, AcceptedEventIsExported

LEMMA WriteIntakeKeeps ==
  ASSUME IInv, NEW p \in Engines, WriteIntake(p)
  PROVE  IInv'
<1> USE TaskLedgerAssumption DEF IInv, TypeOK, WriteIntake, Goto, Return, Raise, dbVars, fileVars, callVars
<1>1. TypeOK'
  <2>1. request[p] \in Intakes
    BY DEF Calls, Call, IntakeCall, MoveCall
  <2>2. QED
    BY <2>1, ReturnTypes DEF Outcomes
<1>2. Calls'
  <2> SUFFICES ASSUME NEW q \in Engines PROVE Call(q)'
    BY DEF Calls
  <2>1. CASE q = p
    BY <2>1 DEF Calls, Call, IntakeCall, MoveCall, Exporting
  <2>2. CASE q # p
    BY <2>2 DEF Calls, Call, IntakeCall, MoveCall, Exporting
  <2>3. QED
    BY <2>1, <2>2
<1>3. ChainIntact'
  BY DEF ChainIntact
<1>4. ExportsAreCommitted'
  <2>1. /\ task[p] \in Tasks /\ request[p] \in Intakes
        /\ event[p].hist = <<request[p]>> /\ IsPrefix1(event[p].hist, row[task[p]])
    BY DEF Calls, Call, IntakeCall, MoveCall, Exporting
  <2>2. event[p].hist \in Seq(Contents) /\ event[p].hist # <<>> /\ row[task[p]] \in Seq(Contents)
    BY <2>1 DEF Events, Histories
  <2>3. row[task[p]] # <<>> /\ row[task[p]][1] = event[p].hist[1]
    BY <2>1, <2>2, PrefixSharesFirst
  <2>4. QED
    BY <2>1, <2>3 DEF ExportsAreCommitted
<1>5. ProofMatchesHistory'
  BY DEF ProofMatchesHistory
<1>6. CallsHaveLines'
  BY OthersKeepLines DEF AcceptedEventIsExported
<1>7. FilesHaveLines'
  <2>1. task[p] \in Tasks /\ TimesExported(event[p].hist, task[p]) # {}
    BY DEF Calls, Call, AcceptedEventIsExported, CallsHaveLines
  <2>2. event[p].hist = <<request[p]>>
    BY DEF Calls, Call, IntakeCall, MoveCall
  <2>3. /\ FilesHaveLines /\ \A h, t : TimesExported(h, t)' = TimesExported(h, t)
        /\ stateFile' = stateFile
        /\ intakeFile' = [intakeFile EXCEPT ![task[p]] = request[p]]
        /\ intakeFile \in [Tasks -> Intakes \cup {None}]
    BY DEF AcceptedEventIsExported, TimesExported
  <2>4. QED
    BY ONLY <2>1, <2>2, <2>3 DEF FilesHaveLines
<1>8. QED
  BY <1>1, <1>2, <1>3, <1>4, <1>5, <1>6, <1>7 DEF IInv, AcceptedEventIsExported

LEMMA CrashKeeps ==
  ASSUME IInv, NEW p \in Engines, Crash(p)
  PROVE  IInv'
<1> USE TaskLedgerAssumption DEF IInv, TypeOK, Crash, Goto, Return, Raise, dbVars, fileVars, callVars
<1>1. TypeOK'
  BY ReturnTypes DEF Outcomes
<1>2. Calls'
  <2> SUFFICES ASSUME NEW q \in Engines PROVE Call(q)'
    BY DEF Calls
  <2>1. CASE q = p
    BY <2>1 DEF Calls, Call, IntakeCall, MoveCall, Exporting
  <2>2. CASE q # p
    BY <2>2 DEF Calls, Call, IntakeCall, MoveCall, Exporting
  <2>3. QED
    BY <2>1, <2>2
<1>3. ChainIntact'
  BY DEF ChainIntact
<1>4. ExportsAreCommitted'
  BY DEF ExportsAreCommitted
<1>5. ProofMatchesHistory'
  BY DEF ProofMatchesHistory
<1>6. AcceptedEventIsExported'
  BY OthersStayExported
<1>7. QED
  BY <1>1, <1>2, <1>3, <1>4, <1>5, <1>6 DEF IInv

-----------------------------------------------------------------------------
(* The commit.                                                             *)

\* What an event that is accepted looks like: the row it extends and its
\* request, an intake for an empty row and a transition for any other.
LEMMA AcceptedExtends ==
  ASSUME IInv, NEW p \in Engines, pc[p] = "commit", Succeeds(event[p], task[p])
  PROVE  /\ task[p] \in Tasks
         /\ event[p].seq = Len(row[task[p]]) + 1
         /\ event[p].hist = Append(row[task[p]], request[p])
         /\ IF row[task[p]] = <<>>
            THEN request[p] \in Intakes /\ proof[task[p]] = request[p]
            ELSE request[p] \in Moves
<1>1. /\ task[p] \in Tasks /\ request[p] \in Contents
      /\ IntakeCall(p) \/ MoveCall(p)
  BY DEF IInv, Calls, Call, IntakeCall, MoveCall, Contents
<1>2. /\ row[task[p]] \in Seq(Contents) /\ head[p] \in Seq(Contents)
      /\ Len(row[task[p]]) \in Nat /\ Len(head[p]) \in Nat
      /\ Len(events[task[p]]) = Len(row[task[p]])
  BY <1>1, LenProperties DEF IInv, TypeOK, Histories, ChainIntact
<1>3. CASE IntakeCall(p)
  <2>1. Len(event[p].hist) = 1
    BY <1>3 DEF IntakeCall
  <2>2. row[task[p]] = <<>> /\ event[p].seq = 1
    BY <2>1 DEF Succeeds
  <2>3. Append(row[task[p]], request[p]) = <<request[p]>>
    BY <2>2
  <2>4. QED
    BY <1>1, <1>3, <2>2, <2>3 DEF IntakeCall
<1>4. CASE MoveCall(p)
  <2>1. event[p].hist = Append(head[p], request[p]) /\ head[p] # <<>>
    BY <1>4 DEF MoveCall
  <2>2. Len(event[p].hist) = Len(head[p]) + 1 /\ Len(head[p]) # 0
    BY <1>1, <1>2, <2>1, AppendProperties, EmptySeq
  <2>3. row[task[p]] # <<>>
    BY <1>2, <2>2 DEF Succeeds
  <2>4. Front1(event[p].hist) = row[task[p]] /\ event[p].seq = Len(row[task[p]]) + 1
    BY <1>2, <2>3 DEF Succeeds
  <2>5. Front1(event[p].hist) = head[p]
    BY <1>1, <1>2, <2>1, FrontOfAppend
  <2>6. QED
    BY <1>1, <1>4, <2>1, <2>3, <2>4, <2>5 DEF MoveCall
<1>5. QED
  BY <1>1, <1>3, <1>4

\* A row and a chain that grow by one event are still a chain.
LEMMA ChainGrows ==
  ASSUME NEW h \in Seq(Contents), NEW c \in Contents, NEW es \in Seq(Events),
         Len(h) = Len(es),
         \A n \in 1..Len(es) : es[n] = [seq |-> n, hist |-> SubSeq(h, 1, n)],
         NEW e \in Events, e = [seq |-> Len(h) + 1, hist |-> Append(h, c)]
  PROVE  /\ Len(Append(h, c)) = Len(Append(es, e))
         /\ \A n \in 1..Len(Append(es, e)) :
               Append(es, e)[n] = [seq |-> n, hist |-> SubSeq(Append(h, c), 1, n)]
<1>1. /\ Len(Append(h, c)) = Len(h) + 1 /\ Len(h) \in Nat
      /\ Append(h, c) \in Seq(Contents)
      /\ Len(Append(es, e)) = Len(es) + 1
      /\ \A i \in 1..Len(es) : Append(es, e)[i] = es[i]
      /\ Append(es, e)[Len(es) + 1] = e
  BY AppendProperties, LenProperties
<1>2. ASSUME NEW n \in 1..Len(Append(es, e))
      PROVE  Append(es, e)[n] = [seq |-> n, hist |-> SubSeq(Append(h, c), 1, n)]
  <2>1. CASE n \in 1..Len(es)
    <3>1. n \in 0..Len(h)
      BY <2>1, <1>1
    <3>2. SubSeq(Append(h, c), 1, n) = SubSeq(h, 1, n)
      BY <3>1, AppendKeepsBeginning
    <3>3. QED
      BY <1>1, <2>1, <3>2
  <2>2. CASE n = Len(es) + 1
    <3>1. SubSeq(Append(h, c), 1, n) = Append(h, c)
      BY <1>1, <2>2, SubSeqFull
    <3>2. QED
      BY <1>1, <2>2, <3>1
  <2>3. QED
    BY <1>1, <2>1, <2>2
<1>3. QED
  BY <1>1, <1>2

\* A commit that is accepted.
LEMMA AcceptKeeps ==
  ASSUME IInv, NEW p \in Engines, pc[p] = "commit",
         Succeeds(event[p], task[p]),
         events' = [events EXCEPT ![task[p]] = Append(@, event[p])],
         row' = [row EXCEPT ![task[p]] = event[p].hist],
         pc' = [pc EXCEPT ![p] = "line"],
         UNCHANGED <<proof, fileVars, callVars, outcome>>
  PROVE  IInv'
<1> DEFINE t == task[p]
           r == request[p]
<1>1. /\ t \in Tasks /\ event[p].seq = Len(row[t]) + 1
      /\ event[p].hist = Append(row[t], r)
      /\ IF row[t] = <<>> THEN r \in Intakes /\ proof[t] = r ELSE r \in Moves
  BY AcceptedExtends
<1>2. /\ r \in Contents /\ row[t] \in Seq(Contents) /\ Len(row[t]) \in Nat
      /\ event[p] \in Events /\ events[t] \in Seq(Events)
  BY <1>1, LenProperties DEF Contents, IInv, TypeOK, Histories
<1>3. row'[t] = Append(row[t], r) /\ \A u \in Tasks \ {t} : row'[u] = row[u]
  BY <1>1 DEF IInv, TypeOK
<1>4. \A g \in Seq(Contents), u \in Tasks : IsPrefix1(g, row[u]) => IsPrefix1(g, row'[u])
  <2> SUFFICES ASSUME NEW g \in Seq(Contents), NEW u \in Tasks, IsPrefix1(g, row[u])
               PROVE  IsPrefix1(g, row'[u])
    OBVIOUS
  <2>1. CASE u # t
    BY <1>3, <2>1
  <2>2. CASE u = t
    <3>1. IsPrefix1(g, Append(row[t], r))
      BY <1>2, <2>2, PrefixOfAppend
    <3>2. QED
      BY <1>3, <2>2, <3>1
  <2>3. QED
    BY <2>1, <2>2
<1>5. \A u \in Tasks : Len(row[u]) \in Nat /\ Len(row'[u]) \in Nat /\ Len(row[u]) <= Len(row'[u])
  BY <1>2, <1>3, AppendProperties, LenProperties DEF IInv, TypeOK, Histories
<1>6. TypeOK'
  <2>1. Append(events[t], event[p]) \in Seq(Events) /\ event[p].hist \in Histories
    BY <1>1, <1>2, AppendProperties DEF Events
  <2>2. events' \in [Tasks -> Seq(Events)] /\ row' \in [Tasks -> Histories]
    BY <2>1 DEF IInv, TypeOK
  <2>3. pc' \in [Engines -> PCs]
    BY DEF IInv, TypeOK, PCs
  <2>4. QED
    BY <2>2, <2>3 DEF IInv, TypeOK, fileVars, callVars
<1>7. Calls'
  <2> SUFFICES ASSUME NEW q \in Engines PROVE Call(q)'
    BY DEF Calls
  <2>1. pc'[q] = IF q = p THEN "line" ELSE pc[q]
    BY DEF IInv, TypeOK
  <2>2. event[q].hist \in Seq(Contents) /\ Len(head[q]) \in Nat /\ event[q].seq \in Nat
    BY LenProperties DEF IInv, TypeOK, Events, Histories
  <2>3. CASE q = p
    <3>1. IsPrefix1(event[p].hist, row'[t])
      BY <1>1, <1>3, <2>2, <2>3, PrefixOfItself
    <3>2. Call(q) /\ pc[q] = "commit"
      BY <2>3 DEF IInv, Calls
    <3>3. (IntakeCall(q) \/ MoveCall(q))'
      BY <1>1, <1>5, <2>1, <2>2, <2>3, <3>2 DEF Call, IntakeCall, MoveCall, callVars
    <3>4. QED
      <4>1. task'[q] \in Tasks /\ outcome'[q] = "none" /\ pc'[q] # "idle"
        BY <1>1, <2>1, <2>3, <3>2 DEF Call, callVars
      <4>2. IsPrefix1(event[q].hist, row[task[q]])'
        BY <2>3, <3>1 DEF callVars
      <4>3. QED
        BY <3>3, <4>1, <4>2 DEF Call
  <2>4. CASE q # p
    <3>1. CASE pc[q] = "idle"
      BY <2>1, <2>4, <3>1 DEF IInv, Calls, Call, callVars
    <3>2. CASE pc[q] # "idle"
      <4>1. task[q] \in Tasks /\ Call(q)
        BY <3>2 DEF IInv, Calls, Call
      <4>2. pc[q] \in Exporting => IsPrefix1(event[q].hist, row'[task[q]])
        BY <1>4, <2>2, <3>2, <4>1 DEF Call
      <4>3. IntakeCall(q) \/ MoveCall(q) => (IntakeCall(q) \/ MoveCall(q))'
        BY <1>5, <2>1, <2>2, <2>4, <4>1 DEF IntakeCall, MoveCall, callVars
      <4>4. QED
        BY <2>1, <2>4, <3>2, <4>1, <4>2, <4>3 DEF Call, callVars
    <3>3. QED
      BY <3>1, <3>2
  <2>5. QED
    BY <2>3, <2>4
<1>8. ChainIntact'
  <2> SUFFICES ASSUME NEW u \in Tasks
               PROVE  /\ Len(row'[u]) = Len(events'[u])
                      /\ \A n \in 1..Len(events'[u]) :
                            events'[u][n] = [seq |-> n, hist |-> SubSeq(row'[u], 1, n)]
    BY DEF ChainIntact
  <2>1. CASE u # t
    BY <1>1, <1>3, <2>1 DEF IInv, TypeOK, ChainIntact
  <2>2. CASE u = t
    <3>1. event[p] = [seq |-> Len(row[t]) + 1, hist |-> Append(row[t], r)]
      BY <1>1, <1>2 DEF Events
    <3>2. /\ Len(row[t]) = Len(events[t])
          /\ \A n \in 1..Len(events[t]) : events[t][n] = [seq |-> n, hist |-> SubSeq(row[t], 1, n)]
      BY <1>1 DEF IInv, ChainIntact
    <3>3. events'[t] = Append(events[t], event[p])
      BY <1>1 DEF IInv, TypeOK
    <3>4. /\ Len(Append(row[t], r)) = Len(Append(events[t], event[p]))
          /\ \A n \in 1..Len(Append(events[t], event[p])) :
                Append(events[t], event[p])[n]
                   = [seq |-> n, hist |-> SubSeq(Append(row[t], r), 1, n)]
      <4> DEFINE h == row[t]
                 es == events[t]
                 e == event[p]
      <4>1. /\ h \in Seq(Contents) /\ r \in Contents /\ es \in Seq(Events) /\ e \in Events
            /\ e = [seq |-> Len(h) + 1, hist |-> Append(h, r)]
            /\ Len(h) = Len(es)
            /\ \A n \in 1..Len(es) : es[n] = [seq |-> n, hist |-> SubSeq(h, 1, n)]
        BY <1>2, <3>1, <3>2
      <4> HIDE DEF h, es, e, r
      <4>2. /\ Len(Append(h, r)) = Len(Append(es, e))
            /\ \A n \in 1..Len(Append(es, e)) :
                  Append(es, e)[n] = [seq |-> n, hist |-> SubSeq(Append(h, r), 1, n)]
        BY <4>1, ChainGrows
      <4>3. QED
        BY <4>2 DEF h, es, e, r
    <3>5. QED
      BY <1>3, <2>2, <3>3, <3>4
  <2>3. QED
    BY <2>1, <2>2
<1>9. ASSUME NEW u \in Tasks, row[u] # <<>>
      PROVE  row'[u] # <<>> /\ row'[u][1] = row[u][1]
  <2>1. row[u] \in Seq(Contents) /\ row'[u] \in Seq(Contents)
    BY <1>6 DEF IInv, TypeOK, Histories
  <2>2. IsPrefix1(row[u], row'[u])
    BY <1>4, <2>1, PrefixOfItself
  <2>3. QED
    BY <1>9, <2>1, <2>2, PrefixSharesFirst
<1>10. ExportsAreCommitted'
  <2>1. \A u \in Tasks : stateFile[u] \in Seq(Contents) /\ \A n \in 1..Len(lines[u]) : lines[u][n] \in Seq(Contents)
    BY ElementOfSeq DEF IInv, TypeOK, Histories
  <2>2. QED
    BY <1>4, <1>9, <2>1 DEF IInv, ExportsAreCommitted, fileVars
<1>11. ProofMatchesHistory'
  <2> SUFFICES ASSUME NEW u \in Tasks, row'[u] # <<>> PROVE proof[u] = row'[u][1]
    BY DEF ProofMatchesHistory
  <2>1. CASE row[u] # <<>>
    BY <1>9, <2>1 DEF IInv, ProofMatchesHistory
  <2>2. CASE row[u] = <<>>
    <3>1. u = t
      BY <1>3, <2>2
    <3>2. Len(row[t]) = 0 /\ row'[t][Len(row[t]) + 1] = r
      BY <1>2, <1>3, <2>2, <3>1, AppendProperties
    <3>3. QED
      BY <1>1, <2>2, <3>1, <3>2
  <2>3. QED
    BY <2>1, <2>2
<1>12. AcceptedEventIsExported'
  <2>1. \A q \in Engines : pc'[q] \in {"state", "intake"} => pc[q] \in {"state", "intake"}
    BY DEF IInv, TypeOK
  <2>2. QED
    BY <2>1, OthersStayExported DEF IInv, callVars, fileVars
<1>13. QED
  BY <1>6, <1>7, <1>8, <1>10, <1>11, <1>12 DEF IInv

\* A replay goes on to the exports of what is committed already.
LEMMA ReplayKeeps ==
  ASSUME IInv, NEW p \in Engines, pc[p] = "commit", Replayed(event[p], task[p]),
         pc' = [pc EXCEPT ![p] = "line"],
         UNCHANGED <<dbVars, fileVars, callVars, outcome>>
  PROVE  IInv'
<1> USE DEF IInv, TypeOK, dbVars, fileVars, callVars
<1>1. IsPrefix1(event[p].hist, row[task[p]])
  BY PrefixOfItself DEF Events, Histories, Replayed
<1>2. TypeOK'
  BY DEF PCs
<1>3. Calls'
  BY <1>1 DEF Calls, Call, IntakeCall, MoveCall, Exporting
<1>4. ChainIntact' /\ ExportsAreCommitted' /\ ProofMatchesHistory'
  BY DEF ChainIntact, ExportsAreCommitted, ProofMatchesHistory
<1>5. AcceptedEventIsExported'
  BY OthersStayExported
<1>6. QED
  BY <1>2, <1>3, <1>4, <1>5

\* A call that raises changes nothing that is committed or exported.
LEMMA RaiseKeeps ==
  ASSUME IInv, NEW p \in Engines, NEW how \in Outcomes, Raise(p, how)
  PROVE  IInv'
<1> USE DEF IInv, TypeOK, Raise, Return, Goto, dbVars, fileVars
<1>1. TypeOK'
  BY ReturnTypes
<1>2. Calls'
  BY DEF Calls, Call, IntakeCall, MoveCall, Exporting
<1>3. ChainIntact' /\ ExportsAreCommitted' /\ ProofMatchesHistory'
  BY DEF ChainIntact, ExportsAreCommitted, ProofMatchesHistory
<1>4. AcceptedEventIsExported'
  BY OthersStayExported
<1>5. QED
  BY <1>1, <1>2, <1>3, <1>4

LEMMA CommitKeeps ==
  ASSUME IInv, NEW p \in Engines, Commit(p)
  PROVE  IInv'
<1>1. "refused" \in Outcomes
  BY DEF Outcomes
<1>2. QED
  BY <1>1, AcceptKeeps, ReplayKeeps, RaiseKeeps DEF Commit, Goto

-----------------------------------------------------------------------------
(* The invariants.                                                         *)

LEMMA InitIInv == Init => IInv
<1> SUFFICES ASSUME Init PROVE IInv
  OBVIOUS
<1>1. TypeOK
  BY Empties, EmptySeq, TaskLedgerAssumption DEF Init, TypeOK, PCs, Outcomes
<1>2. Calls /\ AcceptedEventIsExported
  BY DEF Init, Calls, Call, AcceptedEventIsExported, CallsHaveLines, FilesHaveLines
<1>3. ChainIntact /\ ProofMatchesHistory
  BY EmptySeq DEF Init, ChainIntact, ProofMatchesHistory
<1>4. ExportsAreCommitted
  <2>1. IsPrefix1(<<>>, <<>>)
    BY EmptySeq, EmptyIsPrefix
  <2>2. Len(<<>>) = 0
    OBVIOUS
  <2>3. QED
    BY <2>1, <2>2 DEF Init, ExportsAreCommitted
<1>5. QED
  BY <1>1, <1>2, <1>3, <1>4 DEF IInv

\* IInv is inductive.
LEMMA NextKeepsIInv == IInv /\ [Next]_vars => IInv'
<1> SUFFICES ASSUME IInv, [Next]_vars PROVE IInv'
  OBVIOUS
<1>1. CASE UNCHANGED vars
  <2>1. AcceptedEventIsExported'
    BY <1>1, OthersStayExported DEF IInv, vars, dbVars, fileVars, callVars
  <2>2. QED
    BY <1>1, <2>1 DEF vars, dbVars, fileVars, callVars, IInv, TypeOK, Calls, Call, IntakeCall,
       MoveCall, ChainIntact, ExportsAreCommitted, ProofMatchesHistory
<1>2. CASE Next
  BY <1>2, IntakeReadProofKeeps, IntakeTaskExistsKeeps, WriteProofKeeps,
     ExportProofKeeps, ReadStatusKeeps, ReadAuditKeeps,
     CommitKeeps, CheckLineKeeps, AppendLineKeeps,
     WriteStateKeeps, WriteIntakeKeeps, CrashKeeps
     DEF Next
<1>3. QED
  BY <1>1, <1>2

LEMMA IInvHolds == Spec => []IInv
  BY InitIInv, NextKeepsIInv, PTL DEF Spec

\* Every variable of the task store and of the calls keeps its type.
THEOREM TypeCorrect == Spec => []TypeOK
<1>1. IInv => TypeOK
  BY DEF IInv
<1>2. QED
  BY IInvHolds, <1>1, PTL

\* The audit rows of a task are one hash chain that ends in its state row.
THEOREM OneChain == Spec => []ChainIntact
<1>1. IInv => ChainIntact
  BY DEF IInv
<1>2. QED
  BY IInvHolds, <1>1, PTL

\* No exported file runs ahead of SQLite.
THEOREM ExportsFollow == Spec => []ExportsAreCommitted
<1>1. IInv => ExportsAreCommitted
  BY DEF IInv
<1>2. QED
  BY IInvHolds, <1>1, PTL

\* The recorded initialization request is the one the task began with.
THEOREM ProofFits == Spec => []ProofMatchesHistory
<1>1. IInv => ProofMatchesHistory
  BY DEF IInv
<1>2. QED
  BY IInvHolds, <1>1, PTL

\* What state.json and intake.json show has its line in audit.jsonl, long after the calls
\* that wrote them have returned; so has the event of a call that is past its line.
THEOREM ExportsComplete == Spec => []AcceptedEventIsExported
<1>1. IInv => AcceptedEventIsExported
  BY DEF IInv
<1>2. QED
  BY IInvHolds, <1>1, PTL

-----------------------------------------------------------------------------
(* The refinement.                                                         *)

\* A row changes in no other way than by the event of one engine's commit.
LEMMA RowsGrowByCommits ==
  ASSUME IInv, NEW p \in Engines, Commit(p)
  PROVE  TH!Next \/ row' = row
<1>1. CASE ~ Succeeds(event[p], task[p]) \/ Occupied(event[p], task[p])
  BY <1>1 DEF Commit, Raise, dbVars
<1>2. CASE Succeeds(event[p], task[p]) /\ ~ Occupied(event[p], task[p])
  <2>1. /\ task[p] \in Tasks /\ event[p].hist = Append(row[task[p]], request[p])
        /\ IF row[task[p]] = <<>> THEN request[p] \in Intakes ELSE request[p] \in Moves
    BY <1>2, AcceptedExtends DEF Commit
  <2>2. row' = [row EXCEPT ![task[p]] = Append(row[task[p]], request[p])]
    BY <1>2, <2>1 DEF Commit, Replayed
  <2>3. CASE row[task[p]] = <<>>
    <3>1. Append(row[task[p]], request[p]) = <<request[p]>>
      BY <2>3
    <3>2. TH!Create(task[p], request[p])
      BY <2>2, <2>3, <3>1 DEF TH!Create
    <3>3. QED
      BY <2>1, <2>3, <3>2 DEF TH!Next
  <2>4. CASE row[task[p]] # <<>>
    <3>1. TH!Extend(task[p], request[p])
      BY <2>2, <2>4 DEF TH!Extend
    <3>2. QED
      BY <2>1, <2>4, <3>1 DEF TH!Next
  <2>5. QED
    BY <2>3, <2>4
<1>3. QED
  BY <1>1, <1>2

\* Every step of the ledger is a step of the abstract history or leaves it.
LEMMA StepRefines == IInv /\ [Next]_vars => [TH!Next]_row
<1> SUFFICES ASSUME IInv, [Next]_vars PROVE TH!Next \/ row' = row
  OBVIOUS
<1>1. CASE UNCHANGED vars
  BY <1>1 DEF vars, dbVars
<1>2. CASE \E p \in Engines : Commit(p)
  BY <1>2, RowsGrowByCommits
<1>3. CASE Next /\ ~ \E p \in Engines : Commit(p)
  BY <1>3 DEF Next, IntakeReadProof, IntakeTaskExists, WriteProof, ExportProof, ReadStatus,
     ReadAudit, CheckLine, AppendLine, WriteState, WriteIntake, Crash, Raise, dbVars
<1>4. QED
  BY <1>1, <1>2, <1>3

\* Whatever engines race and crash, the rows are one append-only history per
\* task that begins with an intake: TaskLedger implements TaskHistory.
THEOREM Refinement == Spec => ImplementsTaskHistory
<1>1. Init => TH!Init
  BY DEF Init, TH!Init
<1>2. QED
  BY <1>1, IInvHolds, StepRefines, PTL DEF Spec, ImplementsTaskHistory, TH!Spec

\* A commit is refused only when somebody else has extended the task since its
\* state was read.
THEOREM OnlyOvertakenIsRefused == Spec => RefusedMeansOvertaken
<1>1. ASSUME IInv, [Next]_vars, NEW p \in Engines,
             pc[p] = "commit", outcome'[p] = "refused"
      PROVE  row[task[p]] # head[p]
  <2> SUFFICES ASSUME row[task[p]] = head[p] PROVE FALSE
    OBVIOUS
  <2>1. Call(p) /\ outcome[p] = "none" /\ task[p] \in Tasks
    BY <1>1 DEF IInv, Calls, Call
  <2>2. Commit(p)
    <3>1. Next /\ outcome \in [Engines -> Outcomes] /\ outcome'[p] # outcome[p]
      BY <1>1, <2>1 DEF vars, IInv, TypeOK
    <3>2. PICK q \in Engines :
            \/ \E t \in Tasks, i \in Intakes : IntakeReadProof(q, t, i)
            \/ \E t \in Tasks, m \in Moves : ReadStatus(q, t, m)
            \/ IntakeTaskExists(q) \/ WriteProof(q) \/ ExportProof(q) \/ ReadAudit(q)
            \/ Commit(q) \/ CheckLine(q) \/ AppendLine(q) \/ WriteState(q)
            \/ WriteIntake(q) \/ Crash(q)
      BY <3>1 DEF Next
    <3>3. q = p
      BY <3>1, <3>2 DEF IntakeReadProof, ReadStatus, IntakeTaskExists, WriteProof,
         ExportProof, ReadAudit, Commit, CheckLine, AppendLine, WriteState, WriteIntake,
         Crash, Raise, Return, Begin, callVars
    <3>4. ~ Crash(p)
      BY <1>1, <3>1 DEF Crash, Raise, Return
    <3>5. QED
      BY <1>1, <3>2, <3>3, <3>4 DEF IntakeReadProof, ReadStatus, Begin, IntakeTaskExists,
         WriteProof, ExportProof, ReadAudit, CheckLine, ExportsNow, AppendLine, WriteState,
         WriteIntake
  <2>3. Occupied(event[p], task[p]) \/ ~ Succeeds(event[p], task[p])
    BY <1>1, <2>1, <2>2 DEF Commit
  <2>4. /\ row[task[p]] \in Seq(Contents) /\ Len(row[task[p]]) \in Nat
        /\ events[task[p]] \in Seq(Events) /\ event[p].seq \in Nat
        /\ Len(events[task[p]]) = Len(row[task[p]])
    BY <1>1, <2>1, LenProperties DEF IInv, TypeOK, Histories, Events, ChainIntact
  <2>5. CASE IntakeCall(p)
    <3>1. row[task[p]] = <<>> /\ events[task[p]] = <<>> /\ event[p].seq = 1
      BY <2>4, <2>5, EmptySeq DEF IntakeCall
    <3>2. Len(event[p].hist) = 1 /\ Len(events[task[p]]) = 0
      BY <2>5, <3>1 DEF IntakeCall
    <3>3. QED
      BY <2>3, <3>1, <3>2 DEF Occupied, Succeeds
  <2>6. CASE MoveCall(p)
    <3>1. /\ request[p] \in Contents /\ row[task[p]] # <<>>
          /\ event[p].hist = Append(row[task[p]], request[p])
          /\ Len(row[task[p]]) < event[p].seq /\ event[p].seq <= Len(row[task[p]]) + 1
      BY <1>1, <2>6 DEF MoveCall, Contents
    <3>2. event[p].seq = Len(events[task[p]]) + 1
      BY <2>4, <3>1
    <3>3. Len(event[p].hist) = Len(row[task[p]]) + 1 /\ Front1(event[p].hist) = row[task[p]]
      BY <2>4, <3>1, AppendProperties, FrontOfAppend
    <3>4. Len(row[task[p]]) \in 1..Len(events[task[p]]) /\ events[task[p]] # <<>>
      BY <2>4, <3>1, EmptySeq
    <3>5. events[task[p]][Len(events[task[p]])].hist = row[task[p]]
      <4>1. events[task[p]][Len(events[task[p]])].hist = SubSeq(row[task[p]], 1, Len(events[task[p]]))
        <5>1. \A n \in 1..Len(events[task[p]]) :
                 events[task[p]][n] = [seq |-> n, hist |-> SubSeq(row[task[p]], 1, n)]
          BY <1>1, <2>1 DEF IInv, ChainIntact
        <5>2. Len(events[task[p]]) \in 1..Len(events[task[p]])
          BY <2>4, <3>4
        <5> DEFINE k == Len(events[task[p]])
        <5>3. events[task[p]][k] = [seq |-> k, hist |-> SubSeq(row[task[p]], 1, k)]
          <6> HIDE DEF k
          <6>1. QED
            BY <5>1, <5>2 DEF k
        <5>4. QED
          BY <5>3
      <4>2. QED
        BY <2>4, <4>1, SubSeqFull
    <3>6. QED
      BY <2>3, <2>4, <3>1, <3>2, <3>3, <3>4, <3>5 DEF Occupied, Succeeds
  <2>7. QED
    BY <2>1, <2>5, <2>6, <1>1 DEF Call
<1>2. IInv /\ [Next]_vars =>
        [\A p \in Engines : pc[p] = "commit" /\ outcome'[p] = "refused" => row[task[p]] # head[p]]_vars
  BY <1>1
<1>3. QED
  BY <1>2, IInvHolds, PTL DEF Spec, RefusedMeansOvertaken
===============================================================================
