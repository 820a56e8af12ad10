-------------------------- MODULE CodingAttemptProofs --------------------------
(***************************************************************************)
(* The invariants and action properties of CodingSlot, for every number of *)
(* controllers, candidates, bindings and published HOLD records; those of  *)
(* the bounded process and of its composition with the slot, for every     *)
(* number of descendants; and that the composition implements CodingSlot.  *)
(*                                                                         *)
(* The argument for the slot has two halves.  Sound says of a slot what its*)
(* validation checks and what is true besides; each of the four writes     *)
(* keeps it under the conditions its call has checked.  CallOK says of a   *)
(* controller that while its attempt runs the slot is reserved for just    *)
(* this attempt and looks as it did in the old snapshot, so the record it  *)
(* will build fits.                                                        *)
(*                                                                         *)
(* The argument for the process: until it is in the job the root is        *)
(* suspended and has no descendants, and once it is in the job every       *)
(* closing of the job reaches the whole tree; so nothing works when the    *)
(* supervisor has stopped.  Somebody at work is terminated only where the  *)
(* time-out or the error is set, or where the call will raise.             *)
(***************************************************************************)
EXTENDS CodingAttempt, FiniteSetTheorems, TLAPS

Slots ==
    [gate : Bindings \cup {None}, state : SlotStates, remaining : 0..2,
     active : Candidates \cup {None}, historical : SUBSET Candidates,
     reserved : Reservations \cup {None}, records : SUBSET Records]

Attempts(s) == {r \in s.records : r.attempt # None}
Installable(s) == {r.candidate : r \in Ready(s)}

\* ReviewExcludesAttempts, of any slot.
Called(s) ==
    s.reserved # None =>
        \/ /\ s.state = "EMPTY"
           /\ s.reserved.kind = "ORDINARY" /\ s.reserved.parent = None
        \/ /\ s.state = "EMPTY_FOR_REMEDIATION"
           /\ s.reserved.kind = "REMEDIATION"
           /\ s.historical = {s.reserved.parent}

Sound(s) ==
    /\ s \in Slots
    /\ IsFiniteSet(s.records)
    /\ Valid(s)
    /\ s.state \in {"EMPTY", "FROZEN_REVIEW_V1"} => s.historical = {}
    /\ s.state = "EMPTY_FOR_REMEDIATION" => \E k \in Candidates : s.historical = {k}
    /\ Called(s)
    /\ Installable(s) \subseteq ({s.active} \ {None}) \cup s.historical

-----------------------------------------------------------------------------
(* The slot alone.                                                         *)

\* The two kinds of attempt, as the prelaunch gates derive them from a snapshot.
LEMMA KindsAndParents ==
  ASSUME NEW s
  PROVE  /\ KindFor(s) \in Kinds
         /\ KindFor(s) = "ORDINARY" => P1Ordinary(s) /\ ParentFor(s) = None
         /\ KindFor(s) = "REMEDIATION" => ~ P1Ordinary(s)
  BY DEF KindFor, ParentFor, Kinds

\* The slot a gate starts with.
LEMMA EmptySlotSound == Sound(EmptySlot)
<1>1. IsFiniteSet({}) /\ Cardinality({}) = 0
  BY FS_EmptySet
<1>2. EmptySlot \in Slots
  BY DEF EmptySlot, Slots, SlotStates
<1>3. {r \in EmptySlot.records : r.attempt # None} = {} /\ Ready(EmptySlot) = {}
  BY DEF EmptySlot, Ready
<1>4. Valid(EmptySlot)
  BY <1>1, <1>3, CodingSlotAssumption DEF EmptySlot, Valid
<1>5. QED
  BY <1>1, <1>2, <1>3, <1>4 DEF Sound, EmptySlot, Called, Installable

\* reserve_coding_execution_attempt keeps a slot sound.
LEMMA ReserveKeepsSound ==
  ASSUME NEW s, Sound(s), s.reserved = None, s.remaining > 0, NEW a \in Reservations,
         a.number = 3 - s.remaining,
         \/ a.kind = "ORDINARY" /\ a.parent = None /\ s.state = "EMPTY"
         \/ /\ a.kind = "REMEDIATION" /\ s.state = "EMPTY_FOR_REMEDIATION"
            /\ a.parent \in s.historical
  PROVE  Sound([s EXCEPT !.remaining = @ - 1, !.reserved = a])
<1> DEFINE t == [s EXCEPT !.remaining = @ - 1, !.reserved = a]
<1>1. s \in Slots /\ Valid(s) /\ IsFiniteSet(s.records)
  BY DEF Sound
<1>2. /\ t \in Slots
      /\ t.records = s.records /\ t.gate = s.gate /\ t.state = s.state
      /\ t.active = s.active /\ t.historical = s.historical
      /\ t.remaining = s.remaining - 1 /\ t.reserved = a
  <2>1. s.remaining - 1 \in 0..2
    BY <1>1 DEF Slots
  <2>2. /\ t.records = s.records /\ t.gate = s.gate /\ t.state = s.state
        /\ t.active = s.active /\ t.historical = s.historical
        /\ t.remaining = s.remaining - 1 /\ t.reserved = a
    BY <1>1 DEF Slots
  <2>3. t \in Slots
    BY <1>1, <2>1 DEF Slots
  <2>4. QED
    BY <2>2, <2>3
<1>3. a # None
  BY ReservationAssumption
<1>4. Cardinality({r \in t.records : r.attempt # None}) + 1 = 2 - t.remaining
  <2>1. {r \in t.records : r.attempt # None} = Attempts(s)
    BY <1>2 DEF Attempts
  <2>2. IsFiniteSet(Attempts(s)) /\ Cardinality(Attempts(s)) \in Nat
    BY <1>1, FS_Subset, FS_CardinalityType DEF Attempts
  <2>3. Cardinality(Attempts(s)) + 0 = 2 - s.remaining
    BY <1>1 DEF Valid, Attempts
  <2>4. s.remaining \in 0..2 /\ t.remaining = s.remaining - 1
    BY <1>1, <1>2 DEF Slots
  <2>5. Cardinality(Attempts(s)) + 1 = 2 - t.remaining
    <3> HIDE DEF t
    <3>1. QED
      BY <2>2, <2>3, <2>4
  <2>6. QED
    BY <2>1, <2>5
<1>5. Ready(t) = Ready(s)
  BY <1>2 DEF Ready
<1>6. t.reserved.number = 2 - t.remaining
  BY <1>1, <1>2 DEF Slots
<1>7. Valid(t)
  BY <1>1, <1>2, <1>3, <1>4, <1>5, <1>6 DEF Valid
<1>8. Called(t)
  BY <1>2 DEF Called, Sound
<1>9. QED
  BY <1>1, <1>2, <1>5, <1>7, <1>8 DEF Sound, Installable

\* What the record of an attempt leaves, apart from the candidate ids.
LEMMA InstallFacts ==
  ASSUME NEW s, Sound(s), NEW r \in Records, r \notin s.records, r.attempt # None,
         s.reserved = r.attempt, SameGate(s, r),
         r.outcome = "CANDIDATE_READY" => r.candidate \in Candidates,
         NEW t, t = Installed(s, r)
  PROVE  /\ t \in Slots /\ IsFiniteSet(t.records)
         /\ t.records = s.records \cup {r} /\ t.gate = r.binding
         /\ t.state = StateAfter(s, r) /\ t.active = ActiveAfter(s, r)
         /\ t.historical = s.historical
         /\ t.remaining = s.remaining /\ t.reserved = None
         /\ Cardinality({q \in t.records : q.attempt # None}) = 2 - t.remaining
         /\ \A q \in t.records : q.attempt # None => q.binding = t.gate
         /\ r.outcome # "CANDIDATE_READY" => Ready(t) = Ready(s)
         /\ r.outcome = "CANDIDATE_READY" => /\ Ready(t) = Ready(s) \cup {r}
                                            /\ t.active = r.candidate
<1>1. s \in Slots /\ Valid(s) /\ IsFiniteSet(s.records)
  BY DEF Sound
<1>2. /\ t.records = s.records \cup {r} /\ t.gate = r.binding
      /\ t.state = StateAfter(s, r) /\ t.active = ActiveAfter(s, r)
      /\ t.historical = s.historical
      /\ t.remaining = s.remaining /\ t.reserved = None
  BY <1>1 DEF Slots, Installed
<1>3. StateAfter(s, r) \in SlotStates /\ ActiveAfter(s, r) \in Candidates \cup {None}
  BY <1>1 DEF StateAfter, ActiveAfter, Slots, SlotStates
<1>4. t \in Slots
  BY <1>1, <1>3 DEF Slots, Installed, Records
<1>5. IsFiniteSet(t.records)
  BY <1>1, <1>2, FS_AddElement
<1>6. Cardinality({q \in t.records : q.attempt # None}) = 2 - t.remaining
  <2>1. {q \in t.records : q.attempt # None} = Attempts(s) \cup {r}
    BY <1>2 DEF Attempts
  <2>2. IsFiniteSet(Attempts(s)) /\ Cardinality(Attempts(s)) \in Nat /\ r \notin Attempts(s)
    BY <1>1, FS_Subset, FS_CardinalityType DEF Attempts
  <2>3. Cardinality(Attempts(s)) + 1 = 2 - s.remaining
    BY <1>1 DEF Valid, Attempts
  <2>4. Cardinality(Attempts(s) \cup {r}) = Cardinality(Attempts(s)) + 1
    BY <2>2, FS_AddElement
  <2>5. QED
    BY <1>2, <2>1, <2>3, <2>4
<1>7. \A q \in t.records : q.attempt # None => q.binding = t.gate
  <2>1. \A q \in s.records : q.attempt # None => q.binding = s.gate /\ q.binding \in Bindings
    BY <1>1 DEF Valid, Slots, Records
  <2>2. QED
    BY <1>2, <2>1, CodingSlotAssumption DEF SameGate
<1>8. /\ r.outcome # "CANDIDATE_READY" => Ready(t) = Ready(s)
      /\ r.outcome = "CANDIDATE_READY" => /\ Ready(t) = Ready(s) \cup {r}
                                         /\ t.active = r.candidate
  BY <1>2 DEF Ready, ActiveAfter
<1>9. QED
  BY <1>2, <1>4, <1>5, <1>6, <1>7, <1>8

\* While an attempt is reserved the only candidate id in use is its parent's.
LEMMA ParentOnly ==
  ASSUME NEW s, Sound(s), s.reserved # None, NEW k \in Candidates, k \in Installable(s)
  PROVE  s.reserved.kind = "REMEDIATION" /\ k = s.reserved.parent
<1>1. Called(s) /\ Valid(s) /\ k \in ({s.active} \ {None}) \cup s.historical
  BY DEF Sound
<1>2. s.active = None
  BY <1>1 DEF Called, Valid
<1>3. s.state # "EMPTY"
  BY <1>1, <1>2 DEF Sound
<1>4. QED
  BY <1>1, <1>2, <1>3 DEF Called

\* The validation lets a record pass unless its candidate id is in use.
LEMMA InstallPasses ==
  ASSUME NEW s, Sound(s), NEW r \in Records, r \notin s.records, r.attempt # None,
         s.reserved = r.attempt, SameGate(s, r),
         r.outcome = "CANDIDATE_READY" => r.candidate \in Candidates \ Installable(s)
  PROVE  Valid(Installed(s, r))
<1>1. PICK t : t = Installed(s, r)
  OBVIOUS
<1>2. /\ t \in Slots
      /\ t.records = s.records \cup {r} /\ t.gate = r.binding
      /\ t.state = StateAfter(s, r) /\ t.active = ActiveAfter(s, r)
      /\ t.historical = s.historical
      /\ t.remaining = s.remaining /\ t.reserved = None
      /\ Cardinality({q \in t.records : q.attempt # None}) = 2 - t.remaining
      /\ \A q \in t.records : q.attempt # None => q.binding = t.gate
      /\ r.outcome # "CANDIDATE_READY" => Ready(t) = Ready(s)
      /\ r.outcome = "CANDIDATE_READY" => /\ Ready(t) = Ready(s) \cup {r}
                                         /\ t.active = r.candidate
  BY <1>1, InstallFacts
<1>3. s \in Slots /\ Valid(s)
  BY DEF Sound
<1>4. CASE r.outcome = "CANDIDATE_READY"
  <2>1. \A q \in Ready(s) : q.candidate # r.candidate
    BY <1>4 DEF Installable
  <2>2. \A p, q \in Ready(t) : p.candidate = q.candidate => p = q
    BY <1>2, <1>3, <1>4, <2>1 DEF Valid
  <2>3. t.active = r.candidate /\ t.active # None
    BY <1>2, <1>4, CodingSlotAssumption
  <2>4. s.historical \subseteq Installable(s)
    BY <1>3 DEF Valid, Installable
  <2>5. t.active \notin t.historical
    BY <1>2, <1>4, <2>3, <2>4
  <2>6. ({t.active} \ {None}) \cup t.historical \subseteq {q.candidate : q \in Ready(t)}
    BY <1>2, <1>4, <2>3, <2>4 DEF Installable
  <2>7. t.state \in {"FROZEN_REVIEW_V1", "FROZEN_REVIEW_V2"}
    BY <1>2, <1>4 DEF StateAfter
  <2>8. QED
    BY <1>1, <1>2, <2>2, <2>3, <2>5, <2>6, <2>7 DEF Valid, Slots
<1>5. CASE r.outcome # "CANDIDATE_READY"
  <2>1. t.state = s.state /\ t.active = s.active
    BY <1>2, <1>5 DEF StateAfter, ActiveAfter
  <2>2. QED
    BY <1>1, <1>2, <1>3, <1>5, <2>1 DEF Valid, Slots
<1>6. QED
  BY <1>4, <1>5

\* A record of an attempt that fits, and passes the validation, is installed.
LEMMA InstallKeepsSound ==
  ASSUME NEW s, Sound(s), NEW r \in Records, r \notin s.records, r.attempt # None,
         s.reserved = r.attempt, SameGate(s, r),
         r.outcome = "CANDIDATE_READY" => r.candidate \in Candidates
  PROVE  Valid(Installed(s, r)) => Sound(Installed(s, r))
<1>1. PICK t : t = Installed(s, r)
  OBVIOUS
<1>finite. IsFiniteSet(t.records)
  BY <1>1, InstallFacts
<1>2. /\ t \in Slots
      /\ t.records = s.records \cup {r} /\ t.gate = r.binding
      /\ t.state = StateAfter(s, r) /\ t.active = ActiveAfter(s, r)
      /\ t.historical = s.historical
      /\ t.remaining = s.remaining /\ t.reserved = None
      /\ Cardinality({q \in t.records : q.attempt # None}) = 2 - t.remaining
      /\ \A q \in t.records : q.attempt # None => q.binding = t.gate
      /\ r.outcome # "CANDIDATE_READY" => Ready(t) = Ready(s)
      /\ r.outcome = "CANDIDATE_READY" => /\ Ready(t) = Ready(s) \cup {r}
                                         /\ t.active = r.candidate
  BY <1>1, InstallFacts
<1> HAVE Valid(Installed(s, r))
<1>3. Called(s) /\ Valid(s) /\ Called(t)
  BY <1>2 DEF Sound, Called
<1>4. CASE r.outcome = "CANDIDATE_READY"
  <2>1. t.state = IF r.attempt.kind = "REMEDIATION" THEN "FROZEN_REVIEW_V2"
                                                    ELSE "FROZEN_REVIEW_V1"
    BY <1>2, <1>4 DEF StateAfter
  <2>2. r.attempt.kind # "REMEDIATION" => s.state = "EMPTY"
    BY <1>3 DEF Called
  <2>3. t.state = "FROZEN_REVIEW_V1" => t.historical = {}
    BY <1>2, <2>1, <2>2 DEF Sound
  <2>4. s.active = None
    BY <1>3 DEF Called, Valid
  <2>5. Installable(t) = Installable(s) \cup {t.active}
    BY <1>2, <1>4 DEF Installable
  <2>6. Installable(s) \subseteq s.historical
    BY <2>4 DEF Sound
  <2>7. t.active # None
    BY <1>2, <1>4, CodingSlotAssumption
  <2>8. Installable(t) \subseteq ({t.active} \ {None}) \cup t.historical
    BY <1>2, <2>5, <2>6, <2>7
  <2>9. QED
    BY <1>1, <1>finite, <1>2, <1>3, <2>1, <2>3, <2>8 DEF Sound
<1>5. CASE r.outcome # "CANDIDATE_READY"
  <2>1. t.state = s.state /\ t.active = s.active /\ Installable(t) = Installable(s)
    BY <1>2, <1>5 DEF StateAfter, ActiveAfter, Installable
  <2>2. QED
    BY <1>1, <1>finite, <1>2, <1>3, <2>1 DEF Sound
<1>6. QED
  BY <1>4, <1>5

\* A prelaunch HOLD record is added.
LEMMA HoldKeepsSound ==
  ASSUME NEW s, Sound(s), NEW r \in Records, r.attempt = None,
         r.outcome = "PRELAUNCH_HOLD"
  PROVE  Sound(WithHold(s, r))
<1> DEFINE t == WithHold(s, r)
<1>1. s \in Slots /\ Valid(s) /\ IsFiniteSet(s.records) /\ Called(s)
  BY DEF Sound
<1>2. /\ t \in Slots
      /\ t.records = s.records \cup {r} /\ t.gate = s.gate
      /\ t.state = s.state /\ t.active = s.active /\ t.historical = s.historical
      /\ t.remaining = s.remaining /\ t.reserved = s.reserved
  BY <1>1 DEF Slots, WithHold
<1>3. IsFiniteSet(t.records)
  BY <1>1, <1>2, FS_AddElement
<1>4. {q \in t.records : q.attempt # None} = {q \in s.records : q.attempt # None}
  BY <1>2
<1>5. Ready(t) = Ready(s)
  BY <1>2 DEF Ready
<1>6. Valid(t)
  BY <1>1, <1>2, <1>4, <1>5 DEF Valid
<1>7. QED
  BY <1>1, <1>2, <1>3, <1>5, <1>6 DEF Sound, Called, Installable

\* The candidate under review is retired.
LEMMA RetireKeepsSound ==
  ASSUME NEW s, Sound(s), NEW k, Retirable(s, k)
  PROVE  Sound([s EXCEPT !.state = "EMPTY_FOR_REMEDIATION", !.active = None,
                         !.historical = {k}])
<1> DEFINE t == [s EXCEPT !.state = "EMPTY_FOR_REMEDIATION", !.active = None,
                          !.historical = {k}]
<1>1. s \in Slots /\ Valid(s) /\ IsFiniteSet(s.records)
  BY DEF Sound
<1>2. k \in Candidates /\ k # None
  BY <1>1, CodingSlotAssumption DEF Valid, Retirable, Slots
<1>3. /\ t \in Slots
      /\ t.records = s.records /\ t.gate = s.gate
      /\ t.state = "EMPTY_FOR_REMEDIATION" /\ t.active = None /\ t.historical = {k}
      /\ t.remaining = s.remaining /\ t.reserved = None /\ s.reserved = None
  BY <1>1, <1>2 DEF Slots, Retirable, SlotStates
<1>4. Ready(t) = Ready(s)
  BY <1>3 DEF Ready
<1>5. ({t.active} \ {None}) \cup t.historical \subseteq {q.candidate : q \in Ready(t)}
  BY <1>1, <1>2, <1>3, <1>4 DEF Valid, Retirable
<1>6. Valid(t)
  BY <1>1, <1>2, <1>3, <1>4, <1>5 DEF Valid
<1>7. Installable(s) \subseteq {k}
  BY DEF Sound, Retirable
<1>8. QED
  BY <1>1, <1>2, <1>3, <1>4, <1>6, <1>7 DEF Sound, Called, Installable

-----------------------------------------------------------------------------
(* The controllers.                                                        *)

Outcomes == {"none", "reserved", "recorded", "replayed", "retired", "refused",
             "corrupt", "crashed", "unrecordable"}

Typed ==
    /\ TypeOK
    /\ view \in [Controllers -> Slots]
    /\ seen \in [Controllers -> Slots \cup {None}]
    /\ binding \in [Controllers -> Bindings]
    /\ outcome \in [Controllers -> Outcomes]

\* The record a controller has built.
Built(c) ==
    /\ job[c] \in Records
    /\ job[c].attempt = None <=> job[c].outcome = "PRELAUNCH_HOLD"
    /\ job[c].outcome = "CANDIDATE_READY" => job[c].candidate \in Candidates
    /\ pc[c] = "published" => Recorded(c)
    /\ Running(c) =>
          /\ slot.reserved = job[c].attempt
          /\ job[c].before = Face(slot)

CallOK(c) ==
    /\ seen[c] # None => lock = c /\ seen[c] = slot
    /\ Sound(view[c])
    /\ pc[c] = "reserve" => P1Ordinary(view[c]) \/ P1Remediation(view[c])
    /\ pc[c] = "running" => /\ job[c] \in Reservations
                            /\ slot.reserved = job[c]
                            /\ Face(view[c]) = Face(slot)
    /\ pc[c] \in {"publish", "published"} => Built(c)
    /\ pc[c] # "idle" => outcome[c] \notin {"refused", "corrupt"}

IInv ==
    /\ Typed
    /\ Sound(slot)
    /\ \A c \in Controllers : CallOK(c)
    /\ OneAttemptAtATime
    /\ OnlyReuseCorrupts

\* What a step of c leaves alone.
OthersAlone(c) ==
    \A d \in Controllers \ {c} :
        /\ pc'[d] = pc[d] /\ seen'[d] = seen[d] /\ view'[d] = view[d]
        /\ job'[d] = job[d] /\ outcome'[d] = outcome[d]

\* Every step is one controller's: what it has to show for itself.
LEMMA StepKeepsInvariant ==
  ASSUME IInv, NEW c \in Controllers,
         Typed', Sound(slot)', CallOK(c)',
         outcome'[c] = "corrupt" => job'[c] \in Records /\ ReusesId(job'[c]),
         OthersAlone(c),
         lock' = lock \/ lock \in {c, None},
         \/ slot' = slot
         \/ /\ slot.records \subseteq slot'.records
            /\ seen[c] # None
            /\ \A d \in Controllers \ {c} : ~ Running(d),
         Running(c)' => Running(c) \/ \A d \in Controllers : ~ Running(d)
  PROVE  IInv'
<1>1. ASSUME NEW d \in Controllers \ {c}
      PROVE  CallOK(d)' /\ (Running(d)' => Running(d))
  <2>1. CallOK(d) /\ CallOK(c) /\ d # c /\ d # None
    BY CodingSlotAssumption DEF IInv
  <2>2. pc'[d] = pc[d] /\ seen'[d] = seen[d] /\ view'[d] = view[d] /\ job'[d] = job[d]
        /\ outcome'[d] = outcome[d]
    BY DEF OthersAlone
  <2>3. seen[d] # None => lock' = lock /\ slot' = slot
    BY <2>1 DEF CallOK
  <2>4. Sound(view'[d])
    BY <2>1, <2>2 DEF CallOK
  <2>5. CASE slot' = slot
    <3>1. Running(d)' <=> Running(d)
      BY <2>2, <2>5 DEF Running, Recorded
    <3>2. Built(d) => Built(d)'
      BY <2>2, <2>5, <3>1 DEF Built, Recorded, Face
    <3>3. CallOK(d)'
      BY <2>1, <2>2, <2>3, <2>4, <2>5, <3>2 DEF CallOK, P1Ordinary, P1Remediation, Face
    <3>4. QED
      BY <3>1, <3>3
  <2>6. CASE slot' # slot
    <3>1. slot.records \subseteq slot'.records /\ seen[d] = None /\ ~ Running(d)
      BY <2>1, <2>3, <2>6
    <3>2. ~ Running(d)' /\ pc[d] # "running"
      BY <2>2, <3>1 DEF Running, Recorded
    <3>3. Built(d) => Built(d)'
      BY <2>2, <3>1, <3>2 DEF Built, Recorded
    <3>4. CallOK(d)'
      BY <2>1, <2>2, <2>4, <3>1, <3>2, <3>3 DEF CallOK, P1Ordinary, P1Remediation
    <3>5. QED
      BY <3>2, <3>4
  <2>7. QED
    BY <2>5, <2>6
<1>2. \A d \in Controllers : CallOK(d)'
  BY <1>1
<1>3. OneAttemptAtATime'
  BY <1>1 DEF OneAttemptAtATime, IInv
<1>4. OnlyReuseCorrupts'
  BY DEF OnlyReuseCorrupts, OthersAlone, IInv
<1>5. QED
  BY <1>2, <1>3, <1>4 DEF IInv

\* The beginning.
LEMMA InitInvariant == Init => IInv
<1> SUFFICES ASSUME Init PROVE IInv
  OBVIOUS
<1>1. Sound(EmptySlot)
  BY EmptySlotSound
<1>2. EmptySlot \in Slots /\ slot = EmptySlot
  BY <1>1 DEF Sound, Init
<1>3. Typed
  BY <1>2 DEF Init, Typed, TypeOK, SlotTypeOK, Slots, Face, Faces, Outcomes
<1>4. \A c \in Controllers : CallOK(c)
  BY <1>1 DEF Init, CallOK
<1>5. QED
  BY <1>1, <1>2, <1>3, <1>4 DEF IInv, Init, OneAttemptAtATime, OnlyReuseCorrupts, Running

-----------------------------------------------------------------------------
(* The steps that do not write the slot.                                   *)

\* What is read of the invariant.
LEMMA Facts ==
  ASSUME IInv, NEW c \in Controllers
  PROVE  /\ CallOK(c) /\ Sound(slot) /\ slot \in Slots /\ Valid(slot)
         /\ Typed /\ c # None
         /\ pc[c] # "idle" => outcome[c] # "corrupt"
         /\ binding[c] \in Bindings /\ view[c] \in Slots
<1>1. CallOK(c) /\ Sound(slot) /\ Typed /\ c # None
  BY CodingSlotAssumption DEF IInv
<1>2. pc[c] # "idle" => outcome[c] # "corrupt"
  BY <1>1 DEF CallOK
<1>3. QED
  BY <1>1, <1>2 DEF Sound, Typed

\* read_coding_execution_slot.
LEMMA ReadSlotStep ==
  ASSUME IInv, NEW c \in Controllers, ReadSlot(c)
  PROVE  IInv'
<1>1. CallOK(c) /\ Sound(slot) /\ slot \in Slots /\ Typed
  BY Facts
<1>2. /\ view' = [view EXCEPT ![c] = slot] /\ pc' = [pc EXCEPT ![c] = "preflight"]
      /\ outcome' = [outcome EXCEPT ![c] = "none"]
      /\ slot' = slot /\ lock' = lock /\ seen' = seen /\ job' = job
      /\ binding' \in [Controllers -> Bindings]
  BY DEF ReadSlot, Goto, Report, lockVars
<1>3. Typed'
  BY <1>1, <1>2 DEF Typed, TypeOK, SlotTypeOK, Outcomes, Face
<1>4. /\ view'[c] = slot /\ pc'[c] = "preflight" /\ outcome'[c] = "none"
      /\ OthersAlone(c)
  BY <1>1, <1>2 DEF OthersAlone, Typed, TypeOK
<1>5. CallOK(c)'
  BY <1>1, <1>2, <1>4 DEF CallOK
<1>6. ~ Running(c)'
  BY <1>4 DEF Running
<1>7. QED
  BY <1>1, <1>2, <1>3, <1>4, <1>5, <1>6, StepKeepsInvariant

\* The decision to reserve, or to ask for a retirement.
LEMMA DecideStep ==
  ASSUME IInv, NEW c \in Controllers, PreflightPasses(c) \/ AskRetire(c)
  PROVE  IInv'
<1>1. CallOK(c) /\ Sound(slot) /\ Typed /\ (pc[c] # "idle" => outcome[c] # "corrupt")
  BY Facts
<1>2. PICK l \in {"reserve", "retire"} :
         /\ pc' = [pc EXCEPT ![c] = l] /\ pc[c] = "preflight"
         /\ l = "reserve" => P1Ordinary(view[c]) \/ P1Remediation(view[c])
         /\ slot' = slot /\ lock' = lock /\ seen' = seen /\ job' = job /\ view' = view
         /\ binding' = binding /\ outcome' = outcome
  BY DEF PreflightPasses, AskRetire, Goto, lockVars, callVars
<1>3. Typed'
  BY <1>1, <1>2 DEF Typed, TypeOK, SlotTypeOK, Outcomes, Face
<1>4. pc'[c] = l /\ OthersAlone(c)
  BY <1>1, <1>2 DEF OthersAlone, Typed, TypeOK
<1>5. CallOK(c)'
  BY <1>1, <1>2, <1>4 DEF CallOK, P1Ordinary, P1Remediation
<1>6. ~ Running(c)'
  BY <1>2, <1>4 DEF Running
<1>7. QED
  BY <1>1, <1>2, <1>3, <1>4, <1>5, <1>6, StepKeepsInvariant

\* build_prelaunch_hold_record.
LEMMA PreflightHoldsStep ==
  ASSUME IInv, NEW c \in Controllers, PreflightHolds(c)
  PROVE  IInv'
<1> DEFINE r == [id |-> FreshId(c), attempt |-> None,
                 remaining |-> view[c].remaining, before |-> Face(view[c]),
                 outcome |-> "PRELAUNCH_HOLD", candidate |-> None,
                 binding |-> binding[c]]
<1>1. /\ CallOK(c) /\ Sound(slot) /\ Typed /\ (pc[c] # "idle" => outcome[c] # "corrupt")
      /\ binding[c] \in Bindings /\ view[c] \in Slots
  BY Facts
<1>2. /\ job' = [job EXCEPT ![c] = r] /\ pc' = [pc EXCEPT ![c] = "publish"]
      /\ pc[c] = "preflight"
      /\ slot' = slot /\ lock' = lock /\ seen' = seen /\ view' = view
      /\ binding' = binding /\ outcome' = outcome
  BY DEF PreflightHolds, Goto, lockVars
<1>3. FreshId(c) \in Controllers \X Nat
  <2>1. IsFiniteSet({q \in slot.records : q.id[1] = c})
    BY <1>1, FS_Subset DEF Sound
  <2>2. QED
    BY <2>1, FS_CardinalityType DEF FreshId
<1>4. r \in Records /\ r.attempt = None /\ r.outcome = "PRELAUNCH_HOLD"
  BY <1>1, <1>3 DEF Records, Slots, Faces, Face
<1> HIDE DEF r
<1>5. Typed'
  BY <1>1, <1>2, <1>4 DEF Typed, TypeOK, SlotTypeOK, Outcomes, Face
<1>6. pc'[c] = "publish" /\ job'[c] = r /\ OthersAlone(c)
  BY <1>1, <1>2 DEF OthersAlone, Typed, TypeOK
<1>7. ~ Running(c)'
  BY <1>4, <1>6 DEF Running
<1>8. Built(c)'
  BY <1>4, <1>6, <1>7 DEF Built
<1>9. CallOK(c)'
  BY <1>1, <1>2, <1>6, <1>8 DEF CallOK, P1Ordinary, P1Remediation
<1>10. QED
  BY <1>1, <1>2, <1>5, <1>6, <1>7, <1>9, StepKeepsInvariant

\* The lock is taken and the file is read.
LEMMA LockStep ==
  ASSUME IInv, NEW c \in Controllers, Lock(c)
  PROVE  IInv'
<1>1. /\ CallOK(c) /\ Sound(slot) /\ slot \in Slots /\ Typed /\ outcome[c] # "corrupt"
      /\ c # None
  BY Facts DEF Lock, LockedCalls
<1>2. /\ lock = None /\ lock' = c /\ seen' = [seen EXCEPT ![c] = slot]
      /\ slot' = slot /\ pc' = pc /\ view' = view /\ job' = job /\ binding' = binding
      /\ outcome' = outcome
  BY DEF Lock, LockFree, callVars
<1>3. Typed'
  <2>1. \A d \in Controllers : seen'[d] # None => lock' = d
    BY <1>1, <1>2, CodingSlotAssumption DEF Typed, TypeOK
  <2>2. QED
    BY <1>1, <1>2, <2>1 DEF Typed, TypeOK, SlotTypeOK, Outcomes, Face
<1>4. seen'[c] = slot /\ OthersAlone(c)
  BY <1>1, <1>2 DEF OthersAlone, Typed, TypeOK
<1>5. Running(c)' <=> Running(c)
  BY <1>2 DEF Running, Recorded
<1>6. Built(c) => Built(c)'
  BY <1>2, <1>5 DEF Built, Recorded, Face
<1>7. CallOK(c)'
  BY <1>1, <1>2, <1>4, <1>6 DEF CallOK, P1Ordinary, P1Remediation, Face
<1>8. QED
  BY <1>1, <1>2, <1>3, <1>4, <1>5, <1>7, StepKeepsInvariant

\* build_completed_attempt_record: the record fits the slot as it is reserved.
LEMMA FinishStep ==
  ASSUME IInv, NEW c \in Controllers, NEW ok \in BOOLEAN, FinishWith(c, ok)
  PROVE  IInv'
<1>1. /\ CallOK(c) /\ Sound(slot) /\ Typed /\ slot \in Slots
      /\ binding[c] \in Bindings /\ view[c] \in Slots /\ c # None
  BY Facts
<1>2. PICK k \in Candidates,
           result \in AttemptOutcomes :
         job' = [job EXCEPT ![c] =
                        [id |-> FreshId(c), attempt |-> job[c],
                         remaining |-> 2 - job[c].number, before |-> Face(view[c]),
                         outcome |-> result,
                         candidate |-> IF result = "CANDIDATE_READY" THEN k ELSE None,
                         binding |-> binding[c]]]
  <2>1. job \in [Controllers -> Records \cup Reservations \cup {None}]
    BY <1>1 DEF Typed, TypeOK
  <2>2. \A p, q \in BOOLEAN, claim \in {"DONE", "BLOCKED", "FAILED"} :
           DerivedOutcome(p, claim, q) \in AttemptOutcomes
    BY DEF DerivedOutcome, AttemptOutcomes
  <2>3. QED
    BY <2>1, <2>2 DEF FinishWith
<1> DEFINE r == [id |-> FreshId(c), attempt |-> job[c],
                 remaining |-> 2 - job[c].number, before |-> Face(view[c]),
                 outcome |-> result,
                 candidate |-> IF result = "CANDIDATE_READY" THEN k ELSE None,
                 binding |-> binding[c]]
<1>3. /\ job' = [job EXCEPT ![c] = r] /\ pc' = [pc EXCEPT ![c] = "publish"]
      /\ pc[c] = "running"
      /\ slot' = slot /\ lock' = lock /\ seen' = seen /\ view' = view
      /\ binding' = binding /\ outcome' = outcome
  BY <1>2 DEF FinishWith, Goto, lockVars
<1>4. /\ job[c] \in Reservations /\ job[c] # None /\ slot.reserved = job[c]
      /\ Face(view[c]) = Face(slot) /\ Running(c)
  BY <1>1, <1>3, ReservationAssumption DEF CallOK, Running
<1>5. FreshId(c) \in Controllers \X Nat
  <2>1. IsFiniteSet({q \in slot.records : q.id[1] = c})
    BY <1>1, FS_Subset DEF Sound
  <2>2. QED
    BY <2>1, FS_CardinalityType DEF FreshId
<1>6. r \in Records
  BY <1>1, <1>4, <1>5 DEF Records, Slots, Faces, Face, Reservations
<1>7. /\ r.attempt = job[c] /\ r.before = Face(slot) /\ r.outcome # "PRELAUNCH_HOLD"
      /\ r.outcome = "CANDIDATE_READY" => r.candidate \in Candidates
  BY <1>4, CodingSlotAssumption DEF AttemptOutcomes
<1> HIDE DEF r
<1>8. Typed'
  BY <1>1, <1>3, <1>6 DEF Typed, TypeOK, SlotTypeOK, Outcomes, Face
<1>9. pc'[c] = "publish" /\ job'[c] = r /\ OthersAlone(c)
  BY <1>1, <1>3 DEF OthersAlone, Typed, TypeOK
<1>10. Built(c)'
  BY <1>3, <1>4, <1>6, <1>7, <1>9 DEF Built, Face
<1>11. CallOK(c)'
  BY <1>1, <1>3, <1>9, <1>10 DEF CallOK, P1Ordinary, P1Remediation
<1>12. outcome'[c] # "corrupt"
  BY <1>9, <1>11 DEF CallOK
<1>13. QED
  BY <1>3, <1>4, <1>8, <1>1, <1>9, <1>11, <1>12, StepKeepsInvariant

\* The attempt has no record.
LEMMA UnrecordableStep ==
  ASSUME IInv, NEW c \in Controllers, Unrecordable(c)
  PROVE  IInv'
<1>1. CallOK(c) /\ Sound(slot) /\ Typed
  BY Facts
<1>2. /\ job' = [job EXCEPT ![c] = None] /\ pc' = [pc EXCEPT ![c] = "idle"]
      /\ outcome' = [outcome EXCEPT ![c] = "unrecordable"]
      /\ slot' = slot /\ lock' = lock /\ seen' = seen /\ view' = view
      /\ binding' = binding
  BY DEF Unrecordable, Goto, Report, lockVars
<1>3. Typed'
  BY <1>1, <1>2 DEF Typed, TypeOK, SlotTypeOK, Outcomes, Face
<1>4. pc'[c] = "idle" /\ outcome'[c] = "unrecordable" /\ OthersAlone(c)
  BY <1>1, <1>2 DEF OthersAlone, Typed, TypeOK
<1>5. ~ Running(c)' /\ CallOK(c)'
  BY <1>1, <1>2, <1>4 DEF CallOK, Running
<1>6. QED
  BY <1>1, <1>2, <1>3, <1>4, <1>5, StepKeepsInvariant

\* The answer is lost, or not.
LEMMA SettleStep ==
  ASSUME IInv, NEW c \in Controllers, Settle(c)
  PROVE  IInv'
<1>1. CallOK(c) /\ Sound(slot) /\ Typed /\ (pc[c] # "idle" => outcome[c] # "corrupt")
  BY Facts
<1>2. /\ pc[c] = "published"
      /\ slot' = slot /\ lock' = lock /\ seen' = seen /\ view' = view
      /\ binding' = binding /\ outcome' = outcome
  BY DEF Settle, lockVars
<1>3. Built(c) /\ Recorded(c)
  BY <1>1, <1>2 DEF CallOK, Built
<1>4. CASE job' = job /\ pc' = [pc EXCEPT ![c] = "publish"]
  <2>1. Typed'
    BY <1>1, <1>2, <1>4 DEF Typed, TypeOK, SlotTypeOK, Outcomes, Face
  <2>2. pc'[c] = "publish" /\ OthersAlone(c)
    BY <1>1, <1>2, <1>4 DEF OthersAlone, Typed, TypeOK
  <2>3. ~ Running(c)'
    BY <1>2, <1>3, <1>4, <2>2 DEF Running, Recorded
  <2>4. CallOK(c)'
    BY <1>1, <1>2, <1>3, <1>4, <2>2, <2>3 DEF CallOK, Built, Recorded
  <2>5. QED
    BY <1>1, <1>2, <2>1, <2>2, <2>3, <2>4, StepKeepsInvariant
<1>5. CASE job' = [job EXCEPT ![c] = None] /\ pc' = [pc EXCEPT ![c] = "idle"]
  <2>1. Typed'
    BY <1>1, <1>2, <1>5 DEF Typed, TypeOK, SlotTypeOK, Outcomes, Face
  <2>2. pc'[c] = "idle" /\ OthersAlone(c)
    BY <1>1, <1>2, <1>5 DEF OthersAlone, Typed, TypeOK
  <2>3. ~ Running(c)' /\ CallOK(c)'
    BY <1>1, <1>2, <2>2 DEF CallOK, Running
  <2>4. QED
    BY <1>1, <1>2, <2>1, <2>2, <2>3, StepKeepsInvariant
<1>6. QED
  BY <1>4, <1>5 DEF Settle, Goto

\* A controller vanishes.
LEMMA CrashStep ==
  ASSUME IInv, NEW c \in Controllers, Crash(c)
  PROVE  IInv'
<1>1. CallOK(c) /\ Sound(slot) /\ Typed /\ c # None
  BY Facts
<1>2. /\ job' = [job EXCEPT ![c] = None] /\ pc' = [pc EXCEPT ![c] = "idle"]
      /\ outcome' = [outcome EXCEPT ![c] = "crashed"]
      /\ seen' = [seen EXCEPT ![c] = None]
      /\ lock' = IF lock = c THEN Orphaned ELSE lock
      /\ slot' = slot /\ view' = view /\ binding' = binding
  BY DEF Crash, Goto, Report
<1>3. Typed'
  <2>1. \A d \in Controllers : seen'[d] # None => lock' = d
    BY <1>1, <1>2 DEF Typed, TypeOK
  <2>2. QED
    BY <1>1, <1>2, <2>1 DEF Typed, TypeOK, SlotTypeOK, Outcomes, Face
<1>4. pc'[c] = "idle" /\ outcome'[c] = "crashed" /\ seen'[c] = None /\ OthersAlone(c)
  BY <1>1, <1>2 DEF OthersAlone, Typed, TypeOK
<1>5. ~ Running(c)' /\ CallOK(c)'
  BY <1>1, <1>2, <1>4 DEF CallOK, Running
<1>6. QED
  BY <1>1, <1>2, <1>3, <1>4, <1>5, StepKeepsInvariant

-----------------------------------------------------------------------------
(* The calls that write the slot.                                          *)

\* A call ends: what it does to the lock, and what it knows of the slot.
LEMMA UnlockFacts ==
  ASSUME IInv, NEW c \in Controllers, Unlock(c)
  PROVE  /\ seen[c] = slot /\ lock = c /\ seen[c] # None
         /\ lock' = None /\ seen' = [seen EXCEPT ![c] = None]
  BY Facts DEF Unlock, CallOK

\* A call that is refused.
LEMMA RefuseStep ==
  ASSUME IInv, NEW c \in Controllers, Unlock(c), Refuse(c)
  PROVE  IInv'
<1>1. CallOK(c) /\ Sound(slot) /\ Typed /\ c # None
  BY Facts
<1>2. /\ seen[c] # None /\ lock = c /\ lock' = None /\ seen' = [seen EXCEPT ![c] = None]
      /\ job' = [job EXCEPT ![c] = None] /\ pc' = [pc EXCEPT ![c] = "idle"]
      /\ outcome' = [outcome EXCEPT ![c] = "refused"]
      /\ slot' = slot /\ view' = view /\ binding' = binding
  BY UnlockFacts DEF Refuse, Goto, Report
<1>3. Typed'
  <2>1. \A d \in Controllers : seen'[d] # None => lock' = d
    BY <1>1, <1>2 DEF Typed, TypeOK
  <2>2. QED
    BY <1>1, <1>2, <2>1 DEF Typed, TypeOK, SlotTypeOK, Outcomes, Face
<1>4. pc'[c] = "idle" /\ outcome'[c] = "refused" /\ seen'[c] = None /\ OthersAlone(c)
  BY <1>1, <1>2 DEF OthersAlone, Typed, TypeOK
<1>5. ~ Running(c)' /\ CallOK(c)'
  BY <1>1, <1>2, <1>4 DEF CallOK, Running
<1>6. QED
  BY <1>1, <1>2, <1>3, <1>4, <1>5, StepKeepsInvariant

\* A write of a slot that is sound, with what the controller does next.
LEMMA WriteFacts ==
  ASSUME IInv, NEW c \in Controllers, Unlock(c), NEW s, Sound(s), NEW l, NEW how,
         l \in {"running", "published", "idle"},
         how \in {"reserved", "recorded", "retired"},
         Write(c, s, l, how),
         job' \in [Controllers -> Records \cup Reservations \cup {None}],
         \A d \in Controllers \ {c} : job'[d] = job[d],
         view' = view, binding' = binding
  PROVE  /\ slot' = s /\ pc'[c] = l /\ outcome'[c] = how /\ seen'[c] = None
         /\ lock = c /\ seen[c] # None
         /\ Typed' /\ Sound(slot)' /\ OthersAlone(c)
<1>1. CallOK(c) /\ Typed /\ c # None
  BY Facts
<1>2. /\ slot' = s /\ pc' = [pc EXCEPT ![c] = l] /\ outcome' = [outcome EXCEPT ![c] = how]
      /\ seen[c] # None /\ lock = c /\ lock' = None /\ seen' = [seen EXCEPT ![c] = None]
  BY UnlockFacts DEF Write, Sound, Goto, Report
<1>3. s \in Slots
  BY DEF Sound
<1>4. SlotTypeOK'
  BY <1>2, <1>3 DEF SlotTypeOK, Slots, Face, Faces
<1>5. Typed'
  <2>1. \A d \in Controllers : seen'[d] # None => lock' = d
    BY <1>1, <1>2 DEF Typed, TypeOK
  <2>2. QED
    BY <1>1, <1>2, <1>4, <2>1 DEF Typed, TypeOK, Outcomes
<1>6. /\ pc'[c] = l /\ outcome'[c] = how /\ seen'[c] = None /\ OthersAlone(c)
  BY <1>1, <1>2 DEF OthersAlone, Typed, TypeOK
<1>7. QED
  BY <1>2, <1>5, <1>6

\* reserve_coding_execution_attempt: nobody runs, and the snapshot is of the slot
\* that is reserved.
LEMMA ReserveStep ==
  ASSUME IInv, NEW c \in Controllers, Reserve(c)
  PROVE  IInv'
<1> DEFINE a == [number |-> 3 - slot.remaining, kind |-> KindFor(view[c]),
                 parent |-> ParentFor(view[c])]
           s == [slot EXCEPT !.remaining = @ - 1, !.reserved = a]
<1>1. /\ CallOK(c) /\ Sound(slot) /\ Typed /\ slot \in Slots /\ c # None
      /\ Unlock(c) /\ pc[c] = "reserve"
  BY Facts DEF Reserve
<1>2. seen[c] = slot
  BY <1>1, UnlockFacts
<1>3. CASE MayReserve(c)
  <2>1. slot.reserved = None /\ slot.remaining > 0
    BY <1>2, <1>3 DEF MayReserve
  <2>2. \A d \in Controllers : ~ Running(d)
    <3>1. \A d \in Controllers : CallOK(d)
      BY Facts
    <3>2. QED
      BY <2>1, <3>1, ReservationAssumption DEF CallOK, Running, Built
  <2>3. /\ Sound(view[c])
        /\ P1Ordinary(view[c]) \/ P1Remediation(view[c])
    BY <1>1 DEF CallOK
  <2>4. /\ Face(view[c]) = Face(slot)
        /\ \/ a.kind = "ORDINARY" /\ a.parent = None /\ slot.state = "EMPTY"
           \/ /\ a.kind = "REMEDIATION" /\ slot.state = "EMPTY_FOR_REMEDIATION"
              /\ a.parent \in slot.historical
        /\ a.parent \in Candidates \cup {None}
    <3>1. CASE KindFor(view[c]) = "ORDINARY"
      <4>1. P1Ordinary(view[c]) /\ ParentFor(view[c]) = None
        BY <3>1, KindsAndParents
      <4>2. slot.state = "EMPTY"
        BY <1>2, <1>3, <3>1 DEF MayReserve
      <4>3. view[c].state = "EMPTY" /\ view[c].active = None /\ view[c].historical = {}
        BY <2>3, <4>1 DEF P1Ordinary, Sound
      <4>4. slot.active = None /\ slot.historical = {}
        BY <1>1, <4>2 DEF Sound, Valid
      <4>5. QED
        BY <3>1, <4>1, <4>2, <4>3, <4>4 DEF Face
    <3>2. CASE KindFor(view[c]) # "ORDINARY"
      <4>1. KindFor(view[c]) = "REMEDIATION" /\ P1Remediation(view[c]) /\ ~ P1Ordinary(view[c])
        BY <2>3, <3>2, KindsAndParents DEF Kinds
      <4>2. slot.state = "EMPTY_FOR_REMEDIATION" /\ ParentFor(view[c]) \in slot.historical
        BY <1>2, <1>3, <3>2 DEF MayReserve
      <4>3. view[c].state = "EMPTY_FOR_REMEDIATION" /\ view[c].active = None
        BY <4>1 DEF P1Remediation
      <4>4. PICK k \in Candidates : view[c].historical = {k}
        BY <2>3, <4>3 DEF Sound
      <4>5. ParentFor(view[c]) = k
        BY <4>1, <4>4 DEF ParentFor
      <4>6. slot.active = None /\ slot.historical = {k}
        BY <1>1, <4>2, <4>5 DEF Sound, Valid
      <4>7. QED
        BY <4>1, <4>2, <4>3, <4>4, <4>5, <4>6 DEF Face
    <3>3. QED
      BY <3>1, <3>2
  <2>5. a \in Reservations
    <3>1. slot.remaining \in 0..2
      BY <1>1 DEF Slots
    <3>2. 3 - slot.remaining \in 1..2
      BY <2>1, <3>1
    <3>3. QED
      BY <2>4, <3>2, KindsAndParents DEF Reservations
  <2>6. Sound(s)
    BY <1>1, <2>1, <2>4, <2>5, ReserveKeepsSound
  <2>7. /\ s.reserved = a /\ Face(s) = Face(slot) /\ s.records = slot.records
    BY <1>1 DEF Slots, Face
  <2>8. /\ Write(c, s, "running", "reserved")
        /\ job' = [job EXCEPT ![c] = a] /\ view' = view /\ binding' = binding
    BY <1>2, <1>3 DEF Reserve
  <2> HIDE DEF s, a
  <2>9. /\ job' \in [Controllers -> Records \cup Reservations \cup {None}]
        /\ job'[c] = a /\ \A d \in Controllers \ {c} : job'[d] = job[d]
    BY <1>1, <2>5, <2>8 DEF Typed, TypeOK
  <2>10. /\ slot' = s /\ pc'[c] = "running" /\ outcome'[c] = "reserved" /\ seen'[c] = None
         /\ lock = c /\ seen[c] # None
         /\ Typed' /\ Sound(slot)' /\ OthersAlone(c)
    BY <1>1, <2>6, <2>8, <2>9, WriteFacts
  <2>11. CallOK(c)'
    BY <2>3, <2>4, <2>5, <2>7, <2>8, <2>9, <2>10 DEF CallOK, Face
  <2>12. QED
    BY <2>2, <2>7, <2>10, <2>11, StepKeepsInvariant
<1>4. CASE ~ MayReserve(c)
  BY <1>1, <1>4, RefuseStep DEF Reserve
<1>5. QED
  BY <1>3, <1>4

\* publish_coding_execution_record.
LEMMA PublishStep ==
  ASSUME IInv, NEW c \in Controllers, Publish(c)
  PROVE  IInv'
<1> DEFINE r == job[c]
<1>1. /\ CallOK(c) /\ Sound(slot) /\ Typed /\ slot \in Slots /\ c # None
      /\ Unlock(c) /\ pc[c] = "publish"
  BY Facts DEF Publish
<1>2. seen[c] = slot /\ seen[c] # None /\ lock = c /\ lock' = None
      /\ seen' = [seen EXCEPT ![c] = None]
  BY <1>1, UnlockFacts
<1>3. Built(c) /\ r \in Records
  BY <1>1 DEF CallOK, Built
<1>4. CASE Published(slot, r)
  <2>1. /\ pc' = [pc EXCEPT ![c] = "published"] /\ outcome' = [outcome EXCEPT ![c] = "replayed"]
        /\ slot' = slot /\ view' = view /\ job' = job /\ binding' = binding
    BY <1>2, <1>4 DEF Publish, Goto, Report, callVars
  <2>2. Typed'
    <3>1. \A d \in Controllers : seen'[d] # None => lock' = d
      BY <1>1, <1>2 DEF Typed, TypeOK
    <3>2. QED
      BY <1>1, <1>2, <2>1, <3>1 DEF Typed, TypeOK, SlotTypeOK, Outcomes, Face
  <2>3. /\ pc'[c] = "published" /\ outcome'[c] = "replayed" /\ seen'[c] = None
        /\ OthersAlone(c)
    BY <1>1, <1>2, <2>1 DEF OthersAlone, Typed, TypeOK
  <2>4. ~ Running(c)' /\ Recorded(c)'
    BY <1>4, <2>1, <2>3 DEF Running, Recorded, Published
  <2>5. Built(c)'
    BY <1>3, <2>1, <2>4 DEF Built
  <2>6. CallOK(c)'
    BY <1>1, <2>1, <2>3, <2>5 DEF CallOK
  <2>7. QED
    BY <1>1, <1>2, <2>1, <2>2, <2>3, <2>4, <2>6, StepKeepsInvariant
<1>5. CASE ~ Published(slot, r) /\ Fits(slot, r)
  <2> DEFINE s == IF r.attempt = None THEN WithHold(slot, r) ELSE Installed(slot, r)
  <2>1. Valid(s) => Sound(s) /\ s.records = slot.records \cup {r}
    <3>1. CASE r.attempt = None
      BY <1>1, <1>3, <3>1, HoldKeepsSound DEF Built, WithHold, Slots
    <3>2. CASE r.attempt # None
      <4>1. SameGate(slot, r) /\ slot.reserved = r.attempt /\ r \notin slot.records
        BY <1>5, <3>2 DEF Fits, Published
      <4>2. r.outcome = "CANDIDATE_READY" => r.candidate \in Candidates
        BY <1>3 DEF Built
      <4>3. Valid(Installed(slot, r)) => Sound(Installed(slot, r))
        BY <1>1, <1>3, <3>2, <4>1, <4>2, InstallKeepsSound
      <4>4. Installed(slot, r).records = slot.records \cup {r}
        BY <1>1 DEF Installed, Slots
      <4>5. QED
        BY <3>2, <4>3, <4>4
    <3>3. QED
      BY <3>1, <3>2
  <2>2. ~ Valid(s) => ReusesId(r)
    <3>1. CASE r.attempt = None
      BY <1>1, <1>3, <3>1, HoldKeepsSound DEF Built, Sound
    <3>2. CASE r.attempt # None
      <4>1. SameGate(slot, r) /\ slot.reserved = r.attempt /\ r \notin slot.records
        BY <1>5, <3>2 DEF Fits, Published
      <4>2. r.outcome = "CANDIDATE_READY" => r.candidate \in Candidates
        BY <1>3 DEF Built
      <4>3. CASE r.outcome = "CANDIDATE_READY" /\ r.candidate \in Installable(slot)
        BY <1>1, <3>2, <4>1, <4>2, <4>3, ParentOnly DEF ReusesId
      <4>4. CASE ~ (r.outcome = "CANDIDATE_READY" /\ r.candidate \in Installable(slot))
        BY <1>1, <1>3, <3>2, <4>1, <4>2, <4>4, InstallPasses
      <4>5. QED
        BY <4>3, <4>4
    <3>3. QED
      BY <3>1, <3>2
  <2>3. \A d \in Controllers \ {c} : ~ Running(d)
    <3>1. CASE r.attempt = None
      <4>1. slot.reserved = None
        BY <1>5, <3>1 DEF Fits
      <4>2. \A d \in Controllers : CallOK(d)
        BY Facts
      <4>3. QED
        BY <4>1, <4>2, ReservationAssumption DEF CallOK, Running, Built
    <3>2. CASE r.attempt # None
      <4>1. Running(c)
        BY <1>1, <1>5, <3>2 DEF Running, Recorded, Published
      <4>2. QED
        BY <4>1 DEF IInv, OneAttemptAtATime
    <3>3. QED
      BY <3>1, <3>2
  <2>4. /\ Write(c, s, "published", "recorded")
        /\ job' = job /\ view' = view /\ binding' = binding
    BY <1>2, <1>5 DEF Publish, callVars
  <2> HIDE DEF s
  <2>5. CASE Valid(s)
    <3>1. job' \in [Controllers -> Records \cup Reservations \cup {None}]
      BY <1>1, <2>4 DEF Typed, TypeOK
    <3>2. /\ slot' = s /\ pc'[c] = "published" /\ outcome'[c] = "recorded"
          /\ seen'[c] = None /\ lock = c
          /\ Typed' /\ Sound(slot)' /\ OthersAlone(c)
      BY <1>1, <2>1, <2>4, <2>5, <3>1, WriteFacts
    <3>3. Recorded(c)' /\ ~ Running(c)'
      BY <2>1, <2>4, <2>5, <3>2 DEF Recorded, Running
    <3>4. Built(c)'
      BY <1>3, <2>4, <3>3 DEF Built
    <3>5. CallOK(c)'
      BY <1>1, <2>4, <3>2, <3>4 DEF CallOK
    <3>6. QED
      BY <1>2, <2>1, <2>3, <2>5, <3>2, <3>3, <3>5, StepKeepsInvariant
  <2>6. CASE ~ Valid(s)
    <3>1. /\ pc' = [pc EXCEPT ![c] = "idle"] /\ outcome' = [outcome EXCEPT ![c] = "corrupt"]
          /\ slot' = slot
      BY <2>4, <2>6 DEF Write, Goto, Report
    <3>2. Typed'
      <4>1. \A d \in Controllers : seen'[d] # None => lock' = d
        BY <1>1, <1>2 DEF Typed, TypeOK
      <4>2. QED
        BY <1>1, <1>2, <2>4, <3>1, <4>1 DEF Typed, TypeOK, SlotTypeOK, Outcomes, Face
    <3>3. /\ pc'[c] = "idle" /\ outcome'[c] = "corrupt" /\ seen'[c] = None
          /\ OthersAlone(c)
      BY <1>1, <1>2, <2>4, <3>1 DEF OthersAlone, Typed, TypeOK
    <3>4. ~ Running(c)' /\ CallOK(c)'
      BY <1>1, <2>4, <3>3 DEF CallOK, Running
    <3>5. job'[c] \in Records /\ ReusesId(job'[c])
      BY <1>3, <2>2, <2>4, <2>6
    <3>6. QED
      BY <1>1, <1>2, <3>1, <3>2, <3>3, <3>4, <3>5, StepKeepsInvariant
  <2>7. QED
    BY <2>5, <2>6
<1>6. CASE ~ Published(slot, r) /\ ~ Fits(slot, r)
  BY <1>1, <1>2, <1>6, RefuseStep DEF Publish
<1>7. QED
  BY <1>4, <1>5, <1>6

\* retire_coding_execution_candidate_for_remediation.
LEMMA RetireStep ==
  ASSUME IInv, NEW c \in Controllers, Retire(c)
  PROVE  IInv'
<1> DEFINE k == view[c].active
           s == [slot EXCEPT !.state = "EMPTY_FOR_REMEDIATION", !.active = None,
                             !.historical = {k}]
<1>1. /\ CallOK(c) /\ Sound(slot) /\ Typed /\ slot \in Slots /\ c # None
      /\ Unlock(c) /\ pc[c] = "retire"
  BY Facts DEF Retire
<1>2. seen[c] = slot /\ seen[c] # None /\ lock = c
  BY <1>1, UnlockFacts
<1>3. CASE Retirable(slot, k)
  <2>1. Sound(s)
    BY <1>1, <1>3, RetireKeepsSound
  <2>2. \A d \in Controllers : ~ Running(d)
    <3>1. \A d \in Controllers : CallOK(d)
      BY Facts
    <3>2. QED
      BY <1>3, <3>1, ReservationAssumption DEF CallOK, Running, Built, Retirable
  <2>3. s.records = slot.records
    BY <1>1 DEF Slots
  <2>4. /\ Write(c, s, "idle", "retired")
        /\ job' = job /\ view' = view /\ binding' = binding
    BY <1>2, <1>3 DEF Retire, callVars
  <2> HIDE DEF s
  <2>5. job' \in [Controllers -> Records \cup Reservations \cup {None}]
    BY <1>1, <2>4 DEF Typed, TypeOK
  <2>6. /\ slot' = s /\ pc'[c] = "idle" /\ outcome'[c] = "retired" /\ seen'[c] = None
        /\ lock = c /\ seen[c] # None
        /\ Typed' /\ Sound(slot)' /\ OthersAlone(c)
    BY <1>1, <2>1, <2>4, <2>5, WriteFacts
  <2>7. ~ Running(c)' /\ CallOK(c)'
    BY <1>1, <2>4, <2>6 DEF CallOK, Running
  <2>8. QED
    BY <2>2, <2>3, <2>6, <2>7, StepKeepsInvariant
<1>4. CASE ~ Retirable(slot, k)
  BY <1>1, <1>2, <1>4, RefuseStep DEF Retire
<1>5. QED
  BY <1>3, <1>4

-----------------------------------------------------------------------------
(* The specification.                                                      *)

\* Every step keeps it.
LEMMA NextInvariant == IInv /\ [Next]_vars => IInv'
<1> SUFFICES ASSUME IInv, [Next]_vars PROVE IInv'
  OBVIOUS
<1>1. CASE UNCHANGED vars
  <2>1. Sound(slot)' <=> Sound(slot)
    BY <1>1 DEF vars
  <2>2. Typed'
    BY <1>1 DEF vars, lockVars, callVars, IInv, Typed, TypeOK, SlotTypeOK, Face
  <2>3. \A c \in Controllers : CallOK(c)'
    BY <1>1 DEF vars, lockVars, callVars, IInv, CallOK, Built, Recorded, Running,
                P1Ordinary, P1Remediation, Face
  <2>4. OneAttemptAtATime' /\ OnlyReuseCorrupts'
    BY <1>1 DEF vars, lockVars, callVars, IInv, OneAttemptAtATime, OnlyReuseCorrupts,
                Recorded, Running
  <2>5. QED
    BY <2>1, <2>2, <2>3, <2>4 DEF IInv
<1>2. CASE Next
  <2>1. PICK c \in Controllers :
           \/ ReadSlot(c) \/ Preflight(c) \/ Lock(c) \/ Locked(c) \/ Finish(c)
           \/ Unrecordable(c) \/ Settle(c) \/ Crash(c)
    BY <1>2 DEF Next
  <2>2. CASE Preflight(c)
    BY <2>2, DecideStep, PreflightHoldsStep DEF Preflight
  <2>3. CASE Locked(c)
    BY <2>3, ReserveStep, PublishStep, RetireStep DEF Locked
  <2>4. CASE Finish(c)
    BY <2>4, FinishStep DEF Finish
  <2>5. QED
    BY <2>1, <2>2, <2>3, <2>4, ReadSlotStep, LockStep, UnrecordableStep, SettleStep, CrashStep
<1>3. QED
  BY <1>1, <1>2

\* The invariant of every reachable state.
LEMMA SpecInvariant == Spec => []IInv
  BY InitInvariant, NextInvariant, PTL DEF Spec

\* The slot, the lock and every controller keep their types, and whoever has read
\* the slot under the lock holds the lock.
THEOREM TypeCorrect == Spec => []TypeOK
<1>1. IInv => TypeOK
  BY DEF IInv, Typed
<1>2. QED
  BY <1>1, SpecInvariant, PTL

\* However many controllers decide from old snapshots, at most one attempt runs.
THEOREM OneAttempt == Spec => []OneAttemptAtATime
<1>1. IInv => OneAttemptAtATime
  BY DEF IInv
<1>2. QED
  BY <1>1, SpecInvariant, PTL

\* A reservation is of the kind, and has the parent, that the slot calls for, and
\* none exists while a candidate is under review.
THEOREM ReviewExclusive == Spec => []ReviewExcludesAttempts
<1>1. IInv => ReviewExcludesAttempts
  BY DEF IInv, Sound, Called, ReviewExcludesAttempts
<1>2. QED
  BY <1>1, SpecInvariant, PTL

\* No accepted sequence of calls leads to a slot that the validation rejects, unless a
\* remediation is published under the candidate id of its own parent.
THEOREM Uncorrupted == Spec => []OnlyReuseCorrupts
<1>1. IInv => OnlyReuseCorrupts
  BY DEF IInv
<1>2. QED
  BY <1>1, SpecInvariant, PTL

\* A write under the lock is one of four.
LEMMA SlotChanges ==
  ASSUME IInv, Next
  PROVE  \/ slot' = slot
         \/ \E c \in Controllers :
               \/ /\ MayReserve(c) /\ seen[c] = slot
                  /\ slot'.active = slot.active
               \/ /\ seen[c] = slot
                  /\ slot' = WithHold(slot, job[c])
               \/ /\ seen[c] = slot /\ job[c].attempt # None /\ Fits(slot, job[c])
                  /\ slot' = Installed(slot, job[c])
               \/ /\ seen[c] = slot /\ Retirable(slot, view[c].active)
                  /\ slot' = [slot EXCEPT !.state = "EMPTY_FOR_REMEDIATION",
                                          !.active = None,
                                          !.historical = {view[c].active}]
<1>1. PICK c \in Controllers :
         \/ ReadSlot(c) \/ Preflight(c) \/ Lock(c) \/ Locked(c) \/ Finish(c)
         \/ Unrecordable(c) \/ Settle(c) \/ Crash(c)
  BY DEF Next
<1>2. CASE ~ Locked(c)
  BY <1>1, <1>2 DEF ReadSlot, Preflight, PreflightPasses, PreflightHolds, AskRetire, Lock,
                    Finish, FinishWith, Unrecordable, Settle, Crash
<1>3. CASE Locked(c)
  <2>1. Unlock(c) /\ slot \in Slots
    BY <1>3, Facts DEF Locked, Reserve, Publish, Retire
  <2>2. seen[c] = slot
    BY <2>1, UnlockFacts
  <2>3. CASE Reserve(c)
    <3>1. slot' = slot \/ (MayReserve(c) /\ slot'.active = slot.active)
      BY <2>1, <2>2, <2>3 DEF Reserve, Write, Refuse, Slots
    <3>2. QED
      BY <2>2, <3>1
  <2>4. CASE Publish(c)
    BY <2>2, <2>4 DEF Publish, Write, Refuse
  <2>5. CASE Retire(c)
    BY <2>2, <2>5 DEF Retire, Write, Refuse
  <2>6. QED
    BY <1>3, <2>3, <2>4, <2>5 DEF Locked
<1>4. QED
  BY <1>2, <1>3

\* A frozen candidate leaves review only as the parent of a remediation.
THEOREM ReviewKept == Spec => FrozenStaysFrozen
<1>1. IInv /\ [Next]_vars =>
         [slot.active # None /\ slot'.active # slot.active =>
             /\ slot.state = "FROZEN_REVIEW_V1"
             /\ slot'.historical = {slot.active}
             /\ slot'.remaining = 1]_vars
  <2> SUFFICES ASSUME IInv, Next, slot.active # None, slot'.active # slot.active
               PROVE  /\ slot.state = "FROZEN_REVIEW_V1"
                      /\ slot'.historical = {slot.active}
                      /\ slot'.remaining = 1
    OBVIOUS
  <2>1. slot \in Slots /\ Valid(slot) /\ Called(slot)
    BY DEF IInv, Sound
  <2>2. PICK c \in Controllers :
            \/ slot' = WithHold(slot, job[c])
            \/ /\ job[c].attempt # None /\ Fits(slot, job[c])
               /\ slot' = Installed(slot, job[c])
            \/ /\ Retirable(slot, view[c].active)
               /\ slot' = [slot EXCEPT !.state = "EMPTY_FOR_REMEDIATION",
                                       !.active = None,
                                       !.historical = {view[c].active}]
    BY SlotChanges
  <2>3. slot' # WithHold(slot, job[c])
    BY <2>1 DEF WithHold, Slots
  <2>4. ~ (job[c].attempt # None /\ Fits(slot, job[c]))
    BY <2>1 DEF Fits, Called, Valid
  <2>5. QED
    BY <2>1, <2>2, <2>3, <2>4 DEF Retirable, Slots
<1>2. QED
  BY <1>1, SpecInvariant, PTL DEF Spec, FrozenStaysFrozen

\* Neither a repeated publication nor the record of an attempt that ran is
\* refused, unless its packet, baseline or executor differs from the first one's.
THEOREM WorkAccepted == Spec => WorkIsNotRefused
<1>1. IInv /\ [Next]_vars =>
         [\A c \in Controllers :
             /\ pc[c] = "publish"
             /\ \/ Recorded(c)
                \/ Running(c) /\ slot.gate \in {None, job[c].binding}
             => outcome'[c] # "refused"]_vars
  <2> SUFFICES ASSUME IInv, Next, NEW c \in Controllers, pc[c] = "publish",
                      \/ Recorded(c)
                      \/ Running(c) /\ slot.gate \in {None, job[c].binding}
               PROVE  outcome'[c] # "refused"
    OBVIOUS
  <2>1. CallOK(c) /\ Typed /\ outcome[c] # "refused" /\ Built(c)
    BY Facts DEF CallOK
  <2>2. PICK d \in Controllers :
           \/ ReadSlot(d) \/ Preflight(d) \/ Lock(d) \/ Locked(d) \/ Finish(d)
           \/ Unrecordable(d) \/ Settle(d) \/ Crash(d)
    BY DEF Next
  <2>3. CASE ~ Locked(d)
    <3>1. \/ outcome' = outcome
          \/ \E how \in {"none", "unrecordable", "crashed"} :
                outcome' = [outcome EXCEPT ![d] = how]
      BY <2>2, <2>3 DEF ReadSlot, Preflight, PreflightPasses, PreflightHolds, AskRetire, Lock,
                        Finish, FinishWith, Unrecordable, Settle, Crash, Report, callVars
    <3>2. QED
      BY <2>1, <3>1 DEF Typed
  <2>4. CASE Locked(d) /\ d # c
    <3>1. \E how : outcome' = [outcome EXCEPT ![d] = how]
      BY <2>4 DEF Locked, Reserve, Publish, Retire, Write, Refuse, Report
    <3>2. QED
      BY <2>1, <2>4, <3>1 DEF Typed
  <2>5. CASE Locked(d) /\ d = c
    <3>1. Publish(c) /\ Unlock(c)
      BY <2>5 DEF Locked, Reserve, Publish, Retire
    <3>2. seen[c] = slot
      BY <3>1, UnlockFacts
    <3>3. Published(slot, job[c]) \/ Fits(slot, job[c])
      BY <2>1 DEF Published, Recorded, Fits, Built, Running, SameGate
    <3>4. \E how \in {"replayed", "recorded", "corrupt"} :
             outcome' = [outcome EXCEPT ![c] = how]
      BY <3>1, <3>2, <3>3 DEF Publish, Write, Report
    <3>5. QED
      BY <2>1, <3>4 DEF Typed
  <2>6. QED
    BY <2>3, <2>4, <2>5
<1>2. QED
  BY <1>1, SpecInvariant, PTL DEF Spec, WorkIsNotRefused

-----------------------------------------------------------------------------
(* The bounded process, and the slot around it.                            *)

\* The stages in which the call may still return an observation.
Promising == {"idle", "created", "assigned", "communicate", "expired", "drain",
              "count", "survivors"}

\* The root and the job.
RootInv ==
    /\ ~ inJob => proc[Root] # "working" /\ \A p \in Descendants : proc[p] = "none"
    /\ sup = "idle" => proc[Root] = "none"
    /\ sup \in {"idle", "created"} => ~ inJob
    /\ sup \in {"created", "assigned"} => proc[Root] = "suspended"
    /\ sup \in {"assigned", "communicate", "expired", "drain", "count", "survivors"} => inJob
    /\ sup \in {"count", "survivors"} => proc[Root] = "gone"
    /\ code # "none" <=> proc[Root] = "gone"

\* What the supervisor has noted.
NoteInv ==
    /\ sup = "count" /\ ~ active => \A p \in Tree : proc[p] \in {"none", "gone"}
    /\ sup = "survivors" => surviving
    /\ sup = "expired" => timedOut
    /\ sup \in Promising /\ hit => timedOut \/ surviving
    /\ sup # "returned" => report = NoReport

PInv == ProcTypeOK /\ RootInv /\ NoteInv /\ NothingOutlives /\ ReportIsTrue /\ OnlyUndisturbedWork

-----------------------------------------------------------------------------
(* The process.                                                            *)

\* The beginning, and the reset before the next attempt.
LEMMA ProcInitInvariant == ProcInit => PInv
  BY DEF ProcInit, PInv, ProcTypeOK, RootInv, NoteInv, NothingOutlives, ReportIsTrue,
         OnlyUndisturbedWork, Over, Stages, Tree

LEMMA ForgetInvariant == Forget => PInv'
  BY DEF Forget, PInv, ProcTypeOK, RootInv, NoteInv, NothingOutlives, ReportIsTrue,
         OnlyUndisturbedWork, Over, Stages, Tree

\* Terminating a set of processes.
LEMMA TerminateFacts ==
  ASSUME PInv, NEW ps \in SUBSET Tree, Terminate(ps)
  PROVE  /\ proc' \in [Tree -> {"none", "suspended", "working", "dying", "gone"}]
         /\ hit' \in BOOLEAN
         /\ \A p \in Tree : proc'[p] = IF p \in ps /\ Present(p) THEN "dying" ELSE proc[p]
         /\ hit' => hit \/ \E p \in ps : proc[p] = "working"
         /\ hit => hit'
         /\ \A p \in Tree : proc'[p] = "gone" <=> proc[p] = "gone"
         /\ \A p \in Tree : proc'[p] = "none" <=> proc[p] = "none"
         /\ \A p \in Tree : proc'[p] = "working" => proc[p] = "working" /\ p \notin ps
  BY DEF PInv, ProcTypeOK, Terminate, Killed, Present

\* Who is in the job, and that closing the job reaches everybody.
LEMMA MembersFacts ==
  ASSUME PInv
  PROVE  /\ Members \in SUBSET Tree /\ Root \in Tree
         /\ \A p \in Tree : proc[p] = "working" => p \in Members
  BY DEF PInv, RootInv, Members, Tree

\* What the agents do.
LEMMA WorkStep ==
  ASSUME PInv, Work
  PROVE  PInv'
<1>1. PICK p \in Tree : (\E q \in Descendants : Spawn(p, q)) \/ ClosePipe(p) \/ End(p)
  BY DEF Work
<1>2. UNCHANGED <<sup, inJob, timedOut, surviving, active, report, hit>>
  BY DEF Work, limits
<1>3. CASE \E q \in Descendants : Spawn(p, q)
  <2>1. PICK q \in Descendants : Spawn(p, q)
    BY <1>3
  <2>2. /\ proc[p] = "working" /\ proc[q] = "none" /\ q # Root /\ q \in Tree
        /\ proc' = [proc EXCEPT ![q] = "working"] /\ code' = code /\ pipes' \subseteq Tree
    BY <2>1, BoundedProcessAssumption DEF Spawn, PInv, ProcTypeOK, Tree
  <2>3. inJob /\ sup \notin Over
    BY <2>2 DEF PInv, RootInv, NothingOutlives, Tree
  <2>4. ProcTypeOK' /\ RootInv'
    BY <1>2, <2>2, <2>3 DEF PInv, ProcTypeOK, RootInv
  <2>5. NoteInv' /\ NothingOutlives' /\ ReportIsTrue' /\ OnlyUndisturbedWork'
    BY <1>2, <2>2, <2>3 DEF PInv, ProcTypeOK, NoteInv, NothingOutlives, ReportIsTrue,
                            OnlyUndisturbedWork, Over
  <2>6. QED
    BY <2>4, <2>5 DEF PInv
<1>4. CASE ClosePipe(p)
  BY <1>2, <1>4 DEF ClosePipe, PInv, ProcTypeOK, RootInv, NoteInv, NothingOutlives, ReportIsTrue,
                    OnlyUndisturbedWork, Succeeded, Failed
<1>5. CASE End(p)
  <2>1. /\ proc[p] \in {"working", "dying"} /\ proc' = [proc EXCEPT ![p] = "gone"]
        /\ pipes' \subseteq Tree
        /\ p # Root => code' = code
        /\ p = Root => code' \in {"zero", "one"}
    BY <1>5 DEF End, PInv, ProcTypeOK
  <2>2. ProcTypeOK' /\ RootInv'
    BY <1>2, <2>1 DEF PInv, ProcTypeOK, RootInv, Tree
  <2>3. NoteInv' /\ NothingOutlives' /\ ReportIsTrue'
    BY <1>2, <2>1 DEF PInv, ProcTypeOK, NoteInv, NothingOutlives, ReportIsTrue
  <2>4. OnlyUndisturbedWork'
    BY <1>2, <2>1 DEF PInv, ProcTypeOK, OnlyUndisturbedWork, Succeeded, Failed, Tree
  <2>5. QED
    BY <2>2, <2>3, <2>4 DEF PInv
<1>6. QED
  BY <1>1, <1>3, <1>4, <1>5

\* The supervisor before it waits.
LEMMA StartStep ==
  ASSUME PInv, NeverStarts \/ Create \/ CreateFails \/ Assign \/ Resume
  PROVE  PInv'
<1>1. CASE NeverStarts
  BY <1>1 DEF NeverStarts, tree, limits, PInv, ProcTypeOK, RootInv, NoteInv, NothingOutlives,
              ReportIsTrue, OnlyUndisturbedWork, Over, Stages, Promising, Succeeded, Failed
<1>2. CASE Create
  BY <1>2, BoundedProcessAssumption DEF Create, limits, PInv, ProcTypeOK, RootInv, NoteInv, NothingOutlives,
              ReportIsTrue, OnlyUndisturbedWork, Over, Stages, Promising, Tree
<1>3. CASE CreateFails
  <2>1. \A p \in Tree : proc[p] = "none"
    BY <1>3 DEF CreateFails, PInv, RootInv, Tree
  <2>2. QED
    BY <1>3, <2>1 DEF CreateFails, tree, limits, PInv, ProcTypeOK, RootInv, NoteInv,
        NothingOutlives, ReportIsTrue, OnlyUndisturbedWork, Over, Stages, Promising, Succeeded,
        Failed, Reports
<1>4. CASE Assign
  BY <1>4 DEF Assign, tree, limits, PInv, ProcTypeOK, RootInv, NoteInv, NothingOutlives,
              ReportIsTrue, OnlyUndisturbedWork, Over, Stages, Promising
<1>5. CASE Resume
  BY <1>5 DEF Resume, limits, PInv, ProcTypeOK, RootInv, NoteInv, NothingOutlives,
              ReportIsTrue, OnlyUndisturbedWork, Over, Stages, Promising, Tree
<1>6. QED
  BY <1>1, <1>2, <1>3, <1>4, <1>5

\* The waits of the supervisor that terminate nobody.
LEMMA WaitStep ==
  ASSUME PInv, Communicate \/ Expire \/ Recount \/ Fail
  PROVE  PInv'
<1>1. CASE Communicate
  <2>1. inJob /\ proc[Root] = "gone" /\ active' = Active
    BY <1>1 DEF Communicate, Finished, PInv, RootInv
  <2>2. ~ Active => \A p \in Tree : proc[p] \in {"none", "gone"}
    BY <2>1 DEF Active, Members, Present, PInv, ProcTypeOK
  <2>3. active' \in BOOLEAN
    BY <2>1 DEF Active
  <2>4. QED
    BY <1>1, <2>1, <2>2, <2>3 DEF Communicate, tree, PInv, ProcTypeOK, RootInv, NoteInv,
        NothingOutlives, ReportIsTrue, OnlyUndisturbedWork, Over, Stages, Promising
<1>2. CASE Expire
  BY <1>2 DEF Expire, tree, PInv, ProcTypeOK, RootInv, NoteInv, NothingOutlives, ReportIsTrue,
        OnlyUndisturbedWork, Over, Stages, Promising
<1>3. CASE Recount
  <2>1. inJob /\ active' = Active
    BY <1>3 DEF Recount, PInv, RootInv
  <2>2. ~ Active => \A p \in Tree : proc[p] \in {"none", "gone"}
    BY <2>1 DEF Active, Members, Present, PInv, ProcTypeOK
  <2>3. active' \in BOOLEAN
    BY <2>1 DEF Active
  <2>4. QED
    BY <1>3, <2>1, <2>2, <2>3 DEF Recount, tree, PInv, ProcTypeOK, RootInv, NoteInv,
        NothingOutlives, ReportIsTrue, OnlyUndisturbedWork, Over, Stages, Promising
<1>4. CASE Fail
  BY <1>4 DEF Fail, tree, limits, PInv, ProcTypeOK, RootInv, NoteInv, NothingOutlives,
        ReportIsTrue, OnlyUndisturbedWork, Over, Stages, Promising
<1>5. QED
  BY <1>1, <1>2, <1>3, <1>4

\* The terminations after which the call may still return: each has noted why.
LEMMA TerminateStep ==
  ASSUME PInv, TerminateExpired \/ Deadline
  PROVE  PInv'
<1>1. Members \in SUBSET Tree /\ Root \in Tree /\ Terminate(Members)
  BY MembersFacts DEF TerminateExpired, Deadline
<1>2. /\ proc' \in [Tree -> {"none", "suspended", "working", "dying", "gone"}]
      /\ hit' \in BOOLEAN
      /\ \A p \in Tree : proc'[p] = "gone" <=> proc[p] = "gone"
      /\ \A p \in Tree : proc'[p] = "none" <=> proc[p] = "none"
      /\ \A p \in Tree : proc'[p] = "working" => proc[p] = "working"
  BY <1>1, TerminateFacts
<1>3. sup \in {"expired", "count"} /\ inJob
  BY DEF TerminateExpired, Deadline, PInv, RootInv
<1>4. CASE TerminateExpired
  BY <1>1, <1>2, <1>3, <1>4 DEF TerminateExpired, limits, PInv, ProcTypeOK, RootInv, NoteInv,
      NothingOutlives, ReportIsTrue, OnlyUndisturbedWork, Over, Stages, Promising, Tree
<1>5. CASE Deadline
  BY <1>1, <1>2, <1>3, <1>5 DEF Deadline, limits, PInv, ProcTypeOK, RootInv, NoteInv,
      NothingOutlives, ReportIsTrue, OnlyUndisturbedWork, Over, Stages, Promising, Tree
<1>6. QED
  BY <1>4, <1>5

\* The call raises: the job is terminated, or only the root, and closed.
LEMMA RaiseStep ==
  ASSUME PInv, Kill \/ Close \/ Vanish
  PROVE  PInv'
<1>1. /\ Members \in SUBSET Tree /\ Root \in Tree
      /\ \A p \in Tree : proc[p] = "working" => p \in Members
  BY MembersFacts
<1>2. CASE Kill
  <2>1. PICK ps \in SUBSET Tree : Terminate(ps)
    BY <1>1, <1>2 DEF Kill
  <2>2. /\ proc' \in [Tree -> {"none", "suspended", "working", "dying", "gone"}]
        /\ hit' \in BOOLEAN
        /\ \A p \in Tree : proc'[p] = "gone" <=> proc[p] = "gone"
        /\ \A p \in Tree : proc'[p] = "none" <=> proc[p] = "none"
        /\ \A p \in Tree : proc'[p] = "working" => proc[p] = "working"
    BY <2>1, TerminateFacts
  <2>3. QED
    BY <1>1, <1>2, <2>2 DEF Kill, limits, PInv, ProcTypeOK, RootInv, NoteInv, NothingOutlives,
        ReportIsTrue, OnlyUndisturbedWork, Over, Stages, Promising, Tree
<1>3. CASE Close \/ Vanish
  <2>1. Terminate(Members)
    BY <1>3 DEF Close, Vanish, CloseJob
  <2>2. /\ proc' \in [Tree -> {"none", "suspended", "working", "dying", "gone"}]
        /\ hit' \in BOOLEAN
        /\ \A p \in Tree : proc'[p] = "gone" <=> proc[p] = "gone"
        /\ \A p \in Tree : proc'[p] = "none" <=> proc[p] = "none"
        /\ \A p \in Tree : proc'[p] # "working"
    BY <1>1, <2>1, TerminateFacts
  <2>3. sup' \in {"raised", "vanished"} /\ UNCHANGED <<pipes, code, inJob, limits, report>>
        /\ sup \notin Over
    BY <1>3 DEF Close, Vanish, Over
  <2>4. QED
    BY <1>1, <2>2, <2>3 DEF limits, PInv, ProcTypeOK, RootInv, NoteInv, NothingOutlives,
        ReportIsTrue, OnlyUndisturbedWork, Over, Stages, Promising, Tree
<1>4. QED
  BY <1>2, <1>3

\* The observation.
LEMMA ObserveStep ==
  ASSUME PInv, Observe
  PROVE  PInv'
<1>1. /\ Members \in SUBSET Tree /\ Root \in Tree
      /\ \A p \in Tree : proc[p] = "working" => p \in Members
  BY MembersFacts
<1>2. /\ proc' \in [Tree -> {"none", "suspended", "working", "dying", "gone"}]
      /\ hit' \in BOOLEAN
      /\ hit' => hit \/ \E p \in Members : proc[p] = "working"
      /\ \A p \in Tree : proc'[p] = "gone" <=> proc[p] = "gone"
      /\ \A p \in Tree : proc'[p] = "none" <=> proc[p] = "none"
      /\ \A p \in Tree : proc'[p] # "working"
  BY <1>1, TerminateFacts DEF Observe, CloseJob
<1>3. /\ sup \in {"count", "survivors"} /\ inJob /\ proc[Root] = "gone"
      /\ code \in {"zero", "one"}
  BY DEF Observe, PInv, RootInv, ProcTypeOK
<1>4. /\ active' \in BOOLEAN
      /\ ~ active' => \A p \in Tree : proc[p] \in {"none", "gone"}
  <2>1. CASE sup = "count"
    BY <2>1 DEF Observe, PInv, NoteInv, ProcTypeOK
  <2>2. CASE sup = "survivors"
    BY <1>3, <2>2 DEF Observe, LastCount, Active, Members, Present, PInv, ProcTypeOK
  <2>3. QED
    BY <1>3, <2>1, <2>2
<1>5. /\ report' = [pid |-> TRUE, code |-> code, timedOut |-> timedOut,
                    error |-> surviving, allGone |-> ~ active']
      /\ sup' = "returned"
      /\ UNCHANGED <<pipes, code, inJob, timedOut, surviving>>
  BY DEF Observe
<1>6. {timedOut, surviving} \subseteq BOOLEAN
  BY DEF PInv, ProcTypeOK
<1>7. report' \in Reports
  BY <1>3, <1>4, <1>5, <1>6 DEF Reports
<1>8. ~ timedOut /\ ~ surviving /\ ~ active' => ~ hit'
  BY <1>1, <1>2, <1>3, <1>4 DEF PInv, NoteInv, Promising
<1>9. OnlyUndisturbedWork'
  BY <1>1, <1>2, <1>3, <1>4, <1>5, <1>6, <1>8 DEF OnlyUndisturbedWork, Succeeded, Failed
<1>10. ReportIsTrue'
  BY <1>2, <1>4, <1>5 DEF ReportIsTrue
<1>11. ProcTypeOK' /\ RootInv' /\ NoteInv' /\ NothingOutlives'
  BY <1>1, <1>2, <1>3, <1>4, <1>5, <1>7 DEF PInv, ProcTypeOK, RootInv, NoteInv,
      NothingOutlives, Over, Promising, Tree
<1>12. QED
  BY <1>9, <1>10, <1>11 DEF PInv

-----------------------------------------------------------------------------
(* The composition.                                                        *)

\* Forgetting the process, every step of the composition is one of the slot or
\* none: CodingAttempt implements CodingSlot, whose theorems it inherits.
THEOREM ImplementsSlot == AttemptSpec => Spec
<1>1. AttemptInit => Init
  BY DEF AttemptInit
<1>2. [AttemptNext]_attemptVars => [Next]_vars
  <2> SUFFICES ASSUME [AttemptNext]_attemptVars PROVE [Next]_vars
    OBVIOUS
  <2>1. CASE UNCHANGED attemptVars
    BY <2>1 DEF attemptVars, slotVars
  <2>2. CASE Agents
    BY <2>2 DEF Agents, slotVars
  <2>3. CASE \E c \in Controllers : StartAndSupervise(c)
    BY <2>3 DEF StartAndSupervise, slotVars
  <2>4. CASE \E c \in Controllers : SlotStep(c)
    BY <2>4 DEF SlotStep, Next
  <2>5. CASE \E c \in Controllers : Conclude(c)
    <3>1. PICK c \in Controllers : FinishWith(c, Succeeded(report))
      BY <2>5 DEF Conclude
    <3>2. Succeeded(report) \in BOOLEAN
      BY DEF Succeeded
    <3>3. Finish(c)
      BY <3>1, <3>2 DEF Finish
    <3>4. QED
      BY <3>3 DEF Next
  <2>6. CASE \E c \in Controllers : Abandon(c) \/ ControllerVanishes(c)
    BY <2>6 DEF Abandon, ControllerVanishes, Next
  <2>7. QED
    BY <2>1, <2>2, <2>3, <2>4, <2>5, <2>6 DEF AttemptNext
<1>3. QED
  BY <1>1, <1>2, PTL DEF AttemptSpec, Spec

\* Whoever supervises drives an attempt.
Supervised == sup \notin Over => \E c \in Controllers : Driving(c)

AInv == PInv /\ Supervised

\* The process of a step that leaves it alone.
LEMMA ProcStutter ==
  ASSUME PInv, UNCHANGED procVars
  PROVE  PInv'
  BY DEF procVars, tree, limits, PInv, ProcTypeOK, RootInv, NoteInv, NothingOutlives,
         ReportIsTrue, OnlyUndisturbedWork, Succeeded, Failed

\* One step of the supervisor.
LEMMA SuperviseStep ==
  ASSUME PInv, Supervise
  PROVE  PInv'
  BY StartStep, WaitStep, TerminateStep, RaiseStep, ObserveStep DEF Supervise

\* No step of the slot takes an attempt from its controller unasked.
LEMMA DrivingKept ==
  ASSUME Typed, NEW c \in Controllers, NEW d \in Controllers, SlotStep(c), Driving(d)
  PROVE  Driving(d)'
<1>1. pc[d] = "running" /\ pc \in [Controllers -> {"idle", "preflight", "reserve", "running",
                               "publish", "published", "retire"}]
  BY DEF Driving, Typed, TypeOK
<1>2. pc' = pc \/ (pc[c] # "running" /\ \E l : pc' = [pc EXCEPT ![c] = l])
  <2>1. CASE ReadSlot(c) \/ Preflight(c) \/ Lock(c) \/ Settle(c)
    BY <2>1 DEF ReadSlot, Preflight, PreflightPasses, PreflightHolds, AskRetire, Lock, Settle, Goto
  <2>2. CASE Locked(c)
    BY <2>2 DEF Locked, Reserve, Publish, Retire, Write, Refuse, Goto
  <2>3. QED
    BY <2>1, <2>2 DEF SlotStep
<1>3. QED
  BY <1>1, <1>2 DEF Driving

\* Every step keeps the invariant.
LEMMA AttemptNextInvariant ==
  IInv /\ AInv /\ [AttemptNext]_attemptVars => AInv'
<1> SUFFICES ASSUME IInv, AInv, [AttemptNext]_attemptVars PROVE AInv'
  OBVIOUS
<1>1. PInv /\ Supervised /\ Typed
  BY DEF AInv, IInv
<1>2. CASE UNCHANGED attemptVars
  <2>1. UNCHANGED procVars /\ pc' = pc /\ sup' = sup
    BY <1>2 DEF attemptVars, slotVars, vars, procVars
  <2>2. QED
    BY <1>1, <2>1, ProcStutter DEF AInv, Supervised, Driving
<1>3. CASE Agents
  <2>1. pc' = pc /\ sup' = sup
    BY <1>3 DEF Agents, Work, slotVars, vars
  <2>2. QED
    BY <1>1, <1>3, <2>1, WorkStep DEF Agents, AInv, Supervised, Driving
<1>4. ASSUME NEW c \in Controllers, StartAndSupervise(c)
      PROVE  AInv'
  <2>1. Driving(c)'
    BY <1>4 DEF StartAndSupervise, slotVars, vars, Driving
  <2>2. QED
    BY <1>1, <1>4, <2>1, SuperviseStep DEF StartAndSupervise, AInv, Supervised
<1>5. ASSUME NEW c \in Controllers, SlotStep(c)
      PROVE  AInv'
  <2>1. UNCHANGED procVars /\ sup' = sup
    BY <1>5 DEF SlotStep, procVars
  <2>2. QED
    BY <1>1, <1>5, <2>1, DrivingKept, ProcStutter DEF AInv, Supervised
<1>6. ASSUME NEW c \in Controllers, Conclude(c)
      PROVE  AInv'
  <2>1. Forget /\ sup' \in Over
    BY <1>6 DEF Conclude, Forget, Over
  <2>2. QED
    BY <2>1, ForgetInvariant DEF AInv, Supervised, Over
<1>7. ASSUME NEW c \in Controllers, Abandon(c)
      PROVE  AInv'
  <2>1. UNCHANGED procVars /\ sup' = sup /\ sup \in Over
    BY <1>7 DEF Abandon, procVars, Over
  <2>2. QED
    BY <1>1, <2>1, ProcStutter DEF AInv, Supervised, Over
<1>8. ASSUME NEW c \in Controllers, ControllerVanishes(c)
      PROVE  AInv'
  <2>1. CASE Driving(c) /\ sup \notin Over
    <3>1. Vanish /\ sup' = "vanished"
      BY <1>8, <2>1 DEF ControllerVanishes, Vanish
    <3>2. QED
      BY <1>1, <3>1, RaiseStep DEF AInv, Supervised, Over
  <2>2. CASE ~ (Driving(c) /\ sup \notin Over)
    <3>1. UNCHANGED procVars /\ sup' = sup
      BY <1>8, <2>2 DEF ControllerVanishes, procVars
    <3>2. \A d \in Controllers \ {c} : pc'[d] = pc[d]
      BY <1>1, <1>8 DEF ControllerVanishes, Crash, Goto, Typed, TypeOK
    <3>3. QED
      BY <1>1, <2>2, <3>1, <3>2, ProcStutter DEF AInv, Supervised, Driving
  <2>3. QED
    BY <2>1, <2>2
<1>9. QED
  BY <1>2, <1>3, <1>4, <1>5, <1>6, <1>7, <1>8 DEF AttemptNext

\* The invariants of the slot and of the process, together.
LEMMA AttemptInvariant == AttemptSpec => [](IInv /\ AInv)
<1>1. AttemptSpec => []IInv
  BY ImplementsSlot, SpecInvariant, PTL
<1>2. AttemptInit => AInv
  BY ProcInitInvariant DEF AttemptInit, AInv, Supervised, ProcInit, Over
<1>3. QED
  BY <1>1, <1>2, AttemptNextInvariant, PTL DEF AttemptSpec

\* However the call ends, and even when its controller vanishes, nobody works on.
THEOREM NobodyOutlives == AttemptSpec => []NothingOutlives
<1>1. AInv => NothingOutlives
  BY DEF AInv, PInv
<1>2. QED
  BY <1>1, AttemptInvariant, PTL

\* An observation that says all descendants terminated is true, and stays true.
THEOREM ReportsAreTrue == AttemptSpec => []ReportIsTrue
<1>1. AInv => ReportIsTrue
  BY DEF AInv, PInv
<1>2. QED
  BY <1>1, AttemptInvariant, PTL

\* Only a tree that came to its own end counts as a success.
THEOREM SuccessIsUndisturbed == AttemptSpec => []OnlyUndisturbedWork
<1>1. AInv => OnlyUndisturbedWork
  BY DEF AInv, PInv
<1>2. QED
  BY <1>1, AttemptInvariant, PTL

\* Agents work only under the reservation of their own attempt.
THEOREM ReservedWork == AttemptSpec => []WorksUnderReservation
<1>1. IInv /\ AInv => WorksUnderReservation
  <2> SUFFICES ASSUME IInv, AInv, \E p \in Tree : proc[p] = "working"
               PROVE  /\ slot.reserved # None
                      /\ \E c \in Controllers : Driving(c) /\ job[c] = slot.reserved
    BY DEF WorksUnderReservation
  <2>1. sup \notin Over
    BY DEF AInv, PInv, NothingOutlives
  <2>2. PICK c \in Controllers : Driving(c)
    BY <2>1 DEF AInv, Supervised
  <2>3. job[c] \in Reservations /\ slot.reserved = job[c]
    BY <2>2 DEF IInv, CallOK, Driving
  <2>4. QED
    BY <2>2, <2>3, ReservationAssumption
<1>2. QED
  BY <1>1, AttemptInvariant, PTL
===============================================================================
