------------------------ MODULE AuditGenerationsProofs ------------------------
(***************************************************************************)
(* Proofs about AuditGenerations, for every set of hashes and event ids.   *)
(*                                                                         *)
(* The argument: every generation up to the current one has its first row, *)
(* so the coordinate a start event needs is free only for a recovery that  *)
(* goes back to an event of the current generation.  Hence each generation *)
(* continues the one before it, at an event that is still there, and the   *)
(* reader finds its way back to generation one.                            *)
(***************************************************************************)
EXTENDS AuditGenerations, TLAPS

TypeInv ==
    /\ rows \subseteq Events
    /\ current \in Heads
    /\ appended \in BOOLEAN

\* A hash and a coordinate each belong to one row.
Unique ==
    \A d, e \in rows :
        /\ d.hash = e.hash => d = e
        /\ At(d, e.generation, e.sequence) => d = e

\* A generation has no gaps and each row names the one before it.
Chained ==
    \A e \in rows :
        /\ \A k \in 1..e.sequence : \E d \in rows : At(d, e.generation, k)
        /\ IF e.sequence = 1 THEN e.previous = None
           ELSE \E c \in rows : At(c, e.generation, e.sequence - 1) /\ e.previous = c.hash

\* A generation starts from a row of the one before it.
Started ==
    \A e \in rows : e.sequence = 1 =>
        IF e.generation = 1 THEN e.prefix = None
        ELSE /\ e.prefix # None
             /\ e.prefix.generation = e.generation - 1
             /\ \E d \in rows : e.prefix = PrefixOf(d)

\* The head is a last row; past its generation there is at most a start event.
Headed ==
    /\ \E d \in rows : IsTail(d)
    /\ \A e \in rows :
          /\ e.generation <= current.generation + 1
          /\ e.generation = current.generation + 1 => e.sequence = 1
    /\ \A g \in 1..current.generation : \E e \in rows : e.generation = g

\* What is known of the recovery in progress.
Planned ==
    /\ plan # None =>
          /\ plan \in Transactions /\ ValidTransaction(plan)
          /\ plan.accepted /\ plan.action \in Starting
          /\ plan.prefix.generation <= current.generation
          /\ \E d \in rows : plan.prefix = PrefixOf(d)
          /\ ~ appended => \A d \in rows : d.hash # plan.event.hash
    /\ appended =>
          /\ plan # None
          /\ plan.event \in rows
          /\ plan.prefix.generation = current.generation

IInv == TypeInv /\ Unique /\ Chained /\ Started /\ Headed /\ Planned

-----------------------------------------------------------------------------
(* What the contracts make of an accepted recovery that starts a generation *)
LEMMA StartingPlan ==
    ASSUME NEW t \in Transactions, ValidTransaction(t), t.accepted, t.action \in Starting
    PROVE  /\ t.event \in Events
           /\ t.event.sequence = 1
           /\ t.event.generation # 1
           /\ t.event.generation = t.prefix.generation + 1
           /\ t.event.previous = None
           /\ t.event.prefix = t.prefix
           /\ t.event.prefix # None
           /\ t.state = HeadOf(t.event)
<1>1. t.event # None /\ t.state # None
  BY DEF ValidTransaction, FitsMatrix
<1>2. t.event \in Events
  BY <1>1 DEF Transactions
<1>3. /\ ValidEvent(t.event)
      /\ t.event.type = StartType(t.action)
      /\ t.event.prefix = t.prefix
      /\ t.newGeneration = t.event.generation
      /\ t.newGeneration = t.prefix.generation + 1
      /\ t.state = HeadOf(t.event)
  BY <1>1 DEF ValidTransaction, FitsGraph
<1>4. t.event.type \in RecoveryTypes
  BY <1>3 DEF StartType, RecoveryTypes
<1>5. /\ t.event.generation # 1 /\ t.event.sequence = 1 /\ t.event.prefix # None
      /\ t.event.previous = None
  BY <1>3, <1>4 DEF ValidEvent
<1> QED BY <1>2, <1>3, <1>5

\* A start event that finds its coordinate free continues the current generation.
LEMMA FreeCoordinate ==
    ASSUME IInv, plan # None,
           ~ \E d \in rows : At(d, plan.event.generation, plan.event.sequence)
    PROVE  plan.prefix.generation = current.generation
<1>1. /\ plan \in Transactions
      /\ plan.event \in Events
      /\ plan.event.sequence = 1
      /\ plan.event.generation = plan.prefix.generation + 1
      /\ plan.prefix.generation <= current.generation
  BY StartingPlan DEF IInv, Planned
<1>2. plan.prefix.generation \in Positive /\ current.generation \in Positive
  BY <1>1 DEF Transactions, Prefixes, IInv, TypeInv, Heads
<1>3. CASE plan.prefix.generation < current.generation
  <2>1. plan.event.generation \in 1..current.generation
    BY <1>1, <1>2, <1>3 DEF Positive
  <2>2. PICK e \in rows : e.generation = plan.event.generation
    BY <2>1 DEF IInv, Headed
  <2>3. e.sequence \in Positive
    BY <2>2 DEF IInv, TypeInv, Events
  <2>4. 1 \in 1..e.sequence
    BY <2>3 DEF Positive
  <2>5. \E d \in rows : At(d, e.generation, 1)
    BY <2>4 DEF IInv, Chained
  <2> QED BY <2>2, <2>5, <1>1
<1> QED BY <1>1, <1>2, <1>3 DEF Positive

-----------------------------------------------------------------------------
LEMMA InitIInv == Init => IInv
<1> SUFFICES ASSUME Init PROVE IInv OBVIOUS
<1>1. PICK i \in Ids, h \in Hashes :
          rows = {Created(i, h)} /\ current = HeadOf(Created(i, h))
  BY DEF Init
<1> DEFINE e == Created(i, h)
<1>2. e \in Events
  BY DEF Created, Events, Positive, EventTypes
<1>3. TypeInv
  <2>1. HeadOf(e) \in Heads
    BY DEF HeadOf, Heads, Created, Positive
  <2> QED BY <1>1, <1>2, <2>1 DEF TypeInv, Init
<1>4. Unique
  BY <1>1 DEF Unique
<1>5. Chained
  BY <1>1 DEF Chained, Created, At
<1>6. Started
  BY <1>1 DEF Started, Created
<1>7. Headed
  BY <1>1 DEF Headed, Created, HeadOf, IsTail
<1>8. Planned
  BY DEF Planned, Init
<1> QED BY <1>3, <1>4, <1>5, <1>6, <1>7, <1>8 DEF IInv

\* commit_task_state_and_audit adds the successor of the head.
LEMMA CommitIInv == ASSUME IInv, Commit PROVE IInv'
<1>1. PICK d \in rows, i \in Ids, h \in Hashes :
          /\ IsTail(d)
          /\ Fresh(h)
          /\ LET e == [generation |-> d.generation, sequence |-> d.sequence + 1,
                       type |-> "TRANSITION_ACCEPTED", id |-> i, hash |-> h,
                       previous |-> d.hash, prefix |-> None]
             IN  rows' = rows \cup {e} /\ current' = HeadOf(e)
  BY DEF Commit
<1>2. PICK e : e = [generation |-> d.generation, sequence |-> d.sequence + 1,
                    type |-> "TRANSITION_ACCEPTED", id |-> i, hash |-> h,
                    previous |-> d.hash, prefix |-> None]
  OBVIOUS
<1>3. rows' = rows \cup {e} /\ current' = HeadOf(e) /\ UNCHANGED <<plan, appended>>
  BY <1>1, <1>2 DEF Commit
<1>4. d \in Events /\ d.generation \in Positive /\ d.sequence \in Positive /\ d.hash \in Hashes
  BY DEF IInv, TypeInv, Events
<1>5. /\ e.generation = d.generation /\ e.sequence = d.sequence + 1 /\ e.hash = h
      /\ e.previous = d.hash /\ e.id = i /\ e.prefix = None
      /\ e.sequence \in Positive /\ e.sequence # 1
  BY <1>2, <1>4 DEF Positive
<1>6. e \in Events
  BY <1>2, <1>4, <1>5 DEF Events, EventTypes
<1>7. HeadOf(d) = current /\ d.generation = current.generation
  BY <1>1 DEF IsTail, HeadOf
<1>8. current'.generation = current.generation /\ current.generation \in Positive
  BY <1>3, <1>4, <1>5, <1>7 DEF HeadOf
<1>9. \A c \in rows : c.generation = e.generation => c.sequence <= d.sequence
  BY <1>1, <1>5 DEF IsTail
<1>10. \A c \in rows : c.generation \in Positive /\ c.sequence \in Positive
  BY DEF IInv, TypeInv, Events
<1>11. TypeInv'
  <2>1. HeadOf(e) \in Heads
    BY <1>4, <1>5 DEF HeadOf, Heads
  <2> QED BY <1>3, <1>6, <2>1 DEF TypeInv, IInv
<1>12. Unique'
  <2> SUFFICES ASSUME NEW c \in rows', NEW b \in rows'
               PROVE  /\ c.hash = b.hash => c = b
                      /\ At(c, b.generation, b.sequence) => c = b
    BY DEF Unique
  <2>1. CASE c \in rows /\ b \in rows
    BY <2>1 DEF IInv, Unique
  <2>2. \A a \in rows : a.hash # e.hash
    BY <1>1, <1>5 DEF Fresh
  <2>3. \A a \in rows : a.generation = e.generation => a.sequence # e.sequence
    BY <1>4, <1>5, <1>9, <1>10 DEF Positive
  <2> QED BY <1>3, <2>1, <2>2, <2>3 DEF At
<1>13. Chained'
  <2> SUFFICES ASSUME NEW c \in rows'
               PROVE  /\ \A k \in 1..c.sequence : \E b \in rows' : At(b, c.generation, k)
                      /\ IF c.sequence = 1 THEN c.previous = None
                         ELSE \E b \in rows' : /\ At(b, c.generation, c.sequence - 1)
                                               /\ c.previous = b.hash
    BY DEF Chained
  <2>1. CASE c \in rows
    BY <2>1, <1>3 DEF IInv, Chained
  <2>2. CASE c = e
    <3>1. \E b \in rows' : At(b, c.generation, c.sequence - 1) /\ c.previous = b.hash
      BY <2>2, <1>3, <1>4, <1>5 DEF At, Positive
    <3>2. ASSUME NEW k \in 1..c.sequence PROVE \E b \in rows' : At(b, c.generation, k)
      <4>1. CASE k = e.sequence
        BY <4>1, <2>2, <1>3 DEF At
      <4>2. CASE k # e.sequence
        <5>1. k \in 1..d.sequence
          BY <4>2, <2>2, <1>4, <1>5 DEF Positive
        <5>2. \E b \in rows : At(b, d.generation, k)
          BY <5>1 DEF IInv, Chained
        <5> QED BY <5>2, <2>2, <1>3, <1>5
      <4> QED BY <4>1, <4>2
    <3> QED BY <3>1, <3>2, <2>2, <1>5
  <2> QED BY <2>1, <2>2, <1>3
<1>14. Started'
  BY <1>3, <1>5 DEF Started, IInv
<1>15. Headed'
  <2>1. IsTail(e)'
    <3>1. \A c \in rows' : c.generation = e.generation => c.sequence <= e.sequence
      BY <1>3, <1>4, <1>5, <1>9, <1>10 DEF Positive
    <3> QED BY <3>1, <1>3 DEF IsTail
  <2>2. e \in rows'
    BY <1>3
  <2>3. \A c \in rows' : /\ c.generation <= current'.generation + 1
                         /\ c.generation = current'.generation + 1 => c.sequence = 1
    BY <1>3, <1>5, <1>7, <1>8 DEF IInv, Headed, Positive
  <2>4. \A g \in 1..current'.generation : \E c \in rows' : c.generation = g
    BY <1>3, <1>8 DEF IInv, Headed
  <2>5. \E c \in rows' : IsTail(c)'
    BY <2>1, <2>2
  <2> QED BY <2>3, <2>4, <2>5 DEF Headed
<1>16. Planned'
  <2>1. plan # None => \E c \in rows' : plan.prefix = PrefixOf(c)
    BY <1>3 DEF IInv, Planned
  <2>2. plan # None => e.hash # plan.event.hash
    BY <1>1, <1>5 DEF Fresh
  <2> QED BY <1>3, <1>8, <2>1, <2>2 DEF IInv, Planned
<1> QED BY <1>11, <1>12, <1>13, <1>14, <1>15, <1>16 DEF IInv

\* A recovery trusts an event of the lineage.
LEMMA PrepareIInv == ASSUME IInv, Prepare PROVE IInv'
<1>1. PICK t \in Transactions :
          /\ ValidTransaction(t) /\ t.accepted /\ t.action \in Starting
          /\ \E d \in rows : InLineage(d) /\ t.prefix = PrefixOf(d)
          /\ Fresh(t.event.hash)
          /\ plan' = t
  BY DEF Prepare
<1>2. UNCHANGED <<rows, current, appended>> /\ plan = None
  BY DEF Prepare
<1>3. TypeInv' /\ Unique' /\ Chained' /\ Started'
  BY <1>2 DEF IInv, TypeInv, Unique, Chained, Started
<1>4. Headed'
  BY <1>2 DEF IInv, Headed, IsTail
<1>5. PICK d \in rows : InLineage(d) /\ t.prefix = PrefixOf(d)
  BY <1>1
<1>6. t.prefix.generation <= current.generation
  <2>1. d.generation \in Positive /\ current.generation \in Positive
    BY DEF IInv, TypeInv, Events, Heads
  <2> QED BY <1>5, <2>1 DEF InLineage, PrefixOf, Positive
<1>7. ~ appended
  BY <1>2 DEF IInv, Planned
<1>8. \A c \in rows : c.hash # t.event.hash
  BY <1>1 DEF Fresh
<1>9. Planned'
  BY <1>1, <1>2, <1>5, <1>6, <1>7, <1>8 DEF Planned
<1> QED BY <1>3, <1>4, <1>9 DEF IInv

\* append_audit_event finds its coordinate taken, or continues the current generation.
LEMMA AppendIInv == ASSUME IInv, Append PROVE IInv'
<1> DEFINE e == plan.event
<1>1. CASE \E d \in rows : At(d, e.generation, e.sequence)
  <2>1. plan' = None /\ UNCHANGED <<rows, appended, current>> /\ ~ appended
    BY <1>1 DEF Append
  <2>2. TypeInv' /\ Unique' /\ Chained' /\ Started'
    BY <2>1 DEF IInv, TypeInv, Unique, Chained, Started
  <2>3. Headed'
    BY <2>1 DEF IInv, Headed, IsTail
  <2>4. Planned'
    BY <2>1 DEF Planned
  <2> QED BY <2>2, <2>3, <2>4 DEF IInv
<1>2. CASE ~ \E d \in rows : At(d, e.generation, e.sequence)
  <2>1. /\ rows' = rows \cup {e} /\ appended' = TRUE /\ plan' = plan /\ current' = current
        /\ plan # None /\ ~ appended
    BY <1>2 DEF Append
  <2>2. plan.prefix.generation = current.generation
    BY <1>2, <2>1, FreeCoordinate
  <2>3. PICK n : n = e
    OBVIOUS
  <2>4. /\ n \in Events /\ n.sequence = 1 /\ n.generation # 1
        /\ n.generation = current.generation + 1
        /\ n.previous = None /\ n.prefix = plan.prefix /\ n.prefix # None
    <3>1. plan \in Transactions /\ ValidTransaction(plan) /\ plan.accepted
             /\ plan.action \in Starting
      BY <2>1 DEF IInv, Planned
    <3> QED BY <3>1, <2>2, <2>3, StartingPlan
  <2>5. rows' = rows \cup {n} /\ plan.event = n
    BY <2>1, <2>3
  <2>6. \A c \in rows : c.hash # n.hash
    BY <2>1, <2>3 DEF IInv, Planned
  <2>7. \A c \in rows : ~ At(c, n.generation, n.sequence)
    BY <1>2, <2>3
  <2>8. current.generation \in Positive
    BY DEF IInv, TypeInv, Heads
  <2>9. TypeInv'
    BY <2>1, <2>4, <2>5 DEF IInv, TypeInv
  <2>10. Unique'
    BY <2>5, <2>6, <2>7 DEF IInv, Unique, At
  <2>11. Chained'
    <3> SUFFICES ASSUME NEW c \in rows'
                 PROVE  /\ \A k \in 1..c.sequence : \E b \in rows' : At(b, c.generation, k)
                        /\ IF c.sequence = 1 THEN c.previous = None
                           ELSE \E b \in rows' : /\ At(b, c.generation, c.sequence - 1)
                                                 /\ c.previous = b.hash
      BY DEF Chained
    <3>1. CASE c \in rows
      BY <3>1, <2>5 DEF IInv, Chained
    <3>2. CASE c = n
      BY <3>2, <2>4, <2>5 DEF At
    <3> QED BY <3>1, <3>2, <2>5
  <2>12. Started'
    <3>1. n.prefix.generation = n.generation - 1
      BY <2>2, <2>4, <2>8 DEF Positive
    <3>2. \E d \in rows : n.prefix = PrefixOf(d)
      BY <2>1, <2>4 DEF IInv, Planned
    <3> QED BY <2>4, <2>5, <3>1, <3>2 DEF IInv, Started
  <2>13. Headed'
    <3>1. PICK d \in rows : IsTail(d)
      BY DEF IInv, Headed
    <3>2. d.generation = current.generation /\ d.generation # n.generation
      BY <3>1, <2>4, <2>8 DEF IsTail, HeadOf, Positive
    <3>3. IsTail(d)'
      BY <3>1, <3>2, <2>1, <2>5 DEF IsTail
    <3>4. \A c \in rows' : /\ c.generation <= current.generation + 1
                           /\ c.generation = current.generation + 1 => c.sequence = 1
      BY <2>4, <2>5, <2>8 DEF IInv, Headed, Positive
    <3>5. \A g \in 1..current.generation : \E c \in rows' : c.generation = g
      BY <2>5 DEF IInv, Headed
    <3>6. \E c \in rows' : IsTail(c)'
      BY <3>3, <2>5
    <3> QED BY <3>4, <3>5, <3>6, <2>1 DEF Headed
  <2>14. Planned'
    <3>1. \E d \in rows' : plan.prefix = PrefixOf(d)
      BY <2>1, <2>5 DEF IInv, Planned
    <3> QED BY <2>1, <2>2, <2>5, <3>1 DEF IInv, Planned
  <2> QED BY <2>9, <2>10, <2>11, <2>12, <2>13, <2>14 DEF IInv
<1> QED BY <1>1, <1>2

\* write_task_state moves the head to the start event.
LEMMA WriteStateIInv == ASSUME IInv, WriteState PROVE IInv'
<1>1. /\ plan # None /\ appended /\ current' = plan.state /\ rows' = rows
      /\ plan' = None /\ appended' = FALSE
  BY DEF WriteState
<1>2. PICK n \in rows : n = plan.event
  BY <1>1 DEF IInv, Planned
<1>3. plan.prefix.generation = current.generation
  BY <1>1 DEF IInv, Planned
<1>4. n \in Events /\ n.sequence = 1 /\ n.generation = current.generation + 1
         /\ plan.state = HeadOf(n)
  <2>1. plan \in Transactions /\ ValidTransaction(plan) /\ plan.accepted
           /\ plan.action \in Starting
    BY <1>1 DEF IInv, Planned
  <2> QED BY <2>1, <1>2, <1>3, StartingPlan
<1>5. current'.generation = current.generation + 1 /\ current.generation \in Positive
  BY <1>1, <1>4 DEF HeadOf, IInv, TypeInv, Heads
<1>6. \A c \in rows : c.generation \in Positive /\ c.sequence \in Positive
  BY DEF IInv, TypeInv, Events
<1>7. TypeInv'
  <2>1. HeadOf(n) \in Heads
    BY <1>4 DEF HeadOf, Heads, Events
  <2> QED BY <2>1, <1>1, <1>4 DEF IInv, TypeInv
<1>8. Unique' /\ Chained' /\ Started'
  BY <1>1 DEF IInv, Unique, Chained, Started
<1>9. Headed'
  <2>1. IsTail(n)'
    <3>1. \A c \in rows : c.generation = n.generation => c.sequence <= n.sequence
      BY <1>4, <1>6 DEF IInv, Headed, Positive
    <3> QED BY <3>1, <1>1, <1>4 DEF IsTail
  <2>2. \A c \in rows : c.generation <= current.generation + 1
    BY DEF IInv, Headed
  <2>3. \A c \in rows : /\ c.generation <= current'.generation + 1
                        /\ c.generation # current'.generation + 1
    BY <2>2, <1>5, <1>6 DEF Positive
  <2>4. \A g \in 1..current'.generation : \E c \in rows : c.generation = g
    <3> SUFFICES ASSUME NEW g \in 1..current'.generation
                 PROVE  \E c \in rows : c.generation = g
      OBVIOUS
    <3>1. CASE g = n.generation
      BY <3>1
    <3>2. CASE g # n.generation
      <4>1. g \in 1..current.generation
        BY <3>2, <1>4, <1>5 DEF Positive
      <4> QED BY <4>1 DEF IInv, Headed
    <3> QED BY <3>1, <3>2
  <2>5. \E c \in rows' : IsTail(c)'
    BY <2>1, <1>1
  <2> QED BY <2>3, <2>4, <2>5, <1>1 DEF Headed
<1>10. Planned'
  BY <1>1 DEF Planned
<1> QED BY <1>7, <1>8, <1>9, <1>10 DEF IInv

\* A recovery is taken up again at the start event of the next generation.
LEMMA ResumeIInv == ASSUME IInv, Resume PROVE IInv'
<1>1. PICK t \in Transactions \ {None} :
          /\ ValidTransaction(t) /\ t.accepted /\ t.action \in Starting
          /\ t.event \in rows
          /\ t.event.generation = current.generation + 1
          /\ plan' = t
  BY DEF Resume
<1>2. UNCHANGED <<rows, current>> /\ appended' = TRUE
  BY DEF Resume
<1>3. TypeInv' /\ Unique' /\ Chained' /\ Started'
  BY <1>2 DEF IInv, TypeInv, Unique, Chained, Started
<1>4. Headed'
  BY <1>2 DEF IInv, Headed, IsTail
<1>5. /\ t.event.sequence = 1 /\ t.event.generation # 1
      /\ t.event.generation = t.prefix.generation + 1
      /\ t.event.prefix = t.prefix
  BY <1>1, StartingPlan
<1>6. t.prefix.generation \in Positive /\ current.generation \in Positive
  BY <1>1 DEF Transactions, Prefixes, IInv, TypeInv, Heads
<1>7. t.prefix.generation = current.generation
  BY <1>1, <1>5, <1>6 DEF Positive
<1>8. \E d \in rows : t.prefix = PrefixOf(d)
  BY <1>1, <1>5 DEF IInv, Started
<1>9. t # None /\ t.event \in rows' /\ plan'.prefix.generation = current'.generation
  BY <1>1, <1>2, <1>7
<1>10. t.prefix.generation <= current'.generation
  BY <1>2, <1>6, <1>7 DEF Positive
<1>11. Planned'
  <2>1. \E d \in rows' : t.prefix = PrefixOf(d)
    BY <1>2, <1>8
  <2> QED BY <1>1, <1>2, <1>9, <1>10, <2>1 DEF Planned
<1> QED BY <1>3, <1>4, <1>11 DEF IInv

LEMMA Inductive == ASSUME IInv, [Next]_vars PROVE IInv'
<1>1. ASSUME Abandon PROVE IInv'
  BY <1>1 DEF Abandon, IInv, TypeInv, Unique, Chained, Started, Headed, Planned, IsTail
<1>2. ASSUME UNCHANGED vars PROVE IInv'
  BY <1>2 DEF vars, IInv, TypeInv, Unique, Chained, Started, Headed, Planned, IsTail
<1> QED BY <1>1, <1>2, CommitIInv, PrepareIInv, AppendIInv, WriteStateIInv, ResumeIInv
    DEF Next

LEMMA Invariant == Spec => []IInv
BY InitIInv, Inductive, PTL DEF Spec

-----------------------------------------------------------------------------
(* What the reader finds.                                                  *)

\* A row is where the reader stops when it looks for that row's hash and id.
LEMMA RowEndsChain ==
    ASSUME IInv, NEW e \in rows
    PROVE  ChainEnds(e.generation, e.sequence, e.id, e.hash)
<1>1. e.generation \in Positive /\ e.sequence \in Positive
  BY DEF IInv, TypeInv, Events
<1>2. ASSUME NEW k \in 1..e.sequence
      PROVE  \E d \in rows :
                /\ At(d, e.generation, k)
                /\ IF k = 1 THEN d.previous = None
                   ELSE \E c \in rows : At(c, e.generation, k - 1) /\ d.previous = c.hash
  <2>1. PICK d \in rows : At(d, e.generation, k)
    BY DEF IInv, Chained
  <2> QED BY <2>1 DEF IInv, Chained, At
<1>3. At(e, e.generation, e.sequence)
  BY DEF At
<1>4. \A d \in rows : d.generation = e.generation /\ d.sequence < e.sequence => d.hash # e.hash
  <2> SUFFICES ASSUME NEW d \in rows, d.sequence < e.sequence, d.hash = e.hash
               PROVE  FALSE
    OBVIOUS
  <2>1. d = e
    BY DEF IInv, Unique
  <2> QED BY <2>1, <1>1 DEF Positive
<1> QED BY <1>2, <1>3, <1>4 DEF ChainEnds

\* Every generation up to the current one has its first row.
LEMMA FirstRow ==
    ASSUME IInv, NEW g \in 1..current.generation
    PROVE  \E s \in rows : At(s, g, 1)
<1>1. PICK e \in rows : e.generation = g
  BY DEF IInv, Headed
<1>2. 1 \in 1..e.sequence
  BY DEF IInv, TypeInv, Events, Positive
<1> QED BY <1>1, <1>2 DEF IInv, Chained

LEMMA ReadableFromIInv == ASSUME IInv PROVE LineageReadable
<1>1. PICK tail \in rows : IsTail(tail)
  BY DEF IInv, Headed
<1>2. current.generation \in Positive
  BY DEF IInv, TypeInv, Heads
<1>3. \A d \in rows : /\ d.generation \in Positive /\ d.sequence \in Positive
                      /\ d.prefix \in Prefixes \cup {None}
  BY DEF IInv, TypeInv, Events
<1>4. PICK last : last = current.generation
  OBVIOUS
<1> DEFINE start(g) == CHOOSE s \in rows : At(s, g, 1)
           end(g) == IF g = last THEN tail.sequence ELSE start(g + 1).prefix.sequence
           ends == [g \in 1..last |-> end(g)]
<1>5. \A g \in 1..last : start(g) \in rows /\ At(start(g), g, 1)
  BY <1>4, FirstRow
<1>6. ASSUME NEW g \in 1..last, g # 1
      PROVE  /\ start(g).prefix # None
             /\ start(g).prefix \in Prefixes
             /\ start(g).prefix.generation = g - 1
             /\ \E d \in rows : start(g).prefix = PrefixOf(d)
  <2>1. start(g) \in rows /\ start(g).generation = g /\ start(g).sequence = 1
    BY <1>5 DEF At
  <2> HIDE DEF start
  <2> QED BY <2>1, <1>3, <1>6 DEF IInv, Started
<1>7. start(1).prefix = None
  <2>1. 1 \in 1..last
    BY <1>2, <1>4 DEF Positive
  <2>2. start(1) \in rows /\ start(1).generation = 1 /\ start(1).sequence = 1
    BY <2>1, <1>5 DEF At
  <2> HIDE DEF start
  <2> QED BY <2>2 DEF IInv, Started
<1>8. \A g \in 1..last : end(g) \in Nat
  <2> SUFFICES ASSUME NEW g \in 1..last PROVE end(g) \in Nat
    OBVIOUS
  <2>1. CASE g = last
    BY <2>1, <1>3 DEF Positive
  <2>2. CASE g # last
    <3>1. g + 1 \in 1..last /\ g + 1 # 1
      BY <2>2, <1>2, <1>4 DEF Positive
    <3>2. start(g + 1).prefix \in Prefixes
      BY <3>1, <1>6
    <3> HIDE DEF start
    <3> QED BY <3>2, <2>2 DEF Prefixes, Positive
  <2> QED BY <2>1, <2>2
<1>9. ends \in [1..last -> Nat]
  <2> HIDE DEF end
  <2> QED BY <1>8
<1>10. last \in 1..last
  BY <1>2, <1>4 DEF Positive
<1>11. ends[last] = tail.sequence
  BY <1>10
<1>12. /\ tail.generation = last /\ tail.id = current.id /\ tail.hash = current.hash
       /\ \A d \in rows : d.generation = last => d.sequence <= tail.sequence
  BY <1>1, <1>4 DEF IsTail, HeadOf
<1>13. ends[last] # 0 /\ ChainEnds(last, ends[last], current.id, current.hash)
  <2>1. ChainEnds(last, tail.sequence, current.id, current.hash)
    BY <1>12, RowEndsChain
  <2> QED BY <2>1, <1>3, <1>11 DEF Positive
<1>14. ASSUME NEW g \in 1..last
       PROVE  \E s \in rows :
                 /\ At(s, g, 1)
                 /\ IF s.prefix = None THEN g = 1
                    ELSE /\ s.prefix.generation < g
                         /\ ends[s.prefix.generation] = s.prefix.sequence
                         /\ ChainEnds(s.prefix.generation, s.prefix.sequence,
                                      s.prefix.id, s.prefix.hash)
  <2>1. CASE g = 1
    BY <2>1, <1>5, <1>7
  <2>2. CASE g # 1
    <3>1. PICK s : s = start(g)
      OBVIOUS
    <3>2. s \in rows /\ At(s, g, 1) /\ s.prefix # None /\ s.prefix.generation = g - 1
      BY <3>1, <2>2, <1>5, <1>6
    <3>3. g - 1 \in 1..last /\ g - 1 # last /\ (g - 1) + 1 = g
      BY <2>2, <1>2, <1>4 DEF Positive
    <3>4. ends[g - 1] = s.prefix.sequence
      BY <3>1, <3>3
    <3>5. ChainEnds(s.prefix.generation, s.prefix.sequence, s.prefix.id, s.prefix.hash)
      <4>1. PICK d \in rows : s.prefix = PrefixOf(d)
        BY <3>1, <2>2, <1>6
      <4>2. /\ s.prefix.generation = d.generation /\ s.prefix.sequence = d.sequence
            /\ s.prefix.id = d.id /\ s.prefix.hash = d.hash
        BY <4>1 DEF PrefixOf
      <4> QED BY <4>2, RowEndsChain
    <3>6. s.prefix.generation < g
      BY <3>2, <3>3
    <3> HIDE DEF ends, start
    <3> QED BY <3>2, <3>4, <3>5, <3>6
  <2> QED BY <2>1, <2>2
<1>15. \E f \in [1..last -> Nat] :
          /\ f[last] # 0
          /\ ChainEnds(last, f[last], current.id, current.hash)
          /\ \A d \in rows : d.generation = last => d.sequence <= f[last]
          /\ \A g \in 1..last : f[g] # 0 =>
                \E s \in rows :
                   /\ At(s, g, 1)
                   /\ IF s.prefix = None THEN g = 1
                      ELSE /\ s.prefix.generation < g
                           /\ f[s.prefix.generation] = s.prefix.sequence
                           /\ ChainEnds(s.prefix.generation, s.prefix.sequence,
                                        s.prefix.id, s.prefix.hash)
  <2> HIDE DEF ends
  <2> WITNESS ends \in [1..last -> Nat]
  <2>1. \A d \in rows : d.generation = last => d.sequence <= ends[last]
    BY <1>11, <1>12
  <2> QED BY <2>1, <1>13, <1>14
<1> QED BY <1>4, <1>15 DEF LineageReadable, Readable

\* The reading half of AC-013: from the head of the task's row
\* _trusted_audit_lineage always finds its way back to TASK_CREATED, also after a
\* recovery that died between append_audit_event and write_task_state.
THEOREM LineageAlwaysReadable == Spec => []LineageReadable
<1>1. IInv => LineageReadable
  BY ReadableFromIInv
<1> QED BY <1>1, Invariant, PTL

\* A recovery whose start event append_audit_event has taken goes back to an event
\* of the current generation, whatever its action is called.
THEOREM RollbackNeverLeavesGeneration == Spec => []RollbackStaysInGeneration
<1>1. IInv => RollbackStaysInGeneration
  BY DEF IInv, Planned, RollbackStaysInGeneration
<1> QED BY <1>1, Invariant, PTL

-----------------------------------------------------------------------------
\* append_audit_event refuses every other start event once it has taken one, and
\* write_task_state writes no other head of a new generation: a recovery that died
\* between the two is completed as it was planned, or no generation starts again.
THEOREM FirstStartEventDecides == Spec => StartEventDecides
<1>1. ASSUME IInv, [Next]_vars, NEW o \in rows, o.generation = current.generation + 1
      PROVE  /\ \A e \in rows' : e.generation = o.generation => e = o
             /\ current'.generation = current.generation \/ current' = HeadOf(o)
  <2>1. o.sequence = 1 /\ current.generation \in Positive
    BY <1>1 DEF IInv, Headed, TypeInv, Heads
  <2>2. \A e \in rows : e.generation = o.generation => e = o
    <3> SUFFICES ASSUME NEW e \in rows, e.generation = o.generation PROVE e = o
      OBVIOUS
    <3>1. e.sequence = 1
      BY <1>1 DEF IInv, Headed
    <3> QED BY <1>1, <2>1, <3>1 DEF IInv, Unique, At
  <2>3. ASSUME rows' = rows, current'.generation = current.generation
        PROVE  /\ \A e \in rows' : e.generation = o.generation => e = o
               /\ current'.generation = current.generation \/ current' = HeadOf(o)
    BY <2>2, <2>3
  <2>4. CASE Commit
    <3>1. PICK d \in rows : /\ IsTail(d)
                            /\ \E n : /\ rows' = rows \cup {n}
                                      /\ n.generation = d.generation
                            /\ current'.generation = d.generation
      BY <2>4 DEF Commit, HeadOf
    <3>2. PICK n : rows' = rows \cup {n} /\ n.generation = d.generation
      BY <3>1
    <3>3. d.generation = current.generation /\ n.generation # o.generation
      BY <1>1, <2>1, <3>1, <3>2 DEF IsTail, HeadOf, Positive
    <3> QED BY <2>2, <3>1, <3>2, <3>3
  <2>5. CASE Append
    <3>1. \E d \in rows : At(d, plan.event.generation, plan.event.sequence)
      <4> SUFFICES ASSUME ~ \E d \in rows : At(d, plan.event.generation, plan.event.sequence)
                   PROVE  FALSE
        OBVIOUS
      <4>1. plan # None
        BY <2>5 DEF Append
      <4>2. plan.prefix.generation = current.generation
        BY <1>1, <4>1, FreeCoordinate
      <4>3. plan \in Transactions /\ ValidTransaction(plan) /\ plan.accepted
               /\ plan.action \in Starting
        BY <1>1, <4>1 DEF IInv, Planned
      <4>4. plan.event.sequence = 1 /\ plan.event.generation = current.generation + 1
        BY <4>2, <4>3, StartingPlan
      <4> QED BY <1>1, <2>1, <4>4 DEF At
    <3> QED BY <2>3, <2>5, <3>1 DEF Append
  <2>6. CASE WriteState
    <3>1. /\ plan # None /\ appended /\ rows' = rows /\ current' = plan.state
          /\ plan.event \in rows /\ plan.prefix.generation = current.generation
      BY <1>1, <2>6 DEF WriteState, IInv, Planned
    <3>2. plan \in Transactions /\ ValidTransaction(plan) /\ plan.accepted
             /\ plan.action \in Starting
      BY <1>1, <3>1 DEF IInv, Planned
    <3>3. plan.event.generation = o.generation /\ plan.state = HeadOf(plan.event)
      BY <1>1, <3>1, <3>2, StartingPlan
    <3>4. plan.event = o
      BY <2>2, <3>1, <3>3
    <3> QED BY <2>2, <3>1, <3>3, <3>4
  <2>7. CASE Prepare \/ Abandon \/ Resume \/ UNCHANGED vars
    BY <2>3, <2>7 DEF Prepare, Abandon, Resume, vars
  <2> QED BY <1>1, <2>4, <2>5, <2>6, <2>7 DEF Next
<1>2. ASSUME IInv, [Next]_vars
      PROVE  \A o \in rows : o.generation = current.generation + 1 =>
                /\ \A e \in rows' : e.generation = o.generation => e = o
                /\ current'.generation = current.generation \/ current' = HeadOf(o)
  BY <1>1, <1>2
<1> QED BY <1>2, Invariant, PTL DEF Spec, StartEventDecides

\* What _trusted_audit_lineage returned it returns for ever, but for the events a
\* completed recovery leaves behind in the generation it goes back to.
THEOREM LineageOnlyGrows == Spec => OnlyRecoveryDrops
<1>1. ASSUME IInv, [Next]_vars, NEW e \in rows, InLineage(e)
      PROVE  \/ InLineage(e)'
             \/ /\ appended
                /\ e.generation = plan.prefix.generation
                /\ e.sequence > plan.prefix.sequence
  <2>1. ASSUME rows \subseteq rows', current'.generation = current.generation
        PROVE  InLineage(e)'
    BY <1>1, <2>1 DEF InLineage
  <2>2. CASE Commit
    <3>1. PICK d \in rows : /\ IsTail(d)
                            /\ current'.generation = d.generation
      BY <2>2 DEF Commit, HeadOf
    <3> QED BY <2>1, <2>2, <3>1 DEF Commit, IsTail, HeadOf
  <2>3. CASE Prepare \/ Append \/ Abandon \/ Resume \/ UNCHANGED vars
    BY <2>1, <2>3 DEF Prepare, Append, Abandon, Resume, vars
  <2>4. CASE WriteState
    <3>1. /\ appended /\ rows' = rows /\ current' = plan.state /\ plan # None
          /\ plan.event \in rows /\ plan.prefix.generation = current.generation
      BY <1>1, <2>4 DEF WriteState, IInv, Planned
    <3>2. plan \in Transactions /\ ValidTransaction(plan) /\ plan.accepted
             /\ plan.action \in Starting
      BY <1>1, <3>1 DEF IInv, Planned
    <3>3. /\ plan.event.sequence = 1
          /\ plan.event.generation = current.generation + 1
          /\ plan.event.prefix = plan.prefix
          /\ plan.state = HeadOf(plan.event)
      BY <3>1, <3>2, StartingPlan
    <3>4. current'.generation = current.generation + 1
      BY <3>1, <3>3 DEF HeadOf
    <3>5. current.generation \in Positive /\ e.generation \in Positive /\ e.sequence \in Positive
             /\ plan.prefix.sequence \in Positive
      BY <1>1, <3>2 DEF IInv, TypeInv, Heads, Events, Transactions, Prefixes
    <3>6. CASE e.generation = current.generation
      <4>1. CASE e.sequence <= plan.prefix.sequence
        <5>1. At(plan.event, e.generation + 1, 1)
          BY <3>3, <3>6 DEF At
        <5> QED BY <5>1, <4>1, <3>1, <3>3, <3>4, <3>5, <3>6 DEF InLineage, Positive
      <4>2. CASE e.sequence > plan.prefix.sequence
        BY <4>2, <3>1, <3>6
      <4> QED BY <4>1, <4>2, <3>5 DEF Positive
    <3>7. CASE e.generation # current.generation
      BY <1>1, <3>1, <3>4, <3>5, <3>7 DEF InLineage, Positive
    <3> QED BY <3>6, <3>7
  <2> QED BY <1>1, <2>2, <2>3, <2>4 DEF Next
<1>2. ASSUME IInv, [Next]_vars
      PROVE  \A e \in rows : InLineage(e) =>
                \/ InLineage(e)'
                \/ /\ appended
                   /\ e.generation = plan.prefix.generation
                   /\ e.sequence > plan.prefix.sequence
  BY <1>1, <1>2
<1> QED BY <1>2, Invariant, PTL DEF Spec, OnlyRecoveryDrops

-----------------------------------------------------------------------------
(* The contracts alone.                                                    *)

\* Every accepted rollback that validate_recovery_transaction passes plans an
\* idempotency record, and one that write_idempotency_record_once refuses: the
\* contract fixes a path below recovery-<id>, the store demands rollback-<id>.
THEOREM RollbackRecordUnstorable ==
    ASSUME NEW t \in Transactions, ValidTransaction(t), t.accepted,
           t.action = "rollback_to_valid_prefix"
    PROVE  t.record \in Records /\ ~ StorablePath(t.record)
<1>1. t.record # None
  BY DEF ValidTransaction, FitsMatrix
<1>2. t.record \in Records
  BY <1>1 DEF Transactions
<1>3. t.record = [kind |-> t.kind, path |-> "recovery"] /\ t.kind = "ROLLBACK"
  BY <1>1 DEF ValidTransaction, FitsGraph, OperationKind
<1> QED BY <1>2, <1>3 DEF StorablePath

\* validate_recovery_transaction lets a transaction plan rows exactly when it is an
\* accepted quarantine or rollback; a replay, a classification and whatever is
\* refused claim no new generation.
THEOREM OnlyAcceptedStarts ==
    ASSUME NEW t \in Transactions, ValidTransaction(t)
    PROVE  /\ (t.event # None) <=> (t.accepted /\ t.action \in Starting)
           /\ (t.event # None) <=> (t.state # None)
           /\ t.event = None => t.newGeneration = None /\ t.startedBy = None
           /\ t.failClosed <=> ~ t.accepted
<1>1. /\ (t.event # None) <=> (t.accepted /\ t.action \in Starting)
      /\ (t.event # None) <=> (t.state # None)
  BY DEF ValidTransaction, FitsMatrix
<1>2. t.failClosed <=> ~ t.accepted
  BY DEF ValidTransaction, ValidResult
<1>3. t.event = None => t.newGeneration = None /\ t.startedBy = None
  BY <1>1 DEF ValidTransaction, ValidResult, FitsGraph
<1> QED BY <1>1, <1>2, <1>3
===============================================================================
