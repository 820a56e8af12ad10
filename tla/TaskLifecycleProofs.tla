-------------------------- MODULE TaskLifecycleProofs --------------------------
(***************************************************************************)
(* The invariants of TaskLifecycle, for every set of findings and any      *)
(* number of visits, pauses and events.                                    *)
(*                                                                         *)
(* The argument: judged by where it paused, a task passes from the states  *)
(* before its plan to those in between and on to those after its           *)
(* verification, and never comes back.  So there is one plan and one       *)
(* verification, and every fix is one of the cycle that the gates of       *)
(* INTEGRATING and VERIFIED look at.                                       *)
(***************************************************************************)
EXTENDS TaskLifecycle, WellFoundedInduction, TLAPS

Actors == {RequiredActor(s, t) : s, t \in States} \cup {"ANY"}
EvidenceKinds == {EvidenceKind(s, t) : s, t \in States} \cup {"TASK_INTAKE"}

Events == [from : States, to : States, actor : Actors, kind : EvidenceKinds,
           raised : SUBSET Findings, closed : SUBSET Findings, since : Nat]

Early == {"DRAFT", "READY_FOR_CLASSIFICATION", "CLASSIFIED", "SPEC_READY"}
Unclassified == {"DRAFT", "READY_FOR_CLASSIFICATION"}
Late  == {"VERIFIED", "RC_READY", "CLOSED"}

Evidence == [raised : SUBSET Findings, closed : SUBSET Findings, since : Nat]

\* Where the n-th event's gate judged it from.
Judged(n) ==
    IF lineage[n].from = "WAITING_HUMAN" THEN lineage[n - 1].from ELSE lineage[n].from

\* The lineage is one chain; nothing pauses in a pause; a resume goes where the
\* paused state could go.
Linked ==
    /\ lineage \in Seq(Events) /\ Len(lineage) >= 1
    /\ lineage[1].to = "DRAFT" /\ lineage[1].from = "DRAFT" /\ lineage[1].since = 0
    /\ \A n \in 2..Len(lineage) :
          /\ lineage[n].from = lineage[n - 1].to
          /\ lineage[n].since < n
          /\ lineage[n].to \in Transitions[lineage[n].from]
          /\ lineage[n].from = "WAITING_HUMAN" =>
                lineage[n].to \in Transitions[lineage[n - 1].from]
    /\ asked \in States \cup {None}
    /\ asked = None <=> Current # "WAITING_HUMAN"

\* One plan, before every implementation.
Planned ==
    \/ /\ Entries("PLAN_READY") = {} /\ Entries("IMPLEMENTING") = {}
       /\ Source \in Early \cup {"ABANDONED"}
    \/ /\ Source \notin Early
       /\ \E plan \in Entries("PLAN_READY") :
             /\ Entries("PLAN_READY") = {plan}
             /\ \A n \in Entries("IMPLEMENTING") : plan < n

\* One verification, after everything else.
Verified == Entries("VERIFIED") # {} => Source \in Late

\* An integration closes every finding that was raised before it.
Closing ==
    \A m \in Entries("INTEGRATING"), n \in Entries("FIX_REQUIRED") :
        n < m => lineage[n].raised \subseteq lineage[m].closed

\* The evidence of a fix is of the kind its boundary calls for.
Kinds ==
    \A n \in Entries("FIX_REQUIRED") : lineage[n].kind = EvidenceKind(Judged(n), "FIX_REQUIRED")

\* A release carries the records of the verification.
Stamped ==
    \A n \in Entries("RC_READY") :
        /\ Entries("VERIFIED") # {}
        /\ lineage[n].since = lineage[LastOf(Entries("VERIFIED"))].since

\* One classification, by which the packets of everything after are made.
Classified ==
    \/ /\ Entries("CLASSIFIED") = {}
       /\ Source \in Unclassified \cup {"ABANDONED"}
    \/ Source \notin Unclassified /\ ClassifiedOnce

IInv == edited \in BOOLEAN /\ Linked /\ Classified /\ Planned /\ Verified /\ Closing /\ Kinds /\ Stamped /\ FixesAreClosed /\ VerifiedAfterFix

-----------------------------------------------------------------------------
(* The policy.                                                             *)

\* What the proofs read of config/workflow_policy.yaml.
LEMMA PolicyFacts ==
  /\ {"DRAFT", "WAITING_HUMAN", "PLAN_READY", "IMPLEMENTING", "FIX_REQUIRED", "INTEGRATING",
      "VERIFIED", "RC_READY", "CLOSED", "TASK_REVIEW", "ABANDONED"} \subseteq States
  /\ \A s \in States : Transitions[s] \subseteq States
  BY DEF States, Transitions

\* Nothing pauses in a pause or in an integration; a pause does not end a task.
LEMMA PauseFacts ==
  /\ "WAITING_HUMAN" \notin Transitions["WAITING_HUMAN"]
  /\ "WAITING_HUMAN" \notin Transitions["INTEGRATING"]
  /\ "WAITING_HUMAN" \notin Transitions["DRAFT"]
  /\ "CLOSED" \notin Transitions["WAITING_HUMAN"]
  BY DEF Transitions

\* Only a task with a specification is planned, and none comes back to before.
LEMMA EarlyFacts ==
  /\ \A s \in Early : Transitions[s] \subseteq Early \cup {"PLAN_READY", "WAITING_HUMAN", "ABANDONED"}
  /\ \A s \in States \ (Early \cup {"WAITING_HUMAN"}) :
        Transitions[s] \cap (Early \cup {"PLAN_READY"}) = {}
  /\ Transitions["ABANDONED"] = {}
  BY DEF Transitions, Early, States

\* Only an unclassified task is classified, and none comes back to before.
LEMMA ClassifyFacts ==
  /\ Transitions["DRAFT"] = {"READY_FOR_CLASSIFICATION", "ABANDONED"}
  /\ Transitions["READY_FOR_CLASSIFICATION"] = {"CLASSIFIED", "DRAFT", "ABANDONED"}
  /\ \A s \in States \ (Unclassified \cup {"WAITING_HUMAN"}) :
        Transitions[s] \cap (Unclassified \cup {"CLASSIFIED"}) = {}
  BY DEF Transitions, Unclassified, States

\* What is verified stays so.
LEMMA LateFacts ==
  /\ \A s \in Late : Transitions[s] \subseteq {"RC_READY", "CLOSED", "WAITING_HUMAN"}
  /\ Late \subseteq States
  BY DEF Transitions, Late, States

\* Which actions may enter the states the proofs are about.
LEMMA KindFacts ==
  /\ \A s \in States : EvidenceKind(s, "VERIFIED") = "VERIFIER_RESULT"
  /\ \A s \in States : EvidenceKind(s, "INTEGRATING") \in {"REVIEWER_RESULT", "INTEGRATING_FINDINGS"}
  /\ \A s \in States : EvidenceKind(s, "FIX_REQUIRED")
        \in {"REVIEWER_RESULT", "FIX_REQUIRED_FINDINGS", "VERIFIER_RESULT"}
  /\ \A s \in States \ {"TASK_REVIEW", "INTEGRATING"} :
        EvidenceKind(s, "FIX_REQUIRED") = "FIX_REQUIRED_FINDINGS"
  /\ \A s \in States : EvidenceKind(s, "RC_READY") = "RELEASE_CANDIDATE_MANIFEST"
  /\ EvidenceKind("PLAN_READY", "IMPLEMENTING") = "CODER_HANDOFF"
  /\ EvidenceKind("FIX_REQUIRED", "IMPLEMENTING") = "CODER_REMEDIATION_HANDOFF"
  /\ EvidenceKind("VERIFIED", "CLOSED") = "VERIFIED_CLOSURE_EVIDENCE"
  /\ EvidenceKind("RC_READY", "CLOSED") = "RELEASE_CANDIDATE_MANIFEST"
  /\ \A s \in States : "CLOSED" \in Transitions[s] => s \in {"VERIFIED", "RC_READY"}
  BY DEF EvidenceKind, Transitions, States

-----------------------------------------------------------------------------
(* Positions.                                                              *)

\* LastOf is the last of some positions.
LEMMA LastOfFacts ==
  ASSUME NEW k \in Nat, NEW S \in SUBSET (1..k), S # {}
  PROVE  LastOf(S) \in S /\ \A m \in S : m <= LastOf(S)
<1> DEFINE T == {k - m : m \in S}
<1>1. T \subseteq Nat /\ T # {}
  <2>1. \A m \in S : m \in Nat /\ m <= k /\ k - m \in Nat
    OBVIOUS
  <2>2. QED
    BY <2>1
<1>2. \E x \in T : \A y \in T : ~ (<<y, x>> \in OpToRel(<, Nat))
  BY <1>1, NatLessThanWellFounded, WFMin
<1>3. PICK x \in T : \A y \in T : ~ (y < x)
  BY <1>1, <1>2 DEF OpToRel
<1>4. PICK n \in S : x = k - n
  OBVIOUS
<1>5. ASSUME NEW m \in S
      PROVE  m <= n
  <2>1. ~ (k - m < k - n)
    BY <1>3, <1>4
  <2>2. QED
    BY <2>1
<1>6. QED
  BY <1>5 DEF LastOf

-----------------------------------------------------------------------------
(* Steps.                                                                  *)

\* What every accepted event has in common.
Grows(e) ==
    /\ e \in Events /\ lineage' = Append(lineage, e)
    /\ e.from = Current /\ e.to \in Transitions[Current]
    /\ Current = "WAITING_HUMAN" => e.to \in Transitions[Source]
    /\ e.since <= Len(lineage)
    /\ asked' \in States \cup {None}
    /\ asked' = None <=> e.to # "WAITING_HUMAN"
    /\ edited' \in BOOLEAN /\ (edited' => e.kind \in PacketKinds)
    /\ e.kind = EvidenceKind(Source, e.to) /\ e.actor = RequiredActor(Source, e.to)
    /\ e.to = "INTEGRATING" => Closes(e.closed)
    /\ e.to = "VERIFIED" => Fresh(e.since)
    /\ e.to = "IMPLEMENTING" /\ Source \in {"PLAN_READY", "FIX_REQUIRED"} => HasPlan
    /\ e.to = "IMPLEMENTING" /\ Source = "FIX_REQUIRED" => BlockersKnown
    /\ e.to \in {"RC_READY", "CLOSED"} =>
          /\ Entries("VERIFIED") # {}
          /\ e.since = lineage[LastOf(Entries("VERIFIED"))].since

\* Where a task is judged from is a state that it was in.
LEMMA SourceFacts ==
  ASSUME Linked
  PROVE  /\ Len(lineage) \in Nat /\ Len(lineage) \in 1..Len(lineage)
         /\ Head1 \in Events /\ Current \in States
         /\ Source \in States \ {"WAITING_HUMAN"}
         /\ Current = "WAITING_HUMAN" => Len(lineage) >= 2
         /\ Current # "WAITING_HUMAN" => Source = Current
<1>1. Len(lineage) \in Nat /\ Len(lineage) \in 1..Len(lineage)
  BY DEF Linked
<1>2. Head1 \in Events
  BY <1>1 DEF Linked, Head1
<1>3. Current \in States /\ Head1.from \in States
  BY <1>2 DEF Current, Events
<1>4. ASSUME Current = "WAITING_HUMAN"
      PROVE  Len(lineage) >= 2 /\ Head1.from # "WAITING_HUMAN"
  <2>1. Len(lineage) >= 2
    BY <1>1, <1>4 DEF Linked, Current, Head1
  <2>2. "WAITING_HUMAN" \in Transitions[Head1.from]
    BY <1>1, <1>4, <2>1 DEF Linked, Current, Head1
  <2>3. QED
    BY <2>1, <2>2, PauseFacts
<1>5. QED
  BY <1>1, <1>2, <1>3, <1>4 DEF Source

\* The lineage after the event.
LEMMA GrownFacts ==
  ASSUME Linked, NEW e, Grows(e)
  PROVE  /\ Len(lineage') = Len(lineage) + 1 /\ lineage' \in Seq(Events)
         /\ \A n \in 1..Len(lineage) : lineage'[n] = lineage[n]
         /\ lineage'[Len(lineage) + 1] = e
         /\ \A s : Entries(s) \subseteq 2..Len(lineage)
         /\ \A s : Entries(s)' = IF e.to = s THEN Entries(s) \cup {Len(lineage) + 1}
                                             ELSE Entries(s)
         /\ Current' = e.to
         /\ e.to \in Transitions[Source] /\ e.to \in States /\ e.from \in States
         /\ Source' = IF e.to = "WAITING_HUMAN" THEN Source ELSE e.to
         /\ \A n \in 2..Len(lineage) : Judged(n)' = Judged(n)
         /\ \A n : n = Len(lineage) + 1 => Judged(n)' = Source
<1> DEFINE L == Len(lineage)
<1>1. /\ Len(lineage') = L + 1 /\ lineage' \in Seq(Events)
      /\ \A n \in 1..L : lineage'[n] = lineage[n]
      /\ lineage'[L + 1] = e /\ L \in Nat /\ L >= 1
  BY DEF Grows, Linked
<1>2. \A s : Entries(s) \subseteq 2..L
  BY DEF Entries
<1>3. ASSUME NEW s
      PROVE  Entries(s)' = IF e.to = s THEN Entries(s) \cup {L + 1} ELSE Entries(s)
  <2>1. Entries(s)' = {n \in 2..(L + 1) : lineage'[n].to = s}
    BY <1>1 DEF Entries
  <2>2. 2..(L + 1) = (2..L) \cup {L + 1}
    BY <1>1
  <2>3. QED
    BY <1>1, <2>1, <2>2 DEF Entries
<1>4. Head1' = e /\ Current' = e.to
  BY <1>1 DEF Head1, Current
<1>5. e.to \in Transitions[Source] /\ e.to \in States /\ e.from \in States
  BY SourceFacts DEF Grows, Events
<1>6. e.to = "WAITING_HUMAN" => Current # "WAITING_HUMAN"
  BY PauseFacts DEF Grows
<1>7. Source' = IF e.to = "WAITING_HUMAN" THEN Source ELSE e.to
  BY <1>4, <1>6, SourceFacts DEF Source, Grows
<1>8. ASSUME NEW n \in 2..L
      PROVE  Judged(n)' = Judged(n)
  <2>1. n \in 1..L /\ n - 1 \in 1..L
    BY <1>1
  <2>2. lineage'[n] = lineage[n] /\ lineage'[n - 1] = lineage[n - 1]
    BY <1>1, <2>1
  <2>3. QED
    BY <2>2 DEF Judged
<1>9. ASSUME NEW n, n = L + 1
      PROVE  Judged(n)' = Source
  <2>1. n - 1 = L /\ L \in 1..L
    BY <1>1, <1>9
  <2>2. lineage'[n].from = Current /\ lineage'[n - 1] = Head1
    BY <1>1, <1>9, <2>1 DEF Grows, Head1
  <2>3. QED
    BY <2>2 DEF Judged, Source
<1>10. QED
  BY <1>1, <1>2, <1>3, <1>4, <1>5, <1>7, <1>8, <1>9

\* An entry after the event is an old one, or the event.
LEMMA EntryFacts ==
  ASSUME Linked, NEW e, Grows(e), NEW s, NEW n \in Entries(s)'
  PROVE  /\ n \in Nat /\ n <= Len(lineage) + 1 /\ Len(lineage) \in Nat
         /\ \/ n \in Entries(s) /\ n \in 1..Len(lineage) /\ lineage'[n] = lineage[n]
            \/ n = Len(lineage) + 1 /\ e.to = s /\ lineage'[n] = e
<1>1. CASE n \in Entries(s)
  <2>1. n \in 2..Len(lineage)
    BY <1>1, GrownFacts
  <2>2. n \in 1..Len(lineage)
    BY <2>1, SourceFacts
  <2>3. QED
    BY <1>1, <2>2, GrownFacts, SourceFacts
<1>2. CASE n \notin Entries(s)
  <2>1. n = Len(lineage) + 1 /\ e.to = s
    BY <1>2, GrownFacts
  <2>2. QED
    BY <2>1, GrownFacts, SourceFacts
<1>3. QED
  BY <1>1, <1>2

LEMMA LinkedStep ==
  ASSUME Linked, NEW e, Grows(e)
  PROVE  Linked'
<1>1. /\ Len(lineage') = Len(lineage) + 1 /\ lineage' \in Seq(Events)
      /\ \A n \in 1..Len(lineage) : lineage'[n] = lineage[n]
      /\ lineage'[Len(lineage) + 1] = e /\ Current' = e.to /\ e.to \in States
  BY GrownFacts
<1>2. Len(lineage) \in Nat /\ Len(lineage) >= 1 /\ Len(lineage) \in 1..Len(lineage)
  BY SourceFacts DEF Linked
<1>3. ASSUME NEW n \in 2..Len(lineage')
      PROVE  /\ lineage'[n].from = lineage'[n - 1].to
             /\ lineage'[n].since < n
             /\ lineage'[n].to \in Transitions[lineage'[n].from]
             /\ lineage'[n].from = "WAITING_HUMAN" =>
                   lineage'[n].to \in Transitions[lineage'[n - 1].from]
  <2>1. CASE n \in 2..Len(lineage)
    <3>1. n \in 1..Len(lineage) /\ n - 1 \in 1..Len(lineage)
      BY <1>2, <2>1
    <3>2. lineage'[n] = lineage[n] /\ lineage'[n - 1] = lineage[n - 1]
      BY <1>1, <3>1
    <3>3. QED
      BY <2>1, <3>2 DEF Linked
  <2>2. CASE n = Len(lineage) + 1
    <3>1. lineage'[n] = e /\ lineage'[n - 1] = Head1
      BY <1>1, <1>2, <2>2 DEF Head1
    <3>2. e.since \in Nat
      BY DEF Grows, Events
    <3>3. QED
      BY <1>2, <2>2, <3>1, <3>2 DEF Grows, Current, Source
  <2>3. QED
    BY <1>1, <1>2, <2>1, <2>2
<1>4. QED
  BY <1>1, <1>2, <1>3 DEF Linked, Grows

LEMMA ClassifiedStep ==
  ASSUME Linked, Classified, NEW e, Grows(e)
  PROVE  Classified'
<1>1. /\ \A s : Entries(s) \subseteq 2..Len(lineage)
      /\ \A s : Entries(s)' = IF e.to = s THEN Entries(s) \cup {Len(lineage) + 1}
                                          ELSE Entries(s)
      /\ e.to \in Transitions[Source]
      /\ Source' = IF e.to = "WAITING_HUMAN" THEN Source ELSE e.to
  BY GrownFacts
<1>2. Source \in States \ {"WAITING_HUMAN"}
  BY SourceFacts
<1>3. CASE Entries("CLASSIFIED") = {} /\ Source \in Unclassified \cup {"ABANDONED"}
  <2>1. Source \in Unclassified /\ e.to # "WAITING_HUMAN"
        /\ e.to \in Unclassified \cup {"CLASSIFIED", "ABANDONED"}
    BY <1>1, <1>3, ClassifyFacts, EarlyFacts DEF Unclassified
  <2>2. CASE e.to = "CLASSIFIED"
    <3>1. Entries("CLASSIFIED")' = {Len(lineage) + 1} /\ Source' = "CLASSIFIED"
      BY <1>1, <1>3, <2>2
    <3>2. ClassifiedOnce'
      BY <3>1 DEF ClassifiedOnce
    <3>3. QED
      BY <3>1, <3>2 DEF Classified, Unclassified
  <2>3. CASE e.to # "CLASSIFIED"
    BY <1>1, <1>3, <2>1, <2>3 DEF Classified
  <2>4. QED
    BY <2>2, <2>3
<1>4. CASE Source \notin Unclassified /\ ClassifiedOnce
  <2>1. e.to \notin Unclassified \cup {"CLASSIFIED"}
    BY <1>1, <1>2, <1>4, ClassifyFacts
  <2>2. Source' \notin Unclassified /\ Entries("CLASSIFIED")' = Entries("CLASSIFIED")
    BY <1>1, <1>4, <2>1
  <2>3. ClassifiedOnce'
    BY <1>4, <2>2 DEF ClassifiedOnce
  <2>4. QED
    BY <2>2, <2>3 DEF Classified
<1>5. QED
  BY <1>3, <1>4 DEF Classified

LEMMA PlannedStep ==
  ASSUME Linked, Planned, NEW e, Grows(e)
  PROVE  Planned'
<1>1. /\ \A s : Entries(s) \subseteq 2..Len(lineage)
      /\ \A s : Entries(s)' = IF e.to = s THEN Entries(s) \cup {Len(lineage) + 1}
                                          ELSE Entries(s)
      /\ e.to \in Transitions[Source]
      /\ Source' = IF e.to = "WAITING_HUMAN" THEN Source ELSE e.to
  BY GrownFacts
<1>2. Len(lineage) \in Nat /\ Source \in States \ {"WAITING_HUMAN"}
  BY SourceFacts
<1>3. CASE /\ Entries("PLAN_READY") = {} /\ Entries("IMPLEMENTING") = {}
           /\ Source \in Early \cup {"ABANDONED"}
  <2>1. Source \in Early
        /\ e.to \in Early \cup {"PLAN_READY", "WAITING_HUMAN", "ABANDONED"}
    BY <1>1, <1>3, EarlyFacts
  <2>2. "IMPLEMENTING" \notin Early /\ "PLAN_READY" \notin Early
    BY DEF Early
  <2>3. Entries("IMPLEMENTING")' = {}
    BY <1>1, <1>3, <2>1, <2>2
  <2>4. CASE e.to = "PLAN_READY"
    <3>1. Entries("PLAN_READY")' = {Len(lineage) + 1} /\ Source' = "PLAN_READY"
      BY <1>1, <1>3, <2>4
    <3>2. QED
      BY <2>2, <2>3, <3>1 DEF Planned
  <2>5. CASE e.to # "PLAN_READY"
    <3>1. Entries("PLAN_READY")' = {} /\ Source' \in Early \cup {"ABANDONED"}
      BY <1>1, <1>3, <2>1, <2>5
    <3>2. QED
      BY <2>3, <3>1 DEF Planned
  <2>6. QED
    BY <2>4, <2>5
<1>4. CASE /\ Source \notin Early
           /\ \E plan \in Entries("PLAN_READY") :
                 /\ Entries("PLAN_READY") = {plan}
                 /\ \A n \in Entries("IMPLEMENTING") : plan < n
  <2>1. e.to \notin Early \cup {"PLAN_READY"}
    BY <1>1, <1>2, <1>4, EarlyFacts
  <2>2. Source' \notin Early /\ Entries("PLAN_READY")' = Entries("PLAN_READY")
    BY <1>1, <1>4, <2>1
  <2>3. PICK plan \in Entries("PLAN_READY") :
           /\ Entries("PLAN_READY") = {plan}
           /\ \A n \in Entries("IMPLEMENTING") : plan < n
    BY <1>4
  <2>4. plan < Len(lineage) + 1
    BY <1>1, <1>2
  <2>5. \A n \in Entries("IMPLEMENTING")' : plan < n
    BY <1>1, <2>3, <2>4
  <2>6. QED
    BY <2>2, <2>3, <2>5 DEF Planned
<1>5. QED
  BY <1>3, <1>4 DEF Planned

\* Before the verification, all fixes are fixes of the current cycle.
LEMMA OneCycle ==
  ASSUME Entries("VERIFIED") = {}
  PROVE  FixEvents = Entries("FIX_REQUIRED")
  BY DEF FixEvents, LastOf, Entries

\* What enters INTEGRATING or VERIFIED was not verified before.
LEMMA NotYetVerified ==
  ASSUME Linked, Verified, NEW e, Grows(e), e.to \notin {"RC_READY", "CLOSED", "WAITING_HUMAN"}
  PROVE  Entries("VERIFIED") = {}
  BY GrownFacts, LateFacts DEF Verified

LEMMA VerifiedStep ==
  ASSUME Linked, Verified, NEW e, Grows(e)
  PROVE  Verified'
<1>1. /\ \A s : Entries(s)' = IF e.to = s THEN Entries(s) \cup {Len(lineage) + 1}
                                          ELSE Entries(s)
      /\ e.to \in Transitions[Source]
      /\ Source' = IF e.to = "WAITING_HUMAN" THEN Source ELSE e.to
  BY GrownFacts
<1>2. CASE e.to \in Late
  BY <1>1, <1>2 DEF Verified, Late
<1>3. CASE e.to \notin Late
  <2>1. Entries("VERIFIED")' = Entries("VERIFIED")
    BY <1>1, <1>3 DEF Late
  <2>2. Entries("VERIFIED") # {} => e.to = "WAITING_HUMAN" /\ Source \in Late
    BY <1>1, <1>3, LateFacts DEF Verified, Late
  <2>3. QED
    BY <1>1, <2>1, <2>2 DEF Verified
<1>4. QED
  BY <1>2, <1>3

LEMMA KindsStep ==
  ASSUME Linked, Kinds, NEW e, Grows(e)
  PROVE  Kinds'
<1>1. ASSUME NEW n \in Entries("FIX_REQUIRED")'
      PROVE  lineage'[n].kind = EvidenceKind(Judged(n)', "FIX_REQUIRED")
  <2>1. CASE n \in Entries("FIX_REQUIRED")
    <3>1. n \in 2..Len(lineage) /\ n \in 1..Len(lineage)
      BY <2>1, GrownFacts, SourceFacts
    <3>2. lineage'[n] = lineage[n] /\ Judged(n)' = Judged(n)
      BY <3>1, GrownFacts
    <3>3. QED
      BY <2>1, <3>2 DEF Kinds
  <2>2. CASE n \notin Entries("FIX_REQUIRED")
    <3>1. n = Len(lineage) + 1 /\ e.to = "FIX_REQUIRED"
      BY <1>1, <2>2, GrownFacts
    <3>2. lineage'[n] = e /\ Judged(n)' = Source
      BY <3>1, GrownFacts
    <3>3. QED
      BY <3>1, <3>2 DEF Grows
  <2>3. QED
    BY <2>1, <2>2
<1>2. QED
  BY <1>1 DEF Kinds

\* An integration is accepted with all blockers of its cycle closed.
LEMMA ClosingStep ==
  ASSUME Linked, Verified, Closing, NEW e, Grows(e)
  PROVE  Closing'
<1>1. ASSUME NEW m \in Entries("INTEGRATING")', NEW n \in Entries("FIX_REQUIRED")', n < m
      PROVE  lineage'[n].raised \subseteq lineage'[m].closed
  <2>1. /\ n \in 1..Len(lineage) /\ n \in Entries("FIX_REQUIRED")
        /\ lineage'[n] = lineage[n]
        /\ \/ m \in Entries("INTEGRATING")
           \/ m = Len(lineage) + 1 /\ e.to = "INTEGRATING"
    <3>1. /\ n \in Nat /\ Len(lineage) \in Nat
          /\ \/ n \in Entries("FIX_REQUIRED") /\ n \in 1..Len(lineage) /\ lineage'[n] = lineage[n]
             \/ n = Len(lineage) + 1 /\ e.to = "FIX_REQUIRED"
      BY EntryFacts
    <3>2. /\ m \in Nat /\ Len(lineage) \in Nat
          /\ \/ m \in Entries("INTEGRATING") /\ m \in 1..Len(lineage) /\ lineage'[m] = lineage[m]
             \/ m = Len(lineage) + 1 /\ e.to = "INTEGRATING"
      BY EntryFacts
    <3>3. QED
      BY <1>1, <3>1, <3>2
  <2>2. CASE m \in Entries("INTEGRATING")
    <3>1. lineage'[m] = lineage[m]
      BY <2>2, GrownFacts, SourceFacts
    <3>2. QED
      BY <1>1, <2>1, <2>2, <3>1 DEF Closing
  <2>3. CASE m = Len(lineage) + 1 /\ e.to = "INTEGRATING"
    <3>1. n \in FixEvents
      BY <2>1, <2>3, NotYetVerified, OneCycle
    <3>2. lineage[n].raised \subseteq BlockerIds
      BY <3>1 DEF BlockerIds
    <3>3. QED
      BY <2>1, <2>3, <3>2, GrownFacts DEF Grows, Closes
  <2>4. QED
    BY <2>1, <2>2, <2>3
<1>2. QED
  BY <1>1 DEF Closing

\* A fixed task is verified after an integration of the fix.
LEMMA FixesStep ==
  ASSUME Linked, Verified, Closing, FixesAreClosed, NEW e, Grows(e)
  PROVE  FixesAreClosed'
<1>1. ASSUME NEW v \in Entries("VERIFIED")', NEW n \in Entries("FIX_REQUIRED")', n < v,
             NEW f \in lineage'[n].raised
      PROVE  \E m \in Entries("INTEGRATING")' : n < m /\ m < v /\ f \in lineage'[m].closed
  <2>1. /\ n \in 1..Len(lineage) /\ n \in Entries("FIX_REQUIRED")
        /\ lineage'[n] = lineage[n]
        /\ \/ v \in Entries("VERIFIED")
           \/ v = Len(lineage) + 1 /\ e.to = "VERIFIED"
    <3>1. /\ n \in Nat /\ Len(lineage) \in Nat
          /\ \/ n \in Entries("FIX_REQUIRED") /\ n \in 1..Len(lineage) /\ lineage'[n] = lineage[n]
             \/ n = Len(lineage) + 1 /\ e.to = "FIX_REQUIRED"
      BY EntryFacts
    <3>2. /\ v \in Nat /\ Len(lineage) \in Nat
          /\ \/ v \in Entries("VERIFIED") /\ v \in 1..Len(lineage) /\ lineage'[v] = lineage[v]
             \/ v = Len(lineage) + 1 /\ e.to = "VERIFIED"
      BY EntryFacts
    <3>3. QED
      BY <1>1, <3>1, <3>2
  <2>2. \A m \in Entries("INTEGRATING") :
           m \in Entries("INTEGRATING")' /\ lineage'[m] = lineage[m] /\ m < Len(lineage) + 1
    BY GrownFacts, SourceFacts
  <2>3. CASE v \in Entries("VERIFIED")
    <3>1. PICK m \in Entries("INTEGRATING") : n < m /\ m < v /\ f \in lineage[m].closed
      BY <1>1, <2>1, <2>3 DEF FixesAreClosed
    <3>2. QED
      BY <2>2, <3>1
  <2>4. CASE v = Len(lineage) + 1 /\ e.to = "VERIFIED"
    <3>1. FixEvents = Entries("FIX_REQUIRED")
      BY <2>4, NotYetVerified, OneCycle
    <3>2. PICK m \in Integrations : TRUE
      BY <2>1, <2>4, <3>1 DEF Grows, Fresh
    <3>3. n <= LastOf(FixEvents) /\ LastOf(FixEvents) \in Entries("FIX_REQUIRED")
      <4>1. FixEvents \in SUBSET (1..Len(lineage)) /\ FixEvents # {}
        BY <2>1, <3>1, GrownFacts, SourceFacts
      <4>2. QED
        BY <2>1, <3>1, <4>1, LastOfFacts, SourceFacts
    <3>4. m \in Entries("INTEGRATING") /\ LastOf(FixEvents) < m
      BY <3>2 DEF Integrations
    <3>5. n < m
      BY <2>1, <3>3, <3>4, GrownFacts, SourceFacts
    <3>6. f \in lineage[m].closed
      BY <1>1, <2>1, <3>4, <3>5 DEF Closing
    <3>7. QED
      BY <2>2, <2>4, <3>4, <3>5, <3>6
  <2>5. QED
    BY <2>1, <2>3, <2>4
<1>2. QED
  BY <1>1 DEF FixesAreClosed

\* The oldest record was made after the last integration.
LEMMA FreshStep ==
  ASSUME Linked, Verified, VerifiedAfterFix, NEW e, Grows(e)
  PROVE  VerifiedAfterFix'
<1>1. ASSUME NEW v \in Entries("VERIFIED")', NEW n \in Entries("FIX_REQUIRED")',
             NEW m \in Entries("INTEGRATING")', n < v, m < v
      PROVE  lineage'[v].since >= m
  <2>1. /\ n \in 1..Len(lineage) /\ n \in Entries("FIX_REQUIRED")
        /\ m \in 1..Len(lineage) /\ m \in Entries("INTEGRATING")
        /\ \/ v \in Entries("VERIFIED")
           \/ v = Len(lineage) + 1 /\ e.to = "VERIFIED"
    <3>1. /\ n \in Nat /\ Len(lineage) \in Nat
          /\ \/ n \in Entries("FIX_REQUIRED") /\ n \in 1..Len(lineage) /\ lineage'[n] = lineage[n]
             \/ n = Len(lineage) + 1 /\ e.to = "FIX_REQUIRED"
      BY EntryFacts
    <3>2. /\ m \in Nat /\ Len(lineage) \in Nat
          /\ \/ m \in Entries("INTEGRATING") /\ m \in 1..Len(lineage) /\ lineage'[m] = lineage[m]
             \/ m = Len(lineage) + 1 /\ e.to = "INTEGRATING"
      BY EntryFacts
    <3>3. /\ v \in Nat /\ Len(lineage) \in Nat
          /\ \/ v \in Entries("VERIFIED") /\ v \in 1..Len(lineage) /\ lineage'[v] = lineage[v]
             \/ v = Len(lineage) + 1 /\ e.to = "VERIFIED"
      BY EntryFacts
    <3>4. QED
      BY <1>1, <3>1, <3>2, <3>3
  <2>2. CASE v \in Entries("VERIFIED")
    <3>1. lineage'[v] = lineage[v]
      BY <2>2, GrownFacts, SourceFacts
    <3>2. QED
      BY <1>1, <2>1, <2>2, <3>1 DEF VerifiedAfterFix
  <2>3. CASE v = Len(lineage) + 1 /\ e.to = "VERIFIED"
    <3>1. FixEvents = Entries("FIX_REQUIRED")
      BY <2>3, NotYetVerified, OneCycle
    <3>2. Integrations # {} /\ e.since >= LastOf(Integrations)
      BY <2>1, <2>3, <3>1 DEF Grows, Fresh
    <3>3. LastOf(FixEvents) \in 1..Len(lineage)
      <4>1. FixEvents \in SUBSET (1..Len(lineage)) /\ FixEvents # {}
        BY <2>1, <3>1, GrownFacts, SourceFacts
      <4>2. QED
        BY <4>1, LastOfFacts, SourceFacts
    <3>4. /\ LastOf(Integrations) \in Integrations
          /\ \A k \in Integrations : k <= LastOf(Integrations)
          /\ LastOf(Integrations) \in 1..Len(lineage)
      <4>1. Integrations \in SUBSET (1..Len(lineage))
        BY GrownFacts, SourceFacts DEF Integrations
      <4>2. QED
        BY <3>2, <4>1, LastOfFacts, SourceFacts
    <3>5. m <= LastOf(Integrations)
      <4>1. CASE m > LastOf(FixEvents)
        BY <2>1, <3>4, <4>1 DEF Integrations
      <4>2. CASE ~ (m > LastOf(FixEvents))
        <5>1. LastOf(FixEvents) < LastOf(Integrations)
          BY <3>3, <3>4 DEF Integrations
        <5>2. QED
          BY <2>1, <3>3, <3>4, <4>2, <5>1
      <4>3. QED
        BY <4>1, <4>2
    <3>6. lineage'[v] = e /\ e.since \in Nat
      BY <2>3, GrownFacts DEF Grows, Events
    <3>7. QED
      BY <2>1, <3>2, <3>4, <3>5, <3>6
  <2>4. QED
    BY <2>1, <2>2, <2>3
<1>2. QED
  BY <1>1 DEF VerifiedAfterFix

\* The verification is not repeated after a release.
LEMMA StampedStep ==
  ASSUME Linked, Verified, Stamped, NEW e, Grows(e)
  PROVE  Stamped'
<1>1. ASSUME NEW n \in Entries("RC_READY")'
      PROVE  /\ Entries("VERIFIED")' # {}
             /\ lineage'[n].since = lineage'[LastOf(Entries("VERIFIED")')].since
  <2>1. \/ n \in Entries("RC_READY") /\ lineage'[n] = lineage[n]
        \/ e.to = "RC_READY" /\ lineage'[n] = e
    BY EntryFacts
  <2>2. /\ Entries("VERIFIED") # {}
        /\ lineage'[n].since = lineage[LastOf(Entries("VERIFIED"))].since
    BY <2>1 DEF Stamped, Grows
  <2>3. e.to # "VERIFIED"
    BY <2>2, NotYetVerified
  <2>4. Entries("VERIFIED")' = Entries("VERIFIED")
    BY <2>3, GrownFacts
  <2>5. Entries("VERIFIED") \in SUBSET (1..Len(lineage))
    BY GrownFacts, SourceFacts
  <2>6. LastOf(Entries("VERIFIED")) \in 1..Len(lineage)
    BY <2>2, <2>5, LastOfFacts, SourceFacts
  <2>7. QED
    BY <2>2, <2>4, <2>6, GrownFacts
<1>2. QED
  BY <1>1 DEF Stamped, LastOf

\* Every accepted event keeps the invariant.
LEMMA GrowStep ==
  ASSUME IInv, NEW e, Grows(e)
  PROVE  IInv'
  BY LinkedStep, ClassifiedStep, PlannedStep, VerifiedStep, ClosingStep, KindsStep, StampedStep, FixesStep, FreshStep
     DEF IInv, Grows

-----------------------------------------------------------------------------
(* Actions.                                                                *)

LEMMA InitHolds == Init => IInv
<1> SUFFICES ASSUME Init PROVE IInv
  OBVIOUS
<1> DEFINE first == Event("DRAFT", "DRAFT", "ANY", "TASK_INTAKE", NoEvidence)
<1>1. first \in Events /\ first.to = "DRAFT" /\ first.from = "DRAFT" /\ first.since = 0
  BY PolicyFacts DEF Events, Actors, EvidenceKinds, Event, NoEvidence
<1>2. lineage = <<first>> /\ Len(lineage) = 1 /\ lineage[1] = first /\ lineage \in Seq(Events)
  BY <1>1 DEF Init
<1>3. Head1 = first /\ Current = "DRAFT" /\ Source = "DRAFT"
  BY <1>1, <1>2 DEF Head1, Current, Source
<1>4. \A s : Entries(s) = {}
  BY <1>2 DEF Entries
<1>5. Linked
  BY <1>1, <1>2, <1>3 DEF Linked, Init
<1>6. Planned
  BY <1>3, <1>4 DEF Planned, Early
<1>7. Classified /\ edited \in BOOLEAN
  BY <1>3, <1>4 DEF Classified, Unclassified, Init
<1>8. QED
  BY <1>4, <1>5, <1>6, <1>7
     DEF IInv, Verified, Closing, Kinds, Stamped, FixesAreClosed, VerifiedAfterFix

\* An accepted transition with the evidence its gate looked at.
LEMMA AcceptStep ==
  ASSUME IInv, NEW to, NEW evidence \in Evidence, Accept(to, evidence),
         evidence.since <= Len(lineage),
         to = "INTEGRATING" => Closes(evidence.closed),
         to = "VERIFIED" => Fresh(evidence.since),
         to = "IMPLEMENTING" /\ Source \in {"PLAN_READY", "FIX_REQUIRED"} => HasPlan,
         to = "IMPLEMENTING" /\ Source = "FIX_REQUIRED" => BlockersKnown,
         to \in {"RC_READY", "CLOSED"} =>
            /\ Entries("VERIFIED") # {}
            /\ evidence.since = lineage[LastOf(Entries("VERIFIED"))].since
  PROVE  \E e : Grows(e)
<1> DEFINE e == Event(Current, to, RequiredActor(Source, to), EvidenceKind(Source, to), evidence)
<1>1. /\ to \in Transitions[Current] /\ to # "WAITING_HUMAN"
      /\ Current = "WAITING_HUMAN" => to \in Transitions[Source]
      /\ lineage' = Append(lineage, e) /\ asked' = None
  BY DEF Accept, Allowed, Answered
<1>2. Current \in States /\ Source \in States /\ to \in States
  BY <1>1, SourceFacts, PolicyFacts DEF IInv
<1>3. e \in Events
  BY <1>2 DEF Events, Actors, EvidenceKinds, Event, Evidence
<1>4. /\ e.from = Current /\ e.to = to /\ e.closed = evidence.closed /\ e.since = evidence.since
      /\ e.kind = EvidenceKind(Source, to) /\ e.actor = RequiredActor(Source, to)
  BY DEF Event
<1>5. edited' \in BOOLEAN /\ (edited' => e.kind \in PacketKinds)
  BY <1>4 DEF Accept
<1>7. Grows(e)
  BY <1>1, <1>3, <1>4, <1>5 DEF Grows
<1>8. QED
  BY <1>7

\* NoEvidence is evidence.
LEMMA NoEvidenceFacts ==
  ASSUME Linked
  PROVE  NoEvidence \in Evidence /\ NoEvidence.since <= Len(lineage)
  BY SourceFacts DEF NoEvidence, Evidence

LEMMA PauseStep ==
  ASSUME IInv, NEW to \in States, Pause(to)
  PROVE  \E e : Grows(e)
<1> DEFINE e == Event(Current, "WAITING_HUMAN", "ANY", EvidenceKind(Source, "WAITING_HUMAN"),
                      NoEvidence)
<1>1. /\ "WAITING_HUMAN" \in Transitions[Current] /\ lineage' = Append(lineage, e)
      /\ asked' = to /\ edited' = FALSE
  BY DEF Pause
<1>2. Current \in States /\ Source \in States /\ Current # "WAITING_HUMAN" /\ Source = Current
  BY <1>1, SourceFacts, PauseFacts DEF IInv
<1>3. e \in Events
  BY <1>2, PolicyFacts, NoEvidenceFacts DEF IInv, Events, Actors, EvidenceKinds, Event, Evidence
<1>4. RequiredActor(Source, "WAITING_HUMAN") = "ANY"
  BY DEF RequiredActor
<1>5. /\ e.from = Current /\ e.to = "WAITING_HUMAN" /\ e.since <= Len(lineage)
      /\ e.kind = EvidenceKind(Source, "WAITING_HUMAN") /\ e.actor = "ANY"
  BY NoEvidenceFacts DEF Event, IInv
<1>6. asked' \in States \cup {None} /\ asked' # None
  BY <1>1, TaskLifecycleAssumption
<1>7. Grows(e)
  BY <1>1, <1>2, <1>3, <1>4, <1>5, <1>6 DEF Grows
<1>8. QED
  BY <1>7

\* Evidence that names no finding enters none of the gated states.
LEMMA MoveStep ==
  ASSUME IInv, NEW to \in States, Move(to)
  PROVE  \E e : Grows(e)
<1>1. /\ Accept(to, NoEvidence)
      /\ EvidenceKind(Source, to) \in {"GENERIC_EVIDENCE", "PLANNER_RESULT", "CODER_RESULT"}
  BY DEF Move
<1>2. Source \in States /\ NoEvidence \in Evidence /\ NoEvidence.since <= Len(lineage)
  BY SourceFacts, NoEvidenceFacts DEF IInv
<1>3. to \notin {"INTEGRATING", "VERIFIED", "RC_READY"}
  BY <1>1, <1>2, KindFacts
<1>4. to = "IMPLEMENTING" => Source \notin {"PLAN_READY", "FIX_REQUIRED"}
  BY <1>1, KindFacts
<1>5. to # "CLOSED"
  <2>1. to \in Transitions[Source]
    BY <1>1, SourceFacts DEF Accept, Allowed, IInv
  <2>2. QED
    BY <1>1, <1>2, <2>1, KindFacts
<1>6. QED
  BY <1>1, <1>2, <1>3, <1>4, <1>5, AcceptStep

LEMMA NextStep ==
  ASSUME IInv, Next
  PROVE  \E e : Grows(e)
<1>1. /\ Linked /\ Len(lineage) \in Nat /\ NoEvidence \in Evidence
      /\ NoEvidence.since <= Len(lineage)
  BY SourceFacts, NoEvidenceFacts DEF IInv
<1>2. ASSUME NEW to \in States, Move(to)
      PROVE  \E e : Grows(e)
  BY <1>2, MoveStep
<1>3. ASSUME NEW to \in States, Release(to)
      PROVE  \E e : Grows(e)
  <2> DEFINE evidence == [NoEvidence EXCEPT
                             !.since = lineage[LastOf(Entries("VERIFIED"))].since]
  <2>1. /\ to \in {"RC_READY", "CLOSED"} /\ Entries("VERIFIED") # {} /\ Accept(to, evidence)
    BY <1>3 DEF Release
  <2>2. Entries("VERIFIED") \in SUBSET (1..Len(lineage))
    BY <1>1 DEF Entries
  <2>3. LastOf(Entries("VERIFIED")) \in Entries("VERIFIED")
    BY <1>1, <2>1, <2>2, LastOfFacts
  <2>4. /\ lineage[LastOf(Entries("VERIFIED"))].since \in Nat
        /\ lineage[LastOf(Entries("VERIFIED"))].since <= Len(lineage)
    <3>1. PICK k \in 2..Len(lineage) : k = LastOf(Entries("VERIFIED"))
      BY <2>3 DEF Entries
    <3>2. lineage[k] \in Events /\ lineage[k].since < k
      BY <1>1 DEF Linked
    <3>3. lineage[k].since \in Nat
      BY <3>2 DEF Events
    <3>4. QED
      BY <1>1, <3>1, <3>2, <3>3
  <2>5. /\ evidence \in Evidence /\ evidence.since <= Len(lineage)
        /\ evidence.since = lineage[LastOf(Entries("VERIFIED"))].since
    BY <2>4 DEF Evidence, NoEvidence
  <2>6. QED
    BY <2>1, <2>5, AcceptStep
<1>4. ASSUME NEW to \in States, Pause(to)
      PROVE  \E e : Grows(e)
  BY <1>4, PauseStep
<1>5. CASE HandOver
  <2>1. HasPlan
    <3>1. lineage # <<>> /\ Len(lineage) \in 1..Len(lineage)
      BY <1>1 DEF Linked
    <3>2. QED
      BY <1>1, <1>5, <3>1 DEF HandOver, PlanIsLatest, HasPlan, Head1
  <2>2. QED
    BY <1>1, <1>5, <2>1, AcceptStep DEF HandOver
<1>6. CASE Remediate
  BY <1>1, <1>6, AcceptStep DEF Remediate
<1>7. ASSUME NEW found \in SUBSET Findings, RequireFix(found)
      PROVE  \E e : Grows(e)
  <2> DEFINE evidence == [NoEvidence EXCEPT !.raised = found]
  <2>1. evidence \in Evidence /\ evidence.since <= Len(lineage)
    BY <1>1 DEF Evidence, NoEvidence
  <2>2. QED
    BY <1>7, <2>1, AcceptStep DEF RequireFix
<1>8. ASSUME NEW closed \in SUBSET Findings, Integrate(closed)
      PROVE  \E e : Grows(e)
  <2> DEFINE evidence == [NoEvidence EXCEPT !.closed = closed]
  <2>1. evidence \in Evidence /\ evidence.since <= Len(lineage) /\ evidence.closed = closed
    BY <1>1 DEF Evidence, NoEvidence
  <2>2. QED
    BY <1>8, <2>1, AcceptStep DEF Integrate
<1>9. CASE FailVerification
  BY <1>1, <1>9, AcceptStep DEF FailVerification
<1>10. ASSUME NEW t \in 1..Len(lineage), Verify(t)
       PROVE  \E e : Grows(e)
  <2> DEFINE evidence == [NoEvidence EXCEPT !.since = t]
  <2>1. evidence \in Evidence /\ evidence.since <= Len(lineage) /\ evidence.since = t
    BY <1>1 DEF Evidence, NoEvidence
  <2>2. QED
    BY <1>10, <2>1, AcceptStep DEF Verify
<1>11. QED
  BY <1>2, <1>3, <1>4, <1>5, <1>6, <1>7, <1>8, <1>9, <1>10 DEF Next

-----------------------------------------------------------------------------
(* Verifying the tail.                                                     *)

\* An accepted event verifies as the tail of its lineage.
LEMMA TailStep ==
  ASSUME IInv, NEW e, Grows(e)
  PROVE  EveryCommitVerifies'
<1>1. /\ Head1' = e /\ Len(lineage') = Len(lineage) + 1 /\ Linked /\ Len(lineage) \in Nat
      /\ lineage'[Len(lineage)] = Head1
  BY GrownFacts, SourceFacts DEF Head1, IInv
<1>2. \A n \in 1..Len(lineage) : lineage'[n] = lineage[n]
  BY <1>1, GrownFacts
<1>3. JudgedFrom(e)' = Source /\ (Resumed(e)' <=> Current = "WAITING_HUMAN")
  <2>1. Len(lineage') - 1 = Len(lineage)
    BY <1>1
  <2>2. QED
    BY <1>1, <2>1 DEF JudgedFrom, Resumed, Source, Grows
<1>4. ResumeLegal(e)' \/ ~ Resumed(e)'
  <2>1. Len(lineage') - 1 = Len(lineage)
    BY <1>1
  <2>2. QED
    BY <1>1, <1>3, <2>1 DEF ResumeLegal, Grows, Current
<1>5. /\ e.actor = RequiredActor(Source, e.to) /\ e.kind = EvidenceKind(Source, e.to)
  BY DEF Grows
<1>6. e.to # "FIX_REQUIRED" /\ e.to # "VERIFIED" =>
         /\ FixEvents' = FixEvents /\ FixEvents \subseteq 1..Len(lineage)
  BY <1>1, GrownFacts, SourceFacts DEF FixEvents
<1>7. e.to # "FIX_REQUIRED" /\ e.to # "VERIFIED" =>
         /\ BlockersKnown => BlockersKnown'
         /\ BlockerIds' = BlockerIds
  BY <1>2, <1>6 DEF BlockersKnown, BlockerIds
<1>8. <<Source, e.to>> \in HandoffEdges => HandoffVerifies(e)'
  <2> SUFFICES ASSUME <<Source, e.to>> \in HandoffEdges PROVE HandoffVerifies(e)'
    OBVIOUS
  <2>1. e.to = "IMPLEMENTING" /\ Source \in {"PLAN_READY", "FIX_REQUIRED"}
    BY DEF HandoffEdges
  <2>2. HasPlan'
    BY <1>1, <1>2, <2>1 DEF HasPlan, Grows
  <2>3. Source = "FIX_REQUIRED" => BlockersKnown'
    BY <1>7, <2>1 DEF Grows
  <2>4. QED
    BY <1>3, <2>2, <2>3 DEF HandoffVerifies
<1>9. e.to \in {"RC_READY", "CLOSED"} => ManifestVerifies(e)'
  <2> SUFFICES ASSUME e.to \in {"RC_READY", "CLOSED"} PROVE ManifestVerifies(e)'
    OBVIOUS
  <2>1. Entries("VERIFIED")' = Entries("VERIFIED")
        /\ Entries("VERIFIED") \in SUBSET (1..Len(lineage))
    BY <1>1, GrownFacts, SourceFacts
  <2>2. LastOf(Entries("VERIFIED")) \in 1..Len(lineage)
    BY <1>1, <2>1, LastOfFacts DEF Grows
  <2>3. lineage'[LastOf(Entries("VERIFIED")')] = lineage[LastOf(Entries("VERIFIED"))]
    BY <1>2, <2>1, <2>2
  <2>4. QED
    BY <2>3 DEF ManifestVerifies, Grows, LastOf
<1>10. ASSUME NEW k \in Entries("VERIFIED")', e.to # "FIX_REQUIRED",
              \A n \in Entries("FIX_REQUIRED") : n < k
       PROVE  FixEvents' = {}
  <2>1. Entries("VERIFIED")' \in SUBSET (1..(Len(lineage) + 1))
    BY <1>1, GrownFacts
  <2>2. k <= LastOf(Entries("VERIFIED")') /\ LastOf(Entries("VERIFIED")') \in Nat /\ k \in Nat
    <3>1. Len(lineage) + 1 \in Nat /\ k \in 1..(Len(lineage) + 1) /\ Entries("VERIFIED")' # {}
      BY <1>1, <1>10, <2>1
    <3>2. /\ LastOf(Entries("VERIFIED")') \in Entries("VERIFIED")'
          /\ \A m \in Entries("VERIFIED")' : m <= LastOf(Entries("VERIFIED")')
      BY <2>1, <3>1, LastOfFacts
    <3>3. QED
      BY <1>10, <2>1, <3>1, <3>2
  <2>3. Entries("FIX_REQUIRED")' = Entries("FIX_REQUIRED")
        /\ Entries("FIX_REQUIRED") \subseteq Nat
    BY <1>1, <1>10, GrownFacts
  <2>4. LastOf(Entries("VERIFIED"))' = LastOf(Entries("VERIFIED")')
    BY DEF LastOf
  <2>5. \A n \in Entries("FIX_REQUIRED")' : ~ (n > LastOf(Entries("VERIFIED"))')
    BY <1>10, <2>2, <2>3, <2>4
  <2>6. QED
    BY <2>5 DEF FixEvents
<1>11. e.to = "CLOSED" => ClosureVerifies(e)'
  <2> SUFFICES ASSUME e.to = "CLOSED" PROVE ClosureVerifies(e)'
    OBVIOUS
  <2>1. e.from = Current /\ Current = Source /\ Source \in {"VERIFIED", "RC_READY"}
    BY <1>1, SourceFacts, PauseFacts, KindFacts DEF Grows
  <2>2. Len(lineage) \in Entries(Current) /\ Entries(Current) \in SUBSET (1..Len(lineage))
    BY <1>1, <2>1, SourceFacts DEF Entries, Current, Head1, Linked
  <2>3. CASE e.from = "VERIFIED"
    <3>1. Len(lineage) \in Entries("VERIFIED")'
      BY <1>1, <2>1, <2>2, <2>3, GrownFacts
    <3>2. \A n \in Entries("FIX_REQUIRED") : n < Len(lineage)
      BY <1>1, <2>1, <2>3 DEF Entries, Current, Head1
    <3>3. FixEvents' = {}
      BY <1>10, <3>1, <3>2
    <3>4. QED
      BY <1>9, <2>3, <3>3 DEF ClosureVerifies, Fresh
  <2>4. CASE e.from = "RC_READY"
    <3>1. LastOf(Entries("RC_READY")) \in Entries("RC_READY")
      BY <1>1, <2>1, <2>2, <2>4, LastOfFacts
    <3>2. e.since = lineage[LastOf(Entries("RC_READY"))].since
      BY <3>1 DEF Grows, Stamped, IInv
    <3>3. LastOf(Entries("RC_READY")) \in 1..Len(lineage)
      BY <2>1, <2>2, <2>4, <3>1
    <3>4. Entries("RC_READY")' = Entries("RC_READY")
      BY <1>1, GrownFacts
    <3>5. e.since = lineage'[LastOf(Entries("RC_READY")')].since
      BY <1>2, <3>2, <3>3, <3>4
    <3>6. QED
      BY <1>9, <2>4, <3>5 DEF ClosureVerifies, LastOf
  <2>5. QED
    BY <2>1, <2>3, <2>4
<1>12. GatePasses(e)'
  <2>1. e.to = "INTEGRATING" => Closes(e.closed)'
    BY <1>7 DEF Closes, Grows
  <2>2. CASE e.to = "VERIFIED"
    <3>1. PICK k : k = Len(lineage) + 1
      OBVIOUS
    <3>2. k \in Entries("VERIFIED")' /\ \A n \in Entries("FIX_REQUIRED") : n < k
      BY <1>1, <2>2, <3>1, GrownFacts
    <3>3. FixEvents' = {}
      BY <1>10, <2>2, <3>2
    <3>4. QED
      BY <2>2, <3>3 DEF GatePasses, Fresh
  <2>3. QED
    BY <2>1, <2>2 DEF GatePasses
<1>13. <<Source, e.to>> \in ResultEdges => ClassifiedOnce'
  <2> SUFFICES ASSUME <<Source, e.to>> \in ResultEdges PROVE ClassifiedOnce'
    OBVIOUS
  <2>1. e.to \notin Unclassified \cup {"ABANDONED", "WAITING_HUMAN"}
    BY DEF ResultEdges, Unclassified
  <2>2. Classified' /\ Source' = e.to
    BY <2>1, ClassifiedStep, GrownFacts DEF IInv
  <2>3. QED
    BY <2>1, <2>2 DEF Classified
<1>14. <<Source, e.to>> \in HandoffEdges \cup ReleaseEdges => edited' = FALSE
  <2> SUFFICES ASSUME <<Source, e.to>> \in HandoffEdges \cup ReleaseEdges PROVE edited' = FALSE
    OBVIOUS
  <2>1. Source \in States
    BY SourceFacts DEF IInv
  <2>2. e.kind \in {"CODER_HANDOFF", "CODER_REMEDIATION_HANDOFF", "RELEASE_CANDIDATE_MANIFEST",
                    "VERIFIED_CLOSURE_EVIDENCE"}
    BY <1>5, <2>1, KindFacts DEF HandoffEdges, ReleaseEdges
  <2>3. QED
    BY <2>2 DEF Grows, PacketKinds
<1>15. CASE Resumed(e)'
  <2>1. ResultVerifies(e)'
    BY <1>12, <1>15 DEF ResultVerifies
  <2>2. CommitVerifies'
    BY <1>1, <1>3, <1>4, <1>5, <1>8, <1>9, <1>11, <1>15, <2>1 DEF CommitVerifies
  <2>3. QED
    BY <1>1, <1>15, <2>2 DEF EveryCommitVerifies
<1>16. CASE ~ Resumed(e)'
  <2> SUFFICES ASSUME Verifiable' PROVE CommitVerifies' <=> ~ edited'
    BY <1>1, <1>16 DEF EveryCommitVerifies
  <2>1. Source = e.from /\ <<Source, e.to>> \in ResultEdges \cup HandoffEdges \cup ReleaseEdges
    BY <1>1, <1>3, <1>16, SourceFacts DEF Verifiable, Grows, IInv
  <2>2. CASE <<Source, e.to>> \in ResultEdges
    <3>1. /\ <<Source, e.to>> \notin HandoffEdges /\ e.to \notin {"RC_READY", "CLOSED"}
          /\ ResultVerifies(e)' <=> ~ edited'
      BY <1>12, <1>13, <1>16, <2>2 DEF ResultVerifies, ResultEdges, HandoffEdges
    <3>2. QED
      BY <1>1, <1>3, <1>5, <1>16, <3>1 DEF CommitVerifies
  <2>3. CASE <<Source, e.to>> \in HandoffEdges \cup ReleaseEdges
    <3>1. <<Source, e.to>> \in HandoffEdges \/ e.to \in {"RC_READY", "CLOSED"}
      BY <2>3 DEF ReleaseEdges
    <3>2. CommitVerifies'
      BY <1>1, <1>3, <1>5, <1>8, <1>9, <1>11, <1>16, <3>1 DEF CommitVerifies
    <3>3. QED
      BY <1>14, <2>3, <3>2
  <2>4. QED
    BY <2>1, <2>2, <2>3
<1>17. QED
  BY <1>15, <1>16

-----------------------------------------------------------------------------
(* Theorems.                                                               *)

LEMMA StepHolds == IInv /\ EveryCommitVerifies /\ [Next]_vars => IInv' /\ EveryCommitVerifies'
<1>1. IInv /\ Next => IInv' /\ EveryCommitVerifies'
  BY NextStep, GrowStep, TailStep
<1>2. IInv /\ EveryCommitVerifies /\ UNCHANGED vars => IInv' /\ EveryCommitVerifies'
  <2> SUFFICES ASSUME IInv /\ EveryCommitVerifies, UNCHANGED vars
               PROVE  IInv' /\ EveryCommitVerifies'
    OBVIOUS
  <2>1. lineage' = lineage /\ asked' = asked /\ edited' = edited
    BY DEF vars
  <2>2. /\ Head1' = Head1 /\ Current' = Current /\ Source' = Source
        /\ \A s : Entries(s)' = Entries(s)
        /\ \A n : Judged(n)' = Judged(n)
    BY <2>1 DEF Head1, Current, Source, Entries, Judged
  <2>3. /\ FixEvents' = FixEvents /\ Integrations' = Integrations
        /\ BlockersKnown' = BlockersKnown /\ BlockerIds' = BlockerIds /\ HasPlan' = HasPlan
        /\ ClassifiedOnce' = ClassifiedOnce
        /\ \A t : Fresh(t)' = Fresh(t)
    BY <2>1, <2>2 DEF FixEvents, Integrations, BlockersKnown, BlockerIds, HasPlan, Fresh,
                      ClassifiedOnce
  <2>4. IInv'
    BY <2>1, <2>2, <2>3 DEF IInv, Linked, Classified, Planned, Verified, Closing, Kinds, Stamped,
                      FixesAreClosed, VerifiedAfterFix
  <2>5. EveryCommitVerifies'
    <3>1. \A e : /\ ResumeLegal(e)' <=> ResumeLegal(e)
                 /\ JudgedFrom(e)' = JudgedFrom(e)
                 /\ Resumed(e)' <=> Resumed(e)
      BY <2>1 DEF ResumeLegal, JudgedFrom, Resumed
    <3>2. Verifiable' <=> Verifiable
      BY <2>2, <3>1 DEF Verifiable, HasSnapshots
    <3>3. \A e : ManifestVerifies(e)' <=> ManifestVerifies(e)
      BY <2>1, <2>2 DEF ManifestVerifies, LastOf
    <3>4. \A e : /\ HandoffVerifies(e)' <=> HandoffVerifies(e)
                 /\ ResultVerifies(e)' <=> ResultVerifies(e)
      BY <2>1, <2>3, <3>1 DEF HandoffVerifies, ResultVerifies, GatePasses, Closes
    <3>5. \A e : ClosureVerifies(e)' <=> ClosureVerifies(e)
      BY <2>1, <2>2, <2>3, <3>3 DEF ClosureVerifies, LastOf
    <3>6. Head1' = Head1 /\ (CommitVerifies <=> CommitVerifies')
      BY <2>2, <3>1, <3>3, <3>4, <3>5 DEF CommitVerifies
    <3>7. QED
      BY <2>1, <2>2, <3>1, <3>2, <3>6 DEF EveryCommitVerifies
  <2>6. QED
    BY <2>4, <2>5
<1>3. QED
  BY <1>1, <1>2

LEMMA Inductive == Spec => [](IInv /\ EveryCommitVerifies)
<1>1. Init => EveryCommitVerifies
  <2> SUFFICES ASSUME Init PROVE ~ Verifiable
    BY DEF EveryCommitVerifies
  <2>1. Head1.from = "DRAFT" /\ Head1.to = "DRAFT"
    BY DEF Init, Head1, Event
  <2>2. QED
    BY <2>1 DEF Verifiable, Resumed, ResultEdges, HandoffEdges, ReleaseEdges
<1>2. QED
  BY <1>1, InitHolds, StepHolds, PTL DEF Spec

\* Every event is well formed and begins where the one before ended.
THEOREM TypeCorrect == Spec => []TypeOK
<1>1. IInv => TypeOK
  <2> SUFFICES ASSUME IInv PROVE TypeOK
    OBVIOUS
  <2>1. ASSUME NEW n \in 1..Len(lineage)
        PROVE  /\ {lineage[n].from, lineage[n].to} \subseteq States
               /\ lineage[n].raised \subseteq Findings
               /\ lineage[n].closed \subseteq Findings
               /\ lineage[n].since \in 0..(n - 1)
               /\ n > 1 => lineage[n].from = lineage[n - 1].to
    <3>1. Len(lineage) \in Nat /\ lineage[n] \in Events /\ (n = 1 \/ n \in 2..Len(lineage))
      BY SourceFacts DEF IInv, Linked
    <3>2. lineage[n].since \in Nat /\ lineage[n].since < n
      BY <3>1 DEF IInv, Linked, Events
    <3>3. QED
      BY <3>1, <3>2 DEF IInv, Linked, Events
  <2>2. QED
    BY <2>1 DEF IInv, Linked, TypeOK
<1>2. QED
  BY <1>1, Inductive, PTL

\* A task is planned exactly once before any coder works on it.
THEOREM PlannedOnce == Spec => []PlanIsFrozen
<1>1. IInv => PlanIsFrozen
  BY DEF IInv, Planned, PlanIsFrozen
<1>2. QED
  BY <1>1, Inductive, PTL

\* No finding of a review is open when its task is verified.
THEOREM NothingSlipsThrough == Spec => []FixesAreClosed
<1>1. IInv => FixesAreClosed
  BY DEF IInv
<1>2. QED
  BY <1>1, Inductive, PTL

\* What verifies a fixed task was measured after every integration.
THEOREM MeasuredAfterFix == Spec => []VerifiedAfterFix
<1>1. IInv => VerifiedAfterFix
  BY DEF IInv
<1>2. QED
  BY <1>1, Inductive, PTL

\* An accepted transition verifies when it is the tail of its own lineage,
\* unless its result came with an edited packet and not through a pause.
THEOREM TailsVerify == Spec => []EveryCommitVerifies
  BY Inductive, PTL

\* An accepted plan is found, and the blockers of a cycle can be read, except
\* where the plan or the way out of the review was resumed from a pause.
THEOREM NeverStuck == Spec => []WorkGoesOn
<1>1. IInv => WorkGoesOn
  <2> SUFFICES ASSUME IInv PROVE WorkGoesOn
    OBVIOUS
  <2>1. Linked /\ Kinds /\ Len(lineage) \in Nat /\ Len(lineage) \in 1..Len(lineage)
    BY SourceFacts DEF IInv
  <2>2. Entries("PLAN_READY") \in SUBSET (1..Len(lineage))
    BY <2>1 DEF Entries
  <2>3. ASSUME Source = "PLAN_READY", IsPlan(lineage[LastOf(Entries("PLAN_READY"))])
        PROVE  PlanIsLatest
    <3>1. CASE Current # "WAITING_HUMAN"
      <4>1. Len(lineage) \in Entries("PLAN_READY")
        BY <2>1, <2>3, <3>1, SourceFacts DEF Entries, Current, Head1, Linked
      <4>2. LastOf(Entries("PLAN_READY")) = Len(lineage)
        <5>1. /\ LastOf(Entries("PLAN_READY")) \in 1..Len(lineage)
              /\ LastOf(Entries("PLAN_READY")) >= Len(lineage)
          BY <2>1, <2>2, <4>1, LastOfFacts
        <5>2. QED
          BY <2>1, <5>1
      <4>3. QED
        BY <2>3, <3>1, <4>2 DEF PlanIsLatest, Head1
    <3>2. CASE Current = "WAITING_HUMAN"
      <4>1. Head1.from = "PLAN_READY" /\ Len(lineage) >= 2
        BY <2>1, <2>3, <3>2, SourceFacts DEF Source
      <4>2. lineage[Len(lineage) - 1].to = "PLAN_READY"
        BY <2>1, <4>1 DEF Linked, Head1
      <4>3. Len(lineage) > 2 /\ Len(lineage) - 1 \in Entries("PLAN_READY")
        BY <2>1, <4>1, <4>2 DEF Linked, Entries
      <4>4. LastOf(Entries("PLAN_READY")) = Len(lineage) - 1
        <5>1. /\ LastOf(Entries("PLAN_READY")) \in Entries("PLAN_READY")
              /\ LastOf(Entries("PLAN_READY")) >= Len(lineage) - 1
          BY <2>1, <2>2, <4>3, LastOfFacts
        <5>2. Len(lineage) \notin Entries("PLAN_READY")
          BY <3>2 DEF Entries, Current, Head1
        <5>3. QED
          BY <2>1, <2>2, <5>1, <5>2
      <4>5. QED
        BY <2>3, <3>2, <4>3, <4>4 DEF PlanIsLatest
    <3>3. QED
      BY <3>1, <3>2
  <2>4. ASSUME \A n \in FixEvents : lineage[n].from = "WAITING_HUMAN"
                                      => lineage[n - 1].from # "TASK_REVIEW",
               NEW n \in FixEvents
        PROVE  Readable(lineage[n])
    <3>1. /\ n \in Entries("FIX_REQUIRED") /\ n \in 2..Len(lineage)
          /\ lineage[n].kind = EvidenceKind(Judged(n), "FIX_REQUIRED")
      BY <2>1 DEF FixEvents, Entries, Kinds
    <3>2. CASE lineage[n].from # "WAITING_HUMAN"
      BY <3>1, <3>2 DEF Readable, Judged
    <3>3. CASE lineage[n].from = "WAITING_HUMAN"
      <4>1. lineage[n - 1].to = "WAITING_HUMAN" /\ n - 1 \in 2..Len(lineage)
        BY <2>1, <3>1, <3>3 DEF Linked
      <4>2. /\ "WAITING_HUMAN" \in Transitions[lineage[n - 1].from]
            /\ lineage[n - 1].from \in States
        <5>1. lineage[n - 1].to \in Transitions[lineage[n - 1].from]
          BY <2>1, <4>1 DEF Linked
        <5>2. n - 1 \in 1..Len(lineage)
          BY <2>1, <4>1
        <5>3. lineage[n - 1] \in Events
          BY <2>1, <5>2 DEF Linked
        <5>4. QED
          BY <4>1, <5>1, <5>3 DEF Events
      <4>3. lineage[n - 1].from \in States \ {"TASK_REVIEW", "INTEGRATING"}
        BY <2>4, <3>3, <4>2, PauseFacts
      <4>4. /\ EvidenceKind(lineage[n - 1].from, "FIX_REQUIRED") = "FIX_REQUIRED_FINDINGS"
            /\ EvidenceKind("WAITING_HUMAN", "FIX_REQUIRED") = "FIX_REQUIRED_FINDINGS"
        BY <4>3, KindFacts, PolicyFacts
      <4>5. QED
        BY <3>1, <3>3, <4>4 DEF Readable, Judged
    <3>4. QED
      BY <3>2, <3>3
  <2>5. QED
    BY <2>3, <2>4 DEF WorkGoesOn, BlockersKnown
<1>2. QED
  BY <1>1, Inductive, PTL
=============================================================================
