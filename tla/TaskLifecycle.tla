---------------------------- MODULE TaskLifecycle ----------------------------
(***************************************************************************)
(* One task's way through the workflow: the evidence gates of              *)
(* acgps/workflow_engine.py, which decide from the audit lineage whether a *)
(* policy-authorized transition is accepted.                               *)
(*                                                                         *)
(* Transitions are accepted one at a time, at the audit head: TaskLedger   *)
(* is about the engines that compete for it.  The state row is the head of *)
(* the lineage (TaskLedger's ChainIntact), so current_state and            *)
(* previous_state are read off it here.  HumanPause is about the files of  *)
(* a human decision; here a pause is one accepted event.                   *)
(*                                                                         *)
(* Evidence is abstracted to what a later gate looks up in the lineage: the*)
(* blocking findings a review raised or closed, and the age of the oldest  *)
(* record that recommends VERIFIED.  Event n is made at time n, and a      *)
(* record made after it and before event n + 1 has time n.  Of a packet    *)
(* that comes with a result, all that matters later is whether it is the   *)
(* one that generate_task_packet makes for the task: no gate asks for it.  *)
(* Submissions that a gate refuses change nothing and are left out.        *)
(***************************************************************************)
EXTENDS WorkflowPolicy, Sequences, FiniteSets

CONSTANTS Findings,   \* ids of accepted open P0 or P1 findings
          None,       \* no stage is asked for
          MaxVisits,  \* bound: how often each state is entered
          MaxPauses   \* bound: how often the task waits for a human

ASSUME TaskLifecycleAssumption ==
    /\ None \notin States
    /\ MaxVisits \in Nat \ {0}
    /\ MaxPauses \in Nat

VARIABLES
    lineage,  \* the audit events, in order
    asked,    \* stage of the pending decision while the task waits
    edited    \* the packet of the latest event is not the generated one

vars == <<lineage, asked, edited>>

\* What the evidence of an event says: findings raised as open, findings closed,
\* and since when its VERIFIED records date.
NoEvidence == [raised |-> {}, closed |-> {}, since |-> 0]

Event(from, to, actor, kind, evidence) ==
    [from |-> from, to |-> to, actor |-> actor, kind |-> kind,
     raised |-> evidence.raised, closed |-> evidence.closed,
     since |-> evidence.since]

\* TASK_CREATED.
Init ==
    /\ lineage = <<Event("DRAFT", "DRAFT", "ANY", "TASK_INTAKE", NoEvidence)>>
    /\ asked = None
    /\ edited = FALSE

-----------------------------------------------------------------------------
(* Reading the lineage.                                                    *)

Head1 == lineage[Len(lineage)]
Current == Head1.to

\* _transition_gate_source_state: a waiting task is judged by where it paused.
Source == IF Current = "WAITING_HUMAN" THEN Head1.from ELSE Current

Entries(state) == {n \in 2..Len(lineage) : lineage[n].to = state}

\* The last of some positions, 0 if there is none.
LastOf(S) == IF S = {} THEN 0 ELSE CHOOSE n \in S : \A m \in S : m <= n

\* _current_fix_cycle_events: the FIX_REQUIRED events since the last VERIFIED.
FixEvents ==
    {n \in Entries("FIX_REQUIRED") : n > LastOf(Entries("VERIFIED"))}

\* Mutation: the evidence of a review is read as bare findings.
ReadableFindings(e) == e.kind = "FIX_REQUIRED_FINDINGS"

\* How stored FIX_REQUIRED evidence is read: by the state the event came from.
Readable(e) == e.kind = EvidenceKind(e.from, "FIX_REQUIRED")

\* _current_fix_cycle_blockers raises unless all of them can be read.
BlockersKnown == \A n \in FixEvents : Readable(lineage[n])

\* _current_fix_cycle_blocker_ids: failed verifications have no finding id.
BlockerIds == UNION {lineage[n].raised : n \in FixEvents}

\* The accepted plan, as _validate_coder_packet_against_frozen_plan looks for it.
IsPlan(e) == e.from = "SPEC_READY" /\ e.to = "PLAN_READY"

\* For the first handoff it is the last transition, or the one before the pause.
PlanIsLatest ==
    IF Current = "WAITING_HUMAN"
    THEN Source = "PLAN_READY" /\ Len(lineage) > 2 /\ IsPlan(lineage[Len(lineage) - 1])
    ELSE IsPlan(Head1)

HasPlan == \E n \in 1..Len(lineage) : IsPlan(lineage[n])

\* _fix_cycle_integration_boundary: INTEGRATING events after the latest fix.
Integrations ==
    {n \in Entries("INTEGRATING") : n > LastOf(FixEvents)}

\* Mutations: the first of these is the boundary; and there may be none.
FreshSinceFirst(t) ==
    FixEvents # {} => \E n \in Integrations : t >= n
FreshWithoutIntegration(t) ==
    FixEvents # {} => \A n \in Integrations : t >= n

\* A record of that time can verify the current fix cycle, if there is one.
Fresh(t) ==
    FixEvents # {} => Integrations # {} /\ t >= LastOf(Integrations)

-----------------------------------------------------------------------------
(* Accepting a transition.                                                 *)

\* Mutation: the target is not compared with the state the task was paused in.
AllowedAnywhere(to) ==
    /\ to \in Transitions[Current] \ {"WAITING_HUMAN"}
    /\ Cardinality(Entries(to)) < MaxVisits

\* The policy authorizes it, and a waiting task goes where it was asked to go,
\* which had to be legal where it paused.  (Bound: MaxVisits.)
Allowed(to) ==
    /\ to \in Transitions[Current] \ {"WAITING_HUMAN"}
    /\ Current = "WAITING_HUMAN" => to = asked /\ to \in Transitions[Source]
    /\ Cardinality(Entries(to)) < MaxVisits

\* pending_decision_id is null in every state but WAITING_HUMAN.
Answered == None

\* Evidence that begins with an agent's packet and its result.  The gate holds
\* the packet against the result and the ids of the task, nothing else.
PacketKinds == {"PLANNER_RESULT", "CODER_RESULT", "REVIEWER_RESULT", "VERIFIER_RESULT"}

\* _commit_prepared_transition.
Accept(to, evidence) ==
    LET kind == EvidenceKind(Source, to) IN
    /\ Allowed(to)
    /\ lineage' = Append(lineage, Event(Current, to, RequiredActor(Source, to),
                                        kind, evidence))
    /\ asked' = Answered
    /\ edited' \in IF kind \in PacketKinds THEN BOOLEAN ELSE {FALSE}

\* Generic, planner and coder evidence is checked without the lineage.
Move(to) ==
    /\ EvidenceKind(Source, to)
         \in {"GENERIC_EVIDENCE", "PLANNER_RESULT", "CODER_RESULT"}
    /\ Accept(to, NoEvidence)

\* _validate_coder_handoff_evidence.
HandOver ==
    /\ Source = "PLAN_READY"
    /\ PlanIsLatest
    /\ Accept("IMPLEMENTING", NoEvidence)

\* _validate_coder_remediation_handoff_evidence: the plan's packet and exactly
\* the current blockers.
Remediate ==
    /\ Source = "FIX_REQUIRED"
    /\ HasPlan
    /\ BlockersKnown
    /\ Accept("IMPLEMENTING", NoEvidence)

\* validate_fix_required_findings, alone or after a reviewer's packet and result.
RequireFix(found) ==
    /\ EvidenceKind(Source, "FIX_REQUIRED")
         \in {"REVIEWER_RESULT", "FIX_REQUIRED_FINDINGS"}
    /\ found # {}
    /\ Accept("FIX_REQUIRED", [NoEvidence EXCEPT !.raised = found])

\* The verifier's failed records.
FailVerification ==
    /\ EvidenceKind(Source, "FIX_REQUIRED") = "VERIFIER_RESULT"
    /\ Accept("FIX_REQUIRED", NoEvidence)

\* Every blocker of the cycle has a closed finding in the evidence.
Closes(closed) == BlockersKnown /\ BlockerIds \subseteq closed

Integrate(closed) ==
    /\ Closes(closed)
    /\ Accept("INTEGRATING", [NoEvidence EXCEPT !.closed = closed])

\* _validate_verifier_transition_evidence.
Verify(t) ==
    /\ Fresh(t)
    /\ Accept("VERIFIED", [NoEvidence EXCEPT !.since = t])

\* The manifest, or the closing evidence, holds the records of the latest
\* VERIFIED event, no others.
Release(to) ==
    /\ to \in {"RC_READY", "CLOSED"}
    /\ Entries("VERIFIED") # {}
    /\ Accept(to, [NoEvidence EXCEPT
                      !.since = lineage[LastOf(Entries("VERIFIED"))].since])

\* A human trigger turns the request into a pause.  (Bounds: MaxPauses, and
\* requests are for transitions that next_action_preview lists.)
Pause(to) ==
    /\ to \in Transitions[Current] \ {"WAITING_HUMAN", "ABANDONED"}
    /\ "WAITING_HUMAN" \in Transitions[Current]
    /\ Cardinality(Entries("WAITING_HUMAN")) < MaxPauses
    /\ lineage' = Append(lineage, Event(Current, "WAITING_HUMAN", "ANY",
                                        EvidenceKind(Source, "WAITING_HUMAN"),
                                        NoEvidence))
    /\ asked' = to
    /\ edited' = FALSE

Next ==
    \/ \E to \in States : Move(to) \/ Release(to) \/ Pause(to)
    \/ HandOver
    \/ Remediate
    \/ \E found \in SUBSET Findings : RequireFix(found) \/ Integrate(found)
    \/ FailVerification
    \/ \E t \in 1..Len(lineage) : Verify(t)

Spec == Init /\ [][Next]_vars

-----------------------------------------------------------------------------
(* Verifying the transition at the tail of the lineage, once committed: its*)
(* evidence has to pass the gate again.                                    *)

\* transition_commit_verification: which verifier a tail goes to.
ResultEdges ==
    {<<"CLASSIFIED", "SPEC_READY">>, <<"SPEC_READY", "PLAN_READY">>,
     <<"IMPLEMENTING", "TASK_REVIEW">>, <<"TASK_REVIEW", "FIX_REQUIRED">>,
     <<"TASK_REVIEW", "INTEGRATING">>, <<"INTEGRATING", "FIX_REQUIRED">>,
     <<"INTEGRATING", "VERIFIED">>}
HandoffEdges == {"PLAN_READY", "FIX_REQUIRED"} \X {"IMPLEMENTING"}
ReleaseEdges == {<<"VERIFIED", "RC_READY">>, <<"VERIFIED", "CLOSED">>,
                 <<"RC_READY", "CLOSED">>}

\* A resume is judged by where its task paused, as it was when it was accepted.
Resumed(e) == e.from = "WAITING_HUMAN"
JudgedFrom(e) == IF Resumed(e) THEN lineage[Len(lineage) - 1].from ELSE e.from

\* The gate of an agent's result, once more.
GatePasses(e) ==
    /\ e.to = "INTEGRATING" => Closes(e.closed)
    /\ e.to = "VERIFIED" => Fresh(e.since)

\* trusted_classification_policy_result: exactly one accepted CLASSIFIED event.
ClassifiedOnce == \E n \in Entries("CLASSIFIED") : Entries("CLASSIFIED") = {n}

\* trusted_task_packet_result_transition_commit_verification: besides the gate,
\* the receipt (task_packet_verification) wants the very packet that follows
\* from the intake and the one classification.  The verifier of resumes never
\* makes that receipt.
ResultVerifies(e) ==
    /\ GatePasses(e)
    /\ ~ Resumed(e) => ClassifiedOnce /\ ~ edited

\* Mutation: the plan has to be the last transition, as for a new handoff.
HandoffVerifiesAtTail(e) ==
    /\ PlanIsLatest
    /\ JudgedFrom(e) = "FIX_REQUIRED" => BlockersKnown

\* trusted_task_packet_handoff_transition_commit_verification: any accepted plan,
\* not the last transition.
HandoffVerifies(e) ==
    /\ HasPlan
    /\ JudgedFrom(e) = "FIX_REQUIRED" => BlockersKnown

\* rc_ready_transition_commit_verification.
ManifestVerifies(e) == e.since = lineage[LastOf(Entries("VERIFIED"))].since

\* closed_transition_commit_verification: records that verify, and the manifest.
ClosureVerifies(e) ==
    /\ ManifestVerifies(e)
    /\ IF e.from = "VERIFIED" THEN Fresh(e.since)
       ELSE e.since = lineage[LastOf(Entries("RC_READY"))].since

\* waiting_human_resume_transition_commit_verification: evidence that no adapter
\* reads yields no snapshots and never equals what was bound.
ResumeLegal(e) ==
    /\ lineage[Len(lineage) - 1].to = "WAITING_HUMAN"
    /\ e.to \in Transitions[JudgedFrom(e)]
    /\ e.actor = RequiredActor(JudgedFrom(e), e.to)
HasSnapshots(e) ==
    EvidenceKind(JudgedFrom(e), e.to)
        \notin {"GENERIC_EVIDENCE", "FIX_REQUIRED_FINDINGS", "INTEGRATING_FINDINGS"}

\* The tails that can be verified at all.
Verifiable ==
    IF Resumed(Head1) THEN HasSnapshots(Head1)
    ELSE <<Head1.from, Head1.to>> \in ResultEdges \cup HandoffEdges \cup ReleaseEdges

CommitVerifies ==
    LET e == Head1
        edge == <<JudgedFrom(e), e.to>>
    IN  /\ Resumed(e) => ResumeLegal(e)
        /\ e.actor = RequiredActor(edge[1], edge[2])
        /\ e.kind = EvidenceKind(edge[1], edge[2])
        /\ CASE edge \in HandoffEdges    -> HandoffVerifies(e)
             [] e.to = "RC_READY"        -> ManifestVerifies(e)
             [] e.to = "CLOSED"          -> ClosureVerifies(e)
             [] OTHER                    -> ResultVerifies(e)

-----------------------------------------------------------------------------
TypeOK ==
    /\ \A n \in 1..Len(lineage) :
          /\ {lineage[n].from, lineage[n].to} \subseteq States
          /\ lineage[n].raised \subseteq Findings
          /\ lineage[n].closed \subseteq Findings
          /\ lineage[n].since \in 0..(n - 1)
          /\ n > 1 => lineage[n].from = lineage[n - 1].to
    /\ asked \in States \cup {None}
    /\ asked = None <=> Current # "WAITING_HUMAN"
    /\ edited \in BOOLEAN

\* Rule 2, "No implementation without ... plan", and the plan is frozen: a task
\* has been planned exactly once before any coder works on it, on whatever way
\* through review, blocking and human decisions it came back.
PlanIsFrozen ==
    \A n \in Entries("IMPLEMENTING") :
        \E plan \in Entries("PLAN_READY") :
            plan < n /\ Entries("PLAN_READY") = {plan}

\* No blocking finding slips through: by the time a task is VERIFIED each one
\* raised by a review has been closed in the evidence of a later integration,
\* on every detour that avoids a second review (_current_fix_cycle_blocker_ids
\* at INTEGRATING, _fix_cycle_integration_boundary at VERIFIED).
FixesAreClosed ==
    \A v \in Entries("VERIFIED"), n \in Entries("FIX_REQUIRED") :
        n < v => \A f \in lineage[n].raised :
                    \E m \in Entries("INTEGRATING") :
                        n < m /\ m < v /\ f \in lineage[m].closed

\* What verifies a fixed task was measured after its fix was last integrated,
\* also when the integration was repeated after being blocked.
VerifiedAfterFix ==
    \A v \in Entries("VERIFIED"), n \in Entries("FIX_REQUIRED"),
       m \in Entries("INTEGRATING") :
        n < v /\ m < v => lineage[v].since >= m

\* Work goes on from an accepted plan and from a review, whatever pauses came
\* before: the gates find in the lineage what they need, except where the plan
\* itself, or the way from review to FIX_REQUIRED, was resumed from a pause.
WorkGoesOn ==
    /\ Source = "PLAN_READY" /\ IsPlan(lineage[LastOf(Entries("PLAN_READY"))])
          => PlanIsLatest
    /\ (\A n \in FixEvents : lineage[n].from = "WAITING_HUMAN"
                               => lineage[n - 1].from # "TASK_REVIEW")
          => BlockersKnown

\* A plan that was accepted can be handed to a coder, as README's
\* "PLAN_READY -> IMPLEMENTING" transition says.
PlanCanBeHandedOver ==
    Current = "PLAN_READY" => PlanIsLatest

\* An accepted transition can be verified afterwards, when the lineage its gate
\* reads has the transition itself as its tail: transition_commit_verification
\* returns for every tail it supports, except for a result that was accepted
\* with an edited packet and not through a pause, which it never passes.
EveryCommitVerifies ==
    Verifiable => (CommitVerifies <=> Resumed(Head1) \/ ~ edited)
=============================================================================
