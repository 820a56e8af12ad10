---------------------------- MODULE WorkflowPolicy ----------------------------
(***************************************************************************)
(* The workflow policy: config/workflow_policy.yaml and the part of        *)
(* acgps/policy.py and acgps/workflow_engine.py that reads it without      *)
(* looking at any task.                                                    *)
(***************************************************************************)
EXTENDS Naturals

\* transitions of config/workflow_policy.yaml.
Transitions ==
    [DRAFT |-> {"READY_FOR_CLASSIFICATION", "ABANDONED"},
     READY_FOR_CLASSIFICATION |-> {"CLASSIFIED", "DRAFT", "ABANDONED"},
     CLASSIFIED |-> {"SPEC_READY", "WAITING_HUMAN", "ABANDONED"},
     SPEC_READY |-> {"PLAN_READY", "WAITING_HUMAN", "ABANDONED"},
     PLAN_READY |-> {"IMPLEMENTING", "WAITING_HUMAN", "ABANDONED"},
     IMPLEMENTING |-> {"TASK_REVIEW", "BLOCKED", "WAITING_HUMAN"},
     TASK_REVIEW |-> {"FIX_REQUIRED", "INTEGRATING", "WAITING_HUMAN"},
     FIX_REQUIRED |-> {"IMPLEMENTING", "WAITING_HUMAN", "ABANDONED"},
     INTEGRATING |-> {"SYSTEM_QA", "VERIFIED", "FIX_REQUIRED", "BLOCKED"},
     SYSTEM_QA |-> {"VERIFIED", "FIX_REQUIRED", "WAITING_HUMAN", "BLOCKED"},
     VERIFIED |-> {"RC_READY", "CLOSED", "WAITING_HUMAN"},
     RC_READY |-> {"CLOSED", "WAITING_HUMAN"},
     WAITING_HUMAN |-> {"CLASSIFIED", "SPEC_READY", "PLAN_READY",
                        "IMPLEMENTING", "TASK_REVIEW", "FIX_REQUIRED",
                        "INTEGRATING", "SYSTEM_QA", "VERIFIED", "RC_READY",
                        "ABANDONED"},
     BLOCKED |-> {"IMPLEMENTING", "INTEGRATING", "SYSTEM_QA", "ABANDONED"},
     CLOSED |-> {},
     ABANDONED |-> {}]

States == DOMAIN Transitions

\* evaluate_policy: a human trigger or risk R3 leaves only these targets.
HumanGateTransitions == {"WAITING_HUMAN", "ABANDONED"}

Authorized(state, humanGate) ==
    IF humanGate THEN Transitions[state] \cap HumanGateTransitions
                 ELSE Transitions[state]

\* The engine turns a gated request into a pause, unless it abandons the task.
ActualTarget(to, humanGate) ==
    IF humanGate /\ to # "ABANDONED" THEN "WAITING_HUMAN" ELSE to

\* _required_transition_actor; "ANY" when the edge names no actor.
RequiredActor(from, target) ==
    CASE from \in {"CLASSIFIED", "SPEC_READY"}
         /\ target \in Transitions[from] \cap {"SPEC_READY", "PLAN_READY"}
                                                           -> "PLANNER"
      [] from \in {"PLAN_READY", "FIX_REQUIRED"}
         /\ target = "IMPLEMENTING"                        -> "CODER"
      [] from = "INTEGRATING" /\ target = "FIX_REQUIRED"   -> "VERIFIER"
      [] from \in {"VERIFIED", "RC_READY"}
         /\ target = "CLOSED"                              -> "CONTROLLER"
      [] from # "INTEGRATING" /\ target = "FIX_REQUIRED"   -> "REVIEWER"
      [] target = "INTEGRATING"                            -> "REVIEWER"
      [] target = "TASK_REVIEW"                            -> "CODER"
      [] target \in {"VERIFIED", "RC_READY"}               -> "VERIFIER"
      [] OTHER                                             -> "ANY"

\* _gate_evidence_kind: what the evidence of the edge is validated as.
EvidenceKind(from, target) ==
    CASE from = "CLASSIFIED" /\ target = "SPEC_READY"      -> "PLANNER_RESULT"
      [] from = "SPEC_READY" /\ target = "PLAN_READY"      -> "PLANNER_RESULT"
      [] from = "PLAN_READY" /\ target = "IMPLEMENTING"    -> "CODER_HANDOFF"
      [] from = "FIX_REQUIRED" /\ target = "IMPLEMENTING"
                                               -> "CODER_REMEDIATION_HANDOFF"
      [] from = "INTEGRATING" /\ target = "FIX_REQUIRED"   -> "VERIFIER_RESULT"
      [] from = "VERIFIED" /\ target = "CLOSED"
                                               -> "VERIFIED_CLOSURE_EVIDENCE"
      [] from = "RC_READY" /\ target = "CLOSED"
                                               -> "RELEASE_CANDIDATE_MANIFEST"
      [] from = "TASK_REVIEW" /\ target \in {"FIX_REQUIRED", "INTEGRATING"}
                                                           -> "REVIEWER_RESULT"
      [] from \notin {"TASK_REVIEW", "INTEGRATING"} /\ target = "FIX_REQUIRED"
                                               -> "FIX_REQUIRED_FINDINGS"
      [] from # "TASK_REVIEW" /\ target = "INTEGRATING"
                                               -> "INTEGRATING_FINDINGS"
      [] target = "TASK_REVIEW"                            -> "CODER_RESULT"
      [] target = "VERIFIED"                               -> "VERIFIER_RESULT"
      [] target = "RC_READY"                   -> "RELEASE_CANDIDATE_MANIFEST"
      [] OTHER                                             -> "GENERIC_EVIDENCE"
=============================================================================
