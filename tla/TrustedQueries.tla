---------------------------- MODULE TrustedQueries ----------------------------
(***************************************************************************)
(* The trusted queries of WorkflowEngine and its trusted result advance,   *)
(* with the ordinary advances that validate evidence before they bind it:  *)
(* one into TASK_REVIEW, and the two that close a task.                    *)
(*                                                                         *)
(* Every row, file and list is read in a snapshot of its own while other   *)
(* engines commit, agents rewrite evidence and operators rewrite captures. *)
(* Instead of holding a lock, a call reads everything again, in an order   *)
(* of its own, and raises when a second look differs from the first.  A    *)
(* call is therefore a script: the order in which it reads and compares.   *)
(* Building and formatting what it reports is left out.                    *)
(*                                                                         *)
(* A task is the sequence of states it has been in, one per audit event.   *)
(* TaskLedger's ChainIntact makes the audit head stand for exactly that,   *)
(* so a state row and the audit lineage read for it are one value here,    *)
(* and reading the two of them at once is one step: a lineage whose tail   *)
(* is not the row just read raises, as a changed row would at the next     *)
(* look.  A task the project does not have yet is the empty sequence.      *)
(* A comparison made after a second collection is made while collecting.   *)
(*                                                                         *)
(* The reader keeps nothing between two calls, and opens the store anew for*)
(* each: a behaviour is one call, from any state the store can be left in, *)
(* with requests whose pauses were not committed and with a journal of a   *)
(* writer that is at work or has died.                                     *)
(***************************************************************************)
EXTENDS WorkflowPolicy, Sequences, FiniteSets

CONSTANTS TaskCount,   \* tasks are numbered in the order of their ids
          Calls,       \* calls the reader makes
          Projects,    \* bound: call -> the lineages it may find
          Stages,      \* bound: states that tasks enter during the call
          MaxChanges,  \* bound: changes of the store and of files
          None         \* nothing: no state, no content, no report

ASSUME TrustedQueriesAssumption ==
    /\ TaskCount \in Nat \ {0}
    /\ Stages \subseteq States
    /\ \A c \in Calls : \A p \in Projects[c] :
          /\ p \in [1..TaskCount -> Seq(States)]
          /\ \A t \in 1..TaskCount : \A n \in 2..Len(p[t]) :
                p[t][n] \in Transitions[p[t][n - 1]]
    /\ MaxChanges \in Nat
    /\ None \notin States \cup {"ok", "other", "returned", "raised", "committed"}

VARIABLES
    lineage,        \* task -> its states, one per audit event
    requests,       \* task -> sequence numbers with a file in decisions/pending
    files,          \* evidence, intake.json and the resolution on disk
    capture,        \* the project a captured report describes
    busy,           \* a writer's connection, with its journal, is open
    authorityMoved, \* a lock was taken or released since the call opened the store
    call, at,       \* the reader's call and its place in the script
    seen, kept,     \* the project the reader collected, and one put aside
    listing,        \* decisions list_pending has found
    read, opened,   \* first look at each file and at the capture
    bound,          \* evidence bound to the transition being prepared
    outcome,        \* how the call ended
    changes,        \* bound: changes so far
    quiet,          \* history: the call had what it needs, no leftovers that it
                    \* looks at were in its way, and nothing has changed
    matched,        \* history: since its first look the capture was once true
    late            \* history: evidence changed after the last look at it

storeVars == <<lineage, requests, busy, authorityMoved>>
worldVars == <<storeVars, files, capture, changes, quiet, late>>
lookVars == <<seen, kept, listing, read, opened, bound>>
vars == <<worldVars, lookVars, call, at, outcome, matched>>

Tasks == 1..TaskCount
Subject == 1                         \* the task of the calls for one task
Files == {"packet", "result", "intake", "resolution", "evidence"}
Contents == {"ok", "other"}
Nothing == [t \in Tasks |-> <<>>]

\* There is one packet, one intake and one resolution that the store and the
\* request vouch for, and one that VERIFIED, or RC_READY, has bound of each piece
\* of evidence a closure needs; an agent may hand in two different results.
Valid(f, c) == c = "ok" \/ f = "result"

StateOf(p, t) == IF p[t] = <<>> THEN None ELSE p[t][Len(p[t])]

\* The pending decision of a waiting task is named by task and sequence.
Waiting(p) == {<<t, Len(p[t])>> : t \in {u \in Tasks : StateOf(p, u) = "WAITING_HUMAN"}}

\* What a pending decision queue tells of a project.
Report(p) ==
    <<[s \in States \cup {None} |-> Cardinality({t \in Tasks : StateOf(p, t) = s})],
      Waiting(p)>>

\* Mutation: tasks are compared by the state they are in.
SameStates(p, q) == \A t \in Tasks : StateOf(p, t) = StateOf(q, t)

\* Identity fields include the audit head, hence all of the lineage.
Same(p, q) == p = q

Asked == UNION {{<<t, n>> : n \in requests[t]} : t \in Tasks}
Answered ==
    {d \in Asked : Len(lineage[d[1]]) > d[2] /\ lineage[d[1]][d[2]] = "WAITING_HUMAN"}

\* Mutation: an answered decision stays in the list.
EverUnresolved == Asked

\* list_pending: pending files whose resolution is not committed.
Unresolved == Asked \ Answered

\* Calls that commit, unlike the queries, which open the store to read only.
Advances == {"advance", "direct", "close", "release"}

\* Pauses that are committed, and events that were, or may be, tried as a pause.
\* (Bound: in a state of Stages.)
Paused(t) == {n \in 1..Len(lineage[t]) : lineage[t][n] = "WAITING_HUMAN"}

Orphanable(t) ==
    {n \in 2..(Len(lineage[t]) + 1) :
        /\ lineage[t][n - 1] \in Stages
        /\ "WAITING_HUMAN" \in Transitions[lineage[t][n - 1]]
        /\ n <= Len(lineage[t]) => lineage[t][n] # "WAITING_HUMAN"}

\* Exactly one event accepted CLASSIFIED, and its policy.
ClassifiedOnce(h) == \E n \in 1..Len(h) : {m \in 1..Len(h) : h[m] = "CLASSIFIED"} = {n}

\* The result at hand is a coder's, which recommends TASK_REVIEW.
Target == IF call \in {"close", "release"} THEN "CLOSED" ELSE "TASK_REVIEW"

\* What the files at hand are evidence of.
Kind == CASE call = "close" -> "VERIFIED_CLOSURE_EVIDENCE"
          [] call = "release" -> "RELEASE_CANDIDATE_MANIFEST"
          [] OTHER -> "CODER_RESULT"

\* The transition is authorized and its gate asks for this kind of evidence.
Fits(p) == LET state == StateOf(p, Subject)
           IN  /\ state \notin {None, "WAITING_HUMAN"}
               /\ Target \in Transitions[state]
               /\ EvidenceKind(state, Target) = Kind

-----------------------------------------------------------------------------
(* The scripts.  An instruction is an operation and what it is applied to: *)
(* collect, recheck: all rows; status, row: one task; list, waits: the two *)
(* halves of list_pending; read, reread: a file; open, reopen: the capture;*)
(* keep, agree: put a project aside and compare it with another one; the   *)
(* others compare what has been read, bind evidence or commit.             *)

\* audit_lineage_verification: row and lineage, and both once more.
Verification(t) == << <<"row", t>>, <<"row", t>> >>

\* next_action_preview; a waiting task needs its pending decision.
Preview(t) == << <<"row", t>>, <<"list", t>>, <<"waits", t>> >>

\* trusted_task_progress_summary.
TaskSummary(t) ==
    Verification(t) \o Preview(t) \o Verification(t) \o Preview(t)

\* The summary of each task of the project in turn; all are equally long.
EveryTask ==
    LET length == Len(TaskSummary(Subject))
    IN  [n \in 1..(TaskCount * length) |->
            TaskSummary(((n - 1) \div length) + 1)[((n - 1) % length) + 1]]

\* trusted_project_progress_summary, and the audit-lineage summary and the
\* next-action queue that are cut out of it.
ProjectSummary(look) == << <<look>> >> \o EveryTask \o << <<"recheck">> >>

\* trusted_project_pending_decision_queue.
PendingQueue ==
    LET List == << <<"list", 0>>, <<"waits", 0>> >>
    IN  ProjectSummary("collect") \o List \o ProjectSummary("recheck") \o List

\* A queue is compared with an earlier report by its counts and decisions only.
PendingQueueAgain == << <<"keep">> >> \o PendingQueue \o << <<"agree">> >>

\* _trusted_project_assurance_components: three summaries and a queue.
Components(look) ==
    ProjectSummary(look) \o ProjectSummary("recheck") \o ProjectSummary("recheck")
    \o PendingQueueAgain

\* trusted_project_assurance_overview.
Overview == Components("collect") \o Components("recheck")

\* Mutation: the capture is not read again.
CaptureReadOnce(first, again) ==
    << <<"open">> >> \o first \o << <<"compare">> >> \o again

\* trusted_project_progress_summary_verification, and that of the audit-lineage
\* summary: the capture is compared byte for byte.
Captured(first, again) ==
    << <<"open">> >> \o first \o << <<"compare">>, <<"reopen">> >> \o again

\* trusted_project_pending_decision_resolution_preview.
ResolutionPreview ==
    << <<"read", "resolution">> >> \o PendingQueue
    \o << <<"answers">>, <<"reread", "resolution">> >> \o PendingQueueAgain

\* waiting_human_resume_gate_preview.
ResumePreview ==
    LET Binding == << <<"answers">>, <<"list", Subject>>, <<"waits", Subject>> >>
    IN  << <<"status">> >> \o Binding
        \o << <<"row", Subject>>, <<"row", Subject>>, <<"row", Subject>> >>
        \o Binding

\* trusted_classification_policy_result, with the initialization proof.
Classification == << <<"row", Subject>>, <<"classified">>, <<"row", Subject>> >>

\* task_packet_verification.
PacketVerification(look, row) ==
    << <<look, "packet">>, row, <<look, "intake">> >> \o Classification
    \o << <<"reread", "packet">>, <<"reread", "intake">>, <<"row", Subject>> >>

PacketAgain == PacketVerification("reread", <<"row", Subject>>)

\* trusted_task_packet_handoff_preview.
HandoffPreview ==
    PacketVerification("read", <<"status">>)
    \o << <<"reread", "packet">>, <<"reread", "packet">> >> \o PacketAgain

\* trusted_task_packet_result_receipt_preview.
Receipt(packet, look) ==
    packet \o << <<"reread", "packet">>, <<look, "result">>, <<"reread", "packet">> >>
    \o PacketAgain \o << <<"reread", "result">> >>

FirstReceipt == Receipt(PacketVerification("read", <<"status">>), "read")
ReceiptAgain == Receipt(PacketAgain, "reread")

\* Binding the evidence of a prepared transition to its event.
Bind(op) == << <<"fits">>, <<"row", Subject>>, <<op, "packet">>, <<op, "result">> >>

\* trusted_task_packet_result_transition_gate_preview: what is bound is not
\* compared with the receipts before and after it.
GatePreview == FirstReceipt \o Bind("take") \o ReceiptAgain

\* trusted_task_packet_result_transition_advance, up to the prepared transition.
Preparation ==
    FirstReceipt \o << <<"reread", "packet">>, <<"reread", "result">> >> \o Bind("bind")

\* Mutation: nothing is looked at again before the commit.
FinalCheckSkipped == << >>

\* require_final_trusted_identity.
FinalCheck == ReceiptAgain \o << <<"reread", "packet">>, <<"reread", "result">> >>

\* Mutation: what is bound is not compared with what has been validated.
BoundUnseen ==
    << <<"status">>, <<"fits">>, <<"read", "packet">>, <<"read", "result">>,
       <<"take", "packet">>, <<"take", "result">> >>

\* advance with a packet and a result: what its gate has validated is what it
\* binds, or it raises.
DirectPreparation ==
    << <<"status">>, <<"fits">>, <<"read", "packet">>, <<"read", "result">>,
       <<"bind", "packet">>, <<"bind", "result">> >>

\* A closure's evidence and what VERIFIED has bound; or RC_READY, of a manifest.
VerifiedClosure(look) ==
    << <<"row", Subject>>, <<look, "evidence">>, <<"row", Subject>> >>

ManifestClosure(look) ==
    << <<look, "evidence">>, <<"row", Subject>>, <<"row", Subject>> >>

\* advance to CLOSED: validated, bound, and validated once more while preparing;
\* the script validates yet again before the commit.
ClosurePreparation(first, again) ==
    << <<"status">>, <<"fits">> >> \o first \o << <<"bind", "evidence">> >> \o again

CloseVerified == ClosurePreparation(VerifiedClosure("read"), VerifiedClosure("reread"))
CloseManifest == ClosurePreparation(ManifestClosure("read"), ManifestClosure("reread"))

Script ==
    [task |-> << <<"status">> >> \o TaskSummary(Subject),
     project |-> ProjectSummary("collect"),
     queue |-> PendingQueue,
     overview |-> Overview,
     captured |-> Captured(ProjectSummary("collect"), ProjectSummary("recheck")),
     resolution |-> ResolutionPreview,
     resume |-> ResumePreview,
     handoff |-> HandoffPreview,
     gate |-> GatePreview,
     advance |-> Preparation \o FinalCheck \o << <<"commit">> >>,
     direct |-> DirectPreparation \o << <<"commit">> >>,
     close |-> CloseVerified \o VerifiedClosure("reread") \o << <<"commit">> >>,
     release |-> CloseManifest \o ManifestClosure("reread") \o << <<"commit">> >>]

ASSUME CallsAssumption == Calls \subseteq DOMAIN Script

-----------------------------------------------------------------------------
(* The reader.                                                             *)

Running == outcome = None
Op == Script[call][at][1]
Arg == Script[call][at][2]
Doing(op) == Running /\ Op = op

\* A project has no task t, or t does not wait for a decision.
Skipped(step, p) ==
    \/ step[1] = "row" /\ p[step[2]] = <<>>
    \/ /\ step[1] \in {"list", "waits"}
       /\ step[2] \in Tasks
       /\ StateOf(p, step[2]) # "WAITING_HUMAN"

\* Goes on to the next instruction that applies to p, or returns.
GoOn(p) ==
    LET ahead == (at + 1)..Len(Script[call])
        Applies(n) == ~ Skipped(Script[call][n], p)
    IN  IF \E n \in ahead : Applies(n)
        THEN /\ at' = CHOOSE n \in ahead :
                          Applies(n) /\ \A m \in (at + 1)..(n - 1) : ~ Applies(m)
             /\ outcome' = outcome
        ELSE outcome' = "returned" /\ at' = at

Raise == outcome' = "raised" /\ UNCHANGED <<at, lookVars, matched>>

\* A read-only connection is refused while the store has journal sidecars, and
\* when its authority is no longer the one the call started with.
Unreadable == call \notin Advances /\ (busy \/ authorityMoved)

\* An instruction raises unless what it asserts is true; else it has its effect.
Check(assertion, effect) ==
    /\ IF assertion THEN effect /\ UNCHANGED matched ELSE Raise
    /\ UNCHANGED <<worldVars, call>>

Collect ==
    /\ Doing("collect")
    /\ Check(~ Unreadable,
             /\ seen' = lineage /\ GoOn(lineage)
             /\ UNCHANGED <<kept, listing, read, opened, bound>>)

Recheck ==
    /\ Doing("recheck")
    /\ Check(~ Unreadable /\ Same(lineage, seen), GoOn(seen) /\ UNCHANGED lookVars)

Status ==
    LET found == [Nothing EXCEPT ![Subject] = lineage[Subject]]
    IN  /\ Doing("status")
        /\ Check(~ Unreadable /\ lineage[Subject] # <<>>,
                 /\ seen' = found /\ GoOn(found)
                 /\ UNCHANGED <<kept, listing, read, opened, bound>>)

Row ==
    /\ Doing("row")
    /\ Check(~ Unreadable /\ Same([seen EXCEPT ![Arg] = lineage[Arg]], seen),
             GoOn(seen) /\ UNCHANGED lookVars)

\* The store is asked about every resolution on disk: of answered decisions, and
\* of others that may have been resolved.
List ==
    /\ Doing("list")
    /\ \E resolved \in {TRUE, FALSE} :
          /\ Answered # {} => resolved
          /\ resolved => Asked # {}
          /\ Check(resolved => ~ Unreadable,
                   /\ listing' = Unresolved /\ GoOn(seen)
                   /\ UNCHANGED <<seen, kept, read, opened, bound>>)

\* _require_authoritative_pending_match; then the caller's own expectation.
Waits ==
    /\ Doing("waits")
    /\ Check(/\ ~ Unreadable
             /\ listing = Waiting(lineage)
             /\ IF Arg = 0 THEN listing = Waiting(seen)
                ELSE <<Arg, Len(seen[Arg])>> \in listing,
             GoOn(seen) /\ UNCHANGED lookVars)

Keep ==
    /\ Doing("keep")
    /\ Check(TRUE, /\ kept' = seen /\ GoOn(seen)
                   /\ UNCHANGED <<seen, listing, read, opened, bound>>)

Agree ==
    /\ Doing("agree")
    /\ Check(Report(seen) = Report(kept),
             /\ seen' = kept /\ GoOn(kept)
             /\ UNCHANGED <<kept, listing, read, opened, bound>>)

ReadFile ==
    /\ Doing("read")
    /\ Check(Valid(Arg, files[Arg]),
             /\ read' = [read EXCEPT ![Arg] = files[Arg]] /\ GoOn(seen)
             /\ UNCHANGED <<seen, kept, listing, opened, bound>>)

Reread ==
    /\ Doing("reread")
    /\ Check(files[Arg] = read[Arg], GoOn(seen) /\ UNCHANGED lookVars)

Open ==
    /\ Doing("open")
    /\ opened' = capture
    /\ matched' = (capture = lineage)
    /\ GoOn(seen)
    /\ UNCHANGED <<worldVars, call, seen, kept, listing, read, bound>>

Compare ==
    /\ Doing("compare")
    /\ Check(opened = seen, GoOn(seen) /\ UNCHANGED lookVars)

Reopen ==
    /\ Doing("reopen")
    /\ Check(capture = opened, GoOn(seen) /\ UNCHANGED lookVars)

\* The resolution, or the resume's, is for a decision of the queue.
Answers ==
    /\ Doing("answers")
    /\ Check(StateOf(seen, Subject) = "WAITING_HUMAN", GoOn(seen) /\ UNCHANGED lookVars)

Classified ==
    /\ Doing("classified")
    /\ Check(ClassifiedOnce(seen[Subject]), GoOn(seen) /\ UNCHANGED lookVars)

FitsResult ==
    /\ Doing("fits")
    /\ Check(Fits(seen), GoOn(seen) /\ UNCHANGED lookVars)

\* The gate preview validates what it binds; an advance compares it with what it
\* has validated.
BindFile ==
    /\ Doing("bind") \/ Doing("take")
    /\ Check(IF Op = "bind" THEN files[Arg] = read[Arg] ELSE Valid(Arg, files[Arg]),
             /\ bound' = [bound EXCEPT ![Arg] = files[Arg]] /\ GoOn(seen)
             /\ UNCHANGED <<seen, kept, listing, read, opened>>)

\* commit_task_state_and_audit: the event has to succeed the prepared head.
CommitAdvance ==
    /\ Doing("commit")
    /\ IF lineage[Subject] = seen[Subject]
       THEN /\ lineage' = [lineage EXCEPT ![Subject] = Append(@, Target)]
            /\ outcome' = "committed"
       ELSE outcome' = "raised" /\ UNCHANGED lineage
    /\ UNCHANGED <<requests, busy, authorityMoved, files, capture, changes, quiet,
                   late, lookVars, call, at, matched>>

-----------------------------------------------------------------------------
(* Everybody else, between two looks of the reader: what it compares and   *)
(* puts aside in between, nobody else can change or see.                   *)
(* (Bounds: MaxChanges, and changes that the call can notice.)             *)

LooksAt(f) == \E n \in 1..Len(Script[call]) : Script[call][n] = <<"read", f>>

Inner == {"keep", "agree", "compare", "answers", "classified", "fits"}

Changed ==
    /\ Running /\ Op \notin Inner
    /\ changes < MaxChanges
    /\ changes' = changes + 1
    /\ quiet' = FALSE
    /\ matched' = (matched \/ (call = "captured" /\ at > 1 /\ capture' = lineage'))
    /\ UNCHANGED <<lookVars, call, at, outcome>>

\* Another process opens the store to write, and closes it.
OpenStore ==
    /\ ~ busy
    /\ busy' = TRUE
    /\ UNCHANGED <<lineage, requests, authorityMoved, files, capture, late>>
    /\ Changed

CloseStore ==
    /\ busy /\ Running
    /\ busy' = FALSE
    /\ UNCHANGED <<lineage, requests, authorityMoved, files, capture, changes, quiet,
                   late, lookVars, call, at, outcome, matched>>

\* Where a task may go: into the workflow, on, or out of a pause to a state that
\* was legal where it paused.
NextStates(t) ==
    LET h == lineage[t]
        n == Len(h)
    IN  CASE n = 0 -> {"DRAFT"}
          [] n > 0 /\ h[n] = "WAITING_HUMAN" /\ n > 1
                -> Transitions["WAITING_HUMAN"] \cap Transitions[h[n - 1]]
          [] OTHER -> Transitions[h[n]]

CommitElsewhere(t, s) ==
    /\ busy
    /\ s \in NextStates(t) \cap Stages
    /\ s = "WAITING_HUMAN" => Len(lineage[t]) + 1 \in requests[t]
    /\ lineage' = [lineage EXCEPT ![t] = Append(@, s)]
    /\ UNCHANGED <<requests, busy, authorityMoved, files, capture, late>>
    /\ Changed

\* The request for a pause is on disk before its event is committed.
Ask(t) ==
    /\ lineage[t] # <<>> /\ StateOf(lineage, t) # "WAITING_HUMAN"
    /\ "WAITING_HUMAN" \in Transitions[StateOf(lineage, t)] \cap Stages
    /\ Len(lineage[t]) + 1 \notin requests[t]
    /\ requests' = [requests EXCEPT ![t] = @ \cup {Len(lineage[t]) + 1}]
    /\ UNCHANGED <<lineage, busy, authorityMoved, files, capture, late>>
    /\ Changed

LockMoves ==
    /\ ~ authorityMoved /\ call \notin Advances
    /\ authorityMoved' = TRUE
    /\ UNCHANGED <<lineage, requests, busy, files, capture, late>>
    /\ Changed

\* Where the last look at evidence is before the commit: at the packet of a
\* receipt, after which it is the result's turn, or at what a closure binds.  An
\* edit after it is late.
LastLook ==
    [advance |-> Len(Preparation) + Len(ReceiptAgain) + 1,
     direct |-> Len(DirectPreparation) - 1,
     close |-> Len(CloseVerified) + 2,
     release |-> Len(CloseManifest) + 1]

Edit(f, c) ==
    /\ LooksAt(f) /\ files[f] # c
    /\ files' = [files EXCEPT ![f] = c]
    /\ late' = (late \/ (call \in Advances /\ at > LastLook[call]))
    /\ UNCHANGED <<storeVars, capture>>
    /\ Changed

\* A capture is rewritten: by rubbish, by the current project, or by the project
\* as it is going to be.
Recapture(c) ==
    /\ call = "captured"
    /\ capture # c
    /\ capture' = c
    /\ UNCHANGED <<storeVars, files, late>>
    /\ Changed

Soon == {lineage} \cup
        UNION {{[lineage EXCEPT ![t] = Append(@, s)] : s \in NextStates(t) \cap Stages} :
                  t \in Tasks}

-----------------------------------------------------------------------------
\* Whether a call that nothing disturbs has what it needs.
Sensible(c) ==
    CASE c = "task" -> lineage[Subject] # <<>>
      [] c \in {"resolution", "resume"} -> StateOf(lineage, Subject) = "WAITING_HUMAN"
      [] c = "handoff" -> ClassifiedOnce(lineage[Subject])
      [] c \in {"gate", "advance"} -> Fits(lineage) /\ ClassifiedOnce(lineage[Subject])
      [] c \in {"direct", "close", "release"} -> Fits(lineage)
      [] c = "captured" -> capture = lineage
      [] OTHER -> TRUE

\* Whether it lists the pending decisions: a call for one task only if that task
\* waits, and a summary of the project only if some task does.
Lists(c) ==
    \/ c \in {"queue", "overview", "resolution"}
    \/ c \in {"project", "captured"} /\ Waiting(lineage) # {}
    \/ c \in {"task", "resume"} /\ StateOf(lineage, Subject) = "WAITING_HUMAN"

\* What crashed or refused pauses have left counts as changes that were made
\* before, and so does an open journal.
Init ==
    /\ call \in Calls /\ at = 1
    /\ lineage \in Projects[call]
    /\ busy \in BOOLEAN /\ authorityMoved = FALSE
    /\ files = [f \in Files |-> "ok"]
    /\ capture \in IF call = "captured" THEN {None} \cup Soon ELSE {None}
    /\ \E orphans \in SUBSET UNION {{t} \X Orphanable(t) : t \in Tasks} :
          /\ requests = [t \in Tasks |->
                Paused(t) \cup {n \in Orphanable(t) : <<t, n>> \in orphans}]
          /\ changes = Cardinality(orphans) + (IF busy THEN 1 ELSE 0)
          /\ quiet = (/\ Sensible(call)
                      /\ Lists(call) => orphans = {}
                      /\ call \notin Advances => ~ busy)
    /\ changes \in 0..MaxChanges
    /\ seen = Nothing /\ kept = Nothing /\ listing = {}
    /\ read = [f \in Files |-> None] /\ bound = [f \in Files |-> None]
    /\ opened = None
    /\ outcome = None
    /\ matched = FALSE /\ late = FALSE

Next ==
    \/ Collect \/ Recheck \/ Status \/ Row \/ List \/ Waits \/ Keep \/ Agree
    \/ ReadFile \/ Reread \/ Open \/ Compare \/ Reopen
    \/ Answers \/ Classified \/ FitsResult \/ BindFile \/ CommitAdvance
    \/ OpenStore \/ CloseStore \/ LockMoves
    \/ \E t \in Tasks : Ask(t) \/ \E s \in Stages : CommitElsewhere(t, s)
    \/ \E f \in Files, c \in Contents : Edit(f, c)
    \/ \E c \in Soon \cup {None} : Recapture(c)

Spec == Init /\ [][Next]_vars

-----------------------------------------------------------------------------
TypeOK ==
    /\ {lineage, seen, kept} \subseteq [Tasks -> Seq(States)]
    /\ requests \in [Tasks -> SUBSET Nat]
    /\ \A t \in Tasks :
          /\ \A n \in 2..Len(lineage[t]) : lineage[t][n] \in Transitions[lineage[t][n - 1]]
          /\ requests[t] \subseteq 1..(Len(lineage[t]) + 1)
    /\ files \in [Files -> Contents]
    /\ {read, bound} \subseteq [Files -> Contents \cup {None}]
    /\ {busy, authorityMoved, quiet, matched, late} \subseteq BOOLEAN
    /\ call \in Calls /\ at \in 1..Len(Script[call])
    /\ outcome \in {None, "returned", "raised", "committed"}
    /\ changes \in 0..MaxChanges

\* "UNCHANGED_DURING_QUERY": when a summary or a resume preview returns, no task it
\* was made of has moved since, not even away and back.  The queue, the overview and
\* the resolution preview promise it of the pending decisions only, and the handoff
\* and gate previews, whose last look is at a file, do not promise it.
ReportIsCurrent ==
    outcome = "returned" =>
        CASE call \in {"task", "resume"} -> lineage[Subject] = seen[Subject]
          [] call \in {"project", "captured"} -> lineage = seen
          [] call \in {"queue", "overview", "resolution"} -> Waiting(lineage) = Waiting(seen)
          [] OTHER -> TRUE

\* A captured summary that is verified was, at one moment of the verification,
\* exactly the file on disk and the state of the project.
CaptureMatched ==
    outcome = "returned" /\ call = "captured" => matched

\* An advance commits onto the head it has verified.  The evidence it binds is
\* what its gate, or the receipt of a trusted advance, has validated, it is what
\* VERIFIED or RC_READY has bound if the task is closed, and it is still on disk,
\* unless an agent edits it after the last look.
AdvanceCommitsWhatItVerified ==
    outcome = "committed" =>
        /\ lineage[Subject] = Append(seen[Subject], Target)
        /\ \A f \in IF Target = "CLOSED" THEN {"evidence"} ELSE {"packet", "result"} :
              /\ bound[f] = read[f] /\ Valid(f, bound[f])
              /\ ~ late => files[f] = bound[f]

\* Nothing raises without cause.  A call raises only if it lacks what it needs, if
\* somebody changes the store or a file while it runs, or if it stumbles over what
\* was left behind: a call that lists the pending decisions over a request whose
\* pause was never committed (see HumanPause), a query over the journal of a writer.
NoFalseAlarm == outcome = "raised" => ~ quiet
=============================================================================
