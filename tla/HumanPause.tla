------------------------------ MODULE HumanPause ------------------------------
(***************************************************************************)
(* Human decisions: how WorkflowEngine.advance pauses a task at            *)
(* WAITING_HUMAN and resumes it, on the files of acgps/human_decisions.py. *)
(*                                                                         *)
(* A pause writes decisions/pending/<id>.json before it commits the        *)
(* WAITING_HUMAN event; a resume writes decisions/resolved/<id>.json       *)
(* before it commits the resume event.  The id is the task and the         *)
(* sequence number of the pause, so every engine that prepares the same    *)
(* sequence number uses the same files.  Files are written once            *)
(* (O_CREAT | O_EXCL, then the content) and never removed.                 *)
(*                                                                         *)
(* An advance may carry a resolution (--decision-resolution).  A resume    *)
(* needs it, an advance that neither pauses nor resumes refuses it, and an *)
(* advance that pauses takes it without looking: it resolves whatever      *)
(* request the resolution names, its own or another task's, before it      *)
(* commits, and the event does not mention it.                             *)
(*                                                                         *)
(* The commit is the atomic one TaskLedger models: it succeeds only at the *)
(* audit head the engine prepared from.  Actors and evidence may refuse    *)
(* any request, which changes nothing, and are left out here.              *)
(***************************************************************************)
EXTENDS WorkflowPolicy, FiniteSets

CONSTANTS Engines,
          Tasks,
          Starts,    \* states that ungated transitions have brought tasks to
          Targets,   \* the to_state of the requests
          Times,     \* created_at_utc or resolved_at_utc of a request
          None,
          Torn,      \* a file that is created and not yet written
          MaxSeq,    \* bound: no transition is prepared beyond this event
          OneTime,   \* bound: a pause and the resolution it carries have one time
          CanCrash,  \* whether engines crash
          LegalOnly  \* whether operators ask for legal transitions only

\* decision_id = "decision-<task>-<sequence>".
Ids == Tasks \X (1..MaxSeq)

\* A pending request and a resolution, as far as anyone compares them.
Files == [stage : States, at : Times]

\* A resolution and the decision it names.
Replies == [id : Ids, file : Files]

ASSUME HumanPauseAssumption ==
    /\ Starts \subseteq States \ {"WAITING_HUMAN", "CLOSED", "ABANDONED"}
    /\ Targets \subseteq States
    /\ None \notin States \cup Ids /\ Torn # None
    /\ {None, Torn} \cap Files = {}
    /\ MaxSeq \in Nat \ {0}
    /\ OneTime \in BOOLEAN
    /\ CanCrash \in BOOLEAN
    /\ LegalOnly \in BOOLEAN

VARIABLES
    state,      \* current_state of the task's row
    previous,   \* previous_state
    seq,        \* number of committed events
    decision,   \* pending_decision_id
    settled,    \* <<id, resolution>> bound by committed resume events
    pending,    \* decisions/pending
    resolved,   \* decisions/resolved
    pc, call,   \* what each engine does: the prepared transition
    scan        \* what list_pending collected so far

rowVars  == <<state, previous, seq, decision, settled>>
fileVars == <<pending, resolved>>
vars == <<rowVars, fileVars, pc, call, scan>>

\* A prepared transition: the row it was prepared from, the requested and the
\* actual target, the content of the request or resolution that is its own, and
\* the resolution it carries.
NoCall == [task |-> None, seq |-> 0, to |-> "DRAFT", target |-> "DRAFT",
           file |-> None, reply |-> None]

Init ==
    /\ state \in [Tasks -> Starts]
    /\ previous = [t \in Tasks |-> None]
    /\ seq = [t \in Tasks |-> 1]
    /\ decision = [t \in Tasks |-> None]
    /\ settled = {}
    /\ pending = [d \in Ids |-> None]
    /\ resolved = [d \in Ids |-> None]
    /\ pc = [e \in Engines |-> "idle"]
    /\ call = [e \in Engines |-> NoCall]
    /\ scan = [e \in Engines |-> {}]

-----------------------------------------------------------------------------
Goto(e, l) == pc' = [pc EXCEPT ![e] = l]

\* The call ends, with a result or with an error.
Return(e) ==
    /\ Goto(e, "idle")
    /\ call' = [call EXCEPT ![e] = NoCall]
    /\ scan' = [scan EXCEPT ![e] = {}]

Raise(e) == Return(e) /\ UNCHANGED <<rowVars, fileVars>>

\* The id the call's file has: the next sequence number for a pause, the
\* decision the task waits for otherwise.
CallId(e) ==
    LET c == call[e] IN
    IF c.target = "WAITING_HUMAN" THEN <<c.task, c.seq + 1>>
                                  ELSE <<c.task, c.seq>>

-----------------------------------------------------------------------------
(* _prepare_transition_validation: state row, lineage and policy.  A task  *)
(* is asked to wait only through a human trigger, and (bound) only when a  *)
(* resume still fits below MaxSeq.                                         *)

\* _transition_gate_source_state: the state a waiting task was paused in.
SourceState(t) == IF state[t] = "WAITING_HUMAN" THEN previous[t] ELSE state[t]

\* Operators that look at next_action_preview ask for these.
Sensible(t, to) ==
    /\ to \in Transitions[SourceState(t)]
    /\ to \in Transitions["WAITING_HUMAN"]

\* validate_resolution: the resolution names a whole request and its stage.
AnswersRequest(reply) ==
    /\ pending[reply.id] \in Files
    /\ pending[reply.id].stage = reply.file.stage

\* An operator who knows the files carries a resolution that can be written.
SensibleReply(own, to, reply) ==
    /\ resolved[reply.id] \in {None, reply.file}
    /\ \/ reply.id = own /\ reply.file.stage = to
       \/ AnswersRequest(reply)

\* A resolution that names no request is refused like one with a wrong stage.
Named(t) == {d \in Ids : pending[d] # None \/ d = <<t, seq[t] + 1>>}

ReplyTimes(file) == IF OneTime THEN {file.at} ELSE Times

\* The resolutions a call may carry: a resume that of its own decision, a pause
\* any or none.
Carried(t, target, file) ==
    CASE target = "WAITING_HUMAN" ->
           {None} \cup [id : Named(t), file : [stage : Targets, at : ReplyTimes(file)]]
      [] state[t] = "WAITING_HUMAN" /\ target # "WAITING_HUMAN" ->
           {[id |-> <<t, seq[t]>>, file |-> file]}
      [] OTHER -> {None}

\* The steps of a call: create and fill the pending file, and resolve and fill
\* when it carries a resolution; or list, match, resolve and fill; then commit.
FirstStep(from, target) ==
    CASE target = "WAITING_HUMAN"                     -> "create"
      [] from = "WAITING_HUMAN" /\ target # from      -> "list"
      [] OTHER                                        -> "commit"

Prepare(e, t, to, gate, at, reply) ==
    LET target == ActualTarget(to, gate)
        file == [stage |-> to, at |-> at] IN
    /\ pc[e] = "idle"
    /\ seq[t] < MaxSeq
    /\ LegalOnly => Sensible(t, to)
    /\ target \in Authorized(state[t], gate)
    /\ target = "WAITING_HUMAN" => gate /\ seq[t] + 1 < MaxSeq
    /\ reply \in Carried(t, target, file)
    /\ LegalOnly /\ target = "WAITING_HUMAN" /\ reply # None =>
          SensibleReply(<<t, seq[t] + 1>>, to, reply)
    /\ call' = [call EXCEPT ![e] =
                   [task |-> t, seq |-> seq[t], to |-> to, target |-> target,
                    file |-> file, reply |-> reply]]
    /\ Goto(e, FirstStep(state[t], target))
    /\ UNCHANGED <<rowVars, fileVars, scan>>

-----------------------------------------------------------------------------
(* DecisionQueue.create and resolve: _write_once.                          *)

\* Mutation: an existing file is taken for the one to be written.
AnyWritten(file, content) == file # None

\* An existing file passes only when it has the very content.
SameWritten(file, content) == file = content

\* After its request is written, a pause goes on to the resolution it carries.
Requested(e) == Goto(e, IF call[e].reply = None THEN "commit" ELSE "resolve")

Create(e) ==
    LET d == CallId(e) IN
    /\ pc[e] = "create"
    /\ \/ /\ pending[d] = None
          /\ pending' = [pending EXCEPT ![d] = Torn]
          /\ Goto(e, "fill")
          /\ UNCHANGED <<rowVars, resolved, call, scan>>
       \/ /\ pending[d] # None
          /\ SameWritten(pending[d], call[e].file)
          /\ Requested(e)
          /\ UNCHANGED <<rowVars, fileVars, call, scan>>
       \/ /\ pending[d] # None
          /\ ~ SameWritten(pending[d], call[e].file)
          /\ Raise(e)

Fill(e) ==
    /\ pc[e] = "fill"
    /\ pending' = [pending EXCEPT ![CallId(e)] = call[e].file]
    /\ Requested(e)
    /\ UNCHANGED <<rowVars, resolved, call, scan>>

-----------------------------------------------------------------------------
(* _waiting_human_resolution_binding.                                      *)

\* Mutation: a resolution never takes its request off the list.
EverUnresolved(d) == TRUE

\* list_pending leaves out a request whose resolution is committed.
Unresolved(d) == <<d, resolved[d]>> \notin settled

\* validate_resolution, then the first half of list_pending: every pending
\* file is read, and its resolution if there is one; an empty file fails.
ListPending(e) ==
    LET d == CallId(e)
        exist == {k \in Ids : pending[k] # None}
        readable == /\ \A k \in exist : pending[k] # Torn /\ resolved[k] # Torn
                    /\ d \in exist
                    /\ pending[d].stage = call[e].to IN
    /\ pc[e] = "list"
    /\ \/ /\ readable
          /\ scan' = [scan EXCEPT ![e] = {k \in exist : Unresolved(k)}]
          /\ Goto(e, "match")
          /\ UNCHANGED <<rowVars, fileVars, call>>
       \/ /\ ~ readable
          /\ Raise(e)

\* _require_authoritative_pending_match: the collected requests are the
\* decisions of all waiting tasks, no more and no fewer.
MatchesWaiting(found) ==
    found = {decision[k] : k \in {j \in Tasks : state[j] = "WAITING_HUMAN"}}

\* Mutation: the target is not compared with the state the task was paused in.
ResumableAnywhere(t, to) == TRUE

\* The target must have been legal in the state the task was paused in.
Resumable(t, to) == to \in Transitions[previous[t]]

\* The second half: match the waiting rows, then the checks on this decision;
\* the source state is read again from the lineage, which must not have grown.
MatchWaiting(e) ==
    LET d == CallId(e)
        t == call[e].task
        fits == /\ MatchesWaiting(scan[e])
                /\ d \in scan[e]
                /\ resolved[d] \in {None, call[e].file}
                /\ Resumable(t, call[e].to) IN
    /\ pc[e] = "match"
    /\ \/ /\ seq[t] = call[e].seq
          /\ fits
          /\ Goto(e, "resolve")
          /\ UNCHANGED <<rowVars, fileVars, call, scan>>
       \/ /\ seq[t] # call[e].seq \/ ~ fits
          /\ Raise(e)

\* DecisionQueue.resolve: the resolution is validated again, then written once.
Resolve(e) ==
    LET reply == call[e].reply
        file == resolved[reply.id] IN
    /\ pc[e] = "resolve"
    /\ \/ /\ AnswersRequest(reply)
          /\ file = None
          /\ resolved' = [resolved EXCEPT ![reply.id] = Torn]
          /\ Goto(e, "fillResolved")
          /\ UNCHANGED <<rowVars, pending, call, scan>>
       \/ /\ AnswersRequest(reply)
          /\ file # None
          /\ SameWritten(file, reply.file)
          /\ Goto(e, "commit")
          /\ UNCHANGED <<rowVars, fileVars, call, scan>>
       \/ /\ \/ ~ AnswersRequest(reply)
             \/ file # None /\ ~ SameWritten(file, reply.file)
          /\ Raise(e)

FillResolved(e) ==
    /\ pc[e] = "fillResolved"
    /\ resolved' = [resolved EXCEPT ![call[e].reply.id] = call[e].reply.file]
    /\ Goto(e, "commit")
    /\ UNCHANGED <<rowVars, pending, call, scan>>

-----------------------------------------------------------------------------
(* commit_task_state_and_audit.                                            *)

\* The event still succeeds the audit head it was prepared from.
AtHead(e) == seq[call[e].task] = call[e].seq

NextDecision(e) == IF call[e].target = "WAITING_HUMAN" THEN CallId(e) ELSE None

Commit(e) ==
    LET c == call[e]
        t == c.task IN
    /\ pc[e] = "commit"
    /\ \/ /\ AtHead(e)
          /\ state' = [state EXCEPT ![t] = c.target]
          /\ previous' = [previous EXCEPT ![t] = state[t]]
          /\ seq' = [seq EXCEPT ![t] = @ + 1]
          /\ decision' = [decision EXCEPT ![t] = NextDecision(e)]
          /\ settled' = IF state[t] = "WAITING_HUMAN"
                        THEN settled \cup {<<CallId(e), c.file>>}
                        ELSE settled
          /\ Return(e)
          /\ UNCHANGED fileVars
       \/ /\ ~ AtHead(e)
          /\ Raise(e)

\* The process dies: rows and files stay as they are.
Crash(e) ==
    /\ CanCrash
    /\ pc[e] # "idle"
    /\ Raise(e)

-----------------------------------------------------------------------------
Request(e, t) ==
    \E to \in Targets, gate \in BOOLEAN, at \in Times :
        \E reply \in Carried(t, ActualTarget(to, gate), [stage |-> to, at |-> at]) :
            Prepare(e, t, to, gate, at, reply)

Proceed(e) ==
    \/ Create(e)
    \/ Fill(e)
    \/ ListPending(e)
    \/ MatchWaiting(e)
    \/ Resolve(e)
    \/ FillResolved(e)
    \/ Commit(e)

Next ==
    \E e \in Engines :
        \/ \E t \in Tasks : Request(e, t)
        \/ Proceed(e)
        \/ Crash(e)

Spec == Init /\ [][Next]_vars

\* The human answers the request a task waits for, with one engine or another.
\* When a resolution is on file, it is that one: no other will ever be taken.
Answer(t) ==
    LET d == decision[t]
        file(at) == [stage |-> pending[d].stage, at |-> at] IN
    /\ state[t] = "WAITING_HUMAN"
    /\ pending[d] \in Files
    /\ \E e \in Engines, at \in Times :
          /\ resolved[d] \in {None, file(at)}
          /\ Prepare(e, t, pending[d].stage, FALSE, at, [id |-> d, file |-> file(at)])

\* Engines finish their calls, and a question that is asked again and again is
\* answered in the end.
FairSpec ==
    /\ Spec
    /\ \A e \in Engines : WF_vars(Proceed(e))
    /\ \A t \in Tasks : SF_vars(Answer(t))

-----------------------------------------------------------------------------
TypeOK ==
    /\ state \in [Tasks -> States]
    /\ previous \in [Tasks -> States \cup {None}]
    /\ seq \in [Tasks -> 1..MaxSeq]
    /\ decision \in [Tasks -> Ids \cup {None}]
    /\ \A t \in Tasks : state[t] = "WAITING_HUMAN" <=> decision[t] # None
    /\ settled \subseteq Ids \X Files
    /\ pending \in [Ids -> Files \cup {Torn, None}]
    /\ resolved \in [Ids -> Files \cup {Torn, None}]
    /\ pc \in [Engines -> {"idle", "create", "fill", "list", "match",
                           "resolve", "fillResolved", "commit"}]
    /\ scan \in [Engines -> SUBSET Ids]

\* A task that waits has its own complete pending record, although the record
\* is created, filled and committed in three steps that crashes and a second
\* engine with the same decision id can cut short.
WaitingHasItsRequest ==
    \A t \in Tasks : state[t] = "WAITING_HUMAN" =>
        /\ decision[t] = <<t, seq[t]>>
        /\ pending[decision[t]] \in Files
        /\ previous[t] \notin {None, "WAITING_HUMAN"}

\* Every committed resume is bound to the one resolution on file, which answers
\* the request on file (rule 7: resume only with a recorded decision).
ResumesAreRecorded ==
    \A s \in settled :
        /\ resolved[s[1]] = s[2]
        /\ pending[s[1]].stage = s[2].stage

\* A task leaves WAITING_HUMAN only for the approved stage, and only when that
\* stage could have been reached from where it was paused.
ResumesWhereApproved ==
    [][\A t \in Tasks :
          state[t] = "WAITING_HUMAN" /\ seq'[t] # seq[t] =>
              /\ state'[t] = pending[decision[t]].stage
              /\ state'[t] \in Transitions[previous[t]]]_vars

\* While one engine runs without crashing, every legal pause ends, also one whose
\* advance or another task's advance left a resolution that no event mentions.
PauseEnds ==
    \A t \in Tasks : state[t] = "WAITING_HUMAN" ~> state[t] # "WAITING_HUMAN"

\* AC-014: pending decisions "are inspectable through a read-only CLI command":
\* when no call is running, the open requests are those of the waiting tasks.
PendingIsInspectable ==
    (\A e \in Engines : pc[e] = "idle") =>
        MatchesWaiting({d \in Ids : pending[d] # None /\ Unresolved(d)})
=============================================================================
