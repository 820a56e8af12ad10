---------------------------- MODULE BoundedProcess ----------------------------
(***************************************************************************)
(* run_bounded_process of acgps/codex_exec_adapter.py: one agent process   *)
(* and its descendants in a Windows job, supervised with time limits.      *)
(*                                                                         *)
(* The root process is created suspended, put into the job and resumed.    *)
(* communicate waits until nobody holds the output pipes and the root has  *)
(* ended, so a descendant that keeps a pipe makes a finished root time     *)
(* out.  Terminating the job, and closing its last handle, take effect on  *)
(* a process some time later: until it is gone the job counts it and its   *)
(* pipes stay open, but it does nothing any more.                          *)
(*                                                                         *)
(* The next state is given as two actions, Supervise and Work, for the     *)
(* module that composes the process with the coding slot.                  *)
(***************************************************************************)
EXTENDS Naturals

CONSTANTS Root,        \* the agent process
          Descendants, \* the processes it or they may create
          NoReport     \* the call has not returned

ASSUME BoundedProcessAssumption == Root \notin Descendants

VARIABLES
    sup,      \* where the supervisor is
    proc,     \* what each process is doing
    pipes,    \* who holds the output pipes
    inJob,    \* whether the root has been assigned to the job
    code,     \* the root's exit code
    timedOut, surviving, \* timed_out, and error, of the observation
    active,   \* ActiveProcesses # 0, as it was last queried
    report,   \* the ProcessObservation
    hit       \* ghost: somebody was terminated who was at work

limits == <<timedOut, surviving, active>>
tree == <<proc, pipes, code>>
procVars == <<sup, tree, inJob, limits, report, hit>>

Tree == {Root} \cup Descendants

\* Over: nobody supervises any more.
Over == {"idle", "returned", "raised", "vanished"}
Stages == {"created", "assigned", "communicate", "expired", "drain", "count",
           "survivors", "failing", "closing"}

ProcInit ==
    /\ sup = "idle"
    /\ proc = [p \in Tree |-> "none"]
    /\ pipes = {}
    /\ inJob = FALSE
    /\ code = "none"
    /\ timedOut = FALSE
    /\ surviving = FALSE
    /\ active = FALSE
    /\ report = NoReport
    /\ hit = FALSE

-----------------------------------------------------------------------------
(* Processes and the job.                                                  *)

Members == IF inJob THEN Tree ELSE Descendants
Present(p) == proc[p] \in {"suspended", "working", "dying"}

\* TerminateJobObject, or a closed handle with KILL_ON_JOB_CLOSE.
Killed(ps) ==
    [p \in Tree |-> IF p \in ps /\ Present(p) THEN "dying" ELSE proc[p]]

Terminate(ps) ==
    /\ proc' = Killed(ps)
    /\ hit' = (hit \/ \E p \in ps : proc[p] = "working")

\* Mutation: LimitFlags without JOB_OBJECT_LIMIT_KILL_ON_JOB_CLOSE.
CloseKeepsRunning == UNCHANGED <<proc, hit>>

\* job.close(), by the supervisor or because it vanished.
CloseJob == Terminate(Members)

\* communicate's condition: both pipes at their end and the root ended.
Finished == pipes = {} /\ proc[Root] = "gone"

\* QueryInformationJobObject.
Active == \E p \in Members : Present(p)

Spawn(p, q) ==
    /\ proc[p] = "working"
    /\ proc[q] = "none"
    /\ proc' = [proc EXCEPT ![q] = "working"]
    /\ pipes' \in {pipes, IF p \in pipes THEN pipes \cup {q} ELSE pipes}
    /\ UNCHANGED code

ClosePipe(p) ==
    /\ proc[p] = "working"
    /\ p \in pipes
    /\ pipes' = pipes \ {p}
    /\ UNCHANGED <<proc, code>>

\* A process ends by itself, the root with some exit code, or is gone at last.
End(p) ==
    /\ proc[p] \in {"working", "dying"}
    /\ proc' = [proc EXCEPT ![p] = "gone"]
    /\ pipes' = pipes \ {p}
    /\ IF p # Root THEN code' = code
       ELSE IF proc[p] = "dying" THEN code' = "one"
       ELSE code' \in {"zero", "one"}

Work ==
    /\ \E p \in Tree :
          \/ \E q \in Descendants : Spawn(p, q)
          \/ ClosePipe(p)
          \/ End(p)
    /\ UNCHANGED <<sup, inJob, limits, report, hit>>

-----------------------------------------------------------------------------
(* The supervisor.                                                         *)

\* Popen, suspended, with both pipes; without a process there is an
\* observation of the failure.
Create ==
    /\ sup = "idle"
    /\ sup' = "created"
    /\ proc' = [proc EXCEPT ![Root] = "suspended"]
    /\ pipes' = {Root}
    /\ UNCHANGED <<inJob, code, limits, report, hit>>

CreateFails ==
    /\ sup = "idle"
    /\ sup' = "returned"
    /\ report' = [pid |-> FALSE, code |-> "none", timedOut |-> FALSE,
                  error |-> TRUE, allGone |-> TRUE]
    /\ UNCHANGED <<tree, inJob, limits, hit>>

\* Arguments that are refused, or no job object.
NeverStarts ==
    /\ sup = "idle"
    /\ sup' = "raised"
    /\ UNCHANGED <<tree, inJob, limits, report, hit>>

\* Mutation: the process is created running.
AssignRunning ==
    /\ sup = "created"
    /\ \/ /\ proc[Root] = "suspended"
          /\ proc' = [proc EXCEPT ![Root] = "working"]
          /\ UNCHANGED <<sup, pipes, code, inJob, limits, report, hit>>
       \/ /\ proc[Root] # "suspended"
          /\ inJob' = TRUE
          /\ sup' = "communicate"
          /\ UNCHANGED <<tree, limits, report, hit>>

Assign ==
    /\ sup = "created"
    /\ inJob' = TRUE
    /\ sup' = "assigned"
    /\ UNCHANGED <<tree, limits, report, hit>>

\* NtResumeProcess.
Resume ==
    /\ sup = "assigned"
    /\ proc' = [proc EXCEPT ![Root] = "working"]
    /\ sup' = "communicate"
    /\ UNCHANGED <<pipes, code, inJob, limits, report, hit>>

\* communicate(timeout=...), the first time or after a termination.
Communicate ==
    /\ sup \in {"communicate", "drain"}
    /\ Finished
    /\ active' = Active
    /\ sup' = "count"
    /\ UNCHANGED <<tree, inJob, timedOut, surviving, report, hit>>

\* Mutation: communicate has no timeout.
ExpireNever == FALSE

\* TimeoutExpired: the root may still end by itself before the job is terminated.
Expire ==
    /\ sup = "communicate"
    /\ ~ Finished
    /\ timedOut' = TRUE
    /\ sup' = "expired"
    /\ UNCHANGED <<tree, inJob, surviving, active, report, hit>>

TerminateExpired ==
    /\ sup = "expired"
    /\ Terminate(Members)
    /\ sup' = "drain"
    /\ UNCHANGED <<pipes, code, inJob, limits, report>>

\* The second communicate times out too, or a call to the job fails.
Fail ==
    /\ \/ sup \in {"created", "assigned", "expired", "count", "survivors"}
       \/ sup = "drain" /\ ~ Finished
    /\ sup' = "failing"
    /\ UNCHANGED <<tree, inJob, limits, report, hit>>

\* The job is queried again and again while processes are active.
Recount ==
    /\ sup = "count"
    /\ active
    /\ active' = Active
    /\ UNCHANGED <<sup, tree, inJob, timedOut, surviving, report, hit>>

\* Mutation: survivors are terminated without an error.
DeadlineSilent ==
    /\ sup = "count"
    /\ active
    /\ Terminate(Members)
    /\ sup' = "survivors"
    /\ UNCHANGED <<pipes, code, inJob, limits, report>>

\* accounting_deadline: whoever is left is terminated, and this is an error.
Deadline ==
    /\ sup = "count"
    /\ active
    /\ surviving' = TRUE
    /\ Terminate(Members)
    /\ sup' = "survivors"
    /\ UNCHANGED <<pipes, code, inJob, timedOut, active, report>>

\* Mutation: terminated is taken for gone.
LastCountTrusting == FALSE

\* The job is queried once more after the termination of survivors.
LastCount == Active

\* The observation; the job's handle is closed on the way out.
Observe ==
    /\ \/ sup = "count" /\ ~ active /\ active' = active
       \/ sup = "survivors" /\ active' = LastCount
    /\ report' = [pid |-> TRUE, code |-> code, timedOut |-> timedOut,
                  error |-> surviving, allGone |-> ~ active']
    /\ CloseJob
    /\ sup' = "returned"
    /\ UNCHANGED <<pipes, code, inJob, timedOut, surviving>>

\* except: the job is terminated, if that works, and the root killed.
Kill ==
    /\ sup = "failing"
    /\ \E ps \in {Members, {}} : Terminate(ps \cup {Root})
    /\ sup' = "closing"
    /\ UNCHANGED <<pipes, code, inJob, limits, report>>

\* finally: the job is closed and the exception goes on.
Close ==
    /\ sup = "closing"
    /\ CloseJob
    /\ sup' = "raised"
    /\ UNCHANGED <<pipes, code, inJob, limits, report>>

\* The supervising process vanishes; the system closes its handles.
Vanish ==
    /\ sup \notin Over
    /\ CloseJob
    /\ sup' = "vanished"
    /\ UNCHANGED <<pipes, code, inJob, limits, report>>

Supervise ==
    \/ NeverStarts \/ Create \/ CreateFails \/ Assign \/ Resume
    \/ Communicate \/ Expire \/ TerminateExpired \/ Recount \/ Deadline
    \/ Fail \/ Observe \/ Kill \/ Close

-----------------------------------------------------------------------------
(* What the record of an attempt makes of an observation.                  *)

\* process_succeeded, process_failed of build_completed_attempt_record.
Succeeded(r) ==
    r.pid /\ r.code = "zero" /\ ~ r.error /\ ~ r.timedOut /\ r.allGone
Failed(r) ==
    ~ r.pid \/ r.error \/ r.timedOut \/ ~ r.allGone \/ r.code = "one"

Reports == [pid : BOOLEAN, code : {"none", "zero", "one"}, timedOut : BOOLEAN,
            error : BOOLEAN, allGone : BOOLEAN]

ProcTypeOK ==
    /\ sup \in Over \cup Stages
    /\ proc \in [Tree -> {"none", "suspended", "working", "dying", "gone"}]
    /\ pipes \subseteq Tree
    /\ {inJob, timedOut, surviving, active, hit} \subseteq BOOLEAN
    /\ code \in {"none", "zero", "one"}
    /\ report \in Reports \cup {NoReport}

\* However the call ends, and even when its process vanishes, no process of the
\* tree works on: what the clone and the slot are judged by is not being changed
\* behind the back of the controller.
NothingOutlives == sup \in Over => \A p \in Tree : proc[p] # "working"

\* An observation that says all descendants terminated is true, and stays true.
ReportIsTrue ==
    report # NoReport /\ report.allGone =>
        \A p \in Tree : proc[p] \in {"none", "gone"}

\* Only the work of a tree that came to its own end counts as a success, whatever
\* raced with the time limits; and what is no success is a failure.
OnlyUndisturbedWork ==
    report # NoReport =>
        /\ Succeeded(report) => ~ hit /\ proc[Root] = "gone"
        /\ Failed(report) <=> ~ Succeeded(report)
===============================================================================
