---------------------------- MODULE CodingAttempt -----------------------------
(***************************************************************************)
(* The coding slot with the agent processes that work for it: a controller *)
(* that has reserved an attempt starts one bounded process, waits for its  *)
(* ProcessObservation and builds the record from it.                       *)
(*                                                                         *)
(* CodingSlot lets an attempt end in any way at any time; here it ends     *)
(* when run_bounded_process returns or raises, as what that call observed. *)
(* The slot grants one attempt at a time, so there is one process tree; it *)
(* is forgotten when the record of its attempt has been built.             *)
(***************************************************************************)
EXTENDS CodingSlot, BoundedProcess

slotVars == vars
attemptVars == <<slotVars, procVars>>

AttemptInit == Init /\ ProcInit

\* The controller that waits for the process.
Driving(c) == pc[c] = "running"

StartAndSupervise(c) ==
    /\ Driving(c)
    /\ Supervise
    /\ UNCHANGED slotVars

\* The deadline of the loop that counts the processes of the job.
DeadlinePasses ==
    /\ Deadline
    /\ UNCHANGED slotVars

Agents == Work /\ UNCHANGED slotVars

\* The next attempt will have a process of its own.
Forget ==
    /\ sup' = "idle"
    /\ proc' = [p \in Tree |-> "none"]
    /\ pipes' = {}
    /\ code' = "none"
    /\ report' = NoReport
    /\ inJob' = FALSE
    /\ timedOut' = FALSE
    /\ surviving' = FALSE
    /\ active' = FALSE
    /\ hit' = FALSE

\* The observation becomes the record.
Conclude(c) ==
    /\ sup = "returned"
    /\ FinishWith(c, Succeeded(report))
    /\ Forget

\* Without an observation, or with a clone that nobody can explain, there is no
\* record.
Abandon(c) ==
    /\ sup \in {"raised", "returned"}
    /\ Unrecordable(c)
    /\ UNCHANGED procVars

\* The process of a controller vanishes, and what it supervised is closed.
ControllerVanishes(c) ==
    /\ Crash(c)
    /\ IF Driving(c) /\ sup \notin Over THEN Vanish ELSE UNCHANGED procVars

\* Everything else the controller does, without a process.
SlotStep(c) ==
    /\ ReadSlot(c) \/ Preflight(c) \/ Lock(c) \/ Locked(c) \/ Settle(c)
    /\ UNCHANGED procVars

AttemptNext ==
    \/ Agents
    \/ \E c \in Controllers :
          \/ SlotStep(c)
          \/ StartAndSupervise(c)
          \/ Conclude(c)
          \/ Abandon(c)
          \/ ControllerVanishes(c)

AttemptSpec == AttemptInit /\ [][AttemptNext]_attemptVars

\* A started call goes on: every wait in run_bounded_process has a time limit, and
\* the loop that counts has a deadline.  A call that lost the lock to another one
\* is made again and again.  Nothing is assumed of the agents: they may hang.
FairAttemptSpec ==
    /\ AttemptSpec
    /\ WF_attemptVars(DeadlinePasses)
    /\ \A c \in Controllers :
          /\ WF_attemptVars(StartAndSupervise(c))
          /\ WF_attemptVars(Conclude(c) \/ Abandon(c))
          /\ WF_attemptVars(Locked(c) /\ UNCHANGED procVars)
          /\ SF_attemptVars(Lock(c) /\ UNCHANGED procVars)

-----------------------------------------------------------------------------
\* Agents that hang, spawn processes or keep the pipes open cannot hold an
\* attempt: when the packet, baseline and executor stay the same, every attempt
\* that has started is ended by publish_coding_execution_record, unless its
\* controller is left without a record, publishes the remediation under the candidate id
\* of its parent, or vanishes, or the lock's holder does.
ReservationEnds ==
    \A c \in Controllers :
        Running(c) ~> \/ slot.reserved = None
                      \/ outcome[c] \in {"crashed", "unrecordable"}
                      \/ outcome[c] = "corrupt" /\ ReusesId(job[c])
                      \/ lock = Orphaned

\* A process of the agent works only while the reservation of its attempt is the
\* slot's: nobody writes to the clone of a candidate that is under review, or of
\* an attempt whose record is published.
WorksUnderReservation ==
    (\E p \in Tree : proc[p] = "working") =>
        /\ slot.reserved # None
        /\ \E c \in Controllers : Driving(c) /\ job[c] = slot.reserved
===============================================================================
