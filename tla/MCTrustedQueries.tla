--------------------------- MODULE MCTrustedQueries ---------------------------
(* Instances of TrustedQueries for TLC.                                    *)
EXTENDS TrustedQueries

AllCalls == DOMAIN Script

Planned == <<"DRAFT", "READY_FOR_CLASSIFICATION", "CLASSIFIED", "SPEC_READY", "PLAN_READY">>
Working == Append(Planned, "IMPLEMENTING")
Verified == Working \o <<"TASK_REVIEW", "INTEGRATING", "VERIFIED">>

\* Not yet there, new, at work, waiting, and resumed.
SomeHistories ==
    {<<>>, <<"DRAFT">>, Working, Append(Working, "WAITING_HUMAN"),
     Working \o <<"WAITING_HUMAN", "TASK_REVIEW">>}

\* A closure finds a task that is verified, that is a release candidate, or is not.
Closable ==
    {Verified, Append(Verified, "RC_READY"), Append(Verified, "WAITING_HUMAN")}

SomeProjects ==
    [c \in AllCalls |->
        IF c \in {"close", "release"} THEN [Tasks -> Closable]
                                      ELSE [Tasks -> SomeHistories]]
=============================================================================
