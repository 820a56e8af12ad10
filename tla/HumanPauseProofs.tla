--------------------------- MODULE HumanPauseProofs ---------------------------
(***************************************************************************)
(* The invariants of HumanPause, for every number of engines, tasks,       *)
(* requests and events.                                                    *)
(*                                                                         *)
(* The argument: a file is written only by the one engine that created it, *)
(* so once it is whole it never changes; and as long as the row of its     *)
(* task has not moved, a call knows the state it was prepared in.  A       *)
(* commit happens only then, with its file whole.                          *)
(***************************************************************************)
EXTENDS HumanPause, TLAPS

Calls == [task : Tasks, seq : 1..MaxSeq, to : States, target : States, file : Files,
          reply : Replies \cup {None}]

Typed == TypeOK /\ call \in [Engines -> Calls \cup {NoCall}]

\* The call is one that resumes, before its commit.
Resuming(e) ==
    /\ pc[e] \in {"list", "match", "resolve", "fillResolved"}
    /\ call[e].target # "WAITING_HUMAN"

\* What a call knows: of itself, of its file, and of a row that has not moved.
OwnOK(e) ==
    /\ call[e] \in Calls
    /\ call[e].file.stage = call[e].to
    /\ call[e].seq < MaxSeq /\ call[e].seq <= seq[call[e].task]
    /\ call[e].target = "WAITING_HUMAN" => call[e].seq + 1 < MaxSeq
    /\ call[e].target # "WAITING_HUMAN" => call[e].target = call[e].to
    /\ pc[e] \in {"create", "fill"} => call[e].target = "WAITING_HUMAN"
    /\ pc[e] \in {"list", "match"} => call[e].target # "WAITING_HUMAN"
    /\ pc[e] \in {"resolve", "fillResolved"} => call[e].reply \in Replies
    /\ Resuming(e) => call[e].reply = [id |-> CallId(e), file |-> call[e].file]

Answers(e) ==
    pending[CallId(e)] \in Files /\ pending[CallId(e)].stage = call[e].to

FileOK(e) ==
    /\ pc[e] = "fill" => pending[CallId(e)] = Torn
    /\ pc[e] = "fillResolved" => resolved[call[e].reply.id] = Torn
    /\ pc[e] \in {"resolve", "fillResolved", "commit"} /\ call[e].target = "WAITING_HUMAN" =>
          pending[CallId(e)] = call[e].file
    /\ Resuming(e) /\ pc[e] # "list" => Answers(e)

RowOK(e) ==
    LET t == call[e].task IN
    seq[t] = call[e].seq =>
        /\ call[e].target = "WAITING_HUMAN" => state[t] # "WAITING_HUMAN"
        /\ Resuming(e) => state[t] = "WAITING_HUMAN"
        /\ Resuming(e) /\ pc[e] \in {"resolve", "fillResolved"} =>
              call[e].to \in Transitions[previous[t]]
        /\ pc[e] = "commit" /\ state[t] = "WAITING_HUMAN" =>
              /\ resolved[CallId(e)] = call[e].file
              /\ Answers(e)
              /\ call[e].to \in Transitions[previous[t]]

CallOK(e) == pc[e] # "idle" => OwnOK(e) /\ FileOK(e) /\ RowOK(e)

\* A file that is being written has one writer.
OneWriter ==
    \A e, f \in Engines :
        e # f /\ pc[e] = pc[f] =>
            /\ pc[e] = "fill" => CallId(e) # CallId(f)
            /\ pc[e] = "fillResolved" => call[e].reply.id # call[f].reply.id

WaitOK(t) ==
    state[t] = "WAITING_HUMAN" =>
        /\ decision[t] = <<t, seq[t]>>
        /\ pending[decision[t]] \in Files
        /\ previous[t] \in States \ {"WAITING_HUMAN"}

SettledOK ==
    \A s \in settled :
        /\ resolved[s[1]] = s[2]
        /\ pending[s[1]] \in Files
        /\ pending[s[1]].stage = s[2].stage

IInv ==
    /\ Typed
    /\ \A e \in Engines : CallOK(e)
    /\ OneWriter
    /\ \A t \in Tasks : WaitOK(t)
    /\ SettledOK

-----------------------------------------------------------------------------
(* The policy.                                                             *)

\* What the proofs read of config/workflow_policy.yaml.
LEMMA PolicyFacts ==
  /\ "WAITING_HUMAN" \in States
  /\ "WAITING_HUMAN" \notin Transitions["WAITING_HUMAN"]
  /\ "DRAFT" \in States
  /\ \A s \in States : Transitions[s] \subseteq States
  BY DEF States, Transitions

\* What a prepared transition asks for.
LEMMA TargetFacts ==
  ASSUME NEW from \in States, NEW to, NEW gate \in BOOLEAN,
         ActualTarget(to, gate) \in Authorized(from, gate)
  PROVE  /\ ActualTarget(to, gate) \in States
         /\ ActualTarget(to, gate) = "WAITING_HUMAN" => from # "WAITING_HUMAN"
         /\ ActualTarget(to, gate) # "WAITING_HUMAN" => ActualTarget(to, gate) = to
<1>1. ActualTarget(to, gate) \in Transitions[from]
  BY DEF Authorized
<1>2. QED
  BY <1>1, PolicyFacts DEF ActualTarget

-----------------------------------------------------------------------------
(* Steps.                                                                  *)

\* How files and rows may change in a step of e.
Grown(e) ==
    /\ \A d \in Ids :
          \/ pending'[d] = pending[d]
          \/ pending[d] = None
          \/ pending[d] = Torn /\ pc[e] = "fill" /\ d = CallId(e)
    /\ \A d \in Ids :
          \/ resolved'[d] = resolved[d]
          \/ resolved[d] = None
          \/ resolved[d] = Torn /\ pc[e] = "fillResolved" /\ d = call[e].reply.id
    /\ \A t \in Tasks :
          \/ /\ state'[t] = state[t] /\ previous'[t] = previous[t]
             /\ seq'[t] = seq[t] /\ decision'[t] = decision[t]
          \/ seq'[t] = seq[t] + 1
    /\ \A f \in Engines \ {e} : pc'[f] = pc[f] /\ call'[f] = call[f]

\* What is known of a call.
LEMMA CallFacts ==
  ASSUME Typed, NEW e \in Engines, OwnOK(e)
  PROVE  /\ CallId(e) \in Ids /\ call[e].task \in Tasks /\ call[e].seq \in 1..MaxSeq
         /\ call[e].target \in States /\ call[e].to \in States /\ call[e].file \in Files
         /\ seq[call[e].task] \in 1..MaxSeq /\ MaxSeq \in Nat
         /\ call[e].file # None /\ call[e].file # Torn
         /\ pc[e] \in {"resolve", "fillResolved"} =>
               /\ call[e].reply.id \in Ids /\ call[e].reply.file \in Files
               /\ call[e].reply.file # None /\ call[e].reply.file # Torn
<1>1. call[e].task \in Tasks /\ call[e].seq \in 1..MaxSeq /\ call[e].file \in Files
      /\ call[e].target \in States /\ call[e].to \in States /\ MaxSeq \in Nat
  BY HumanPauseAssumption DEF OwnOK, Calls
<1>2. CallId(e) \in Ids
  BY <1>1 DEF CallId, Ids, OwnOK
<1>3. pc[e] \in {"resolve", "fillResolved"} =>
         call[e].reply.id \in Ids /\ call[e].reply.file \in Files
  BY DEF OwnOK, Replies
<1>4. QED
  BY <1>1, <1>2, <1>3, HumanPauseAssumption DEF Typed, TypeOK

\* Another engine keeps what it knows.
LEMMA OthersKept ==
  ASSUME IInv, NEW e \in Engines, Grown(e), NEW f \in Engines \ {e}
  PROVE  CallOK(f)'
<1> SUFFICES ASSUME pc'[f] # "idle" PROVE (OwnOK(f) /\ FileOK(f) /\ RowOK(f))'
  BY DEF CallOK
<1>1. /\ pc'[f] = pc[f] /\ call'[f] = call[f] /\ CallId(f)' = CallId(f)
      /\ OwnOK(f) /\ FileOK(f) /\ RowOK(f) /\ Typed
  BY DEF Grown, CallOK, IInv, CallId
<1>2. /\ CallId(f) \in Ids /\ call[f].task \in Tasks /\ call[f].seq \in 1..MaxSeq
      /\ seq[call[f].task] \in 1..MaxSeq /\ call[f].file # None /\ call[f].file # Torn
      /\ MaxSeq \in Nat
      /\ pc[f] = "fillResolved" => call[f].reply.id \in Ids
      /\ Resuming(f)' <=> Resuming(f)
  BY <1>1, CallFacts DEF Resuming
<1>3. seq'[call[f].task] = seq[call[f].task] \/ seq'[call[f].task] = seq[call[f].task] + 1
  BY <1>2 DEF Grown
<1>4. OwnOK(f)'
  BY <1>1, <1>2, <1>3 DEF OwnOK
<1>5. /\ pending[CallId(f)] # None /\ (pending[CallId(f)] # Torn \/ pc[f] = "fill") =>
            pending'[CallId(f)] = pending[CallId(f)]
      /\ resolved[CallId(f)] # None /\ resolved[CallId(f)] # Torn =>
            resolved'[CallId(f)] = resolved[CallId(f)]
      /\ pc[f] = "fillResolved" /\ resolved[call[f].reply.id] = Torn =>
            resolved'[call[f].reply.id] = Torn
  BY <1>2, HumanPauseAssumption DEF Grown, IInv, OneWriter
<1>6. None # Torn /\ None \notin Files /\ Torn \notin Files
  BY HumanPauseAssumption
<1>7. Answers(f) => Answers(f)'
  BY <1>1, <1>5, <1>6 DEF Answers
<1>8. FileOK(f)'
  BY <1>1, <1>2, <1>5, <1>6, <1>7 DEF FileOK
<1>9. RowOK(f)'
  <2>1. CASE seq'[call[f].task] = call[f].seq
    <3>1. seq'[call[f].task] = seq[call[f].task] /\ seq[call[f].task] = call[f].seq
      BY <1>1, <1>2, <1>3, <2>1 DEF OwnOK
    <3>2. state'[call[f].task] = state[call[f].task]
          /\ previous'[call[f].task] = previous[call[f].task]
      BY <1>2, <3>1 DEF Grown
    <3>3. QED
      BY <1>1, <1>2, <1>5, <1>6, <1>7, <3>1, <3>2 DEF RowOK
  <2>2. CASE seq'[call[f].task] # call[f].seq
    BY <1>1, <2>2 DEF RowOK
  <2>3. QED
    BY <2>1, <2>2
<1>10. QED
  BY <1>4, <1>8, <1>9

\* Whole files stay as they are.
LEMMA WholeFilesKept ==
  ASSUME IInv, NEW e \in Engines, Grown(e), NEW d \in Ids
  PROVE  /\ pending[d] \in Files => pending'[d] = pending[d]
         /\ resolved[d] \in Files => resolved'[d] = resolved[d]
  BY HumanPauseAssumption DEF Grown

\* Rows that have not moved, and what is settled, stay good.
LEMMA RowsKept ==
  ASSUME IInv, NEW e \in Engines, Grown(e)
  PROVE  /\ \A t \in Tasks : seq'[t] = seq[t] => WaitOK(t)'
         /\ \A s \in settled : /\ resolved'[s[1]] = s[2]
                               /\ pending'[s[1]] \in Files
                               /\ pending'[s[1]].stage = s[2].stage
<1>1. ASSUME NEW t \in Tasks, seq'[t] = seq[t]
      PROVE  WaitOK(t)'
  <2>1. /\ state'[t] = state[t] /\ previous'[t] = previous[t] /\ decision'[t] = decision[t]
        /\ WaitOK(t) /\ seq[t] \in 1..MaxSeq
    BY <1>1, HumanPauseAssumption DEF Grown, IInv, Typed, TypeOK
  <2>2. state[t] = "WAITING_HUMAN" => decision[t] \in Ids
    BY <2>1 DEF WaitOK, Ids
  <2>3. QED
    BY <1>1, <2>1, <2>2, WholeFilesKept DEF WaitOK
<1>2. ASSUME NEW s \in settled
      PROVE  /\ resolved'[s[1]] = s[2]
             /\ pending'[s[1]] \in Files
             /\ pending'[s[1]].stage = s[2].stage
  <2>1. s[1] \in Ids /\ s[2] \in Files
    BY DEF IInv, Typed, TypeOK
  <2>2. QED
    BY <2>1, WholeFilesKept DEF IInv, SettledOK
<1>3. QED
  BY <1>1, <1>2

\* A step of e that commits nothing: what it has to show.
LEMMA QuietStep ==
  ASSUME IInv, NEW e \in Engines, Grown(e), UNCHANGED rowVars,
         Typed', CallOK(e)', OneWriter'
  PROVE  IInv'
<1>1. UNCHANGED <<state, previous, seq, decision, settled>>
  BY DEF rowVars
<1>2. \A f \in Engines : CallOK(f)'
  BY OthersKept
<1>3. \A t \in Tasks : WaitOK(t)'
  BY <1>1, RowsKept
<1>4. SettledOK'
  BY <1>1, RowsKept DEF SettledOK
<1>5. QED
  BY <1>2, <1>3, <1>4 DEF IInv

\* The beginning.
LEMMA InitInvariant == Init => IInv
<1> SUFFICES ASSUME Init PROVE IInv
  OBVIOUS
<1>1. Starts \subseteq States /\ "WAITING_HUMAN" \notin Starts /\ MaxSeq \in Nat \ {0}
  BY HumanPauseAssumption
<1>2. \A t \in Tasks : state[t] \in States /\ state[t] # "WAITING_HUMAN"
  BY <1>1 DEF Init
<1>3. Typed
  BY <1>1, <1>2 DEF Init, Typed, TypeOK
<1>4. QED
  BY <1>2, <1>3 DEF Init, IInv, CallOK, OneWriter, WaitOK, SettledOK

\* A transition is prepared.
LEMMA RequestStep ==
  ASSUME IInv, NEW e \in Engines, NEW t \in Tasks, NEW to \in Targets,
         NEW gate \in BOOLEAN, NEW at \in Times, NEW reply, Prepare(e, t, to, gate, at, reply)
  PROVE  IInv'
<1> DEFINE target == ActualTarget(to, gate)
           c == [task |-> t, seq |-> seq[t], to |-> to, target |-> target,
                 file |-> [stage |-> to, at |-> at], reply |-> reply]
<1>1. Typed /\ to \in States /\ MaxSeq \in Nat /\ state[t] \in States /\ seq[t] \in 1..MaxSeq
  BY HumanPauseAssumption DEF IInv, Typed, TypeOK
<1>2. /\ target \in States
      /\ target = "WAITING_HUMAN" => state[t] # "WAITING_HUMAN"
      /\ target # "WAITING_HUMAN" => target = to
  BY <1>1, TargetFacts DEF Prepare
<1>3. /\ reply \in Replies \cup {None}
      /\ state[t] = "WAITING_HUMAN" /\ target # "WAITING_HUMAN" =>
            reply = [id |-> <<t, seq[t]>>, file |-> [stage |-> to, at |-> at]]
  <2>1. reply \in Carried(t, target, [stage |-> to, at |-> at])
    BY DEF Prepare
  <2>2. CASE target = "WAITING_HUMAN"
    <3>1. Named(t) \subseteq Ids /\ ReplyTimes([stage |-> to, at |-> at]) \subseteq Times
      BY DEF Named, ReplyTimes
    <3>2. Targets \subseteq States
      BY HumanPauseAssumption
    <3>3. QED
      BY <2>1, <2>2, <3>1, <3>2 DEF Carried, Replies, Files
  <2>3. CASE target # "WAITING_HUMAN"
    BY <1>1, <2>1, <2>3 DEF Carried, Replies, Files, Ids
  <2>4. QED
    BY <2>2, <2>3
<1>14. c \in Calls
  BY <1>1, <1>2, <1>3 DEF Calls, Files
<1>4. /\ call' = [call EXCEPT ![e] = c] /\ pc' = [pc EXCEPT ![e] = FirstStep(state[t], target)]
      /\ UNCHANGED <<state, previous, seq, decision, settled, pending, resolved, scan>>
      /\ seq[t] < MaxSeq /\ pc[e] = "idle"
      /\ target = "WAITING_HUMAN" => seq[t] + 1 < MaxSeq
  BY DEF Prepare, Goto, rowVars, fileVars
<1>5. FirstStep(state[t], target) \in {"create", "list", "commit"}
  BY DEF FirstStep
<1> HIDE DEF c
<1>6. call'[e] = c /\ pc'[e] = FirstStep(state[t], target)
  BY <1>1, <1>4 DEF Typed, TypeOK
<1>7. Typed'
  BY <1>1, <1>14, <1>4, <1>5 DEF Typed, TypeOK
<1>8. Grown(e)
  BY <1>1, <1>4 DEF Grown, Typed, TypeOK
<1>9. OwnOK(e)'
  BY <1>1, <1>2, <1>3, <1>4, <1>6, <1>14 DEF OwnOK, c, FirstStep, Resuming, CallId
<1>10. FileOK(e)'
  BY <1>2, <1>5, <1>6 DEF FileOK, FirstStep, c, Resuming
<1>11. RowOK(e)'
  BY <1>1, <1>2, <1>4, <1>6 DEF RowOK, FirstStep, c, Resuming
<1>12. OneWriter'
  BY <1>4, <1>5, <1>6, <1>8 DEF OneWriter, Grown, IInv, CallId
<1>13. QED
  BY <1>4, <1>7, <1>8, <1>9, <1>10, <1>11, <1>12, QuietStep DEF CallOK, rowVars

\* A call that ends with an error, or with its engine.
LEMMA RaiseStep ==
  ASSUME IInv, NEW e \in Engines, Raise(e)
  PROVE  IInv'
<1>1. Typed
  BY DEF IInv
<1>2. /\ call' = [call EXCEPT ![e] = NoCall] /\ pc' = [pc EXCEPT ![e] = "idle"]
      /\ scan' = [scan EXCEPT ![e] = {}]
      /\ UNCHANGED <<state, previous, seq, decision, settled, pending, resolved>>
  BY DEF Raise, Return, Goto, rowVars, fileVars
<1>3. pc'[e] = "idle"
  BY <1>1, <1>2 DEF Typed, TypeOK
<1>4. Typed'
  BY <1>1, <1>2 DEF Typed, TypeOK
<1>5. Grown(e)
  BY <1>1, <1>2 DEF Grown, Typed, TypeOK
<1>6. OneWriter'
  BY <1>3, <1>5 DEF OneWriter, Grown, IInv, CallId
<1>7. QED
  BY <1>2, <1>3, <1>4, <1>5, <1>6, QuietStep DEF CallOK, rowVars

\* A step of a call that goes on with the same transition and the same rows.
LEMMA ProgressFacts ==
  ASSUME IInv, NEW e \in Engines, NEW l, Goto(e, l), UNCHANGED <<rowVars, call>>,
         pc[e] # "idle"
  PROVE  /\ Typed /\ OwnOK(e) /\ FileOK(e) /\ RowOK(e)
         /\ pc'[e] = l /\ CallId(e)' = CallId(e)
         /\ UNCHANGED <<state, previous, seq, decision, settled, call>>
         /\ \A f \in Engines \ {e} : pc'[f] = pc[f] /\ call'[f] = call[f]
         /\ \A f \in Engines : CallId(f)' = CallId(f)
         /\ pc' = [pc EXCEPT ![e] = l]
  BY DEF IInv, CallOK, Typed, TypeOK, Goto, rowVars, CallId

\* Where a call goes once its request is on file.
AfterRequest(e) == IF call[e].reply = None THEN "commit" ELSE "resolve"

\* The pending file is created.
LEMMA CreateStep ==
  ASSUME IInv, NEW e \in Engines, Create(e)
  PROVE  IInv'
<1>1. CASE /\ pending[CallId(e)] = None
           /\ pending' = [pending EXCEPT ![CallId(e)] = Torn]
           /\ Goto(e, "fill")
           /\ UNCHANGED <<rowVars, resolved, call, scan>>
  <2>1. /\ Typed /\ OwnOK(e) /\ FileOK(e) /\ RowOK(e) /\ pc[e] = "create"
        /\ pc'[e] = "fill" /\ CallId(e)' = CallId(e) /\ pc' = [pc EXCEPT ![e] = "fill"]
        /\ UNCHANGED <<state, previous, seq, decision, settled, call, resolved, scan>>
        /\ \A f \in Engines \ {e} : pc'[f] = pc[f] /\ call'[f] = call[f]
        /\ \A f \in Engines : CallId(f)' = CallId(f)
    BY <1>1, ProgressFacts DEF Create
  <2>2. CallId(e) \in Ids
    BY <2>1, CallFacts
  <2>3. /\ pending'[CallId(e)] = Torn
        /\ \A d \in Ids \ {CallId(e)} : pending'[d] = pending[d]
    BY <1>1, <2>1, <2>2 DEF Typed, TypeOK
  <2>4. Typed'
    BY <1>1, <2>1 DEF Typed, TypeOK
  <2>5. Grown(e)
    BY <1>1, <2>1, <2>3 DEF Grown
  <2>6. CallOK(e)'
    BY <2>1, <2>3 DEF CallOK, OwnOK, FileOK, RowOK, Resuming
  <2>7. OneWriter'
    <3>1. \A f \in Engines : pc[f] = "fill" => pending[CallId(f)] = Torn
      BY DEF IInv, CallOK, FileOK
    <3>2. \A f \in Engines : pc[f] = "fill" => CallId(f) # CallId(e)
      BY <1>1, <3>1, HumanPauseAssumption
    <3>3. QED
      BY <2>1, <3>2 DEF OneWriter, IInv
  <2>8. QED
    BY <2>4, <2>5, <2>6, <2>7, <1>1, QuietStep
<1>2. CASE /\ SameWritten(pending[CallId(e)], call[e].file)
           /\ Requested(e)
           /\ UNCHANGED <<rowVars, fileVars, call, scan>>
  <2>1. /\ Typed /\ OwnOK(e) /\ FileOK(e) /\ RowOK(e) /\ pc[e] = "create"
        /\ pc'[e] = AfterRequest(e) /\ CallId(e)' = CallId(e)
        /\ pc' = [pc EXCEPT ![e] = AfterRequest(e)]
        /\ AfterRequest(e) \in {"commit", "resolve"}
        /\ AfterRequest(e) = "resolve" => call[e].reply \in Replies
        /\ UNCHANGED <<state, previous, seq, decision, settled, call, resolved, pending, scan>>
        /\ \A f \in Engines \ {e} : pc'[f] = pc[f] /\ call'[f] = call[f]
        /\ \A f \in Engines : CallId(f)' = CallId(f)
    BY <1>2, ProgressFacts DEF Create, fileVars, Requested, AfterRequest, OwnOK, Calls
  <2>2. Typed'
    BY <2>1 DEF Typed, TypeOK
  <2>3. Grown(e)
    BY <2>1 DEF Grown
  <2>4. CallOK(e)'
    BY <1>2, <2>1 DEF CallOK, OwnOK, FileOK, RowOK, Resuming, SameWritten
  <2>5. OneWriter'
    BY <2>1 DEF OneWriter, IInv
  <2>6. QED
    BY <2>2, <2>3, <2>4, <2>5, <1>2, QuietStep
<1>3. CASE Raise(e)
  BY <1>3, RaiseStep
<1>4. QED
  BY <1>1, <1>2, <1>3 DEF Create

\* The pending file is written.
LEMMA FillStep ==
  ASSUME IInv, NEW e \in Engines, Fill(e)
  PROVE  IInv'
<1>1. /\ Typed /\ OwnOK(e) /\ FileOK(e) /\ RowOK(e) /\ pc[e] = "fill"
      /\ pc'[e] = AfterRequest(e) /\ CallId(e)' = CallId(e)
      /\ pc' = [pc EXCEPT ![e] = AfterRequest(e)]
      /\ AfterRequest(e) \in {"commit", "resolve"}
      /\ AfterRequest(e) = "resolve" => call[e].reply \in Replies
      /\ UNCHANGED <<state, previous, seq, decision, settled, call, resolved, scan>>
      /\ \A f \in Engines \ {e} : pc'[f] = pc[f] /\ call'[f] = call[f]
      /\ \A f \in Engines : CallId(f)' = CallId(f)
  BY ProgressFacts DEF Fill, Requested, AfterRequest, OwnOK, Calls
<1>2. CallId(e) \in Ids /\ call[e].file \in Files
  BY <1>1, CallFacts
<1>3. /\ pending' = [pending EXCEPT ![CallId(e)] = call[e].file]
      /\ pending'[CallId(e)] = call[e].file /\ pending[CallId(e)] = Torn
      /\ \A d \in Ids \ {CallId(e)} : pending'[d] = pending[d]
  BY <1>1, <1>2 DEF Fill, Typed, TypeOK, FileOK
<1>4. Typed'
  BY <1>1, <1>2, <1>3 DEF Typed, TypeOK
<1>5. Grown(e)
  BY <1>1, <1>3 DEF Grown
<1>6. CallOK(e)'
  BY <1>1, <1>3 DEF CallOK, OwnOK, FileOK, RowOK, Resuming
<1>7. OneWriter'
  BY <1>1 DEF OneWriter, IInv
<1>8. QED
  BY <1>4, <1>5, <1>6, <1>7, QuietStep DEF Fill

\* The pending requests are listed, and matched with the waiting rows.
LEMMA ListStep ==
  ASSUME IInv, NEW e \in Engines, ListPending(e) \/ MatchWaiting(e)
  PROVE  IInv'
<1>1. ASSUME ~ Raise(e)
      PROVE  IInv'
  <2>1. PICK l \in {"match", "resolve"} :
           /\ Goto(e, l) /\ UNCHANGED <<rowVars, fileVars, call>>
           /\ l = "match" => pc[e] = "list" /\ Answers(e) /\ scan' \in [Engines -> SUBSET Ids]
           /\ l = "resolve" => /\ pc[e] = "match" /\ scan' = scan
                               /\ call[e].to \in Transitions[previous[call[e].task]]
    <3>1. CASE ListPending(e)
      <4>1. /\ Goto(e, "match") /\ UNCHANGED <<rowVars, fileVars, call>> /\ pc[e] = "list"
            /\ scan' = [scan EXCEPT ![e] = {k \in {d \in Ids : pending[d] # None} :
                                               Unresolved(k)}]
            /\ CallId(e) \in {k \in Ids : pending[k] # None}
            /\ \A k \in {d \in Ids : pending[d] # None} : pending[k] # Torn
            /\ pending[CallId(e)].stage = call[e].to
        BY <1>1, <3>1 DEF ListPending
      <4>2. pending[CallId(e)] \in Files
        BY <4>1 DEF IInv, Typed, TypeOK
      <4>3. scan' \in [Engines -> SUBSET Ids]
        BY <4>1 DEF IInv, Typed, TypeOK
      <4>4. QED
        BY <4>1, <4>2, <4>3 DEF Answers
    <3>2. CASE MatchWaiting(e)
      BY <1>1, <3>2 DEF MatchWaiting, Resumable
    <3>3. QED
      BY <3>1, <3>2
  <2>2. /\ Typed /\ OwnOK(e) /\ FileOK(e) /\ RowOK(e) /\ pc[e] \in {"list", "match"}
        /\ pc'[e] = l /\ CallId(e)' = CallId(e) /\ pc' = [pc EXCEPT ![e] = l]
        /\ UNCHANGED <<state, previous, seq, decision, settled, call, resolved, pending>>
        /\ \A f \in Engines \ {e} : pc'[f] = pc[f] /\ call'[f] = call[f]
        /\ \A f \in Engines : CallId(f)' = CallId(f)
    BY <2>1, ProgressFacts DEF fileVars
  <2>3. Typed'
    BY <2>1, <2>2 DEF Typed, TypeOK
  <2>4. Grown(e)
    BY <2>2 DEF Grown
  <2>5. CallOK(e)'
    <3>1. CallId(e) \in Ids /\ call[e].file \in Files
      BY <2>2, CallFacts
    <3>2. call[e].reply \in Replies
      BY <2>2, <3>1 DEF OwnOK, Resuming, Replies
    <3>3. QED
      BY <2>1, <2>2, <3>2 DEF CallOK, OwnOK, FileOK, RowOK, Resuming, Answers
  <2>6. OneWriter'
    BY <2>2 DEF OneWriter, IInv
  <2>7. QED
    BY <2>1, <2>3, <2>4, <2>5, <2>6, QuietStep
<1>2. QED
  BY <1>1, RaiseStep

\* The resolution is created.
LEMMA ResolveStep ==
  ASSUME IInv, NEW e \in Engines, Resolve(e)
  PROVE  IInv'
<1>1. CASE /\ resolved[call[e].reply.id] = None
           /\ resolved' = [resolved EXCEPT ![call[e].reply.id] = Torn]
           /\ Goto(e, "fillResolved")
           /\ UNCHANGED <<rowVars, pending, call, scan>>
  <2>1. /\ Typed /\ OwnOK(e) /\ FileOK(e) /\ RowOK(e) /\ pc[e] = "resolve"
        /\ pc'[e] = "fillResolved" /\ CallId(e)' = CallId(e)
        /\ pc' = [pc EXCEPT ![e] = "fillResolved"]
        /\ UNCHANGED <<state, previous, seq, decision, settled, call, pending, scan>>
        /\ \A f \in Engines \ {e} : pc'[f] = pc[f] /\ call'[f] = call[f]
        /\ \A f \in Engines : CallId(f)' = CallId(f)
    BY <1>1, ProgressFacts DEF Resolve
  <2>2. call[e].reply.id \in Ids
    BY <2>1, CallFacts
  <2>3. /\ resolved'[call[e].reply.id] = Torn
        /\ \A d \in Ids \ {call[e].reply.id} : resolved'[d] = resolved[d]
    BY <1>1, <2>1, <2>2 DEF Typed, TypeOK
  <2>4. Typed'
    BY <1>1, <2>1 DEF Typed, TypeOK
  <2>5. Grown(e)
    BY <1>1, <2>1, <2>3 DEF Grown
  <2>6. CallOK(e)'
    BY <2>1, <2>3 DEF CallOK, OwnOK, FileOK, RowOK, Resuming, Answers
  <2>7. OneWriter'
    <3>1. \A f \in Engines : pc[f] = "fillResolved" => resolved[call[f].reply.id] = Torn
      BY DEF IInv, CallOK, FileOK
    <3>2. \A f \in Engines : pc[f] = "fillResolved" => call[f].reply.id # call[e].reply.id
      BY <1>1, <3>1, HumanPauseAssumption
    <3>3. QED
      BY <2>1, <3>2 DEF OneWriter, IInv
  <2>8. QED
    BY <2>4, <2>5, <2>6, <2>7, <1>1, QuietStep
<1>2. CASE /\ SameWritten(resolved[call[e].reply.id], call[e].reply.file)
           /\ Goto(e, "commit")
           /\ UNCHANGED <<rowVars, fileVars, call, scan>>
  <2>1. /\ Typed /\ OwnOK(e) /\ FileOK(e) /\ RowOK(e) /\ pc[e] = "resolve"
        /\ pc'[e] = "commit" /\ CallId(e)' = CallId(e) /\ pc' = [pc EXCEPT ![e] = "commit"]
        /\ UNCHANGED <<state, previous, seq, decision, settled, call, resolved, pending, scan>>
        /\ \A f \in Engines \ {e} : pc'[f] = pc[f] /\ call'[f] = call[f]
        /\ \A f \in Engines : CallId(f)' = CallId(f)
    BY <1>2, ProgressFacts DEF Resolve, fileVars
  <2>2. Typed'
    BY <2>1 DEF Typed, TypeOK
  <2>3. Grown(e)
    BY <2>1 DEF Grown
  <2>4. CallOK(e)'
    BY <1>2, <2>1 DEF CallOK, OwnOK, FileOK, RowOK, Resuming, SameWritten, Answers
  <2>5. OneWriter'
    BY <2>1 DEF OneWriter, IInv
  <2>6. QED
    BY <2>2, <2>3, <2>4, <2>5, <1>2, QuietStep
<1>3. CASE Raise(e)
  BY <1>3, RaiseStep
<1>4. QED
  BY <1>1, <1>2, <1>3 DEF Resolve

\* The resolution is written.
LEMMA FillResolvedStep ==
  ASSUME IInv, NEW e \in Engines, FillResolved(e)
  PROVE  IInv'
<1>1. /\ Typed /\ OwnOK(e) /\ FileOK(e) /\ RowOK(e) /\ pc[e] = "fillResolved"
      /\ pc'[e] = "commit" /\ CallId(e)' = CallId(e) /\ pc' = [pc EXCEPT ![e] = "commit"]
      /\ UNCHANGED <<state, previous, seq, decision, settled, call, pending, scan>>
      /\ \A f \in Engines \ {e} : pc'[f] = pc[f] /\ call'[f] = call[f]
      /\ \A f \in Engines : CallId(f)' = CallId(f)
  BY ProgressFacts DEF FillResolved
<1>2. call[e].reply.id \in Ids /\ call[e].reply.file \in Files
  BY <1>1, CallFacts
<1>3. /\ resolved' = [resolved EXCEPT ![call[e].reply.id] = call[e].reply.file]
      /\ resolved'[call[e].reply.id] = call[e].reply.file /\ resolved[call[e].reply.id] = Torn
      /\ \A d \in Ids \ {call[e].reply.id} : resolved'[d] = resolved[d]
  BY <1>1, <1>2 DEF FillResolved, Typed, TypeOK, FileOK
<1>4. Typed'
  BY <1>1, <1>2, <1>3 DEF Typed, TypeOK
<1>5. Grown(e)
  BY <1>1, <1>3 DEF Grown
<1>6. CallOK(e)'
  BY <1>1, <1>3 DEF CallOK, OwnOK, FileOK, RowOK, Resuming, Answers
<1>7. OneWriter'
  BY <1>1 DEF OneWriter, IInv
<1>8. QED
  BY <1>4, <1>5, <1>6, <1>7, QuietStep DEF FillResolved

\* A call at the head of its task commits: what it does to the row.
LEMMA CommitFacts ==
  ASSUME IInv, NEW e \in Engines, Commit(e), AtHead(e), ~ Raise(e)
  PROVE  LET t == call[e].task IN
         /\ Typed /\ OwnOK(e) /\ FileOK(e) /\ RowOK(e) /\ pc[e] = "commit"
         /\ t \in Tasks /\ seq[t] = call[e].seq
         /\ state' = [state EXCEPT ![t] = call[e].target]
         /\ previous' = [previous EXCEPT ![t] = state[t]]
         /\ seq' = [seq EXCEPT ![t] = seq[t] + 1]
         /\ decision' = [decision EXCEPT ![t] = NextDecision(e)]
         /\ settled' = IF state[t] = "WAITING_HUMAN"
                       THEN settled \cup {<<CallId(e), call[e].file>>} ELSE settled
         /\ call' = [call EXCEPT ![e] = NoCall] /\ pc' = [pc EXCEPT ![e] = "idle"]
         /\ scan' = [scan EXCEPT ![e] = {}]
         /\ UNCHANGED <<pending, resolved>>
<1>1. pc[e] = "commit" /\ Typed /\ OwnOK(e) /\ FileOK(e) /\ RowOK(e)
  BY DEF Commit, IInv, CallOK
<1>2. call[e].task \in Tasks /\ seq[call[e].task] = call[e].seq
  BY <1>1, CallFacts DEF AtHead
<1>3. QED
  BY <1>1, <1>2 DEF Commit, Return, Goto, fileVars

\* The transition is committed.
LEMMA CommitStep ==
  ASSUME IInv, NEW e \in Engines, Commit(e)
  PROVE  IInv'
<1>1. CASE ~ AtHead(e) \/ Raise(e)
  BY <1>1, RaiseStep DEF Commit
<1>2. CASE AtHead(e) /\ ~ Raise(e)
  <2> DEFINE t == call[e].task
  <2>1. /\ Typed /\ OwnOK(e) /\ FileOK(e) /\ RowOK(e) /\ pc[e] = "commit"
        /\ t \in Tasks /\ seq[t] = call[e].seq
        /\ state' = [state EXCEPT ![t] = call[e].target]
        /\ previous' = [previous EXCEPT ![t] = state[t]]
        /\ seq' = [seq EXCEPT ![t] = seq[t] + 1]
        /\ decision' = [decision EXCEPT ![t] = NextDecision(e)]
        /\ settled' = IF state[t] = "WAITING_HUMAN"
                      THEN settled \cup {<<CallId(e), call[e].file>>} ELSE settled
        /\ call' = [call EXCEPT ![e] = NoCall] /\ pc' = [pc EXCEPT ![e] = "idle"]
        /\ scan' = [scan EXCEPT ![e] = {}]
        /\ UNCHANGED <<pending, resolved>>
    BY <1>2, CommitFacts
  <2>2. /\ CallId(e) \in Ids /\ call[e].file \in Files /\ call[e].target \in States
        /\ seq[t] \in 1..MaxSeq /\ MaxSeq \in Nat /\ seq[t] + 1 \in 1..MaxSeq
        /\ state[t] \in States
    BY <2>1, CallFacts DEF OwnOK, Typed, TypeOK
  <2>3. pc'[e] = "idle" /\ \A f \in Engines \ {e} : pc'[f] = pc[f] /\ call'[f] = call[f]
    BY <2>1 DEF Typed, TypeOK
  <2>4. /\ state'[t] = call[e].target /\ previous'[t] = state[t] /\ seq'[t] = seq[t] + 1
        /\ decision'[t] = NextDecision(e)
        /\ \A u \in Tasks \ {t} : /\ state'[u] = state[u] /\ previous'[u] = previous[u]
                                  /\ seq'[u] = seq[u] /\ decision'[u] = decision[u]
    BY <2>1 DEF Typed, TypeOK
  <2>5. NextDecision(e) \in Ids \cup {None}
        /\ (call[e].target = "WAITING_HUMAN" <=> NextDecision(e) # None)
    BY <2>2, HumanPauseAssumption DEF NextDecision
  <2>6. Typed'
    <3>1. /\ state' \in [Tasks -> States] /\ previous' \in [Tasks -> States \cup {None}]
          /\ seq' \in [Tasks -> 1..MaxSeq] /\ decision' \in [Tasks -> Ids \cup {None}]
      BY <2>1, <2>2, <2>5 DEF Typed, TypeOK
    <3>2. \A u \in Tasks : state'[u] = "WAITING_HUMAN" <=> decision'[u] # None
      BY <2>1, <2>4, <2>5 DEF Typed, TypeOK
    <3>3. settled' \subseteq Ids \X Files
      BY <2>1, <2>2 DEF Typed, TypeOK
    <3>4. QED
      BY <2>1, <3>1, <3>2, <3>3 DEF Typed, TypeOK
  <2>7. Grown(e)
    BY <2>1, <2>3, <2>4 DEF Grown
  <2>8. \A f \in Engines : CallOK(f)'
    BY <2>3, <2>7, OthersKept DEF CallOK
  <2>9. OneWriter'
    BY <2>3 DEF OneWriter, IInv, CallId
  <2>10. \A u \in Tasks : WaitOK(u)'
    <3>1. ASSUME NEW u \in Tasks, u # call[e].task
          PROVE  WaitOK(u)'
      BY <2>4, <2>7, <3>1, RowsKept
    <3>2. ASSUME NEW u \in Tasks, u = call[e].task
          PROVE  WaitOK(u)'
      <4>1. CASE call[e].target = "WAITING_HUMAN"
        <5>1. /\ decision'[u] = CallId(e) /\ CallId(e) = <<u, seq'[u]>>
              /\ pending'[CallId(e)] = call[e].file
              /\ state[u] # "WAITING_HUMAN"
          BY <2>1, <2>4, <3>2, <4>1 DEF NextDecision, CallId, FileOK, RowOK
        <5>2. pending'[decision'[u]] \in Files /\ previous'[u] = state[u]
          BY <2>2, <2>4, <3>2, <5>1
        <5>3. previous'[u] \in States \ {"WAITING_HUMAN"}
          BY <2>2, <3>2, <5>1, <5>2
        <5>4. QED
          BY <5>1, <5>2, <5>3 DEF WaitOK
      <4>2. CASE call[e].target # "WAITING_HUMAN"
        <5>1. state'[u] # "WAITING_HUMAN"
          BY <2>4, <3>2, <4>2
        <5>2. QED
          BY <5>1 DEF WaitOK
      <4>3. QED
        BY <4>1, <4>2
    <3>3. QED
      BY <3>1, <3>2
  <2>11. SettledOK'
    <3>1. ASSUME NEW s \in settled'
          PROVE  /\ resolved'[s[1]] = s[2] /\ pending'[s[1]] \in Files
                 /\ pending'[s[1]].stage = s[2].stage
      <4>1. CASE s \in settled
        BY <2>7, <4>1, RowsKept
      <4>2. CASE s \notin settled
        <5>1. s = <<CallId(e), call[e].file>> /\ state[t] = "WAITING_HUMAN"
          BY <2>1, <4>2
        <5>2. resolved[CallId(e)] = call[e].file /\ Answers(e)
          BY <2>1, <5>1 DEF RowOK
        <5>3. QED
          BY <2>1, <5>1, <5>2 DEF Answers, OwnOK
      <4>3. QED
        BY <4>1, <4>2
    <3>2. QED
      BY <3>1 DEF SettledOK
  <2>12. QED
    BY <2>6, <2>8, <2>9, <2>10, <2>11 DEF IInv
<1>3. QED
  BY <1>1, <1>2

-----------------------------------------------------------------------------
(* The specification.                                                      *)

\* Every step keeps the invariant.
LEMMA NextInvariant == IInv /\ [Next]_vars => IInv'
<1> SUFFICES ASSUME IInv, [Next]_vars PROVE IInv'
  OBVIOUS
<1>1. CASE UNCHANGED vars
  BY <1>1 DEF vars, rowVars, fileVars, IInv, Typed, TypeOK, CallOK, OwnOK, FileOK, RowOK,
              Answers, Resuming, CallId, OneWriter, WaitOK, SettledOK
<1>2. CASE Next
  <2>1. PICK e \in Engines : (\E t \in Tasks : Request(e, t)) \/ Proceed(e) \/ Crash(e)
    BY <1>2 DEF Next
  <2>2. CASE \E t \in Tasks : Request(e, t)
    BY <2>2, RequestStep DEF Request
  <2>3. CASE Proceed(e)
    BY <2>3, CreateStep, FillStep, ListStep, ResolveStep, FillResolvedStep, CommitStep
       DEF Proceed
  <2>4. CASE Crash(e)
    BY <2>4, RaiseStep DEF Crash
  <2>5. QED
    BY <2>1, <2>2, <2>3, <2>4
<1>3. QED
  BY <1>1, <1>2

\* The invariant of every reachable state.
LEMMA SpecInvariant == Spec => []IInv
  BY InitInvariant, NextInvariant, PTL DEF Spec

\* Rows, files and calls keep their types; a task has a decision exactly while it
\* waits.
THEOREM TypeCorrect == Spec => []TypeOK
<1>1. IInv => TypeOK
  BY DEF IInv, Typed
<1>2. QED
  BY <1>1, SpecInvariant, PTL

\* A task that waits has its own complete pending record.
THEOREM RequestOnFile == Spec => []WaitingHasItsRequest
<1>1. IInv => WaitingHasItsRequest
  BY HumanPauseAssumption DEF IInv, WaitOK, WaitingHasItsRequest
<1>2. QED
  BY <1>1, SpecInvariant, PTL

\* Every committed resume is bound to the one resolution on file.
THEOREM ResumesRecorded == Spec => []ResumesAreRecorded
<1>1. IInv => ResumesAreRecorded
  BY DEF IInv, SettledOK, ResumesAreRecorded
<1>2. QED
  BY <1>1, SpecInvariant, PTL

\* A task leaves WAITING_HUMAN only for the approved stage, and only when that
\* stage could have been reached from where it was paused.
THEOREM ResumesApproved == Spec => ResumesWhereApproved
<1>1. IInv /\ [Next]_vars =>
         [\A t \in Tasks :
             state[t] = "WAITING_HUMAN" /\ seq'[t] # seq[t] =>
                 /\ state'[t] = pending[decision[t]].stage
                 /\ state'[t] \in Transitions[previous[t]]]_vars
  <2> SUFFICES ASSUME IInv, Next, NEW t \in Tasks, state[t] = "WAITING_HUMAN",
                      seq'[t] # seq[t]
               PROVE  /\ state'[t] = pending[decision[t]].stage
                      /\ state'[t] \in Transitions[previous[t]]
    OBVIOUS
  <2>1. PICK e \in Engines : Commit(e) /\ AtHead(e) /\ ~ Raise(e)
    <3>1. ASSUME NEW e \in Engines, NEW u \in Tasks, Request(e, u)
          PROVE  FALSE
      BY <3>1 DEF Request, Prepare, rowVars
    <3>2. ASSUME NEW e \in Engines, Proceed(e) \/ Crash(e)
          PROVE  Commit(e) /\ AtHead(e) /\ ~ Raise(e)
      BY <3>2 DEF Proceed, Create, Fill, ListPending, MatchWaiting, Resolve, FillResolved,
                  Commit, Crash, Raise, rowVars
    <3>3. QED
      BY <3>1, <3>2 DEF Next
  <2>2. /\ Typed /\ OwnOK(e) /\ FileOK(e) /\ RowOK(e) /\ pc[e] = "commit"
        /\ call[e].task \in Tasks /\ seq[call[e].task] = call[e].seq
        /\ state' = [state EXCEPT ![call[e].task] = call[e].target]
        /\ seq' = [seq EXCEPT ![call[e].task] = seq[call[e].task] + 1]
    BY <2>1, CommitFacts
  <2>3. t = call[e].task /\ state'[t] = call[e].target
    BY <2>2 DEF Typed, TypeOK
  <2>4. call[e].target # "WAITING_HUMAN" /\ call[e].target = call[e].to
        /\ Answers(e) /\ call[e].to \in Transitions[previous[t]]
    BY <2>2, <2>3 DEF RowOK, OwnOK
  <2>5. CallId(e) = decision[t]
    BY <2>2, <2>3, <2>4 DEF CallId, IInv, WaitOK
  <2>6. QED
    BY <2>3, <2>4, <2>5 DEF Answers
<1>2. QED
  BY <1>1, SpecInvariant, PTL DEF Spec, ResumesWhereApproved
===============================================================================
