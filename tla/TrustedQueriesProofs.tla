------------------------- MODULE TrustedQueriesProofs -------------------------
(***************************************************************************)
(* Proofs about TrustedQueries.                                            *)
(*                                                                         *)
(* The first half is about the scripts alone: each is put together from    *)
(* smaller ones, so it suffices that every part relies only on what an     *)
(* earlier one establishes.  The second half is about behaviours: what an  *)
(* instruction that has been left behind has established, nobody else can  *)
(* take back unnoticed.                                                    *)
(***************************************************************************)
EXTENDS TrustedQueries, SequenceTheorems, WellFoundedInduction, TLAPS

-----------------------------------------------------------------------------
(* Well-formed scripts.                                                    *)

\* What an instruction relies on, and what it establishes.
Needs(step) ==
    CASE step[1] \in {"collect", "status", "open", "read", "take"} -> {}
      [] step[1] \in {"reread", "bind"} -> {step[2]}
      [] step[1] = "agree" -> {"seen", "kept"}
      [] step[1] = "compare" -> {"seen", "opened"}
      [] step[1] = "reopen" -> {"opened", "compared"}
      [] step[1] = "commit" -> {"seen", "fit"}
      [] OTHER -> {"seen"}

Gives(step) ==
    CASE step[1] \in {"collect", "status"} -> {"seen"}
      [] step[1] = "keep" -> {"kept"}
      [] step[1] = "open" -> {"opened"}
      [] step[1] = "compare" -> {"compared"}
      [] step[1] = "fits" -> {"fit"}
      [] step[1] = "read" -> {step[2]}
      [] OTHER -> {}

\* Each instruction finds what it relies on, given what there is beforehand.
Provided(s, given) ==
    \A n \in 1..Len(s) : \A x \in Needs(s[n]) :
        x \in given \/ \E m \in 1..(n - 1) : x \in Gives(s[m])

\* list_pending has two halves, and queues are compared right after the second.
Paired(s) ==
    \A n \in 1..Len(s) :
        /\ s[n][1] = "waits" => n > 1 /\ s[n - 1] = <<"list", s[n][2]>>
        /\ s[n][1] = "agree" => n > 1 /\ s[n - 1] = <<"waits", 0>>

WellFormed(s, steps, given) ==
    s \in Seq(steps) /\ Paired(s) /\ Provided(s, given)

\* Where the steps of a concatenation come from.
LEMMA Places ==
    ASSUME NEW steps, NEW s \in Seq(steps), NEW r \in Seq(steps)
    PROVE  /\ s \o r \in Seq(steps) /\ Len(s \o r) = Len(s) + Len(r)
           /\ Len(s) \in Nat /\ Len(r) \in Nat
           /\ \A n \in 1..Len(s) : (s \o r)[n] = s[n]
           /\ \A n \in 1..Len(r) : (s \o r)[Len(s) + n] = r[n]
  OBVIOUS

\* Scripts are put together from scripts.
LEMMA Then ==
    ASSUME NEW steps, NEW given, NEW later, NEW s, NEW r,
           WellFormed(s, steps, given), WellFormed(r, steps, later),
           \A x \in later : x \in given \/ \E m \in 1..Len(s) : x \in Gives(s[m])
    PROVE  WellFormed(s \o r, steps, given)
<1> DEFINE sr == s \o r
<1>1. s \in Seq(steps) /\ r \in Seq(steps)
  BY DEF WellFormed
<1>2. /\ sr \in Seq(steps) /\ Len(sr) = Len(s) + Len(r)
      /\ Len(s) \in Nat /\ Len(r) \in Nat
      /\ \A n \in 1..Len(s) : sr[n] = s[n]
      /\ \A n \in 1..Len(r) : sr[Len(s) + n] = r[n]
  BY <1>1
<1> HIDE DEF sr
<1>3. \A n \in 1..Len(sr) : n \in 1..Len(s) \/ \E i \in 1..Len(r) : n = Len(s) + i
  <2> TAKE n \in 1..Len(sr)
  <2>1. CASE n > Len(s)
    <3>1. n - Len(s) \in 1..Len(r) /\ n = Len(s) + (n - Len(s))
      BY <1>2, <2>1
    <3> QED
      BY <3>1
  <2> QED
    BY <1>2, <2>1
<1>4. Paired(sr)
  <2> SUFFICES ASSUME NEW n \in 1..Len(sr)
               PROVE  /\ sr[n][1] = "waits" => n > 1 /\ sr[n - 1] = <<"list", sr[n][2]>>
                      /\ sr[n][1] = "agree" => n > 1 /\ sr[n - 1] = <<"waits", 0>>
    BY DEF Paired
  <2>1. CASE n \in 1..Len(s)
    <3>1. n > 1 => n - 1 \in 1..Len(s)
      BY <1>2, <2>1
    <3> QED
      BY <1>2, <2>1, <3>1 DEF WellFormed, Paired
  <2>2. CASE \E i \in 1..Len(r) : n = Len(s) + i
    <3>1. PICK i \in 1..Len(r) : n = Len(s) + i
      BY <2>2
    <3>2. i > 1 => i - 1 \in 1..Len(r) /\ n - 1 = Len(s) + (i - 1) /\ n > 1
      BY <1>2, <3>1
    <3>3. i > 1 => sr[n - 1] = r[i - 1]
      BY <1>2, <3>2
    <3> QED
      BY <1>2, <3>1, <3>2, <3>3 DEF WellFormed, Paired
  <2> QED
    BY <1>3, <2>1, <2>2
<1>5. Provided(sr, given)
  <2> SUFFICES ASSUME NEW n \in 1..Len(sr), NEW x \in Needs(sr[n]), x \notin given
               PROVE  \E m \in 1..(n - 1) : x \in Gives(sr[m])
    BY DEF Provided
  <2>1. CASE n \in 1..Len(s)
    <3>1. PICK m \in 1..(n - 1) : x \in Gives(s[m])
      BY <1>2, <2>1 DEF WellFormed, Provided
    <3> QED
      BY <1>2, <2>1, <3>1
  <2>2. CASE \E i \in 1..Len(r) : n = Len(s) + i
    <3>1. PICK i \in 1..Len(r) : n = Len(s) + i
      BY <2>2
    <3>2. CASE x \in later
      <4>1. PICK m \in 1..Len(s) : x \in Gives(s[m])
        BY <3>2
      <4>2. m \in 1..(n - 1) /\ sr[m] = s[m]
        BY <1>2, <3>1, <4>1
      <4> QED
        BY <4>1, <4>2
    <3>3. CASE x \notin later
      <4>1. PICK j \in 1..(i - 1) : x \in Gives(r[j])
        BY <1>2, <3>1, <3>3 DEF WellFormed, Provided
      <4>2. Len(s) + j \in 1..(n - 1) /\ sr[Len(s) + j] = r[j]
        BY <1>2, <3>1, <4>1
      <4> QED
        BY <4>1, <4>2
    <3> QED
      BY <3>2, <3>3
  <2> QED
    BY <1>3, <2>1, <2>2
<1> QED
  BY <1>2, <1>4, <1>5 DEF WellFormed, sr

\* The steps that look at task t.
Looks(t) == {"row", "list", "waits"} \X {t}

\* The summary of one task relies on the row collected for it, and on nothing else.
LEMMA TaskSummaryForm ==
    ASSUME NEW t \in Tasks, NEW steps, NEW given, Looks(t) \subseteq steps, "seen" \in given
    PROVE  WellFormed(TaskSummary(t), steps, given)
<1>1. <<"row", t>> \in steps /\ <<"list", t>> \in steps /\ <<"waits", t>> \in steps
  BY DEF Looks
<1>2. WellFormed(Verification(t), steps, given)
  BY <1>1 DEF WellFormed, Verification, Paired, Provided, Needs
<1>3. WellFormed(Preview(t), steps, given)
  BY <1>1 DEF WellFormed, Preview, Paired, Provided, Needs
<1> QED
  BY <1>2, <1>3, Then DEF TaskSummary

\* Its ten steps, one by one.
LEMMA TaskSummarySteps ==
    ASSUME NEW t
    PROVE  /\ Len(TaskSummary(t)) = 10
           /\ TaskSummary(t)[1] = <<"row", t>> /\ TaskSummary(t)[2] = <<"row", t>>
           /\ TaskSummary(t)[3] = <<"row", t>> /\ TaskSummary(t)[4] = <<"list", t>>
           /\ TaskSummary(t)[5] = <<"waits", t>> /\ TaskSummary(t)[6] = <<"row", t>>
           /\ TaskSummary(t)[7] = <<"row", t>> /\ TaskSummary(t)[8] = <<"row", t>>
           /\ TaskSummary(t)[9] = <<"list", t>> /\ TaskSummary(t)[10] = <<"waits", t>>
<1>1. TaskSummary(t)[1] = <<"row", t>>
  BY DEF TaskSummary, Verification, Preview
<1>2. TaskSummary(t)[2] = <<"row", t>>
  BY DEF TaskSummary, Verification, Preview
<1>3. TaskSummary(t)[3] = <<"row", t>>
  BY DEF TaskSummary, Verification, Preview
<1>4. TaskSummary(t)[4] = <<"list", t>>
  BY DEF TaskSummary, Verification, Preview
<1>5. TaskSummary(t)[5] = <<"waits", t>>
  BY DEF TaskSummary, Verification, Preview
<1>6. TaskSummary(t)[6] = <<"row", t>>
  BY DEF TaskSummary, Verification, Preview
<1>7. TaskSummary(t)[7] = <<"row", t>>
  BY DEF TaskSummary, Verification, Preview
<1>8. TaskSummary(t)[8] = <<"row", t>>
  BY DEF TaskSummary, Verification, Preview
<1>9. TaskSummary(t)[9] = <<"list", t>>
  BY DEF TaskSummary, Verification, Preview
<1>10. TaskSummary(t)[10] = <<"waits", t>>
  BY DEF TaskSummary, Verification, Preview
<1>11. Len(TaskSummary(t)) = 10
  BY DEF TaskSummary, Verification, Preview
<1> QED
  BY <1>1, <1>2, <1>3, <1>4, <1>5, <1>6, <1>7, <1>8, <1>9, <1>10, <1>11

\* All tasks in turn look at their own rows only.
LEMMA EveryTaskForm ==
    ASSUME NEW steps, NEW given, "seen" \in given, \A t \in Tasks : Looks(t) \subseteq steps
    PROVE  WellFormed(EveryTask, steps, given)
<1> DEFINE TaskAt(n) == ((n - 1) \div 10) + 1
           PlaceAt(n) == ((n - 1) % 10) + 1
<1>0. TaskCount \in Nat
  BY TrustedQueriesAssumption
<1>1. EveryTask = [n \in 1..(TaskCount * 10) |-> TaskSummary(TaskAt(n))[PlaceAt(n)]]
  <2>1. Len(TaskSummary(Subject)) = 10
    BY TaskSummarySteps
  <2> QED
    BY <2>1 DEF EveryTask
<1>2. \A n \in 1..(TaskCount * 10) : TaskAt(n) \in Tasks /\ PlaceAt(n) \in 1..10
  BY TrustedQueriesAssumption DEF Tasks
<1>3. \A n \in 1..(TaskCount * 10) :
         PlaceAt(n) > 1 => /\ n - 1 \in 1..(TaskCount * 10)
                           /\ TaskAt(n - 1) = TaskAt(n) /\ PlaceAt(n - 1) = PlaceAt(n) - 1
  <2> SUFFICES ASSUME NEW n \in Nat, n \in 1..(TaskCount * 10), (n - 1) % 10 > 0
               PROVE  /\ n - 1 \in 1..(TaskCount * 10)
                      /\ (n - 2) \div 10 = (n - 1) \div 10 /\ (n - 2) % 10 = ((n - 1) % 10) - 1
    OBVIOUS
  <2> QED
    BY <1>0
<1> HIDE DEF TaskAt, PlaceAt
<1>4. /\ Len(EveryTask) = TaskCount * 10
      /\ \A n \in 1..(TaskCount * 10) : EveryTask[n] = TaskSummary(TaskAt(n))[PlaceAt(n)]
  BY <1>0, <1>1
<1>5. \A n \in 1..(TaskCount * 10) :
         EveryTask[n] \in Looks(TaskAt(n))
  <2> SUFFICES ASSUME NEW t, NEW i \in 1..10 PROVE TaskSummary(t)[i] \in Looks(t)
    BY <1>2, <1>4
  <2>1. i \in {1, 2, 3, 4, 5, 6, 7, 8, 9, 10}
    OBVIOUS
  <2>2. <<"row", t>> \in Looks(t) /\ <<"list", t>> \in Looks(t) /\ <<"waits", t>> \in Looks(t)
    BY DEF Looks
  <2> QED
    BY <2>1, <2>2, TaskSummarySteps
<1>6. EveryTask \in Seq(steps)
  <2>1. EveryTask \in [1..(TaskCount * 10) -> steps]
    BY <1>1, <1>2, <1>4, <1>5
  <2> QED
    BY <1>0, <2>1
<1>7. Paired(EveryTask)
  <2> SUFFICES ASSUME NEW n \in 1..Len(EveryTask)
               PROVE  /\ EveryTask[n][1] = "waits" =>
                             n > 1 /\ EveryTask[n - 1] = <<"list", EveryTask[n][2]>>
                      /\ EveryTask[n][1] # "agree"
    BY DEF Paired
  <2>1. EveryTask[n] \in Looks(TaskAt(n))
    BY <1>4, <1>5
  <2>2. CASE EveryTask[n][1] = "waits"
    <3>1. PlaceAt(n) \in {5, 10}
      <4>1. TaskSummary(TaskAt(n))[PlaceAt(n)][1] = "waits"
        BY <1>4, <2>2
      <4>2. PlaceAt(n) \in {1, 2, 3, 4, 5, 6, 7, 8, 9, 10}
        BY <1>2, <1>4
      <4> QED
        BY <4>1, <4>2, TaskSummarySteps
    <3>2. /\ n - 1 \in 1..(TaskCount * 10)
          /\ TaskAt(n - 1) = TaskAt(n) /\ PlaceAt(n - 1) = PlaceAt(n) - 1
      BY <1>3, <1>4, <3>1
    <3>3. EveryTask[n - 1] = TaskSummary(TaskAt(n))[PlaceAt(n) - 1]
      BY <1>4, <3>2
    <3>4. EveryTask[n] = <<"waits", TaskAt(n)>> /\ EveryTask[n - 1] = <<"list", TaskAt(n)>>
      BY <1>4, <3>1, <3>3, TaskSummarySteps
    <3> QED
      BY <1>4, <3>2, <3>4
  <2> QED
    BY <2>1, <2>2 DEF Looks
<1>8. Provided(EveryTask, given)
  BY <1>4, <1>5 DEF Provided, Needs, Looks
<1> QED
  BY <1>6, <1>7, <1>8 DEF WellFormed

\* What a script establishes, has among its steps, and ends with.
Provides(s, x) == \E m \in 1..Len(s) : x \in Gives(s[m])
Has(s, step) == \E m \in 1..Len(s) : s[m] = step
Ends(s, step) == s # <<>> /\ s[Len(s)] = step

\* A concatenation has the steps of both and the end of the second.
LEMMA Both ==
    ASSUME NEW steps, NEW s \in Seq(steps), NEW r \in Seq(steps)
    PROVE  /\ \A x : Provides(s, x) \/ Provides(r, x) => Provides(s \o r, x)
           /\ \A step : Has(s, step) \/ Has(r, step) => Has(s \o r, step)
           /\ \A step : Ends(r, step) => Ends(s \o r, step)
<1> DEFINE sr == s \o r
<1>1. /\ Len(sr) = Len(s) + Len(r) /\ Len(s) \in Nat /\ Len(r) \in Nat
      /\ \A n \in 1..Len(s) : n \in 1..Len(sr) /\ sr[n] = s[n]
      /\ \A n \in 1..Len(r) : Len(s) + n \in 1..Len(sr) /\ sr[Len(s) + n] = r[n]
      /\ r # <<>> => Len(r) > 0 /\ sr # <<>>
  OBVIOUS
<1> HIDE DEF sr
<1>2. ASSUME NEW x, Provides(s, x) \/ Provides(r, x) PROVE Provides(sr, x)
  BY <1>1, <1>2 DEF Provides
<1>3. ASSUME NEW step, Has(s, step) \/ Has(r, step) PROVE Has(sr, step)
  BY <1>1, <1>3 DEF Has
<1>4. ASSUME NEW step, Ends(r, step) PROVE Ends(sr, step)
  <2>1. Len(r) \in 1..Len(r)
    BY <1>1, <1>4 DEF Ends
  <2> QED
    BY <1>1, <1>4, <2>1 DEF Ends
<1> QED
  BY <1>2, <1>3, <1>4 DEF sr

\* What holds of a concatenation when the second script finds what it relies on.
LEMMA Joined ==
    ASSUME NEW steps, NEW given, NEW later, NEW s, NEW r,
           WellFormed(s, steps, given), WellFormed(r, steps, later),
           \A x \in later : x \in given \/ Provides(s, x)
    PROVE  /\ WellFormed(s \o r, steps, given)
           /\ \A x : Provides(s, x) \/ Provides(r, x) => Provides(s \o r, x)
           /\ \A step : Has(s, step) \/ Has(r, step) => Has(s \o r, step)
           /\ \A step : Ends(r, step) => Ends(s \o r, step)
<1>1. WellFormed(s \o r, steps, given)
  BY Then DEF Provides
<1>2. s \in Seq(steps) /\ r \in Seq(steps)
  BY DEF WellFormed
<1> QED
  BY <1>1, <1>2, Both

-----------------------------------------------------------------------------
(* The scripts about a project.                                            *)

\* What a project summary and a queue consist of.
SummarySteps ==
    {<<"collect">>, <<"recheck">>} \cup ({"row", "list", "waits"} \X Tasks)

ProjectSteps == SummarySteps \cup ({"list", "waits"} \X {0})

\* A project summary may be the first part of a script only if it collects; it ends
\* by reading all rows again.
LEMMA ProjectSummaryForm ==
    ASSUME NEW steps, NEW given, NEW look \in {"collect", "recheck"},
           look = "recheck" => "seen" \in given,
           <<look>> \in steps, <<"recheck">> \in steps,
           \A t \in Tasks : Looks(t) \subseteq steps
    PROVE  /\ WellFormed(ProjectSummary(look), steps, given)
           /\ look = "collect" => Provides(ProjectSummary(look), "seen")
           /\ Ends(ProjectSummary(look), <<"recheck">>)
<1> DEFINE first == << <<look>> >>
           last == << <<"recheck">> >>
           both == first \o EveryTask
           later == given \cup {"seen"}
<1>1. WellFormed(first, steps, given) /\ Ends(last, <<"recheck">>)
  BY DEF WellFormed, Paired, Provided, Needs, Ends
<1>2. look = "collect" => Provides(first, "seen")
  BY DEF Provides, Gives
<1>3. WellFormed(EveryTask, steps, later)
  BY EveryTaskForm
<1>4. WellFormed(last, steps, later)
  BY DEF WellFormed, Paired, Provided, Needs
<1>5. \A x \in later : x \in given \/ Provides(first, x)
  BY <1>2
<1>6. ProjectSummary(look) = both \o last
  BY DEF ProjectSummary
<1> HIDE DEF first, last, later
<1>7. /\ WellFormed(both, steps, given)
      /\ \A x : Provides(first, x) => Provides(both, x)
  BY <1>1, <1>3, <1>5, Joined
<1> HIDE DEF both
<1>8. /\ WellFormed(both \o last, steps, given)
      /\ \A x : Provides(both, x) => Provides(both \o last, x)
      /\ Ends(both \o last, <<"recheck">>)
  BY <1>1, <1>4, <1>5, <1>7, Joined
<1> QED
  BY <1>2, <1>6, <1>7, <1>8

\* Both lists of a queue are for all tasks; it ends by comparing the second one.
LEMMA PendingQueueForm ==
    ASSUME NEW steps, NEW given, ProjectSteps \subseteq steps
    PROVE  /\ WellFormed(PendingQueue, steps, given)
           /\ Provides(PendingQueue, "seen")
           /\ Ends(PendingQueue, <<"waits", 0>>)
<1> DEFINE lists == << <<"list", 0>>, <<"waits", 0>> >>
           first == ProjectSummary("collect")
           second == ProjectSummary("recheck")
           later == given \cup {"seen"}
<1>1. /\ <<"collect">> \in steps /\ <<"recheck">> \in steps
      /\ \A t \in Tasks : Looks(t) \subseteq steps
      /\ <<"list", 0>> \in steps /\ <<"waits", 0>> \in steps
  BY DEF ProjectSteps, SummarySteps, Looks
<1>2. WellFormed(first, steps, given) /\ Provides(first, "seen")
  BY <1>1, ProjectSummaryForm
<1>3. WellFormed(second, steps, later)
  BY <1>1, ProjectSummaryForm
<1>4. WellFormed(lists, steps, later) /\ Ends(lists, <<"waits", 0>>)
  BY <1>1 DEF WellFormed, Paired, Provided, Needs, Ends
<1>5. \A x \in later : x \in given \/ x = "seen"
  OBVIOUS
<1>6. PendingQueue = ((first \o lists) \o second) \o lists
  BY DEF PendingQueue
<1> HIDE DEF lists, first, second, later
<1> DEFINE begun == first \o lists
<1>7. WellFormed(begun, steps, given) /\ Provides(begun, "seen")
  <2>1. \A x \in later : x \in given \/ Provides(first, x)
    BY <1>2, <1>5
  <2>2. \A x : Provides(first, x) => Provides(first \o lists, x)
    BY <1>2, <1>4, <2>1, Joined
  <2> QED
    BY <1>2, <1>4, <2>1, <2>2, Joined
<1> HIDE DEF begun
<1> DEFINE most == begun \o second
<1>8. \A x \in later : x \in given \/ Provides(begun, x)
  BY <1>5, <1>7
<1>9. WellFormed(most, steps, given) /\ Provides(most, "seen")
  <2>1. \A x : Provides(begun, x) => Provides(begun \o second, x)
    BY <1>3, <1>7, <1>8, Joined
  <2> QED
    BY <1>3, <1>7, <1>8, <2>1, Joined
<1> HIDE DEF most
<1>10. \A x \in later : x \in given \/ Provides(most, x)
  BY <1>5, <1>9
<1>11. /\ WellFormed(most \o lists, steps, given)
       /\ \A x : Provides(most, x) => Provides(most \o lists, x)
       /\ Ends(most \o lists, <<"waits", 0>>)
  BY <1>4, <1>9, <1>10, Joined
<1> QED
  BY <1>6, <1>9, <1>11 DEF most, begun

\* Right after a queue its report may be compared with another one.
LEMMA AgreeForm ==
    ASSUME NEW steps, NEW given, NEW s,
           WellFormed(s, steps, given), Ends(s, <<"waits", 0>>), <<"agree">> \in steps,
           Provides(s, "seen"), Provides(s, "kept")
    PROVE  LET sa == s \o << <<"agree">> >>
           IN  WellFormed(sa, steps, given) /\ Provides(sa, "seen") /\ Ends(sa, <<"agree">>)
<1> DEFINE sa == s \o << <<"agree">> >>
<1>1. s \in Seq(steps) /\ << <<"agree">> >> \in Seq(steps)
  BY DEF WellFormed
<1>2. /\ sa \in Seq(steps) /\ Len(sa) = Len(s) + 1 /\ Len(s) \in Nat /\ Len(s) > 0
      /\ \A n \in 1..Len(s) : sa[n] = s[n]
      /\ sa[Len(s) + 1] = <<"agree">>
  BY <1>1 DEF Ends
<1> HIDE DEF sa
<1>3. Paired(sa)
  <2> SUFFICES ASSUME NEW n \in 1..Len(sa)
               PROVE  /\ sa[n][1] = "waits" => n > 1 /\ sa[n - 1] = <<"list", sa[n][2]>>
                      /\ sa[n][1] = "agree" => n > 1 /\ sa[n - 1] = <<"waits", 0>>
    BY DEF Paired
  <2>1. CASE n \in 1..Len(s)
    <3>1. n > 1 => n - 1 \in 1..Len(s)
      BY <1>2, <2>1
    <3> QED
      BY <1>2, <2>1, <3>1 DEF WellFormed, Paired
  <2>2. CASE n = Len(s) + 1
    BY <1>2, <2>2 DEF Ends
  <2> QED
    BY <1>2, <2>1, <2>2
<1>4. Provided(sa, given)
  <2> SUFFICES ASSUME NEW n \in 1..Len(sa), NEW x \in Needs(sa[n]), x \notin given
               PROVE  \E m \in 1..(n - 1) : x \in Gives(sa[m])
    BY DEF Provided
  <2>1. CASE n \in 1..Len(s)
    <3>1. PICK m \in 1..(n - 1) : x \in Gives(s[m])
      BY <1>2, <2>1 DEF WellFormed, Provided
    <3> QED
      BY <1>2, <2>1, <3>1
  <2>2. CASE n = Len(s) + 1
    <3>1. x \in {"seen", "kept"}
      BY <1>2, <2>2 DEF Needs
    <3>2. PICK m \in 1..Len(s) : x \in Gives(s[m])
      BY <3>1 DEF Provides
    <3> QED
      BY <1>2, <2>2, <3>2
  <2> QED
    BY <1>2, <2>1, <2>2
<1>5. Ends(sa, <<"agree">>)
  BY <1>2 DEF Ends
<1>6. Provides(sa, "seen")
  BY <1>1, Both DEF sa
<1> QED
  BY <1>2, <1>3, <1>4, <1>5, <1>6 DEF WellFormed, sa

\* A queue that is compared with an earlier one needs what has been kept of that.
LEMMA PendingQueueAgainForm ==
    ASSUME NEW steps, NEW given, ProjectSteps \cup {<<"keep">>, <<"agree">>} \subseteq steps,
           "seen" \in given
    PROVE  /\ WellFormed(PendingQueueAgain, steps, given)
           /\ Provides(PendingQueueAgain, "seen")
           /\ Ends(PendingQueueAgain, <<"agree">>)
<1> DEFINE keep == << <<"keep">> >>
<1>1. WellFormed(keep, steps, given) /\ Provides(keep, "kept")
  BY DEF WellFormed, Paired, Provided, Needs, Provides, Gives
<1>2. /\ WellFormed(PendingQueue, steps, given)
      /\ Provides(PendingQueue, "seen")
      /\ Ends(PendingQueue, <<"waits", 0>>)
  BY PendingQueueForm
<1>3. PendingQueueAgain = (keep \o PendingQueue) \o << <<"agree">> >>
  BY DEF PendingQueueAgain
<1>4. <<"agree">> \in steps
  OBVIOUS
<1> HIDE DEF keep
<1>5. /\ WellFormed(keep \o PendingQueue, steps, given)
      /\ Provides(keep \o PendingQueue, "seen") /\ Provides(keep \o PendingQueue, "kept")
      /\ Ends(keep \o PendingQueue, <<"waits", 0>>)
  BY <1>1, <1>2, Joined
<1> QED
  BY <1>3, <1>4, <1>5, AgreeForm

\* The components of an overview end with the comparison of their queue.
LEMMA ComponentsForm ==
    ASSUME NEW steps, NEW given, ProjectSteps \cup {<<"keep">>, <<"agree">>} \subseteq steps,
           NEW look \in {"collect", "recheck"}, look = "recheck" => "seen" \in given
    PROVE  /\ WellFormed(Components(look), steps, given)
           /\ Provides(Components(look), "seen")
           /\ Ends(Components(look), <<"agree">>)
<1> DEFINE first == ProjectSummary(look)
           again == ProjectSummary("recheck")
           later == given \cup {"seen"}
<1>1. /\ <<look>> \in steps /\ <<"recheck">> \in steps
      /\ \A t \in Tasks : Looks(t) \subseteq steps
  BY DEF ProjectSteps, SummarySteps, Looks
<1>2. WellFormed(first, steps, given) /\ (look = "collect" => Provides(first, "seen"))
  BY <1>1, ProjectSummaryForm
<1>3. WellFormed(again, steps, later)
  BY <1>1, ProjectSummaryForm
<1>4. /\ WellFormed(PendingQueueAgain, steps, later)
      /\ Provides(PendingQueueAgain, "seen")
      /\ Ends(PendingQueueAgain, <<"agree">>)
  BY PendingQueueAgainForm
<1>5. Components(look) = ((first \o again) \o again) \o PendingQueueAgain
  BY DEF Components
<1>6. \A x \in later : x \in given \/ Provides(first, x)
  BY <1>2
<1> HIDE DEF first, again, later
<1>7. /\ WellFormed(first \o again, steps, given)
      /\ \A x \in later : x \in given \/ Provides(first \o again, x)
  BY <1>2, <1>3, <1>6, Joined
<1>8. /\ WellFormed((first \o again) \o again, steps, given)
      /\ \A x \in later : x \in given \/ Provides((first \o again) \o again, x)
  BY <1>3, <1>7, Joined
<1>9. /\ WellFormed(((first \o again) \o again) \o PendingQueueAgain, steps, given)
      /\ Provides(((first \o again) \o again) \o PendingQueueAgain, "seen")
      /\ Ends(((first \o again) \o again) \o PendingQueueAgain, <<"agree">>)
  BY <1>4, <1>8, Joined
<1> QED
  BY <1>5, <1>9

\* trusted_project_assurance_overview.
LEMMA OverviewForm ==
    ASSUME NEW steps, NEW given, ProjectSteps \cup {<<"keep">>, <<"agree">>} \subseteq steps
    PROVE  WellFormed(Overview, steps, given) /\ Ends(Overview, <<"agree">>)
<1> DEFINE first == Components("collect")
           second == Components("recheck")
           later == given \cup {"seen"}
<1>1. WellFormed(first, steps, given) /\ Provides(first, "seen")
  BY ComponentsForm
<1>2. WellFormed(second, steps, later) /\ Ends(second, <<"agree">>)
  BY ComponentsForm
<1>3. \A x \in later : x \in given \/ Provides(first, x)
  BY <1>1
<1> HIDE DEF first, second, later
<1>4. WellFormed(first \o second, steps, given) /\ Ends(first \o second, <<"agree">>)
  BY <1>1, <1>2, <1>3, Joined
<1> QED
  BY <1>4 DEF Overview, first, second

\* trusted_project_pending_decision_resolution_preview.
LEMMA ResolutionPreviewForm ==
    ASSUME NEW steps, NEW given,
           ProjectSteps \cup {<<"keep">>, <<"agree">>, <<"answers">>} \subseteq steps,
           <<"read", "resolution">> \in steps, <<"reread", "resolution">> \in steps
    PROVE  WellFormed(ResolutionPreview, steps, given) /\ Ends(ResolutionPreview, <<"agree">>)
<1> DEFINE first == << <<"read", "resolution">> >>
           middle == << <<"answers">>, <<"reread", "resolution">> >>
           later == given \cup {"seen", "resolution"}
           front == first \o PendingQueue
<1>1. WellFormed(first, steps, given) /\ Provides(first, "resolution")
  BY DEF WellFormed, Paired, Provided, Needs, Provides, Gives
<1>2. WellFormed(PendingQueue, steps, given) /\ Provides(PendingQueue, "seen")
  BY PendingQueueForm
<1>3. WellFormed(middle, steps, later)
  BY DEF WellFormed, Paired, Provided, Needs
<1>4. WellFormed(PendingQueueAgain, steps, later) /\ Ends(PendingQueueAgain, <<"agree">>)
  BY PendingQueueAgainForm
<1>5. ResolutionPreview = (front \o middle) \o PendingQueueAgain
  BY DEF ResolutionPreview
<1>6. \A x \in later : x \in given \/ x = "seen" \/ x = "resolution"
  OBVIOUS
<1> HIDE DEF first, middle, later
<1>7. /\ WellFormed(front, steps, given)
      /\ Provides(front, "seen") /\ Provides(front, "resolution")
  BY <1>1, <1>2, Joined
<1>8. \A x \in later : x \in given \/ Provides(front, x)
  BY <1>6, <1>7
<1> HIDE DEF front
<1>9. /\ WellFormed(front \o middle, steps, given)
      /\ \A x \in later : x \in given \/ Provides(front \o middle, x)
  BY <1>3, <1>7, <1>8, Joined
<1>10. /\ WellFormed((front \o middle) \o PendingQueueAgain, steps, given)
       /\ Ends((front \o middle) \o PendingQueueAgain, <<"agree">>)
  BY <1>4, <1>9, Joined
<1> QED
  BY <1>5, <1>10

-----------------------------------------------------------------------------
(* Steps that come in one order only.                                      *)

\* No step of kind b follows one of kind a; there is no step of kind a.
NeverAfter(s, a, b) ==
    \A m, n \in 1..Len(s) : m < n /\ s[m][1] = a => s[n][1] # b

Without(s, a) == \A n \in 1..Len(s) : s[n][1] # a

\* An operation that is not among the steps does not occur.
LEMMA WithoutSteps ==
    ASSUME NEW steps, NEW s \in Seq(steps), NEW a, \A step \in steps : step[1] # a
    PROVE  Without(s, a)
  BY DEF Without

\* Nor in a concatenation of scripts without it.
LEMMA WithoutJoined ==
    ASSUME NEW steps, NEW s \in Seq(steps), NEW r \in Seq(steps), NEW a,
           Without(s, a), Without(r, a)
    PROVE  Without(s \o r, a)
<1> DEFINE sr == s \o r
<1>1. /\ Len(s) \in Nat
      /\ \A n \in 1..Len(s) : sr[n] = s[n]
      /\ \A n \in 1..Len(sr) : n \notin 1..Len(s)
                               => n - Len(s) \in 1..Len(r) /\ sr[n] = r[n - Len(s)]
  OBVIOUS
<1> HIDE DEF sr
<1>2. Without(sr, a)
  BY <1>1 DEF Without
<1> QED
  BY <1>2 DEF sr

\* When an order within scripts carries over to their concatenation.
LEMMA NeverAfterJoined ==
    ASSUME NEW steps, NEW s \in Seq(steps), NEW r \in Seq(steps), NEW a, NEW b,
           Without(s, a) \/ NeverAfter(s, a, b), Without(r, b) \/ NeverAfter(r, a, b),
           Without(s, a) \/ Without(r, b)
    PROVE  NeverAfter(s \o r, a, b)
<1> DEFINE sr == s \o r
<1>1. /\ Len(sr) = Len(s) + Len(r) /\ Len(s) \in Nat /\ Len(r) \in Nat
      /\ \A n \in 1..Len(s) : sr[n] = s[n]
      /\ \A n \in 1..Len(sr) : n \notin 1..Len(s)
                               => n - Len(s) \in 1..Len(r) /\ sr[n] = r[n - Len(s)]
  OBVIOUS
<1> HIDE DEF sr
<1>2. SUFFICES ASSUME NEW m \in 1..Len(sr), NEW n \in 1..Len(sr), m < n, sr[m][1] = a
               PROVE  sr[n][1] # b
  BY DEF NeverAfter, sr
<1>3. CASE n \in 1..Len(s)
  BY <1>1, <1>2, <1>3 DEF Without, NeverAfter
<1>4. CASE m \in 1..Len(s) /\ n \notin 1..Len(s)
  BY <1>1, <1>2, <1>4 DEF Without, NeverAfter
<1>5. CASE m \notin 1..Len(s) /\ n \notin 1..Len(s)
  <2>1. /\ m - Len(s) \in 1..Len(r) /\ n - Len(s) \in 1..Len(r)
        /\ m - Len(s) < n - Len(s)
        /\ r[m - Len(s)][1] = a /\ sr[n] = r[n - Len(s)]
    BY <1>1, <1>2, <1>5
  <2> QED
    BY <2>1 DEF Without, NeverAfter
<1> QED
  BY <1>1, <1>2, <1>3, <1>4, <1>5

\* trusted_project_progress_summary_verification: nothing is collected or opened once
\* the capture has been compared, and the capture is read again before the rows are.
LEMMA CapturedForm ==
    ASSUME NEW steps, NEW given,
           SummarySteps \cup {<<"open">>, <<"compare">>, <<"reopen">>} \subseteq steps
    PROVE  LET s == Captured(ProjectSummary("collect"), ProjectSummary("recheck"))
           IN  /\ WellFormed(s, steps, given)
               /\ NeverAfter(s, "compare", "collect") /\ NeverAfter(s, "compare", "open")
               /\ Ends(s, <<"recheck">>) /\ Has(s, <<"reopen">>)
<1> DEFINE open == << <<"open">> >>
           first == ProjectSummary("collect")
           look == << <<"compare">>, <<"reopen">> >>
           again == ProjectSummary("recheck")
           later == given \cup {"opened", "seen"}
           front == open \o first
           middle == front \o look
<1>1. /\ <<"collect">> \in steps /\ <<"recheck">> \in steps
      /\ \A t \in Tasks : Looks(t) \subseteq steps
      /\ \A t \in Tasks : Looks(t) \subseteq SummarySteps
  BY DEF SummarySteps, Looks
<1>2. WellFormed(open, steps, given) /\ Provides(open, "opened") /\ Without(open, "compare")
  BY DEF WellFormed, Paired, Provided, Needs, Provides, Gives, Without
<1>3. WellFormed(first, steps, given) /\ Provides(first, "seen")
  BY <1>1, ProjectSummaryForm
<1>4. /\ WellFormed(look, steps, later) /\ Has(look, <<"reopen">>)
      /\ Without(look, "collect") /\ Without(look, "open")
  BY DEF WellFormed, Paired, Provided, Needs, Has, Gives, Without
<1>5. WellFormed(again, steps, later) /\ Ends(again, <<"recheck">>)
  BY <1>1, ProjectSummaryForm
<1>6. Without(first, "compare")
  <2>1. WellFormed(first, SummarySteps, given)
    BY <1>1, ProjectSummaryForm DEF SummarySteps
  <2>2. \A step \in SummarySteps : step[1] # "compare"
    BY DEF SummarySteps
  <2> HIDE DEF first
  <2> QED
    BY <2>1, <2>2, WithoutSteps DEF WellFormed
<1>7. Without(again, "collect") /\ Without(again, "open")
  <2> DEFINE few == SummarySteps \ {<<"collect">>}
  <2>1. <<"recheck">> \in few /\ \A t \in Tasks : Looks(t) \subseteq few
    BY DEF SummarySteps, Looks
  <2>2. WellFormed(again, few, later)
    BY <2>1, ProjectSummaryForm
  <2>3. \A step \in few : step[1] # "collect" /\ step[1] # "open"
    BY DEF SummarySteps
  <2> HIDE DEF again, few
  <2> QED
    BY <2>2, <2>3, WithoutSteps DEF WellFormed
<1>8. Captured(first, again) = middle \o again
  BY DEF Captured
<1>9. \A x \in later : x \in given \/ x = "opened" \/ x = "seen"
  OBVIOUS
<1> HIDE DEF open, first, look, again, later
<1>10. /\ WellFormed(front, steps, given)
       /\ Provides(front, "opened") /\ Provides(front, "seen")
  BY <1>2, <1>3, Joined
<1>11. \A x \in later : x \in given \/ Provides(front, x)
  BY <1>9, <1>10
<1>12. Without(front, "compare")
  BY <1>2, <1>3, <1>6, WithoutJoined DEF WellFormed
<1> HIDE DEF front
<1>13. /\ WellFormed(middle, steps, given) /\ Has(middle, <<"reopen">>)
       /\ \A x \in later : x \in given \/ Provides(middle, x)
  BY <1>4, <1>10, <1>11, Joined
<1>14. NeverAfter(middle, "compare", "collect") /\ NeverAfter(middle, "compare", "open")
  BY <1>4, <1>10, <1>12, NeverAfterJoined DEF WellFormed
<1> HIDE DEF middle
<1>15. /\ WellFormed(middle \o again, steps, given)
       /\ Has(middle \o again, <<"reopen">>) /\ Ends(middle \o again, <<"recheck">>)
  BY <1>5, <1>13, Joined
<1>16. /\ NeverAfter(middle \o again, "compare", "collect")
       /\ NeverAfter(middle \o again, "compare", "open")
  BY <1>5, <1>7, <1>13, <1>14, NeverAfterJoined DEF WellFormed
<1> QED
  BY <1>8, <1>15, <1>16 DEF first, again

-----------------------------------------------------------------------------
(* The scripts about one task.                                             *)

\* What a receipt that is looked at again consists of, and a first one.
AgainSteps == {<<"row", Subject>>, <<"classified">>} \cup ({"reread"} \X Files)
FirstSteps == AgainSteps \cup {<<"status">>} \cup ({"read"} \X Files)

\* What the packet's verification has found, and the receipt.
Packet == {"seen", "packet", "intake"}

\* task_packet_verification needs what its first looks provide.
LEMMA PacketVerificationForm ==
    ASSUME NEW steps, NEW given, AgainSteps \subseteq steps,
           NEW look \in {"read", "reread"}, NEW row \in {<<"status">>, <<"row", Subject>>},
           <<look, "packet">> \in steps, <<look, "intake">> \in steps, row \in steps,
           (look = "read" /\ row = <<"status">>) \/ Packet \subseteq given
    PROVE  /\ WellFormed(PacketVerification(look, row), steps, given)
           /\ \A x \in Packet : x \in given \/ Provides(PacketVerification(look, row), x)
<1> DEFINE first == << <<look, "packet">>, row, <<look, "intake">> >>
           again == << <<"reread", "packet">>, <<"reread", "intake">>, <<"row", Subject>> >>
           later == given \cup Packet
           both == first \o Classification
<1>1. /\ <<"row", Subject>> \in steps /\ <<"classified">> \in steps
      /\ <<"reread", "packet">> \in steps /\ <<"reread", "intake">> \in steps
  BY DEF AgainSteps, Looks, Files
<1>2. WellFormed(first, steps, given)
  BY DEF WellFormed, Paired, Provided, Needs, Packet
<1>3. \A x \in Packet : x \in given \/ Provides(first, x)
  <2>1. CASE look = "read" /\ row = <<"status">>
    BY <2>1 DEF Packet, Provides, Gives
  <2>2. CASE Packet \subseteq given
    BY <2>2
  <2> QED
    BY <2>1, <2>2
<1>4. WellFormed(Classification, steps, later)
  BY <1>1 DEF Classification, WellFormed, Paired, Provided, Needs, Packet
<1>5. WellFormed(again, steps, later)
  BY <1>1 DEF WellFormed, Paired, Provided, Needs, Packet
<1>6. PacketVerification(look, row) = both \o again
  BY DEF PacketVerification
<1>7. \A x \in later : x \in given \/ Provides(first, x)
  BY <1>3
<1> HIDE DEF first, again
<1>8. /\ WellFormed(both, steps, given)
      /\ \A x \in later : x \in given \/ Provides(both, x)
  BY <1>2, <1>4, <1>7, Joined
<1> HIDE DEF both
<1>9. /\ WellFormed(both \o again, steps, given)
      /\ \A x \in later : x \in given \/ Provides(both \o again, x)
  BY <1>5, <1>8, Joined
<1> QED
  BY <1>6, <1>9

\* The first verification of a packet provides the row, the packet and the intake.
LEMMA FirstPacketForm ==
    ASSUME NEW steps, NEW given, FirstSteps \subseteq steps
    PROVE  LET packet == PacketVerification("read", <<"status">>)
           IN  /\ WellFormed(packet, steps, given)
               /\ \A x \in Packet : x \in given \/ Provides(packet, x)
<1> DEFINE look == "read"
           row == <<"status">>
<1>1. /\ AgainSteps \subseteq steps /\ row \in steps
      /\ <<look, "packet">> \in steps /\ <<look, "intake">> \in steps
  BY DEF FirstSteps, Files
<1>2. look = "read" /\ row = <<"status">>
  OBVIOUS
<1> HIDE DEF look, row
<1>3. /\ WellFormed(PacketVerification(look, row), steps, given)
      /\ \A x \in Packet : x \in given \/ Provides(PacketVerification(look, row), x)
  BY <1>1, <1>2, PacketVerificationForm
<1> QED
  BY <1>2, <1>3

\* The packet may be verified again when it has been once.
LEMMA PacketAgainForm ==
    ASSUME NEW steps, NEW given, AgainSteps \subseteq steps, Packet \subseteq given
    PROVE  WellFormed(PacketAgain, steps, given)
<1>1. /\ <<"row", Subject>> \in steps
      /\ <<"reread", "packet">> \in steps /\ <<"reread", "intake">> \in steps
  BY DEF AgainSteps, Looks, Files
<1> QED
  BY <1>1, PacketVerificationForm DEF PacketAgain

\* A receipt is a packet verification twice, around the first look at the result.
LEMMA ReceiptForm ==
    ASSUME NEW steps, NEW given, AgainSteps \subseteq steps,
           NEW packet, NEW look \in {"read", "reread"}, <<look, "result">> \in steps,
           look = "reread" => "result" \in given,
           WellFormed(packet, steps, given),
           \A x \in Packet : x \in given \/ Provides(packet, x)
    PROVE  /\ WellFormed(Receipt(packet, look), steps, given)
           /\ \A x \in Packet \cup {"result"} :
                 x \in given \/ Provides(Receipt(packet, look), x)
<1> DEFINE result == << <<"reread", "packet">>, <<look, "result">>, <<"reread", "packet">> >>
           last == << <<"reread", "result">> >>
           known == given \cup Packet
           later == known \cup {"result"}
           front == packet \o result
           body == front \o PacketAgain
<1>1. /\ <<"reread", "packet">> \in steps /\ <<"reread", "result">> \in steps
  BY DEF AgainSteps, Looks, Files
<1>2. WellFormed(result, steps, known)
  BY <1>1 DEF WellFormed, Paired, Provided, Needs, Packet
<1>3. "result" \in given \/ Provides(result, "result")
  BY DEF Provides, Gives
<1>4. WellFormed(PacketAgain, steps, later)
  BY PacketAgainForm
<1>5. WellFormed(last, steps, later)
  BY <1>1 DEF WellFormed, Paired, Provided, Needs
<1>6. Receipt(packet, look) = body \o last
  BY DEF Receipt
<1>7. /\ \A x \in known : x \in given \/ Provides(packet, x)
      /\ \A x \in later : x \in known \/ x = "result"
      /\ \A x \in Packet \cup {"result"} : x \in later
  OBVIOUS
<1> HIDE DEF result, last, known, later
<1>8. /\ WellFormed(front, steps, given)
      /\ \A x \in known : x \in given \/ Provides(front, x)
      /\ Provides(result, "result") => Provides(front, "result")
  BY <1>2, <1>7, Joined
<1>9. \A x \in later : x \in given \/ Provides(front, x)
  BY <1>3, <1>7, <1>8
<1> HIDE DEF front
<1>10. /\ WellFormed(body, steps, given)
       /\ \A x \in later : x \in given \/ Provides(body, x)
  BY <1>4, <1>8, <1>9, Joined
<1> HIDE DEF body
<1>11. /\ WellFormed(body \o last, steps, given)
       /\ \A x \in later : x \in given \/ Provides(body \o last, x)
  BY <1>5, <1>10, Joined
<1> QED
  BY <1>6, <1>7, <1>11

\* Everything that a receipt has found.
Received == Packet \cup {"result"}

\* The first receipt provides the result as well.
LEMMA FirstReceiptForm ==
    ASSUME NEW steps, NEW given, FirstSteps \subseteq steps
    PROVE  /\ WellFormed(FirstReceipt, steps, given)
           /\ \A x \in Received : x \in given \/ Provides(FirstReceipt, x)
<1> DEFINE packet == PacketVerification("read", <<"status">>)
<1>1. /\ AgainSteps \subseteq steps /\ <<"status">> \in steps
      /\ \A f \in Files : <<"read", f>> \in steps
  BY DEF FirstSteps
<1>2. /\ WellFormed(packet, steps, given)
      /\ \A x \in Packet : x \in given \/ Provides(packet, x)
  BY FirstPacketForm
<1>3. <<"read", "result">> \in steps
  BY <1>1 DEF Files
<1> HIDE DEF packet
<1>4. /\ WellFormed(Receipt(packet, "read"), steps, given)
      /\ \A x \in Packet \cup {"result"} : x \in given \/ Provides(Receipt(packet, "read"), x)
  BY <1>1, <1>2, <1>3, ReceiptForm
<1> QED
  BY <1>4 DEF FirstReceipt, Received, packet

\* A receipt that only looks again needs all of it.
LEMMA ReceiptAgainForm ==
    ASSUME NEW steps, NEW given, AgainSteps \subseteq steps, Received \subseteq given
    PROVE  WellFormed(ReceiptAgain, steps, given)
<1>1. Packet \subseteq given /\ "result" \in given /\ <<"reread", "result">> \in steps
  BY DEF Received, AgainSteps, Files
<1>2. WellFormed(PacketAgain, steps, given)
  BY <1>1, PacketAgainForm
<1> QED
  BY <1>1, <1>2, ReceiptForm DEF ReceiptAgain

\* trusted_task_packet_handoff_preview.
LEMMA HandoffPreviewForm ==
    ASSUME NEW steps, NEW given, FirstSteps \subseteq steps
    PROVE  /\ WellFormed(HandoffPreview, steps, given)
           /\ "seen" \in given \/ Provides(HandoffPreview, "seen")
<1> DEFINE packet == PacketVerification("read", <<"status">>)
           look == << <<"reread", "packet">>, <<"reread", "packet">> >>
           later == given \cup Packet
<1>1. /\ AgainSteps \subseteq steps /\ <<"status">> \in steps
      /\ \A f \in Files : <<"read", f>> \in steps /\ <<"reread", f>> \in steps
  BY DEF FirstSteps, AgainSteps
<1>2. /\ WellFormed(packet, steps, given)
      /\ \A x \in Packet : x \in given \/ Provides(packet, x)
  BY FirstPacketForm
<1>3. WellFormed(look, steps, later)
  BY <1>1 DEF WellFormed, Paired, Provided, Needs, Packet, Files
<1>4. WellFormed(PacketAgain, steps, later)
  BY <1>1, PacketAgainForm
<1>5. \A x \in later : x \in given \/ Provides(packet, x)
  BY <1>2
<1>6. /\ HandoffPreview = (packet \o look) \o PacketAgain
      /\ "seen" \in later
  BY DEF HandoffPreview, Packet
<1> HIDE DEF packet, look, later
<1>7. /\ WellFormed(packet \o look, steps, given)
      /\ \A x \in later : x \in given \/ Provides(packet \o look, x)
  BY <1>2, <1>3, <1>5, Joined
<1>8. /\ WellFormed((packet \o look) \o PacketAgain, steps, given)
      /\ \A x \in later : x \in given \/ Provides((packet \o look) \o PacketAgain, x)
  BY <1>4, <1>7, Joined
<1> QED
  BY <1>6, <1>8

\* Evidence may be bound when a receipt has been found.
LEMMA BindForm ==
    ASSUME NEW steps, NEW given, NEW op \in {"take", "bind"}, Received \subseteq given,
           <<"fits">> \in steps, <<"row", Subject>> \in steps,
           <<op, "packet">> \in steps, <<op, "result">> \in steps
    PROVE  /\ WellFormed(Bind(op), steps, given) /\ Provides(Bind(op), "fit")
           /\ Has(Bind(op), <<op, "packet">>) /\ Has(Bind(op), <<op, "result">>)
<1>1. "seen" \in given /\ "packet" \in given /\ "result" \in given
  BY DEF Received, Packet
<1>2. WellFormed(Bind(op), steps, given)
  BY <1>1 DEF Bind, WellFormed, Paired, Provided, Needs
<1>3. Provides(Bind(op), "fit")
  BY DEF Bind, Provides, Gives
<1>4. Has(Bind(op), <<op, "packet">>) /\ Has(Bind(op), <<op, "result">>)
  BY DEF Bind, Has
<1> QED
  BY <1>2, <1>3, <1>4

\* trusted_task_packet_result_transition_gate_preview.
LEMMA GatePreviewForm ==
    ASSUME NEW steps, NEW given, FirstSteps \subseteq steps, <<"fits">> \in steps,
           \A f \in Files : <<"take", f>> \in steps
    PROVE  /\ WellFormed(GatePreview, steps, given)
           /\ "seen" \in given \/ Provides(GatePreview, "seen")
<1> DEFINE later == given \cup Received
           take == Bind("take")
<1>1. /\ WellFormed(FirstReceipt, steps, given)
      /\ \A x \in later : x \in given \/ Provides(FirstReceipt, x)
  BY FirstReceiptForm
<1>2. WellFormed(take, steps, later)
  <2>1. <<"row", Subject>> \in steps
    BY DEF FirstSteps, AgainSteps, Looks
  <2>2. <<"take", "packet">> \in steps /\ <<"take", "result">> \in steps
    BY DEF Files
  <2> QED
    BY <2>1, <2>2, BindForm
<1>3. WellFormed(ReceiptAgain, steps, later)
  BY ReceiptAgainForm DEF FirstSteps
<1>4. /\ GatePreview = (FirstReceipt \o take) \o ReceiptAgain
      /\ "seen" \in later
  BY DEF GatePreview, Received, Packet
<1> HIDE DEF later, take
<1>5. /\ WellFormed(FirstReceipt \o take, steps, given)
      /\ \A x \in later : x \in given \/ Provides(FirstReceipt \o take, x)
  BY <1>1, <1>2, Joined
<1>6. /\ WellFormed((FirstReceipt \o take) \o ReceiptAgain, steps, given)
      /\ \A x \in later : x \in given \/ Provides((FirstReceipt \o take) \o ReceiptAgain, x)
  BY <1>3, <1>5, Joined
<1> QED
  BY <1>4, <1>6

-----------------------------------------------------------------------------
(* The scripts that commit.                                                *)

\* Evidence is read before it is bound, and all of it looked at once more, from
\* step last on, before the one step that commits.
Careful(s, last, evidence) ==
    /\ last \in Nat
    /\ NeverAfter(s, "fits", "status") /\ NeverAfter(s, "bind", "read")
    /\ \A n \in 1..Len(s) : s[n][1] = "commit" => n = Len(s)
    /\ \A n \in 1..Len(s) : n >= last => s[n][1] # "read"
    /\ \A f \in evidence :
          /\ \E m \in 1..(Len(s) - 1) : s[m] = <<"bind", f>>
          /\ \E m \in 1..(Len(s) - 1) :
                m >= last /\ s[m] \in {<<"reread", f>>, <<"bind", f>>}

CommitSteps == FirstSteps \cup {<<"fits">>, <<"commit">>} \cup ({"bind"} \X Files)

\* Of an ordinary advance, which makes no receipt.
PlainSteps ==
    {<<"row", Subject>>, <<"status">>, <<"fits">>, <<"commit">>}
    \cup ({"read", "reread", "bind"} \X Files)

\* An advance to CLOSED whose evidence is read in step 3 or 4, bound in step 6 and
\* looked at for the last time in step 10 or 11 commits carefully.
LEMMA ClosureForm ==
    ASSUME NEW s \in Seq(PlainSteps), Len(s) = 13, NEW k \in {3, 4}, NEW last \in {10, 11},
           s[1] = <<"status">>, s[2] = <<"fits">>, s[k] = <<"read", "evidence">>,
           s[6] = <<"bind", "evidence">>, s[last] = <<"reread", "evidence">>,
           s[13] = <<"commit">>,
           \A n \in 3..12 : n \notin {k, 6} =>
              s[n] = <<"row", Subject>> \/ (s[n] = <<"reread", "evidence">> /\ n > k)
    PROVE  WellFormed(s, PlainSteps, {}) /\ Careful(s, last, {"evidence"})
<1>1. \A n \in 1..13 : n \in {1, 2, k, 6, 13} \/ (n \in 3..12 /\ n \notin {k, 6})
  OBVIOUS
<1>2. \A n \in 1..13 :
         /\ s[n][1] \notin {"waits", "agree"}
         /\ s[n][1] = "status" => n = 1
         /\ s[n][1] = "fits" => n = 2
         /\ s[n][1] = "read" => n = k
         /\ s[n][1] = "bind" => n = 6
         /\ s[n][1] = "commit" => n = 13
  BY <1>1
<1>3. Paired(s)
  BY <1>2 DEF Paired
<1>4. Provided(s, {})
  <2>1. "seen" \in Gives(s[1]) /\ "fit" \in Gives(s[2]) /\ "evidence" \in Gives(s[k])
    BY DEF Gives
  <2>2. \A n \in 1..13 : \A x \in Needs(s[n]) :
           \/ x = "seen" /\ n > 1
           \/ x = "fit" /\ n > 2
           \/ x = "evidence" /\ n > k
    BY <1>1 DEF Needs
  <2>3. ASSUME NEW n \in 1..13, NEW x \in Needs(s[n])
        PROVE  \E m \in 1..(n - 1) : x \in Gives(s[m])
    <3>2. CASE x = "seen" /\ n > 1
      <4>1. 1 \in 1..(n - 1)
        BY <3>2
      <4> QED
        BY <2>1, <3>2, <4>1
    <3>3. CASE x = "fit" /\ n > 2
      <4>1. 2 \in 1..(n - 1)
        BY <3>3
      <4> QED
        BY <2>1, <3>3, <4>1
    <3>4. CASE x = "evidence" /\ n > k
      <4>1. k \in 1..(n - 1)
        BY <3>4
      <4> QED
        BY <2>1, <3>4, <4>1
    <3> QED
      BY <2>2, <2>3, <3>2, <3>3, <3>4
  <2> QED
    BY <2>3 DEF Provided
<1>5. Careful(s, last, {"evidence"})
  <2>1. NeverAfter(s, "fits", "status") /\ NeverAfter(s, "bind", "read")
    BY <1>2 DEF NeverAfter
  <2>2. \A n \in 1..13 : n >= last => s[n][1] # "read"
    BY <1>2
  <2>3. /\ \E m \in 1..(Len(s) - 1) : s[m] = <<"bind", "evidence">>
        /\ \E m \in 1..(Len(s) - 1) :
              m >= last /\ s[m] \in {<<"reread", "evidence">>, <<"bind", "evidence">>}
    <3>1. 6 \in 1..(Len(s) - 1) /\ last \in 1..(Len(s) - 1) /\ last >= last
      OBVIOUS
    <3> QED
      BY <3>1
  <2> QED
    BY <1>2, <2>1, <2>2, <2>3 DEF Careful
<1> QED
  BY <1>3, <1>4, <1>5 DEF WellFormed

\* The steps of a closure.
LEMMA ClosureSteps ==
    /\ {<<"row", Subject>>, <<"status">>, <<"fits">>, <<"commit">>} \subseteq PlainSteps
    /\ \A f \in Files :
          {<<"read", f>>, <<"reread", f>>, <<"bind", f>>} \subseteq PlainSteps
    /\ PlainSteps \subseteq CommitSteps
  BY DEF CommitSteps, PlainSteps, FirstSteps, AgainSteps

\* VERIFIED to CLOSED.
LEMMA CloseForm ==
    LET s == CloseVerified \o VerifiedClosure("reread") \o << <<"commit">> >>
    IN  WellFormed(s, PlainSteps, {}) /\ Careful(s, Len(CloseVerified) + 2, {"evidence"})
<1> DEFINE s == CloseVerified \o VerifiedClosure("reread") \o << <<"commit">> >>
           k == 4
           last == 11
<1>1. Len(CloseVerified) = 9 /\ Len(s) = 13
  BY DEF CloseVerified, ClosurePreparation, VerifiedClosure
<1>2. s[1] = <<"status">>
  BY DEF CloseVerified, ClosurePreparation, VerifiedClosure
<1>3. s[2] = <<"fits">>
  BY DEF CloseVerified, ClosurePreparation, VerifiedClosure
<1>4. s[3] = <<"row", Subject>>
  BY DEF CloseVerified, ClosurePreparation, VerifiedClosure
<1>5. s[4] = <<"read", "evidence">>
  BY DEF CloseVerified, ClosurePreparation, VerifiedClosure
<1>6. s[5] = <<"row", Subject>>
  BY DEF CloseVerified, ClosurePreparation, VerifiedClosure
<1>7. s[6] = <<"bind", "evidence">>
  BY DEF CloseVerified, ClosurePreparation, VerifiedClosure
<1>8. s[7] = <<"row", Subject>>
  BY DEF CloseVerified, ClosurePreparation, VerifiedClosure
<1>9. s[8] = <<"reread", "evidence">>
  BY DEF CloseVerified, ClosurePreparation, VerifiedClosure
<1>10. s[9] = <<"row", Subject>>
  BY DEF CloseVerified, ClosurePreparation, VerifiedClosure
<1>11. s[10] = <<"row", Subject>>
  BY DEF CloseVerified, ClosurePreparation, VerifiedClosure
<1>12. s[11] = <<"reread", "evidence">>
  BY DEF CloseVerified, ClosurePreparation, VerifiedClosure
<1>13. s[12] = <<"row", Subject>>
  BY DEF CloseVerified, ClosurePreparation, VerifiedClosure
<1>14. s[13] = <<"commit">>
  BY DEF CloseVerified, ClosurePreparation, VerifiedClosure
<1>15. s \in Seq(PlainSteps)
  <2>1. /\ << <<"status">>, <<"fits">> >> \in Seq(PlainSteps)
        /\ << <<"bind", "evidence">> >> \in Seq(PlainSteps)
        /\ << <<"commit">> >> \in Seq(PlainSteps)
    BY ClosureSteps DEF Files
  <2>2. /\ VerifiedClosure("read") \in Seq(PlainSteps)
        /\ VerifiedClosure("reread") \in Seq(PlainSteps)
    BY ClosureSteps DEF VerifiedClosure, Files
  <2> QED
    BY <2>1, <2>2 DEF CloseVerified, ClosurePreparation
<1> HIDE DEF s
<1>16. \A n \in 3..12 : n \notin {k, 6} =>
          s[n] = <<"row", Subject>> \/ (s[n] = <<"reread", "evidence">> /\ n > k)
  <2>1. \A n \in 3..12 : n \in {3, 4, 5, 6, 7, 8, 9, 10, 11, 12}
    OBVIOUS
  <2> QED
    BY <2>1, <1>4, <1>5, <1>6, <1>8, <1>9, <1>10, <1>11, <1>12, <1>13
<1>17. /\ k \in {3, 4} /\ last \in {10, 11} /\ Len(CloseVerified) + 2 = last
       /\ s[k] = <<"read", "evidence">> /\ s[last] = <<"reread", "evidence">>
  BY <1>1, <1>5, <1>12
<1> HIDE DEF k, last
<1>18. WellFormed(s, PlainSteps, {}) /\ Careful(s, last, {"evidence"})
  BY <1>1, <1>2, <1>3, <1>7, <1>14, <1>15, <1>16, <1>17, ClosureForm
<1> QED
  BY <1>17, <1>18 DEF s

\* RC_READY to CLOSED.
LEMMA ReleaseForm ==
    LET s == CloseManifest \o ManifestClosure("reread") \o << <<"commit">> >>
    IN  WellFormed(s, PlainSteps, {}) /\ Careful(s, Len(CloseManifest) + 1, {"evidence"})
<1> DEFINE s == CloseManifest \o ManifestClosure("reread") \o << <<"commit">> >>
           k == 3
           last == 10
<1>1. Len(CloseManifest) = 9 /\ Len(s) = 13
  BY DEF CloseManifest, ClosurePreparation, ManifestClosure
<1>2. s[1] = <<"status">>
  BY DEF CloseManifest, ClosurePreparation, ManifestClosure
<1>3. s[2] = <<"fits">>
  BY DEF CloseManifest, ClosurePreparation, ManifestClosure
<1>4. s[3] = <<"read", "evidence">>
  BY DEF CloseManifest, ClosurePreparation, ManifestClosure
<1>5. s[4] = <<"row", Subject>>
  BY DEF CloseManifest, ClosurePreparation, ManifestClosure
<1>6. s[5] = <<"row", Subject>>
  BY DEF CloseManifest, ClosurePreparation, ManifestClosure
<1>7. s[6] = <<"bind", "evidence">>
  BY DEF CloseManifest, ClosurePreparation, ManifestClosure
<1>8. s[7] = <<"reread", "evidence">>
  BY DEF CloseManifest, ClosurePreparation, ManifestClosure
<1>9. s[8] = <<"row", Subject>>
  BY DEF CloseManifest, ClosurePreparation, ManifestClosure
<1>10. s[9] = <<"row", Subject>>
  BY DEF CloseManifest, ClosurePreparation, ManifestClosure
<1>11. s[10] = <<"reread", "evidence">>
  BY DEF CloseManifest, ClosurePreparation, ManifestClosure
<1>12. s[11] = <<"row", Subject>>
  BY DEF CloseManifest, ClosurePreparation, ManifestClosure
<1>13. s[12] = <<"row", Subject>>
  BY DEF CloseManifest, ClosurePreparation, ManifestClosure
<1>14. s[13] = <<"commit">>
  BY DEF CloseManifest, ClosurePreparation, ManifestClosure
<1>15. s \in Seq(PlainSteps)
  <2>1. /\ << <<"status">>, <<"fits">> >> \in Seq(PlainSteps)
        /\ << <<"bind", "evidence">> >> \in Seq(PlainSteps)
        /\ << <<"commit">> >> \in Seq(PlainSteps)
    BY ClosureSteps DEF Files
  <2>2. /\ ManifestClosure("read") \in Seq(PlainSteps)
        /\ ManifestClosure("reread") \in Seq(PlainSteps)
    BY ClosureSteps DEF ManifestClosure, Files
  <2> QED
    BY <2>1, <2>2 DEF CloseManifest, ClosurePreparation
<1> HIDE DEF s
<1>16. \A n \in 3..12 : n \notin {k, 6} =>
          s[n] = <<"row", Subject>> \/ (s[n] = <<"reread", "evidence">> /\ n > k)
  <2>1. \A n \in 3..12 : n \in {3, 4, 5, 6, 7, 8, 9, 10, 11, 12}
    OBVIOUS
  <2> QED
    BY <2>1, <1>4, <1>5, <1>6, <1>8, <1>9, <1>10, <1>11, <1>12, <1>13
<1>17. /\ k \in {3, 4} /\ last \in {10, 11} /\ Len(CloseManifest) + 1 = last
       /\ s[k] = <<"read", "evidence">> /\ s[last] = <<"reread", "evidence">>
  BY <1>1, <1>4, <1>11
<1> HIDE DEF k, last
<1>18. WellFormed(s, PlainSteps, {}) /\ Careful(s, last, {"evidence"})
  BY <1>1, <1>2, <1>3, <1>7, <1>14, <1>15, <1>16, <1>17, ClosureForm
<1> QED
  BY <1>17, <1>18 DEF s

\* The same of an ordinary advance into TASK_REVIEW.
LEMMA DirectForm ==
    LET s == DirectPreparation \o << <<"commit">> >>
    IN  /\ WellFormed(s, PlainSteps, {})
        /\ Careful(s, Len(DirectPreparation) - 1, {"packet", "result"})
<1> DEFINE s == DirectPreparation \o << <<"commit">> >>
<1>1. /\ Len(DirectPreparation) = 6 /\ Len(s) = 7
      /\ s[1] = <<"status">> /\ s[2] = <<"fits">>
      /\ s[3] = <<"read", "packet">> /\ s[4] = <<"read", "result">>
      /\ s[5] = <<"bind", "packet">> /\ s[6] = <<"bind", "result">>
      /\ s[7] = <<"commit">>
  BY DEF DirectPreparation
<1>2. s \in Seq(PlainSteps)
  BY ClosureSteps DEF DirectPreparation, Files
<1> HIDE DEF s
<1>3. \A n \in 1..7 : n \in {1, 2, 3, 4, 5, 6, 7}
  OBVIOUS
<1>4. \A n \in 1..7 :
         /\ s[n][1] \notin {"waits", "agree"}
         /\ s[n][1] = "status" => n = 1
         /\ s[n][1] = "fits" => n = 2
         /\ s[n][1] = "read" => n \in {3, 4}
         /\ s[n][1] = "bind" => n \in {5, 6}
         /\ s[n][1] = "commit" => n = 7
  BY <1>1, <1>3
<1>5. Paired(s)
  BY <1>1, <1>4 DEF Paired
<1>6. Provided(s, {})
  <2>1. /\ "seen" \in Gives(s[1]) /\ "fit" \in Gives(s[2])
        /\ "packet" \in Gives(s[3]) /\ "result" \in Gives(s[4])
    BY <1>1 DEF Gives
  <2>2. \A n \in 1..7 : \A x \in Needs(s[n]) :
           \/ n > 1 /\ x \in Gives(s[1])
           \/ n > 2 /\ x \in Gives(s[2])
           \/ n > 3 /\ x \in Gives(s[3])
           \/ n > 4 /\ x \in Gives(s[4])
    BY <1>1, <1>3, <2>1 DEF Needs
  <2>3. ASSUME NEW n \in 1..7, NEW x \in Needs(s[n])
        PROVE  \E m \in 1..(n - 1) : x \in Gives(s[m])
    <3>1. ASSUME NEW m \in {1, 2, 3, 4}, n > m, x \in Gives(s[m])
          PROVE  \E i \in 1..(n - 1) : x \in Gives(s[i])
      <4>1. m \in 1..(n - 1)
        BY <3>1
      <4> QED
        BY <3>1, <4>1
    <3> QED
      BY <2>2, <3>1
  <2> QED
    BY <1>1, <2>3 DEF Provided
<1>7. Careful(s, 5, {"packet", "result"})
  <2>1. NeverAfter(s, "fits", "status") /\ NeverAfter(s, "bind", "read")
    BY <1>1, <1>4 DEF NeverAfter
  <2>2. \A n \in 1..7 : n >= 5 => s[n][1] # "read"
    BY <1>4
  <2>3. 5 \in 1..(Len(s) - 1) /\ 6 \in 1..(Len(s) - 1)
    BY <1>1
  <2> QED
    BY <1>1, <1>4, <2>1, <2>2, <2>3 DEF Careful
<1> QED
  BY <1>1, <1>2, <1>5, <1>6, <1>7 DEF WellFormed, s

\* The steps of a receipt neither bind nor commit; one that is looked at again
\* reads nothing for the first time.
LEMMA ReceiptWithout ==
    /\ FirstReceipt \in Seq(FirstSteps) /\ ReceiptAgain \in Seq(AgainSteps)
    /\ Without(FirstReceipt, "fits") /\ Without(FirstReceipt, "bind")
    /\ Without(FirstReceipt, "commit")
    /\ Without(ReceiptAgain, "fits") /\ Without(ReceiptAgain, "bind")
    /\ Without(ReceiptAgain, "commit") /\ Without(ReceiptAgain, "status")
    /\ Without(ReceiptAgain, "read")
<1>1. WellFormed(FirstReceipt, FirstSteps, {})
  BY FirstReceiptForm
<1>2. WellFormed(ReceiptAgain, AgainSteps, Received)
  BY ReceiptAgainForm
<1>3. \A step \in FirstSteps : step[1] \notin {"fits", "bind", "commit"}
  BY DEF FirstSteps, AgainSteps, Looks
<1>4. \A step \in AgainSteps : step[1] \notin {"fits", "bind", "commit", "status", "read"}
  BY DEF AgainSteps, Looks
<1> QED
  BY <1>1, <1>2, <1>3, <1>4 DEF WellFormed, Without

\* The same of the trusted advance, whose last look is its final check.
LEMMA AdvanceForm ==
    LET s == Preparation \o FinalCheck \o << <<"commit">> >>
    IN  /\ WellFormed(s, CommitSteps, {})
        /\ Careful(s, Len(Preparation) + Len(ReceiptAgain) + 1, {"packet", "result"})
<1> DEFINE again == << <<"reread", "packet">>, <<"reread", "result">> >>
           commit == << <<"commit">> >>
           bind == Bind("bind")
           front == FirstReceipt \o again
           check == FinalCheck
           body == Preparation \o FinalCheck
           given == {}
           later == given \cup Received
           last == Len(Preparation) + Len(ReceiptAgain) + 1
           s == body \o commit
<1>1. /\ AgainSteps \subseteq CommitSteps /\ FirstSteps \subseteq CommitSteps
      /\ <<"fits">> \in CommitSteps /\ <<"row", Subject>> \in CommitSteps
      /\ <<"commit">> \in CommitSteps
      /\ <<"bind", "packet">> \in CommitSteps /\ <<"bind", "result">> \in CommitSteps
      /\ <<"reread", "packet">> \in CommitSteps /\ <<"reread", "result">> \in CommitSteps
  BY ClosureSteps DEF CommitSteps, FirstSteps, Files
<1>2. /\ WellFormed(FirstReceipt, CommitSteps, given)
      /\ \A x \in later : x \in given \/ Provides(FirstReceipt, x)
  BY <1>1, FirstReceiptForm
<1>3. WellFormed(again, CommitSteps, later)
  BY <1>1 DEF WellFormed, Paired, Provided, Needs, Received, Packet
<1>4. /\ WellFormed(bind, CommitSteps, later) /\ Provides(bind, "fit")
      /\ Has(bind, <<"bind", "packet">>) /\ Has(bind, <<"bind", "result">>)
  BY <1>1, BindForm
<1>5. WellFormed(ReceiptAgain, CommitSteps, later)
  BY <1>1, ReceiptAgainForm
<1>6. WellFormed(commit, CommitSteps, later \cup {"fit"})
  BY <1>1 DEF WellFormed, Paired, Provided, Needs, Received, Packet
<1>7. /\ Without(again, "fits") /\ Without(again, "bind") /\ Without(again, "commit")
      /\ Without(again, "status") /\ Without(again, "read")
      /\ Without(bind, "status") /\ Without(bind, "read") /\ Without(bind, "commit")
      /\ Without(commit, "status") /\ Without(commit, "read")
  BY DEF Without, Bind
<1>8. Len(again) = 2 /\ again[1] = <<"reread", "packet">> /\ again[2] = <<"reread", "result">>
      /\ Len(commit) = 1
  OBVIOUS
<1>9. /\ Preparation = front \o bind /\ FinalCheck = ReceiptAgain \o again
      /\ Preparation \o FinalCheck \o << <<"commit">> >> = s
  BY DEF Preparation, FinalCheck
<1> HIDE DEF again, commit, bind, given, later
<1>10. /\ WellFormed(front, CommitSteps, given)
       /\ \A x \in later : x \in given \/ Provides(front, x)
  BY <1>2, <1>3, Joined
<1>11. Without(front, "fits") /\ Without(front, "bind") /\ Without(front, "commit")
  BY <1>2, <1>3, <1>7, ReceiptWithout, WithoutJoined DEF WellFormed
<1> HIDE DEF front
<1>12. /\ WellFormed(Preparation, CommitSteps, given)
       /\ \A x \in later : x \in given \/ Provides(Preparation, x)
       /\ Provides(Preparation, "fit")
       /\ Has(Preparation, <<"bind", "packet">>) /\ Has(Preparation, <<"bind", "result">>)
  BY <1>4, <1>9, <1>10, Joined
<1>13. /\ Without(Preparation, "commit")
       /\ NeverAfter(Preparation, "fits", "status")
       /\ NeverAfter(Preparation, "bind", "read")
  BY <1>4, <1>7, <1>9, <1>10, <1>11, WithoutJoined, NeverAfterJoined DEF WellFormed
<1>14. WellFormed(FinalCheck, CommitSteps, later)
  <2>1. \A x \in later : x \in later \/ Provides(ReceiptAgain, x)
    OBVIOUS
  <2> QED
    BY <1>3, <1>5, <1>9, <2>1, Joined
<1>15. /\ Without(FinalCheck, "commit") /\ Without(FinalCheck, "status")
       /\ Without(FinalCheck, "read")
  BY <1>3, <1>5, <1>7, <1>9, ReceiptWithout, WithoutJoined DEF WellFormed
<1>16. /\ WellFormed(body, CommitSteps, given)
       /\ \A x \in later \cup {"fit"} : x \in given \/ Provides(body, x)
       /\ Has(body, <<"bind", "packet">>) /\ Has(body, <<"bind", "result">>)
  BY <1>12, <1>14, Joined
<1>17. /\ Without(body, "commit")
       /\ NeverAfter(body, "fits", "status") /\ NeverAfter(body, "bind", "read")
  BY <1>12, <1>13, <1>14, <1>15, WithoutJoined, NeverAfterJoined DEF WellFormed
<1>18. /\ Len(ReceiptAgain) \in Nat /\ Len(FinalCheck) = Len(ReceiptAgain) + 2
       /\ FinalCheck[Len(ReceiptAgain) + 1] = <<"reread", "packet">>
       /\ FinalCheck[Len(ReceiptAgain) + 2] = <<"reread", "result">>
  <2>1. ReceiptAgain \in Seq(CommitSteps) /\ again \in Seq(CommitSteps)
    BY <1>3, <1>5 DEF WellFormed
  <2>2. 1 \in 1..Len(again) /\ 2 \in 1..Len(again)
    BY <1>8
  <2>3. /\ Len(ReceiptAgain) \in Nat
        /\ Len(ReceiptAgain \o again) = Len(ReceiptAgain) + Len(again)
        /\ \A n \in 1..Len(again) : (ReceiptAgain \o again)[Len(ReceiptAgain) + n] = again[n]
    BY <2>1, Places
  <2> QED
    BY <1>8, <1>9, <2>2, <2>3
<1>19. /\ Len(Preparation) \in Nat /\ Len(body) = last + 1 /\ last \in Nat /\ last > 0
       /\ body[last] = <<"reread", "packet">> /\ body[last + 1] = <<"reread", "result">>
  <2>1. Preparation \in Seq(CommitSteps) /\ FinalCheck \in Seq(CommitSteps)
    BY <1>12, <1>14 DEF WellFormed
  <2>2. /\ body[Len(Preparation) + (Len(ReceiptAgain) + 1)] = FinalCheck[Len(ReceiptAgain) + 1]
        /\ body[Len(Preparation) + (Len(ReceiptAgain) + 2)] = FinalCheck[Len(ReceiptAgain) + 2]
    BY <1>18, <2>1
  <2>3. Len(body) = Len(Preparation) + Len(FinalCheck) /\ Len(Preparation) \in Nat
    BY <2>1
  <2>4. /\ Len(Preparation) + (Len(ReceiptAgain) + 1) = last
        /\ Len(Preparation) + (Len(ReceiptAgain) + 2) = last + 1
        /\ last \in Nat /\ last > 0 /\ Len(body) = last + 1
    BY <1>18, <2>3
  <2> HIDE DEF body, last
  <2> QED
    BY <1>18, <2>2, <2>3, <2>4
<1> HIDE DEF body, last
<1>20. WellFormed(s, CommitSteps, given)
  BY <1>6, <1>16, Joined
<1>21. NeverAfter(s, "fits", "status") /\ NeverAfter(s, "bind", "read")
  BY <1>6, <1>7, <1>16, <1>17, NeverAfterJoined DEF WellFormed
<1>22. /\ Len(s) = last + 2 /\ \A n \in 1..(last + 1) : s[n] = body[n]
       /\ s[last + 2] = commit[1]
  <2>1. body \in Seq(CommitSteps) /\ commit \in Seq(CommitSteps)
    BY <1>6, <1>16 DEF WellFormed
  <2>2. 1 \in 1..Len(commit) /\ Len(body) + 1 = last + 2
    BY <1>8, <1>19
  <2>3. /\ Len(s) = Len(body) + Len(commit)
        /\ \A n \in 1..Len(body) : s[n] = body[n]
        /\ \A n \in 1..Len(commit) : s[Len(body) + n] = commit[n]
    BY <2>1, Places
  <2> HIDE DEF s
  <2> QED
    BY <1>8, <1>19, <2>2, <2>3
<1> HIDE DEF s
<1>23. commit[1] = <<"commit">>
  BY DEF commit
<1>24. \A n \in 1..Len(s) : s[n][1] = "commit" => n = Len(s)
  BY <1>17, <1>19, <1>22 DEF Without
<1>25. \A n \in 1..Len(s) : n >= last => s[n][1] # "read"
  <2>1. \A n \in 1..Len(s) : n >= last => n \in {last, last + 1, last + 2}
    BY <1>19, <1>22
  <2> QED
    BY <1>19, <1>22, <1>23, <2>1
<1>26. /\ last \in 1..(Len(s) - 1) /\ s[last] = <<"reread", "packet">>
       /\ last + 1 \in 1..(Len(s) - 1) /\ s[last + 1] = <<"reread", "result">>
       /\ last + 1 >= last
  BY <1>19, <1>22
<1>27. /\ \E m \in 1..(Len(s) - 1) : s[m] = <<"bind", "packet">>
       /\ \E m \in 1..(Len(s) - 1) : s[m] = <<"bind", "result">>
  BY <1>16, <1>19, <1>22 DEF Has
<1>28. Careful(s, last, {"packet", "result"})
  <2>1. \A f \in {"packet", "result"} :
           /\ \E m \in 1..(Len(s) - 1) : s[m] = <<"bind", f>>
           /\ \E m \in 1..(Len(s) - 1) :
                 m >= last /\ s[m] \in {<<"reread", f>>, <<"bind", f>>}
    <3>1. last >= last
      BY <1>19
    <3> QED
      BY <1>26, <1>27, <3>1
  <2> QED
    BY <1>19, <1>21, <1>24, <1>25, <2>1 DEF Careful
<1> QED
  BY <1>9, <1>20, <1>28 DEF last, given

-----------------------------------------------------------------------------
(* Every script.                                                           *)

\* trusted_task_progress_summary ends with row, list and waits.
LEMMA TaskForm ==
    LET s == << <<"status">> >> \o TaskSummary(Subject)
        steps == Looks(Subject) \cup {<<"status">>}
    IN  /\ WellFormed(s, steps, {}) /\ Len(s) = 11
        /\ s[9] = <<"row", Subject>>
        /\ s[10] = <<"list", Subject>> /\ s[11] = <<"waits", Subject>>
<1> DEFINE status == << <<"status">> >>
           s == status \o TaskSummary(Subject)
           steps == Looks(Subject) \cup {<<"status">>}
           later == {"seen"}
           given == {}
<1>1. WellFormed(status, steps, given) /\ Provides(status, "seen") /\ Len(status) = 1
  BY DEF WellFormed, Paired, Provided, Needs, Provides, Gives
<1>2. WellFormed(TaskSummary(Subject), steps, later)
  BY TrustedQueriesAssumption, TaskSummaryForm DEF Subject, Tasks
<1>3. \A x \in later : x \in given \/ Provides(status, x)
  BY <1>1
<1>4. /\ Len(TaskSummary(Subject)) = 10 /\ TaskSummary(Subject)[8] = <<"row", Subject>>
      /\ TaskSummary(Subject)[9] = <<"list", Subject>>
      /\ TaskSummary(Subject)[10] = <<"waits", Subject>>
  BY TaskSummarySteps
<1> HIDE DEF status, later, given, steps
<1>5. WellFormed(s, steps, given)
  BY <1>1, <1>2, <1>3, Joined
<1>6. /\ Len(s) = 11 /\ s[1 + 8] = TaskSummary(Subject)[8]
      /\ s[1 + 9] = TaskSummary(Subject)[9] /\ s[1 + 10] = TaskSummary(Subject)[10]
  <2>1. status \in Seq(steps) /\ TaskSummary(Subject) \in Seq(steps)
    BY <1>1, <1>2 DEF WellFormed
  <2>2. /\ Len(s) = Len(status) + Len(TaskSummary(Subject))
        /\ \A n \in 1..Len(TaskSummary(Subject)) : s[Len(status) + n] = TaskSummary(Subject)[n]
    BY <2>1, Places
  <2> HIDE DEF s
  <2> QED
    BY <1>1, <1>4, <2>2
<1> QED
  BY <1>4, <1>5, <1>6 DEF steps, given, status

\* waiting_human_resume_gate_preview ends with answers, list and waits.
LEMMA ResumeForm ==
    LET steps == Looks(Subject) \cup {<<"status">>, <<"answers">>}
    IN  /\ WellFormed(ResumePreview, steps, {}) /\ Len(ResumePreview) = 10
        /\ ResumePreview[8] = <<"answers">>
        /\ ResumePreview[9] = <<"list", Subject>> /\ ResumePreview[10] = <<"waits", Subject>>
<1> DEFINE status == << <<"status">> >>
           rows == << <<"row", Subject>>, <<"row", Subject>>, <<"row", Subject>> >>
           binding == << <<"answers">>, <<"list", Subject>>, <<"waits", Subject>> >>
           steps == Looks(Subject) \cup {<<"status">>, <<"answers">>}
           later == {"seen"}
           given == {}
           front == status \o binding
           middle == front \o rows
<1>1. /\ <<"row", Subject>> \in steps /\ <<"list", Subject>> \in steps
      /\ <<"waits", Subject>> \in steps
  BY DEF Looks
<1>2. WellFormed(status, steps, given) /\ Provides(status, "seen")
  BY DEF WellFormed, Paired, Provided, Needs, Provides, Gives
<1>3. WellFormed(binding, steps, later) /\ WellFormed(rows, steps, later)
  BY <1>1 DEF WellFormed, Paired, Provided, Needs
<1>4. /\ ResumePreview = middle \o binding /\ Len(ResumePreview) = 10
      /\ ResumePreview[8] = <<"answers">>
      /\ ResumePreview[9] = <<"list", Subject>> /\ ResumePreview[10] = <<"waits", Subject>>
  BY DEF ResumePreview
<1>5. \A x \in later : x \in given \/ Provides(status, x)
  BY <1>2
<1> HIDE DEF status, rows, binding, steps, later, given
<1>6. /\ WellFormed(front, steps, given)
      /\ \A x \in later : x \in given \/ Provides(front, x)
  BY <1>2, <1>3, <1>5, Joined
<1> HIDE DEF front
<1>7. /\ WellFormed(middle, steps, given)
      /\ \A x \in later : x \in given \/ Provides(middle, x)
  BY <1>3, <1>6, Joined
<1> HIDE DEF middle
<1>8. WellFormed(middle \o binding, steps, given)
  BY <1>3, <1>7, Joined
<1> QED
  BY <1>4, <1>8 DEF steps, given

\* The steps of a call.
ByProject == {"project", "queue", "overview", "captured", "resolution"}
ByTask == {"task", "resume", "handoff", "gate"} \cup Advances

StepsOf(c) ==
    CASE c = "task" -> Looks(Subject) \cup {<<"status">>}
      [] c = "resume" -> Looks(Subject) \cup {<<"status">>, <<"answers">>}
      [] c = "handoff" -> FirstSteps
      [] c = "gate" -> FirstSteps \cup {<<"fits">>} \cup ({"take"} \X Files)
      [] c = "advance" -> CommitSteps
      [] c \in {"direct", "close", "release"} -> PlainSteps
      [] c = "project" -> SummarySteps
      [] c = "queue" -> ProjectSteps
      [] c = "overview" -> ProjectSteps \cup {<<"keep">>, <<"agree">>}
      [] c = "captured" -> SummarySteps \cup {<<"open">>, <<"compare">>, <<"reopen">>}
      [] c = "resolution" ->
            ProjectSteps \cup {<<"keep">>, <<"agree">>, <<"answers">>}
            \cup ({"read", "reread"} \X {"resolution"})

\* What an advance binds.
Evidence(c) == IF c \in {"close", "release"} THEN {"evidence"} ELSE {"packet", "result"}

\* Every script is well-formed and relies on nothing given; what it ends with; and
\* the scripts that commit are careful.
LEMMA ScriptForm ==
    ASSUME NEW c \in DOMAIN Script
    PROVE  /\ WellFormed(Script[c], StepsOf(c), {}) /\ Len(Script[c]) > 0
           /\ c \in {"project", "captured"} => Ends(Script[c], <<"recheck">>)
           /\ c = "queue" => Ends(Script[c], <<"waits", 0>>)
           /\ c \in {"overview", "resolution"} => Ends(Script[c], <<"agree">>)
           /\ c \in Advances => Careful(Script[c], LastLook[c], Evidence(c))
<1> DEFINE s == Script[c]
<1>1. /\ \A steps, r : WellFormed(r, steps, {}) => r \in Seq(steps)
      /\ \A steps, step : \A r \in Seq(steps) : Ends(r, step) => Len(r) > 0
      /\ \A steps, x : \A r \in Seq(steps) : Provides(r, x) => Len(r) > 0
  BY DEF WellFormed, Ends, Provides
<1>2. CASE c = "task"
  BY <1>2, TaskForm DEF Script, StepsOf, Advances
<1>3. CASE c = "resume"
  BY <1>3, ResumeForm DEF Script, StepsOf, Advances
<1>4. CASE c = "handoff"
  <2>1. s = HandoffPreview /\ StepsOf(c) = FirstSteps
    BY <1>4 DEF Script, StepsOf, Advances
  <2>2. WellFormed(HandoffPreview, FirstSteps, {}) /\ Provides(HandoffPreview, "seen")
    BY HandoffPreviewForm
  <2> QED
    BY <1>1, <1>4, <2>1, <2>2 DEF Advances
<1>5. CASE c = "gate"
  <2> DEFINE steps == FirstSteps \cup {<<"fits">>} \cup ({"take"} \X Files)
  <2>1. s = GatePreview /\ StepsOf(c) = steps
    BY <1>5 DEF Script, StepsOf, Advances
  <2>2. WellFormed(GatePreview, steps, {}) /\ Provides(GatePreview, "seen")
    BY GatePreviewForm
  <2> HIDE DEF steps
  <2> QED
    BY <1>1, <1>5, <2>1, <2>2 DEF Advances
<1>6. CASE c \in Advances
  <2>1. StepsOf(c) = IF c = "advance" THEN CommitSteps ELSE PlainSteps
    BY <1>6 DEF Advances, StepsOf
  <2>2. /\ WellFormed(s, StepsOf(c), {})
        /\ Careful(s, LastLook[c], Evidence(c))
    <3>1. CASE c = "advance"
      BY <2>1, <3>1, AdvanceForm DEF Script, LastLook, Evidence
    <3>2. CASE c = "direct"
      BY <2>1, <3>2, DirectForm DEF Script, LastLook, Evidence
    <3>3. CASE c = "close"
      BY <2>1, <3>3, CloseForm DEF Script, LastLook, Evidence
    <3>4. CASE c = "release"
      BY <2>1, <3>4, ReleaseForm DEF Script, LastLook, Evidence
    <3> QED
      BY <1>6, <3>1, <3>2, <3>3, <3>4 DEF Advances
  <2>3. Len(s) > 0
    <3>1. \E m \in 1..(Len(s) - 1) : TRUE
      BY <2>2 DEF Careful, Evidence
    <3> QED
      BY <1>1, <2>2, <3>1
  <2> QED
    BY <1>6, <2>1, <2>2, <2>3 DEF Advances
<1>7. CASE c \in ByProject
  <2>1. /\ WellFormed(s, StepsOf(c), {})
        /\ c \in {"project", "captured"} => Ends(s, <<"recheck">>)
        /\ c = "queue" => Ends(s, <<"waits", 0>>)
        /\ c \in {"overview", "resolution"} => Ends(s, <<"agree">>)
    <3>1. CASE c = "project"
      <4>1. /\ <<"collect">> \in SummarySteps /\ <<"recheck">> \in SummarySteps
            /\ \A t \in Tasks : Looks(t) \subseteq SummarySteps
        BY DEF SummarySteps, Looks
      <4>2. /\ WellFormed(ProjectSummary("collect"), SummarySteps, {})
            /\ Ends(ProjectSummary("collect"), <<"recheck">>)
        BY <4>1, ProjectSummaryForm
      <4> QED
        BY <3>1, <4>2 DEF Script, StepsOf, Advances
    <3>2. CASE c = "queue"
      BY <3>2, PendingQueueForm DEF Script, StepsOf, Advances
    <3>3. CASE c = "overview"
      BY <3>3, OverviewForm DEF Script, StepsOf, Advances
    <3>4. CASE c = "captured"
      BY <3>4, CapturedForm DEF Script, StepsOf, Advances
    <3>5. CASE c = "resolution"
      BY <3>5, ResolutionPreviewForm DEF Script, StepsOf, Advances
    <3> QED
      BY <1>7, <3>1, <3>2, <3>3, <3>4, <3>5 DEF ByProject
  <2>2. \E step : Ends(s, step)
    BY <1>7, <2>1 DEF ByProject
  <2> QED
    BY <1>1, <1>7, <2>1, <2>2 DEF ByProject, Advances
<1> QED
  BY <1>2, <1>3, <1>4, <1>5, <1>6, <1>7 DEF Script, Advances, ByProject

-----------------------------------------------------------------------------
(* The steps of a call.                                                    *)

\* Goes on to the next instruction that applies to what has been collected, or
\* returns because none does.
GoesOn ==
    \/ /\ outcome' = None /\ at' \in (at + 1)..Len(Script[call])
       /\ ~ Skipped(Script[call][at'], seen')
       /\ \A m \in (at + 1)..(at' - 1) : Skipped(Script[call][m], seen')
    \/ /\ outcome' = "returned" /\ at' = at
       /\ \A m \in (at + 1)..Len(Script[call]) : Skipped(Script[call][m], seen')

\* What an instruction asserts, beside that the store can be read.
Found ==
    /\ Op = "recheck" => lineage = seen
    /\ Op = "status" => lineage[Subject] # <<>>
    /\ Op = "row" => [seen EXCEPT ![Arg] = lineage[Arg]] = seen
    /\ Op = "waits" => /\ listing = Waiting(lineage)
                       /\ IF Arg = 0 THEN listing = Waiting(seen)
                          ELSE <<Arg, Len(seen[Arg])>> \in listing
    /\ Op = "agree" => Report(seen) = Report(kept)
    /\ Op = "read" => Valid(Arg, files[Arg])
    /\ Op = "reread" => files[Arg] = read[Arg]
    /\ Op = "compare" => opened = seen
    /\ Op = "reopen" => capture = opened
    /\ Op = "answers" => StateOf(seen, Subject) = "WAITING_HUMAN"
    /\ Op = "classified" => ClassifiedOnce(seen[Subject])
    /\ Op = "fits" => Fits(seen)
    /\ Op = "bind" => files[Arg] = read[Arg]
    /\ Op = "take" => Valid(Arg, files[Arg])

\* What an instruction notes.
Noted ==
    /\ Op \notin {"collect", "status", "agree"} => seen' = seen
    /\ Op = "collect" => seen' = lineage
    /\ Op = "status" => seen' = [Nothing EXCEPT ![Subject] = lineage[Subject]]
    /\ Op = "agree" => seen' = kept
    /\ kept' = IF Op = "keep" THEN seen ELSE kept
    /\ listing' = IF Op = "list" THEN Unresolved ELSE listing
    /\ read' = IF Op = "read" THEN [read EXCEPT ![Arg] = files[Arg]] ELSE read
    /\ opened' = IF Op = "open" THEN capture ELSE opened
    /\ bound' = IF Op \in {"bind", "take"} THEN [bound EXCEPT ![Arg] = files[Arg]]
                ELSE bound
    /\ matched' = IF Op = "open" THEN (capture = lineage) ELSE matched

Look ==
    /\ Running /\ Op # "commit" /\ UNCHANGED <<worldVars, call>>
    /\ \/ /\ Unreadable \/ ~ Found
          /\ outcome' = "raised" /\ UNCHANGED <<at, lookVars, matched>>
       \/ Found /\ Noted /\ GoesOn

Reads ==
    \/ Collect \/ Recheck \/ Status \/ Row \/ List \/ Waits \/ Keep \/ Agree
    \/ ReadFile \/ Reread \/ Open \/ Compare \/ Reopen
    \/ Answers \/ Classified \/ FitsResult \/ BindFile

World ==
    \/ OpenStore \/ CloseStore \/ LockMoves
    \/ \E t \in Tasks : Ask(t) \/ \E s \in Stages : CommitElsewhere(t, s)
    \/ \E f \in Files, c \in Contents : Edit(f, c)
    \/ \E c \in Soon \cup {None} : Recapture(c)

\* GoOn finds the first instruction that applies.
LEMMA GoOnFinds ==
    ASSUME NEW p, Running, at \in Nat, Len(Script[call]) \in Nat, GoOn(p), seen' = p
    PROVE  GoesOn
<1> DEFINE Applies(n) == ~ Skipped(Script[call][n], p)
           ahead == (at + 1)..Len(Script[call])
           first(n) == /\ n \in ahead
                       /\ Applies(n) /\ \A m \in (at + 1)..(n - 1) : ~ Applies(m)
           T == {n \in ahead : Applies(n)}
<1>1. CASE T # {}
  <2>1. T \subseteq Nat
    OBVIOUS
  <2>2. \E x \in T : \A y \in T : ~ (<<y, x>> \in OpToRel(<, Nat))
    BY <1>1, <2>1, NatLessThanWellFounded, WFMin
  <2>3. PICK x \in T : \A y \in T : ~ (y < x)
    BY <2>1, <2>2 DEF OpToRel
  <2>4. first(x)
    <3>1. ASSUME NEW m \in (at + 1)..(x - 1) PROVE ~ Applies(m)
      <4>1. m \in ahead /\ m < x
        BY <2>3
      <4> QED
        BY <2>3, <4>1
    <3> QED
      BY <2>3, <3>1
  <2>5. /\ at' = CHOOSE n \in ahead :
                     Applies(n) /\ \A m \in (at + 1)..(n - 1) : ~ Applies(m)
        /\ outcome' = outcome
    BY <1>1 DEF GoOn
  <2>6. first(at')
    BY <2>4, <2>5
  <2> QED
    BY <2>5, <2>6 DEF GoesOn, Running
<1>2. CASE T = {}
  BY <1>2 DEF GoOn, GoesOn
<1> QED
  BY <1>1, <1>2

\* Each instruction is such a look.
LEMMA ReadsLook ==
    ASSUME at \in Nat, Len(Script[call]) \in Nat, Reads
    PROVE  Look
<1> USE GoOnFinds DEF Doing, Check, Raise, Look, Found, Noted
<1>1. CASE Collect
  BY <1>1 DEF Collect, lookVars
<1>2. CASE Recheck
  BY <1>2 DEF Recheck, Same, lookVars
<1>3. CASE Status
  BY <1>3 DEF Status, lookVars
<1>4. CASE Row
  BY <1>4 DEF Row, Same, lookVars
<1>5. CASE List
  BY <1>5 DEF List, lookVars
<1>6. CASE Waits
  BY <1>6 DEF Waits, lookVars
<1>7. CASE Keep
  BY <1>7 DEF Keep, lookVars
<1>8. CASE Agree
  BY <1>8 DEF Agree, lookVars
<1>9. CASE ReadFile
  BY <1>9 DEF ReadFile, lookVars
<1>10. CASE Reread
  BY <1>10 DEF Reread, lookVars
<1>11. CASE Open
  BY <1>11 DEF Open, lookVars
<1>12. CASE Compare
  BY <1>12 DEF Compare, lookVars
<1>13. CASE Reopen
  BY <1>13 DEF Reopen, lookVars
<1>14. CASE Answers
  BY <1>14 DEF Answers, lookVars
<1>15. CASE Classified
  BY <1>15 DEF Classified, lookVars
<1>16. CASE FitsResult
  BY <1>16 DEF FitsResult, lookVars
<1>17. CASE BindFile
  BY <1>17 DEF BindFile, lookVars
<1> QED
  BY <1>1, <1>2, <1>3, <1>4, <1>5, <1>6, <1>7, <1>8, <1>9, <1>10, <1>11, <1>12,
     <1>13, <1>14, <1>15, <1>16, <1>17 DEF Reads

-----------------------------------------------------------------------------
(* The inductive invariant.                                                *)

\* One sequence begins another.
Begins(s, r) == Len(s) <= Len(r) /\ \A n \in 1..Len(s) : s[n] = r[n]

\* Instructions that the call has left behind: of an operation, and for a file.
Past(o) == \E m \in 1..(at - 1) : Script[call][m][1] = o
PastFile(o, f) == \E m \in 1..(at - 1) : Script[call][m] = <<o, f>>

\* Nobody takes back an audit event, so what has been collected is a beginning.
SeenEarlier ==
    \A t \in Tasks : Begins(seen[t], lineage[t]) /\ Begins(kept[t], lineage[t])

\* The instruction at hand applies to what has been collected.
Applicable == Running => ~ Skipped(Script[call][at], seen)

\* A call for one task goes on only with a task that there is; and it commits a
\* transition only after it has been authorized for the state it has seen.
TaskFound ==
    call \in ByTask =>
        /\ Past("status") => seen[Subject] # <<>>
        /\ call \in Advances /\ Past("fits") => Fits(seen)

\* Between its second list and the comparison of two queues nobody else moves.
QueueCurrent ==
    Running /\ Op = "agree" => Waiting(lineage) = Waiting(seen)

\* Once it has been read a capture can only have been true in a moment that is
\* noted; and a task that has moved does not move back.
CaptureNoted ==
    call = "captured" =>
        /\ Past("open") /\ capture = lineage => matched
        /\ Past("compare") => opened = seen
        /\ Past("reopen") => matched \/ lineage # seen

\* Evidence has been validated when it is read, and is what was read when it is
\* bound; after the last look nobody edits it unnoticed.
EvidenceNoted ==
    /\ \A f \in Files : read[f] # None => Valid(f, read[f])
    /\ call \in Advances =>
          /\ \A f \in Files : PastFile("bind", f) => bound[f] = read[f] /\ read[f] # None
          /\ ~ late =>
                \A f \in Files, m \in 1..(at - 1) :
                    m >= LastLook[call]
                    /\ Script[call][m] \in {<<"reread", f>>, <<"bind", f>>}
                    => files[f] = read[f]

\* While nobody has touched the store and the files, the call has what it needs,
\* and everything it has put aside is still true.
Undisturbed ==
    quiet /\ Running =>
        /\ Sensible(call)
        /\ call \notin Advances => ~ busy
        /\ ~ authorityMoved
        /\ \A f \in Files : files[f] = "ok"
        /\ Lists(call) => Unresolved = Waiting(lineage)
        /\ call \in ByProject /\ Past("collect") => seen = lineage
        /\ call \in ByTask /\ Past("status")
           => seen = [Nothing EXCEPT ![Subject] = lineage[Subject]]
        /\ Past("keep") => kept = lineage
        /\ \A f \in Files : PastFile("read", f) => read[f] = "ok"
        /\ Past("open") => opened = capture
        /\ Op = "waits" => listing = Waiting(lineage)

\* The script of the call at hand.
LEMMA ThisScript ==
    ASSUME call \in Calls
    PROVE  /\ call \in DOMAIN Script
           /\ WellFormed(Script[call], StepsOf(call), {}) /\ Len(Script[call]) > 0
           /\ Script[call] \in Seq(StepsOf(call)) /\ Len(Script[call]) \in Nat
           /\ \A n \in 1..Len(Script[call]) : Script[call][n] \in StepsOf(call)
<1>1. call \in DOMAIN Script
  BY CallsAssumption
<1>2. WellFormed(Script[call], StepsOf(call), {}) /\ Len(Script[call]) > 0
  BY <1>1, ScriptForm
<1>3. Script[call] \in Seq(StepsOf(call))
  BY <1>2 DEF WellFormed
<1>4. Len(Script[call]) \in Nat /\ \A n \in 1..Len(Script[call]) : Script[call][n] \in StepsOf(call)
  BY <1>3
<1> QED
  BY <1>1, <1>2, <1>3, <1>4

\* Operations that may not apply to a project.
Skippable == {"row", "list", "waits"}

\* Positions before a later one.
LEMMA Between ==
    ASSUME NEW a \in Nat, NEW b \in Nat, a <= b
    PROVE  /\ \A m \in 1..(a - 1) : m \in 1..(b - 1)
           /\ \A m \in 1..(b - 1) :
                 m \in 1..(a - 1) \/ m = a \/ (m \in (a + 1)..(b - 1) /\ a # b)
  OBVIOUS

\* A look that goes on leaves its instruction behind, and instructions that did
\* not apply.
LEMMA LookLeavesBehind ==
    ASSUME call \in Calls, at \in 1..Len(Script[call]), Look
    PROVE  /\ at' \in 1..Len(Script[call]) /\ at <= at'
           /\ outcome' \in {None, "returned", "raised"}
           /\ outcome' = None => at < at'
           /\ outcome' # None => at' = at
           /\ \A m \in 1..(at' - 1) :
                 \/ m \in 1..(at - 1) \/ m = at
                 \/ Script[call][m][1] \in Skippable
           /\ \A o : o \notin Skippable /\ Past(o)' => Past(o) \/ Op = o
           /\ \A o, f : o \notin Skippable /\ PastFile(o, f)'
                        => PastFile(o, f) \/ Script[call][at] = <<o, f>>
           /\ \A o : Past(o) => Past(o)'
           /\ \A o, f : PastFile(o, f) => PastFile(o, f)'
<1>1. call' = call /\ Running
  BY DEF Look
<1>2. Len(Script[call]) \in Nat
  BY ThisScript
<1>3. \A m \in (at + 1)..(at' - 1) :
         outcome' = None => Script[call][m][1] \in Skippable
  BY DEF Look, GoesOn, Skipped, Skippable, Raise
<1>4. /\ at' \in 1..Len(Script[call]) /\ at <= at'
      /\ outcome' \in {None, "returned", "raised"}
      /\ outcome' = None => at < at'
      /\ outcome' # None => at' = at
  BY <1>2, TrustedQueriesAssumption DEF Look, GoesOn
<1>11. /\ \A m \in 1..(at - 1) : m \in 1..(at' - 1)
       /\ \A m \in 1..(at' - 1) :
             m \in 1..(at - 1) \/ m = at \/ (m \in (at + 1)..(at' - 1) /\ at # at')
  <2>1. at \in Nat /\ at' \in Nat
    BY <1>2, <1>4
  <2> QED
    BY <1>4, <2>1, Between
<1>5. \A m \in 1..(at' - 1) :
         m \in 1..(at - 1) \/ m = at \/ Script[call][m][1] \in Skippable
  BY <1>3, <1>4, <1>11
<1>6. \A m \in 1..(at - 1) : m \in 1..(at' - 1)
  BY <1>11
<1>7. ASSUME NEW o, o \notin Skippable, Past(o)' PROVE Past(o) \/ Op = o
  <2>1. PICK m \in 1..(at' - 1) : Script[call][m][1] = o
    BY <1>1, <1>7 DEF Past
  <2> QED
    BY <1>5, <1>7, <2>1 DEF Past, Op
<1>8. ASSUME NEW o, NEW f, o \notin Skippable, PastFile(o, f)'
      PROVE  PastFile(o, f) \/ Script[call][at] = <<o, f>>
  <2>1. PICK m \in 1..(at' - 1) : Script[call][m] = <<o, f>>
    BY <1>1, <1>8 DEF PastFile
  <2>2. Script[call][m][1] = o
    BY <2>1
  <2> QED
    BY <1>5, <1>8, <2>1, <2>2 DEF PastFile
<1>9. ASSUME NEW o, Past(o) PROVE Past(o)'
  BY <1>1, <1>6, <1>9 DEF Past
<1>10. ASSUME NEW o, NEW f, PastFile(o, f) PROVE PastFile(o, f)'
  BY <1>1, <1>6, <1>10 DEF PastFile
<1> QED
  BY <1>4, <1>5, <1>7, <1>8, <1>9, <1>10

\* What an instruction relies on has been established by one left behind.
LEMMA NeededIsPast ==
    ASSUME call \in Calls, at \in 1..Len(Script[call])
    PROVE  /\ \A x \in Needs(Script[call][at]) :
                 \E m \in 1..(at - 1) :
                    x \in Gives(Script[call][m]) /\ Script[call][m] \in StepsOf(call)
           /\ Op = "waits" => at > 1 /\ Script[call][at - 1] = <<"list", Arg>>
           /\ Op = "agree" => at > 1 /\ Script[call][at - 1] = <<"waits", 0>>
  BY ThisScript DEF WellFormed, Provided, Paired, Op, Arg

-----------------------------------------------------------------------------
(* The steps of everybody else, and types.                                 *)

\* A legal history.
Legal(h) == \A n \in 2..Len(h) : h[n] \in Transitions[h[n - 1]]

\* A task that goes on legally keeps its history.
LEMMA OneMore ==
    ASSUME NEW p \in [Tasks -> Seq(States)], \A u \in Tasks : Legal(p[u]),
           NEW t \in Tasks, NEW s \in States,
           p[t] # <<>> => s \in Transitions[p[t][Len(p[t])]]
    PROVE  LET q == [p EXCEPT ![t] = Append(@, s)]
           IN  /\ q \in [Tasks -> Seq(States)]
               /\ \A u \in Tasks : /\ Legal(q[u]) /\ Begins(p[u], q[u])
                                   /\ Len(p[u]) \in Nat /\ Len(p[u]) <= Len(q[u])
                                   /\ Len(q[u]) \in Nat
<1> DEFINE q == [p EXCEPT ![t] = Append(@, s)]
           h == p[t]
           g == Append(h, s)
<1>1. h \in Seq(States) /\ Legal(h) /\ (h # <<>> => s \in Transitions[h[Len(h)]])
  OBVIOUS
<1>2. q \in [Tasks -> Seq(States)] /\ q[t] = g /\ \A u \in Tasks : u # t => q[u] = p[u]
  OBVIOUS
<1> HIDE DEF q, h
<1>3. /\ Len(h) \in Nat /\ Len(g) = Len(h) + 1
      /\ \A n \in 1..Len(h) : g[n] = h[n]
      /\ g[Len(h) + 1] = s /\ (h = <<>> <=> Len(h) = 0)
  BY <1>1
<1> HIDE DEF g
<1>4. Begins(h, g) /\ Legal(g)
  <2>1. ASSUME NEW n \in 2..Len(g) PROVE g[n] \in Transitions[g[n - 1]]
    <3>1. CASE n \in 2..Len(h)
      <4>1. n - 1 \in 1..Len(h) /\ n \in 1..Len(h)
        BY <1>3, <3>1
      <4> QED
        BY <1>1, <1>3, <3>1, <4>1 DEF Legal
    <3>2. CASE n = Len(h) + 1
      <4>1. n - 1 = Len(h) /\ Len(h) \in 1..Len(h) /\ h # <<>>
        BY <1>3, <3>2
      <4> QED
        BY <1>1, <1>3, <3>2, <4>1
    <3> QED
      BY <1>3, <3>1, <3>2
  <2> QED
    BY <1>3, <2>1 DEF Begins, Legal
<1>5. \A u \in Tasks : u # t => Begins(p[u], q[u]) /\ Legal(q[u]) /\ Len(p[u]) \in Nat
  BY <1>2 DEF Begins
<1>6. \A u \in Tasks : /\ Legal(q[u]) /\ Begins(p[u], q[u])
                       /\ Len(p[u]) \in Nat /\ Len(p[u]) <= Len(q[u]) /\ Len(q[u]) \in Nat
  BY <1>2, <1>3, <1>4, <1>5 DEF Begins, h
<1> QED
  BY <1>2, <1>6 DEF q

\* What others do.
Moves ==
    /\ Running /\ UNCHANGED <<lookVars, call, at, outcome>>
    /\ \A t \in Tasks : Begins(lineage[t], lineage'[t])
    /\ Op \in Inner => UNCHANGED <<lineage, files, capture>>
    /\ quiet' => /\ quiet /\ busy
                 /\ UNCHANGED <<lineage, requests, authorityMoved, files, capture>>
    /\ matched => matched'
    /\ call = "captured" /\ at > 1 /\ capture' = lineage'
       => matched' \/ UNCHANGED <<capture, lineage, matched>>
    /\ late => late'
    /\ call \in Advances /\ ~ late' => files' = files \/ at <= LastLook[call]

\* Types, apart from the place in the script.
WorldTypes ==
    /\ lineage \in [Tasks -> Seq(States)]
    /\ requests \in [Tasks -> SUBSET Nat]
    /\ \A t \in Tasks : Legal(lineage[t]) /\ requests[t] \subseteq 1..(Len(lineage[t]) + 1)
    /\ files \in [Files -> Contents]
    /\ busy \in BOOLEAN /\ authorityMoved \in BOOLEAN
    /\ quiet \in BOOLEAN /\ matched \in BOOLEAN /\ late \in BOOLEAN
    /\ changes \in 0..MaxChanges

LookTypes ==
    /\ {seen, kept} \subseteq [Tasks -> Seq(States)]
    /\ {read, bound} \subseteq [Files -> Contents \cup {None}]

PlaceTypes ==
    /\ call \in Calls /\ at \in 1..Len(Script[call])
    /\ outcome \in {None, "returned", "raised", "committed"}

\* The type invariant in three parts: the world, what has been noted, and the place.
LEMMA TypeOKParts == TypeOK <=> WorldTypes /\ LookTypes /\ PlaceTypes
  BY DEF TypeOK, WorldTypes, LookTypes, PlaceTypes, Legal

\* What each counted change of the others has in common.
LEMMA ChangedMoves ==
    ASSUME WorldTypes, Changed,
           \A t \in Tasks : Begins(lineage[t], lineage'[t]),
           late => late',
           call \in Advances /\ ~ late' => files' = files \/ at <= LastLook[call]
    PROVE  /\ Moves
           /\ changes' \in 0..MaxChanges
           /\ quiet' \in BOOLEAN /\ matched' \in BOOLEAN
<1>1. /\ Running /\ Op \notin Inner /\ quiet' = FALSE /\ changes < MaxChanges
      /\ changes' = changes + 1
      /\ matched' = (matched \/ (call = "captured" /\ at > 1 /\ capture' = lineage'))
      /\ UNCHANGED <<lookVars, call, at, outcome>>
  BY DEF Changed
<1>2. changes' \in 0..MaxChanges
  BY <1>1, TrustedQueriesAssumption DEF WorldTypes
<1>3. matched' \in BOOLEAN /\ (matched => matched')
  BY <1>1
<1>4. call = "captured" /\ at > 1 /\ capture' = lineage' => matched'
  BY <1>1
<1> QED
  BY <1>1, <1>2, <1>3, <1>4 DEF Moves

\* No step of the others takes back an event, edits unnoticed, or leaves a call
\* undisturbed that had been.
LEMMA WorldMoves ==
    ASSUME WorldTypes, at \in Nat, call \in Advances => LastLook[call] \in Nat, World
    PROVE  Moves /\ WorldTypes'
<1>0. MaxChanges \in Nat /\ Stages \subseteq States /\ changes \in Nat
  BY TrustedQueriesAssumption DEF WorldTypes
<1>1. \A t \in Tasks : Begins(lineage[t], lineage[t]) /\ Len(lineage[t]) \in Nat
  BY DEF WorldTypes, Begins
<1>2. CASE OpenStore
  BY ChangedMoves, <1>0, <1>1, <1>2 DEF OpenStore, WorldTypes
<1>3. CASE CloseStore
  BY <1>0, <1>1, <1>3 DEF CloseStore, Moves, WorldTypes, lookVars
<1>4. CASE LockMoves
  BY ChangedMoves, <1>0, <1>1, <1>4 DEF LockMoves, WorldTypes
<1>5. ASSUME NEW t \in Tasks, Ask(t) PROVE Moves /\ WorldTypes'
  <2>1. /\ UNCHANGED <<lineage, files, capture, late, busy, authorityMoved>>
        /\ requests' = [requests EXCEPT ![t] = @ \cup {Len(lineage[t]) + 1}]
        /\ Changed
    BY <1>5 DEF Ask
  <2>2. requests' \in [Tasks -> SUBSET Nat]
    BY <1>1, <2>1 DEF WorldTypes
  <2>3. \A u \in Tasks : requests'[u] \subseteq 1..(Len(lineage'[u]) + 1)
    BY <1>1, <2>1 DEF WorldTypes
  <2> QED
    BY ChangedMoves, <1>0, <1>1, <2>1, <2>2, <2>3 DEF WorldTypes
<1>6. ASSUME NEW t \in Tasks, NEW s \in Stages, CommitElsewhere(t, s)
      PROVE  Moves /\ WorldTypes'
  <2>1. /\ UNCHANGED <<requests, files, capture, late, busy, authorityMoved>>
        /\ lineage' = [lineage EXCEPT ![t] = Append(@, s)]
        /\ s \in NextStates(t) /\ s \in States
        /\ Changed
    BY <1>0, <1>6 DEF CommitElsewhere
  <2>2. lineage[t] # <<>> => s \in Transitions[lineage[t][Len(lineage[t])]]
    <3>1. lineage[t] # <<>> => Len(lineage[t]) > 0
      BY DEF WorldTypes
    <3> QED
      BY <1>1, <2>1, <3>1 DEF NextStates
  <2>3. /\ lineage' \in [Tasks -> Seq(States)]
        /\ \A u \in Tasks : /\ Legal(lineage'[u]) /\ Begins(lineage[u], lineage'[u])
                            /\ Len(lineage[u]) <= Len(lineage'[u]) /\ Len(lineage'[u]) \in Nat
    BY <2>1, <2>2, OneMore DEF WorldTypes
  <2>4. \A u \in Tasks : requests'[u] \subseteq 1..(Len(lineage'[u]) + 1)
    BY <1>1, <2>1, <2>3 DEF WorldTypes
  <2> QED
    BY ChangedMoves, <1>0, <2>1, <2>3, <2>4 DEF WorldTypes
<1>7. ASSUME NEW f \in Files, NEW c \in Contents, Edit(f, c) PROVE Moves /\ WorldTypes'
  <2>1. /\ UNCHANGED <<lineage, requests, busy, authorityMoved, capture>>
        /\ files' = [files EXCEPT ![f] = c]
        /\ late' = (late \/ (call \in Advances /\ at > LastLook[call]))
        /\ Changed
    BY <1>7 DEF Edit, storeVars
  <2>2. files' \in [Files -> Contents] /\ late' \in BOOLEAN
    BY <2>1 DEF WorldTypes
  <2>3. call \in Advances /\ ~ late' => at <= LastLook[call]
    <3>1. call \in Advances /\ ~ late' => ~ (at > LastLook[call])
      BY <2>1, Zenon
    <3> QED
      BY <3>1
  <2> QED
    BY ChangedMoves, <1>0, <1>1, <2>1, <2>2, <2>3 DEF WorldTypes
<1>8. ASSUME NEW c, Recapture(c) PROVE Moves /\ WorldTypes'
  BY ChangedMoves, <1>0, <1>1, <1>8 DEF Recapture, storeVars, WorldTypes
<1> QED
  BY <1>2, <1>3, <1>4, <1>5, <1>6, <1>7, <1>8 DEF World

-----------------------------------------------------------------------------
(* Each part of the invariant, step by step.                               *)

\* Every step is a look, a commit, a move of the others, or none.
LEMMA NextParts ==
    ASSUME PlaceTypes, [Next]_vars
    PROVE  /\ Look \/ CommitAdvance \/ World \/ UNCHANGED vars
           /\ at \in Nat /\ call \in Calls /\ at \in 1..Len(Script[call])
           /\ call \in Advances => LastLook[call] \in Nat
<1>1. /\ at \in Nat /\ call \in Calls /\ at \in 1..Len(Script[call])
      /\ Len(Script[call]) \in Nat
  BY ThisScript DEF PlaceTypes
<1>2. call \in Advances => LastLook[call] \in Nat
  BY <1>1, ThisScript, ScriptForm DEF Careful
<1> QED
  BY <1>1, <1>2, ReadsLook DEF Next, Reads, World

\* A commit adds its event or raises.
Commits ==
    /\ Running /\ Op = "commit"
    /\ UNCHANGED <<requests, busy, authorityMoved, files, capture, changes, quiet,
                   late, lookVars, call, at, matched>>
    /\ \/ /\ lineage[Subject] = seen[Subject]
          /\ lineage' = [lineage EXCEPT ![Subject] = Append(@, Target)]
          /\ outcome' = "committed"
       \/ lineage[Subject] # seen[Subject] /\ lineage' = lineage /\ outcome' = "raised"

\* The operations of a call; files are looked at by name.
LEMMA OperationsOf ==
    ASSUME NEW c \in DOMAIN Script, NEW step \in StepsOf(c)
    PROVE  /\ step[1] = "commit" => c \in Advances
           /\ step[1] \in {"collect", "recheck", "keep", "agree"} => c \in ByProject
           /\ step[1] \in {"open", "compare", "reopen"} => c = "captured"
           /\ step[1] \in {"status", "classified", "fits", "bind", "take"} => c \in ByTask
           /\ step[1] = "status" => c \notin ByProject
           /\ step[1] = "classified" => c \in {"handoff", "gate", "advance"}
           /\ step[1] = "fits" => c \in {"gate"} \cup Advances
           /\ step[1] = "bind" => c \in Advances
           /\ step[1] = "take" => c = "gate"
           /\ step[1] = "answers" => c \in {"resolution", "resume"}
           /\ step[1] \in {"keep", "agree"} => c \in {"overview", "resolution"}
           /\ step[1] \in {"row", "list", "waits"} /\ c \in ByTask => step[2] = Subject
           /\ step[1] = "waits" /\ c \in ByTask => c \in {"task", "resume"}
           /\ step[1] = "waits" /\ c \in {"project", "captured"} => step[2] \in Tasks
           /\ step[1] = "row" => step[2] \in Tasks
           /\ step[1] = "waits" => step[2] \in Tasks \/ (step[2] = 0 /\ c \in ByProject)
           /\ step[1] \in {"read", "reread", "bind", "take"} =>
                 step \in {"read", "reread", "bind", "take"} \X Files
           /\ c \in ByProject \/ c \in ByTask
<1>0. Subject \in Tasks
  BY TrustedQueriesAssumption DEF Subject, Tasks
<1>1. CASE c = "task"
  BY <1>0, <1>1 DEF StepsOf, Looks, ByTask, ByProject, Advances
<1>2. CASE c = "resume"
  BY <1>0, <1>2 DEF StepsOf, Looks, ByTask, ByProject, Advances
<1>3. CASE c = "handoff"
  BY <1>0, <1>3 DEF StepsOf, FirstSteps, AgainSteps, Looks, ByTask, ByProject, Advances
<1>4. CASE c = "gate"
  BY <1>0, <1>4 DEF StepsOf, FirstSteps, AgainSteps, Looks, ByTask, ByProject, Advances
<1>5. CASE c \in Advances
  BY <1>0, <1>5
  DEF StepsOf, CommitSteps, PlainSteps, FirstSteps, AgainSteps, Looks, ByTask, ByProject,
      Advances
<1>6. CASE c \in {"project", "queue"}
  BY <1>6 DEF StepsOf, ProjectSteps, SummarySteps, ByTask, ByProject, Advances
<1>7. CASE c = "overview"
  BY <1>7 DEF StepsOf, ProjectSteps, SummarySteps, ByTask, ByProject, Advances
<1>8. CASE c = "captured"
  BY <1>8 DEF StepsOf, ProjectSteps, SummarySteps, ByTask, ByProject, Advances
<1>9. CASE c = "resolution"
  BY <1>9 DEF StepsOf, ProjectSteps, SummarySteps, ByTask, ByProject, Advances, Files
<1> QED
  BY <1>1, <1>2, <1>3, <1>4, <1>5, <1>6, <1>7, <1>8, <1>9 DEF Script, Advances

\* Only an advance commits, at its end.
LEMMA CommitFacts ==
    ASSUME PlaceTypes, CommitAdvance
    PROVE  /\ Commits /\ call \in Advances /\ at = Len(Script[call]) /\ at \in Nat
           /\ Past("fits") /\ Past("status")
<1>1. /\ call \in Calls /\ at \in 1..Len(Script[call]) /\ Len(Script[call]) \in Nat
      /\ Script[call][at] \in StepsOf(call)
  BY ThisScript DEF PlaceTypes
<1>2. Commits
  BY DEF CommitAdvance, Commits, Doing
<1>3. call \in Advances
  <2>1. Script[call][at][1] = "commit"
    BY <1>2 DEF Commits, Op
  <2> QED
    BY <1>1, <2>1, ThisScript, OperationsOf
<1>4. at = Len(Script[call])
  BY <1>1, <1>2, <1>3, ThisScript, ScriptForm DEF Careful, Commits, Op
<1>5. ASSUME NEW x \in {"fit", "seen"}
      PROVE  \E m \in 1..(at - 1) :
                x \in Gives(Script[call][m]) /\ Script[call][m] \in CommitSteps
  <2>1. x \in Needs(Script[call][at])
    BY <1>2 DEF Needs, Commits, Op
  <2>2. StepsOf(call) \subseteq CommitSteps
    BY <1>3, ClosureSteps DEF StepsOf, Advances
  <2> QED
    BY <1>1, <2>1, <2>2, NeededIsPast
<1>6. \A step \in CommitSteps : "fit" \in Gives(step) => step[1] = "fits"
  BY DEF Gives, CommitSteps, FirstSteps, AgainSteps, Looks, Files
<1>7. \A step \in CommitSteps : "seen" \in Gives(step) => step[1] = "status"
  BY DEF Gives, CommitSteps, FirstSteps, AgainSteps, Looks, Files
<1>8. Past("fits") /\ Past("status")
  BY <1>5, <1>6, <1>7 DEF Past
<1> QED
  BY <1>1, <1>2, <1>3, <1>4, <1>8

\* Types are kept by a look, and by a commit of a transition that fits.
LEMMA LookTypeStep ==
    ASSUME TypeOK, Look PROVE TypeOK'
<1>1. WorldTypes /\ LookTypes /\ PlaceTypes
  BY TypeOKParts
<1>2. WorldTypes'
  <2>1. matched' \in BOOLEAN
    BY <1>1 DEF Look, Noted, WorldTypes
  <2> QED
    BY <1>1, <2>1 DEF Look, WorldTypes, worldVars, storeVars
<1>3. LookTypes'
  <2>1. Subject \in Tasks
    BY TrustedQueriesAssumption DEF Subject, Tasks
  <2>2. [Nothing EXCEPT ![Subject] = lineage[Subject]] \in [Tasks -> Seq(States)]
    <3>1. Nothing \in [Tasks -> Seq(States)] /\ lineage[Subject] \in Seq(States)
      BY <1>1, <2>1 DEF Nothing, WorldTypes
    <3> QED
      BY <3>1
  <2>3. /\ \A x : [read EXCEPT ![x] = files[x]] \in [Files -> Contents \cup {None}]
        /\ \A x : [bound EXCEPT ![x] = files[x]] \in [Files -> Contents \cup {None}]
    BY <1>1 DEF WorldTypes, LookTypes
  <2>4. seen' \in [Tasks -> Seq(States)] /\ kept' \in [Tasks -> Seq(States)]
    BY <1>1, <2>2 DEF WorldTypes, LookTypes, Look, Noted, lookVars
  <2>5. /\ read' \in [Files -> Contents \cup {None}]
        /\ bound' \in [Files -> Contents \cup {None}]
    BY <1>1, <2>3 DEF LookTypes, Look, Noted, lookVars
  <2> QED
    BY <2>4, <2>5 DEF LookTypes
<1>4. PlaceTypes'
  BY <1>1, LookLeavesBehind DEF PlaceTypes, Look
<1> QED
  BY <1>2, <1>3, <1>4, TypeOKParts, PTL

\* A commit of a transition that fits keeps the types.
LEMMA CommitTypeStep ==
    ASSUME TypeOK, TaskFound, CommitAdvance PROVE TypeOK'
<1>1. WorldTypes /\ LookTypes /\ PlaceTypes
  BY TypeOKParts
<1>2. /\ Commits /\ call \in Advances /\ Fits(seen)
      /\ Subject \in Tasks
  BY <1>1, CommitFacts, TrustedQueriesAssumption DEF TaskFound, ByTask, Subject, Tasks
<1>3. /\ lineage' \in [Tasks -> Seq(States)]
      /\ \A t \in Tasks : Legal(lineage'[t]) /\ requests[t] \subseteq 1..(Len(lineage'[t]) + 1)
  <2>1. CASE lineage' = lineage
    BY <1>1, <2>1 DEF WorldTypes
  <2>2. CASE /\ lineage[Subject] = seen[Subject]
             /\ lineage' = [lineage EXCEPT ![Subject] = Append(@, Target)]
    <3>1. Target \in Transitions[StateOf(lineage, Subject)] /\ lineage[Subject] # <<>>
      BY <1>2, <2>2 DEF Fits, StateOf
    <3>2. Target \in States
      BY DEF Target, States, Transitions
    <3>3. /\ lineage' \in [Tasks -> Seq(States)]
          /\ \A u \in Tasks : /\ Legal(lineage'[u]) /\ Len(lineage[u]) \in Nat
                              /\ Len(lineage[u]) <= Len(lineage'[u]) /\ Len(lineage'[u]) \in Nat
      BY <1>1, <1>2, <2>2, <3>1, <3>2, OneMore DEF WorldTypes, StateOf
    <3>4. \A t \in Tasks : requests[t] \subseteq 1..(Len(lineage'[t]) + 1)
      BY <1>1, <3>3 DEF WorldTypes
    <3> QED
      BY <3>3, <3>4
  <2> QED
    BY <1>2, <2>1, <2>2 DEF Commits
<1>4. WorldTypes' /\ LookTypes' /\ PlaceTypes'
  BY <1>1, <1>2, <1>3 DEF WorldTypes, LookTypes, PlaceTypes, Commits, lookVars
<1> QED
  BY <1>4, TypeOKParts, PTL

\* So do the others.
LEMMA WorldTypeStep ==
    ASSUME TypeOK, World PROVE TypeOK' /\ Moves
<1>1. WorldTypes /\ LookTypes /\ PlaceTypes
  BY TypeOKParts
<1>2. /\ at \in Nat
      /\ call \in Advances => LastLook[call] \in Nat
  <2>1. [Next]_vars
    BY DEF World, Next
  <2> QED
    BY <1>1, <2>1, NextParts
<1>3. Moves /\ WorldTypes'
  BY <1>1, <1>2, WorldMoves
<1>4. LookTypes' /\ PlaceTypes'
  BY <1>1, <1>3 DEF Moves, LookTypes, PlaceTypes, lookVars
<1> QED
  BY <1>3, <1>4, TypeOKParts, PTL

\* Beginnings of beginnings, and of each other.
LEMMA BeginsFacts ==
    ASSUME NEW a \in Seq(States), NEW b \in Seq(States), NEW c \in Seq(States)
    PROVE  /\ Begins(a, a) /\ Begins(<<>>, a)
           /\ Begins(a, b) /\ Begins(b, c) => Begins(a, c)
           /\ Begins(a, b) /\ (Begins(b, a) \/ Len(a) = Len(b)) => a = b
<1>1. Begins(a, a) /\ Begins(<<>>, a)
  BY DEF Begins
<1>2. Begins(a, b) /\ Begins(b, c) => Begins(a, c)
  BY DEF Begins
<1>3. Begins(a, b) /\ (Begins(b, a) \/ Len(a) = Len(b)) => a = b
  <2> SUFFICES ASSUME Len(a) = Len(b), \A n \in 1..Len(a) : a[n] = b[n] PROVE a = b
    BY DEF Begins
  <2> QED
    OBVIOUS
<1> QED
  BY <1>1, <1>2, <1>3

\* What has been collected stays a beginning of what there is.
LEMMA SeenEarlierStep ==
    ASSUME TypeOK, TypeOK', SeenEarlier, Look \/ (CommitAdvance /\ TaskFound) \/ World
    PROVE  SeenEarlier'
<1>1. WorldTypes /\ LookTypes /\ PlaceTypes /\ WorldTypes' /\ LookTypes'
  BY TypeOKParts, PTL
<1>2. \A t \in Tasks : /\ lineage[t] \in Seq(States) /\ lineage'[t] \in Seq(States)
                       /\ seen[t] \in Seq(States) /\ kept[t] \in Seq(States)
  BY <1>1 DEF WorldTypes, LookTypes
<1>3. CASE Look
  <2>1. lineage' = lineage
    BY <1>3 DEF Look, worldVars, storeVars
  <2>2. Subject \in Tasks
    BY TrustedQueriesAssumption DEF Subject, Tasks
  <2>3. \A t \in Tasks : Begins([Nothing EXCEPT ![Subject] = lineage[Subject]][t], lineage[t])
    BY <1>2, BeginsFacts DEF Nothing
  <2>4. \A t \in Tasks : Begins(lineage[t], lineage[t])
    BY <1>2, BeginsFacts
  <2> QED
    BY <1>3, <2>1, <2>3, <2>4 DEF SeenEarlier, Look, Noted, lookVars
<1>4. CASE CommitAdvance /\ TaskFound
  <2>1. Commits /\ Fits(seen) /\ Subject \in Tasks
    BY <1>1, <1>4, CommitFacts, TrustedQueriesAssumption
    DEF TaskFound, ByTask, Subject, Tasks
  <2>2. \A t \in Tasks : Begins(lineage[t], lineage'[t])
    <3>1. CASE lineage' = lineage
      BY <1>2, <3>1, BeginsFacts
    <3>2. CASE /\ lineage[Subject] = seen[Subject]
               /\ lineage' = [lineage EXCEPT ![Subject] = Append(@, Target)]
      <4>1. Target \in Transitions[StateOf(lineage, Subject)] /\ lineage[Subject] # <<>>
        BY <2>1, <3>2 DEF Fits, StateOf
      <4>2. Target \in States
        BY DEF Target, States, Transitions
      <4> QED
        BY <1>1, <2>1, <3>2, <4>1, <4>2, OneMore DEF WorldTypes, StateOf
    <3> QED
      BY <2>1, <3>1, <3>2 DEF Commits
  <2> QED
    BY <1>2, <2>1, <2>2, BeginsFacts DEF SeenEarlier, Commits, lookVars
<1>5. CASE World
  <2>1. Moves
    BY <1>5, WorldTypeStep
  <2> QED
    BY <1>2, <2>1, BeginsFacts DEF SeenEarlier, Moves, lookVars
<1> QED
  BY <1>3, <1>4, <1>5

\* A call that runs has no outcome yet.
LEMMA OutcomesDiffer ==
    None \notin {"returned", "raised", "committed"}
  BY TrustedQueriesAssumption

\* What leaves the call where it is leaves behind what had been.
LEMMA PastStays ==
    ASSUME UNCHANGED <<call, at>>
    PROVE  \A o : (Past(o)' <=> Past(o)) /\ \A f : PastFile(o, f)' <=> PastFile(o, f)
  BY DEF Past, PastFile

\* A call goes on to instructions that apply.
LEMMA ApplicableStep ==
    ASSUME TypeOK, Applicable, Look \/ CommitAdvance \/ World PROVE Applicable'
<1>1. WorldTypes /\ LookTypes /\ PlaceTypes
  BY TypeOKParts
<1>2. CASE Look
  <2>1. outcome' = None => ~ Skipped(Script[call][at'], seen')
    BY <1>2, OutcomesDiffer DEF Look, GoesOn
  <2>2. call' = call
    BY <1>2 DEF Look
  <2> QED
    BY <2>1, <2>2 DEF Applicable, Running
<1>3. CASE CommitAdvance
  BY <1>1, <1>3, CommitFacts, OutcomesDiffer DEF Commits, Applicable, Running
<1>4. CASE World
  BY <1>4, WorldTypeStep DEF Moves, Applicable, Running, lookVars
<1> QED
  BY <1>2, <1>3, <1>4

\* A call for one task keeps the task it has found, and the transition that fits.
LEMMA TaskFoundStep ==
    ASSUME TypeOK, TaskFound, Look \/ CommitAdvance \/ World PROVE TaskFound'
<1>1. WorldTypes /\ LookTypes /\ PlaceTypes /\ Subject \in Tasks
  BY TypeOKParts, TrustedQueriesAssumption DEF Subject, Tasks
<1>2. call' = call
  BY <1>1, CommitFacts, WorldTypeStep DEF Commits, Moves, Look
<1>3. CASE Look
  <2> SUFFICES ASSUME call \in ByTask
               PROVE  /\ Past("status")' => seen'[Subject] # <<>>
                      /\ call \in Advances /\ Past("fits")' => Fits(seen)'
    BY <1>2 DEF TaskFound
  <2>1. /\ call \in DOMAIN Script /\ Script[call][at] \in StepsOf(call)
        /\ at \in 1..Len(Script[call]) /\ Len(Script[call]) \in Nat
    BY <1>1, ThisScript DEF PlaceTypes
  <2>2. Op \notin {"collect", "agree"}
    BY <2>1, OperationsOf DEF Op, ByTask, ByProject, Advances
  <2>3. /\ Past("status")' => Past("status") \/ Op = "status"
        /\ Past("fits")' => Past("fits") \/ Op = "fits"
    BY <1>1, <1>3, LookLeavesBehind DEF PlaceTypes, Skippable
  <2>4. CASE outcome' = "raised"
    <3>1. seen' = seen /\ at' = at
      BY <1>3, <2>4, OutcomesDiffer DEF Look, GoesOn, lookVars
    <3>2. (Past("status")' <=> Past("status")) /\ (Past("fits")' <=> Past("fits"))
      BY <1>2, <3>1, PastStays
    <3> QED
      BY <1>2, <3>1, <3>2 DEF TaskFound, Fits, Target, Kind
  <2>5. CASE Op = "status" /\ outcome' # "raised"
    <3>1. seen'[Subject] = lineage[Subject] /\ lineage[Subject] # <<>>
      BY <1>1, <1>3, <2>5 DEF Look, Found, Noted, Nothing
    <3>2. call \in Advances => ~ Past("fits")
      <4> SUFFICES ASSUME call \in Advances, Past("fits") PROVE FALSE
        OBVIOUS
      <4>1. PICK m \in 1..(at - 1) : Script[call][m][1] = "fits"
        BY DEF Past
      <4>2. m \in 1..Len(Script[call]) /\ m < at
        BY <2>1
      <4>3. NeverAfter(Script[call], "fits", "status")
        BY <2>1, ScriptForm DEF Careful
      <4> QED
        BY <2>1, <2>5, <4>1, <4>2, <4>3 DEF NeverAfter, Op
    <3> QED
      BY <2>3, <2>5, <3>1, <3>2
  <2>6. CASE Op # "status" /\ outcome' # "raised"
    <3>1. seen' = seen /\ (Op = "fits" => Fits(seen))
      BY <1>3, <2>2, <2>6 DEF Look, Found, Noted
    <3> QED
      BY <1>2, <2>3, <2>6, <3>1 DEF TaskFound, Fits, Target, Kind
  <2> QED
    BY <2>4, <2>5, <2>6
<1>4. CASE CommitAdvance \/ World
  <2>1. UNCHANGED <<call, at, seen>>
    BY <1>1, <1>4, CommitFacts, WorldTypeStep DEF Commits, Moves, lookVars
  <2>2. (Past("status")' <=> Past("status")) /\ (Past("fits")' <=> Past("fits"))
    BY <2>1, PastStays
  <2> QED
    BY <2>1, <2>2 DEF TaskFound, Fits, Target, Kind
<1> QED
  BY <1>3, <1>4

\* After list and waits of a whole queue comes the comparison.
LEMMA QueueCurrentStep ==
    ASSUME TypeOK, QueueCurrent, Look \/ CommitAdvance \/ World PROVE QueueCurrent'
<1>1. WorldTypes /\ LookTypes /\ PlaceTypes
  BY TypeOKParts
<1>2. CASE Look
  <2> SUFFICES ASSUME outcome' = None, Script[call][at'][1] = "agree"
               PROVE  Waiting(lineage') = Waiting(seen')
    BY <1>2 DEF QueueCurrent, Running, Op, Look, Waiting, StateOf
  <2>1. /\ at' \in (at + 1)..Len(Script[call])
        /\ \A m \in (at + 1)..(at' - 1) : Skipped(Script[call][m], seen')
        /\ Found /\ Noted /\ lineage' = lineage
    BY <1>2, OutcomesDiffer DEF Look, GoesOn, worldVars, storeVars
  <2>2. at \in Nat /\ at' \in Nat /\ at' \in 1..Len(Script[call]) /\ at < at'
    BY <1>1, <1>2, ThisScript, LookLeavesBehind DEF PlaceTypes
  <2>3. Script[call][at' - 1] = <<"waits", 0>>
    BY <1>1, <2>2, ThisScript DEF PlaceTypes, WellFormed, Paired
  <2>4. ~ Skipped(Script[call][at' - 1], seen')
    BY <2>3 DEF Skipped, Tasks
  <2>5. at' - 1 = at
    <3>1. PICK b \in Nat : b = at'
      BY <2>2
    <3>2. at \in Nat /\ at < b
      BY <2>2, <3>1
    <3>3. b - 1 \in (at + 1)..(b - 1) \/ b - 1 = at
      BY <3>2
    <3> QED
      BY <2>1, <2>4, <3>1, <3>3
  <2>6. Op = "waits" /\ Arg = 0
    BY <2>3, <2>5 DEF Op, Arg
  <2> QED
    BY <2>1, <2>6 DEF Found, Noted
<1>3. CASE CommitAdvance
  BY <1>1, <1>3, CommitFacts, OutcomesDiffer DEF Commits, QueueCurrent, Running
<1>4. CASE World
  BY <1>4, WorldTypeStep
  DEF Moves, QueueCurrent, Running, Op, Inner, lookVars, Waiting, StateOf
<1> QED
  BY <1>2, <1>3, <1>4

\* The script of a verification of a capture.
LEMMA CapturedScript ==
    LET s == Script["captured"]
    IN  /\ NeverAfter(s, "compare", "collect") /\ NeverAfter(s, "compare", "open")
        /\ Ends(s, <<"recheck">>) /\ Has(s, <<"reopen">>)
  BY CapturedForm DEF Script

\* A capture that is read again unchanged, by a call that returns, was true then.
LEMMA CaptureNotedStep ==
    ASSUME TypeOK, SeenEarlier, CaptureNoted, Look \/ CommitAdvance \/ World
    PROVE  CaptureNoted'
<1>1. WorldTypes /\ LookTypes /\ PlaceTypes
  BY TypeOKParts
<1>2. call' = call
  BY <1>1, CommitFacts, WorldTypeStep DEF Commits, Moves, Look
<1> SUFFICES ASSUME call = "captured"
             PROVE  /\ Past("open")' /\ capture' = lineage' => matched'
                    /\ Past("compare")' => opened' = seen'
                    /\ Past("reopen")' => matched' \/ lineage' # seen'
  BY <1>2 DEF CaptureNoted
<1>3. /\ call \in DOMAIN Script /\ Script[call][at] \in StepsOf(call)
      /\ at \in 1..Len(Script[call]) /\ Len(Script[call]) \in Nat
  BY <1>1, ThisScript DEF PlaceTypes
<1>4. CASE Look
  <2>1. UNCHANGED <<lineage, capture>>
    BY <1>4 DEF Look, worldVars, storeVars
  <2>2. \A o \in {"open", "compare", "reopen"} : Past(o)' => Past(o) \/ Op = o
    BY <1>1, <1>4, LookLeavesBehind DEF PlaceTypes, Skippable
  <2>3. CASE outcome' = "raised"
    <3>1. UNCHANGED <<at, seen, opened, matched>>
      BY <1>4, <2>3, OutcomesDiffer DEF Look, GoesOn, lookVars
    <3> QED
      BY <1>2, <2>1, <3>1, PastStays DEF CaptureNoted
  <2>4. CASE outcome' # "raised"
    <3>1. Found /\ Noted
      BY <1>4, <2>4 DEF Look
    <3>2. Op \notin {"status", "agree"}
      BY <1>3, OperationsOf DEF Op, ByProject
    <3>3. Past("compare") => Op \notin {"collect", "open"}
      <4> SUFFICES ASSUME Past("compare"), Op \in {"collect", "open"} PROVE FALSE
        OBVIOUS
      <4>1. PICK m \in 1..(at - 1) : Script[call][m][1] = "compare"
        BY DEF Past
      <4>2. m \in 1..Len(Script[call]) /\ m < at
        BY <1>3
      <4> QED
        BY <1>3, <4>1, <4>2, CapturedScript DEF NeverAfter, Op
    <3>4. ASSUME Op = "reopen" PROVE Past("open") /\ Past("compare")
      <4>1. Needs(Script[call][at]) = {"opened", "compared"}
        BY <3>4 DEF Needs, Op
      <4>2. ASSUME NEW x \in {"opened", "compared"}
            PROVE  \E m \in 1..(at - 1) :
                      x \in Gives(Script[call][m]) /\ Script[call][m] \in StepsOf(call)
        BY <1>1, <4>1, <4>2, NeededIsPast DEF PlaceTypes
      <4>3. \A step \in StepsOf("captured") :
               /\ "opened" \in Gives(step) => step[1] = "open"
               /\ "compared" \in Gives(step) => step[1] = "compare"
        BY DEF StepsOf, Advances, ProjectSteps, SummarySteps, Gives
      <4> QED
        BY <4>2, <4>3 DEF Past
    <3>5. Past("open")' /\ capture = lineage => matched'
      BY <1>2, <2>2, <3>1 DEF CaptureNoted, Noted
    <3>6. Past("compare")' => opened' = seen'
      BY <1>2, <2>2, <3>1, <3>2, <3>3 DEF CaptureNoted, Noted, Found
    <3>7. Past("reopen")' => matched' \/ lineage # seen'
      <4>1. CASE Op = "reopen"
        <5>1. opened = seen /\ capture = opened /\ seen' = seen /\ matched' = matched
          BY <3>1, <3>4, <4>1 DEF CaptureNoted, Noted, Found
        <5> QED
          BY <3>4, <4>1, <5>1 DEF CaptureNoted
      <4>2. CASE Op # "reopen" /\ Past("reopen")'
        <5>1. Past("reopen")
          BY <2>2, <4>2
        <5>2. Past("compare")
          <6>1. PICK n \in 1..(at - 1) : Script[call][n][1] = "reopen"
            BY <5>1 DEF Past
          <6>2. n \in 1..Len(Script[call]) /\ \A m \in 1..(n - 1) : m \in 1..(at - 1)
            BY <1>3
          <6>3. \E m \in 1..(n - 1) : "compared" \in Gives(Script[call][m])
            BY <1>1, <6>1, <6>2, ThisScript DEF PlaceTypes, WellFormed, Provided, Needs
          <6>4. \A m \in 1..(at - 1) : Script[call][m] \in StepsOf(call)
            BY <1>1, <1>3, ThisScript DEF PlaceTypes
          <6>5. \A step \in StepsOf("captured") :
                   "compared" \in Gives(step) => step[1] = "compare"
            BY DEF StepsOf, Advances, ProjectSteps, SummarySteps, Gives
          <6> QED
            BY <6>2, <6>3, <6>4, <6>5 DEF Past
        <5>3. seen' = seen /\ matched' = matched
          BY <3>1, <3>2, <3>3, <5>2 DEF Noted
        <5> QED
          BY <5>1, <5>3 DEF CaptureNoted
      <4> QED
        BY <4>1, <4>2
    <3> QED
      BY <2>1, <3>5, <3>6, <3>7
  <2> QED
    BY <2>3, <2>4
<1>5. CASE World
  <2>1. Moves
    BY <1>5, WorldTypeStep
  <2>2. UNCHANGED <<at, seen, opened>>
    BY <2>1 DEF Moves, lookVars
  <2>3. \A o : Past(o)' <=> Past(o)
    BY <1>2, <2>2, PastStays
  <2>4. Past("open") => at > 1
    BY <1>3 DEF Past
  <2>5. Past("open") /\ capture' = lineage' => matched'
    BY <2>1, <2>4 DEF Moves, CaptureNoted
  <2>6. lineage # seen => lineage' # seen
    <3> SUFFICES ASSUME lineage' = seen PROVE lineage = seen
      OBVIOUS
    <3>1. \A t \in Tasks : Begins(seen[t], lineage[t]) /\ Begins(lineage[t], seen[t])
      BY <2>1 DEF Moves, SeenEarlier
    <3>2. \A t \in Tasks : lineage[t] \in Seq(States) /\ seen[t] \in Seq(States)
      BY <1>1 DEF WorldTypes, LookTypes
    <3>3. \A t \in Tasks : lineage[t] = seen[t]
      BY <3>1, <3>2, BeginsFacts
    <3> QED
      BY <1>1, <3>3 DEF WorldTypes, LookTypes
  <2> QED
    BY <2>1, <2>2, <2>3, <2>5, <2>6 DEF CaptureNoted, Moves
<1>6. CASE CommitAdvance
  BY <1>1, <1>6, CommitFacts DEF Advances
<1> QED
  BY <1>4, <1>5, <1>6

\* What is bound was validated, and edits after the last look are late.
LEMMA EvidenceNotedStep ==
    ASSUME TypeOK, EvidenceNoted, Look \/ CommitAdvance \/ World PROVE EvidenceNoted'
<1>1. WorldTypes /\ LookTypes /\ PlaceTypes
  BY TypeOKParts
<1>2. call' = call
  BY <1>1, CommitFacts, WorldTypeStep DEF Commits, Moves, Look
<1>3. /\ call \in DOMAIN Script /\ Script[call][at] \in StepsOf(call)
      /\ at \in 1..Len(Script[call]) /\ Len(Script[call]) \in Nat /\ at \in Nat
  BY <1>1, ThisScript DEF PlaceTypes
<1>4. CASE Look
  <2>1. files' = files /\ late' = late
    BY <1>4 DEF Look, worldVars
  <2>2. CASE outcome' = "raised"
    <3>1. UNCHANGED <<at, read, bound>>
      BY <1>4, <2>2, OutcomesDiffer DEF Look, GoesOn, lookVars
    <3>2. \A f : PastFile("bind", f)' <=> PastFile("bind", f)
      BY <1>2, <3>1, PastStays
    <3> QED
      BY <1>2, <2>1, <3>1, <3>2 DEF EvidenceNoted, Valid
  <2>3. CASE outcome' # "raised"
    <3>1. Found /\ Noted
      BY <1>4, <2>3 DEF Look
    <3>2. \A f \in Files : read'[f] # None => Valid(f, read'[f])
      BY <1>1, <3>1 DEF EvidenceNoted, Found, Noted, LookTypes, Valid
    <3>3. ASSUME call \in Advances
          PROVE  \A f \in Files : PastFile("bind", f)' => bound'[f] = read'[f] /\ read'[f] # None
      <4> SUFFICES ASSUME NEW f \in Files, PastFile("bind", f)'
                   PROVE  bound'[f] = read'[f] /\ read'[f] # None
        OBVIOUS
      <4>1. PastFile("bind", f) \/ Script[call][at] = <<"bind", f>>
        BY <1>1, <1>4, LookLeavesBehind DEF PlaceTypes, Skippable
      <4>2. Op # "take"
        BY <1>3, <3>3, OperationsOf DEF Op, Advances
      <4>3. CASE Script[call][at] = <<"bind", f>>
        <5>1. Op = "bind" /\ Arg = f
          BY <4>3 DEF Op, Arg
        <5>2. files[f] = read[f] /\ files[f] # None
          BY <1>1, <3>1, <5>1, TrustedQueriesAssumption DEF Found, WorldTypes, Contents
        <5>3. read' = read /\ bound'[f] = files[f]
          BY <1>1, <3>1, <5>1 DEF Noted, LookTypes
        <5> QED
          BY <5>2, <5>3
      <4>4. CASE PastFile("bind", f) /\ Script[call][at] # <<"bind", f>>
        <5>1. Op # "read"
          <6> SUFFICES ASSUME Op = "read" PROVE FALSE
            OBVIOUS
          <6>1. PICK m \in 1..(at - 1) : Script[call][m] = <<"bind", f>>
            BY <4>4 DEF PastFile
          <6>2. m \in 1..Len(Script[call]) /\ m < at /\ Script[call][m][1] = "bind"
            BY <1>3, <6>1
          <6>3. NeverAfter(Script[call], "bind", "read")
            BY <1>3, <3>3, ScriptForm DEF Careful
          <6> QED
            BY <1>3, <6>2, <6>3 DEF NeverAfter, Op
        <5>2. read' = read
          BY <3>1, <5>1 DEF Noted
        <5>3. bound'[f] = bound[f]
          <6>1. Op = "bind" => Arg # f
            <7>1. Op = "bind" => Script[call][at] = <<Op, Arg>>
              BY <1>3, OperationsOf DEF Op, Arg
            <7> QED
              BY <4>4, <7>1
          <6> QED
            BY <1>1, <3>1, <4>2, <6>1 DEF Noted, LookTypes
        <5> QED
          BY <3>3, <4>4, <5>2, <5>3 DEF EvidenceNoted
      <4> QED
        BY <4>1, <4>3, <4>4
    <3>4. ASSUME call \in Advances, ~ late
          PROVE  \A f \in Files, m \in 1..(at' - 1) :
                    m >= LastLook[call]
                    /\ Script[call][m] \in {<<"reread", f>>, <<"bind", f>>}
                    => files[f] = read'[f]
      <4> SUFFICES ASSUME NEW f \in Files, NEW m \in 1..(at' - 1), m >= LastLook[call],
                          Script[call][m] \in {<<"reread", f>>, <<"bind", f>>}
                   PROVE  files[f] = read'[f]
        OBVIOUS
      <4>1. m \in 1..(at - 1) \/ m = at
        <5>1. Script[call][m][1] \notin Skippable
          BY DEF Skippable
        <5> QED
          BY <1>1, <1>4, <5>1, LookLeavesBehind DEF PlaceTypes
      <4>2. LastLook[call] \in Nat /\ m \in Nat /\ at >= LastLook[call]
        <5>1. LastLook[call] \in Nat
          BY <1>3, <3>4, ScriptForm DEF Careful
        <5> QED
          BY <1>3, <4>1, <5>1
      <4>3. Op # "read"
        BY <1>3, <3>4, <4>2, ScriptForm DEF Careful, Op
      <4>4. read' = read
        BY <3>1, <4>3 DEF Noted
      <4>5. CASE m = at
        <5>1. Op \in {"reread", "bind"} /\ Arg = f
          BY <4>5 DEF Op, Arg
        <5> QED
          BY <3>1, <4>4, <5>1 DEF Found
      <4>6. CASE m \in 1..(at - 1)
        BY <3>4, <4>4, <4>6 DEF EvidenceNoted
      <4> QED
        BY <4>1, <4>5, <4>6
    <3> QED
      BY <1>2, <2>1, <3>2, <3>3, <3>4 DEF EvidenceNoted
  <2> QED
    BY <2>2, <2>3
<1>5. CASE CommitAdvance
  <2>1. UNCHANGED <<at, read, bound, files, late>>
    BY <1>1, <1>5, CommitFacts DEF Commits, lookVars
  <2>2. \A f : PastFile("bind", f)' <=> PastFile("bind", f)
    BY <1>2, <2>1, PastStays
  <2> QED
    BY <1>2, <2>1, <2>2 DEF EvidenceNoted, Valid
<1>6. CASE World
  <2>1. Moves /\ UNCHANGED <<at, read, bound>>
    BY <1>6, WorldTypeStep DEF Moves, lookVars
  <2>2. \A f : PastFile("bind", f)' <=> PastFile("bind", f)
    BY <1>2, <2>1, PastStays
  <2>3. ASSUME call \in Advances, ~ late', NEW f \in Files, NEW m \in 1..(at - 1),
               m >= LastLook[call],
               Script[call][m] \in {<<"reread", f>>, <<"bind", f>>}
        PROVE  files'[f] = read[f]
    <3>1. LastLook[call] \in Nat
      BY <1>3, <2>3, ScriptForm DEF Careful
    <3>2. ~ (at <= LastLook[call])
      BY <1>3, <2>3, <3>1
    <3>3. files' = files /\ ~ late
      BY <2>1, <2>3, <3>2 DEF Moves
    <3> QED
      BY <2>3, <3>3 DEF EvidenceNoted
  <2> QED
    BY <1>2, <2>1, <2>2, <2>3 DEF EvidenceNoted, Valid
<1> QED
  BY <1>4, <1>5, <1>6

\* What has been verified is what is committed.
LEMMA CommitsStep ==
    ASSUME TypeOK, EvidenceNoted, AdvanceCommitsWhatItVerified,
           Look \/ CommitAdvance \/ World
    PROVE  AdvanceCommitsWhatItVerified'
<1>1. WorldTypes /\ LookTypes /\ PlaceTypes
  BY TypeOKParts
<1>2. CASE Look \/ World
  <2>1. outcome' # "committed"
    BY <1>1, <1>2, WorldTypeStep, OutcomesDiffer DEF Look, GoesOn, Moves, Running
  <2> QED
    BY <2>1 DEF AdvanceCommitsWhatItVerified
<1>3. CASE CommitAdvance
  <2>1. Commits /\ call \in Advances /\ at = Len(Script[call]) /\ call \in DOMAIN Script
    BY <1>1, <1>3, CommitFacts, ThisScript DEF PlaceTypes
  <2>2. Careful(Script[call], LastLook[call], Evidence(call))
    BY <2>1, ScriptForm
  <2> SUFFICES ASSUME outcome' = "committed"
               PROVE  /\ lineage'[Subject] = Append(seen'[Subject], Target)
                      /\ \A f \in Evidence(call) :
                            /\ bound'[f] = read'[f] /\ Valid(f, bound'[f])
                            /\ ~ late' => files'[f] = bound'[f]
    BY <2>1 DEF AdvanceCommitsWhatItVerified, Evidence, Target, Commits, Advances
  <2>3. lineage'[Subject] = Append(seen'[Subject], Target)
    BY <1>1, <2>1, TrustedQueriesAssumption
    DEF Commits, lookVars, WorldTypes, Subject, Tasks
  <2>4. ASSUME NEW f \in Evidence(call)
        PROVE  /\ bound[f] = read[f] /\ Valid(f, bound[f])
               /\ ~ late => files[f] = bound[f]
    <3>1. f \in Files
      BY DEF Evidence, Files
    <3>2. PastFile("bind", f)
      BY <2>1, <2>2 DEF Careful, PastFile
    <3>3. \E m \in 1..(at - 1) :
             m >= LastLook[call] /\ Script[call][m] \in {<<"reread", f>>, <<"bind", f>>}
      BY <2>1, <2>2 DEF Careful
    <3>4. bound[f] = read[f] /\ read[f] # None
      BY <2>1, <3>1, <3>2 DEF EvidenceNoted
    <3>5. Valid(f, bound[f])
      BY <3>1, <3>4 DEF EvidenceNoted
    <3>6. ~ late => files[f] = bound[f]
      BY <2>1, <3>1, <3>3, <3>4 DEF EvidenceNoted
    <3> QED
      BY <3>4, <3>5, <3>6
  <2> QED
    BY <2>1, <2>3, <2>4 DEF Commits, lookVars, Valid
<1> QED
  BY <1>2, <1>3

\* A call returns from an instruction after which nothing applies.
LEMMA Returns ==
    ASSUME TypeOK, Look, outcome' = "returned"
    PROVE  /\ Found /\ Noted /\ lineage' = lineage /\ call' = call
           /\ \A m \in (at + 1)..Len(Script[call]) : Skipped(Script[call][m], seen')
           /\ \A step : Ends(Script[call], step) /\ step[1] \notin Skippable
                        => Op = step[1] /\ at = Len(Script[call])
           /\ Ends(Script[call], <<"waits", 0>>) => Op = "waits" /\ Arg = 0
<1>1. /\ at \in 1..Len(Script[call]) /\ Len(Script[call]) \in Nat /\ at \in Nat
  BY TypeOKParts, ThisScript DEF PlaceTypes
<1>2. /\ Found /\ Noted /\ lineage' = lineage /\ call' = call
      /\ \A m \in (at + 1)..Len(Script[call]) : Skipped(Script[call][m], seen')
  BY OutcomesDiffer DEF Look, GoesOn, worldVars, storeVars
<1>3. at = Len(Script[call]) \/ Len(Script[call]) \in (at + 1)..Len(Script[call])
  BY <1>1
<1>4. ASSUME NEW step, Ends(Script[call], step), step[1] \notin Skippable
      PROVE  Op = step[1] /\ at = Len(Script[call])
  BY <1>2, <1>3, <1>4 DEF Ends, Op, Skipped, Skippable
<1>5. ASSUME Ends(Script[call], <<"waits", 0>>) PROVE Op = "waits" /\ Arg = 0
  <2>1. ~ Skipped(<<"waits", 0>>, seen')
    BY DEF Skipped, Tasks
  <2>2. at = Len(Script[call])
    BY <1>2, <1>3, <1>5, <2>1 DEF Ends
  <2> QED
    BY <1>5, <2>2 DEF Ends, Op, Arg
<1> QED
  BY <1>2, <1>4, <1>5

\* A task that waits for the decision that has been seen has not moved.
LEMMA StillWaiting ==
    ASSUME TypeOK, SeenEarlier,
           <<Subject, Len(seen[Subject])>> \in Waiting(lineage)
    PROVE  lineage[Subject] = seen[Subject]
<1>1. Subject \in Tasks /\ WorldTypes /\ LookTypes
  BY TypeOKParts, TrustedQueriesAssumption DEF Subject, Tasks
<1>2. lineage[Subject] \in Seq(States) /\ seen[Subject] \in Seq(States)
  BY <1>1 DEF WorldTypes, LookTypes
<1>3. PICK t \in Tasks : <<Subject, Len(seen[Subject])>> = <<t, Len(lineage[t])>>
  BY DEF Waiting
<1>4. Len(seen[Subject]) = Len(lineage[Subject])
  BY <1>3
<1>5. Begins(seen[Subject], lineage[Subject])
  BY <1>1 DEF SeenEarlier
<1> QED
  BY <1>2, <1>4, <1>5, BeginsFacts

\* A query about one task returns after a look that shows the task unmoved.
LEMMA TaskReturns ==
    ASSUME TypeOK, SeenEarlier, Applicable, TaskFound,
           Look, outcome' = "returned", call \in {"task", "resume"}
    PROVE  lineage[Subject] = seen[Subject] /\ seen' = seen
<1> DEFINE s == Script[call]
<1>1. /\ at \in 1..Len(s) /\ Len(s) \in Nat /\ at \in Nat /\ s[at] \in StepsOf(call)
      /\ Subject \in Tasks /\ Subject # 0 /\ lineage[Subject] \in Seq(States)
      /\ WorldTypes /\ LookTypes /\ PlaceTypes
  BY TypeOKParts, ThisScript, TrustedQueriesAssumption
  DEF PlaceTypes, WorldTypes, Subject, Tasks
<1>2. /\ Found /\ Noted
      /\ \A m \in (at + 1)..Len(s) : Skipped(s[m], seen')
  BY Returns
<1>3. ASSUME StateOf(seen, Subject) = "WAITING_HUMAN"
      PROVE  ~ Skipped(<<"list", Subject>>, seen) /\ ~ Skipped(<<"waits", Subject>>, seen)
  BY <1>3 DEF Skipped
<1>4. Op \in {"row", "list", "waits"} => Arg = Subject
  BY <1>1, ThisScript, OperationsOf DEF PlaceTypes, Op, Arg, ByTask
<1>5. Op = "list" => StateOf(seen, Subject) = "WAITING_HUMAN"
  BY <1>1, <1>4 DEF Applicable, Look, Skipped, Op, Arg
<1>6. Op = "waits" => lineage[Subject] = seen[Subject]
  BY <1>1, <1>2, <1>4, StillWaiting DEF Found
<1>7. CASE call = "task"
  <2>1. /\ Len(s) = 11 /\ s[9] = <<"row", Subject>>
        /\ s[10] = <<"list", Subject>> /\ s[11] = <<"waits", Subject>>
    BY <1>7, TaskForm DEF Script
  <2>2. Op \in {"status", "row", "list", "waits"}
    BY <1>1, <1>7 DEF StepsOf, Advances, Looks, Op
  <2>3. Op # "status" => Past("status") /\ seen' = seen
    <3>1. Op # "status" => "seen" \in Needs(s[at])
      BY <2>2 DEF Needs, Op
    <3>2. \A step \in StepsOf("task") : "seen" \in Gives(step) => step[1] = "status"
      BY DEF StepsOf, Advances, Gives, Looks
    <3> HIDE DEF s
    <3>3. Op # "status" => Past("status")
      BY <1>1, <1>7, <3>1, <3>2, NeededIsPast DEF PlaceTypes, Past, s
    <3> QED
      BY <1>2, <2>2, <3>3 DEF Noted
  <2>4. seen'[Subject] # <<>>
    <3>1. Op # "status" => seen[Subject] # <<>>
      BY <1>7, <2>3 DEF TaskFound, ByTask
    <3>2. Op = "status" => seen'[Subject] = lineage[Subject] /\ lineage[Subject] # <<>>
      BY <1>1, <1>2 DEF Found, Noted, Nothing
    <3> QED
      BY <2>3, <3>1, <3>2
  <2>5. ~ (at < 9)
    <3> SUFFICES ASSUME at < 9 PROVE FALSE
      OBVIOUS
    <3>1. 9 \in (at + 1)..Len(s)
      BY <1>1, <2>1
    <3> QED
      BY <1>2, <2>1, <2>4, <3>1 DEF Skipped
  <2>6. at \in {9, 10, 11}
    BY <1>1, <2>1, <2>5
  <2>7. CASE at = 9
    <3>1. Op = "row" /\ Arg = Subject
      BY <2>1, <2>7 DEF Op, Arg
    <3>2. [seen EXCEPT ![Subject] = lineage[Subject]] = seen
      BY <1>2, <3>1 DEF Found
    <3>3. lineage[Subject] = seen[Subject]
      BY <1>1, <3>2 DEF LookTypes
    <3> QED
      BY <2>3, <3>1, <3>3
  <2>8. CASE at = 10
    <3>1. Op = "list" /\ 11 \in (at + 1)..Len(s)
      BY <2>1, <2>8 DEF Op
    <3> QED
      BY <1>2, <1>3, <1>5, <2>1, <2>3, <3>1
  <2>9. CASE at = 11
    <3>1. Op = "waits"
      BY <2>1, <2>9 DEF Op
    <3> QED
      BY <1>6, <2>3, <3>1
  <2> QED
    BY <2>6, <2>7, <2>8, <2>9
<1>8. CASE call = "resume"
  <2>1. /\ Len(s) = 10 /\ s[8] = <<"answers">>
        /\ s[9] = <<"list", Subject>> /\ s[10] = <<"waits", Subject>>
    BY <1>8, ResumeForm DEF Script
  <2>2. ~ (at < 8)
    <3> SUFFICES ASSUME at < 8 PROVE FALSE
      OBVIOUS
    <3>1. 8 \in (at + 1)..Len(s)
      BY <1>1, <2>1
    <3> QED
      BY <1>2, <2>1, <3>1 DEF Skipped
  <2>3. at \in {8, 9, 10}
    BY <1>1, <2>1, <2>2
  <2>4. seen' = seen
    BY <1>2, <2>1, <2>3 DEF Noted, Op
  <2>5. at # 8
    <3> SUFFICES ASSUME at = 8 PROVE FALSE
      OBVIOUS
    <3>1. Op = "answers" /\ 9 \in (at + 1)..Len(s)
      BY <2>1 DEF Op
    <3> QED
      BY <1>2, <1>3, <2>1, <2>4, <3>1 DEF Found
  <2>6. at # 9
    <3> SUFFICES ASSUME at = 9 PROVE FALSE
      OBVIOUS
    <3>1. Op = "list" /\ 10 \in (at + 1)..Len(s)
      BY <2>1 DEF Op
    <3> QED
      BY <1>2, <1>3, <1>5, <2>1, <2>4, <3>1
  <2>7. Op = "waits"
    BY <2>1, <2>3, <2>5, <2>6 DEF Op
  <2> QED
    BY <1>6, <2>4, <2>7
<1> QED
  BY <1>7, <1>8

\* When a query returns, what it reports is still true.
LEMMA ReportIsCurrentStep ==
    ASSUME TypeOK, SeenEarlier, Applicable, TaskFound, QueueCurrent, ReportIsCurrent,
           Look \/ CommitAdvance \/ World
    PROVE  ReportIsCurrent'
<1>1. WorldTypes /\ LookTypes /\ PlaceTypes /\ call \in DOMAIN Script
  BY TypeOKParts, ThisScript DEF PlaceTypes
<1>2. CASE (CommitAdvance \/ World) \/ (Look /\ outcome' # "returned")
  <2>1. outcome' # "returned"
    BY <1>1, <1>2, CommitFacts, WorldTypeStep, OutcomesDiffer DEF Commits, Moves, Running
  <2> QED
    BY <2>1 DEF ReportIsCurrent
<1>3. CASE Look /\ outcome' = "returned"
  <2>1. Found /\ Noted /\ lineage' = lineage /\ call' = call
    BY <1>3, Returns
  <2>2. CASE call \in {"task", "resume"}
    <3>1. lineage'[Subject] = seen'[Subject]
      BY <1>3, <2>1, <2>2, TaskReturns
    <3> QED
      BY <2>1, <2>2, <3>1 DEF ReportIsCurrent
  <2>3. CASE call \in {"project", "captured"}
    <3>1. Op = "recheck"
      BY <1>1, <1>3, <2>3, ScriptForm, Returns DEF Skippable
    <3>2. lineage' = seen'
      BY <2>1, <3>1 DEF Found, Noted
    <3> QED
      BY <2>1, <2>3, <3>2 DEF ReportIsCurrent
  <2>4. CASE call \in {"queue", "overview", "resolution"}
    <3>1. Waiting(lineage) = Waiting(seen) /\ (Op = "waits" => seen' = seen)
          /\ (Op # "waits" => seen' = kept /\ Waiting(seen) = Waiting(kept))
      <4>1. CASE call = "queue"
        <5>1. Op = "waits" /\ Arg = 0
          BY <1>1, <1>3, <4>1, ScriptForm, Returns
        <5> QED
          BY <2>1, <5>1 DEF Found, Noted
      <4>2. CASE call \in {"overview", "resolution"}
        <5>1. Op = "agree"
          BY <1>1, <1>3, <4>2, ScriptForm, Returns DEF Skippable
        <5>2. Report(seen) = Report(kept)
          BY <2>1, <5>1 DEF Found
        <5>3. Waiting(seen) = Waiting(kept)
          BY <5>2 DEF Report
        <5>4. Waiting(lineage) = Waiting(seen)
          BY <1>3, <5>1 DEF QueueCurrent, Look
        <5> QED
          BY <2>1, <5>1, <5>3, <5>4 DEF Noted
      <4> QED
        BY <2>4, <4>1, <4>2
    <3>2. Waiting(lineage)' = Waiting(seen)'
      BY <2>1, <3>1 DEF Waiting, StateOf
    <3> QED
      BY <2>1, <2>4, <3>2 DEF ReportIsCurrent
  <2>5. CASE call \notin {"task", "resume", "project", "captured", "queue", "overview",
                        "resolution"}
    BY <2>1, <2>5 DEF ReportIsCurrent
  <2> QED
    BY <2>2, <2>3, <2>4, <2>5
<1> QED
  BY <1>2, <1>3

\* A verification returns only after the moment in which its capture was true.
LEMMA CaptureMatchedStep ==
    ASSUME TypeOK, CaptureNoted, CaptureMatched, Look \/ CommitAdvance \/ World
    PROVE  CaptureMatched'
<1>1. WorldTypes /\ LookTypes /\ PlaceTypes
  BY TypeOKParts
<1>2. CASE (CommitAdvance \/ World) \/ (Look /\ outcome' # "returned")
  <2>1. outcome' # "returned"
    BY <1>1, <1>2, CommitFacts, WorldTypeStep, OutcomesDiffer DEF Commits, Moves, Running
  <2> QED
    BY <2>1 DEF CaptureMatched
<1>3. CASE Look /\ outcome' = "returned"
  <2>1. Found /\ Noted /\ call' = call
    BY <1>3, Returns
  <2> SUFFICES ASSUME call = "captured" PROVE matched'
    BY <2>1 DEF CaptureMatched
  <2>2. Op = "recheck" /\ at = Len(Script[call]) /\ at \in Nat /\ Len(Script[call]) \in Nat
    BY <1>1, <1>3, CapturedScript, Returns, ThisScript DEF Skippable, PlaceTypes
  <2>3. Past("reopen")
    <3>1. PICK m \in 1..Len(Script[call]) : Script[call][m] = <<"reopen">>
      BY CapturedScript DEF Has
    <3>2. m # at
      BY <2>2, <3>1 DEF Op
    <3>3. m \in 1..(at - 1)
      BY <2>2, <3>2
    <3> QED
      BY <3>1, <3>3 DEF Past
  <2>4. lineage = seen
    BY <2>1, <2>2 DEF Found
  <2> QED
    BY <2>1, <2>2, <2>3, <2>4 DEF CaptureNoted, Noted
<1> QED
  BY <1>2, <1>3

-----------------------------------------------------------------------------
(* A call that nobody disturbs.                                            *)

\* By which operation something is established.
LEMMA GivenBy ==
    ASSUME NEW c \in DOMAIN Script, NEW step \in StepsOf(c)
    PROVE  /\ "seen" \in Gives(step) =>
                 step[1] = IF c \in ByProject THEN "collect" ELSE "status"
           /\ "kept" \in Gives(step) => step[1] = "keep"
           /\ "opened" \in Gives(step) => step[1] = "open"
           /\ \A f \in Files : f \in Gives(step) => step = <<"read", f>>
<1>1. step[1] = "read" => step[2] \in Files /\ step = <<"read", step[2]>>
  BY OperationsOf
<1>2. step[1] = "collect" => c \in ByProject
  BY OperationsOf
<1>3. step[1] = "status" => c \notin ByProject
  BY OperationsOf
<1>4. /\ "seen" \in Gives(step) => step[1] \in {"collect", "status"}
      /\ "kept" \in Gives(step) => step[1] = "keep"
      /\ "opened" \in Gives(step) => step[1] = "open"
      /\ \A f \in Files : f \in Gives(step) => step[1] = "read" /\ step[2] = f
  BY <1>1 DEF Gives, Files
<1> QED
  BY <1>1, <1>2, <1>3, <1>4

\* What such a call knows at an instruction that relies on it.
LEMMA QuietKnows ==
    ASSUME TypeOK, Undisturbed, quiet, Running
    PROVE  /\ "seen" \in Needs(Script[call][at]) =>
                 /\ seen[Subject] = lineage[Subject]
                 /\ call \in ByProject => seen = lineage
                 /\ call \in ByTask => seen = [Nothing EXCEPT ![Subject] = lineage[Subject]]
           /\ Op = "agree" => kept = lineage
           /\ Op \in {"compare", "reopen"} => opened = capture
           /\ Op \in {"reread", "bind"} => Arg \in Files /\ read[Arg] = "ok"
<1> DEFINE s == Script[call]
<1>1. /\ call \in Calls /\ call \in DOMAIN Script
      /\ at \in 1..Len(s) /\ Len(s) \in Nat /\ s[at] \in StepsOf(call)
      /\ Subject \in Tasks
  BY TypeOKParts, ThisScript, TrustedQueriesAssumption DEF PlaceTypes, Subject, Tasks
<1>2. \A x \in Needs(s[at]) :
         \E m \in 1..(at - 1) : x \in Gives(s[m]) /\ s[m] \in StepsOf(call)
  BY <1>1, NeededIsPast
<1>3. call \in ByProject \/ call \in ByTask
  BY <1>1, OperationsOf
<1> HIDE DEF s
<1>4. ASSUME "seen" \in Needs(s[at])
      PROVE  /\ seen[Subject] = lineage[Subject]
             /\ call \in ByProject => seen = lineage
             /\ call \in ByTask => seen = [Nothing EXCEPT ![Subject] = lineage[Subject]]
  <2>1. PICK m \in 1..(at - 1) : "seen" \in Gives(s[m]) /\ s[m] \in StepsOf(call)
    BY <1>2, <1>4
  <2>2. CASE call \in ByProject
    <3>1. Past("collect")
      BY <1>1, <2>1, <2>2, GivenBy DEF Past, s
    <3>2. seen = lineage
      BY <2>2, <3>1 DEF Undisturbed
    <3> QED
      BY <2>2, <3>2 DEF ByProject, ByTask, Advances
  <2>3. CASE call \in ByTask
    <3>1. call \notin ByProject
      BY <2>3 DEF ByProject, ByTask, Advances
    <3>2. Past("status")
      BY <1>1, <2>1, <3>1, GivenBy DEF Past, s
    <3>3. seen = [Nothing EXCEPT ![Subject] = lineage[Subject]]
      BY <2>3, <3>2 DEF Undisturbed
    <3> QED
      BY <1>1, <3>1, <3>3 DEF Nothing
  <2> QED
    BY <1>3, <2>2, <2>3
<1>5. ASSUME Op = "agree" PROVE kept = lineage
  <2>1. "kept" \in Needs(s[at])
    BY <1>5 DEF Needs, Op, s
  <2>2. Past("keep")
    BY <1>1, <1>2, <2>1, GivenBy DEF Past, s
  <2> QED
    BY <2>2 DEF Undisturbed
<1>6. ASSUME Op \in {"compare", "reopen"} PROVE opened = capture
  <2>1. "opened" \in Needs(s[at])
    BY <1>6 DEF Needs, Op, s
  <2>2. Past("open")
    BY <1>1, <1>2, <2>1, GivenBy DEF Past, s
  <2> QED
    BY <2>2 DEF Undisturbed
<1>7. ASSUME Op \in {"reread", "bind"} PROVE Arg \in Files /\ read[Arg] = "ok"
  <2>1. Arg \in Needs(s[at])
    BY <1>7 DEF Needs, Op, Arg, s
  <2>2. Arg \in Files
    BY <1>1, <1>7, OperationsOf DEF Op, Arg, s
  <2>3. PastFile("read", Arg)
    BY <1>1, <1>2, <2>1, <2>2, GivenBy DEF PastFile, s
  <2> QED
    BY <2>2, <2>3 DEF Undisturbed
<1> QED
  BY <1>4, <1>5, <1>6, <1>7 DEF s

\* Nothing is not a state.
LEMMA NoneIsNoState ==
    None # "WAITING_HUMAN"
  BY TrustedQueriesAssumption DEF States, Transitions

\* All that it asserts is true.
LEMMA QuietFinds ==
    ASSUME TypeOK, Applicable, Undisturbed, quiet, Running
    PROVE  /\ Op # "commit" => Found /\ ~ Unreadable
           /\ Op = "commit" => lineage[Subject] = seen[Subject]
<1> DEFINE s == Script[call]
<1>1. /\ call \in Calls /\ call \in DOMAIN Script
      /\ at \in 1..Len(s) /\ s[at] \in StepsOf(call)
      /\ Subject \in Tasks /\ WorldTypes /\ LookTypes
  BY TypeOKParts, ThisScript, TrustedQueriesAssumption DEF PlaceTypes, Subject, Tasks
<1>2. ~ Unreadable
  BY DEF Undisturbed, Unreadable
<1>3. Sensible(call)
  BY DEF Undisturbed
<1>4. Op \in {"recheck", "row", "waits", "keep", "agree", "compare", "answers",
              "classified", "fits", "commit"} => "seen" \in Needs(s[at])
  BY DEF Needs, Op
<1>5. ASSUME Op = "recheck" PROVE lineage = seen
  <2>1. call \in ByProject
    BY <1>1, <1>5, OperationsOf DEF Op
  <2> QED
    BY <1>4, <1>5, <2>1, QuietKnows
<1>6. ASSUME Op = "status" PROVE lineage[Subject] # <<>>
  <2>1. call \in ByTask
    BY <1>1, <1>6, OperationsOf DEF Op
  <2>2. StateOf(lineage, Subject) # None \/ lineage[Subject] # <<>>
    BY <1>3, <2>1, NoneIsNoState DEF Sensible, ByTask, Advances, Fits, ClassifiedOnce
  <2> QED
    BY <2>2 DEF StateOf
<1>7. ASSUME Op = "row" PROVE [seen EXCEPT ![Arg] = lineage[Arg]] = seen
  <2>1. Arg \in Tasks /\ (call \in ByTask => Arg = Subject)
    BY <1>1, <1>7, OperationsOf DEF Op, Arg
  <2>2. seen[Arg] = lineage[Arg]
    BY <1>1, <1>4, <1>7, <2>1, QuietKnows, OperationsOf
  <2> QED
    BY <1>1, <2>2 DEF LookTypes
<1>8. ASSUME Op = "waits"
      PROVE  /\ listing = Waiting(lineage)
             /\ IF Arg = 0 THEN listing = Waiting(seen)
                ELSE <<Arg, Len(seen[Arg])>> \in listing
  <2>1. listing = Waiting(lineage)
    BY <1>8 DEF Undisturbed
  <2>2. Arg \in Tasks \/ (Arg = 0 /\ call \in ByProject)
    BY <1>1, <1>8, OperationsOf DEF Op, Arg
  <2>3. CASE Arg \in Tasks
    <3>1. call \in ByTask => Arg = Subject
      BY <1>1, <1>8, OperationsOf DEF Op, Arg
    <3>2. seen[Arg] = lineage[Arg]
      BY <1>1, <1>4, <1>8, <2>3, <3>1, QuietKnows, OperationsOf
    <3>3. StateOf(seen, Arg) = "WAITING_HUMAN"
      BY <1>8, <2>3 DEF Applicable, Skipped, Op, Arg
    <3>4. StateOf(lineage, Arg) = "WAITING_HUMAN"
      BY <3>2, <3>3 DEF StateOf
    <3>5. <<Arg, Len(seen[Arg])>> \in Waiting(lineage)
      BY <2>3, <3>2, <3>4 DEF Waiting
    <3>6. Arg # 0
      BY <2>3 DEF Tasks
    <3> QED
      BY <2>1, <3>5, <3>6
  <2>4. CASE Arg = 0 /\ call \in ByProject
    BY <1>4, <1>8, <2>1, <2>4, QuietKnows
  <2> QED
    BY <2>2, <2>3, <2>4
<1>9. ASSUME Op = "agree" PROVE Report(seen) = Report(kept)
  <2>1. call \in ByProject
    BY <1>1, <1>9, OperationsOf DEF Op
  <2> QED
    BY <1>4, <1>9, <2>1, QuietKnows
<1>10. /\ Op = "read" => Valid(Arg, files[Arg])
       /\ Op = "take" => Valid(Arg, files[Arg])
       /\ Op = "reread" => files[Arg] = read[Arg]
       /\ Op = "bind" => files[Arg] = read[Arg]
  <2>1. Op \in {"read", "take", "reread", "bind"} => Arg \in Files
    BY <1>1, OperationsOf DEF Op, Arg
  <2> QED
    BY <2>1, QuietKnows DEF Undisturbed, Valid
<1>11. ASSUME Op = "compare" PROVE opened = seen
  <2>1. call = "captured"
    BY <1>1, <1>11, OperationsOf DEF Op
  <2>2. capture = lineage
    BY <1>3, <2>1 DEF Sensible, Advances
  <2> QED
    BY <1>4, <1>11, <2>1, <2>2, QuietKnows DEF ByProject
<1>12. Op = "reopen" => capture = opened
  BY QuietKnows
<1>13. ASSUME Op = "answers" PROVE StateOf(seen, Subject) = "WAITING_HUMAN"
  <2>1. call \in {"resolution", "resume"}
    BY <1>1, <1>13, OperationsOf DEF Op
  <2>2. StateOf(lineage, Subject) = "WAITING_HUMAN"
    BY <1>3, <2>1 DEF Sensible, Advances
  <2> QED
    BY <1>4, <1>13, <2>2, QuietKnows DEF StateOf
<1>14. ASSUME Op = "classified" PROVE ClassifiedOnce(seen[Subject])
  <2>1. call \in {"handoff", "gate", "advance"}
    BY <1>1, <1>14, OperationsOf DEF Op
  <2>2. ClassifiedOnce(lineage[Subject])
    BY <1>3, <2>1 DEF Sensible
  <2> QED
    BY <1>4, <1>14, <2>2, QuietKnows
<1>15. ASSUME Op = "fits" PROVE Fits(seen)
  <2>1. call \in {"gate"} \cup Advances
    BY <1>1, <1>15, OperationsOf DEF Op
  <2>2. Fits(lineage)
    BY <1>3, <2>1 DEF Sensible, Advances
  <2>3. StateOf(seen, Subject) = StateOf(lineage, Subject)
    BY <1>4, <1>15, QuietKnows DEF StateOf
  <2> QED
    BY <2>2, <2>3 DEF Fits
<1>16. Op = "commit" => lineage[Subject] = seen[Subject]
  BY <1>4, QuietKnows
<1> QED
  BY <1>2, <1>5, <1>6, <1>7, <1>8, <1>9, <1>10, <1>11, <1>12, <1>13, <1>14, <1>15, <1>16
  DEF Found

\* What an undisturbed call has noted stays true.
LEMMA UndisturbedStep ==
    ASSUME TypeOK, Applicable, Undisturbed, Look \/ CommitAdvance \/ World
    PROVE  Undisturbed'
<1>1. WorldTypes /\ LookTypes /\ PlaceTypes /\ Subject \in Tasks
  BY TypeOKParts, TrustedQueriesAssumption DEF Subject, Tasks
<1>2. CASE CommitAdvance
  BY <1>1, <1>2, CommitFacts, OutcomesDiffer DEF Commits, Undisturbed, Running
<1>3. CASE World
  <2>1. Moves
    BY <1>3, WorldTypeStep
  <2> SUFFICES ASSUME quiet', Running' PROVE Undisturbed'
    BY DEF Undisturbed
  <2>2. /\ quiet /\ busy /\ Running
        /\ UNCHANGED <<lineage, requests, authorityMoved, files, capture, seen, kept, listing,
                       read, opened, call, at>>
    BY <2>1 DEF Moves, lookVars
  <2>3. call \in Advances
    BY <2>2 DEF Undisturbed
  <2> QED
    BY <2>2, <2>3
    DEF Undisturbed, Op, Past, PastFile, Sensible, Fits, Target, Kind, Unresolved, Asked,
        Answered, Waiting, StateOf, Lists
<1>4. CASE Look
  <2>1. /\ UNCHANGED <<lineage, requests, busy, authorityMoved, files, capture, quiet>>
        /\ call' = call /\ Running
    BY <1>4 DEF Look, worldVars, storeVars
  <2> SUFFICES ASSUME quiet, outcome' = None PROVE Undisturbed'
    BY <2>1 DEF Undisturbed, Running
  <2>2. Found /\ Noted /\ GoesOn
    BY <1>4, OutcomesDiffer DEF Look
  <2>3. /\ \A o \in {"collect", "status", "keep", "open"} : Past(o)' => Past(o) \/ Op = o
        /\ \A f : PastFile("read", f)' => PastFile("read", f) \/ Script[call][at] = <<"read", f>>
        /\ at' \in 1..Len(Script[call]) /\ at < at' /\ at \in Nat /\ at' \in Nat
        /\ at \in 1..Len(Script[call])
    BY <1>1, <1>4, LookLeavesBehind, ThisScript DEF PlaceTypes, Skippable
  <2>4. /\ call \in DOMAIN Script /\ Script[call][at] \in StepsOf(call)
    BY <1>1, <2>3, ThisScript DEF PlaceTypes
  <2>5. /\ Unresolved' = Unresolved /\ Sensible(call)' = Sensible(call)
        /\ Waiting(lineage)' = Waiting(lineage) /\ Lists(call)' = Lists(call)
    BY <2>1 DEF Unresolved, Asked, Answered, Sensible, Fits, StateOf, Target, Kind, Waiting,
                Lists
  <2>6. Undisturbed /\ quiet /\ Running
    BY <2>1
  <2>7. call \in ByProject /\ Past("collect")' => seen' = lineage
    <3> SUFFICES ASSUME call \in ByProject, Past("collect")' PROVE seen' = lineage
      OBVIOUS
    <3>1. Op # "status"
      BY <2>4, OperationsOf DEF Op
    <3>2. Op = "agree" => kept = lineage
      BY <2>6, QuietKnows
    <3>3. Op # "collect" => seen = lineage
      BY <2>3, <2>6 DEF Undisturbed
    <3> QED
      BY <2>2, <3>1, <3>2, <3>3 DEF Noted
  <2>8. call \in ByTask /\ Past("status")'
        => seen' = [Nothing EXCEPT ![Subject] = lineage[Subject]]
    <3> SUFFICES ASSUME call \in ByTask, Past("status")'
                 PROVE  seen' = [Nothing EXCEPT ![Subject] = lineage[Subject]]
      OBVIOUS
    <3>1. Op \notin {"collect", "agree"}
      BY <2>4, OperationsOf DEF Op, ByProject, ByTask, Advances
    <3>2. Op # "status" => seen = [Nothing EXCEPT ![Subject] = lineage[Subject]]
      BY <2>3, <2>6 DEF Undisturbed
    <3> QED
      BY <2>2, <3>1, <3>2 DEF Noted
  <2>9. Past("keep")' => kept' = lineage
    <3>1. ASSUME Op = "keep" PROVE kept' = lineage
      <4>1. "seen" \in Needs(Script[call][at]) /\ call \in ByProject
        BY <2>4, <3>1, OperationsOf DEF Needs, Op
      <4>2. seen = lineage
        BY <2>6, <4>1, QuietKnows
      <4> QED
        BY <2>2, <3>1, <4>2 DEF Noted
    <3> QED
      BY <2>2, <2>3, <2>6, <3>1 DEF Noted, Undisturbed
  <2>10. \A f \in Files : PastFile("read", f)' => read'[f] = "ok"
    <3> SUFFICES ASSUME NEW f \in Files, PastFile("read", f)' PROVE read'[f] = "ok"
      OBVIOUS
    <3>1. CASE Op = "read" /\ Arg = f
      BY <1>1, <2>2, <2>6, <3>1 DEF Noted, LookTypes, Undisturbed
    <3>2. CASE ~ (Op = "read" /\ Arg = f)
      <4>1. PastFile("read", f)
        BY <2>3, <3>2 DEF Op, Arg
      <4>2. read'[f] = read[f]
        BY <1>1, <2>2, <3>2 DEF Noted, LookTypes
      <4> QED
        BY <2>6, <4>1, <4>2 DEF Undisturbed
    <3> QED
      BY <3>1, <3>2
  <2>11. Past("open")' => opened' = capture
    BY <2>2, <2>3, <2>6 DEF Noted, Undisturbed
  <2>12. Script[call][at'][1] = "waits" => listing' = Waiting(lineage)
    <3> SUFFICES ASSUME Script[call][at'][1] = "waits" PROVE listing' = Waiting(lineage)
      OBVIOUS
    <3>1. Script[call][at' - 1] = <<"list", Script[call][at'][2]>>
      BY <1>1, <2>3, ThisScript DEF PlaceTypes, WellFormed, Paired
    <3>2. /\ ~ Skipped(Script[call][at'], seen')
          /\ \A m \in (at + 1)..(at' - 1) : Skipped(Script[call][m], seen')
      BY <2>2, OutcomesDiffer DEF GoesOn
    <3>3. ~ Skipped(Script[call][at' - 1], seen')
      BY <3>1, <3>2 DEF Skipped
    <3>4. at' - 1 = at
      <4>1. PICK b \in Nat : b = at'
        BY <2>3
      <4>2. at \in Nat /\ at < b
        BY <2>3, <4>1
      <4>3. b - 1 \in (at + 1)..(b - 1) \/ b - 1 = at
        BY <4>2
      <4> QED
        BY <3>2, <3>3, <4>1, <4>3
    <3>5. Op = "list"
      BY <3>1, <3>4 DEF Op
    <3>6. Lists(call)
      <4> DEFINE step == Script[call][at']
      <4>1. step \in StepsOf(call) /\ step[1] = "waits"
        BY <2>3, ThisScript, <1>1 DEF PlaceTypes
      <4>2. ~ Skipped(step, seen) /\ "seen" \in Needs(Script[call][at])
        BY <2>2, <3>2, <3>5 DEF Noted, Needs, Op
      <4> HIDE DEF step
      <4>3. CASE call \in ByProject
        <5>1. step[2] \in Tasks => Waiting(lineage) # {}
          <6>1. seen = lineage
            BY <2>6, <4>2, <4>3, QuietKnows
          <6>2. step[2] \in Tasks => StateOf(lineage, step[2]) = "WAITING_HUMAN"
            BY <4>1, <4>2, <6>1 DEF Skipped
          <6>3. step[2] \in Tasks => <<step[2], Len(lineage[step[2]])>> \in Waiting(lineage)
            BY <6>2 DEF Waiting
          <6> QED
            BY <6>3
        <5>2. step[2] \notin Tasks => call \notin {"project", "captured"}
          BY <2>4, <4>1, OperationsOf
        <5> QED
          BY <4>3, <5>1, <5>2 DEF Lists, ByProject
      <4>4. CASE call \in ByTask
        <5>1. call \in {"task", "resume"} /\ step[2] = Subject
          BY <2>4, <4>1, <4>4, OperationsOf
        <5>2. StateOf(seen, Subject) = "WAITING_HUMAN"
          BY <1>1, <4>1, <4>2, <5>1 DEF Skipped
        <5> QED
          BY <2>6, <4>2, <5>1, <5>2, QuietKnows DEF Lists, StateOf
      <4> QED
        BY <2>4, <4>3, <4>4, OperationsOf
    <3> QED
      BY <2>2, <2>6, <3>5, <3>6 DEF Noted, Undisturbed
  <2>13. /\ Sensible(call)' /\ ~ authorityMoved'
         /\ call' \notin Advances => ~ busy'
         /\ \A f \in Files : files'[f] = "ok"
         /\ Lists(call)' => Unresolved' = Waiting(lineage)'
    BY <2>1, <2>5, <2>6 DEF Undisturbed
  <2>14. Op' = Script[call][at'][1]
    BY <2>1 DEF Op
  <2> QED
    BY <2>1, <2>5, <2>7, <2>8, <2>9, <2>10, <2>11, <2>12, <2>13, <2>14 DEF Undisturbed
<1> QED
  BY <1>2, <1>3, <1>4

\* So it does not raise.
LEMMA NoFalseAlarmStep ==
    ASSUME TypeOK, Applicable, Undisturbed, NoFalseAlarm, Look \/ CommitAdvance \/ World
    PROVE  NoFalseAlarm'
<1>1. PlaceTypes
  BY TypeOKParts
<1>2. CASE World
  <2>1. outcome' # "raised"
    BY <1>2, WorldTypeStep, OutcomesDiffer DEF Moves, Running
  <2> QED
    BY <2>1 DEF NoFalseAlarm
<1>3. CASE CommitAdvance
  <2>1. Commits
    BY <1>1, <1>3, CommitFacts
  <2>2. quiet => lineage[Subject] = seen[Subject]
    BY <2>1, QuietFinds DEF Commits
  <2> QED
    BY <2>1, <2>2 DEF Commits, NoFalseAlarm
<1>4. CASE Look
  <2>1. quiet => Found /\ ~ Unreadable
    BY <1>4, QuietFinds DEF Look
  <2>2. quiet => outcome' # "raised"
    BY <1>4, <2>1, OutcomesDiffer DEF Look, GoesOn
  <2> QED
    BY <1>4, <2>2 DEF Look, NoFalseAlarm, worldVars
<1> QED
  BY <1>2, <1>3, <1>4

-----------------------------------------------------------------------------
(* The invariant holds at the start of a call.                             *)

\* What is asked and not answered is exactly what tasks wait for.
LEMMA AskedAtFirst ==
    ASSUME WorldTypes, requests = [t \in Tasks |-> Paused(t)]
    PROVE  Unresolved = Waiting(lineage)
<1>1. \A t \in Tasks : Len(lineage[t]) \in Nat /\ (lineage[t] = <<>> <=> Len(lineage[t]) = 0)
  BY DEF WorldTypes
<1>2. ASSUME NEW d \in Unresolved PROVE d \in Waiting(lineage)
  <2>1. PICK t \in Tasks : \E n \in requests[t] : d = <<t, n>>
    BY <1>2 DEF Unresolved, Asked
  <2>2. PICK n \in requests[t] : d = <<t, n>>
    BY <2>1
  <2>3. n \in 1..Len(lineage[t]) /\ lineage[t][n] = "WAITING_HUMAN"
    BY <2>2 DEF Paused
  <2>4. ~ (Len(lineage[t]) > n)
    BY <1>2, <2>2, <2>3 DEF Unresolved, Answered
  <2>5. n = Len(lineage[t]) /\ lineage[t] # <<>>
    BY <1>1, <2>3, <2>4
  <2> QED
    BY <2>2, <2>3, <2>5 DEF Waiting, StateOf
<1>3. ASSUME NEW d \in Waiting(lineage) PROVE d \in Unresolved
  <2>1. PICK t \in Tasks : StateOf(lineage, t) = "WAITING_HUMAN" /\ d = <<t, Len(lineage[t])>>
    BY <1>3 DEF Waiting
  <2>2. lineage[t] # <<>> /\ lineage[t][Len(lineage[t])] = "WAITING_HUMAN"
    BY <2>1, NoneIsNoState DEF StateOf
  <2>3. Len(lineage[t]) \in requests[t]
    BY <1>1, <2>2 DEF Paused
  <2>4. d \in Asked
    BY <2>1, <2>3 DEF Asked
  <2>5. d[1] = t /\ d[2] = Len(lineage[t])
    BY <2>1
  <2>6. d \notin Answered
    BY <1>1, <2>5 DEF Answered
  <2> QED
    BY <2>4, <2>6 DEF Unresolved
<1> QED
  BY <1>2, <1>3

\* The inductive invariant.
Inv ==
    /\ TypeOK
    /\ SeenEarlier /\ Applicable /\ TaskFound /\ QueueCurrent
    /\ CaptureNoted /\ EvidenceNoted /\ Undisturbed
    /\ ReportIsCurrent /\ CaptureMatched /\ AdvanceCommitsWhatItVerified /\ NoFalseAlarm

\* The invariant holds when a call starts,
LEMMA InvAtFirst == Init => Inv
<1> SUFFICES ASSUME Init PROVE Inv
  OBVIOUS
<1>1. /\ call \in Calls /\ at = 1 /\ call \in DOMAIN Script
      /\ Len(Script[call]) \in Nat /\ Len(Script[call]) > 0 /\ outcome = None
      /\ Script[call][1] \in StepsOf(call)
      /\ Needs(Script[call][1]) = {} /\ Op \notin {"waits", "agree"}
  <2>1. call \in Calls /\ at = 1 /\ outcome = None
    BY DEF Init
  <2>2. /\ call \in DOMAIN Script /\ Len(Script[call]) \in Nat /\ Len(Script[call]) > 0
        /\ at \in 1..Len(Script[call]) /\ Script[call][1] \in StepsOf(call)
    BY <2>1, ThisScript
  <2>3. Needs(Script[call][1]) = {} /\ Op \notin {"waits", "agree"}
    BY <2>1, <2>2, NeededIsPast
  <2> QED
    BY <2>1, <2>2, <2>3
<1>2. WorldTypes
  <2>1. /\ lineage \in [Tasks -> Seq(States)] /\ \A t \in Tasks : Legal(lineage[t])
    BY <1>1, TrustedQueriesAssumption DEF Init, Tasks, Legal
  <2>2. /\ requests \in [Tasks -> SUBSET Nat]
        /\ \A t \in Tasks : requests[t] \subseteq 1..(Len(lineage[t]) + 1)
    <3>1. \A t \in Tasks : Len(lineage[t]) \in Nat
      BY <2>1
    <3>2. PICK orphans \in SUBSET UNION {{t} \X Orphanable(t) : t \in Tasks} :
             requests = [t \in Tasks |->
                Paused(t) \cup {n \in Orphanable(t) : <<t, n>> \in orphans}]
      BY DEF Init
    <3>3. \A t \in Tasks : /\ Paused(t) \subseteq 1..(Len(lineage[t]) + 1)
                           /\ Orphanable(t) \subseteq 1..(Len(lineage[t]) + 1)
      BY <3>1 DEF Paused, Orphanable
    <3> QED
      BY <3>1, <3>2, <3>3
  <2>3. quiet \in BOOLEAN
    BY DEF Init
  <2>4. files \in [Files -> Contents]
    BY DEF Init, Contents
  <2>5. /\ busy \in BOOLEAN /\ authorityMoved \in BOOLEAN
        /\ matched \in BOOLEAN /\ late \in BOOLEAN
    BY DEF Init
  <2>6. changes \in 0..MaxChanges
    BY DEF Init
  <2> QED
    BY <2>1, <2>2, <2>3, <2>4, <2>5, <2>6 DEF WorldTypes
<1>3. LookTypes
  <2>1. Nothing \in [Tasks -> Seq(States)]
    BY DEF Nothing
  <2> QED
    BY <2>1 DEF Init, LookTypes
<1>4. TypeOK
  BY <1>1, <1>2, <1>3, TypeOKParts DEF PlaceTypes
<1>5. \A o : ~ Past(o) /\ \A f : ~ PastFile(o, f)
  BY <1>1 DEF Past, PastFile
<1>6. SeenEarlier
  <2>1. \A t \in Tasks : lineage[t] \in Seq(States)
    BY <1>2 DEF WorldTypes
  <2> QED
    BY <2>1, BeginsFacts DEF Init, SeenEarlier, Nothing
<1>7. Applicable
  BY <1>1 DEF Applicable, Skipped, Needs
<1>8. TaskFound /\ QueueCurrent /\ CaptureNoted
  BY <1>1, <1>5 DEF TaskFound, QueueCurrent, CaptureNoted
<1>9. EvidenceNoted
  <2>1. \A f \in Files : read[f] = None
    BY DEF Init
  <2>2. \A m \in 1..(at - 1) : FALSE
    BY <1>1
  <2> QED
    BY <1>5, <2>1, <2>2 DEF EvidenceNoted
<1>10. Undisturbed
  <2>1. quiet => /\ Sensible(call) /\ (call \notin Advances => ~ busy)
                 /\ Lists(call) => requests = [t \in Tasks |-> Paused(t)]
    BY DEF Init
  <2>2. quiet /\ Lists(call) => Unresolved = Waiting(lineage)
    BY <1>2, <2>1, AskedAtFirst
  <2>3. ~ authorityMoved /\ \A f \in Files : files[f] = "ok"
    BY DEF Init
  <2> QED
    BY <1>1, <1>5, <2>1, <2>2, <2>3 DEF Undisturbed
<1>11. /\ ReportIsCurrent /\ CaptureMatched /\ AdvanceCommitsWhatItVerified /\ NoFalseAlarm
  BY <1>1, OutcomesDiffer
  DEF ReportIsCurrent, CaptureMatched, AdvanceCommitsWhatItVerified, NoFalseAlarm
<1> QED
  BY <1>4, <1>6, <1>7, <1>8, <1>9, <1>10, <1>11 DEF Inv

\* every step keeps it,
LEMMA InvStep == Inv /\ [Next]_vars => Inv'
<1> SUFFICES ASSUME Inv, [Next]_vars PROVE Inv'
  OBVIOUS
<1>1. PlaceTypes
  BY TypeOKParts DEF Inv
<1>2. CASE Look \/ CommitAdvance \/ World
  <2>1. TypeOK'
    BY <1>2, LookTypeStep, CommitTypeStep, WorldTypeStep DEF Inv
  <2>2. SeenEarlier'
    BY <1>2, <2>1, SeenEarlierStep DEF Inv
  <2>3. Applicable' /\ TaskFound' /\ QueueCurrent'
    BY <1>2, ApplicableStep, TaskFoundStep, QueueCurrentStep DEF Inv
  <2>4. CaptureNoted' /\ EvidenceNoted' /\ Undisturbed'
    BY <1>2, CaptureNotedStep, EvidenceNotedStep, UndisturbedStep DEF Inv
  <2>5. ReportIsCurrent' /\ CaptureMatched'
    BY <1>2, ReportIsCurrentStep, CaptureMatchedStep DEF Inv
  <2>6. AdvanceCommitsWhatItVerified' /\ NoFalseAlarm'
    BY <1>2, CommitsStep, NoFalseAlarmStep DEF Inv
  <2> QED
    BY <2>1, <2>2, <2>3, <2>4, <2>5, <2>6 DEF Inv
<1>3. CASE UNCHANGED vars
  <2>1. UNCHANGED <<lineage, requests, busy, authorityMoved, files, capture, changes, quiet,
                    late, seen, kept, listing, read, opened, bound, call, at, outcome, matched>>
    BY <1>3 DEF vars, worldVars, storeVars, lookVars
  <2>2. TypeOK' /\ SeenEarlier' /\ Applicable' /\ QueueCurrent'
    BY <2>1 DEF Inv, TypeOK, SeenEarlier, Applicable, QueueCurrent, Running, Op, Waiting, StateOf
  <2>3. TaskFound' /\ CaptureNoted' /\ EvidenceNoted'
    BY <2>1 DEF Inv, TaskFound, CaptureNoted, EvidenceNoted, Past, PastFile, Valid,
                Fits, Target, Kind
  <2>4. Undisturbed'
    BY <2>1 DEF Inv, Undisturbed, Running, Op, Past, PastFile, Sensible, Fits, Target, Kind,
                Unresolved, Asked, Answered, Waiting, StateOf, Lists
  <2>5. /\ ReportIsCurrent' /\ CaptureMatched' /\ AdvanceCommitsWhatItVerified' /\ NoFalseAlarm'
    BY <2>1 DEF Inv, ReportIsCurrent, CaptureMatched, AdvanceCommitsWhatItVerified,
                NoFalseAlarm, Target, Valid, Waiting, StateOf
  <2> QED
    BY <2>2, <2>3, <2>4, <2>5 DEF Inv
<1> QED
  BY <1>1, <1>2, <1>3, NextParts

\* and so it always holds.
LEMMA InvAlways == Spec => []Inv
  BY InvAtFirst, InvStep, PTL DEF Spec

-----------------------------------------------------------------------------
(* The theorems.                                                           *)

\* Every variable has its type; in particular every event that is committed, the
\* reader's included, is a legal transition from the state before it.
THEOREM TypeCorrect == Spec => []TypeOK
<1>1. Inv => TypeOK
  BY DEF Inv
<1> QED
  BY <1>1, InvAlways, PTL

\* "UNCHANGED_DURING_QUERY": when a task summary or a resume preview returns, its task
\* has not moved since it was collected; when a project summary or the verification of
\* a captured one does, no task has; and when the queue, the overview or the resolution
\* preview does, the pending decisions are those of the project collected.
THEOREM ReportsAreCurrent == Spec => []ReportIsCurrent
<1>1. Inv => ReportIsCurrent
  BY DEF Inv
<1> QED
  BY <1>1, InvAlways, PTL

\* A captured summary is verified only if there was a moment during the verification
\* at which the file on disk was exactly the state of the project.
THEOREM CapturesMatch == Spec => []CaptureMatched
<1>1. Inv => CaptureMatched
  BY DEF Inv
<1> QED
  BY <1>1, InvAlways, PTL

\* advance and the trusted result advance commit onto the head they have verified, and
\* bind the evidence that their gate or receipt has validated, which is still on disk
\* unless it is edited after the last look.
THEOREM CommitsAreVerified == Spec => []AdvanceCommitsWhatItVerified
<1>1. Inv => AdvanceCommitsWhatItVerified
  BY DEF Inv
<1> QED
  BY <1>1, InvAlways, PTL

\* A call of WorkflowEngine raises only if it lacks what it needs, if somebody changes
\* the store or a file meanwhile, or if it looks at something that was left behind: the
\* request of a pause that was never committed, or a journal.  Whatever else a second
\* look compares, the first look has provided.
THEOREM AlarmsHaveCauses == Spec => []NoFalseAlarm
<1>1. Inv => NoFalseAlarm
  BY DEF Inv
<1> QED
  BY <1>1, InvAlways, PTL
=============================================================================
