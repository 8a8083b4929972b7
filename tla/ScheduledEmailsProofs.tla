------------------------ MODULE ScheduledEmailsProofs ------------------------
(***************************************************************************)
(* What holds of scheduled mail for any number of messages, overlapping    *)
(* runs and faults.  The copies are counted against the runs that may      *)
(* still send, owe a status or may still ask for a reminder (PaidInv);     *)
(* that count is also what lets a reminder of DeliveryLedger happen.       *)
(***************************************************************************)
EXTENDS ScheduledEmails, FiniteSetTheorems, TLAPS

\* A run that is busy with a message has one.
BusyRun == \A r \in Runs : run[r].pc \notin {"idle", "next"} => run[r].mail \in Mails

RunInv == TypeOK /\ BusyRun

\* Moving a run along keeps the others and the message it works on.
LEMMA GotoRun ==
    ASSUME run \in [Runs -> Run], NEW r \in Runs, NEW pc \in RunPC, Goto(r, pc)
    PROVE  /\ run' \in [Runs -> Run]
           /\ run'[r].pc = pc /\ run'[r].mail = run[r].mail /\ run'[r].todo = run[r].todo
           /\ \A q \in Runs : q # r => run'[q] = run[q]
  BY DEF Goto, Run

\* Resuming drops the message the run worked on.
LEMMA ResumeRun ==
    ASSUME run \in [Runs -> Run], NEW r \in Runs, Resume(r)
    PROVE  /\ run' \in [Runs -> Run]
           /\ run'[r].pc = "next" /\ run'[r].mail = NoMail /\ run'[r].todo = run[r].todo
           /\ \A q \in Runs : q # r => run'[q] = run[q]
  BY DEF Resume, Run, RunPC

\* An idle run is well typed and lists nothing.
LEMMA IdleRunType == IdleRun \in Run
  BY DEF IdleRun, Run, RunPC

\* Fault counts within the bound.
LEMMA FaultStep ==
    ASSUME faults \in 0..MaxFaults, Fault
    PROVE  faults' \in 0..MaxFaults
  BY MailAssumption DEF MailAssumption, Fault

\* The invariant is inductive.
LEMMA RunNext == RunInv /\ [Next]_vars => RunInv'
<1> SUFFICES ASSUME TypeOK, BusyRun, [Next]_vars PROVE TypeOK' /\ BusyRun'
  BY DEF RunInv
<1>1. ASSUME NEW e \in Mails, User(e) \/ BecomeDue(e)
      PROVE  TypeOK' /\ BusyRun'
  <2>1. CASE ScheduleEmail(e)
    BY <2>1 DEF ScheduleEmail, TypeOK, BusyRun, Status
  <2>2. CASE CancelChecks(e)
    BY <2>2 DEF CancelChecks, TypeOK, BusyRun, CancelState
  <2>3. CASE CancelSaves(e)
    BY <2>3 DEF CancelSaves, TypeOK, BusyRun, Status, CancelState
  <2>4. CASE CancelThrows(e)
    BY <2>4, FaultStep DEF CancelThrows, TypeOK, BusyRun, CancelState
  <2>5. CASE BecomeDue(e)
    BY <2>5 DEF BecomeDue, TypeOK, BusyRun
  <2> QED
    BY <1>1, <2>1, <2>2, <2>3, <2>4, <2>5 DEF User
<1>2. ASSUME NEW r \in Runs, Progress(r) \/ RunAborts(r)
      PROVE  TypeOK' /\ BusyRun'
  <2>1. CASE FindDue(r)
    <3>1. [pc |-> "next", todo |-> {e \in due : status[e] = "pending"}, mail |-> NoMail] \in Run
      BY DEF TypeOK, Run, RunPC
    <3> QED
      BY <2>1, <3>1 DEF FindDue, TypeOK, BusyRun
  <2>2. CASE Hydrate(r)
    <3>1. PICK e \in run[r].todo :
             run' = [run EXCEPT ![r] = [pc |-> "dispatch", todo |-> run[r].todo \ {e}, mail |-> e]]
      BY <2>2 DEF Hydrate
    <3>2. e \in Mails /\ run[r].todo \ {e} \in SUBSET Mails
      BY <3>1 DEF TypeOK, Run
    <3>3. [pc |-> "dispatch", todo |-> run[r].todo \ {e}, mail |-> e] \in Run
      BY <3>2 DEF Run, RunPC
    <3> QED
      BY <2>2, <3>1, <3>2, <3>3 DEF Hydrate, TypeOK, BusyRun
  <2>3. CASE DispatchThrows(r)
    BY <2>3, GotoRun DEF DispatchThrows, TypeOK, BusyRun, RunPC
  <2>4. CASE ProviderAccepts(r)
    <3>1. PICK e \in Mails : e = run[r].mail
      BY <2>4 DEF ProviderAccepts, BusyRun
    <3>2. copies' = [copies EXCEPT ![e] = copies[e] + 1]
      BY <2>4, <3>1 DEF ProviderAccepts
    <3>3. copies' \in [Mails -> Nat]
      BY <3>2 DEF TypeOK
    <3> QED
      BY <2>4, <3>3, GotoRun DEF ProviderAccepts, TypeOK, BusyRun, RunPC
  <2>5. CASE CreateFollowUp(r)
    <3>1. PICK e \in Mails : e = run[r].mail
      BY <2>5 DEF CreateFollowUp, BusyRun
    <3>2. reminders' = reminders \/ reminders' = [reminders EXCEPT ![e] = reminders[e] + 1]
      BY <2>5, <3>1 DEF CreateFollowUp
    <3>3. reminders' \in [Mails -> Nat]
      BY <3>2 DEF TypeOK
    <3> QED
      BY <2>5, <3>3, GotoRun DEF CreateFollowUp, TypeOK, BusyRun, RunPC
  <2>6. CASE SettleThrows(r)
    BY <2>6, GotoRun DEF SettleThrows, TypeOK, BusyRun, RunPC
  <2>7. CASE SaveSent(r)
    BY <2>7, ResumeRun DEF SaveSent, TypeOK, BusyRun, Status
  <2>8. CASE MarkFailed(r)
    BY <2>8, ResumeRun DEF MarkFailed, TypeOK, BusyRun, Status
  <2>9. CASE RunDone(r)
    BY <2>9, IdleRunType DEF RunDone, TypeOK, BusyRun, IdleRun
  <2>10. CASE RunAborts(r)
    BY <2>10, IdleRunType, FaultStep DEF RunAborts, TypeOK, BusyRun, IdleRun
  <2> QED
    BY <1>2, <2>1, <2>2, <2>3, <2>4, <2>5, <2>6, <2>7, <2>8, <2>9, <2>10 DEF Progress
<1>3. CASE UNCHANGED vars
  BY <1>3 DEF vars, TypeOK, BusyRun
<1> QED
  BY <1>1, <1>2, <1>3 DEF Next

\* Every variable keeps its type, and a busy run always knows its message.
THEOREM TypeCorrect == Spec => []TypeOK
<1>1. Init => RunInv
  BY IdleRunType, MailAssumption
     DEF MailAssumption, Init, RunInv, TypeOK, BusyRun, Status, CancelState, IdleRun
<1>2. RunInv => TypeOK
  BY DEF RunInv
<1> QED
  BY <1>1, <1>2, RunNext, PTL DEF Spec

\* A step cannot reopen a closed message: settled rows are never made pending,
\* only pending rows are listed, and only a run that lists a message sends it.
LEMMA ClosedStep ==
    ASSUME RunInv, [Next]_vars, NEW e \in Mails, Closed(e)
    PROVE  Closed(e)' /\ copies'[e] = copies[e]
<1>1. TypeOK /\ BusyRun /\ status[e] \in Settled
      /\ \A r \in Runs : e \notin run[r].todo /\ run[r].mail # e
  BY DEF RunInv, Closed, Listed
<1>2. ASSUME status' = status \/ \E d \in Mails : \E s \in Settled : status' = [status EXCEPT ![d] = s],
             copies' = copies,
             \A r \in Runs : e \notin run'[r].todo /\ run'[r].mail # e
      PROVE  Closed(e)' /\ copies'[e] = copies[e]
  BY <1>1, <1>2 DEF Closed, Listed, TypeOK
<1>3. ASSUME NEW d \in Mails, User(d) \/ BecomeDue(d)
      PROVE  Closed(e)' /\ copies'[e] = copies[e]
  <2>1. CASE ScheduleEmail(d)
    <3>1. d # e
      BY <1>1, <2>1 DEF ScheduleEmail, Settled
    <3> QED
      BY <1>1, <2>1, <3>1 DEF ScheduleEmail, Closed, Listed, TypeOK
  <2>2. CASE CancelSaves(d)
    BY <1>1, <1>2, <2>2 DEF CancelSaves, Settled
  <2>3. CASE CancelChecks(d) \/ CancelThrows(d) \/ BecomeDue(d)
    BY <1>1, <1>2, <2>3 DEF CancelChecks, CancelThrows, BecomeDue
  <2> QED
    BY <1>3, <2>1, <2>2, <2>3 DEF User
<1>4. ASSUME NEW r \in Runs, Progress(r) \/ RunAborts(r)
      PROVE  Closed(e)' /\ copies'[e] = copies[e]
  <2>1. CASE FindDue(r)
    <3>1. e \notin {d \in due : status[d] = "pending"} /\ NoMail # e
      BY <1>1, MailAssumption DEF MailAssumption, Settled
    <3> QED
      BY <1>1, <1>2, <2>1, <3>1 DEF FindDue, TypeOK
  <2>2. CASE Hydrate(r)
    BY <1>1, <1>2, <2>2 DEF Hydrate, TypeOK
  <2>3. CASE DispatchThrows(r) \/ CreateFollowUp(r) \/ SettleThrows(r)
    <3>1. /\ run'[r].mail = run[r].mail /\ run'[r].todo = run[r].todo
          /\ \A q \in Runs : q # r => run'[q] = run[q]
      BY <1>1, <2>3, GotoRun DEF DispatchThrows, CreateFollowUp, SettleThrows, TypeOK, RunPC
    <3>2. status' = status /\ copies' = copies
      BY <2>3 DEF DispatchThrows, CreateFollowUp, SettleThrows
    <3> QED
      BY <1>1, <1>2, <3>1, <3>2
  <2>4. CASE ProviderAccepts(r)
    <3>1. /\ run'[r].mail = run[r].mail /\ run'[r].todo = run[r].todo
          /\ \A q \in Runs : q # r => run'[q] = run[q]
      BY <1>1, <2>4, GotoRun DEF ProviderAccepts, TypeOK, RunPC
    <3>2. copies'[e] = copies[e] /\ status' = status
      BY <1>1, <2>4 DEF ProviderAccepts, TypeOK
    <3> QED
      BY <1>1, <3>1, <3>2 DEF Closed, Listed
  <2>5. CASE SaveSent(r) \/ MarkFailed(r)
    <3>1. run[r].mail \in Mails /\ NoMail # e
      BY <1>1, <2>5, MailAssumption DEF MailAssumption, SaveSent, MarkFailed, BusyRun
    <3>2. /\ run'[r].mail = NoMail /\ run'[r].todo = run[r].todo
          /\ \A q \in Runs : q # r => run'[q] = run[q]
      BY <1>1, <2>5, ResumeRun DEF SaveSent, MarkFailed, TypeOK
    <3>3. \E s \in Settled : status' = [status EXCEPT ![run[r].mail] = s]
      BY <2>5 DEF SaveSent, MarkFailed, Settled
    <3>4. copies' = copies
      BY <2>5 DEF SaveSent, MarkFailed
    <3> QED
      BY <1>1, <1>2, <3>1, <3>2, <3>3, <3>4
  <2>6. CASE RunDone(r) \/ RunAborts(r)
    BY <1>1, <1>2, <2>6, MailAssumption DEF MailAssumption, RunDone, RunAborts, IdleRun, TypeOK
  <2> QED
    BY <1>4, <2>1, <2>2, <2>3, <2>4, <2>5, <2>6 DEF Progress
<1>5. CASE UNCHANGED vars
  BY <1>1, <1>2, <1>5 DEF vars
<1> QED
  BY <1>3, <1>4, <1>5 DEF Next

\* A settled message that no run has on its list is closed for good: it is not
\* listed, sent or reopened by anything that happens later.  A cancellation
\* confirmed before a run listed the message is therefore honoured.
THEOREM ClosedForGood == Spec => ClosedStaysClosed
<1>1. Init => RunInv
  BY IdleRunType, MailAssumption
     DEF MailAssumption, Init, RunInv, TypeOK, BusyRun, Status, CancelState, IdleRun
<1>2. RunInv /\ [Next]_vars =>
         [\A e \in Mails : Closed(e) => Closed(e)' /\ copies'[e] = copies[e]]_vars
  BY ClosedStep
<1> QED
  BY <1>1, <1>2, RunNext, PTL DEF Spec, ClosedStaysClosed

(***************************************************************************)
(* Copies are paid for                                                     *)
(***************************************************************************)

\* The runs that may still send a message, those that owe its row a status,
\* and those that may still ask for its reminder.
MaySend(e) == {r \in Runs : e \in run[r].todo \/ (run[r].mail = e /\ run[r].pc = "dispatch")}

Owes(e) == {r \in Runs : run[r].mail = e /\ run[r].pc \in {"accepted", "settle", "fail"}}

MayRemind(e) == {r \in Runs : run[r].mail = e /\ run[r].pc = "accepted"}

\* The message a run works on is off its list.
ListedOnce == \A r \in Runs : run[r].mail \notin run[r].todo

\* While a message is open, every copy is owed by a run or lost to a fault; ...
OpenPaid(e) ==
    status[e] \in {"absent", "pending"} => copies[e] <= Cardinality(Owes(e)) + faults

\* ... whoever may still send it has not done so in this run; ...
ListedPaid(e) == copies[e] + Cardinality(MaySend(e)) <= Cardinality(Runs) + faults

\* ... and every reminder, asked for or to come, has a copy behind it.
RemindedPaid(e) == reminders[e] + Cardinality(MayRemind(e)) <= copies[e]

PaidInv ==
    RunInv /\ ListedOnce /\ \A e \in Mails : OpenPaid(e) /\ ListedPaid(e) /\ RemindedPaid(e)

\* Two sets of runs that agree on all runs but one.
LEMMA CountOne ==
    ASSUME NEW S, NEW T, NEW r, IsFiniteSet(S), IsFiniteSet(T), S \ {r} = T \ {r}
    PROVE  /\ Cardinality(S) \in Nat /\ Cardinality(T) \in Nat
           /\ r \in S /\ r \notin T => Cardinality(T) = Cardinality(S) - 1
           /\ r \notin S /\ r \in T => Cardinality(T) = Cardinality(S) + 1
           /\ (r \in S <=> r \in T) => Cardinality(T) = Cardinality(S)
<1>1. /\ Cardinality(S \ {r}) = IF r \in S THEN Cardinality(S) - 1 ELSE Cardinality(S)
      /\ Cardinality(T \ {r}) = IF r \in T THEN Cardinality(T) - 1 ELSE Cardinality(T)
      /\ Cardinality(S) \in Nat /\ Cardinality(T) \in Nat
  BY FS_RemoveElement, FS_CardinalityType
<1>2. Cardinality(S \ {r}) = Cardinality(T \ {r})
  OBVIOUS
<1>3. CASE r \in S
  BY <1>1, <1>2, <1>3
<1>4. CASE r \notin S
  BY <1>1, <1>2, <1>4
<1> QED
  BY <1>3, <1>4

\* Every set of runs is finite.
LEMMA FiniteRuns ==
    ASSUME NEW S \in SUBSET Runs
    PROVE  /\ IsFiniteSet(S) /\ Cardinality(S) \in Nat /\ Cardinality(Runs) \in Nat
           /\ Cardinality(S) <= Cardinality(Runs)
  BY MailAssumption, FS_Subset, FS_CardinalityType DEF MailAssumption

\* Two sets with no run in common have no more members than there are runs.
LEMMA DisjointRuns ==
    ASSUME NEW S \in SUBSET Runs, NEW T \in SUBSET Runs, S \cap T = {}
    PROVE  Cardinality(S) + Cardinality(T) <= Cardinality(Runs)
<1>1. S \cup T \in SUBSET Runs
  OBVIOUS
<1>2. Cardinality(S \cup T) = Cardinality(S) + Cardinality(T) - Cardinality({})
  BY FiniteRuns, FS_Union
<1>3. Cardinality({}) = 0
  BY FS_EmptySet
<1> QED
  BY <1>1, <1>2, <1>3, FiniteRuns

\* A step of one run changes each of the three sets by that run at most.
LEMMA OneRunCounts ==
    ASSUME NEW r \in Runs, NEW e \in Mails, \A q \in Runs : q # r => run'[q] = run[q]
    PROVE  /\ {Cardinality(MaySend(e)), Cardinality(Owes(e)), Cardinality(MayRemind(e)),
               Cardinality(MaySend(e))', Cardinality(Owes(e))', Cardinality(MayRemind(e))',
               Cardinality(Runs)} \subseteq Nat
           /\ r \in MaySend(e) /\ r \notin MaySend(e)'
                 => Cardinality(MaySend(e))' = Cardinality(MaySend(e)) - 1
           /\ (r \in MaySend(e) <=> r \in MaySend(e)')
                 => Cardinality(MaySend(e))' = Cardinality(MaySend(e))
           /\ r \notin Owes(e) /\ r \in Owes(e)'
                 => Cardinality(Owes(e))' = Cardinality(Owes(e)) + 1
           /\ r \in Owes(e) /\ r \notin Owes(e)'
                 => Cardinality(Owes(e))' = Cardinality(Owes(e)) - 1
           /\ (r \in Owes(e) <=> r \in Owes(e)')
                 => Cardinality(Owes(e))' = Cardinality(Owes(e))
           /\ r \notin MayRemind(e) /\ r \in MayRemind(e)'
                 => Cardinality(MayRemind(e))' = Cardinality(MayRemind(e)) + 1
           /\ r \in MayRemind(e) /\ r \notin MayRemind(e)'
                 => Cardinality(MayRemind(e))' = Cardinality(MayRemind(e)) - 1
           /\ (r \in MayRemind(e) <=> r \in MayRemind(e)')
                 => Cardinality(MayRemind(e))' = Cardinality(MayRemind(e))
<1>1. /\ MaySend(e) \in SUBSET Runs /\ MaySend(e)' \in SUBSET Runs
      /\ Owes(e) \in SUBSET Runs /\ Owes(e)' \in SUBSET Runs
      /\ MayRemind(e) \in SUBSET Runs /\ MayRemind(e)' \in SUBSET Runs
  BY DEF MaySend, Owes, MayRemind
<1>2. /\ MaySend(e) \ {r} = MaySend(e)' \ {r}
      /\ Owes(e) \ {r} = Owes(e)' \ {r}
      /\ MayRemind(e) \ {r} = MayRemind(e)' \ {r}
  BY DEF MaySend, Owes, MayRemind
<1>3. /\ IsFiniteSet(MaySend(e)) /\ IsFiniteSet(MaySend(e)')
      /\ IsFiniteSet(Owes(e)) /\ IsFiniteSet(Owes(e)')
      /\ IsFiniteSet(MayRemind(e)) /\ IsFiniteSet(MayRemind(e)')
      /\ Cardinality(Runs) \in Nat
  BY <1>1, FiniteRuns
<1>4. /\ Cardinality(MaySend(e)) \in Nat /\ Cardinality(MaySend(e)') \in Nat
      /\ r \in MaySend(e) /\ r \notin MaySend(e)'
            => Cardinality(MaySend(e)') = Cardinality(MaySend(e)) - 1
      /\ (r \in MaySend(e) <=> r \in MaySend(e)')
            => Cardinality(MaySend(e)') = Cardinality(MaySend(e))
  BY <1>2, <1>3, CountOne
<1>5. /\ Cardinality(Owes(e)) \in Nat /\ Cardinality(Owes(e)') \in Nat
      /\ r \notin Owes(e) /\ r \in Owes(e)'
            => Cardinality(Owes(e)') = Cardinality(Owes(e)) + 1
      /\ r \in Owes(e) /\ r \notin Owes(e)'
            => Cardinality(Owes(e)') = Cardinality(Owes(e)) - 1
      /\ (r \in Owes(e) <=> r \in Owes(e)')
            => Cardinality(Owes(e)') = Cardinality(Owes(e))
  BY <1>2, <1>3, CountOne
<1>6. /\ Cardinality(MayRemind(e)) \in Nat /\ Cardinality(MayRemind(e)') \in Nat
      /\ r \notin MayRemind(e) /\ r \in MayRemind(e)'
            => Cardinality(MayRemind(e)') = Cardinality(MayRemind(e)) + 1
      /\ r \in MayRemind(e) /\ r \notin MayRemind(e)'
            => Cardinality(MayRemind(e)') = Cardinality(MayRemind(e)) - 1
      /\ (r \in MayRemind(e) <=> r \in MayRemind(e)')
            => Cardinality(MayRemind(e)') = Cardinality(MayRemind(e))
  BY <1>2, <1>3, CountOne
<1> QED
  BY <1>3, <1>4, <1>5, <1>6

\* No step puts a message twice into the hands of one run.
LEMMA ListedOnceStep ==
    ASSUME RunInv, ListedOnce, [Next]_vars
    PROVE  ListedOnce'
<1> USE DEF RunInv
<1>1. ASSUME NEW r \in Runs, FindDue(r) \/ RunDone(r) \/ RunAborts(r)
      PROVE  ListedOnce'
  BY <1>1, MailAssumption
     DEF MailAssumption, FindDue, RunDone, RunAborts, IdleRun, ListedOnce, TypeOK, Run
<1>2. ASSUME NEW r \in Runs, Hydrate(r)
      PROVE  ListedOnce'
  BY <1>2 DEF Hydrate, ListedOnce, TypeOK, Run
<1>3. ASSUME NEW r \in Runs,
             DispatchThrows(r) \/ ProviderAccepts(r) \/ CreateFollowUp(r) \/ SettleThrows(r)
      PROVE  ListedOnce'
  BY <1>3, GotoRun
     DEF DispatchThrows, ProviderAccepts, CreateFollowUp, SettleThrows, ListedOnce, TypeOK, RunPC
<1>4. ASSUME NEW r \in Runs, SaveSent(r) \/ MarkFailed(r)
      PROVE  ListedOnce'
  BY <1>4, ResumeRun, MailAssumption
     DEF MailAssumption, SaveSent, MarkFailed, ListedOnce, TypeOK, Run
<1>5. ASSUME run' = run
      PROVE  ListedOnce'
  BY <1>5 DEF ListedOnce
<1> QED
  BY <1>1, <1>2, <1>3, <1>4, <1>5
     DEF Next, Progress, User, BecomeDue, ScheduleEmail, CancelChecks, CancelSaves,
         CancelThrows, vars

\* The user's requests and the clock touch neither runs nor copies.
LEMMA PaidUser ==
    ASSUME PaidInv, NEW d \in Mails, User(d) \/ BecomeDue(d), NEW e \in Mails
    PROVE  OpenPaid(e)' /\ ListedPaid(e)' /\ RemindedPaid(e)'
<1>1. run' = run /\ copies' = copies /\ reminders' = reminders
  BY DEF User, BecomeDue, ScheduleEmail, CancelChecks, CancelSaves, CancelThrows
<1>2. Owes(e)' = Owes(e) /\ MaySend(e)' = MaySend(e) /\ MayRemind(e)' = MayRemind(e)
  BY <1>1 DEF Owes, MaySend, MayRemind
<1>3. {Cardinality(Owes(e)), Cardinality(MaySend(e)), Cardinality(Runs), copies[e], faults, faults'}
         \subseteq Nat /\ faults <= faults'
  <2>1. Owes(e) \in SUBSET Runs /\ MaySend(e) \in SUBSET Runs
    BY DEF Owes, MaySend
  <2>2. faults' = faults \/ faults' = faults + 1
    BY DEF User, BecomeDue, ScheduleEmail, CancelChecks, CancelSaves, CancelThrows, Fault
  <2> QED
    BY <2>1, <2>2, FiniteRuns DEF PaidInv, RunInv, TypeOK
<1>4. status'[e] \in {"absent", "pending"} => status[e] \in {"absent", "pending"}
  BY DEF PaidInv, RunInv, TypeOK, User, BecomeDue, ScheduleEmail, CancelChecks, CancelSaves, CancelThrows
<1>5. ListedPaid(e)' /\ RemindedPaid(e)'
  BY <1>1, <1>2, <1>3 DEF PaidInv, ListedPaid, RemindedPaid
<1>6. OpenPaid(e)'
  BY <1>1, <1>2, <1>3, <1>4 DEF PaidInv, OpenPaid
<1> QED
  BY <1>5, <1>6

\* A run that lists a message begins with nothing owed for it.
LEMMA PaidFind ==
    ASSUME PaidInv, ListedOnce', NEW r \in Runs, FindDue(r), NEW e \in Mails
    PROVE  OpenPaid(e)' /\ ListedPaid(e)' /\ RemindedPaid(e)'
<1> DEFINE list == {d \in due : status[d] = "pending"}
<1>1. /\ \A q \in Runs : q # r => run'[q] = run[q]
      /\ run[r].pc = "idle"
      /\ run'[r] = [pc |-> "next", todo |-> list, mail |-> NoMail]
      /\ UNCHANGED <<status, due, copies, reminders, faults>>
  BY DEF FindDue, PaidInv, RunInv, TypeOK
<1>2. r \notin Owes(e) /\ r \notin Owes(e)' /\ r \notin MayRemind(e) /\ r \notin MayRemind(e)'
  BY <1>1 DEF Owes, MayRemind
<1>3. /\ copies[e] \in Nat /\ reminders[e] \in Nat /\ faults \in Nat
      /\ OpenPaid(e) /\ ListedPaid(e) /\ RemindedPaid(e)
  BY DEF PaidInv, RunInv, TypeOK
<1>4. /\ Cardinality(Owes(e))' = Cardinality(Owes(e))
      /\ Cardinality(MayRemind(e))' = Cardinality(MayRemind(e))
      /\ {Cardinality(MaySend(e)), Cardinality(MaySend(e))', Cardinality(Owes(e)),
          Cardinality(Runs)} \subseteq Nat
      /\ r \in MaySend(e) /\ r \notin MaySend(e)'
            => Cardinality(MaySend(e))' = Cardinality(MaySend(e)) - 1
      /\ (r \in MaySend(e) <=> r \in MaySend(e)')
            => Cardinality(MaySend(e))' = Cardinality(MaySend(e))
  BY <1>1, <1>2, OneRunCounts
<1>5. OpenPaid(e)' /\ RemindedPaid(e)'
  BY <1>1, <1>3, <1>4 DEF OpenPaid, RemindedPaid
<1>6. CASE e \in list
  <2>1. copies[e] <= Cardinality(Owes(e)) + faults
    BY <1>3, <1>6 DEF OpenPaid
  <2>2. Cardinality(Owes(e))' + Cardinality(MaySend(e))' <= Cardinality(Runs)
    <3>1. Owes(e)' \cap MaySend(e)' = {}
      BY DEF Owes, MaySend, ListedOnce
    <3>2. Owes(e)' \in SUBSET Runs /\ MaySend(e)' \in SUBSET Runs
      BY DEF Owes, MaySend
    <3> QED
      BY <3>1, <3>2, DisjointRuns
  <2>3. ListedPaid(e)'
    BY <1>1, <1>3, <1>4, <2>1, <2>2 DEF ListedPaid
  <2> QED
    BY <1>5, <2>3
<1>7. CASE e \notin list
  <2>1. r \notin MaySend(e)'
    BY <1>1, <1>7, MailAssumption DEF MailAssumption, MaySend
  <2>2. Cardinality(MaySend(e))' <= Cardinality(MaySend(e))
    BY <1>4, <2>1
  <2>3. ListedPaid(e)'
    BY <1>1, <1>3, <1>4, <2>2 DEF ListedPaid
  <2> QED
    BY <1>5, <2>3
<1> QED
  BY <1>6, <1>7

\* A run that goes on moves itself between the sets, and counts what it does.
LEMMA PaidGoes ==
    ASSUME PaidInv, NEW r \in Runs, NEW e \in Mails,
           \/ Hydrate(r) \/ DispatchThrows(r) \/ ProviderAccepts(r)
           \/ CreateFollowUp(r) \/ SettleThrows(r)
    PROVE  OpenPaid(e)' /\ ListedPaid(e)' /\ RemindedPaid(e)'
<1>1. /\ TypeOK /\ ListedOnce /\ BusyRun
      /\ copies[e] \in Nat /\ reminders[e] \in Nat /\ faults \in Nat
      /\ OpenPaid(e) /\ ListedPaid(e) /\ RemindedPaid(e)
  BY DEF PaidInv, RunInv, TypeOK
<1>2. status' = status /\ faults' = faults
  BY DEF Hydrate, DispatchThrows, ProviderAccepts, CreateFollowUp, SettleThrows
<1>3. CASE Hydrate(r)
  <2>1. PICK d \in run[r].todo :
           run' = [run EXCEPT ![r] = [pc |-> "dispatch", todo |-> run[r].todo \ {d}, mail |-> d]]
    BY <1>3 DEF Hydrate
  <2>2. /\ \A q \in Runs : q # r => run'[q] = run[q]
        /\ run[r].pc = "next"
        /\ run'[r] = [pc |-> "dispatch", todo |-> run[r].todo \ {d}, mail |-> d]
        /\ copies' = copies /\ reminders' = reminders
    BY <1>1, <1>3, <2>1 DEF Hydrate, TypeOK
  <2>3. /\ r \notin Owes(e) /\ r \notin Owes(e)'
        /\ r \notin MayRemind(e) /\ r \notin MayRemind(e)'
        /\ r \in MaySend(e) <=> r \in MaySend(e)'
    BY <2>1, <2>2 DEF Owes, MayRemind, MaySend
  <2>4. /\ Cardinality(Owes(e))' = Cardinality(Owes(e))
        /\ Cardinality(MayRemind(e))' = Cardinality(MayRemind(e))
        /\ Cardinality(MaySend(e))' = Cardinality(MaySend(e))
    BY <2>2, <2>3, OneRunCounts
  <2> QED
    BY <1>1, <1>2, <2>2, <2>4 DEF OpenPaid, ListedPaid, RemindedPaid
<1>4. CASE ~Hydrate(r)
  <2>1. /\ \A q \in Runs : q # r => run'[q] = run[q]
        /\ run'[r].mail = run[r].mail /\ run'[r].todo = run[r].todo
        /\ run[r].mail \notin run[r].todo
        /\ run[r].pc \in {"dispatch", "accepted", "settle"}
        /\ run[r].pc = "dispatch" => run'[r].pc \in {"accepted", "fail"}
        /\ run[r].pc = "dispatch" /\ run'[r].pc = "accepted" => ProviderAccepts(r)
        /\ run[r].pc = "accepted" => run'[r].pc = "settle" /\ CreateFollowUp(r)
        /\ run[r].pc = "settle" => run'[r].pc = "fail"
    BY <1>1, <1>4, GotoRun
       DEF DispatchThrows, ProviderAccepts, CreateFollowUp, SettleThrows, ListedOnce, TypeOK, RunPC
  <2>2. /\ {Cardinality(MaySend(e)), Cardinality(Owes(e)), Cardinality(MayRemind(e)),
            Cardinality(MaySend(e))', Cardinality(Owes(e))', Cardinality(MayRemind(e))',
            Cardinality(Runs)} \subseteq Nat
        /\ r \in MaySend(e) /\ r \notin MaySend(e)'
              => Cardinality(MaySend(e))' = Cardinality(MaySend(e)) - 1
        /\ (r \in MaySend(e) <=> r \in MaySend(e)')
              => Cardinality(MaySend(e))' = Cardinality(MaySend(e))
        /\ r \notin Owes(e) /\ r \in Owes(e)'
              => Cardinality(Owes(e))' = Cardinality(Owes(e)) + 1
        /\ (r \in Owes(e) <=> r \in Owes(e)')
              => Cardinality(Owes(e))' = Cardinality(Owes(e))
        /\ r \notin MayRemind(e) /\ r \in MayRemind(e)'
              => Cardinality(MayRemind(e))' = Cardinality(MayRemind(e)) + 1
        /\ r \in MayRemind(e) /\ r \notin MayRemind(e)'
              => Cardinality(MayRemind(e))' = Cardinality(MayRemind(e)) - 1
        /\ (r \in MayRemind(e) <=> r \in MayRemind(e)')
              => Cardinality(MayRemind(e))' = Cardinality(MayRemind(e))
    BY <2>1, OneRunCounts
  <2>3. CASE run[r].mail # e
    <3>1. /\ r \in MaySend(e) <=> r \in MaySend(e)'
          /\ r \in Owes(e) <=> r \in Owes(e)'
          /\ r \in MayRemind(e) <=> r \in MayRemind(e)'
      BY <2>1, <2>3 DEF MaySend, Owes, MayRemind
    <3>2. copies'[e] = copies[e] /\ reminders'[e] = reminders[e]
      BY <1>1, <1>4, <2>3
         DEF DispatchThrows, ProviderAccepts, CreateFollowUp, SettleThrows, TypeOK
    <3> QED
      BY <1>1, <1>2, <2>2, <3>1, <3>2 DEF OpenPaid, ListedPaid, RemindedPaid
  <2>4. CASE run[r].mail = e /\ run[r].pc = "dispatch"
    <3>1. /\ r \in MaySend(e) /\ r \notin MaySend(e)'
          /\ r \notin Owes(e) /\ r \in Owes(e)'
          /\ r \notin MayRemind(e) /\ (r \in MayRemind(e)' <=> run'[r].pc = "accepted")
      BY <2>1, <2>4 DEF MaySend, Owes, MayRemind
    <3>2. /\ Cardinality(MaySend(e))' = Cardinality(MaySend(e)) - 1
          /\ Cardinality(Owes(e))' = Cardinality(Owes(e)) + 1
      BY <2>2, <3>1
    <3>3. CASE run'[r].pc = "accepted"
      <4>1. copies'[e] = copies[e] + 1 /\ reminders'[e] = reminders[e]
        BY <1>1, <2>1, <2>4, <3>3 DEF ProviderAccepts, TypeOK
      <4>2. Cardinality(MayRemind(e))' = Cardinality(MayRemind(e)) + 1
        BY <2>2, <3>1, <3>3
      <4> QED
        BY <1>1, <1>2, <2>2, <3>2, <4>1, <4>2 DEF OpenPaid, ListedPaid, RemindedPaid
    <3>4. CASE run'[r].pc = "fail"
      <4>1. copies' = copies /\ reminders' = reminders
        BY <1>1, <1>4, <2>4, <3>4, GotoRun
           DEF DispatchThrows, ProviderAccepts, CreateFollowUp, SettleThrows, TypeOK, RunPC
      <4>2. Cardinality(MayRemind(e))' = Cardinality(MayRemind(e))
        BY <2>2, <3>1, <3>4
      <4> QED
        BY <1>1, <1>2, <2>2, <3>2, <4>1, <4>2 DEF OpenPaid, ListedPaid, RemindedPaid
    <3> QED
      BY <2>1, <2>4, <3>3, <3>4
  <2>5. CASE run[r].mail = e /\ run[r].pc # "dispatch"
    <3>1. /\ r \notin MaySend(e) /\ r \notin MaySend(e)'
          /\ r \in Owes(e) /\ r \in Owes(e)'
          /\ r \in MayRemind(e) <=> run[r].pc = "accepted"
          /\ r \notin MayRemind(e)'
      BY <2>1, <2>5 DEF MaySend, Owes, MayRemind
    <3>2. /\ Cardinality(MaySend(e))' = Cardinality(MaySend(e))
          /\ Cardinality(Owes(e))' = Cardinality(Owes(e))
      BY <2>2, <3>1
    <3>3. copies' = copies
      BY <1>1, <1>4, <2>5 DEF DispatchThrows, ProviderAccepts, CreateFollowUp, SettleThrows
    <3>4. reminders'[e] + Cardinality(MayRemind(e))' <= reminders[e] + Cardinality(MayRemind(e))
      <4>1. CASE run[r].pc = "accepted"
        <5>1. reminders'[e] = reminders[e] \/ reminders'[e] = reminders[e] + 1
          BY <1>1, <2>1, <2>5, <4>1 DEF CreateFollowUp, TypeOK
        <5>2. Cardinality(MayRemind(e))' = Cardinality(MayRemind(e)) - 1
          BY <2>2, <3>1, <4>1
        <5> QED
          BY <1>1, <2>2, <5>1, <5>2
      <4>2. CASE run[r].pc # "accepted"
        <5>1. reminders' = reminders
          BY <1>4, <2>5, <4>2 DEF DispatchThrows, ProviderAccepts, CreateFollowUp, SettleThrows
        <5>2. Cardinality(MayRemind(e))' = Cardinality(MayRemind(e))
          BY <2>2, <3>1, <4>2
        <5> QED
          BY <1>1, <2>2, <5>1, <5>2
      <4> QED
        BY <4>1, <4>2
    <3>5. reminders'[e] \in Nat
      BY <1>1, <1>4, <2>5
         DEF DispatchThrows, ProviderAccepts, CreateFollowUp, SettleThrows, TypeOK
    <3>6. OpenPaid(e)' /\ ListedPaid(e)'
      BY <1>1, <1>2, <3>2, <3>3 DEF OpenPaid, ListedPaid
    <3>7. RemindedPaid(e)'
      BY <1>1, <2>2, <3>3, <3>4, <3>5 DEF RemindedPaid
    <3> QED
      BY <3>6, <3>7
  <2> QED
    BY <2>3, <2>4, <2>5
<1> QED
  BY <1>3, <1>4

\* A run that leaves a message behind has settled it, or a fault took it.
LEMMA PaidLeaves ==
    ASSUME PaidInv, NEW r \in Runs, NEW e \in Mails,
           SaveSent(r) \/ MarkFailed(r) \/ RunDone(r) \/ RunAborts(r)
    PROVE  OpenPaid(e)' /\ ListedPaid(e)' /\ RemindedPaid(e)'
<1>1. /\ TypeOK /\ ListedOnce /\ BusyRun
      /\ copies[e] \in Nat /\ reminders[e] \in Nat /\ faults \in Nat
      /\ OpenPaid(e) /\ ListedPaid(e) /\ RemindedPaid(e)
  BY DEF PaidInv, RunInv, TypeOK
<1>2. /\ \A q \in Runs : q # r => run'[q] = run[q]
      /\ run'[r].mail = NoMail /\ run'[r].todo \subseteq run[r].todo
      /\ copies' = copies /\ reminders' = reminders
      /\ faults' = faults \/ (RunAborts(r) /\ faults' = faults + 1)
  BY <1>1, ResumeRun, IdleRunType
     DEF SaveSent, MarkFailed, RunDone, RunAborts, Fault, IdleRun, TypeOK
<1>3. /\ r \notin Owes(e)' /\ r \notin MayRemind(e)'
      /\ r \in MaySend(e)' => r \in MaySend(e)
  BY <1>2, MailAssumption DEF MailAssumption, Owes, MayRemind, MaySend
<1>4. /\ {Cardinality(MaySend(e)), Cardinality(Owes(e)), Cardinality(MayRemind(e)),
          Cardinality(MaySend(e))', Cardinality(Owes(e))', Cardinality(MayRemind(e))',
          Cardinality(Runs)} \subseteq Nat
      /\ Cardinality(MaySend(e))' <= Cardinality(MaySend(e))
      /\ Cardinality(MayRemind(e))' <= Cardinality(MayRemind(e))
      /\ r \in Owes(e) => Cardinality(Owes(e))' = Cardinality(Owes(e)) - 1
      /\ r \notin Owes(e) => Cardinality(Owes(e))' = Cardinality(Owes(e))
  <2>1. /\ {Cardinality(MaySend(e)), Cardinality(Owes(e)), Cardinality(MayRemind(e)),
            Cardinality(MaySend(e))', Cardinality(Owes(e))', Cardinality(MayRemind(e))',
            Cardinality(Runs)} \subseteq Nat
        /\ r \in MaySend(e) /\ r \notin MaySend(e)'
              => Cardinality(MaySend(e))' = Cardinality(MaySend(e)) - 1
        /\ (r \in MaySend(e) <=> r \in MaySend(e)')
              => Cardinality(MaySend(e))' = Cardinality(MaySend(e))
        /\ r \in Owes(e) /\ r \notin Owes(e)'
              => Cardinality(Owes(e))' = Cardinality(Owes(e)) - 1
        /\ (r \in Owes(e) <=> r \in Owes(e)')
              => Cardinality(Owes(e))' = Cardinality(Owes(e))
        /\ r \in MayRemind(e) /\ r \notin MayRemind(e)'
              => Cardinality(MayRemind(e))' = Cardinality(MayRemind(e)) - 1
        /\ (r \in MayRemind(e) <=> r \in MayRemind(e)')
              => Cardinality(MayRemind(e))' = Cardinality(MayRemind(e))
    BY <1>2, OneRunCounts
  <2>2. Cardinality(MaySend(e))' <= Cardinality(MaySend(e))
    BY <1>3, <2>1
  <2>3. Cardinality(MayRemind(e))' <= Cardinality(MayRemind(e))
    BY <1>3, <2>1
  <2> QED
    BY <1>3, <2>1, <2>2, <2>3
<1>5. ListedPaid(e)' /\ RemindedPaid(e)'
  BY <1>1, <1>2, <1>4 DEF ListedPaid, RemindedPaid
<1>6. OpenPaid(e)'
  <2>1. SUFFICES ASSUME status'[e] \in {"absent", "pending"}
                 PROVE  copies[e] <= Cardinality(Owes(e))' + faults'
    BY <1>2 DEF OpenPaid
  <2>2. CASE SaveSent(r) \/ MarkFailed(r)
    <3>1. run[r].mail # e /\ status'[e] = status[e]
      BY <1>1, <2>1, <2>2 DEF SaveSent, MarkFailed, TypeOK
    <3>2. r \notin Owes(e) /\ faults' = faults
      BY <2>2, <3>1 DEF Owes, SaveSent, MarkFailed
    <3> QED
      BY <1>1, <1>4, <2>1, <3>1, <3>2 DEF OpenPaid
  <2>3. CASE RunDone(r)
    <3>1. r \notin Owes(e) /\ faults' = faults /\ status' = status
      BY <2>3 DEF Owes, RunDone
    <3> QED
      BY <1>1, <1>4, <2>1, <3>1 DEF OpenPaid
  <2>4. CASE RunAborts(r)
    <3>1. faults' = faults + 1 /\ status' = status
      BY <2>4 DEF RunAborts, Fault
    <3>2. Cardinality(Owes(e))' + 1 >= Cardinality(Owes(e))
      BY <1>4
    <3> QED
      BY <1>1, <1>4, <2>1, <3>1, <3>2 DEF OpenPaid
  <2> QED
    BY <2>2, <2>3, <2>4
<1> QED
  BY <1>5, <1>6

\* Who still may send, owes and may remind bound the copies in every step.
LEMMA PaidNext == PaidInv /\ [Next]_vars => PaidInv'
<1> SUFFICES ASSUME PaidInv, [Next]_vars PROVE PaidInv'
  OBVIOUS
<1>1. RunInv' /\ ListedOnce'
  BY RunNext, ListedOnceStep DEF PaidInv
<1>2. ASSUME NEW e \in Mails
      PROVE  OpenPaid(e)' /\ ListedPaid(e)' /\ RemindedPaid(e)'
  <2>1. CASE \E d \in Mails : User(d) \/ BecomeDue(d)
    BY <2>1, PaidUser
  <2>2. CASE \E r \in Runs : Progress(r) \/ RunAborts(r)
    BY <1>1, <2>2, PaidFind, PaidGoes, PaidLeaves DEF Progress
  <2>3. CASE UNCHANGED vars
    BY <2>3 DEF vars, PaidInv, OpenPaid, ListedPaid, RemindedPaid, Owes, MaySend, MayRemind
  <2> QED
    BY <2>1, <2>2, <2>3 DEF Next
<1> QED
  BY <1>1, <1>2 DEF PaidInv

\* The counting argument holds in every reachable state.
THEOREM PaidInvariant == Spec => []PaidInv
<1>1. Init => PaidInv
  <2> SUFFICES ASSUME Init PROVE PaidInv
    OBVIOUS
  <2>1. RunInv
    BY IdleRunType, MailAssumption
       DEF MailAssumption, Init, RunInv, TypeOK, BusyRun, Status, CancelState, IdleRun
  <2>2. ListedOnce
    BY DEF Init, ListedOnce, IdleRun
  <2>3. ASSUME NEW e \in Mails
        PROVE  OpenPaid(e) /\ ListedPaid(e) /\ RemindedPaid(e)
    <3>1. Owes(e) = {} /\ MaySend(e) = {} /\ MayRemind(e) = {}
      BY MailAssumption DEF MailAssumption, Init, IdleRun, Owes, MaySend, MayRemind
    <3>2. Cardinality({}) = 0
      BY FS_EmptySet
    <3>3. copies[e] = 0 /\ reminders[e] = 0 /\ faults = 0 /\ Cardinality(Runs) \in Nat
      BY FiniteRuns DEF Init
    <3> QED
      BY <3>1, <3>2, <3>3 DEF OpenPaid, ListedPaid, RemindedPaid
  <2> QED
    BY <2>1, <2>2, <2>3 DEF PaidInv
<1> QED
  BY <1>1, PaidNext, PTL DEF Spec

\* Copies are bounded by the runs that overlap and the faults, and no reminder
\* is created for a message that did not go out, for any number of messages.
THEOREM PaidFor == Spec => []CopiesArePaidFor
<1>1. PaidInv => CopiesArePaidFor
  <2> SUFFICES ASSUME PaidInv, NEW e \in Mails
               PROVE  /\ reminders[e] <= copies[e]
                      /\ copies[e] <= Cardinality(Runs) + faults
    BY DEF CopiesArePaidFor
  <2>1. MaySend(e) \in SUBSET Runs /\ MayRemind(e) \in SUBSET Runs
    BY DEF MaySend, MayRemind
  <2> QED
    BY <2>1, FiniteRuns DEF PaidInv, RunInv, TypeOK, ListedPaid, RemindedPaid
<1> QED
  BY <1>1, PaidInvariant, PTL

(***************************************************************************)
(* The refinement of DeliveryLedger                                        *)
(***************************************************************************)

\* What DeliveryLedger sees of the runs and the cancellations.
Hold == [r \in Runs |-> [e \in Mails |-> Holding(r, e)]]

Asked == {e \in Mails : cancel[e] = "checked"}

\* A run that is not at work has nothing on its list.
IdleLists == \A r \in Runs : run[r].pc = "idle" => run[r].todo = {}

\* It stays so.
LEMMA IdleStep ==
    ASSUME RunInv, IdleLists, [Next]_vars
    PROVE  IdleLists'
<1> USE DEF RunInv
<1>1. ASSUME NEW r \in Runs, FindDue(r) \/ RunDone(r) \/ RunAborts(r) \/ Hydrate(r)
      PROVE  IdleLists'
  BY <1>1 DEF FindDue, RunDone, RunAborts, Hydrate, IdleRun, IdleLists, TypeOK, Run
<1>2. ASSUME NEW r \in Runs,
             DispatchThrows(r) \/ ProviderAccepts(r) \/ CreateFollowUp(r) \/ SettleThrows(r)
      PROVE  IdleLists'
  BY <1>2, GotoRun
     DEF DispatchThrows, ProviderAccepts, CreateFollowUp, SettleThrows, IdleLists, TypeOK, RunPC
<1>3. ASSUME NEW r \in Runs, SaveSent(r) \/ MarkFailed(r)
      PROVE  IdleLists'
  BY <1>3, ResumeRun DEF SaveSent, MarkFailed, IdleLists, TypeOK
<1>4. ASSUME run' = run
      PROVE  IdleLists'
  BY <1>4 DEF IdleLists
<1> QED
  BY <1>1, <1>2, <1>3, <1>4
     DEF Next, Progress, User, BecomeDue, ScheduleEmail, CancelChecks, CancelSaves,
         CancelThrows, vars

\* Where a run stands with a message.
LEMMA HoldingCases ==
    ASSUME ListedOnce, NEW r \in Runs, NEW e \in Mails
    PROVE  /\ e \in run[r].todo => Holding(r, e) = "offered"
           /\ run[r].mail = e /\ run[r].pc = "dispatch" => Holding(r, e) = "offered"
           /\ run[r].mail = e /\ run[r].pc \in {"accepted", "settle"} => Holding(r, e) = "delivered"
           /\ run[r].mail = e /\ run[r].pc = "fail" => Holding(r, e) = "failing"
           /\ e \notin run[r].todo /\ run[r].mail # e => Holding(r, e) = "none"
           /\ e \notin run[r].todo /\ run[r].pc \in {"idle", "next"} => Holding(r, e) = "none"
  BY DEF Holding, ListedOnce

\* A step of a run that keeps it where it stands with every message ...
LEMMA HoldKept ==
    ASSUME NEW r \in Runs, \A q \in Runs : q # r => run'[q] = run[q],
           \A e \in Mails : Holding(r, e)' = Holding(r, e)
    PROVE  Hold' = Hold
<1>1. \A q \in Runs, e \in Mails : Holding(q, e)' = Holding(q, e)
  BY DEF Holding
<1> QED
  BY <1>1 DEF Hold

\* ... and one that takes it further with a single message.
LEMMA HoldMoves ==
    ASSUME NEW r \in Runs, \A q \in Runs : q # r => run'[q] = run[q],
           NEW e \in Mails, NEW to, Holding(r, e)' = to,
           \A d \in Mails : d # e => Holding(r, d)' = Holding(r, d)
    PROVE  Hold' = [Hold EXCEPT ![r][e] = to]
<1>1. \A q \in Runs, d \in Mails : q # r => Holding(q, d)' = Holding(q, d)
  BY DEF Holding
<1>2. \A q \in Runs : q # r => Hold'[q] = Hold[q]
  BY <1>1 DEF Hold
<1>3. Hold'[r] = [Hold[r] EXCEPT ![e] = to]
  BY DEF Hold
<1>4. Hold' = [Hold EXCEPT ![r] = [Hold[r] EXCEPT ![e] = to]]
  BY <1>2, <1>3 DEF Hold
<1> QED
  BY <1>4

\* The user's steps.
LEMMA DeliveryUser ==
    ASSUME RunInv, NEW e \in Mails, User(e) \/ BecomeDue(e)
    PROVE  [Delivery!DeliveryNext]_(Delivery!deliveryVars)
<1>1. UNCHANGED <<run, copies, reminders>> /\ Hold' = Hold
  BY DEF User, BecomeDue, ScheduleEmail, CancelChecks, CancelSaves, CancelThrows, Hold, Holding
<1>2. CASE ScheduleEmail(e)
  BY <1>1, <1>2
  DEF ScheduleEmail, Delivery!Schedule, Delivery!DeliveryNext, Hold, Asked
<1>3. CASE CancelChecks(e) /\ status[e] = "pending"
  <2>1. Asked' = Asked \cup {e} /\ status' = status
    BY <1>3 DEF CancelChecks, Asked, RunInv, TypeOK
  <2>2. Delivery!Ask(e)
    BY <1>1, <1>3, <2>1 DEF Delivery!Ask, Hold, Asked
  <2> QED
    BY <2>2 DEF Delivery!DeliveryNext
<1>4. CASE BecomeDue(e) \/ (CancelChecks(e) /\ status[e] # "pending")
  <2>1. Asked' = Asked /\ status' = status
    BY <1>4 DEF BecomeDue, CancelChecks, Asked, RunInv, TypeOK
  <2> QED
    BY <1>1, <2>1 DEF Delivery!deliveryVars, Hold, Asked
<1>5. CASE CancelSaves(e)
  <2>1. e \in Asked /\ Asked' = Asked \ {e}
    BY <1>5 DEF CancelSaves, Asked, RunInv, TypeOK
  <2>2. Delivery!Cancel(e)
    BY <1>1, <1>5, <2>1 DEF CancelSaves, Delivery!Cancel, Hold, Asked
  <2> QED
    BY <2>2 DEF Delivery!DeliveryNext
<1>6. CASE CancelThrows(e)
  <2>1. e \in Asked /\ Asked' = Asked \ {e} /\ status' = status
    BY <1>6 DEF CancelThrows, Asked, RunInv, TypeOK
  <2>2. Delivery!Desist(e)
    BY <1>1, <2>1 DEF Delivery!Desist, Hold, Asked
  <2> QED
    BY <2>2 DEF Delivery!DeliveryNext
<1> QED
  BY <1>2, <1>3, <1>4, <1>5, <1>6 DEF User

\* A run begins, takes the next message, ends or dies.
LEMMA DeliveryLists ==
    ASSUME PaidInv, IdleLists, ListedOnce',
           NEW r \in Runs, FindDue(r) \/ Hydrate(r) \/ RunDone(r) \/ RunAborts(r)
    PROVE  [Delivery!DeliveryNext]_(Delivery!deliveryVars)
<1> USE DEF PaidInv, RunInv
<1>1. UNCHANGED <<status, copies, reminders>> /\ Asked' = Asked
  BY DEF FindDue, Hydrate, RunDone, RunAborts, Asked
<1>2. \A q \in Runs : q # r => run'[q] = run[q]
  BY DEF FindDue, Hydrate, RunDone, RunAborts, TypeOK
<1>3. \A q \in Runs, e \in Mails : q # r => Holding(q, e)' = Holding(q, e)
  BY <1>2 DEF Holding
<1>4. CASE FindDue(r)
  <2> DEFINE mails == {e \in due : status[e] = "pending"}
  <2>1. run'[r].pc = "next" /\ run'[r].todo = mails /\ mails \in SUBSET Mails
    BY <1>4 DEF FindDue, TypeOK
  <2>2. \A e \in Mails : Holding(r, e) = "none"
    BY <1>4, HoldingCases DEF FindDue, IdleLists
  <2>3. \A e \in Mails : Holding(r, e)' = IF e \in mails THEN "offered" ELSE "none"
    BY <2>1 DEF Holding
  <2>4. Hold[r] = [e \in Mails |-> "none"]
    BY <2>2 DEF Hold
  <2>5. Hold'[r] = [e \in Mails |-> IF e \in mails THEN "offered" ELSE "none"]
    BY <2>3 DEF Hold
  <2>6. \A q \in Runs : q # r => Hold'[q] = Hold[q]
    BY <1>3 DEF Hold
  <2>7. Hold' = [Hold EXCEPT ![r] = [e \in Mails |-> IF e \in mails THEN "offered" ELSE "none"]]
    BY <2>5, <2>6 DEF Hold
  <2>8. Delivery!HandOut(r, mails)
    BY <1>1, <2>4, <2>7 DEF Delivery!HandOut, Delivery!Nothing, Hold, Asked
  <2> QED
    BY <2>1, <2>8 DEF Delivery!DeliveryNext
<1>5. CASE Hydrate(r)
  <2>1. PICK e \in run[r].todo :
           run' = [run EXCEPT ![r] = [pc |-> "dispatch", todo |-> run[r].todo \ {e}, mail |-> e]]
    BY <1>5 DEF Hydrate
  <2>2. run'[r].pc = "dispatch" /\ run'[r].todo = run[r].todo \ {e} /\ run'[r].mail = e
    BY <2>1 DEF TypeOK
  <2>3. \A d \in Mails : Holding(r, d)' = Holding(r, d)
    BY <1>5, <2>2 DEF Holding, Hydrate
  <2> QED
    BY <1>1, <1>2, <2>3, HoldKept DEF Delivery!deliveryVars, Hold, Asked
<1>6. CASE RunDone(r)
  <2>1. run'[r].pc = "idle" /\ run'[r].todo = {} /\ run[r].pc = "next" /\ run[r].todo = {}
    BY <1>6 DEF RunDone, IdleRun, TypeOK
  <2>2. \A d \in Mails : Holding(r, d)' = Holding(r, d)
    BY <2>1 DEF Holding
  <2> QED
    BY <1>1, <1>2, <2>2, HoldKept DEF Delivery!deliveryVars, Hold, Asked
<1>7. CASE RunAborts(r)
  <2>1. run'[r].pc = "idle" /\ run'[r].todo = {}
    BY <1>7 DEF RunAborts, IdleRun, TypeOK
  <2>2. \A d \in Mails : Holding(r, d)' = "none"
    BY <2>1 DEF Holding
  <2>3. Hold'[r] = [e \in Mails |-> "none"] /\ \A q \in Runs : q # r => Hold'[q] = Hold[q]
    BY <1>3, <2>2 DEF Hold
  <2>4. Hold' = [Hold EXCEPT ![r] = [e \in Mails |-> "none"]]
    BY <2>3 DEF Hold
  <2>5. Delivery!Drop(r)
    BY <1>1, <2>4 DEF Delivery!Drop, Delivery!Nothing, Hold, Asked
  <2> QED
    BY <2>5 DEF Delivery!DeliveryNext
<1> QED
  BY <1>4, <1>5, <1>6, <1>7

\* A run sends a message, asks for its reminder, or gives it up.
LEMMA DeliveryGoes ==
    ASSUME PaidInv, NEW r \in Runs,
           DispatchThrows(r) \/ ProviderAccepts(r) \/ CreateFollowUp(r) \/ SettleThrows(r)
    PROVE  [Delivery!DeliveryNext]_(Delivery!deliveryVars)
<1> USE DEF PaidInv, RunInv
<1>1. PICK e \in Mails : e = run[r].mail
  BY DEF DispatchThrows, ProviderAccepts, CreateFollowUp, SettleThrows, BusyRun
<1>2. UNCHANGED status /\ Asked' = Asked
  BY DEF DispatchThrows, ProviderAccepts, CreateFollowUp, SettleThrows, Asked
<1>3. /\ run'[r].mail = e /\ run'[r].todo = run[r].todo /\ e \notin run[r].todo
      /\ \A q \in Runs : q # r => run'[q] = run[q]
  BY <1>1, GotoRun
  DEF DispatchThrows, ProviderAccepts, CreateFollowUp, SettleThrows, TypeOK, RunPC, ListedOnce
<1>4. \A d \in Mails : d # e => Holding(r, d)' = Holding(r, d)
  BY <1>1, <1>3 DEF Holding
<1>5. ASSUME NEW pc \in RunPC, Goto(r, pc)
      PROVE  run'[r].pc = pc
  BY <1>5, GotoRun DEF TypeOK
<1>6. CASE DispatchThrows(r) \/ SettleThrows(r)
  <2>1. run[r].pc \in {"dispatch", "settle"} /\ run'[r].pc = "fail" /\ UNCHANGED <<copies, reminders>>
    BY <1>5, <1>6 DEF DispatchThrows, SettleThrows, RunPC
  <2>2. Holding(r, e) \in {"offered", "delivered"} /\ Holding(r, e)' = "failing"
    BY <1>1, <1>3, <2>1 DEF Holding
  <2>3. Hold' = [Hold EXCEPT ![r][e] = "failing"]
    BY <1>3, <1>4, <2>2, HoldMoves
  <2>4. Delivery!GiveUp(r, e)
    BY <1>2, <2>1, <2>2, <2>3 DEF Delivery!GiveUp, Delivery!Proceeds, Hold, Asked
  <2> QED
    BY <2>4 DEF Delivery!DeliveryNext
<1>7. CASE ProviderAccepts(r)
  <2>1. /\ run[r].pc = "dispatch" /\ run'[r].pc = "accepted"
        /\ copies' = [copies EXCEPT ![e] = @ + 1] /\ UNCHANGED reminders
    BY <1>1, <1>5, <1>7 DEF ProviderAccepts, RunPC
  <2>2. Holding(r, e) = "offered" /\ Holding(r, e)' = "delivered"
    BY <1>1, <1>3, <2>1 DEF Holding
  <2>3. Hold' = [Hold EXCEPT ![r][e] = "delivered"]
    BY <1>3, <1>4, <2>2, HoldMoves
  <2>4. Delivery!Deliver(r, e)
    BY <1>2, <2>1, <2>2, <2>3 DEF Delivery!Deliver, Delivery!Proceeds, Hold, Asked
  <2> QED
    BY <2>4 DEF Delivery!DeliveryNext
<1>8. CASE CreateFollowUp(r)
  <2>1. /\ run[r].pc = "accepted" /\ run'[r].pc = "settle" /\ UNCHANGED copies
        /\ \/ reminders' = [reminders EXCEPT ![e] = @ + 1]
           \/ UNCHANGED reminders
    BY <1>1, <1>5, <1>8 DEF CreateFollowUp, RunPC
  <2>2. Holding(r, e) = "delivered" /\ Holding(r, e)' = "delivered"
    BY <1>1, <1>3, <2>1 DEF Holding
  <2>3. Hold' = Hold
    BY <1>3, <1>4, <2>2, HoldKept
  <2>4. reminders[e] < copies[e]
    <3>1. r \in MayRemind(e) /\ MayRemind(e) \in SUBSET Runs
      BY <1>1, <2>1 DEF MayRemind
    <3>2. IsFiniteSet(MayRemind(e)) /\ Cardinality(MayRemind(e)) \in Nat
      BY <3>1, FiniteRuns
    <3>3. Cardinality(MayRemind(e)) # 0
      BY <3>1, <3>2, FS_EmptySet
    <3> QED
      BY <3>2, <3>3 DEF RemindedPaid, TypeOK
  <2>5. CASE UNCHANGED reminders
    BY <1>2, <2>1, <2>3, <2>5 DEF Delivery!deliveryVars, Hold, Asked
  <2>6. CASE reminders' = [reminders EXCEPT ![e] = @ + 1]
    <3>1. Delivery!Remind(r, e)
      BY <1>2, <2>1, <2>2, <2>3, <2>4, <2>6 DEF Delivery!Remind, Hold, Asked
    <3> QED
      BY <3>1 DEF Delivery!DeliveryNext
  <2> QED
    BY <2>1, <2>5, <2>6
<1> QED
  BY <1>6, <1>7, <1>8

\* A run records what became of its message.
LEMMA DeliverySettles ==
    ASSUME PaidInv, NEW r \in Runs, SaveSent(r) \/ MarkFailed(r)
    PROVE  [Delivery!DeliveryNext]_(Delivery!deliveryVars)
<1> USE DEF PaidInv, RunInv
<1>1. PICK e \in Mails : e = run[r].mail
  BY DEF SaveSent, MarkFailed, BusyRun
<1>2. UNCHANGED <<copies, reminders>> /\ Asked' = Asked
  BY DEF SaveSent, MarkFailed, Asked
<1>3. /\ run'[r].pc = "next" /\ run'[r].mail = NoMail /\ run'[r].todo = run[r].todo
      /\ e \notin run[r].todo
      /\ \A q \in Runs : q # r => run'[q] = run[q]
  BY <1>1, ResumeRun DEF SaveSent, MarkFailed, TypeOK, ListedOnce
<1>4. /\ Holding(r, e)' = "none"
      /\ \A d \in Mails : d # e => Holding(r, d)' = Holding(r, d)
  BY <1>1, <1>3 DEF Holding
<1>5. Hold' = [Hold EXCEPT ![r][e] = "none"]
  BY <1>3, <1>4, HoldMoves
<1>6. \/ Holding(r, e) = "delivered" /\ status' = [status EXCEPT ![e] = "sent"]
      \/ Holding(r, e) = "failing" /\ status' = [status EXCEPT ![e] = "failed"]
  BY <1>1, <1>3 DEF SaveSent, MarkFailed, Holding
<1>7. Delivery!Settle(r, e)
  BY <1>2, <1>5, <1>6 DEF Delivery!Settle, Delivery!Proceeds, Hold, Asked
<1> QED
  BY <1>7 DEF Delivery!DeliveryNext

\* Scheduled mail implements DeliveryLedger, for any number of messages,
\* overlapping runs and faults.
THEOREM Refinement == Spec => RefinesDelivery
<1>1. Init => Delivery!DeliveryInit /\ IdleLists
  <2> SUFFICES ASSUME Init PROVE Delivery!DeliveryInit /\ IdleLists
    OBVIOUS
  <2>1. \A r \in Runs, e \in Mails : Holding(r, e) = "none"
    BY MailAssumption DEF MailAssumption, Init, IdleRun, Holding
  <2>2. Hold = [r \in Runs |-> [e \in Mails |-> "none"]] /\ Asked = {}
    BY <2>1 DEF Init, Hold, Asked
  <2> QED
    BY <2>2 DEF Init, IdleRun, IdleLists, Delivery!DeliveryInit, Hold, Asked
<1>2. PaidInv /\ IdleLists /\ [Next]_vars => IdleLists'
  BY IdleStep DEF PaidInv
<1>3. PaidInv /\ IdleLists /\ [Next]_vars => [Delivery!DeliveryNext]_(Delivery!deliveryVars)
  <2> SUFFICES ASSUME PaidInv, IdleLists, [Next]_vars
               PROVE  [Delivery!DeliveryNext]_(Delivery!deliveryVars)
    OBVIOUS
  <2>1. ListedOnce' /\ RunInv
    BY ListedOnceStep DEF PaidInv
  <2>2. ASSUME NEW r \in Runs, Progress(r) \/ RunAborts(r)
        PROVE  [Delivery!DeliveryNext]_(Delivery!deliveryVars)
    BY <2>1, <2>2, DeliveryLists, DeliveryGoes, DeliverySettles DEF Progress
  <2>3. CASE UNCHANGED vars
    BY <2>3 DEF vars, Delivery!deliveryVars, Holding
  <2> QED
    BY <2>1, <2>2, <2>3, DeliveryUser DEF Next
<1> QED
  BY <1>1, <1>2, <1>3, PaidInvariant, PTL DEF Spec, RefinesDelivery, Delivery!DeliverySpec

=============================================================================
