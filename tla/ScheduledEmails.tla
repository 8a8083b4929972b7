--------------------------- MODULE ScheduledEmails ---------------------------
(***************************************************************************)
(* Scheduled mail (scheduled-emails.service.ts): the user schedules and    *)
(* cancels messages, and a cron job polled by several workers sends what   *)
(* is due.  A run lists the due messages once and works through the list;  *)
(* no message is claimed, so runs that overlap and cancellations that      *)
(* arrive meanwhile interleave with every statement of a run.              *)
(***************************************************************************)
EXTENDS Naturals, FiniteSets

CONSTANTS
    Mails,      \* scheduled_emails rows that can be created
    NewMails,   \* those composed as new mail with a follow-up window
    NoMail,     \* no row
    Runs,       \* runs of send-scheduled-emails that may overlap
    MaxFaults   \* crashes and database errors (bound)

ASSUME MailAssumption ==
    /\ NewMails \subseteq Mails
    /\ NoMail \notin Mails
    /\ IsFiniteSet(Runs)
    /\ MaxFaults \in Nat

VARIABLES
    status,     \* scheduled_emails.status
    due,        \* rows whose scheduledSendAt has come
    cancel,     \* the user's cancellation request of each row
    run,        \* the runs of sendDueEmails
    copies,     \* copies of each message the provider accepted
    reminders,  \* follow-ups created for each message
    faults      \* crashes and database errors so far

vars == <<status, due, cancel, run, copies, reminders, faults>>

Status == {"absent", "pending", "sent", "cancelled", "failed"}

Settled == {"sent", "cancelled", "failed"}

CancelState == {"none", "checked", "confirmed", "refused"}

RunPC == {"idle", "next", "dispatch", "accepted", "settle", "fail"}

Run == [pc: RunPC, todo: SUBSET Mails, mail: Mails \cup {NoMail}]

IdleRun == [pc |-> "idle", todo |-> {}, mail |-> NoMail]

Init ==
    /\ status = [e \in Mails |-> "absent"]
    /\ due = {}
    /\ cancel = [e \in Mails |-> "none"]
    /\ run = [r \in Runs |-> IdleRun]
    /\ copies = [e \in Mails |-> 0]
    /\ reminders = [e \in Mails |-> 0]
    /\ faults = 0

Fault == faults < MaxFaults /\ faults' = faults + 1

Goto(r, pc) == run' = [run EXCEPT ![r].pc = pc]

\* On to the next message of the list.
Resume(r) == run' = [run EXCEPT ![r] = [pc |-> "next", todo |-> run[r].todo, mail |-> NoMail]]

\* A run that listed a message and has not settled it may still send it.
Listed(e) == \E r \in Runs : e \in run[r].todo \/ run[r].mail = e

(***************************************************************************)
(* The user                                                                *)
(***************************************************************************)

\* Mutant: the row is created with a status the sender does not look for.
ScheduleUnderOtherName(e) ==
    /\ status[e] = "absent"
    /\ status' = [status EXCEPT ![e] = "scheduled"]
    /\ UNCHANGED <<due, cancel, run, copies, reminders, faults>>

ScheduleEmail(e) ==
    /\ status[e] = "absent"
    /\ status' = [status EXCEPT ![e] = "pending"]
    /\ UNCHANGED <<due, cancel, run, copies, reminders, faults>>

\* The clock reaches scheduledSendAt.
BecomeDue(e) ==
    /\ status[e] # "absent"
    /\ e \notin due
    /\ due' = due \cup {e}
    /\ UNCHANGED <<status, cancel, run, copies, reminders, faults>>

\* cancelScheduledEmail reads the row and checks that it is pending ...
CancelChecks(e) ==
    /\ cancel[e] \in {"none", "refused"}
    /\ status[e] # "absent"
    /\ cancel' = [cancel EXCEPT ![e] = IF status[e] = "pending" THEN "checked" ELSE "refused"]
    /\ UNCHANGED <<status, due, run, copies, reminders, faults>>

\* ... and then saves the entity it read, whatever the row says by now.
CancelSaves(e) ==
    /\ cancel[e] = "checked"
    /\ status' = [status EXCEPT ![e] = "cancelled"]
    /\ cancel' = [cancel EXCEPT ![e] = "confirmed"]
    /\ UNCHANGED <<due, run, copies, reminders, faults>>

CancelThrows(e) ==
    /\ cancel[e] = "checked"
    /\ Fault
    /\ cancel' = [cancel EXCEPT ![e] = "none"]
    /\ UNCHANGED <<status, due, run, copies, reminders>>

(***************************************************************************)
(* The cron job: sendDueEmails                                             *)
(***************************************************************************)

\* Mutant: the list is not restricted to pending rows.
FindAllDue(r) ==
    /\ run[r].pc = "idle"
    /\ run' = [run EXCEPT ![r] = [pc |-> "next", todo |-> due, mail |-> NoMail]]
    /\ UNCHANGED <<status, due, cancel, copies, reminders, faults>>

FindDue(r) ==
    /\ run[r].pc = "idle"
    /\ run' = [run EXCEPT ![r] = [pc |-> "next",
                                  todo |-> {e \in due : status[e] = "pending"},
                                  mail |-> NoMail]]
    /\ UNCHANGED <<status, due, cancel, copies, reminders, faults>>

\* The findOne of the next row, whose status is not looked at again.
Hydrate(r) ==
    /\ run[r].pc = "next"
    /\ \E e \in run[r].todo :
          run' = [run EXCEPT ![r] = [pc |-> "dispatch", todo |-> run[r].todo \ {e}, mail |-> e]]
    /\ UNCHANGED <<status, due, cancel, copies, reminders, faults>>

\* Mutant: a failed dispatch is skipped and its row left as it is.
DispatchSkipped(r) ==
    /\ run[r].pc = "dispatch"
    /\ run' = [run EXCEPT ![r] = [pc |-> "next", todo |-> run[r].todo, mail |-> NoMail]]
    /\ UNCHANGED <<status, due, cancel, copies, reminders, faults>>

\* withUserKey, a missing source email or provider, or the provider itself.
DispatchThrows(r) ==
    /\ run[r].pc = "dispatch"
    /\ Goto(r, "fail")
    /\ UNCHANGED <<status, due, cancel, copies, reminders, faults>>

ProviderAccepts(r) ==
    /\ run[r].pc = "dispatch"
    /\ copies' = [copies EXCEPT ![run[r].mail] = @ + 1]
    /\ Goto(r, "accepted")
    /\ UNCHANGED <<status, due, cancel, reminders, faults>>

\* sendScheduledNewEmail asks for a follow-up; its failure is only logged.
CreateFollowUp(r) ==
    /\ run[r].pc = "accepted"
    /\ \/ /\ run[r].mail \in NewMails
          /\ reminders' = [reminders EXCEPT ![run[r].mail] = @ + 1]
       \/ UNCHANGED reminders
    /\ Goto(r, "settle")
    /\ UNCHANGED <<status, due, cancel, copies, faults>>

\* Counting a recipient's contact frequency, or saving the row, throws.
SettleThrows(r) ==
    /\ run[r].pc = "settle"
    /\ Goto(r, "fail")
    /\ UNCHANGED <<status, due, cancel, copies, reminders, faults>>

\* The hydrated entity is saved as sent, over whatever the row says by now.
SaveSent(r) ==
    /\ run[r].pc = "settle"
    /\ status' = [status EXCEPT ![run[r].mail] = "sent"]
    /\ Resume(r)
    /\ UNCHANGED <<due, cancel, copies, reminders, faults>>

\* Mutant: a failed message stays pending to be tried again.
MarkRetry(r) ==
    /\ run[r].pc = "fail"
    /\ status' = [status EXCEPT ![run[r].mail] = "pending"]
    /\ Resume(r)
    /\ UNCHANGED <<due, cancel, copies, reminders, faults>>

MarkFailed(r) ==
    /\ run[r].pc = "fail"
    /\ status' = [status EXCEPT ![run[r].mail] = "failed"]
    /\ Resume(r)
    /\ UNCHANGED <<due, cancel, copies, reminders, faults>>

RunDone(r) ==
    /\ run[r].pc = "next"
    /\ run[r].todo = {}
    /\ run' = [run EXCEPT ![r] = IdleRun]
    /\ UNCHANGED <<status, due, cancel, copies, reminders, faults>>

\* The worker dies, or the failure UPDATE throws out of the loop.
RunAborts(r) ==
    /\ run[r].pc # "idle"
    /\ Fault
    /\ run' = [run EXCEPT ![r] = IdleRun]
    /\ UNCHANGED <<status, due, cancel, copies, reminders>>

(***************************************************************************)
(* The specification                                                       *)
(***************************************************************************)

User(e) == ScheduleEmail(e) \/ CancelChecks(e) \/ CancelSaves(e) \/ CancelThrows(e)

Progress(r) ==
    \/ FindDue(r) \/ Hydrate(r) \/ DispatchThrows(r) \/ ProviderAccepts(r)
    \/ CreateFollowUp(r) \/ SettleThrows(r) \/ SaveSent(r) \/ MarkFailed(r) \/ RunDone(r)

Next ==
    \/ \E e \in Mails : User(e) \/ BecomeDue(e)
    \/ \E r \in Runs : Progress(r) \/ RunAborts(r)

Spec == Init /\ [][Next]_vars

\* The cron keeps firing, a live run keeps running, the clock advances.
FairSpec ==
    /\ Spec
    /\ \A e \in Mails : WF_vars(BecomeDue(e))
    /\ \A r \in Runs : WF_vars(Progress(r))

(***************************************************************************)
(* Properties                                                              *)
(***************************************************************************)

TypeOK ==
    /\ status \in [Mails -> Status]
    /\ due \subseteq Mails
    /\ cancel \in [Mails -> CancelState]
    /\ run \in [Runs -> Run]
    /\ copies \in [Mails -> Nat]
    /\ reminders \in [Mails -> Nat]
    /\ faults \in 0..MaxFaults

\* Every copy beyond the first is paid for: by an overlapping run that listed
\* the message too, or by a fault that kept its status from being written; and
\* however often it is sent, no reminder is created that no copy stands behind.
CopiesArePaidFor ==
    \A e \in Mails : reminders[e] <= copies[e] /\ copies[e] <= Cardinality(Runs) + faults

\* Once a message is settled and no run has it on its list, it is closed for
\* good: no later run lists it and nothing sends it again.  In particular a
\* cancellation confirmed before any run listed the message always holds.
Closed(e) == status[e] \in Settled /\ ~Listed(e)

ClosedStaysClosed ==
    [][\A e \in Mails : Closed(e) => Closed(e)' /\ copies'[e] = copies[e]]_vars

\* A due message is not forgotten: it is sent, cancelled or failed, although
\* runs crash and other messages fail in front of it.
DueIsSettled == \A e \in Mails : status[e] = "pending" ~> status[e] \in Settled

\* Whatever overlaps, fails or is cancelled late, scheduled mail keeps the
\* promises of DeliveryLedger: nothing but a pending message is handed to a
\* run, a run sends what it was handed once at most, and what is recorded as
\* sent, reminded of or cancelled was sent, sent and asked for in time.
Holding(r, e) ==
    CASE e \in run[r].todo -> "offered"
      [] run[r].mail = e /\ run[r].pc = "dispatch" -> "offered"
      [] run[r].mail = e /\ run[r].pc \in {"accepted", "settle"} -> "delivered"
      [] run[r].mail = e /\ run[r].pc = "fail" -> "failing"
      [] OTHER -> "none"

Delivery == INSTANCE DeliveryLedger WITH
    record <- status,
    asked <- {e \in Mails : cancel[e] = "checked"},
    hold <- [r \in Runs |-> [e \in Mails |-> Holding(r, e)]]

RefinesDelivery == Delivery!DeliverySpec

=============================================================================
