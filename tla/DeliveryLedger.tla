---------------------------- MODULE DeliveryLedger ----------------------------
(***************************************************************************)
(* What scheduled mail promises a user, with no lists and no statements in *)
(* sight.  A message is handed out to a run only while its record says     *)
(* pending.  A run that was handed a message sends it once at most, and    *)
(* records it as sent only if it did.  Reminders never outnumber copies.   *)
(* A cancellation is recorded only if it was asked for while the message   *)
(* was pending; it does not call back what was handed out by then.         *)
(***************************************************************************)
EXTENDS Naturals

CONSTANTS
    Mails,      \* scheduled messages
    Runs        \* those who may be handed a message

VARIABLES
    record,     \* record[e]: absent, pending, sent, cancelled, failed
    asked,      \* messages whose cancellation is under way
    hold,       \* hold[r][e]: how far r is with e
    copies,     \* copies of each message that left
    reminders   \* reminders created for each message

deliveryVars == <<record, asked, hold, copies, reminders>>

DeliveryInit ==
    /\ record = [e \in Mails |-> "absent"]
    /\ asked = {}
    /\ hold = [r \in Runs |-> [e \in Mails |-> "none"]]
    /\ copies = [e \in Mails |-> 0]
    /\ reminders = [e \in Mails |-> 0]

Schedule(e) ==
    /\ record[e] = "absent"
    /\ record' = [record EXCEPT ![e] = "pending"]
    /\ UNCHANGED <<asked, hold, copies, reminders>>

Ask(e) ==
    /\ record[e] = "pending"
    /\ asked' = asked \cup {e}
    /\ UNCHANGED <<record, hold, copies, reminders>>

Cancel(e) ==
    /\ e \in asked
    /\ asked' = asked \ {e}
    /\ record' = [record EXCEPT ![e] = "cancelled"]
    /\ UNCHANGED <<hold, copies, reminders>>

Desist(e) ==
    /\ e \in asked
    /\ asked' = asked \ {e}
    /\ UNCHANGED <<record, hold, copies, reminders>>

Nothing == [e \in Mails |-> "none"]

HandOut(r, mails) ==
    /\ hold[r] = Nothing
    /\ \A e \in mails : record[e] = "pending"
    /\ hold' = [hold EXCEPT ![r] = [e \in Mails |-> IF e \in mails THEN "offered" ELSE "none"]]
    /\ UNCHANGED <<record, asked, copies, reminders>>

Proceeds(r, e, from, to) ==
    /\ hold[r][e] = from
    /\ hold' = [hold EXCEPT ![r][e] = to]

Deliver(r, e) ==
    /\ Proceeds(r, e, "offered", "delivered")
    /\ copies' = [copies EXCEPT ![e] = @ + 1]
    /\ UNCHANGED <<record, asked, reminders>>

Remind(r, e) ==
    /\ hold[r][e] = "delivered"
    /\ reminders[e] < copies[e]
    /\ reminders' = [reminders EXCEPT ![e] = @ + 1]
    /\ UNCHANGED <<record, asked, hold, copies>>

GiveUp(r, e) ==
    /\ Proceeds(r, e, "offered", "failing") \/ Proceeds(r, e, "delivered", "failing")
    /\ UNCHANGED <<record, asked, copies, reminders>>

Settle(r, e) ==
    /\ \/ Proceeds(r, e, "delivered", "none") /\ record' = [record EXCEPT ![e] = "sent"]
       \/ Proceeds(r, e, "failing", "none") /\ record' = [record EXCEPT ![e] = "failed"]
    /\ UNCHANGED <<asked, copies, reminders>>

Drop(r) ==
    /\ hold' = [hold EXCEPT ![r] = Nothing]
    /\ UNCHANGED <<record, asked, copies, reminders>>

DeliveryNext ==
    \/ \E e \in Mails : Schedule(e) \/ Ask(e) \/ Cancel(e) \/ Desist(e)
    \/ \E r \in Runs : Drop(r) \/ \E mails \in SUBSET Mails : HandOut(r, mails)
    \/ \E r \in Runs, e \in Mails : Deliver(r, e) \/ Remind(r, e) \/ GiveUp(r, e) \/ Settle(r, e)

DeliverySpec == DeliveryInit /\ [][DeliveryNext]_deliveryVars

=============================================================================
