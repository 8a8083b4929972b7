----------------------------- MODULE SendLedger -----------------------------
(***************************************************************************)
(* What the background send pipeline promises a user, with no workers, no  *)
(* queue and no sweeper in sight.  A message handed over is pending until  *)
(* it is settled once and for all.  Copies leave only while it is pending, *)
(* it is settled as sent only if a copy left, and the user hears about it  *)
(* at most once, after it is settled, with the outcome it settled on.      *)
(***************************************************************************)
EXTENDS Naturals, Sequences

CONSTANTS
    Sends,       \* the messages
    MaxAttempts  \* copies that may ever leave for one message

VARIABLES
    ledger,      \* ledger[s]: absent, pending, sent or failed
    copies,      \* copies[s]: copies the provider accepted
    notice       \* notice[s]: the outcome events the user received

ledgerVars == <<ledger, copies, notice>>

FailureNotice == {"rejected", "unconfirmed"}

LedgerInit ==
    /\ ledger = [s \in Sends |-> "absent"]
    /\ copies = [s \in Sends |-> 0]
    /\ notice = [s \in Sends |-> <<>>]

HandOver(s) ==
    /\ ledger[s] = "absent"
    /\ ledger' = [ledger EXCEPT ![s] = "pending"]
    /\ UNCHANGED <<copies, notice>>

Transmit(s) ==
    /\ ledger[s] = "pending"
    /\ copies[s] < MaxAttempts
    /\ copies' = [copies EXCEPT ![s] = @ + 1]
    /\ UNCHANGED <<ledger, notice>>

Settle(s, outcome) ==
    /\ ledger[s] = "pending"
    /\ outcome = "sent" => copies[s] > 0
    /\ ledger' = [ledger EXCEPT ![s] = outcome]
    /\ UNCHANGED <<copies, notice>>

Notify(s) ==
    /\ notice[s] = <<>>
    /\ \/ /\ ledger[s] = "sent"
          /\ notice' = [notice EXCEPT ![s] = <<"succeeded">>]
       \/ /\ ledger[s] = "failed"
          /\ \E reason \in FailureNotice :
                notice' = [notice EXCEPT ![s] = <<reason>>]
    /\ UNCHANGED <<ledger, copies>>

LedgerNext ==
    \E s \in Sends :
        \/ HandOver(s)
        \/ Transmit(s)
        \/ \E outcome \in {"sent", "failed"} : Settle(s, outcome)
        \/ Notify(s)

LedgerSpec == LedgerInit /\ [][LedgerNext]_ledgerVars

=============================================================================
