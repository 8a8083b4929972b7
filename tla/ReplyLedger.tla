----------------------------- MODULE ReplyLedger -----------------------------
(***************************************************************************)
(* What automatic replies promise a correspondent, with no jobs, handlers  *)
(* or statements in sight.  An attempt closes an open thread and sends one *)
(* reply at most; one that came to nothing may open the thread again.      *)
(* Whoever saves an old copy of the thread opens or closes it too, and     *)
(* each time it is opened so is on the account: a thread has one confirmed *)
(* reply, and one more at most for each.  Only what was confirmed is       *)
(* written into the mailbox, the log and the sync's guard.                 *)
(***************************************************************************)
EXTENDS Naturals

CONSTANTS
    Threads,    \* email threads
    NoThread,   \* no thread
    Attempts    \* attempts at a reply that can be under way at once

VARIABLES
    open,       \* threads that may be attempted
    attempt,    \* the attempts: none, reserved before its reply, over after it
    confirmed,  \* replies of each thread the provider confirmed
    doubtful,   \* replies of each thread that left unconfirmed
    erased,     \* saves that opened each thread
    stored,     \* threads whose confirmed reply is in the mailbox
    log,        \* threads whose reply is logged
    guarded     \* threads the sync is told to leave alone

ledgerVars == <<open, attempt, confirmed, doubtful, erased, stored, log, guarded>>

sent == <<confirmed, doubtful>>

written == <<stored, log, guarded>>

NoAttempt == [phase |-> "none", thread |-> NoThread]

LedgerInit ==
    /\ open = Threads
    /\ attempt = [a \in Attempts |-> NoAttempt]
    /\ confirmed = [t \in Threads |-> 0]
    /\ doubtful = [t \in Threads |-> 0]
    /\ erased = [t \in Threads |-> 0]
    /\ stored = {} /\ log = {} /\ guarded = {}

Reserve(a, t) ==
    /\ attempt[a] = NoAttempt
    /\ t \in open
    /\ open' = open \ {t}
    /\ attempt' = [attempt EXCEPT ![a] = [phase |-> "reserved", thread |-> t]]
    /\ UNCHANGED <<sent, erased, written>>

Answer(a) ==
    LET t == attempt[a].thread IN
    /\ attempt[a].phase = "reserved"
    /\ confirmed[t] <= erased[t]
    /\ attempt' = [attempt EXCEPT ![a] = NoAttempt]
    /\ confirmed' = [confirmed EXCEPT ![t] = @ + 1]
    /\ UNCHANGED <<open, doubtful, erased, written>>

\* The provider refused, or the reply left and nobody knows.
ComesToNothing(a) ==
    LET t == attempt[a].thread IN
    /\ attempt[a].phase = "reserved"
    /\ attempt' = [attempt EXCEPT ![a].phase = "over"]
    /\ doubtful' \in {doubtful, [doubtful EXCEPT ![t] = @ + 1]}
    /\ UNCHANGED <<open, confirmed, erased, written>>

GiveBack(a) ==
    /\ attempt[a].phase = "over"
    /\ attempt' = [attempt EXCEPT ![a] = NoAttempt]
    /\ open' = open \cup {attempt[a].thread}
    /\ UNCHANGED <<sent, erased, written>>

\* The attempt dies, its thread stays closed.
Abandon(a) ==
    /\ attempt[a] # NoAttempt
    /\ attempt' = [attempt EXCEPT ![a] = NoAttempt]
    /\ UNCHANGED <<open, sent, erased, written>>

Write(t) ==
    /\ confirmed[t] > 0
    /\ stored' \in {stored, stored \cup {t}}
    /\ log' \in {log, log \cup {t}}
    /\ guarded' \in {guarded, guarded \cup {t}}
    /\ UNCHANGED <<open, attempt, sent, erased>>

\* An old copy of the thread is saved.
Overwrite(t) ==
    /\ \/ open' = open \ {t} /\ UNCHANGED erased
       \/ /\ open' = open \cup {t}
          /\ erased' = IF t \in open THEN erased ELSE [erased EXCEPT ![t] = @ + 1]
    /\ \/ guarded' = guarded \ {t}
       \/ confirmed[t] > 0 /\ guarded' = guarded \cup {t}
    /\ UNCHANGED <<attempt, sent, stored, log>>

LedgerNext ==
    \/ \E a \in Attempts, t \in Threads : Reserve(a, t)
    \/ \E a \in Attempts : Answer(a) \/ ComesToNothing(a) \/ GiveBack(a) \/ Abandon(a)
    \/ \E t \in Threads : Write(t) \/ Overwrite(t)

LedgerSpec == LedgerInit /\ [][LedgerNext]_ledgerVars

=============================================================================
