-------------------------- MODULE MCEmailSendQueue --------------------------
(* Instances of EmailSendQueue small enough for TLC. *)
EXTENDS EmailSendQueue, TLC

CONSTANTS s1, s2, h1, h2, j1, j2, k1, k2

OneSend == {s1}
TwoSends == {s1, s2}
OneHandler == {h1}
TwoHandlers == {h1, h2}
TwoJobs == {j1, j2}
OneSweeper == {k1}
TwoSweepers == {k1, k2}
NoSends == {}

Interchangeable ==
    Permutations(Handlers) \cup Permutations(Jobs) \cup Permutations(Sweepers)

\* Statements of the repository that the code breaks on these instances too.

\* A duplicate or retried job must never put a second copy of the message on the
\* wire (handleSend): the retry of a send that failed after the acceptance does.
AtMostOneCopy == \A s \in Sends : wire[s] <= 1

\* Every attempt ends in exactly one outcome event (EmailSendProcessor).
EverySendIsTold ==
    \A s \in Sends : row[s].status = "queued" ~> told[s] # <<>>

\* SENT and FAILED are documented as terminal (email-send.constants.ts).
TerminalIsFinal ==
    [][\A s \in Sends : row[s].status \in {"sent", "failed"} =>
          row'[s].status = row[s].status]_vars

\* One job per attempt row: a duplicate enqueue is collapsed (enqueueJob).
OneJobPerSend ==
    \A i, j \in Jobs : job[i].state # "free" /\ job[i].key = job[j].key => i = j

=============================================================================
