-------------------------- MODULE MCScheduledEmails --------------------------
(* Instances of ScheduledEmails small enough for TLC. *)
EXTENDS ScheduledEmails, TLC

CONSTANTS e1, e2, r1, r2

OneMail == {e1}
TwoMails == {e1, e2}
OneRun == {r1}
TwoRuns == {r1, r2}

Interchangeable == Permutations(Runs)

\* Statements of the repository that the code breaks on these instances too.

\* Only a pending message can be cancelled (cancelScheduledEmail's check).
CancelOnlyPending ==
    [][\A e \in Mails : status[e] # "cancelled" /\ status'[e] = "cancelled" =>
          status[e] = "pending"]_vars

\* A message marked failed was not sent (the errorMessage column's comment).
FailedMeansUnsent == \A e \in Mails : status[e] = "failed" => copies[e] = 0

=============================================================================
