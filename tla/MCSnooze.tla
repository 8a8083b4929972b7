------------------------------- MODULE MCSnooze -------------------------------
(* Instances of Snooze small enough for TLC. *)
EXTENDS Snooze, TLC

CONSTANTS m1, m2, r1, r2, w1, w2

OneMail == {m1}
TwoMails == {m1, m2}
OneRequest == {r1}
TwoRequests == {r1, r2}
OneWorker == {w1}
TwoWorkers == {w1, w2}

\* Statements of the repository that the code breaks on these instances.

\* A snooze lasts until its own moment: the unsnooze job is for expired ones.
SnoozeKept ==
    [][(\E w \in Workers : WorkerSteps(w)) /\ until \notin passed => until' = until]_vars

\* The label hides the thread until its snooze ends (email-provider.interface.ts).
LabelEnds == <>[](labelled => until # 0)

=============================================================================
