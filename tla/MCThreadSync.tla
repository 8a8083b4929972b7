----------------------------- MODULE MCThreadSync -----------------------------
(* Instances of ThreadSync small enough for TLC. *)
EXTENDS ThreadSync, TLC

CONSTANTS j1, j2

OneJob == {j1}
TwoJobs == {j1, j2}
TwoLevels == {0, 1}
OneLevel == {1}

\* Statements of the repository that the code breaks on these instances too.

\* The sync does not override the user's archive unless a mail arrived since.
UserOpHolds ==
    [][PassSteps /\ row.userOp => row'.archived = row.archived]_vars

\* While a row is unsynced, local state is authoritative: the sync's passes
\* change neither its archive flag nor its star.
LocalIsAuthoritative ==
    [][PassSteps /\ row.sync = "unsynced" =>
          row'.archived = row.archived /\ row'.star = row.star]_vars

\* A thread that is starred on both sides keeps the level the user gave it.
LevelKept ==
    [][row.star > 0 /\ prov.starred /\ (PassSteps \/ StoreSteps) => row'.star = row.star]_vars

=============================================================================
