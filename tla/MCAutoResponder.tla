--------------------------- MODULE MCAutoResponder ---------------------------
(* Instances of AutoResponder small enough for TLC. *)
EXTENDS AutoResponder, TLC

CONSTANTS t1, t2, s1, h1, h2, k1, k2, j1, j2

OneThread == {t1}
TwoThreads == {t1, t2}
OneSender == {s1}
OneHandler == {h1}
TwoHandlers == {h1, h2}
OneSaver == {k1}
TwoSavers == {k1, k2}
TwoJobs == {j1, j2}
SameSender == [t \in Threads |-> s1]

Interchangeable == Permutations(Handlers) \cup Permutations(Jobs)

\* Statements of the repository that the code breaks on these instances too.

\* "Set only while NULL, so two concurrent jobs can't both reply to one thread":
\* once the provider confirmed a reply, the thread is never answered again.
ConfirmedIsLast ==
    [][\A t \in Threads : confirmed[t] > 0 =>
          confirmed'[t] = confirmed[t] /\ doubtful'[t] = doubtful[t]]_vars

\* A failed send's claim is given back, and the thread can be answered later.
ClaimSettlesAlways ==
    \A t \in Threads : t \in claim ~> (t \notin claim \/ confirmed[t] > 0 \/ faults > 0)

\* The same sender is not answered twice within cooldownPeriodDays.
CooldownRespected ==
    \A s \in Senders :
        Cardinality({t \in Threads : SenderOf[t] = s /\ confirmed[t] > 0}) <= 1 + lapses[s]

\* The reply is stored once, whether the sync or the handler comes first.
StoredOnce == \A t \in Threads : stored[t] # "duplicate"

=============================================================================
