------------------------- MODULE MCContextAnalysis -------------------------
(* Instances of ContextAnalysis small enough for TLC. *)
EXTENDS ContextAnalysis, TLC

CONSTANTS b1, b2, w1, w2

OneBatch == {b1}
TwoBatches == {b1, b2}
TwoWorkers == {w1, w2}

Interchangeable == Permutations(TwoBatches) \cup Permutations(TwoWorkers)

\* Statements of the repository that the code breaks on these instances too.

\* "once all batches are confirmed complete": nothing is finalised while a
\* batch has no outcome yet.  Batch failures break it.
FinalizesWhenAllDone ==
    \A w \in Workers :
        At(w, "complete") /\ ~overwritten => Stored(worker[w].copy) = Batches

=============================================================================
