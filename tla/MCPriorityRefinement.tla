---------------------- MODULE MCPriorityRefinement ----------------------
(* Instances of PriorityRefinement small enough for TLC. *)
EXTENDS PriorityRefinement, TLC

CONSTANTS w1, w2

OneWorker == {w1}
TwoWorkers == {w1, w2}

\* Statements of the repository that the code breaks on these instances too.

\* "A safety net": every thread that is left behind is found in the end, however
\* many others there are.
EveryThreadEnds == <>[]Ended

\* "This makes the recovery reliable": the flag does not stay on.
FlagGoesOff == []<>~row.processing

\* "Each email is allowed at most MAX_PRIORITY_RETRIES attempts".
RetriesWithinLimit == row.retries <= MaxRetries

\* A stored analysis is replaced, never lost.
AnalysisHolds == [][row.scored => row'.scored]_vars

=============================================================================
