--------------------------- MODULE ContextAnalysis ---------------------------
(***************************************************************************)
(* One context analysis: the request that starts it, the job that samples  *)
(* threads and hands out discovery batches, the batch jobs that merge what *)
(* they found into the analysis row, the finaliser that polls the row, the *)
(* client's progress poll that re-queues missing batches, the cleanup cron *)
(* and a newer analysis that supersedes this one.                          *)
(*                                                                         *)
(* Everything meets in one row.  Most writers read it, change their copy   *)
(* and save all of it (repository.save writes every column that differs),  *)
(* so a copy is part of a handler's state here.  Thread counts, progress   *)
(* percentages, job ids and texts are left out; a handler has been stopped *)
(* by the time its job is given to another worker.                         *)
(***************************************************************************)
EXTENDS Naturals, FiniteSets

CONSTANTS
    Batches,     \* the batches of the analysis
    NoBatch,     \* the batch of a handler that has none
    Workers,     \* job handlers that run at once
    MaxRequeues, \* MAX_FINALIZATION_RETRIES
    MaxReady,    \* jobs waiting for one batch, or one attempt (bound)
    MaxPolls,    \* progress polls that find something missing (bound)
    MaxFaults    \* handlers and statements that fail (bound)

ASSUME ContextAnalysisAssumption ==
    /\ IsFiniteSet(Batches) /\ Batches # {}
    /\ NoBatch \notin Batches
    /\ {MaxRequeues, MaxReady, MaxPolls, MaxFaults} \subseteq Nat
    /\ MaxReady > 0

VARIABLES
    row,         \* the context_analyses row
    aged,        \* updatedAt is an hour old
    ready,       \* jobs waiting in the three queues
    window,      \* a finaliser was sent: its singletonSeconds window may be taken
    start,       \* the request: where it is
    worker,      \* the handlers
    poll,        \* the progress poll
    cleanup,     \* the cron holds this analysis in its list of stuck ones
    polls, faults,
    overwritten, \* history: a write has put an outcome back to nothing
    erred        \* history: a batch has been recorded as failed

vars == <<row, aged, ready, window, start, worker, poll, cleanup, polls, faults,
          overwritten, erred>>

(***************************************************************************)
(* Types                                                                   *)
(***************************************************************************)

Outcome == {"none", "found", "error"}

\* planned: stats.totalBatches and stats.batchPayloadsForRetry are set.
Row == [status: {"none", "running", "completed", "failed"}, total: BOOLEAN,
        payloads: BOOLEAN, results: [Batches -> Outcome], failedBatches: SUBSET Batches]

NoRow == [status |-> "none", total |-> FALSE, payloads |-> FALSE,
          results |-> [b \in Batches |-> "none"], failedBatches |-> {}]

Attempts == 0..MaxRequeues

Ready == [analyze: 0..1, batch: [Batches -> 0..MaxReady], finalize: [Attempts -> 0..MaxReady]]

Worker == [pc: {"idle", "init", "sample", "list", "reset", "enqueue", "persist", "finalizer",
                "read", "store", "check", "requeue", "gather", "complete", "done"},
           kind: {"none", "analyze", "batch", "finalize"}, batch: Batches \cup {NoBatch},
           attempt: Attempts, outcome: Outcome, copy: Row]

Idle == [pc |-> "idle", kind |-> "none", batch |-> NoBatch, attempt |-> 0,
         outcome |-> "none", copy |-> NoRow]

Poll == [pc: {"idle", "enqueue", "write"}, copy: Row]

NoPoll == [pc |-> "idle", copy |-> NoRow]

Init ==
    /\ row = NoRow /\ aged = FALSE
    /\ ready = [analyze |-> 0, batch |-> [b \in Batches |-> 0],
                finalize |-> [n \in Attempts |-> 0]]
    /\ window = FALSE
    /\ start = "none"
    /\ worker = [w \in Workers |-> Idle]
    /\ poll = NoPoll
    /\ cleanup = FALSE
    /\ polls = 0 /\ faults = 0
    /\ overwritten = FALSE /\ erred = FALSE

(***************************************************************************)
(* The row                                                                 *)
(***************************************************************************)

Stored(r) == {b \in Batches : r.results[b] # "none"}

\* Any write: updatedAt is now, and the histories look at what it changed.
Write(new) ==
    /\ row' = new
    /\ aged' = FALSE
    /\ overwritten' = (overwritten \/ ~(Stored(row) \subseteq Stored(new)))
    /\ erred' = (erred \/ \E b \in Batches : new.results[b] = "error")

NoWrite == UNCHANGED <<row, aged, overwritten, erred>>

Fault == faults < MaxFaults /\ faults' = faults + 1

(***************************************************************************)
(* startAnalysis                                                           *)
(***************************************************************************)

\* Mutant: the insert leaves the status to the column's default.
StartInsertsDefault ==
    /\ start = "none"
    /\ Write([NoRow EXCEPT !.status = "pending"])
    /\ start' = "inserted"
    /\ UNCHANGED <<ready, window, worker, poll, cleanup, polls, faults>>

StartInserts ==
    /\ start = "none"
    /\ Write([NoRow EXCEPT !.status = "running"])
    /\ start' = "inserted"
    /\ UNCHANGED <<ready, window, worker, poll, cleanup, polls, faults>>

StartSends ==
    /\ start = "inserted"
    /\ ready' = [ready EXCEPT !.analyze = 1]
    /\ start' = "over"
    /\ NoWrite
    /\ UNCHANGED <<window, worker, poll, cleanup, polls, faults>>

\* The queue refuses the job: the row is marked failed.
StartFails ==
    /\ start = "inserted"
    /\ Fault
    /\ Write([row EXCEPT !.status = "failed"])
    /\ start' = "over"
    /\ UNCHANGED <<ready, window, worker, poll, cleanup, polls>>

\* The server stops between the insert and the send.
StartDies ==
    /\ start = "inserted"
    /\ Fault
    /\ start' = "over"
    /\ NoWrite
    /\ UNCHANGED <<ready, window, worker, poll, cleanup, polls>>

\* A newer analysis of the user: UPDATE ... WHERE status = 'running'.
Superseded ==
    /\ row.status = "running"
    /\ Fault
    /\ Write([row EXCEPT !.status = "failed"])
    /\ UNCHANGED <<ready, window, start, worker, poll, cleanup, polls>>

(***************************************************************************)
(* Handlers                                                                *)
(***************************************************************************)

At(w, pc) == worker[w].pc = pc

Goto(w, pc) == worker' = [worker EXCEPT ![w].pc = pc]

\* The handler goes on at pc with r as its copy of the row.
Hold(w, pc, r) == worker' = [worker EXCEPT ![w].pc = pc, ![w].copy = r]

\* The handler has done its work and forgets its copy.
Done(w) == worker' = [worker EXCEPT ![w].pc = "done", ![w].copy = NoRow, ![w].outcome = "none"]

\* It saves its copy.
Save(w, pc, r) == Hold(w, pc, r) /\ Write(r)

FetchAnalyze(w) ==
    /\ At(w, "idle") /\ ready.analyze > 0
    /\ ready' = [ready EXCEPT !.analyze = 0]
    /\ worker' = [worker EXCEPT ![w].pc = "init", ![w].kind = "analyze"]

FetchBatch(w, b) ==
    /\ At(w, "idle") /\ ready.batch[b] > 0
    /\ ready' = [ready EXCEPT !.batch[b] = @ - 1]
    /\ worker' = [worker EXCEPT ![w].pc = "read", ![w].kind = "batch", ![w].batch = b]

FetchFinalize(w, n) ==
    /\ At(w, "idle") /\ ready.finalize[n] > 0
    /\ ready' = [ready EXCEPT !.finalize[n] = @ - 1]
    /\ worker' = [worker EXCEPT ![w].pc = "check", ![w].kind = "finalize", ![w].attempt = n]

Fetch(w) ==
    /\ \/ FetchAnalyze(w)
       \/ \E b \in Batches : FetchBatch(w, b)
       \/ \E n \in Attempts : FetchFinalize(w, n)
    /\ NoWrite
    /\ UNCHANGED <<window, start, poll, cleanup, polls, faults>>

Completes(w) ==
    /\ At(w, "done")
    /\ worker' = [worker EXCEPT ![w] = Idle]
    /\ NoWrite
    /\ UNCHANGED <<ready, window, start, poll, cleanup, polls, faults>>

\* The queue after a handler's job failed: it is retried if a retry is left.
Returned(w) ==
    \/ UNCHANGED ready
    \/ /\ worker[w].kind = "analyze"
       /\ ready' = [ready EXCEPT !.analyze = 1]
    \/ /\ worker[w].kind = "batch" /\ ready.batch[worker[w].batch] < MaxReady
       /\ ready' = [ready EXCEPT !.batch[worker[w].batch] = @ + 1]
    \/ /\ worker[w].kind = "finalize" /\ ready.finalize[worker[w].attempt] < MaxReady
       /\ ready' = [ready EXCEPT !.finalize[worker[w].attempt] = @ + 1]

\* A finaliser or batch handler throws, or any handler's process stops.
Dies(w) ==
    /\ ~At(w, "idle")
    /\ Fault
    /\ Returned(w)
    /\ worker' = [worker EXCEPT ![w] = Idle]
    /\ NoWrite
    /\ UNCHANGED <<window, start, poll, cleanup, polls>>

(***************************************************************************)
(* analyzeAndLearnFromEmails                                               *)
(***************************************************************************)

InitializeRecord(w) ==
    /\ At(w, "init")
    /\ Hold(w, "sample", row)
    /\ NoWrite
    /\ UNCHANGED <<ready, window, start, poll, cleanup, polls, faults>>

\* fetchingStatus is saved before the mailbox is listed.
Samples(w) ==
    /\ At(w, "sample")
    /\ Save(w, "list", worker[w].copy)
    /\ UNCHANGED <<ready, window, start, poll, cleanup, polls, faults>>

Lists(w) ==
    /\ At(w, "list")
    /\ Save(w, "reset", worker[w].copy)
    /\ UNCHANGED <<ready, window, start, poll, cleanup, polls, faults>>

\* completeWithNoThreads
NoThreads(w) ==
    /\ At(w, "reset")
    /\ Write([worker[w].copy EXCEPT !.status = "completed"])
    /\ Done(w)
    /\ UNCHANGED <<ready, window, start, poll, cleanup, polls, faults>>

ResetStats(w) ==
    /\ At(w, "reset")
    /\ Save(w, "enqueue", [NoRow EXCEPT !.status = worker[w].copy.status])
    /\ UNCHANGED <<ready, window, start, poll, cleanup, polls, faults>>

\* buildAndQueueDiscoveryBatches: a send that fails is recorded and skipped.
EnqueueBatches(w) ==
    /\ At(w, "enqueue")
    /\ \E sent \in (SUBSET Batches) \ {{}} :
        /\ \A b \in sent : ready.batch[b] < MaxReady
        /\ IF sent = Batches THEN UNCHANGED faults ELSE Fault
        /\ ready' = [ready EXCEPT !.batch = [b \in Batches |->
                        @[b] + IF b \in sent THEN 1 ELSE 0]]
    /\ Goto(w, "persist")
    /\ NoWrite
    /\ UNCHANGED <<window, start, poll, cleanup, polls>>

PersistBatchState(w) ==
    /\ At(w, "persist")
    /\ Save(w, "finalizer", [worker[w].copy EXCEPT !.total = TRUE, !.payloads = TRUE])
    /\ UNCHANGED <<ready, window, start, poll, cleanup, polls, faults>>

\* Within the hour of an earlier send the queue drops the job; by the clock,
\* that hour may be over.
QueueFinalization(w) ==
    /\ At(w, "finalizer")
    /\ ready.finalize[0] < MaxReady
    /\ \/ window /\ UNCHANGED ready
       \/ ready' = [ready EXCEPT !.finalize[0] = @ + 1]
    /\ window' = TRUE
    /\ Done(w)
    /\ NoWrite
    /\ UNCHANGED <<start, poll, cleanup, polls, faults>>

\* failAnalysis, handleAnalysisError: any step throws, the copy is saved as
\* failed and the job is given back.
AnalyzeThrows(w) ==
    /\ worker[w].pc \in {"sample", "list", "reset", "enqueue", "persist", "finalizer"}
    /\ Fault
    /\ Write([worker[w].copy EXCEPT !.status = "failed"])
    /\ Returned(w)
    /\ worker' = [worker EXCEPT ![w] = Idle]
    /\ UNCHANGED <<window, start, poll, cleanup, polls>>

(***************************************************************************)
(* handleDiscoveryBatchJob                                                 *)
(***************************************************************************)

WithOutcome(r, b, o) ==
    [r EXCEPT !.results[b] = o,
              !.failedBatches = IF o = "error" THEN @ \cup {b} ELSE @ \ {b}]

\* The model finds something, or nothing usable, or the plan is exhausted;
\* a batch whose outcome could not be saved has failed.
Outcomes(w) == IF worker[w].outcome = "error" THEN {"error"} ELSE {"found", "error"}

\* storeBatchOutcome: find, merge into the copy, ...
ReadForOutcome(w) ==
    /\ At(w, "read")
    /\ \E o \in Outcomes(w) :
          worker' = [worker EXCEPT ![w].pc = "store", ![w].outcome = o,
                                   ![w].copy = WithOutcome(row, worker[w].batch, o)]
    /\ NoWrite
    /\ UNCHANGED <<ready, window, start, poll, cleanup, polls, faults>>

\* ... and save.
StoreOutcome(w) ==
    /\ At(w, "store")
    /\ Write(worker[w].copy)
    /\ Done(w)
    /\ UNCHANGED <<ready, window, start, poll, cleanup, polls, faults>>

\* The save fails: the batch is recorded as failed instead.
StoreFails(w) ==
    /\ At(w, "store") /\ worker[w].outcome = "found"
    /\ Fault
    /\ worker' = [worker EXCEPT ![w].pc = "read", ![w].outcome = "error", ![w].copy = NoRow]
    /\ NoWrite
    /\ UNCHANGED <<ready, window, start, poll, cleanup, polls>>

(***************************************************************************)
(* processFinalizationJob                                                  *)
(***************************************************************************)

\* Mutant: one batch may be outstanding.
BatchesNearlyComplete(r) ==
    Cardinality(Stored(r)) + Cardinality(r.failedBatches) + 1 >= Cardinality(Batches)

\* checkBatchesComplete: a failed batch has a result too and counts twice.
BatchesComplete(r) ==
    Cardinality(Stored(r)) + Cardinality(r.failedBatches) >= Cardinality(Batches)

CheckBatches(w) ==
    /\ At(w, "check")
    /\ Goto(w, IF BatchesComplete(row) THEN "gather" ELSE "requeue")
    /\ NoWrite
    /\ UNCHANGED <<ready, window, start, poll, cleanup, polls, faults>>

\* Mutant: the job is sent again with the count it came with.
RequeueUncounted(w) ==
    /\ At(w, "requeue")
    /\ ready.finalize[worker[w].attempt] < MaxReady
    /\ ready' = [ready EXCEPT !.finalize[worker[w].attempt] = @ + 1]
    /\ Done(w)
    /\ NoWrite
    /\ UNCHANGED <<window, start, poll, cleanup, polls, faults>>

\* requeueFinalizationJob
Requeue(w) ==
    /\ At(w, "requeue")
    /\ LET n == worker[w].attempt + 1
       IN  \/ /\ n \in Attempts
              /\ ready.finalize[n] < MaxReady
              /\ ready' = [ready EXCEPT !.finalize[n] = @ + 1]
              /\ NoWrite
           \/ /\ n \notin Attempts
              /\ Write([row EXCEPT !.status = "failed"])
              /\ UNCHANGED ready
    /\ Done(w)
    /\ UNCHANGED <<window, start, poll, cleanup, polls, faults>>

\* finalizeContextAnalysis reads the row and saves what its batches found ...
Gather(w) ==
    /\ At(w, "gather")
    /\ Hold(w, "complete", row)
    /\ NoWrite
    /\ UNCHANGED <<ready, window, start, poll, cleanup, polls, faults>>

\* ... and then, in persistFinalAnalysisRecord, the row.
PersistFinal(w) ==
    /\ At(w, "complete")
    /\ Write([worker[w].copy EXCEPT !.status = "completed", !.payloads = FALSE])
    /\ Done(w)
    /\ UNCHANGED <<ready, window, start, poll, cleanup, polls, faults>>

(***************************************************************************)
(* checkAndSyncJobs                                                        *)
(***************************************************************************)

Missing(r) == Batches \ (Stored(r) \cup r.failedBatches)

PollReads ==
    /\ poll.pc = "idle" /\ polls < MaxPolls
    /\ row.status = "running" /\ row.total /\ row.payloads
    /\ Missing(row) # {}
    /\ poll' = [pc |-> "enqueue", copy |-> row]
    /\ polls' = polls + 1
    /\ NoWrite
    /\ UNCHANGED <<ready, window, start, worker, cleanup, faults>>

\* requeueMissingBatches: without a window the queue takes every duplicate ...
PollEnqueues ==
    /\ poll.pc = "enqueue"
    /\ \A b \in Missing(poll.copy) : ready.batch[b] < MaxReady
    /\ ready' = [ready EXCEPT !.batch = [b \in Batches |->
                    @[b] + IF b \in Missing(poll.copy) THEN 1 ELSE 0]]
    /\ poll' = [poll EXCEPT !.pc = "write"]
    /\ NoWrite
    /\ UNCHANGED <<window, start, worker, cleanup, polls, faults>>

\* ... and the stats that were read are written back, the status is not.
PollWrites ==
    /\ poll.pc = "write"
    /\ Write([poll.copy EXCEPT !.status = row.status])
    /\ poll' = NoPoll
    /\ UNCHANGED <<ready, window, start, worker, cleanup, polls, faults>>

PollDies ==
    /\ poll.pc # "idle"
    /\ Fault
    /\ poll' = NoPoll
    /\ NoWrite
    /\ UNCHANGED <<ready, window, start, worker, cleanup, polls>>

(***************************************************************************)
(* cleanupStuckAnalyses                                                    *)
(***************************************************************************)

\* An hour passes without a write.  Jobs may wait that long, but a handler has
\* returned, thrown or been expired (expireInSeconds), a request is over.
Ages ==
    /\ row.status = "running" /\ ~aged
    /\ \A w \in Workers : At(w, "idle")
    /\ poll.pc = "idle" /\ start # "inserted" /\ ~cleanup
    /\ aged' = TRUE
    /\ UNCHANGED <<row, overwritten, erred, ready, window, start, worker, poll, cleanup,
                   polls, faults>>

CleanupFinds ==
    /\ ~cleanup /\ row.status = "running" /\ aged
    /\ cleanup' = TRUE
    /\ NoWrite
    /\ UNCHANGED <<ready, window, start, worker, poll, polls, faults>>

\* Mutant: the cron only logs what it found.
CleanupLogs ==
    /\ cleanup
    /\ cleanup' = FALSE
    /\ NoWrite
    /\ UNCHANGED <<ready, window, start, worker, poll, polls, faults>>

\* By id: whatever the status is by now.
CleanupFails ==
    /\ cleanup
    /\ Write([row EXCEPT !.status = "failed"])
    /\ cleanup' = FALSE
    /\ UNCHANGED <<ready, window, start, worker, poll, polls, faults>>

(***************************************************************************)
(* The specification                                                       *)
(***************************************************************************)

Starting == StartInserts \/ StartSends \/ StartFails \/ StartDies \/ Superseded

Analyzing(w) == \/ InitializeRecord(w) \/ Samples(w) \/ Lists(w) \/ NoThreads(w)
                \/ ResetStats(w) \/ EnqueueBatches(w) \/ PersistBatchState(w)
                \/ QueueFinalization(w)

Discovering(w) == ReadForOutcome(w) \/ StoreOutcome(w)

Finalizing(w) == CheckBatches(w) \/ Requeue(w) \/ Gather(w) \/ PersistFinal(w)

\* What a handler does when nothing goes wrong.
Works(w) == Fetch(w) \/ Analyzing(w) \/ Discovering(w) \/ Finalizing(w) \/ Completes(w)

Polling == PollReads \/ PollEnqueues \/ PollWrites \/ PollDies

Cleaning == Ages \/ CleanupFinds \/ CleanupFails

Next ==
    \/ Starting
    \/ \E w \in Workers : Works(w) \/ Dies(w) \/ AnalyzeThrows(w) \/ StoreFails(w)
    \/ Polling
    \/ Cleaning

Spec == Init /\ [][Next]_vars

\* Jobs that are ready are fetched and handled, a request that has begun goes
\* on, hours pass, the cron runs.  Nobody has to start or to poll.
FairSpec ==
    /\ Spec
    /\ \A w \in Workers : WF_vars(Works(w))
    /\ WF_vars(StartSends) /\ WF_vars(PollEnqueues) /\ WF_vars(PollWrites)
    /\ WF_vars(Ages) /\ WF_vars(CleanupFinds) /\ WF_vars(CleanupFails)

(***************************************************************************)
(* Properties                                                              *)
(***************************************************************************)

TypeOK ==
    /\ row \in Row
    /\ ready \in Ready
    /\ start \in {"none", "inserted", "over"}
    /\ worker \in [Workers -> Worker]
    /\ poll \in Poll
    /\ polls \in 0..MaxPolls /\ faults \in 0..MaxFaults
    /\ {aged, window, cleanup, overwritten, erred} \subseteq BOOLEAN

\* What is finalised holds the discoveries of every batch, unless a batch was
\* recorded as failed or a stale copy put an outcome back to nothing.
FinalizesAll ==
    \A w \in Workers :
        At(w, "complete") /\ ~erred /\ ~overwritten =>
            \A b \in Batches : worker[w].copy.results[b] = "found"

Finalizers == {n \in Attempts : ready.finalize[n] > 0}
              \cup {worker[w].attempt : w \in {v \in Workers : worker[v].kind = "finalize"}}

\* "to prevent infinite re-queue loops": also when batches never complete and
\* jobs are delivered again, the finaliser stops polling for good.
FinalizerStops == <>[](Finalizers = {})

\* Whoever dies, and however often a stale copy brings "running" back, the
\* analysis leaves that status for good.
EndsForGood == <>[](row.status # "running")

=============================================================================
