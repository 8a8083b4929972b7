------------------------ MODULE ContextAnalysisProofs ------------------------
(***************************************************************************)
(* Proofs about ContextAnalysis: types, and that what is finalised holds   *)
(* every batch's discoveries unless a batch was recorded as failed or an   *)
(* outcome was overwritten.                                                *)
(*                                                                         *)
(* The double count of a failed batch is why the second condition is       *)
(* there: a row without an error has no failed batch, so the sum the       *)
(* finaliser compares is the number of outcomes, and it reaches the number *)
(* of batches only when every batch has one.  Outcomes stay until the row  *)
(* is read for the last time because nothing was overwritten.              *)
(*                                                                         *)
(* That an analysis ends and its finaliser stops is liveness.  Proved here *)
(* is what keeps the two from growing without end: an ended analysis is    *)
(* revived by nothing but a copy read before (Ended), and whatever can     *)
(* still become a finaliser (Load) grows with faults only.                 *)
(***************************************************************************)
EXTENDS ContextAnalysis, FiniteSetTheorems, TLAPS

(***************************************************************************)
(* The inductive invariant                                                 *)
(***************************************************************************)

\* Only a batch whose outcome is an error is among the failed ones.
SoundRow == {r \in Row : \A b \in r.failedBatches : r.results[b] = "error"}

Workforce(f) ==
    /\ f \in [Workers -> Worker]
    /\ \A w \in Workers :
          /\ f[w].copy \in SoundRow
          /\ f[w].pc \in {"read", "store"} => f[w].batch \in Batches

TInv ==
    /\ row \in SoundRow
    /\ ready \in Ready
    /\ start \in {"none", "inserted", "over"}
    /\ Workforce(worker)
    /\ poll \in Poll /\ poll.copy \in SoundRow
    /\ polls \in 0..MaxPolls /\ faults \in 0..MaxFaults
    /\ aged \in BOOLEAN /\ window \in BOOLEAN /\ cleanup \in BOOLEAN
    /\ overwritten \in BOOLEAN /\ erred \in BOOLEAN

ErrorsAreKnown == ~erred => \A b \in Batches : row.results[b] # "error"

GatherKnows ==
    \A w \in Workers :
        At(w, "gather") /\ ~erred /\ ~overwritten => Stored(row) = Batches

KInv == ErrorsAreKnown /\ GatherKnows /\ FinalizesAll

IInv == TInv /\ KInv

(***************************************************************************)
(* Types                                                                   *)
(***************************************************************************)

LEMMA Bounds ==
    /\ MaxRequeues \in Nat /\ MaxReady \in Nat /\ MaxPolls \in Nat /\ MaxFaults \in Nat
    /\ MaxReady > 0 /\ NoBatch \notin Batches /\ IsFiniteSet(Batches)
BY ContextAnalysisAssumption

LEMMA NoRowIsSound == NoRow \in SoundRow
BY DEF NoRow, SoundRow, Row, Outcome

\* What the handlers make of a sound row is sound.
LEMMA RowTypes ==
    ASSUME NEW r \in SoundRow
    PROVE  /\ \A s \in {"none", "running", "completed", "failed"} :
                 [r EXCEPT !.status = s] \in SoundRow
           /\ [NoRow EXCEPT !.status = r.status] \in SoundRow
           /\ [r EXCEPT !.total = TRUE, !.payloads = TRUE] \in SoundRow
           /\ [r EXCEPT !.status = "completed", !.payloads = FALSE] \in SoundRow
<1>1. \A s \in {"none", "running", "completed", "failed"} :
         [r EXCEPT !.status = s] \in SoundRow
  BY DEF SoundRow, Row
<1>2. [NoRow EXCEPT !.status = r.status] \in SoundRow
  BY NoRowIsSound DEF SoundRow, Row
<1>3. [r EXCEPT !.total = TRUE, !.payloads = TRUE] \in SoundRow
  BY DEF SoundRow, Row
<1>4. [r EXCEPT !.status = "completed", !.payloads = FALSE] \in SoundRow
  BY DEF SoundRow, Row
<1> QED
  BY <1>1, <1>2, <1>3, <1>4

\* A merged outcome and the set of failed batches agree on the batch.
LEMMA OutcomeTypes ==
    ASSUME NEW r \in SoundRow, NEW b \in Batches, NEW o \in {"found", "error"}
    PROVE  WithOutcome(r, b, o) \in SoundRow
<1> DEFINE new == WithOutcome(r, b, o)
<1>1. /\ new.results = [r.results EXCEPT ![b] = o]
      /\ new.failedBatches = IF o = "error" THEN r.failedBatches \cup {b}
                             ELSE r.failedBatches \ {b}
  BY DEF WithOutcome, SoundRow, Row
<1>2. r.failedBatches \subseteq Batches /\ r.results \in [Batches -> Outcome]
  BY DEF SoundRow, Row
<1>3. new \in Row
  BY <1>2 DEF WithOutcome, SoundRow, Row, Outcome
<1>4. ASSUME NEW f \in new.failedBatches PROVE new.results[f] = "error"
  <2>1. CASE f = b
    BY <1>1, <1>2, <1>4, <2>1
  <2>2. CASE f # b
    BY <1>1, <1>2, <1>4, <2>2 DEF SoundRow
  <2> QED BY <2>1, <2>2
<1> QED
  BY <1>3, <1>4 DEF SoundRow

LEMMA IdleIsWorker == Idle \in Worker /\ Idle.copy \in SoundRow /\ Idle.pc = "idle"
BY NoRowIsSound, Bounds DEF Idle, Worker, SoundRow, Outcome, Attempts

LEMMA WriteTypes ==
    ASSUME TInv, NEW new \in SoundRow, Write(new)
    PROVE  row' \in SoundRow /\ aged' \in BOOLEAN /\ overwritten' \in BOOLEAN
           /\ erred' \in BOOLEAN
BY DEF Write, TInv

LEMMA NoWriteTypes ==
    ASSUME TInv, NoWrite
    PROVE  row' \in SoundRow /\ aged' \in BOOLEAN /\ overwritten' \in BOOLEAN
           /\ erred' \in BOOLEAN
BY DEF NoWrite, TInv

LEMMA FaultTypes ==
    ASSUME TInv, Fault
    PROVE  faults' \in 0..MaxFaults
BY Bounds DEF Fault, TInv

\* A handler goes on, holds another copy, is done, or is gone.
LEMMA GotoTypes ==
    ASSUME TInv, NEW w \in Workers, Goto(w, "gather") \/ Goto(w, "requeue") \/ Goto(w, "persist")
    PROVE  Workforce(worker')
BY DEF TInv, Workforce, Goto, Worker

LEMMA HoldTypes ==
    ASSUME TInv, NEW w \in Workers, NEW r \in SoundRow,
           NEW pc \in {"sample", "list", "reset", "enqueue", "finalizer", "complete"},
           Hold(w, pc, r)
    PROVE  Workforce(worker')
<1> DEFINE k == [worker[w] EXCEPT !.pc = pc, !.copy = r]
<1>1. r \in Row /\ worker[w] \in Worker
  BY DEF SoundRow, TInv, Workforce
<1>2. k \in Worker /\ k.copy = r /\ k.pc = pc
  BY <1>1 DEF Worker
<1>3. worker' = [worker EXCEPT ![w] = k]
  BY DEF Hold
<1> QED
  BY <1>2, <1>3 DEF TInv, Workforce

LEMMA DoneTypes ==
    ASSUME TInv, NEW w \in Workers, Done(w)
    PROVE  Workforce(worker')
<1> DEFINE k == [worker[w] EXCEPT !.pc = "done", !.copy = NoRow, !.outcome = "none"]
<1>1. NoRow \in Row /\ worker[w] \in Worker
  BY NoRowIsSound DEF SoundRow, TInv, Workforce
<1>2. k \in Worker /\ k.copy = NoRow /\ k.pc = "done"
  BY <1>1 DEF Worker, Outcome
<1>3. worker' = [worker EXCEPT ![w] = k]
  BY DEF Done
<1> QED
  BY <1>2, <1>3, NoRowIsSound DEF TInv, Workforce

LEMMA GoneTypes ==
    ASSUME TInv, NEW w \in Workers, worker' = [worker EXCEPT ![w] = Idle]
    PROVE  Workforce(worker')
BY IdleIsWorker DEF TInv, Workforce

\* One job more.
LEMMA ReadyTypes ==
    ASSUME TInv
    PROVE  /\ [ready EXCEPT !.analyze = 0] \in Ready /\ [ready EXCEPT !.analyze = 1] \in Ready
           /\ \A b : ready.batch[b] < MaxReady /\ b \in Batches =>
                 [ready EXCEPT !.batch[b] = @ + 1] \in Ready
           /\ \A n \in Attempts : ready.finalize[n] < MaxReady =>
                 [ready EXCEPT !.finalize[n] = @ + 1] \in Ready
BY Bounds DEF TInv, Ready

(***************************************************************************)
(* The request and the handlers' common steps keep the types               *)
(***************************************************************************)

LEMMA StartingTypes ==
    ASSUME TInv, Starting
    PROVE  TInv'
<1>1. CASE StartInserts
  <2>1. [NoRow EXCEPT !.status = "running"] \in SoundRow
    BY NoRowIsSound, RowTypes
  <2> QED
    BY <1>1, <2>1, WriteTypes DEF StartInserts, TInv
<1>2. CASE StartSends
  BY <1>2, NoWriteTypes, ReadyTypes DEF StartSends, TInv
<1>3. [row EXCEPT !.status = "failed"] \in SoundRow
  BY RowTypes DEF TInv
<1>4. CASE StartFails
  BY <1>3, <1>4, WriteTypes, FaultTypes DEF StartFails, TInv
<1>5. CASE StartDies
  BY <1>5, NoWriteTypes, FaultTypes DEF StartDies, TInv
<1>6. CASE Superseded
  BY <1>3, <1>6, WriteTypes, FaultTypes DEF Superseded, TInv
<1> QED
  BY <1>1, <1>2, <1>4, <1>5, <1>6 DEF Starting

LEMMA FetchTypes ==
    ASSUME TInv, NEW w \in Workers, Fetch(w)
    PROVE  TInv'
<1>0. worker[w] \in Worker /\ worker[w].copy \in SoundRow
  BY DEF TInv, Workforce
<1>1. CASE FetchAnalyze(w)
  <2> DEFINE k == [worker[w] EXCEPT !.pc = "init", !.kind = "analyze"]
  <2>1. k \in Worker /\ k.copy \in SoundRow /\ k.pc = "init"
    BY <1>0 DEF Worker
  <2>2. worker' = [worker EXCEPT ![w] = k]
    BY <1>1 DEF FetchAnalyze
  <2>3. Workforce(worker')
    BY <2>1, <2>2 DEF TInv, Workforce
  <2>4. ready' \in Ready
    BY <1>1, ReadyTypes DEF FetchAnalyze
  <2> QED
    BY <2>3, <2>4, NoWriteTypes DEF Fetch, TInv
<1>2. ASSUME NEW b \in Batches, FetchBatch(w, b) PROVE TInv'
  <2> DEFINE k == [worker[w] EXCEPT !.pc = "read", !.kind = "batch", !.batch = b]
  <2>1. k \in Worker /\ k.copy \in SoundRow /\ k.batch = b
    BY <1>0 DEF Worker
  <2>2. worker' = [worker EXCEPT ![w] = k]
    BY <1>2 DEF FetchBatch
  <2>3. Workforce(worker')
    BY <2>1, <2>2 DEF TInv, Workforce
  <2>4. ready' \in Ready
    BY <1>2, Bounds DEF FetchBatch, TInv, Ready
  <2> QED
    BY <2>3, <2>4, NoWriteTypes DEF Fetch, TInv
<1>3. ASSUME NEW n \in Attempts, FetchFinalize(w, n) PROVE TInv'
  <2> DEFINE k == [worker[w] EXCEPT !.pc = "check", !.kind = "finalize", !.attempt = n]
  <2>1. k \in Worker /\ k.copy \in SoundRow /\ k.pc = "check"
    BY <1>0 DEF Worker
  <2>2. worker' = [worker EXCEPT ![w] = k]
    BY <1>3 DEF FetchFinalize
  <2>3. Workforce(worker')
    BY <2>1, <2>2 DEF TInv, Workforce
  <2>4. ready' \in Ready
    BY <1>3, Bounds DEF FetchFinalize, TInv, Ready
  <2> QED
    BY <2>3, <2>4, NoWriteTypes DEF Fetch, TInv
<1> QED
  BY <1>1, <1>2, <1>3 DEF Fetch

LEMMA CompletesTypes ==
    ASSUME TInv, NEW w \in Workers, Completes(w)
    PROVE  TInv'
<1>1. Workforce(worker')
  BY GoneTypes DEF Completes
<1> QED
  BY <1>1, NoWriteTypes DEF Completes, TInv

LEMMA ReturnedTypes ==
    ASSUME TInv, NEW w \in Workers, Returned(w)
    PROVE  ready' \in Ready
<1>1. worker[w].batch \in Batches \cup {NoBatch} /\ worker[w].attempt \in Attempts
  BY DEF TInv, Workforce, Worker
<1>2. CASE worker[w].batch \in Batches
  BY <1>1, <1>2, ReadyTypes DEF Returned, TInv
<1>3. CASE worker[w].batch \notin Batches
  <2>1. [ready EXCEPT !.batch[worker[w].batch] = @ + 1] = ready
    BY <1>3 DEF TInv, Ready
  <2> QED
    BY <1>1, <2>1, ReadyTypes DEF Returned, TInv
<1> QED
  BY <1>2, <1>3

LEMMA DiesTypes ==
    ASSUME TInv, NEW w \in Workers, Dies(w)
    PROVE  TInv'
<1>1. Workforce(worker')
  BY GoneTypes DEF Dies
<1>2. ready' \in Ready
  BY ReturnedTypes DEF Dies
<1> QED
  BY <1>1, <1>2, NoWriteTypes, FaultTypes DEF Dies, TInv

(***************************************************************************)
(* The job that hands out the batches keeps the types                      *)
(***************************************************************************)

LEMMA AnalyzingTypes ==
    ASSUME TInv, NEW w \in Workers, Analyzing(w)
    PROVE  TInv'
<1>0. row \in SoundRow /\ worker[w].copy \in SoundRow
  BY DEF TInv, Workforce
<1>1. CASE InitializeRecord(w)
  <2>1. Workforce(worker')
    BY <1>0, <1>1, HoldTypes DEF InitializeRecord
  <2> QED
    BY <1>1, <2>1, NoWriteTypes DEF InitializeRecord, TInv
<1>2. CASE Samples(w)
  <2>1. Workforce(worker')
    BY <1>0, <1>2, HoldTypes DEF Samples, Save
  <2> QED
    BY <1>0, <1>2, <2>1, WriteTypes DEF Samples, Save, TInv
<1>3. CASE Lists(w)
  <2>1. Workforce(worker')
    BY <1>0, <1>3, HoldTypes DEF Lists, Save
  <2> QED
    BY <1>0, <1>3, <2>1, WriteTypes DEF Lists, Save, TInv
<1>4. CASE NoThreads(w)
  <2>1. [worker[w].copy EXCEPT !.status = "completed"] \in SoundRow
    BY <1>0, RowTypes
  <2>2. Workforce(worker')
    BY <1>4, DoneTypes DEF NoThreads
  <2> QED
    BY <1>4, <2>1, <2>2, WriteTypes DEF NoThreads, TInv
<1>5. CASE ResetStats(w)
  <2>1. [NoRow EXCEPT !.status = worker[w].copy.status] \in SoundRow
    BY <1>0, RowTypes
  <2>2. Workforce(worker')
    BY <1>5, <2>1, HoldTypes DEF ResetStats, Save
  <2> QED
    BY <1>5, <2>1, <2>2, WriteTypes DEF ResetStats, Save, TInv
<1>6. CASE EnqueueBatches(w)
  <2>1. Workforce(worker')
    BY <1>6, GotoTypes DEF EnqueueBatches
  <2>2. ready' \in Ready
    BY <1>6, Bounds DEF EnqueueBatches, TInv, Ready
  <2>3. faults' \in 0..MaxFaults
    BY <1>6, FaultTypes DEF EnqueueBatches, TInv
  <2> QED
    BY <1>6, <2>1, <2>2, <2>3, NoWriteTypes DEF EnqueueBatches, TInv
<1>7. CASE PersistBatchState(w)
  <2>1. [worker[w].copy EXCEPT !.total = TRUE, !.payloads = TRUE] \in SoundRow
    BY <1>0, RowTypes
  <2>2. Workforce(worker')
    BY <1>7, <2>1, HoldTypes DEF PersistBatchState, Save
  <2> QED
    BY <1>7, <2>1, <2>2, WriteTypes DEF PersistBatchState, Save, TInv
<1>8. CASE QueueFinalization(w)
  <2>1. Workforce(worker')
    BY <1>8, DoneTypes DEF QueueFinalization
  <2>2. ready' \in Ready
    BY <1>8, ReadyTypes, Bounds DEF QueueFinalization, TInv, Attempts
  <2> QED
    BY <1>8, <2>1, <2>2, NoWriteTypes DEF QueueFinalization, TInv
<1> QED
  BY <1>1, <1>2, <1>3, <1>4, <1>5, <1>6, <1>7, <1>8 DEF Analyzing

LEMMA AnalyzeThrowsTypes ==
    ASSUME TInv, NEW w \in Workers, AnalyzeThrows(w)
    PROVE  TInv'
<1>1. [worker[w].copy EXCEPT !.status = "failed"] \in SoundRow
  BY RowTypes DEF TInv, Workforce
<1>2. Workforce(worker')
  BY GoneTypes DEF AnalyzeThrows
<1>3. ready' \in Ready
  BY ReturnedTypes DEF AnalyzeThrows
<1> QED
  BY <1>1, <1>2, <1>3, WriteTypes, FaultTypes DEF AnalyzeThrows, TInv

(***************************************************************************)
(* A batch's job, the finaliser, the poll and the cleanup keep the types   *)
(***************************************************************************)

LEMMA ReadForOutcomeTypes ==
    ASSUME TInv, NEW w \in Workers, ReadForOutcome(w)
    PROVE  TInv'
<1>1. PICK o \in Outcomes(w) :
         worker' = [worker EXCEPT ![w].pc = "store", ![w].outcome = o,
                                  ![w].copy = WithOutcome(row, worker[w].batch, o)]
  BY DEF ReadForOutcome
<1> DEFINE r == WithOutcome(row, worker[w].batch, o)
           k == [worker[w] EXCEPT !.pc = "store", !.outcome = o, !.copy = r]
<1>2. worker[w] \in Worker /\ worker[w].batch \in Batches /\ row \in SoundRow
  BY DEF ReadForOutcome, At, TInv, Workforce
<1>3. o \in {"found", "error"}
  BY DEF Outcomes
<1>4. r \in SoundRow /\ r \in Row
  BY <1>2, <1>3, OutcomeTypes DEF SoundRow
<1> HIDE DEF r
<1>5. k \in Worker /\ k.copy = r /\ k.batch = worker[w].batch
  BY <1>2, <1>3, <1>4 DEF Worker, Outcome
<1>6. worker' = [worker EXCEPT ![w] = k]
  BY <1>1 DEF r
<1>7. Workforce(worker')
  BY <1>2, <1>4, <1>5, <1>6 DEF TInv, Workforce
<1> QED
  BY <1>7, NoWriteTypes DEF ReadForOutcome, TInv

LEMMA StoreOutcomeTypes ==
    ASSUME TInv, NEW w \in Workers, StoreOutcome(w)
    PROVE  TInv'
<1>1. worker[w].copy \in SoundRow
  BY DEF TInv, Workforce
<1>2. Workforce(worker')
  BY DoneTypes DEF StoreOutcome
<1> QED
  BY <1>1, <1>2, WriteTypes DEF StoreOutcome, TInv

LEMMA StoreFailsTypes ==
    ASSUME TInv, NEW w \in Workers, StoreFails(w)
    PROVE  TInv'
<1> DEFINE k == [worker[w] EXCEPT !.pc = "read", !.outcome = "error", !.copy = NoRow]
<1>1. worker[w] \in Worker /\ worker[w].batch \in Batches /\ NoRow \in Row
  BY NoRowIsSound DEF StoreFails, At, TInv, Workforce, SoundRow
<1>2. k \in Worker /\ k.copy = NoRow /\ k.batch = worker[w].batch
  BY <1>1 DEF Worker, Outcome
<1>3. worker' = [worker EXCEPT ![w] = k]
  BY DEF StoreFails
<1>4. Workforce(worker')
  BY <1>1, <1>2, <1>3, NoRowIsSound DEF TInv, Workforce
<1> QED
  BY <1>4, NoWriteTypes, FaultTypes DEF StoreFails, TInv

LEMMA FinalizingTypes ==
    ASSUME TInv, NEW w \in Workers, Finalizing(w)
    PROVE  TInv'
<1>0. row \in SoundRow /\ worker[w].copy \in SoundRow
  BY DEF TInv, Workforce
<1>1. CASE CheckBatches(w)
  <2>1. Workforce(worker')
    BY <1>1, GotoTypes DEF CheckBatches
  <2> QED
    BY <1>1, <2>1, NoWriteTypes DEF CheckBatches, TInv
<1>2. CASE Requeue(w)
  <2>1. Workforce(worker')
    BY <1>2, DoneTypes DEF Requeue
  <2>2. [row EXCEPT !.status = "failed"] \in SoundRow
    BY <1>0, RowTypes
  <2>3. /\ ready' \in Ready /\ row' \in SoundRow /\ aged' \in BOOLEAN
        /\ overwritten' \in BOOLEAN /\ erred' \in BOOLEAN
    BY <1>2, <2>2, ReadyTypes, WriteTypes, NoWriteTypes DEF Requeue, TInv
  <2> QED
    BY <1>2, <2>1, <2>3 DEF Requeue, TInv
<1>3. CASE Gather(w)
  <2>1. Workforce(worker')
    BY <1>0, <1>3, HoldTypes DEF Gather
  <2> QED
    BY <1>3, <2>1, NoWriteTypes DEF Gather, TInv
<1>4. CASE PersistFinal(w)
  <2>1. [worker[w].copy EXCEPT !.status = "completed", !.payloads = FALSE] \in SoundRow
    BY <1>0, RowTypes
  <2>2. Workforce(worker')
    BY <1>4, DoneTypes DEF PersistFinal
  <2> QED
    BY <1>4, <2>1, <2>2, WriteTypes DEF PersistFinal, TInv
<1> QED
  BY <1>1, <1>2, <1>3, <1>4 DEF Finalizing

LEMMA PollingTypes ==
    ASSUME TInv, Polling
    PROVE  TInv'
<1>0. row \in SoundRow /\ row \in Row /\ poll.copy \in SoundRow
  BY DEF TInv, SoundRow
<1>1. NoPoll \in Poll /\ NoPoll.copy \in SoundRow
  BY NoRowIsSound DEF NoPoll, Poll, SoundRow
<1>2. CASE PollReads
  <2>1. poll' \in Poll /\ poll'.copy \in SoundRow
    BY <1>0, <1>2 DEF PollReads, Poll
  <2>2. polls' \in 0..MaxPolls
    BY <1>2, Bounds DEF PollReads, TInv
  <2> QED
    BY <1>2, <2>1, <2>2, NoWriteTypes DEF PollReads, TInv
<1>3. CASE PollEnqueues
  <2>1. poll' \in Poll /\ poll'.copy \in SoundRow
    BY <1>3 DEF PollEnqueues, Poll, TInv
  <2>2. ready' \in Ready
    BY <1>3, Bounds DEF PollEnqueues, TInv, Ready
  <2> QED
    BY <1>3, <2>1, <2>2, NoWriteTypes DEF PollEnqueues, TInv
<1>4. CASE PollWrites
  <2>1. row.status \in {"none", "running", "completed", "failed"}
    BY <1>0 DEF Row
  <2>2. [poll.copy EXCEPT !.status = row.status] \in SoundRow
    BY <1>0, <2>1, RowTypes
  <2> QED
    BY <1>1, <1>4, <2>2, WriteTypes DEF PollWrites, TInv
<1>5. CASE PollDies
  BY <1>1, <1>5, NoWriteTypes, FaultTypes DEF PollDies, TInv
<1> QED
  BY <1>2, <1>3, <1>4, <1>5 DEF Polling

LEMMA CleaningTypes ==
    ASSUME TInv, Cleaning
    PROVE  TInv'
<1>1. CASE Ages
  BY <1>1 DEF Ages, TInv
<1>2. CASE CleanupFinds
  BY <1>2, NoWriteTypes DEF CleanupFinds, TInv
<1>3. CASE CleanupFails
  <2>1. [row EXCEPT !.status = "failed"] \in SoundRow
    BY RowTypes DEF TInv
  <2> QED
    BY <1>3, <2>1, WriteTypes DEF CleanupFails, TInv
<1> QED
  BY <1>1, <1>2, <1>3 DEF Cleaning

LEMMA StutterTypes == TInv /\ UNCHANGED vars => TInv'
BY DEF TInv, vars

LEMMA NextTypes == TInv /\ [Next]_vars => TInv'
<1> SUFFICES ASSUME TInv, [Next]_vars PROVE TInv'
  OBVIOUS
<1>1. CASE UNCHANGED vars
  BY <1>1, StutterTypes
<1>2. CASE Starting
  BY <1>2, StartingTypes
<1>3. ASSUME NEW w \in Workers, Works(w) PROVE TInv'
  BY <1>3, FetchTypes, CompletesTypes, AnalyzingTypes, ReadForOutcomeTypes, StoreOutcomeTypes,
     FinalizingTypes DEF Works, Discovering
<1>4. ASSUME NEW w \in Workers, Dies(w) \/ AnalyzeThrows(w) \/ StoreFails(w) PROVE TInv'
  BY <1>4, DiesTypes, AnalyzeThrowsTypes, StoreFailsTypes
<1>5. CASE Polling
  BY <1>5, PollingTypes
<1>6. CASE Cleaning
  BY <1>6, CleaningTypes
<1> QED
  BY <1>1, <1>2, <1>3, <1>4, <1>5, <1>6 DEF Next

(***************************************************************************)
(* What the finaliser knows                                                *)
(***************************************************************************)

\* The handlers about to finalise are the ones that were.
NobodyNew ==
    \A v \in Workers : worker'[v].pc \in {"gather", "complete"} => worker'[v] = worker[v]

\* The row is as it was, or somebody wrote it.
Wrote == UNCHANGED <<row, overwritten, erred>> \/ \E new \in SoundRow : Write(new)

LEMMA KnowledgeStays ==
    ASSUME TInv, KInv, NobodyNew, Wrote
    PROVE  KInv'
<1>1. CASE UNCHANGED <<row, overwritten, erred>>
  BY <1>1 DEF KInv, ErrorsAreKnown, GatherKnows, FinalizesAll, At, Stored, NobodyNew
<1>2. ASSUME NEW new \in SoundRow, Write(new) PROVE KInv'
  <2>1. ErrorsAreKnown'
    BY <1>2 DEF ErrorsAreKnown, Write
  <2>2. ASSUME NEW v \in Workers, At(v, "gather")', ~erred', ~overwritten'
        PROVE  Stored(row)' = Batches
    <3>1. Stored(row) = Batches
      BY <1>2, <2>2 DEF KInv, GatherKnows, NobodyNew, At, Write
    <3>2. Stored(row) \subseteq Stored(new)
      BY <1>2, <2>2 DEF Write
    <3> QED
      BY <1>2, <3>1, <3>2 DEF Write, Stored
  <2>3. FinalizesAll'
    BY <1>2 DEF KInv, FinalizesAll, NobodyNew, At, Write
  <2> QED
    BY <2>1, <2>2, <2>3 DEF KInv, GatherKnows
<1> QED
  BY <1>1, <1>2 DEF Wrote

\* A sum that reaches the number of batches has an outcome of each, if no
\* batch has failed.
LEMMA CompleteWithoutErrors ==
    ASSUME NEW r \in SoundRow, \A b \in Batches : r.results[b] # "error", BatchesComplete(r)
    PROVE  Stored(r) = Batches
<1>1. r.failedBatches = {}
  BY DEF SoundRow, Row
<1>2. Stored(r) \subseteq Batches /\ IsFiniteSet(Batches)
  BY Bounds DEF Stored
<1>3. IsFiniteSet(Stored(r)) /\ Cardinality(Stored(r)) \in Nat
  BY <1>2, FS_Subset, FS_CardinalityType
<1>4. Cardinality(Stored(r)) >= Cardinality(Batches)
  BY <1>1, <1>3, FS_EmptySet DEF BatchesComplete
<1>5. Cardinality(Batches) \in Nat
  BY <1>2, FS_CardinalityType
<1> QED
  BY <1>2, <1>3, <1>4, <1>5, FS_Subset

LEMMA CheckBatchesKnows ==
    ASSUME TInv, KInv, NEW w \in Workers, CheckBatches(w)
    PROVE  KInv'
<1>1. row' = row /\ erred' = erred /\ overwritten' = overwritten
  BY DEF CheckBatches, NoWrite
<1>2. /\ worker' \in [Workers -> Worker]
      /\ \A v \in Workers \ {w} : worker'[v] = worker[v]
      /\ worker'[w].pc = IF BatchesComplete(row) THEN "gather" ELSE "requeue"
  BY DEF CheckBatches, Goto, TInv, Workforce, Worker
<1>3. ErrorsAreKnown'
  BY <1>1 DEF KInv, ErrorsAreKnown
<1>4. GatherKnows'
  <2> SUFFICES ASSUME NEW v \in Workers, At(v, "gather")', ~erred, ~overwritten
               PROVE  Stored(row) = Batches
    BY <1>1 DEF GatherKnows, Stored
  <2>1. CASE v = w
    <3>1. BatchesComplete(row)
      BY <1>2, <2>1 DEF At
    <3> QED
      BY <3>1, CompleteWithoutErrors DEF TInv, KInv, ErrorsAreKnown
  <2>2. CASE v # w
    BY <1>2, <2>2 DEF At, KInv, GatherKnows
  <2> QED
    BY <2>1, <2>2
<1>5. FinalizesAll'
  BY <1>1, <1>2 DEF KInv, FinalizesAll, At
<1> QED
  BY <1>3, <1>4, <1>5 DEF KInv

LEMMA GatherKnowsAll ==
    ASSUME TInv, KInv, NEW w \in Workers, Gather(w)
    PROVE  KInv'
<1>1. row' = row /\ erred' = erred /\ overwritten' = overwritten
  BY DEF Gather, NoWrite
<1>2. /\ \A v \in Workers \ {w} : worker'[v] = worker[v]
      /\ worker'[w].pc = "complete" /\ worker'[w].copy = row
      /\ worker[w].pc = "gather"
  BY DEF Gather, Hold, At, TInv, Workforce, Worker
<1>3. ErrorsAreKnown' /\ GatherKnows'
  BY <1>1, <1>2 DEF KInv, ErrorsAreKnown, GatherKnows, At, Stored
<1>4. ASSUME NEW v \in Workers, At(v, "complete")', ~erred, ~overwritten, NEW b \in Batches
      PROVE  worker'[v].copy.results[b] = "found"
  <2>1. CASE v = w
    <3>1. Stored(row) = Batches /\ row.results[b] # "error" /\ row.results[b] \in Outcome
      BY <1>2, <1>4 DEF KInv, GatherKnows, ErrorsAreKnown, At, TInv, SoundRow, Row
    <3> QED
      BY <1>2, <2>1, <3>1 DEF Stored, Outcome
  <2>2. CASE v # w
    BY <1>2, <1>4, <2>2 DEF At, KInv, FinalizesAll
  <2> QED
    BY <2>1, <2>2
<1> QED
  BY <1>1, <1>3, <1>4 DEF KInv, FinalizesAll

\* A handler that goes elsewhere is not about to finalise.
LEMMA ElsewhereIsNobody ==
    ASSUME TInv, NEW w \in Workers, NEW k, k.pc \notin {"gather", "complete"},
           worker' = [worker EXCEPT ![w] = k]
    PROVE  NobodyNew
BY DEF TInv, Workforce, NobodyNew

LEMMA MovesAreNobody ==
    ASSUME TInv, NEW w \in Workers, NEW r,
           NEW pc \in {"sample", "list", "reset", "enqueue", "persist", "finalizer", "requeue"},
           Goto(w, pc) \/ Hold(w, pc, r) \/ Done(w) \/ worker' = [worker EXCEPT ![w] = Idle]
    PROVE  NobodyNew
<1>1. CASE Goto(w, pc)
  <2> DEFINE k == [worker[w] EXCEPT !.pc = pc]
  <2>1. worker' = [worker EXCEPT ![w] = k] /\ k.pc = pc
    BY <1>1 DEF Goto, TInv, Workforce, Worker
  <2> QED
    BY <2>1, ElsewhereIsNobody
<1>2. CASE Hold(w, pc, r)
  <2> DEFINE k == [worker[w] EXCEPT !.pc = pc, !.copy = r]
  <2>1. worker' = [worker EXCEPT ![w] = k] /\ k.pc = pc
    BY <1>2 DEF Hold, TInv, Workforce, Worker
  <2> QED
    BY <2>1, ElsewhereIsNobody
<1>3. CASE Done(w)
  <2> DEFINE k == [worker[w] EXCEPT !.pc = "done", !.copy = NoRow, !.outcome = "none"]
  <2>1. worker[w] \in Worker
    BY DEF TInv, Workforce
  <2>2. k.pc = "done"
    BY <2>1 DEF Worker
  <2>3. worker' = [worker EXCEPT ![w] = k]
    BY <1>3 DEF Done
  <2> QED
    BY <2>2, <2>3, ElsewhereIsNobody
<1>4. CASE worker' = [worker EXCEPT ![w] = Idle]
  BY <1>4, IdleIsWorker, ElsewhereIsNobody
<1> QED
  BY <1>1, <1>2, <1>3, <1>4

LEMMA NotWrote == NoWrite => Wrote
BY DEF NoWrite, Wrote

LEMMA ByOthers ==
    ASSUME TInv, UNCHANGED worker
    PROVE  NobodyNew
BY DEF NobodyNew

LEMMA StartingKnows ==
    ASSUME TInv, KInv, Starting
    PROVE  KInv'
<1>1. NobodyNew
  BY ByOthers DEF Starting, StartInserts, StartSends, StartFails, StartDies, Superseded
<1>2. Wrote
  <2>1. [NoRow EXCEPT !.status = "running"] \in SoundRow /\ [row EXCEPT !.status = "failed"] \in SoundRow
    BY NoRowIsSound, RowTypes DEF TInv
  <2> QED
    BY <2>1, NotWrote DEF Wrote, Starting, StartInserts, StartSends, StartFails, StartDies,
       Superseded
<1> QED
  BY <1>1, <1>2, KnowledgeStays

LEMMA FetchKnows ==
    ASSUME TInv, KInv, NEW w \in Workers, Fetch(w)
    PROVE  KInv'
<1>1. Wrote
  BY NotWrote DEF Fetch
<1>2. CASE FetchAnalyze(w)
  <2> DEFINE k == [worker[w] EXCEPT !.pc = "init", !.kind = "analyze"]
  <2>1. worker' = [worker EXCEPT ![w] = k] /\ k.pc = "init"
    BY <1>2 DEF FetchAnalyze, TInv, Workforce, Worker
  <2> QED
    BY <1>1, <2>1, ElsewhereIsNobody, KnowledgeStays
<1>3. ASSUME NEW b \in Batches, FetchBatch(w, b) PROVE KInv'
  <2> DEFINE k == [worker[w] EXCEPT !.pc = "read", !.kind = "batch", !.batch = b]
  <2>1. worker' = [worker EXCEPT ![w] = k] /\ k.pc = "read"
    BY <1>3 DEF FetchBatch, TInv, Workforce, Worker
  <2> QED
    BY <1>1, <2>1, ElsewhereIsNobody, KnowledgeStays
<1>4. ASSUME NEW n \in Attempts, FetchFinalize(w, n) PROVE KInv'
  <2> DEFINE k == [worker[w] EXCEPT !.pc = "check", !.kind = "finalize", !.attempt = n]
  <2>1. worker' = [worker EXCEPT ![w] = k] /\ k.pc = "check"
    BY <1>4 DEF FetchFinalize, TInv, Workforce, Worker
  <2> QED
    BY <1>1, <2>1, ElsewhereIsNobody, KnowledgeStays
<1> QED
  BY <1>2, <1>3, <1>4 DEF Fetch

LEMMA AnalyzingKnows ==
    ASSUME TInv, KInv, NEW w \in Workers, Analyzing(w)
    PROVE  KInv'
<1>1. NobodyNew
  BY MovesAreNobody DEF Analyzing, InitializeRecord, Samples, Lists, NoThreads, ResetStats,
     EnqueueBatches, PersistBatchState, QueueFinalization, Save
<1>2. worker[w].copy \in SoundRow
  BY DEF TInv, Workforce
<1>3. /\ [worker[w].copy EXCEPT !.status = "completed"] \in SoundRow
      /\ [NoRow EXCEPT !.status = worker[w].copy.status] \in SoundRow
      /\ [worker[w].copy EXCEPT !.total = TRUE, !.payloads = TRUE] \in SoundRow
  BY <1>2, RowTypes
<1>4. Wrote
  BY <1>2, <1>3, NotWrote DEF Wrote, Analyzing, InitializeRecord, Samples, Lists, NoThreads,
     ResetStats, EnqueueBatches, PersistBatchState, QueueFinalization, Save
<1> QED
  BY <1>1, <1>4, KnowledgeStays

LEMMA DiscoveringKnows ==
    ASSUME TInv, KInv, NEW w \in Workers, Discovering(w) \/ StoreFails(w)
    PROVE  KInv'
<1>1. CASE ReadForOutcome(w)
  <2>1. PICK o \in Outcomes(w) :
           worker' = [worker EXCEPT ![w].pc = "store", ![w].outcome = o,
                                    ![w].copy = WithOutcome(row, worker[w].batch, o)]
    BY <1>1 DEF ReadForOutcome
  <2> DEFINE r == WithOutcome(row, worker[w].batch, o)
             k == [worker[w] EXCEPT !.pc = "store", !.outcome = o, !.copy = r]
  <2> HIDE DEF r
  <2>2. worker' = [worker EXCEPT ![w] = k] /\ k.pc = "store"
    BY <2>1 DEF r, TInv, Workforce, Worker
  <2> QED
    BY <1>1, <2>2, ElsewhereIsNobody, NotWrote, KnowledgeStays DEF ReadForOutcome
<1>2. CASE StoreOutcome(w)
  <2>1. NobodyNew
    BY <1>2, MovesAreNobody DEF StoreOutcome
  <2>2. Wrote
    BY <1>2 DEF StoreOutcome, Wrote, TInv, Workforce
  <2> QED
    BY <2>1, <2>2, KnowledgeStays
<1>3. CASE StoreFails(w)
  <2> DEFINE k == [worker[w] EXCEPT !.pc = "read", !.outcome = "error", !.copy = NoRow]
  <2>1. worker' = [worker EXCEPT ![w] = k] /\ k.pc = "read"
    BY <1>3 DEF StoreFails, TInv, Workforce, Worker
  <2> QED
    BY <1>3, <2>1, ElsewhereIsNobody, NotWrote, KnowledgeStays DEF StoreFails
<1> QED
  BY <1>1, <1>2, <1>3 DEF Discovering

LEMMA FinalizingKnows ==
    ASSUME TInv, KInv, NEW w \in Workers, Finalizing(w)
    PROVE  KInv'
<1>1. CASE Requeue(w)
  <2>1. NobodyNew
    BY <1>1, MovesAreNobody DEF Requeue
  <2>2. [row EXCEPT !.status = "failed"] \in SoundRow
    BY RowTypes DEF TInv
  <2>3. Wrote
    BY <1>1, <2>2, NotWrote DEF Requeue, Wrote
  <2> QED
    BY <2>1, <2>3, KnowledgeStays
<1>2. CASE PersistFinal(w)
  <2>1. NobodyNew
    BY <1>2, MovesAreNobody DEF PersistFinal
  <2>2. [worker[w].copy EXCEPT !.status = "completed", !.payloads = FALSE] \in SoundRow
    BY RowTypes DEF TInv, Workforce
  <2>3. Wrote
    BY <1>2, <2>2 DEF PersistFinal, Wrote
  <2> QED
    BY <2>1, <2>3, KnowledgeStays
<1> QED
  BY <1>1, <1>2, CheckBatchesKnows, GatherKnowsAll DEF Finalizing

LEMMA FailingKnows ==
    ASSUME TInv, KInv, NEW w \in Workers, Dies(w) \/ AnalyzeThrows(w) \/ Completes(w)
    PROVE  KInv'
<1>1. NobodyNew
  BY MovesAreNobody DEF Dies, AnalyzeThrows, Completes
<1>2. [worker[w].copy EXCEPT !.status = "failed"] \in SoundRow
  BY RowTypes DEF TInv, Workforce
<1>3. Wrote
  BY <1>2, NotWrote DEF Dies, AnalyzeThrows, Completes, Wrote
<1> QED
  BY <1>1, <1>3, KnowledgeStays

LEMMA PollingAndCleaningKnow ==
    ASSUME TInv, KInv, Polling \/ Cleaning
    PROVE  KInv'
<1>1. NobodyNew
  BY ByOthers DEF Polling, Cleaning, PollReads, PollEnqueues, PollWrites, PollDies, Ages,
     CleanupFinds, CleanupFails
<1>2. [row EXCEPT !.status = "failed"] \in SoundRow
  BY RowTypes DEF TInv
<1>3. [poll.copy EXCEPT !.status = row.status] \in SoundRow
  <2>1. row.status \in {"none", "running", "completed", "failed"}
    BY DEF TInv, SoundRow, Row
  <2> QED
    BY <2>1, RowTypes DEF TInv
<1>4. Ages => Wrote
  BY DEF Ages, Wrote
<1>5. Wrote
  BY <1>2, <1>3, <1>4, NotWrote DEF Polling, Cleaning, PollReads, PollEnqueues, PollWrites,
     PollDies, CleanupFinds, CleanupFails, Wrote
<1> QED
  BY <1>1, <1>5, KnowledgeStays

(***************************************************************************)
(* The theorems                                                            *)
(***************************************************************************)

LEMMA InitInv == Init => IInv
<1> SUFFICES ASSUME Init PROVE IInv
  OBVIOUS
<1>1. Workforce(worker)
  BY IdleIsWorker DEF Init, Workforce
<1>2. poll \in Poll /\ poll.copy \in SoundRow
  BY NoRowIsSound DEF Init, NoPoll, Poll, SoundRow
<1>3. ready \in Ready
  BY Bounds DEF Init, Ready, Attempts
<1>4. TInv
  <2>1. row \in SoundRow
    BY NoRowIsSound DEF Init
  <2>2. polls \in 0..MaxPolls /\ faults \in 0..MaxFaults
    BY Bounds DEF Init
  <2> QED
    BY <1>1, <1>2, <1>3, <2>1, <2>2 DEF Init, TInv
<1>5. KInv
  BY DEF Init, KInv, ErrorsAreKnown, GatherKnows, FinalizesAll, At, Idle, NoRow
<1> QED
  BY <1>4, <1>5 DEF IInv

LEMMA NextInv == IInv /\ [Next]_vars => IInv'
<1> SUFFICES ASSUME IInv, [Next]_vars PROVE IInv'
  OBVIOUS
<1>1. TInv /\ KInv
  BY DEF IInv
<1>2. TInv'
  BY <1>1, NextTypes
<1>3. CASE UNCHANGED vars
  <2>1. NobodyNew /\ Wrote
    BY <1>1, <1>3, ByOthers DEF vars, Wrote
  <2> QED
    BY <1>1, <1>2, <2>1, KnowledgeStays DEF IInv
<1>4. CASE Starting
  BY <1>1, <1>2, <1>4, StartingKnows DEF IInv
<1>5. ASSUME NEW w \in Workers, Works(w) PROVE IInv'
  BY <1>1, <1>2, <1>5, FetchKnows, AnalyzingKnows, DiscoveringKnows, FinalizingKnows,
     FailingKnows DEF Works, IInv
<1>6. ASSUME NEW w \in Workers, Dies(w) \/ AnalyzeThrows(w) \/ StoreFails(w) PROVE IInv'
  BY <1>1, <1>2, <1>6, FailingKnows, DiscoveringKnows DEF IInv
<1>7. CASE Polling \/ Cleaning
  BY <1>1, <1>2, <1>7, PollingAndCleaningKnow DEF IInv
<1> QED
  BY <1>3, <1>4, <1>5, <1>6, <1>7 DEF Next

\* Every behaviour of the analysis keeps the invariant above.
THEOREM AnalysisInvariant == Spec => []IInv
<1>1. Init => IInv
  BY InitInv
<1>2. IInv /\ [Next]_vars => IInv'
  BY NextInv
<1> QED
  BY <1>1, <1>2, PTL DEF Spec

\* Row, queues, handlers and poll keep their types for any number of batches,
\* workers, polls and faults; attempts never pass MAX_FINALIZATION_RETRIES.
THEOREM TypeCorrect == Spec => []TypeOK
<1>1. IInv => TypeOK
  BY DEF IInv, TInv, TypeOK, SoundRow, Workforce
<1> QED
  BY <1>1, AnalysisInvariant, PTL

\* What the finaliser works with holds the discoveries of every batch, for any
\* number of batches and handlers, unless a batch was recorded as failed or a
\* stale save took an outcome away.
THEOREM FinalizedIsComplete == Spec => []FinalizesAll
<1>1. IInv => FinalizesAll
  BY DEF IInv, KInv
<1> QED
  BY <1>1, AnalysisInvariant, PTL

(***************************************************************************)
(* What can bring an analysis back                                         *)
(***************************************************************************)

\* The analysis has left "running" and no handler holds a copy of the row from
\* before that.
Ended ==
    /\ start # "none" /\ row.status # "running"
    /\ \A w \in Workers : worker[w].copy.status # "running"

\* A handler that moves on, holds an ended row or is done holds no running one.
LEMMA MovesEnd ==
    ASSUME TInv, Ended, NEW w \in Workers, NEW pc, NEW r, r.status # "running",
           \/ Goto(w, pc) \/ Hold(w, pc, r) \/ Done(w)
           \/ worker' = [worker EXCEPT ![w] = Idle]
    PROVE  \A v \in Workers : worker'[v].copy.status # "running"
<1>1. worker[w].copy.status # "running" /\ worker[w] \in Worker
  BY DEF Ended, TInv, Workforce
<1>2. NoRow.status # "running" /\ Idle.copy.status # "running"
  BY DEF NoRow, Idle
<1>3. worker'[w].copy.status # "running" /\ \A v \in Workers \ {w} : worker'[v] = worker[v]
  BY <1>1, <1>2 DEF Goto, Hold, Done, TInv, Workforce, Worker
<1> QED
  BY <1>3 DEF Ended

\* Once the analysis has ended, only a handler that read the row before can make
\* it running again (repository.save writes the status it read): no retry, no
\* second finaliser, no progress poll and no new job does, in whatever order
\* they come.
THEOREM StaysEnded == Spec => [][Ended => Ended']_vars
<1>1. ASSUME TInv, Ended, Starting \/ Polling \/ Cleaning PROVE Ended'
  <2>1. worker' = worker /\ start' # "none"
    BY <1>1
    DEF Ended, Starting, StartInserts, StartSends, StartFails, StartDies, Superseded, Polling,
        PollReads, PollEnqueues, PollWrites, PollDies, Cleaning, Ages, CleanupFinds,
        CleanupFails
  <2>2. row.status # "running" /\ row \in Row /\ poll.copy \in Row
    BY <1>1 DEF Ended, TInv, SoundRow
  <2>3. CASE Starting
    BY <1>1, <2>1, <2>2, <2>3
    DEF Ended, Starting, StartInserts, StartSends, StartFails, StartDies, Superseded, Write,
        NoWrite, Row
  <2>4. CASE PollWrites
    BY <1>1, <2>1, <2>2, <2>4 DEF Ended, PollWrites, Write, Row
  <2>5. CASE CleanupFails
    BY <1>1, <2>1, <2>2, <2>5 DEF Ended, CleanupFails, Write, Row
  <2>6. CASE row' = row
    BY <1>1, <2>1, <2>6 DEF Ended
  <2> QED
    BY <1>1, <2>3, <2>4, <2>5, <2>6
    DEF Polling, PollReads, PollEnqueues, PollDies, Cleaning, Ages, CleanupFinds, NoWrite
<1>2. ASSUME TInv, Ended, NEW w \in Workers,
             Works(w) \/ Dies(w) \/ AnalyzeThrows(w) \/ StoreFails(w)
      PROVE  Ended'
  <2>1. /\ row \in Row /\ row.status # "running" /\ worker[w] \in Worker
        /\ worker[w].copy \in Row /\ worker[w].copy.status # "running"
        /\ NoRow.status # "running"
    BY <1>2 DEF Ended, TInv, SoundRow, Workforce, NoRow
  <2>2. start' = start
    BY <1>2
    DEF Works, Fetch, Analyzing, Discovering, Finalizing, Completes, Dies, AnalyzeThrows,
        StoreFails, InitializeRecord, Samples, Lists, NoThreads, ResetStats, EnqueueBatches,
        PersistBatchState, QueueFinalization, ReadForOutcome, StoreOutcome, CheckBatches,
        Requeue, Gather, PersistFinal
  <2>3. CASE Fetch(w)
    <3>1. row' = row /\ \A v \in Workers : worker'[v].copy = worker[v].copy
      BY <1>2, <2>1, <2>3
      DEF Fetch, FetchAnalyze, FetchBatch, FetchFinalize, NoWrite, TInv, Workforce, Worker
    <3> QED BY <1>2, <2>2, <3>1 DEF Ended
  <2>4. CASE Analyzing(w)
    <3>1. CASE InitializeRecord(w) \/ EnqueueBatches(w) \/ QueueFinalization(w)
      BY <1>2, <2>1, <2>2, <3>1, MovesEnd
      DEF Ended, InitializeRecord, EnqueueBatches, QueueFinalization, NoWrite
    <3>2. CASE Samples(w) \/ Lists(w)
      BY <1>2, <2>1, <2>2, <3>2, MovesEnd DEF Ended, Samples, Lists, Save, Write
    <3>3. CASE NoThreads(w)
      <4>1. [worker[w].copy EXCEPT !.status = "completed"].status = "completed"
        BY <2>1 DEF Row
      <4> QED BY <1>2, <2>1, <2>2, <3>3, <4>1, MovesEnd DEF Ended, NoThreads, Write
    <3>4. CASE ResetStats(w)
      <4>1. [NoRow EXCEPT !.status = worker[w].copy.status].status # "running"
        BY <2>1 DEF NoRow
      <4> QED BY <1>2, <2>1, <2>2, <3>4, <4>1, MovesEnd DEF Ended, ResetStats, Save, Write
    <3>5. CASE PersistBatchState(w)
      <4>1. [worker[w].copy EXCEPT !.total = TRUE, !.payloads = TRUE].status # "running"
        BY <2>1 DEF Row
      <4> QED
        BY <1>2, <2>1, <2>2, <3>5, <4>1, MovesEnd DEF Ended, PersistBatchState, Save, Write
    <3> QED BY <2>4, <3>1, <3>2, <3>3, <3>4, <3>5 DEF Analyzing
  <2>5. CASE ReadForOutcome(w)
    <3>1. PICK o \in Outcomes(w) :
              worker' = [worker EXCEPT ![w].pc = "store", ![w].outcome = o,
                                       ![w].copy = WithOutcome(row, worker[w].batch, o)]
      BY <2>5 DEF ReadForOutcome
    <3>2. WithOutcome(row, worker[w].batch, o).status = row.status
      BY <2>1 DEF WithOutcome, Row
    <3>3. /\ worker'[w].copy.status # "running"
          /\ \A v \in Workers \ {w} : worker'[v] = worker[v]
      BY <1>2, <2>1, <3>1, <3>2 DEF TInv, Workforce, Worker
    <3> QED BY <1>2, <2>2, <2>5, <3>3 DEF Ended, ReadForOutcome, NoWrite
  <2>6. CASE StoreOutcome(w)
    BY <1>2, <2>1, <2>2, <2>6, MovesEnd DEF Ended, StoreOutcome, Write
  <2>7. CASE StoreFails(w)
    <3>1. /\ worker'[w].copy.status # "running"
          /\ \A v \in Workers \ {w} : worker'[v] = worker[v]
      BY <1>2, <2>1, <2>7 DEF StoreFails, TInv, Workforce, Worker
    <3> QED BY <1>2, <2>2, <2>7, <3>1 DEF Ended, StoreFails, NoWrite
  <2>8. CASE Finalizing(w)
    <3>1. CASE CheckBatches(w) \/ Gather(w)
      BY <1>2, <2>1, <2>2, <3>1, MovesEnd DEF Ended, CheckBatches, Gather, NoWrite
    <3>2. CASE Requeue(w)
      <4>1. [row EXCEPT !.status = "failed"].status = "failed"
        BY <2>1 DEF Row
      <4> QED BY <1>2, <2>1, <2>2, <3>2, <4>1, MovesEnd DEF Ended, Requeue, NoWrite, Write
    <3>3. CASE PersistFinal(w)
      <4>1. [worker[w].copy EXCEPT !.status = "completed", !.payloads = FALSE].status
              = "completed"
        BY <2>1 DEF Row
      <4> QED BY <1>2, <2>1, <2>2, <3>3, <4>1, MovesEnd DEF Ended, PersistFinal, Write
    <3> QED BY <2>8, <3>1, <3>2, <3>3 DEF Finalizing
  <2>9. CASE Completes(w) \/ Dies(w)
    BY <1>2, <2>1, <2>2, <2>9, MovesEnd DEF Ended, Completes, Dies, NoWrite
  <2>10. CASE AnalyzeThrows(w)
    <3>1. [worker[w].copy EXCEPT !.status = "failed"].status = "failed"
      BY <2>1 DEF Row
    <3> QED BY <1>2, <2>1, <2>2, <2>10, <3>1, MovesEnd DEF Ended, AnalyzeThrows, Write
  <2> QED
    BY <1>2, <2>3, <2>4, <2>5, <2>6, <2>7, <2>8, <2>9, <2>10 DEF Works, Discovering
<1>3. IInv /\ [Next]_vars => [Ended => Ended']_vars
  BY <1>1, <1>2 DEF Next, IInv
<1> QED
  BY <1>3, AnalysisInvariant, PTL DEF Spec

(***************************************************************************)
(* How many finalisers an analysis can have                                *)
(***************************************************************************)

\* The finaliser's jobs that wait, one element for each.
Waiting == {p \in Attempts \X (1..MaxReady) : p[2] <= ready.finalize[p[1]]}

\* The handlers that look after a finaliser, or after what will queue one, and
\* have not done so yet.
Tending == {w \in Workers : worker[w].kind \in {"analyze", "finalize"} /\ worker[w].pc # "done"}

Finalising == {w \in Workers : worker[w].kind = "finalize" /\ worker[w].pc # "done"}

\* Whatever may still become a finaliser: the request, the analysis job, those
\* handlers and the waiting jobs.
Load == (IF start = "over" THEN 0 ELSE 1) + ready.analyze + Cardinality(Tending)
        + Cardinality(Waiting)

TendingStages == {"init", "sample", "list", "reset", "enqueue", "persist", "finalizer", "check",
                  "requeue", "gather", "complete"}

\* A handler is where its kind of job takes it.
KindInv ==
    \A w \in Workers :
        /\ At(w, "idle") => worker[w].kind = "none"
        /\ worker[w].pc \in TendingStages => worker[w].kind \in {"analyze", "finalize"}

\* A step of a handler changes no other, and where it goes fits its job.
LEMMA StaysInKind ==
    ASSUME TInv, KindInv, NEW w \in Workers,
           Works(w) \/ Dies(w) \/ AnalyzeThrows(w) \/ StoreFails(w)
    PROVE  KindInv' /\ \A v \in Workers \ {w} : worker'[v] = worker[v]
<1>1. worker \in [Workers -> Worker] /\ worker[w] \in Worker
  BY DEF TInv, Workforce
<1>2. CASE Fetch(w)
  <2>1. /\ \/ worker'[w].kind = "analyze" /\ worker'[w].pc = "init"
           \/ worker'[w].kind = "batch" /\ worker'[w].pc = "read"
           \/ worker'[w].kind = "finalize" /\ worker'[w].pc = "check"
        /\ \A v \in Workers \ {w} : worker'[v] = worker[v]
    <3>1. CASE FetchAnalyze(w)
      BY <1>1, <3>1 DEF FetchAnalyze, Worker
    <3>2. CASE \E b \in Batches : FetchBatch(w, b)
      BY <1>1, <3>2 DEF FetchBatch, Worker
    <3>3. CASE \E n \in Attempts : FetchFinalize(w, n)
      BY <1>1, <3>3 DEF FetchFinalize, Worker
    <3> QED BY <1>2, <3>1, <3>2, <3>3 DEF Fetch
  <2> QED BY <2>1 DEF KindInv, At, TendingStages
<1>3. CASE worker' = [worker EXCEPT ![w] = Idle]
  BY <1>1, <1>3 DEF Idle, KindInv, At, TendingStages
<1>4. ASSUME /\ worker'[w].kind = worker[w].kind
             /\ worker'[w].pc \in TendingStages => worker[w].pc \in TendingStages
             /\ worker'[w].pc # "idle"
             /\ \A v \in Workers \ {w} : worker'[v] = worker[v]
      PROVE  KindInv'
  BY <1>4 DEF KindInv, At
<1>5. CASE Analyzing(w)
  <2>1. /\ worker'[w].kind = worker[w].kind
        /\ worker[w].pc \in TendingStages
        /\ worker'[w].pc # "idle"
        /\ \A v \in Workers \ {w} : worker'[v] = worker[v]
    BY <1>1, <1>5
    DEF Analyzing, InitializeRecord, Samples, Lists, NoThreads, ResetStats, EnqueueBatches,
        PersistBatchState, QueueFinalization, Save, Hold, Goto, Done, At, Worker, TendingStages
  <2> QED BY <1>4, <2>1
<1>6. CASE Finalizing(w)
  <2>1. /\ worker'[w].kind = worker[w].kind
        /\ worker[w].pc \in TendingStages
        /\ worker'[w].pc # "idle"
        /\ \A v \in Workers \ {w} : worker'[v] = worker[v]
    BY <1>1, <1>6
    DEF Finalizing, CheckBatches, Requeue, Gather, PersistFinal, Hold, Goto, Done, At, Worker,
        TendingStages
  <2> QED BY <1>4, <2>1
<1>7. CASE Discovering(w) \/ StoreFails(w)
  <2>1. /\ worker'[w].kind = worker[w].kind
        /\ worker'[w].pc \in {"read", "store", "done"}
        /\ \A v \in Workers \ {w} : worker'[v] = worker[v]
    <3>1. CASE ReadForOutcome(w)
      BY <1>1, <3>1 DEF ReadForOutcome, Worker
    <3>2. CASE StoreOutcome(w)
      BY <1>1, <3>2 DEF StoreOutcome, Done, Worker
    <3>3. CASE StoreFails(w)
      BY <1>1, <3>3 DEF StoreFails, Worker
    <3> QED BY <1>7, <3>1, <3>2, <3>3 DEF Discovering
  <2> QED BY <1>4, <2>1 DEF TendingStages
<1> QED
  BY <1>1, <1>2, <1>3, <1>5, <1>6, <1>7 DEF Works, Completes, Dies, AnalyzeThrows

\* Nobody else moves a handler.
LEMMA OthersKeepWorkers ==
    ASSUME TInv, Starting \/ Polling \/ Cleaning \/ UNCHANGED vars
    PROVE  UNCHANGED worker /\ UNCHANGED ready.finalize
<1>1. ready \in Ready
  BY DEF TInv
<1>2. UNCHANGED worker
  BY DEF Starting, StartInserts, StartSends, StartFails, StartDies, Superseded, Polling,
         PollReads, PollEnqueues, PollWrites, PollDies, Cleaning, Ages, CleanupFinds,
         CleanupFails, vars
<1>3. CASE StartSends
  BY <1>1, <1>2, <1>3 DEF StartSends, Ready
<1>4. CASE PollEnqueues
  BY <1>1, <1>2, <1>4 DEF PollEnqueues, Ready
<1>5. CASE ready' = ready
  BY <1>2, <1>5
<1> QED
  BY <1>3, <1>4, <1>5
  DEF Starting, StartInserts, StartFails, StartDies, Superseded, Polling, PollReads,
      PollWrites, PollDies, Cleaning, Ages, CleanupFinds, CleanupFails, vars

\* The sets counted are finite.
LEMMA LoadIsFinite ==
    ASSUME IsFiniteSet(Workers), TInv
    PROVE  /\ IsFiniteSet(Tending) /\ Cardinality(Tending) \in Nat
           /\ IsFiniteSet(Waiting) /\ Cardinality(Waiting) \in Nat
           /\ Cardinality(Finalising) \in Nat /\ Cardinality(Finalising) <= Cardinality(Tending)
           /\ ready.analyze \in 0..1
<1>1. IsFiniteSet(Tending) /\ Tending \subseteq Workers
  BY FS_Subset DEF Tending
<1>2. IsFiniteSet(Waiting)
  <2>1. IsFiniteSet(Attempts) /\ IsFiniteSet(1..MaxReady)
    BY Bounds, FS_Interval DEF Attempts
  <2>2. IsFiniteSet(Attempts \X (1..MaxReady))
    BY <2>1, FS_Product
  <2> QED BY <2>2, FS_Subset DEF Waiting
<1>3. Finalising \subseteq Tending
  BY DEF Finalising, Tending
<1> QED
  BY <1>1, <1>2, <1>3, FS_Subset, FS_CardinalityType DEF TInv, Ready

LEMMA LoadIsFiniteNext ==
    ASSUME IsFiniteSet(Workers), TInv'
    PROVE  /\ Cardinality(Tending') \in Nat /\ Cardinality(Waiting') \in Nat
           /\ ready'.analyze \in 0..1
<1>1. IsFiniteSet(Tending')
  BY FS_Subset DEF Tending
<1>2. IsFiniteSet(Attempts \X (1..MaxReady))
  <2>1. IsFiniteSet(Attempts) /\ IsFiniteSet(1..MaxReady)
    BY Bounds, FS_Interval DEF Attempts
  <2> QED BY <2>1, FS_Product
<1>3. IsFiniteSet(Waiting')
  BY <1>2, FS_Subset DEF Waiting
<1> QED
  BY <1>1, <1>3, FS_CardinalityType DEF TInv, Ready

\* A job more, a job less.
LEMMA WaitingMore ==
    ASSUME IsFiniteSet(Workers), TInv, NEW n \in Attempts, ready.finalize[n] < MaxReady,
           ready'.finalize = [ready.finalize EXCEPT ![n] = @ + 1]
    PROVE  Cardinality(Waiting') = Cardinality(Waiting) + 1
<1>1. ready.finalize \in [Attempts -> 0..MaxReady]
  BY DEF TInv, Ready
<1> DEFINE p == <<n, ready.finalize[n] + 1>>
<1>2. Waiting' = Waiting \cup {p} /\ p \notin Waiting
  BY <1>1, Bounds DEF Waiting
<1> QED
  BY <1>2, LoadIsFinite, FS_AddElement

LEMMA WaitingLess ==
    ASSUME IsFiniteSet(Workers), TInv, NEW n \in Attempts, ready.finalize[n] > 0,
           ready'.finalize = [ready.finalize EXCEPT ![n] = @ - 1]
    PROVE  Cardinality(Waiting') = Cardinality(Waiting) - 1
<1>1. ready.finalize \in [Attempts -> 0..MaxReady]
  BY DEF TInv, Ready
<1> DEFINE p == <<n, ready.finalize[n]>>
<1>2. Waiting' = Waiting \ {p} /\ p \in Waiting
  BY <1>1, Bounds DEF Waiting
<1> QED
  BY <1>2, LoadIsFinite, FS_RemoveElement

\* A handler takes a finaliser's or an analysis job, or is through with one.
LEMMA TendingMoves ==
    ASSUME IsFiniteSet(Workers), TInv, NEW w \in Workers,
           \A v \in Workers \ {w} : worker'[v] = worker[v]
    PROVE  /\ w \in Tending /\ w \notin Tending' =>
                 Cardinality(Tending') = Cardinality(Tending) - 1
           /\ w \notin Tending /\ w \in Tending' =>
                 Cardinality(Tending') = Cardinality(Tending) + 1
           /\ (w \in Tending <=> w \in Tending') => Tending' = Tending
<1>1. Tending' \ {w} = Tending \ {w}
  BY DEF Tending
<1>2. w \in Tending /\ w \notin Tending' => Tending' = Tending \ {w}
  BY <1>1
<1>3. w \notin Tending /\ w \in Tending' => Tending' = Tending \cup {w}
  BY <1>1
<1>4. (w \in Tending <=> w \in Tending') => Tending' = Tending
  BY <1>1
<1>5. /\ w \in Tending => Cardinality(Tending \ {w}) = Cardinality(Tending) - 1
      /\ w \notin Tending => Cardinality(Tending \cup {w}) = Cardinality(Tending) + 1
  BY LoadIsFinite, FS_AddElement, FS_RemoveElement
<1> QED
  BY <1>2, <1>3, <1>4, <1>5

\* A failed handler's job comes back at most once.
LEMMA ReturnedLoad ==
    ASSUME IsFiniteSet(Workers), TInv, NEW w \in Workers, Returned(w)
    PROVE  ready'.analyze + Cardinality(Waiting') <= ready.analyze + Cardinality(Waiting) + 1
<1>0. ready \in Ready /\ Cardinality(Waiting) \in Nat /\ ready.analyze \in 0..1
  BY LoadIsFinite DEF TInv
<1>1. CASE UNCHANGED ready
  BY <1>0, <1>1 DEF Waiting
<1>2. CASE ready' = [ready EXCEPT !.analyze = 1]
  BY <1>0, <1>2 DEF Waiting, Ready
<1>3. CASE ready' = [ready EXCEPT !.batch[worker[w].batch] = @ + 1]
  BY <1>0, <1>3 DEF Waiting, Ready
<1>4. CASE /\ ready.finalize[worker[w].attempt] < MaxReady
           /\ ready' = [ready EXCEPT !.finalize[worker[w].attempt] = @ + 1]
  <2>1. worker[w].attempt \in Attempts
    BY DEF TInv, Workforce, Worker
  <2>2. /\ ready'.finalize = [ready.finalize EXCEPT ![worker[w].attempt] = @ + 1]
        /\ ready'.analyze = ready.analyze
    BY <1>0, <1>4 DEF Ready
  <2> QED BY <1>0, <1>4, <2>1, <2>2, WaitingMore
<1> QED
  BY <1>1, <1>2, <1>3, <1>4 DEF Returned

\* The load grows only with a fault.
LEMMA LoadStep ==
    ASSUME IsFiniteSet(Workers), TInv, TInv', KindInv, [Next]_vars
    PROVE  /\ faults \in Nat /\ faults' \in Nat
           /\ \/ Load' <= Load /\ faults' >= faults
              \/ Load' <= Load + 1 /\ faults' = faults + 1
<1>1. /\ Cardinality(Tending) \in Nat /\ Cardinality(Waiting) \in Nat
      /\ ready.analyze \in 0..1 /\ ready'.analyze \in 0..1
      /\ faults \in Nat /\ faults' \in Nat
      /\ ready \in Ready
  BY LoadIsFinite, Bounds DEF TInv, Ready
<1>2. faults' >= faults
  <2>1. faults' = faults \/ faults' = faults + 1
    <3>1. ASSUME NEW w \in Workers, Works(w) \/ Dies(w) \/ AnalyzeThrows(w) \/ StoreFails(w)
          PROVE  faults' = faults \/ faults' = faults + 1
      BY <3>1
      DEF Works, Fetch, Analyzing, Discovering, Finalizing, Completes, Dies, AnalyzeThrows,
          StoreFails, InitializeRecord, Samples, Lists, NoThreads, ResetStats, EnqueueBatches,
          PersistBatchState, QueueFinalization, ReadForOutcome, StoreOutcome, CheckBatches,
          Requeue, Gather, PersistFinal, Fault
    <3> QED
      BY <3>1
      DEF Next, vars, Starting, StartInserts, StartSends, StartFails, StartDies, Superseded,
          Polling, PollReads, PollEnqueues, PollWrites, PollDies, Cleaning, Ages, CleanupFinds,
          CleanupFails, Fault
  <2> QED BY <1>1, <2>1
<1>3. CASE Starting \/ Polling \/ Cleaning \/ UNCHANGED vars
  <2>1. UNCHANGED Waiting /\ UNCHANGED Tending
    BY <1>3, OthersKeepWorkers DEF Waiting, Tending
  <2>2. \/ start' = start /\ ready'.analyze = ready.analyze
        \/ start = "inserted" /\ start' = "over"
        \/ start = "none" /\ start' = "inserted" /\ ready'.analyze = ready.analyze
    BY <1>1, <1>3
    DEF Starting, StartInserts, StartSends, StartFails, StartDies, Superseded, Polling,
        PollReads, PollEnqueues, PollWrites, PollDies, Cleaning, Ages, CleanupFinds,
        CleanupFails, vars, Ready
  <2> QED BY <1>1, <1>2, <2>1, <2>2 DEF Load
<1>4. ASSUME NEW w \in Workers, Works(w) \/ Dies(w) \/ AnalyzeThrows(w) \/ StoreFails(w)
      PROVE  \/ Load' <= Load
             \/ Load' <= Load + 1 /\ faults' = faults + 1
  <2>1. /\ w \in Tending /\ w \notin Tending' =>
              Cardinality(Tending') = Cardinality(Tending) - 1
        /\ w \notin Tending /\ w \in Tending' =>
              Cardinality(Tending') = Cardinality(Tending) + 1
        /\ (w \in Tending <=> w \in Tending') => Tending' = Tending
    BY <1>4, StaysInKind, TendingMoves
  <2>2. UNCHANGED start
    BY <1>4
    DEF Works, Fetch, Analyzing, Discovering, Finalizing, Completes, Dies, AnalyzeThrows,
        StoreFails, InitializeRecord, Samples, Lists, NoThreads, ResetStats, EnqueueBatches,
        PersistBatchState, QueueFinalization, ReadForOutcome, StoreOutcome, CheckBatches,
        Requeue, Gather, PersistFinal
  <2>3. worker[w] \in Worker /\ worker \in [Workers -> Worker]
    BY DEF TInv, Workforce
  <2>4. CASE FetchAnalyze(w)
    <3>1. ready.analyze = 1 /\ ready'.analyze = 0 /\ UNCHANGED ready.finalize
      BY <1>1, <2>4 DEF FetchAnalyze, Ready
    <3>2. UNCHANGED Waiting
      BY <3>1 DEF Waiting
    <3> QED BY <1>1, <2>1, <2>2, <3>1, <3>2 DEF Load
  <2>5. ASSUME NEW n \in Attempts, FetchFinalize(w, n) PROVE Load' <= Load
    <3>1. /\ ready.finalize[n] > 0
          /\ ready'.finalize = [ready.finalize EXCEPT ![n] = @ - 1]
          /\ ready'.analyze = ready.analyze
      BY <1>1, <2>5 DEF FetchFinalize, Ready
    <3>2. Cardinality(Waiting') = Cardinality(Waiting) - 1
      BY <3>1, WaitingLess
    <3> QED BY <1>1, <2>1, <2>2, <3>1, <3>2 DEF Load
  <2>6. CASE QueueFinalization(w) \/ Requeue(w)
    <3>1. w \in Tending /\ w \notin Tending'
      <4>1. At(w, "finalizer") \/ At(w, "requeue")
        BY <2>6 DEF QueueFinalization, Requeue
      <4>2. Done(w)
        BY <2>6 DEF QueueFinalization, Requeue
      <4>3. worker'[w].pc = "done"
        BY <2>3, <4>2 DEF Done, Worker
      <4> QED BY <4>1, <4>3 DEF KindInv, At, TendingStages, Tending
    <3>2. \/ UNCHANGED ready
          \/ \E n \in Attempts : /\ ready.finalize[n] < MaxReady
                                 /\ ready' = [ready EXCEPT !.finalize[n] = @ + 1]
      BY <2>6, Bounds DEF QueueFinalization, Requeue, Attempts
    <3>3. CASE UNCHANGED ready
      <4>1. UNCHANGED Waiting
        BY <3>3 DEF Waiting
      <4> QED BY <1>1, <2>1, <2>2, <3>1, <3>3, <4>1 DEF Load
    <3>4. ASSUME NEW n \in Attempts, ready.finalize[n] < MaxReady,
                 ready' = [ready EXCEPT !.finalize[n] = @ + 1]
          PROVE  Load' <= Load
      <4>1. /\ ready'.finalize = [ready.finalize EXCEPT ![n] = @ + 1]
            /\ ready'.analyze = ready.analyze
        BY <1>1, <3>4 DEF Ready
      <4>2. Cardinality(Waiting') = Cardinality(Waiting) + 1
        BY <3>4, <4>1, WaitingMore
      <4> QED BY <1>1, <2>1, <2>2, <3>1, <4>1, <4>2 DEF Load
    <3> QED BY <3>2, <3>3, <3>4
  <2>7. CASE Dies(w) \/ AnalyzeThrows(w)
    <3>1. Returned(w) /\ faults' = faults + 1
      BY <2>7 DEF Dies, AnalyzeThrows, Fault
    <3>2. w \notin Tending'
      BY <2>3, <2>7 DEF Dies, AnalyzeThrows, Tending, Idle
    <3>3. ready'.analyze + Cardinality(Waiting') <= ready.analyze + Cardinality(Waiting) + 1
      BY <3>1, ReturnedLoad
    <3>4. Cardinality(Waiting') \in Nat /\ Cardinality(Tending') \in Nat
      BY LoadIsFiniteNext
    <3>5. Cardinality(Tending') <= Cardinality(Tending)
      BY <1>1, <2>1, <3>2, <3>4
    <3> QED BY <1>1, <2>2, <3>1, <3>3, <3>4, <3>5 DEF Load
  <2>8. ASSUME w \in Tending' => w \in Tending, ready'.analyze = ready.analyze,
               ready'.finalize = ready.finalize
        PROVE  Load' <= Load
    <3>1. UNCHANGED Waiting
      BY <2>8 DEF Waiting
    <3> QED BY <1>1, <2>1, <2>2, <2>8, <3>1 DEF Load
  <2>9. CASE \E b \in Batches : FetchBatch(w, b)
    <3>1. w \notin Tending' /\ ready'.analyze = ready.analyze /\ ready'.finalize = ready.finalize
      BY <1>1, <2>3, <2>9 DEF FetchBatch, Tending, Worker, Ready
    <3> QED BY <2>8, <3>1
  <2>10. CASE Analyzing(w) /\ ~QueueFinalization(w)
    <3>1. w \in Tending
      BY <2>10
      DEF Analyzing, InitializeRecord, Samples, Lists, NoThreads, ResetStats, EnqueueBatches,
          PersistBatchState, KindInv, At, TendingStages, Tending
    <3>2. ready'.analyze = ready.analyze /\ ready'.finalize = ready.finalize
      BY <1>1, <2>10
      DEF Analyzing, InitializeRecord, Samples, Lists, NoThreads, ResetStats, EnqueueBatches,
          PersistBatchState, Ready
    <3> QED BY <2>8, <3>1, <3>2
  <2>11. CASE Finalizing(w) /\ ~Requeue(w)
    <3>1. w \in Tending
      BY <2>11
      DEF Finalizing, CheckBatches, Gather, PersistFinal, KindInv, At, TendingStages, Tending
    <3>2. ready'.analyze = ready.analyze /\ ready'.finalize = ready.finalize
      BY <2>11 DEF Finalizing, CheckBatches, Gather, PersistFinal
    <3> QED BY <2>8, <3>1, <3>2
  <2>12. CASE Discovering(w) \/ StoreFails(w) \/ Completes(w)
    <3>0. ready'.analyze = ready.analyze /\ ready'.finalize = ready.finalize
      BY <2>12 DEF Discovering, ReadForOutcome, StoreOutcome, StoreFails, Completes
    <3>1. \/ worker'[w] = Idle
          \/ worker'[w].kind = worker[w].kind /\ worker[w].pc # "done"
      <4>1. CASE ReadForOutcome(w)
        BY <2>3, <4>1 DEF ReadForOutcome, At, Worker
      <4>2. CASE StoreOutcome(w)
        BY <2>3, <4>2 DEF StoreOutcome, Done, At, Worker
      <4>3. CASE StoreFails(w)
        BY <2>3, <4>3 DEF StoreFails, At, Worker
      <4>4. CASE Completes(w)
        BY <2>3, <4>4 DEF Completes
      <4> QED BY <2>12, <4>1, <4>2, <4>3, <4>4 DEF Discovering
    <3>2. w \in Tending' => w \in Tending
      BY <3>1 DEF Tending, Idle
    <3> QED BY <2>8, <3>0, <3>2
  <2> QED
    BY <1>4, <2>4, <2>5, <2>6, <2>7, <2>9, <2>10, <2>11, <2>12 DEF Works, Fetch
<1> QED
  BY <1>1, <1>2, <1>3, <1>4 DEF Next

\* An analysis has one finaliser, and at most one more for each fault, whatever
\* the queue's window lets through and however often jobs are redelivered.
THEOREM FinalizersWithinFaults ==
    ASSUME IsFiniteSet(Workers)
    PROVE  Spec => [](Cardinality(Waiting) + Cardinality(Finalising) <= 1 + faults)
<1> DEFINE LInv == KindInv /\ Load <= 1 + faults
           Bound == Cardinality(Waiting) + Cardinality(Finalising) <= 1 + faults
<1>1. Init => LInv
  <2> SUFFICES ASSUME Init PROVE LInv
    OBVIOUS
  <2>1. KindInv
    BY DEF Init, KindInv, At, Idle, TendingStages
  <2>2. Tending = {} /\ Waiting = {}
    BY Bounds DEF Init, Tending, Waiting, Idle, Attempts
  <2>3. Cardinality(Tending) = 0 /\ Cardinality(Waiting) = 0
    BY <2>2, FS_EmptySet
  <2> QED BY <2>1, <2>3 DEF Init, Load
<1>2. IInv /\ LInv /\ [Next]_vars => LInv'
  <2> SUFFICES ASSUME IInv, LInv, [Next]_vars PROVE LInv'
    OBVIOUS
  <2>1. TInv /\ TInv'
    BY NextInv DEF IInv
  <2>2. KindInv'
    BY <2>1, StaysInKind, OthersKeepWorkers DEF Next, KindInv, At
  <2>3. Load \in Nat /\ Load' \in Nat
    BY <2>1, LoadIsFinite, LoadIsFiniteNext DEF Load
  <2> QED BY <2>1, <2>2, <2>3, LoadStep
<1>3. IInv /\ LInv => Bound
  <2> SUFFICES ASSUME IInv, LInv PROVE Bound
    OBVIOUS
  <2>1. faults \in Nat
    BY Bounds DEF IInv, TInv
  <2> QED BY <2>1, LoadIsFinite DEF Load, IInv
<1> HIDE DEF LInv, Bound
<1>4. Spec => []Bound
  BY <1>1, <1>2, <1>3, AnalysisInvariant, PTL DEF Spec
<1> QED
  BY <1>4 DEF Bound

=============================================================================
