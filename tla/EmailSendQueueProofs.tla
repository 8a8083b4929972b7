------------------------ MODULE EmailSendQueueProofs ------------------------
(***************************************************************************)
(* The send queue's guarantees for any number of sends, handlers, sweepers *)
(* and jobs, any retry budget and any number of faults.                    *)
(***************************************************************************)
EXTENDS EmailSendQueue, FiniteSetTheorems, TLAPS

(***************************************************************************)
(* The queue module                                                        *)
(***************************************************************************)

\* A slot whose job failed is ready again for the same key, or free.
LEMMA FailedSlot ==
    ASSUME job \in [Jobs -> JobType], JobInv, NEW j \in Jobs,
           job[j].state # "free"
    PROVE  /\ Failed(j) \in [Jobs -> JobType]
           /\ Completed(j) \in [Jobs -> JobType]
           /\ \A i \in Jobs : Failed(j)[i].state # "free" => Failed(j)[i].key \in Sends
           /\ \A i \in Jobs : Completed(j)[i].state # "free" => Completed(j)[i].key \in Sends
<1> USE SendAssumption DEF SendAssumption, Completed, FreeJob, JobType, JobState, JobInv
<1>1. Completed(j) \in [Jobs -> JobType]
  OBVIOUS
<1>2. \A i \in Jobs : Completed(j)[i].state # "free" => Completed(j)[i].key \in Sends
  OBVIOUS
<1>3. CASE job[j].retries < RetryLimit
  <2> DEFINE next == [state |-> "ready", key |-> job[j].key, retries |-> job[j].retries + 1]
  <2>1. job[j].retries + 1 \in 0..RetryLimit /\ job[j].key \in Sends
    BY <1>3
  <2>2. next \in JobType
    BY <2>1
  <2>3. Failed(j) = [job EXCEPT ![j] = next]
    BY <1>3 DEF Failed
  <2> HIDE DEF next
  <2>4. Failed(j) \in [Jobs -> JobType]
    BY <2>2, <2>3
  <2>5. next.key \in Sends
    BY <2>1 DEF next
  <2>6. QED
    BY <1>1, <1>2, <2>3, <2>4, <2>5
<1>4. CASE ~(job[j].retries < RetryLimit)
  BY <1>1, <1>2, <1>4 DEF Failed
<1>5. QED
  BY <1>1, <1>2, <1>3, <1>4

(***************************************************************************)
(* What the helpers do to the variables they write                         *)
(***************************************************************************)

\* An idle handler and an idle sweeper are well typed.
LEMMA IdleTypes == IdleHandler \in Handler /\ IdleSweeper \in Sweeper
  BY SendAssumption DEF SendAssumption, IdleHandler, Handler, HandlerPC,
                        IdleSweeper, Sweeper, SweeperPC

\* A new job takes a free slot, so nobody awaits it yet.
LEMMA EnqueueJob ==
    ASSUME job \in [Jobs -> JobType], JobInv, AwaitInv,
           handler \in [Handlers -> Handler], handler' = handler,
           NEW s \in Sends, Enqueue(s)
    PROVE  job' \in [Jobs -> JobType] /\ JobInv' /\ AwaitInv'
<1>1. PICK j \in Jobs :
        /\ job[j].state = "free"
        /\ job' = [job EXCEPT ![j] = [state |-> "ready", key |-> s, retries |-> 0]]
  BY DEF Enqueue
<1>2. [state |-> "ready", key |-> s, retries |-> 0] \in JobType
  BY SendAssumption DEF SendAssumption, JobType, JobState
<1>3. \A h \in Handlers : handler[h].job # NoJob =>
        handler[h].job \in Jobs /\ handler[h].job # j
  BY <1>1 DEF AwaitInv, Handler
<1>4. AwaitInv'
  BY <1>1, <1>3 DEF AwaitInv
<1> QED
  BY <1>1, <1>2, <1>4 DEF JobInv

\* Goto moves one handler and nothing else of it than the pc.
LEMMA GotoHandler ==
    ASSUME handler \in [Handlers -> Handler], NEW h \in Handlers,
           NEW pc \in HandlerPC, Goto(h, pc)
    PROVE  /\ handler' \in [Handlers -> Handler]
           /\ handler'[h].pc = pc
           /\ \A g \in Handlers : g # h => handler'[g] = handler[g]
           /\ \A g \in Handlers : handler'[g].send = handler[g].send
           /\ \A g \in Handlers : handler'[g].job = handler[g].job
           /\ \A g \in Handlers : handler'[g].attempts = handler[g].attempts
  BY DEF Goto, Handler

\* A step that leaves the queue alone keeps who awaits which job.
LEMMA QueueFrame ==
    ASSUME JobInv, AwaitInv, job' = job,
           \A g \in Handlers : handler'[g].job = handler[g].job
    PROVE  JobInv' /\ AwaitInv'
  BY DEF JobInv, AwaitInv

\* WriteRow writes one well-typed row and refreshes it.
LEMMA WriteRowStep ==
    ASSUME row \in [Sends -> Row], stale \subseteq Sends, NEW s \in Sends,
           NEW r \in Row, WriteRow(s, r)
    PROVE  /\ row' \in [Sends -> Row]
           /\ row'[s] = r
           /\ \A t \in Sends : t # s => row'[t] = row[t]
           /\ stale' \subseteq Sends
  BY DEF WriteRow

\* A handler that returns or throws is idle and settles a job only it awaited.
LEMMA LeaveHandler ==
    ASSUME job \in [Jobs -> JobType], JobInv,
           handler \in [Handlers -> Handler], AwaitInv, NEW h \in Handlers,
           Return(h) \/ Throw(h)
    PROVE  /\ handler' \in [Handlers -> Handler]
           /\ handler'[h] = IdleHandler
           /\ \A g \in Handlers : g # h => handler'[g] = handler[g]
           /\ job' \in [Jobs -> JobType]
           /\ JobInv'
           /\ AwaitInv'
<1>1. handler[h].job \in Jobs \cup {NoJob}
  BY DEF Handler
<1>2. CASE handler[h].job = NoJob
  <2>1. job' = job /\ handler' = [handler EXCEPT ![h] = IdleHandler]
    BY <1>2 DEF Return, Throw
  <2>2. AwaitInv'
    BY <2>1 DEF AwaitInv, IdleHandler
  <2> QED
    BY <2>1, <2>2, IdleTypes DEF JobInv
<1>3. CASE handler[h].job \in Jobs /\ handler[h].job # NoJob
  <2> DEFINE j == handler[h].job
  <2>1. job[j].state = "active" /\ \A g \in Handlers : handler[g].job = j => g = h
    BY <1>3 DEF AwaitInv
  <2>2. handler' = [handler EXCEPT ![h] = IdleHandler] /\ job' \in {Completed(j), Failed(j)}
    BY <1>3 DEF Return, Throw
  <2>3. job' \in [Jobs -> JobType] /\ JobInv'
    BY <1>3, <2>1, <2>2, FailedSlot DEF JobInv
  <2>4. \A i \in Jobs : i # j => job'[i] = job[i]
    BY <2>2 DEF Completed, Failed
  <2>5. AwaitInv'
    BY <2>1, <2>2, <2>4, SendAssumption DEF AwaitInv, IdleHandler, Handler
  <2> QED
    BY <2>2, <2>3, <2>5, IdleTypes
<1> QED
  BY <1>1, <1>2, <1>3

\* A fault is counted within the bound.
LEMMA FaultStep ==
    ASSUME faults \in 0..MaxFaults, Fault
    PROVE  faults' \in 0..MaxFaults
  BY SendAssumption DEF SendAssumption, Fault

\* Publish appends to one send's events.
LEMMA PublishStep ==
    ASSUME told \in [Sends -> Seq(Outcome)], NEW s \in Sends, NEW o \in Outcome,
           Publish(s, o)
    PROVE  /\ told' \in [Sends -> Seq(Outcome)]
           /\ told'[s] = Append(told[s], o)
           /\ \A t \in Sends : t # s => told'[t] = told[t]
  BY DEF Publish

\* Every record the actions write is a row; a claim needs budget left.
LEMMA RowTypes ==
    ASSUME NEW r \in Row
    PROVE  /\ [r EXCEPT !.status = "queued"] \in Row
           /\ r.attempts < MaxAttempts =>
                 [r EXCEPT !.status = "sending", !.attempts = @ + 1] \in Row
           /\ [r EXCEPT !.status = "sent", !.messageId = "provider"] \in Row
           /\ [r EXCEPT !.status = "failed", !.reason = "provider_rejected"] \in Row
           /\ [r EXCEPT !.status = "failed", !.reason = "unconfirmed"] \in Row
<1>1. r.attempts < MaxAttempts => r.attempts + 1 \in 0..MaxAttempts
  BY SendAssumption DEF SendAssumption, Row
<1>2. r.attempts < MaxAttempts =>
         [r EXCEPT !.status = "sending", !.attempts = @ + 1] \in Row
  BY <1>1 DEF Row, SendStatus
<1>3. [r EXCEPT !.status = "sent", !.messageId = "provider"] \in Row
  BY DEF Row, SendStatus
<1> QED
  BY <1>2, <1>3 DEF Row, SendStatus, FailureReason

\* Sweep moves one sweeper.
LEMMA SweepStep ==
    ASSUME sweeper \in [Sweepers -> Sweeper], NEW k \in Sweepers,
           NEW pc \in SweeperPC, NEW T \in SUBSET Sends, NEW s \in Sends \cup {NoSend},
           Sweep(k, pc, T, s)
    PROVE  /\ sweeper' \in [Sweepers -> Sweeper]
           /\ sweeper'[k] = [pc |-> pc, todo |-> T, send |-> s]
           /\ \A i \in Sweepers : i # k => sweeper'[i] = sweeper[i]
  BY DEF Sweep, Sweeper

\* A query returns stale rows of the status it asked for.
LEMMA StaleRows ==
    ASSUME stale \subseteq Sends, NEW status, NEW T \in FindStale(status)
    PROVE  T \subseteq stale /\ \A s \in T : row[s].status = status
  BY DEF FindStale

\* A handler that is not idle works on a row.
LEMMA BusyHandler ==
    ASSUME BusyInv, NEW h \in Handlers, handler[h].pc # "idle"
    PROVE  handler[h].send \in Sends
  BY DEF BusyInv

\* Every step keeps the variables well typed.
LEMMA TypeStep ==
    ASSUME TypeOK, JobInv, AwaitInv, RowInv, BusyInv, [Next]_vars
    PROVE  TypeOK'
<1>1. ASSUME NEW s \in Sends, Persist(s)
      PROVE  TypeOK'
  BY <1>1, WriteRowStep, RowTypes DEF Persist, ApiState, TypeOK
<1>2. ASSUME NEW s \in Sends, EnqueueSend(s)
      PROVE  TypeOK'
  BY <1>2, EnqueueJob DEF EnqueueSend, ApiState, TypeOK
<1>3. ASSUME NEW s \in Sends, EnqueueLost(s)
      PROVE  TypeOK'
  BY <1>3, FaultStep DEF EnqueueLost, ApiState, TypeOK
<1>4. ASSUME NEW s \in Sends, Age(s)
      PROVE  TypeOK'
  BY <1>4 DEF Age, TypeOK
<1>5. ASSUME NEW h \in Handlers, NEW j \in Jobs, Fetch(h, j)
      PROVE  TypeOK'
  <2>1. job' \in [Jobs -> JobType]
    BY <1>5 DEF Fetch, FetchJob, TypeOK, JobType, JobState
  <2>2. job[j].key \in Sends
    BY <1>5 DEF Fetch, FetchJob, JobInv
  <2>3. [pc |-> "claim", send |-> job[j].key, job |-> j, attempts |-> 0] \in Handler
    BY <2>2, SendAssumption DEF SendAssumption, Handler, HandlerPC
  <2> QED
    BY <1>5, <2>1, <2>3 DEF Fetch, TypeOK
<1>6. ASSUME NEW h \in Handlers, ClaimThrows(h)
      PROVE  TypeOK'
  BY <1>6, LeaveHandler, FaultStep, BusyHandler DEF ClaimThrows, TypeOK
<1>7. ASSUME NEW h \in Handlers, Claim(h)
      PROVE  TypeOK'
  BY <1>7, GotoHandler, WriteRowStep, RowTypes, BusyHandler
     DEF Claim, HandlerPC, HoldPC, RowInv, RowFacts, TypeOK
<1>8. ASSUME NEW h \in Handlers, ClaimLost(h)
      PROVE  TypeOK'
  BY <1>8, LeaveHandler, BusyHandler DEF ClaimLost, TypeOK
<1>9. ASSUME NEW h \in Handlers, Reread(h)
      PROVE  TypeOK'
  BY <1>9, BusyHandler, ZenonT(60) DEF Reread, Handler, HandlerPC, HoldPC, Row, TypeOK
<1>10. ASSUME NEW h \in Handlers, RereadThrows(h)
      PROVE  TypeOK'
  BY <1>10, LeaveHandler, FaultStep, BusyHandler DEF RereadThrows, TypeOK
<1>11. ASSUME NEW h \in Handlers, ProviderAccepts(h)
      PROVE  TypeOK'
  <2>1. wire' \in [Sends -> Nat]
    <3>1. wire \in [Sends -> Nat]
      BY DEF TypeOK
    <3>2. PICK s \in Sends : s = handler[h].send
      BY <1>11, BusyHandler DEF ProviderAccepts
    <3>3. wire' = [wire EXCEPT ![s] = wire[s] + 1]
      BY <1>11, <3>2 DEF ProviderAccepts
    <3> QED
      BY <3>1, <3>3
  <2>2. handler' \in [Handlers -> Handler]
    BY <1>11, GotoHandler DEF ProviderAccepts, TypeOK, HandlerPC, HoldPC
  <2> QED
    BY <1>11, <2>1, <2>2 DEF ProviderAccepts, TypeOK
<1>12. ASSUME NEW h \in Handlers, ProviderRejects(h)
      PROVE  TypeOK'
  BY <1>12, GotoHandler, BusyHandler DEF ProviderRejects, HandlerPC, HoldPC, TypeOK
<1>13. ASSUME NEW h \in Handlers, PostAcceptThrows(h)
      PROVE  TypeOK'
  <2>1. hidden' \in [Sends -> Nat]
    <3>1. hidden \in [Sends -> Nat]
      BY DEF TypeOK
    <3>2. PICK s \in Sends : s = handler[h].send
      BY <1>13, BusyHandler DEF PostAcceptThrows
    <3>3. hidden' = [hidden EXCEPT ![s] = hidden[s] + 1]
      BY <1>13, <3>2 DEF PostAcceptThrows
    <3> QED
      BY <3>1, <3>3
  <2>2. handler' \in [Handlers -> Handler]
    BY <1>13, GotoHandler DEF PostAcceptThrows, TypeOK, HandlerPC, HoldPC
  <2> QED
    BY <1>13, <2>1, <2>2 DEF PostAcceptThrows, TypeOK
<1>14. ASSUME NEW h \in Handlers, MarkSent(h)
      PROVE  TypeOK'
  BY <1>14, GotoHandler, WriteRowStep, RowTypes, BusyHandler
     DEF MarkSent, HandlerPC, HoldPC, TypeOK
<1>15. ASSUME NEW h \in Handlers, CreateComposeFollowUp(h)
      PROVE  TypeOK'
  BY <1>15, GotoHandler, BusyHandler
     DEF CreateComposeFollowUp, HandlerPC, HoldPC, TypeOK
<1>16. ASSUME NEW h \in Handlers, PublishSent(h)
      PROVE  TypeOK'
  BY <1>16, LeaveHandler, PublishStep, BusyHandler DEF PublishSent, Outcome, TypeOK
<1>17. ASSUME NEW h \in Handlers, ReleaseForRetry(h)
      PROVE  TypeOK'
  BY <1>17, GotoHandler, WriteRowStep, RowTypes, BusyHandler, ZenonT(60)
     DEF ReleaseForRetry, HandlerPC, HoldPC, TypeOK
<1>18. ASSUME NEW h \in Handlers, Rethrow(h)
      PROVE  TypeOK'
  BY <1>18, LeaveHandler, BusyHandler DEF Rethrow, TypeOK
<1>19. ASSUME NEW h \in Handlers, MarkRejected(h)
      PROVE  TypeOK'
  BY <1>19, GotoHandler, WriteRowStep, RowTypes, BusyHandler
     DEF MarkRejected, HandlerPC, HoldPC, TypeOK
<1>20. ASSUME NEW h \in Handlers, PublishRejected(h)
      PROVE  TypeOK'
  BY <1>20, LeaveHandler, PublishStep, BusyHandler
     DEF PublishRejected, Outcome, TypeOK
<1>21. ASSUME NEW h \in Handlers, ErrorWriteThrows(h)
      PROVE  TypeOK'
  BY <1>21, LeaveHandler, FaultStep, BusyHandler DEF ErrorWriteThrows, TypeOK
<1>22. ASSUME NEW h \in Handlers, Crash(h)
      PROVE  TypeOK'
  BY <1>22, FaultStep, IdleTypes DEF Crash, TypeOK
<1>23. ASSUME NEW j \in Jobs, Expire(j)
      PROVE  TypeOK'
  BY <1>23, FailedSlot DEF Expire, Handler, TypeOK
<1>24. ASSUME NEW k \in Sweepers, SweepQueued(k)
      PROVE  TypeOK'
  <2>1. PICK T \in FindStale("queued") : Sweep(k, "requeue", T, NoSend)
    BY <1>24 DEF SweepQueued
  <2>2. T \in SUBSET Sends
    BY <2>1, StaleRows DEF TypeOK
  <2>3. sweeper' \in [Sweepers -> Sweeper]
    BY <2>1, <2>2, SweepStep DEF TypeOK, SweeperPC
  <2> QED
    BY <1>24, <2>3 DEF SweepQueued, TypeOK
<1>25. ASSUME NEW k \in Sweepers, Requeue(k)
      PROVE  TypeOK'
  BY <1>25, EnqueueJob, IdleTypes, SweepStep
     DEF Requeue, Sweeper, SweeperPC, BusyInv, TypeOK
<1>26. ASSUME NEW k \in Sweepers, SweepSending(k)
      PROVE  TypeOK'
  <2>1. PICK T \in FindStale("sending") : Sweep(k, "close", T, NoSend)
    BY <1>26 DEF SweepSending
  <2>2. T \in SUBSET Sends
    BY <2>1, StaleRows DEF TypeOK
  <2>3. sweeper' \in [Sweepers -> Sweeper]
    BY <2>1, <2>2, SweepStep DEF TypeOK, SweeperPC
  <2> QED
    BY <1>26, <2>3 DEF SweepSending, TypeOK
<1>27. ASSUME NEW k \in Sweepers, MarkUnconfirmed(k)
      PROVE  TypeOK'
  BY <1>27, WriteRowStep, RowTypes, IdleTypes, SweepStep
     DEF MarkUnconfirmed, Sweeper, SweeperPC, BusyInv, TypeOK
<1>28. ASSUME NEW k \in Sweepers, PublishUnconfirmed(k)
      PROVE  TypeOK'
  BY <1>28, PublishStep, IdleTypes, SweepStep
     DEF PublishUnconfirmed, Outcome, Sweeper, SweeperPC, BusyInv, TypeOK
<1>29. ASSUME NEW k \in Sweepers, SweepDone(k)
      PROVE  TypeOK'
  BY <1>29, IdleTypes DEF SweepDone, Sweeper, SweeperPC, BusyInv, TypeOK
<1>30. ASSUME NEW k \in Sweepers, SweepAborts(k)
      PROVE  TypeOK'
  BY <1>30, FaultStep, IdleTypes
     DEF SweepAborts, Sweeper, SweeperPC, BusyInv, TypeOK
<1>31. CASE UNCHANGED vars
  BY <1>31 DEF vars, TypeOK
<1> QED
  BY <1>1, <1>2, <1>3, <1>4, <1>5, <1>6, <1>7, <1>8, <1>9, <1>10, <1>11, <1>12, <1>13, <1>14, <1>15, <1>16, <1>17, <1>18, <1>19, <1>20, <1>21, <1>22, <1>23, <1>24, <1>25, <1>26, <1>27, <1>28, <1>29, <1>30, <1>31
     DEF Next, Endpoint, HandlerProgress, HandlerFault, SweeperProgress

\* Every step keeps the queue consistent with who awaits which job.
LEMMA JobStep ==
    ASSUME TypeOK, JobInv, AwaitInv, BusyInv, [Next]_vars
    PROVE  JobInv' /\ AwaitInv'
<1>1. ASSUME NEW s \in Sends, Persist(s)
      PROVE  JobInv' /\ AwaitInv'
  BY <1>1 DEF Persist, TypeOK, JobInv, AwaitInv, IdleHandler
<1>2. ASSUME NEW s \in Sends, EnqueueSend(s)
      PROVE  JobInv' /\ AwaitInv'
  BY <1>2, EnqueueJob DEF EnqueueSend, TypeOK, Sweeper
<1>3. ASSUME NEW s \in Sends, EnqueueLost(s)
      PROVE  JobInv' /\ AwaitInv'
  BY <1>3 DEF EnqueueLost, TypeOK, JobInv, AwaitInv, IdleHandler
<1>4. ASSUME NEW s \in Sends, Age(s)
      PROVE  JobInv' /\ AwaitInv'
  BY <1>4 DEF Age, TypeOK, JobInv, AwaitInv, IdleHandler
<1>5. ASSUME NEW h \in Handlers, NEW j \in Jobs, Fetch(h, j)
      PROVE  JobInv' /\ AwaitInv'
  BY <1>5, SendAssumption
     DEF Fetch, FetchJob, TypeOK, JobType, Handler, JobInv, AwaitInv
<1>6. ASSUME NEW h \in Handlers, ClaimThrows(h)
      PROVE  JobInv' /\ AwaitInv'
  BY <1>6, LeaveHandler DEF ClaimThrows, TypeOK
<1>7. ASSUME NEW h \in Handlers, Claim(h)
      PROVE  JobInv' /\ AwaitInv'
  BY <1>7, GotoHandler, QueueFrame DEF Claim, TypeOK, HandlerPC, HoldPC
<1>8. ASSUME NEW h \in Handlers, ClaimLost(h)
      PROVE  JobInv' /\ AwaitInv'
  BY <1>8, LeaveHandler DEF ClaimLost, TypeOK
<1>9. ASSUME NEW h \in Handlers, Reread(h)
      PROVE  JobInv' /\ AwaitInv'
  BY <1>9 DEF Reread, TypeOK, JobInv, AwaitInv, IdleHandler
<1>10. ASSUME NEW h \in Handlers, RereadThrows(h)
      PROVE  JobInv' /\ AwaitInv'
  BY <1>10, LeaveHandler DEF RereadThrows, TypeOK
<1>11. ASSUME NEW h \in Handlers, ProviderAccepts(h)
      PROVE  JobInv' /\ AwaitInv'
  BY <1>11, GotoHandler, QueueFrame DEF ProviderAccepts, TypeOK, HandlerPC, HoldPC
<1>12. ASSUME NEW h \in Handlers, ProviderRejects(h)
      PROVE  JobInv' /\ AwaitInv'
  BY <1>12, GotoHandler, QueueFrame DEF ProviderRejects, TypeOK, HandlerPC, HoldPC
<1>13. ASSUME NEW h \in Handlers, PostAcceptThrows(h)
      PROVE  JobInv' /\ AwaitInv'
  BY <1>13, GotoHandler, QueueFrame DEF PostAcceptThrows, TypeOK, HandlerPC, HoldPC
<1>14. ASSUME NEW h \in Handlers, MarkSent(h)
      PROVE  JobInv' /\ AwaitInv'
  BY <1>14, GotoHandler, QueueFrame DEF MarkSent, TypeOK, HandlerPC, HoldPC
<1>15. ASSUME NEW h \in Handlers, CreateComposeFollowUp(h)
      PROVE  JobInv' /\ AwaitInv'
  BY <1>15, GotoHandler, QueueFrame
     DEF CreateComposeFollowUp, TypeOK, HandlerPC, HoldPC
<1>16. ASSUME NEW h \in Handlers, PublishSent(h)
      PROVE  JobInv' /\ AwaitInv'
  BY <1>16, LeaveHandler DEF PublishSent, TypeOK
<1>17. ASSUME NEW h \in Handlers, ReleaseForRetry(h)
      PROVE  JobInv' /\ AwaitInv'
  BY <1>17, GotoHandler, QueueFrame DEF ReleaseForRetry, TypeOK, HandlerPC, HoldPC
<1>18. ASSUME NEW h \in Handlers, Rethrow(h)
      PROVE  JobInv' /\ AwaitInv'
  BY <1>18, LeaveHandler DEF Rethrow, TypeOK
<1>19. ASSUME NEW h \in Handlers, MarkRejected(h)
      PROVE  JobInv' /\ AwaitInv'
  BY <1>19, GotoHandler, QueueFrame DEF MarkRejected, TypeOK, HandlerPC, HoldPC
<1>20. ASSUME NEW h \in Handlers, PublishRejected(h)
      PROVE  JobInv' /\ AwaitInv'
  BY <1>20, LeaveHandler DEF PublishRejected, TypeOK
<1>21. ASSUME NEW h \in Handlers, ErrorWriteThrows(h)
      PROVE  JobInv' /\ AwaitInv'
  BY <1>21, LeaveHandler DEF ErrorWriteThrows, TypeOK
<1>22. ASSUME NEW h \in Handlers, Crash(h)
      PROVE  JobInv' /\ AwaitInv'
  BY <1>22 DEF Crash, TypeOK, JobInv, AwaitInv, IdleHandler
<1>23. ASSUME NEW j \in Jobs, Expire(j)
      PROVE  JobInv' /\ AwaitInv'
  <2>1. \A i \in Jobs : i # j => job'[i] = job[i]
    BY <1>23 DEF Expire, Failed, Completed
  <2>2. JobInv'
    BY <1>23, FailedSlot DEF Expire, TypeOK, JobInv
  <2>3. \A g \in Handlers : handler'[g].job =
                               IF handler[g].job = j THEN NoJob ELSE handler[g].job
    BY <1>23 DEF Expire, TypeOK, Handler
  <2>4. \A g \in Handlers : handler[g].job # NoJob => handler[g].job \in Jobs
    BY DEF TypeOK, Handler
  <2>5. AwaitInv'
    BY <2>1, <2>3, <2>4 DEF AwaitInv
  <2> QED
    BY <2>2, <2>5
<1>24. ASSUME NEW k \in Sweepers, SweepQueued(k)
      PROVE  JobInv' /\ AwaitInv'
  BY <1>24 DEF SweepQueued, TypeOK, JobInv, AwaitInv, IdleHandler
<1>25. ASSUME NEW k \in Sweepers, Requeue(k)
      PROVE  JobInv' /\ AwaitInv'
  BY <1>25, EnqueueJob DEF Requeue, TypeOK, Sweeper
<1>26. ASSUME NEW k \in Sweepers, SweepSending(k)
      PROVE  JobInv' /\ AwaitInv'
  BY <1>26 DEF SweepSending, TypeOK, JobInv, AwaitInv, IdleHandler
<1>27. ASSUME NEW k \in Sweepers, MarkUnconfirmed(k)
      PROVE  JobInv' /\ AwaitInv'
  BY <1>27 DEF MarkUnconfirmed, TypeOK, JobInv, AwaitInv, IdleHandler
<1>28. ASSUME NEW k \in Sweepers, PublishUnconfirmed(k)
      PROVE  JobInv' /\ AwaitInv'
  BY <1>28 DEF PublishUnconfirmed, TypeOK, JobInv, AwaitInv, IdleHandler
<1>29. ASSUME NEW k \in Sweepers, SweepDone(k)
      PROVE  JobInv' /\ AwaitInv'
  BY <1>29 DEF SweepDone, TypeOK, JobInv, AwaitInv, IdleHandler
<1>30. ASSUME NEW k \in Sweepers, SweepAborts(k)
      PROVE  JobInv' /\ AwaitInv'
  BY <1>30 DEF SweepAborts, TypeOK, JobInv, AwaitInv, IdleHandler
<1>31. CASE UNCHANGED vars
  BY <1>31 DEF vars, JobInv, AwaitInv
<1> QED
  BY <1>1, <1>2, <1>3, <1>4, <1>5, <1>6, <1>7, <1>8, <1>9, <1>10, <1>11, <1>12, <1>13, <1>14, <1>15, <1>16, <1>17, <1>18, <1>19, <1>20, <1>21, <1>22, <1>23, <1>24, <1>25, <1>26, <1>27, <1>28, <1>29, <1>30, <1>31
     DEF Next, Endpoint, HandlerProgress, HandlerFault, SweeperProgress

(***************************************************************************)
(* Exclusive claims and the attempts budget                                *)
(***************************************************************************)

\* A step that touches one row has only that row's facts to establish.
LEMMA OtherRows ==
    ASSUME RowInv, NEW s \in Sends, RowFacts(s)',
           \A t \in Sends : t # s =>
              row'[t] = row[t] /\ wire'[t] = wire[t] /\ api'[t] = api[t]
    PROVE  RowInv'
<1>1. \A t \in Sends : t # s => RowFacts(t)'
  BY DEF RowInv, RowFacts
<1> QED
  BY <1>1 DEF RowInv

\* A step of one handler that writes neither rows nor the wire and gains no
\* claim keeps the row, holder and exclusivity invariants.
LEMMA HandlerMoves ==
    ASSUME RowInv, HolderInv, ExclusiveClaim,
           row' = row, api' = api, wire' = wire, NEW h \in Handlers,
           \A g \in Handlers : g # h => handler'[g] = handler[g],
           \A s \in Sends : Holds(h, s)' =>
              /\ Holds(h, s)
              /\ handler'[h].pc # "reread" => handler'[h].attempts = row[s].attempts
              /\ handler'[h].pc \in {"reread", "dispatch"} => wire[s] < row[s].attempts
              /\ handler'[h].pc = "accepted" => wire[s] > 0
    PROVE  RowInv' /\ HolderInv' /\ ExclusiveClaim'
<1>1. RowInv'
  BY DEF RowInv, RowFacts
<1>2. \A g \in Handlers : \A s \in Sends : Holds(g, s)' => Holds(g, s)
  BY DEF Holds
<1>3. HolderInv'
  BY <1>2 DEF HolderInv, ClaimFacts, Holds
<1>4. ExclusiveClaim'
  BY <1>2 DEF ExclusiveClaim
<1> QED
  BY <1>1, <1>3, <1>4

\* In particular a step after which the handler holds nothing.
LEMMA HandlerDrops ==
    ASSUME RowInv, HolderInv, ExclusiveClaim,
           row' = row, api' = api, wire' = wire, NEW h \in Handlers,
           \A g \in Handlers : g # h => handler'[g] = handler[g],
           handler'[h].pc \notin HoldPC
    PROVE  RowInv' /\ HolderInv' /\ ExclusiveClaim'
<1>1. \A s \in Sends : ~Holds(h, s)'
  BY DEF Holds
<1> QED
  BY <1>1, HandlerMoves

\* A step that leaves rows, wire, endpoints and the handlers' claims alone.
LEMMA ClaimFrame ==
    ASSUME RowInv, HolderInv, ExclusiveClaim,
           row' = row, wire' = wire,
           \A s \in Sends : api'[s] = "none" => api[s] = "none",
           \A g \in Handlers : /\ handler'[g].pc = handler[g].pc
                               /\ handler'[g].send = handler[g].send
                               /\ handler'[g].attempts = handler[g].attempts
    PROVE  RowInv' /\ HolderInv' /\ ExclusiveClaim'
<1>1. \A g \in Handlers : \A s \in Sends : Holds(g, s)' <=> Holds(g, s)
  BY DEF Holds
<1> QED
  BY <1>1 DEF RowInv, RowFacts, HolderInv, ClaimFacts, ExclusiveClaim

\* A handler that holds the claim and writes an outcome gives the claim up:
\* nobody else held it, so nobody holds it afterwards.
LEMMA ClaimGivenUp ==
    ASSUME RowInv, HolderInv, ExclusiveClaim, TypeOK,
           api' = api, wire' = wire, NEW h \in Handlers, NEW s \in Sends,
           Holds(h, s), handler'[h].pc \notin HoldPC,
           \A g \in Handlers : g # h => handler'[g] = handler[g],
           \A t \in Sends : t # s => row'[t] = row[t],
           row'[s].status \in {"queued", "sent", "failed"},
           row'[s].attempts = row[s].attempts,
           row'[s].status = "queued" => row[s].attempts < MaxAttempts /\ row'[s].messageId = "null",
           row'[s].status = "sent" => row'[s].messageId # "null",
           row'[s].messageId # "null" => wire[s] > 0
    PROVE  RowInv' /\ HolderInv' /\ ExclusiveClaim'
<1>1. \A g \in Handlers : \A t \in Sends :
         Holds(g, t)' => Holds(g, t) /\ g # h /\ handler'[g] = handler[g]
  BY DEF Holds
<1>2. \A g \in Handlers : Holds(g, s) => g = h
  BY DEF ExclusiveClaim
<1>3. \A g \in Handlers : \A t \in Sends : Holds(g, t)' => t # s
  BY <1>1, <1>2
<1>4. HolderInv'
  BY <1>1, <1>3 DEF HolderInv, ClaimFacts
<1>5. ExclusiveClaim'
  BY <1>1 DEF ExclusiveClaim
<1>6. row[s].status \in {"sending", "failed"}
  BY DEF HolderInv, ClaimFacts
<1>7. RowFacts(s)'
  BY <1>6 DEF RowInv, RowFacts
<1>8. RowInv'
  BY <1>7, OtherRows
<1> QED
  BY <1>4, <1>5, <1>8

\* Every step keeps rows, claims and the wire consistent: the heart of the proof.
\* The writers of a row are its exclusive holder, a claimer of a queued row that
\* nobody holds, and a sweeper, which can only fail it.
LEMMA ClaimStep ==
    ASSUME TypeOK, JobInv, AwaitInv, RowInv, HolderInv, ExclusiveClaim, BusyInv, [Next]_vars
    PROVE  RowInv' /\ HolderInv' /\ ExclusiveClaim'
<1>1. ASSUME NEW s \in Sends, Persist(s)
      PROVE  RowInv' /\ HolderInv' /\ ExclusiveClaim'
  <2>1. row[s].status = "absent" /\ row[s].attempts = 0 /\ row[s].messageId = "null"
    BY <1>1 DEF Persist, RowInv, RowFacts
  <2>2. \A g \in Handlers : \A t \in Sends : Holds(g, t) => t # s
    BY <2>1 DEF HolderInv, ClaimFacts
  <2>3. /\ row'[s] = [row[s] EXCEPT !.status = "queued"]
        /\ \A t \in Sends : t # s => row'[t] = row[t]
    BY <1>1, WriteRowStep, RowTypes DEF Persist, TypeOK
  <2>4. /\ row'[s].status = "queued"
        /\ row'[s].attempts = 0
        /\ row'[s].messageId = "null"
    BY <2>1, <2>3 DEF TypeOK, Row
  <2>5. /\ api'[s] # "none" /\ wire' = wire
        /\ \A t \in Sends : t # s => api'[t] = api[t]
    BY <1>1 DEF Persist, TypeOK
  <2>6. RowFacts(s)'
    BY <2>1, <2>4, <2>5, SendAssumption DEF SendAssumption, RowInv, RowFacts
  <2>7. RowInv'
    BY <2>3, <2>5, <2>6, OtherRows
  <2>8. handler' = handler
    BY <1>1 DEF Persist
  <2>9. \A g \in Handlers : \A t \in Sends : Holds(g, t)' <=> Holds(g, t)
    BY <2>8 DEF Holds
  <2>10. HolderInv'
    BY <2>2, <2>3, <2>5, <2>8, <2>9 DEF HolderInv, ClaimFacts
  <2>11. ExclusiveClaim'
    BY <2>9 DEF ExclusiveClaim
  <2> QED
    BY <2>7, <2>10, <2>11
<1>2. ASSUME NEW s \in Sends, EnqueueSend(s)
      PROVE  RowInv' /\ HolderInv' /\ ExclusiveClaim'
  BY <1>2, ClaimFrame DEF EnqueueSend, TypeOK
<1>3. ASSUME NEW s \in Sends, EnqueueLost(s)
      PROVE  RowInv' /\ HolderInv' /\ ExclusiveClaim'
  BY <1>3, ClaimFrame DEF EnqueueLost, TypeOK
<1>4. ASSUME NEW s \in Sends, Age(s)
      PROVE  RowInv' /\ HolderInv' /\ ExclusiveClaim'
  BY <1>4, ClaimFrame DEF Age
<1>5. ASSUME NEW h \in Handlers, NEW j \in Jobs, Fetch(h, j)
      PROVE  RowInv' /\ HolderInv' /\ ExclusiveClaim'
  BY <1>5, HandlerDrops DEF Fetch, TypeOK, HoldPC
<1>6. ASSUME NEW h \in Handlers, ClaimThrows(h)
      PROVE  RowInv' /\ HolderInv' /\ ExclusiveClaim'
  <2>1. /\ handler'[h] = IdleHandler
        /\ \A g \in Handlers : g # h => handler'[g] = handler[g]
    BY <1>6, LeaveHandler DEF ClaimThrows, TypeOK
  <2>2. row' = row /\ api' = api /\ wire' = wire
    BY <1>6 DEF ClaimThrows
  <2> QED
    BY <2>1, <2>2, HandlerDrops DEF IdleHandler, HoldPC
<1>7. ASSUME NEW h \in Handlers, Claim(h)
      PROVE  RowInv' /\ HolderInv' /\ ExclusiveClaim'
  <2>1. PICK s \in Sends : s = handler[h].send
    BY <1>7, BusyHandler DEF Claim
  <2>2. row[s].status = "queued"
    BY <1>7, <2>1 DEF Claim
  <2>3. /\ row[s].attempts < MaxAttempts /\ row[s].messageId = "null"
        /\ wire[s] <= row[s].attempts
        /\ row[s].messageId # "null" => wire[s] > 0
    BY <2>2 DEF RowInv, RowFacts
  <2>4. \A g \in Handlers : ~Holds(g, s)
    BY <2>2 DEF HolderInv, ClaimFacts
  <2>5. /\ row'[s] = [row[s] EXCEPT !.status = "sending", !.attempts = @ + 1]
        /\ \A t \in Sends : t # s => row'[t] = row[t]
    BY <1>7, <2>1, <2>3, WriteRowStep, RowTypes DEF Claim, TypeOK
  <2>6. row'[s].status = "sending" /\ row'[s].attempts = row[s].attempts + 1
        /\ row'[s].messageId = row[s].messageId
    BY <2>2, <2>5 DEF TypeOK, Row
  <2>7. /\ handler'[h].pc = "reread" /\ handler'[h].send = s
        /\ \A g \in Handlers : g # h => handler'[g] = handler[g]
    BY <1>7, <2>1, GotoHandler DEF Claim, TypeOK, HandlerPC, HoldPC
  <2>8. row[s].attempts \in Nat /\ wire[s] \in Nat
    BY <2>2 DEF TypeOK, Row
  <2>9. \A g \in Handlers : \A t \in Sends :
           Holds(g, t)' => \/ g = h /\ t = s
                           \/ g # h /\ t # s /\ Holds(g, t)
    BY <2>4, <2>7 DEF Holds
  <2>10. api' = api /\ wire' = wire
    BY <1>7 DEF Claim
  <2>11. ClaimFacts(h, s)'
    BY <2>3, <2>6, <2>7, <2>8, <2>10 DEF ClaimFacts
  <2>12. \A g \in Handlers : \A t \in Sends :
            g # h /\ t # s /\ Holds(g, t) => ClaimFacts(g, t)'
    BY <2>5, <2>7, <2>10 DEF HolderInv, ClaimFacts
  <2>13. HolderInv'
    BY <2>9, <2>11, <2>12 DEF HolderInv
  <2>14. ExclusiveClaim'
    BY <2>9 DEF ExclusiveClaim
  <2>15. api[s] # "none"
    BY <2>2 DEF RowInv, RowFacts
  <2>16. RowFacts(s)'
    BY <2>3, <2>6, <2>8, <2>10, <2>15 DEF RowFacts
  <2>17. RowInv'
    BY <2>2, <2>5, <2>10, <2>16, OtherRows
  <2> QED
    BY <2>13, <2>14, <2>17
<1>8. ASSUME NEW h \in Handlers, ClaimLost(h)
      PROVE  RowInv' /\ HolderInv' /\ ExclusiveClaim'
  <2>1. /\ handler'[h] = IdleHandler
        /\ \A g \in Handlers : g # h => handler'[g] = handler[g]
    BY <1>8, LeaveHandler DEF ClaimLost, TypeOK
  <2>2. row' = row /\ api' = api /\ wire' = wire
    BY <1>8 DEF ClaimLost
  <2> QED
    BY <2>1, <2>2, HandlerDrops DEF IdleHandler, HoldPC
<1>9. ASSUME NEW h \in Handlers, Reread(h)
      PROVE  RowInv' /\ HolderInv' /\ ExclusiveClaim'
  <2>1. /\ handler'[h].pc = "dispatch" /\ handler'[h].send = handler[h].send
        /\ handler'[h].attempts = row[handler[h].send].attempts
        /\ \A g \in Handlers : g # h => handler'[g] = handler[g]
    BY <1>9 DEF Reread, TypeOK, Handler
  <2> QED
    BY <1>9, <2>1, HandlerMoves DEF Reread, Holds, HoldPC, HolderInv, ClaimFacts
<1>10. ASSUME NEW h \in Handlers, RereadThrows(h)
      PROVE  RowInv' /\ HolderInv' /\ ExclusiveClaim'
  <2>1. /\ handler'[h] = IdleHandler
        /\ \A g \in Handlers : g # h => handler'[g] = handler[g]
    BY <1>10, LeaveHandler DEF RereadThrows, TypeOK
  <2>2. row' = row /\ api' = api /\ wire' = wire
    BY <1>10 DEF RereadThrows
  <2> QED
    BY <2>1, <2>2, HandlerDrops DEF IdleHandler, HoldPC
<1>11. ASSUME NEW h \in Handlers, ProviderAccepts(h)
      PROVE  RowInv' /\ HolderInv' /\ ExclusiveClaim'
  <2> DEFINE s == handler[h].send
  <2>1. s \in Sends /\ Holds(h, s)
    BY <1>11, BusyHandler DEF ProviderAccepts, Holds, HoldPC
  <2>2. /\ wire'[s] = wire[s] + 1
        /\ \A t \in Sends : t # s => wire'[t] = wire[t]
    BY <1>11, <2>1 DEF ProviderAccepts, TypeOK
  <2>3. /\ handler'[h].pc = "accepted" /\ handler'[h].send = s
        /\ handler'[h].attempts = handler[h].attempts
        /\ \A g \in Handlers : g # h => handler'[g] = handler[g]
    BY <1>11, GotoHandler DEF ProviderAccepts, TypeOK, HandlerPC, HoldPC
  <2>4. wire[s] < row[s].attempts /\ handler[h].attempts = row[s].attempts
    BY <1>11, <2>1 DEF HolderInv, ClaimFacts, ProviderAccepts
  <2>5. row[s].attempts \in Nat /\ wire[s] \in Nat
    BY <2>1 DEF TypeOK, Row
  <2>6. row' = row /\ api' = api
    BY <1>11 DEF ProviderAccepts
  <2>7. \A g \in Handlers : Holds(g, s) => g = h
    BY <2>1 DEF ExclusiveClaim
  <2> HIDE DEF s
  <2>8. \A g \in Handlers : \A t \in Sends :
           Holds(g, t)' => Holds(g, t) /\ (g = h <=> t = s)
    BY <2>1, <2>3, <2>7 DEF Holds
  <2>9. RowInv'
    BY <2>1, <2>2, <2>4, <2>5, <2>6 DEF RowInv, RowFacts
  <2>10. HolderInv'
    BY <2>2, <2>3, <2>4, <2>5, <2>6, <2>8 DEF HolderInv, ClaimFacts
  <2>11. ExclusiveClaim'
    BY <2>8 DEF ExclusiveClaim
  <2> QED
    BY <2>9, <2>10, <2>11
<1>12. ASSUME NEW h \in Handlers, ProviderRejects(h)
      PROVE  RowInv' /\ HolderInv' /\ ExclusiveClaim'
  <2>1. /\ handler'[h].pc = "error" /\ handler'[h].send = handler[h].send
        /\ handler'[h].attempts = handler[h].attempts
        /\ \A g \in Handlers : g # h => handler'[g] = handler[g]
    BY <1>12, GotoHandler DEF ProviderRejects, TypeOK, HandlerPC, HoldPC
  <2>2. \A s \in Sends : Holds(h, s)' => Holds(h, s)
    BY <1>12, <2>1 DEF ProviderRejects, Holds, HoldPC
  <2>3. \A s \in Sends : Holds(h, s)' => handler'[h].attempts = row[s].attempts
    BY <1>12, <2>1, <2>2 DEF ProviderRejects, HolderInv, ClaimFacts
  <2> QED
    BY <1>12, <2>1, <2>2, <2>3, HandlerMoves DEF ProviderRejects
<1>13. ASSUME NEW h \in Handlers, PostAcceptThrows(h)
      PROVE  RowInv' /\ HolderInv' /\ ExclusiveClaim'
  <2>1. /\ handler'[h].pc = "error" /\ handler'[h].send = handler[h].send
        /\ handler'[h].attempts = handler[h].attempts
        /\ \A g \in Handlers : g # h => handler'[g] = handler[g]
    BY <1>13, GotoHandler DEF PostAcceptThrows, TypeOK, HandlerPC, HoldPC
  <2>2. \A s \in Sends : Holds(h, s)' => Holds(h, s)
    BY <1>13, <2>1 DEF PostAcceptThrows, Holds, HoldPC
  <2>3. \A s \in Sends : Holds(h, s)' => handler'[h].attempts = row[s].attempts
    BY <1>13, <2>1, <2>2 DEF PostAcceptThrows, HolderInv, ClaimFacts
  <2> QED
    BY <1>13, <2>1, <2>2, <2>3, HandlerMoves DEF PostAcceptThrows
<1>14. ASSUME NEW h \in Handlers, MarkSent(h)
      PROVE  RowInv' /\ HolderInv' /\ ExclusiveClaim'
  <2> DEFINE s == handler[h].send
  <2>1. s \in Sends /\ Holds(h, s)
    BY <1>14, BusyHandler DEF MarkSent, Holds, HoldPC
  <2>2. /\ row'[s] = [row[s] EXCEPT !.status = "sent", !.messageId = "provider"]
        /\ \A t \in Sends : t # s => row'[t] = row[t]
    BY <1>14, <2>1, WriteRowStep, RowTypes DEF MarkSent, TypeOK
  <2>3. row'[s].status = "sent" /\ row'[s].messageId # "null" /\ row'[s].attempts = row[s].attempts
    BY <2>1, <2>2 DEF TypeOK, Row
  <2>4. /\ handler'[h].pc \notin HoldPC
        /\ \A g \in Handlers : g # h => handler'[g] = handler[g]
    BY <1>14, GotoHandler DEF MarkSent, TypeOK, HandlerPC, HoldPC
  <2>5. wire[s] > 0
    BY <1>14, <2>1 DEF MarkSent, HolderInv, ClaimFacts
  <2>6. api' = api /\ wire' = wire
    BY <1>14 DEF MarkSent
  <2> QED
    BY <2>1, <2>2, <2>3, <2>4, <2>5, <2>6, ClaimGivenUp
<1>15. ASSUME NEW h \in Handlers, CreateComposeFollowUp(h)
      PROVE  RowInv' /\ HolderInv' /\ ExclusiveClaim'
  BY <1>15, GotoHandler, HandlerDrops
     DEF CreateComposeFollowUp, TypeOK, HandlerPC, HoldPC
<1>16. ASSUME NEW h \in Handlers, PublishSent(h)
      PROVE  RowInv' /\ HolderInv' /\ ExclusiveClaim'
  <2>1. /\ handler'[h] = IdleHandler
        /\ \A g \in Handlers : g # h => handler'[g] = handler[g]
    BY <1>16, LeaveHandler DEF PublishSent, TypeOK
  <2>2. row' = row /\ api' = api /\ wire' = wire
    BY <1>16 DEF PublishSent
  <2> QED
    BY <2>1, <2>2, HandlerDrops DEF IdleHandler, HoldPC
<1>17. ASSUME NEW h \in Handlers, ReleaseForRetry(h)
      PROVE  RowInv' /\ HolderInv' /\ ExclusiveClaim'
  <2> DEFINE s == handler[h].send
  <2>1. s \in Sends /\ Holds(h, s)
    BY <1>17, BusyHandler DEF ReleaseForRetry, Holds, HoldPC
  <2>2. /\ row'[s] = [row[s] EXCEPT !.status = "queued"]
        /\ \A t \in Sends : t # s => row'[t] = row[t]
    BY <1>17, <2>1, WriteRowStep, RowTypes DEF ReleaseForRetry, TypeOK
  <2>3. row'[s].status = "queued" /\ row'[s].messageId = row[s].messageId
        /\ row'[s].attempts = row[s].attempts
    BY <2>1, <2>2 DEF TypeOK, Row
  <2>4. /\ handler'[h].pc \notin HoldPC
        /\ \A g \in Handlers : g # h => handler'[g] = handler[g]
    BY <1>17, GotoHandler DEF ReleaseForRetry, TypeOK, HandlerPC, HoldPC
  <2>5. row[s].attempts < MaxAttempts /\ row[s].messageId = "null"
    BY <1>17, <2>1, SendAssumption
       DEF ReleaseForRetry, HolderInv, ClaimFacts, HasExhaustedAttempts, TypeOK, Row, SendAssumption
  <2>6. api' = api /\ wire' = wire
    BY <1>17 DEF ReleaseForRetry
  <2> QED
    BY <2>1, <2>2, <2>3, <2>4, <2>5, <2>6, ClaimGivenUp
<1>18. ASSUME NEW h \in Handlers, Rethrow(h)
      PROVE  RowInv' /\ HolderInv' /\ ExclusiveClaim'
  <2>1. /\ handler'[h] = IdleHandler
        /\ \A g \in Handlers : g # h => handler'[g] = handler[g]
    BY <1>18, LeaveHandler DEF Rethrow, TypeOK
  <2>2. row' = row /\ api' = api /\ wire' = wire
    BY <1>18 DEF Rethrow
  <2> QED
    BY <2>1, <2>2, HandlerDrops DEF IdleHandler, HoldPC
<1>19. ASSUME NEW h \in Handlers, MarkRejected(h)
      PROVE  RowInv' /\ HolderInv' /\ ExclusiveClaim'
  <2> DEFINE s == handler[h].send
  <2>1. s \in Sends /\ Holds(h, s)
    BY <1>19, BusyHandler DEF MarkRejected, Holds, HoldPC
  <2>2. /\ row'[s] = [row[s] EXCEPT !.status = "failed", !.reason = "provider_rejected"]
        /\ \A t \in Sends : t # s => row'[t] = row[t]
    BY <1>19, <2>1, WriteRowStep, RowTypes DEF MarkRejected, TypeOK
  <2>3. row'[s].status = "failed" /\ row'[s].messageId = row[s].messageId
        /\ row'[s].attempts = row[s].attempts
    BY <2>1, <2>2 DEF TypeOK, Row
  <2>4. /\ handler'[h].pc \notin HoldPC
        /\ \A g \in Handlers : g # h => handler'[g] = handler[g]
    BY <1>19, GotoHandler DEF MarkRejected, TypeOK, HandlerPC, HoldPC
  <2>5. row[s].messageId = "null"
    BY <1>19, <2>1 DEF MarkRejected, HolderInv, ClaimFacts
  <2>6. api' = api /\ wire' = wire
    BY <1>19 DEF MarkRejected
  <2> QED
    BY <2>1, <2>2, <2>3, <2>4, <2>5, <2>6, ClaimGivenUp, ZenonT(60)
<1>20. ASSUME NEW h \in Handlers, PublishRejected(h)
      PROVE  RowInv' /\ HolderInv' /\ ExclusiveClaim'
  <2>1. /\ handler'[h] = IdleHandler
        /\ \A g \in Handlers : g # h => handler'[g] = handler[g]
    BY <1>20, LeaveHandler DEF PublishRejected, TypeOK
  <2>2. row' = row /\ api' = api /\ wire' = wire
    BY <1>20 DEF PublishRejected
  <2> QED
    BY <2>1, <2>2, HandlerDrops DEF IdleHandler, HoldPC
<1>21. ASSUME NEW h \in Handlers, ErrorWriteThrows(h)
      PROVE  RowInv' /\ HolderInv' /\ ExclusiveClaim'
  <2>1. /\ handler'[h] = IdleHandler
        /\ \A g \in Handlers : g # h => handler'[g] = handler[g]
    BY <1>21, LeaveHandler DEF ErrorWriteThrows, TypeOK
  <2>2. row' = row /\ api' = api /\ wire' = wire
    BY <1>21 DEF ErrorWriteThrows
  <2> QED
    BY <2>1, <2>2, HandlerDrops DEF IdleHandler, HoldPC
<1>22. ASSUME NEW h \in Handlers, Crash(h)
      PROVE  RowInv' /\ HolderInv' /\ ExclusiveClaim'
  BY <1>22, HandlerDrops DEF Crash, TypeOK, IdleHandler, HoldPC
<1>23. ASSUME NEW j \in Jobs, Expire(j)
      PROVE  RowInv' /\ HolderInv' /\ ExclusiveClaim'
  BY <1>23, ClaimFrame DEF Expire, TypeOK, Handler
<1>24. ASSUME NEW k \in Sweepers, SweepQueued(k)
      PROVE  RowInv' /\ HolderInv' /\ ExclusiveClaim'
  BY <1>24, ClaimFrame DEF SweepQueued
<1>25. ASSUME NEW k \in Sweepers, Requeue(k)
      PROVE  RowInv' /\ HolderInv' /\ ExclusiveClaim'
  BY <1>25, ClaimFrame DEF Requeue
<1>26. ASSUME NEW k \in Sweepers, SweepSending(k)
      PROVE  RowInv' /\ HolderInv' /\ ExclusiveClaim'
  BY <1>26, ClaimFrame DEF SweepSending
<1>27. ASSUME NEW k \in Sweepers, MarkUnconfirmed(k)
      PROVE  RowInv' /\ HolderInv' /\ ExclusiveClaim'
  <2>1. PICK s \in sweeper[k].todo :
           WriteRow(s, [row[s] EXCEPT !.status = "failed", !.reason = "unconfirmed"])
    BY <1>27 DEF MarkUnconfirmed
  <2>2. s \in Sends /\ row[s].status # "absent"
    BY <2>1 DEF TypeOK, Sweeper, BusyInv
  <2>3. /\ row'[s] = [row[s] EXCEPT !.status = "failed", !.reason = "unconfirmed"]
        /\ \A t \in Sends : t # s => row'[t] = row[t]
    BY <2>1, <2>2, WriteRowStep, RowTypes DEF TypeOK
  <2>4. row'[s].status = "failed" /\ row'[s].messageId = row[s].messageId
        /\ row'[s].attempts = row[s].attempts
    BY <2>2, <2>3 DEF TypeOK, Row
  <2>5. api' = api /\ wire' = wire /\ handler' = handler
    BY <1>27 DEF MarkUnconfirmed
  <2>6. RowFacts(s)'
    BY <2>2, <2>4, <2>5 DEF RowInv, RowFacts
  <2>7. RowInv'
    BY <2>2, <2>3, <2>5, <2>6, OtherRows
  <2>8. \A g \in Handlers : \A t \in Sends : Holds(g, t)' <=> Holds(g, t)
    BY <2>5 DEF Holds
  <2>9. \A g \in Handlers : Holds(g, s) => ClaimFacts(g, s)'
    BY <2>2, <2>4, <2>5 DEF HolderInv, ClaimFacts
  <2>10. \A g \in Handlers : \A t \in Sends :
            t # s /\ Holds(g, t) => ClaimFacts(g, t)'
    BY <2>3, <2>5 DEF HolderInv, ClaimFacts
  <2>11. HolderInv'
    BY <2>8, <2>9, <2>10 DEF HolderInv
  <2>12. ExclusiveClaim'
    BY <2>8 DEF ExclusiveClaim
  <2> QED
    BY <2>7, <2>11, <2>12
<1>28. ASSUME NEW k \in Sweepers, PublishUnconfirmed(k)
      PROVE  RowInv' /\ HolderInv' /\ ExclusiveClaim'
  BY <1>28, ClaimFrame DEF PublishUnconfirmed
<1>29. ASSUME NEW k \in Sweepers, SweepDone(k)
      PROVE  RowInv' /\ HolderInv' /\ ExclusiveClaim'
  BY <1>29, ClaimFrame DEF SweepDone
<1>30. ASSUME NEW k \in Sweepers, SweepAborts(k)
      PROVE  RowInv' /\ HolderInv' /\ ExclusiveClaim'
  BY <1>30, ClaimFrame DEF SweepAborts
<1>31. CASE UNCHANGED vars
  BY <1>31 DEF vars, RowInv, RowFacts, HolderInv, ClaimFacts, ExclusiveClaim, Holds
<1> QED
  BY <1>1, <1>2, <1>3, <1>4, <1>5, <1>6, <1>7, <1>8, <1>9, <1>10, <1>11, <1>12, <1>13, <1>14, <1>15, <1>16, <1>17, <1>18, <1>19, <1>20, <1>21, <1>22, <1>23, <1>24, <1>25, <1>26, <1>27, <1>28, <1>29, <1>30, <1>31
     DEF Next, Endpoint, HandlerProgress, HandlerFault, SweeperProgress

(***************************************************************************)
(* What busy handlers and sweepers know                                    *)
(***************************************************************************)

\* Rows are never taken back: one that was persisted stays so, and recorded
\* provider ids are never cleared.
RowsPersist ==
    \A s \in Sends :
        /\ row[s].status # "absent" => row'[s].status # "absent"
        /\ row[s].messageId # "null" => row'[s].messageId # "null"

\* The statements that write rows, in all the code.
LEMMA RowWriters ==
    ASSUME [Next]_vars
    PROVE  \/ row' = row
           \/ \E s \in Sends : Persist(s)
           \/ \E h \in Handlers : Claim(h) \/ MarkSent(h) \/ ReleaseForRetry(h) \/ MarkRejected(h)
           \/ \E k \in Sweepers : MarkUnconfirmed(k)
  BY ZenonT(60) DEF Next, Endpoint, HandlerProgress, HandlerFault, SweeperProgress, vars,
        EnqueueSend, EnqueueLost, Age, Fetch, ClaimThrows,
        ClaimLost, Reread, RereadThrows, ProviderAccepts, ProviderRejects, PostAcceptThrows,
        CreateComposeFollowUp, PublishSent, Rethrow, PublishRejected, ErrorWriteThrows, Crash,
        Expire, SweepQueued, Requeue, SweepSending, PublishUnconfirmed, SweepDone, SweepAborts

\* No step takes a row back or clears its provider ids.
LEMMA RowsStep ==
    ASSUME TypeOK, RowInv, BusyInv, [Next]_vars
    PROVE  RowsPersist
<1> USE DEF RowsPersist
<1>1. ASSUME NEW s \in Sends, Persist(s)
      PROVE  RowsPersist
  <2>1. /\ row'[s] = [row[s] EXCEPT !.status = "queued"]
        /\ \A t \in Sends : t # s => row'[t] = row[t]
    BY <1>1, WriteRowStep, RowTypes DEF Persist, TypeOK
  <2>2. /\ row'[s].status # "absent"
        /\ row[s].messageId # "null" => row'[s].messageId # "null"
    BY <2>1 DEF TypeOK, Row
  <2> QED
    BY <2>1, <2>2
<1>2. ASSUME NEW h \in Handlers, Claim(h)
      PROVE  RowsPersist
  <2>1. PICK s \in Sends : s = handler[h].send
    BY <1>2, BusyHandler DEF Claim
  <2>2. row[s].attempts < MaxAttempts
    BY <1>2, <2>1 DEF Claim, RowInv, RowFacts
  <2>3. /\ row'[s] = [row[s] EXCEPT !.status = "sending", !.attempts = @ + 1]
        /\ \A t \in Sends : t # s => row'[t] = row[t]
    BY <1>2, <2>1, <2>2, WriteRowStep, RowTypes, ZenonT(60) DEF Claim, TypeOK
  <2>4. /\ row'[s].status # "absent"
        /\ row[s].messageId # "null" => row'[s].messageId # "null"
    BY <2>3 DEF TypeOK, Row
  <2> QED
    BY <2>3, <2>4
<1>3. ASSUME NEW h \in Handlers, MarkSent(h)
      PROVE  RowsPersist
  <2>1. PICK s \in Sends : s = handler[h].send
    BY <1>3, BusyHandler DEF MarkSent
  <2>2. /\ row'[s] = [row[s] EXCEPT !.status = "sent", !.messageId = "provider"]
        /\ \A t \in Sends : t # s => row'[t] = row[t]
    BY <1>3, <2>1, WriteRowStep, RowTypes DEF MarkSent, TypeOK
  <2>3. /\ row'[s].status # "absent"
        /\ row[s].messageId # "null" => row'[s].messageId # "null"
    BY <2>2 DEF TypeOK, Row
  <2> QED
    BY <2>2, <2>3
<1>4. ASSUME NEW h \in Handlers, ReleaseForRetry(h)
      PROVE  RowsPersist
  <2>1. PICK s \in Sends : s = handler[h].send
    BY <1>4, BusyHandler DEF ReleaseForRetry
  <2>2. /\ row'[s] = [row[s] EXCEPT !.status = "queued"]
        /\ \A t \in Sends : t # s => row'[t] = row[t]
    BY <1>4, <2>1, WriteRowStep, RowTypes DEF ReleaseForRetry, TypeOK
  <2>3. /\ row'[s].status # "absent"
        /\ row[s].messageId # "null" => row'[s].messageId # "null"
    BY <2>2 DEF TypeOK, Row
  <2> QED
    BY <2>2, <2>3
<1>5. ASSUME NEW h \in Handlers, MarkRejected(h)
      PROVE  RowsPersist
  <2>1. PICK s \in Sends : s = handler[h].send
    BY <1>5, BusyHandler DEF MarkRejected
  <2>2. /\ row'[s] = [row[s] EXCEPT !.status = "failed", !.reason = "provider_rejected"]
        /\ \A t \in Sends : t # s => row'[t] = row[t]
    BY <1>5, <2>1, WriteRowStep, RowTypes DEF MarkRejected, TypeOK
  <2>3. /\ row'[s].status # "absent"
        /\ row[s].messageId # "null" => row'[s].messageId # "null"
    BY <2>2 DEF TypeOK, Row
  <2> QED
    BY <2>2, <2>3
<1>6. ASSUME NEW k \in Sweepers, MarkUnconfirmed(k)
      PROVE  RowsPersist
  <2>1. PICK s \in sweeper[k].todo :
           WriteRow(s, [row[s] EXCEPT !.status = "failed", !.reason = "unconfirmed"])
    BY <1>6 DEF MarkUnconfirmed
  <2>2. s \in Sends
    BY <2>1 DEF TypeOK, Sweeper
  <2>3. /\ row'[s] = [row[s] EXCEPT !.status = "failed", !.reason = "unconfirmed"]
        /\ \A t \in Sends : t # s => row'[t] = row[t]
    BY <2>1, <2>2, WriteRowStep, RowTypes DEF TypeOK
  <2>4. /\ row'[s].status = "failed"
        /\ row'[s].messageId = row[s].messageId
    BY <2>2, <2>3 DEF TypeOK, Row
  <2> QED
    BY <2>3, <2>4
<1>7. CASE row' = row
  BY <1>7
<1> QED
  BY <1>1, <1>2, <1>3, <1>4, <1>5, <1>6, <1>7, RowWriters

\* A step of one handler, or of none, that knows the row of what it publishes.
LEMMA BusyHandlers ==
    ASSUME BusyInv, RowsPersist, NEW h \in Handlers, TypeOK, TypeOK',
           sweeper' = sweeper,
           \A g \in Handlers : g # h => handler'[g].pc = handler[g].pc
                                        /\ handler'[g].send = handler[g].send,
           handler'[h].pc # "idle" => handler'[h].send \in Sends,
           handler'[h].pc \in {"followUp", "publishSent"} =>
              row'[handler'[h].send].messageId # "null"
    PROVE  BusyInv'
<1>1. \A g \in Handlers : g # h =>
         /\ handler'[g].pc # "idle" => handler'[g].send \in Sends
         /\ handler'[g].pc \in {"followUp", "publishSent"} =>
               row'[handler'[g].send].messageId # "null"
  BY DEF BusyInv, RowsPersist
<1>2. \A k \in Sweepers : sweeper'[k].todo \subseteq Sends
  BY DEF TypeOK, Sweeper
<1>3. \A k \in Sweepers : \A s \in sweeper'[k].todo : row'[s].status # "absent"
  BY <1>2 DEF BusyInv, RowsPersist
<1> QED
  BY <1>1, <1>3 DEF BusyInv

\* A step of one sweeper.
LEMMA BusySweepers ==
    ASSUME BusyInv, RowsPersist, NEW k \in Sweepers, TypeOK,
           handler' = handler,
           \A m \in Sweepers : m # k => sweeper'[m] = sweeper[m],
           sweeper'[k].pc = "publish" => sweeper'[k].send \in Sends,
           \A s \in sweeper'[k].todo : s \in Sends /\ row[s].status # "absent"
    PROVE  BusyInv'
<1>1. \A g \in Handlers :
         /\ handler'[g].pc # "idle" => handler'[g].send \in Sends
         /\ handler'[g].pc \in {"followUp", "publishSent"} =>
               row'[handler'[g].send].messageId # "null"
  BY DEF BusyInv, RowsPersist
<1>2. \A m \in Sweepers : \A s \in sweeper'[m].todo : s \in Sends /\ row[s].status # "absent"
  BY DEF BusyInv, TypeOK, Sweeper
<1>3. \A m \in Sweepers : \A s \in sweeper'[m].todo : row'[s].status # "absent"
  BY <1>2 DEF RowsPersist
<1>4. \A m \in Sweepers : sweeper'[m].pc = "publish" => sweeper'[m].send \in Sends
  BY DEF BusyInv
<1> QED
  BY <1>1, <1>3, <1>4 DEF BusyInv

\* A step that leaves handlers' and sweepers' bookkeeping alone.
LEMMA BusyFrame ==
    ASSUME BusyInv, RowsPersist, TypeOK, sweeper' = sweeper,
           \A g \in Handlers : handler'[g].pc = handler[g].pc
                               /\ handler'[g].send = handler[g].send
    PROVE  BusyInv'
<1>1. \A k \in Sweepers : \A s \in sweeper[k].todo : s \in Sends
  BY DEF TypeOK, Sweeper
<1> QED
  BY <1>1 DEF BusyInv, RowsPersist

\* Every step keeps what busy handlers and sweepers know of their rows.
LEMMA BusyStep ==
    ASSUME TypeOK, JobInv, AwaitInv, RowInv, BusyInv, [Next]_vars
    PROVE  BusyInv'
<1>1. ASSUME NEW s \in Sends, Persist(s)
      PROVE  BusyInv'
  BY <1>1, RowsStep, BusyFrame DEF Persist
<1>2. ASSUME NEW s \in Sends, EnqueueSend(s)
      PROVE  BusyInv'
  BY <1>2, RowsStep, BusyFrame DEF EnqueueSend
<1>3. ASSUME NEW s \in Sends, EnqueueLost(s)
      PROVE  BusyInv'
  BY <1>3, RowsStep, BusyFrame DEF EnqueueLost
<1>4. ASSUME NEW s \in Sends, Age(s)
      PROVE  BusyInv'
  BY <1>4, RowsStep, BusyFrame DEF Age
<1>5. ASSUME NEW h \in Handlers, NEW j \in Jobs, Fetch(h, j)
      PROVE  BusyInv'
  <2>1. /\ handler'[h].pc = "claim" /\ handler'[h].send = job[j].key
        /\ \A g \in Handlers : g # h => handler'[g] = handler[g]
    BY <1>5 DEF Fetch, TypeOK
  <2>2. job[j].key \in Sends
    BY <1>5 DEF Fetch, FetchJob, JobInv
  <2>3. sweeper' = sweeper
    BY <1>5 DEF Fetch
  <2> QED
    BY <2>1, <2>2, <2>3, RowsStep, TypeStep, BusyHandlers
<1>6. ASSUME NEW h \in Handlers, ClaimThrows(h)
      PROVE  BusyInv'
  <2>1. /\ handler'[h] = IdleHandler
        /\ \A g \in Handlers : g # h => handler'[g] = handler[g]
    BY <1>6, LeaveHandler DEF ClaimThrows, TypeOK
  <2>2. sweeper' = sweeper
    BY <1>6 DEF ClaimThrows
  <2> QED
    BY <2>1, <2>2, RowsStep, TypeStep, BusyHandlers DEF IdleHandler
<1>7. ASSUME NEW h \in Handlers, Claim(h)
      PROVE  BusyInv'
  <2>1. /\ handler'[h].pc = "reread" /\ handler'[h].send = handler[h].send
        /\ \A g \in Handlers : g # h => handler'[g] = handler[g]
    BY <1>7, GotoHandler DEF Claim, TypeOK, HandlerPC, HoldPC
  <2>2. handler[h].send \in Sends
    BY <1>7, BusyHandler DEF Claim
  <2>3. sweeper' = sweeper
    BY <1>7 DEF Claim
  <2> QED
    BY <2>1, <2>2, <2>3, RowsStep, TypeStep, BusyHandlers
<1>8. ASSUME NEW h \in Handlers, ClaimLost(h)
      PROVE  BusyInv'
  <2>1. /\ handler'[h] = IdleHandler
        /\ \A g \in Handlers : g # h => handler'[g] = handler[g]
    BY <1>8, LeaveHandler DEF ClaimLost, TypeOK
  <2>2. sweeper' = sweeper
    BY <1>8 DEF ClaimLost
  <2> QED
    BY <2>1, <2>2, RowsStep, TypeStep, BusyHandlers DEF IdleHandler
<1>9. ASSUME NEW h \in Handlers, Reread(h)
      PROVE  BusyInv'
  <2>1. /\ handler'[h].pc = "dispatch" /\ handler'[h].send = handler[h].send
        /\ \A g \in Handlers : g # h => handler'[g] = handler[g]
    BY <1>9 DEF Reread, TypeOK, HandlerPC, HoldPC, Handler
  <2>2. handler[h].send \in Sends
    BY <1>9, BusyHandler DEF Reread
  <2>3. sweeper' = sweeper
    BY <1>9 DEF Reread
  <2> QED
    BY <2>1, <2>2, <2>3, RowsStep, TypeStep, BusyHandlers
<1>10. ASSUME NEW h \in Handlers, RereadThrows(h)
      PROVE  BusyInv'
  <2>1. /\ handler'[h] = IdleHandler
        /\ \A g \in Handlers : g # h => handler'[g] = handler[g]
    BY <1>10, LeaveHandler DEF RereadThrows, TypeOK
  <2>2. sweeper' = sweeper
    BY <1>10 DEF RereadThrows
  <2> QED
    BY <2>1, <2>2, RowsStep, TypeStep, BusyHandlers DEF IdleHandler
<1>11. ASSUME NEW h \in Handlers, ProviderAccepts(h)
      PROVE  BusyInv'
  <2>1. /\ handler'[h].pc = "accepted" /\ handler'[h].send = handler[h].send
        /\ \A g \in Handlers : g # h => handler'[g] = handler[g]
    BY <1>11, GotoHandler DEF ProviderAccepts, TypeOK, HandlerPC, HoldPC
  <2>2. handler[h].send \in Sends
    BY <1>11, BusyHandler DEF ProviderAccepts
  <2>3. sweeper' = sweeper
    BY <1>11 DEF ProviderAccepts
  <2> QED
    BY <2>1, <2>2, <2>3, RowsStep, TypeStep, BusyHandlers
<1>12. ASSUME NEW h \in Handlers, ProviderRejects(h)
      PROVE  BusyInv'
  <2>1. /\ handler'[h].pc = "error" /\ handler'[h].send = handler[h].send
        /\ \A g \in Handlers : g # h => handler'[g] = handler[g]
    BY <1>12, GotoHandler DEF ProviderRejects, TypeOK, HandlerPC, HoldPC
  <2>2. handler[h].send \in Sends
    BY <1>12, BusyHandler DEF ProviderRejects
  <2>3. sweeper' = sweeper
    BY <1>12 DEF ProviderRejects
  <2> QED
    BY <2>1, <2>2, <2>3, RowsStep, TypeStep, BusyHandlers
<1>13. ASSUME NEW h \in Handlers, PostAcceptThrows(h)
      PROVE  BusyInv'
  <2>1. /\ handler'[h].pc = "error" /\ handler'[h].send = handler[h].send
        /\ \A g \in Handlers : g # h => handler'[g] = handler[g]
    BY <1>13, GotoHandler DEF PostAcceptThrows, TypeOK, HandlerPC, HoldPC
  <2>2. handler[h].send \in Sends
    BY <1>13, BusyHandler DEF PostAcceptThrows
  <2>3. sweeper' = sweeper
    BY <1>13 DEF PostAcceptThrows
  <2> QED
    BY <2>1, <2>2, <2>3, RowsStep, TypeStep, BusyHandlers
<1>14. ASSUME NEW h \in Handlers, MarkSent(h)
      PROVE  BusyInv'
  <2>1. /\ handler'[h].pc = "followUp" /\ handler'[h].send = handler[h].send
        /\ \A g \in Handlers : g # h => handler'[g] = handler[g]
    BY <1>14, GotoHandler DEF MarkSent, TypeOK, HandlerPC, HoldPC
  <2>2. handler[h].send \in Sends
    BY <1>14, BusyHandler DEF MarkSent
  <2>3. sweeper' = sweeper
    BY <1>14 DEF MarkSent
  <2>4. row'[handler[h].send].messageId # "null"
    <3>1. PICK s \in Sends : s = handler[h].send
      BY <2>2
    <3>2. row'[s] = [row[s] EXCEPT !.status = "sent", !.messageId = "provider"]
      BY <1>14, <3>1, WriteRowStep, RowTypes DEF MarkSent, TypeOK
    <3> QED
      BY <3>1, <3>2 DEF TypeOK, Row
  <2> QED
    BY <2>1, <2>2, <2>3, <2>4, RowsStep, TypeStep, BusyHandlers
<1>15. ASSUME NEW h \in Handlers, CreateComposeFollowUp(h)
      PROVE  BusyInv'
  <2>1. /\ handler'[h].pc = "publishSent" /\ handler'[h].send = handler[h].send
        /\ \A g \in Handlers : g # h => handler'[g] = handler[g]
    BY <1>15, GotoHandler DEF CreateComposeFollowUp, TypeOK, HandlerPC, HoldPC
  <2>2. handler[h].send \in Sends
    BY <1>15, BusyHandler DEF CreateComposeFollowUp
  <2>3. sweeper' = sweeper
    BY <1>15 DEF CreateComposeFollowUp
  <2>4. row'[handler[h].send].messageId # "null"
    BY <1>15 DEF CreateComposeFollowUp, BusyInv
  <2> QED
    BY <2>1, <2>2, <2>3, <2>4, RowsStep, TypeStep, BusyHandlers
<1>16. ASSUME NEW h \in Handlers, PublishSent(h)
      PROVE  BusyInv'
  <2>1. /\ handler'[h] = IdleHandler
        /\ \A g \in Handlers : g # h => handler'[g] = handler[g]
    BY <1>16, LeaveHandler DEF PublishSent, TypeOK
  <2>2. sweeper' = sweeper
    BY <1>16 DEF PublishSent
  <2> QED
    BY <2>1, <2>2, RowsStep, TypeStep, BusyHandlers DEF IdleHandler
<1>17. ASSUME NEW h \in Handlers, ReleaseForRetry(h)
      PROVE  BusyInv'
  <2>1. /\ handler'[h].pc = "throw" /\ handler'[h].send = handler[h].send
        /\ \A g \in Handlers : g # h => handler'[g] = handler[g]
    BY <1>17, GotoHandler DEF ReleaseForRetry, TypeOK, HandlerPC, HoldPC
  <2>2. handler[h].send \in Sends
    BY <1>17, BusyHandler DEF ReleaseForRetry
  <2>3. sweeper' = sweeper
    BY <1>17 DEF ReleaseForRetry
  <2> QED
    BY <2>1, <2>2, <2>3, RowsStep, TypeStep, BusyHandlers
<1>18. ASSUME NEW h \in Handlers, Rethrow(h)
      PROVE  BusyInv'
  <2>1. /\ handler'[h] = IdleHandler
        /\ \A g \in Handlers : g # h => handler'[g] = handler[g]
    BY <1>18, LeaveHandler DEF Rethrow, TypeOK
  <2>2. sweeper' = sweeper
    BY <1>18 DEF Rethrow
  <2> QED
    BY <2>1, <2>2, RowsStep, TypeStep, BusyHandlers DEF IdleHandler
<1>19. ASSUME NEW h \in Handlers, MarkRejected(h)
      PROVE  BusyInv'
  <2>1. /\ handler'[h].pc = "publishRejected" /\ handler'[h].send = handler[h].send
        /\ \A g \in Handlers : g # h => handler'[g] = handler[g]
    BY <1>19, GotoHandler DEF MarkRejected, TypeOK, HandlerPC, HoldPC
  <2>2. handler[h].send \in Sends
    BY <1>19, BusyHandler DEF MarkRejected
  <2>3. sweeper' = sweeper
    BY <1>19 DEF MarkRejected
  <2> QED
    BY <2>1, <2>2, <2>3, RowsStep, TypeStep, BusyHandlers
<1>20. ASSUME NEW h \in Handlers, PublishRejected(h)
      PROVE  BusyInv'
  <2>1. /\ handler'[h] = IdleHandler
        /\ \A g \in Handlers : g # h => handler'[g] = handler[g]
    BY <1>20, LeaveHandler DEF PublishRejected, TypeOK
  <2>2. sweeper' = sweeper
    BY <1>20 DEF PublishRejected
  <2> QED
    BY <2>1, <2>2, RowsStep, TypeStep, BusyHandlers DEF IdleHandler
<1>21. ASSUME NEW h \in Handlers, ErrorWriteThrows(h)
      PROVE  BusyInv'
  <2>1. /\ handler'[h] = IdleHandler
        /\ \A g \in Handlers : g # h => handler'[g] = handler[g]
    BY <1>21, LeaveHandler DEF ErrorWriteThrows, TypeOK
  <2>2. sweeper' = sweeper
    BY <1>21 DEF ErrorWriteThrows
  <2> QED
    BY <2>1, <2>2, RowsStep, TypeStep, BusyHandlers DEF IdleHandler
<1>22. ASSUME NEW h \in Handlers, Crash(h)
      PROVE  BusyInv'
  BY <1>22, RowsStep, TypeStep, BusyHandlers DEF Crash, TypeOK, IdleHandler
<1>23. ASSUME NEW j \in Jobs, Expire(j)
      PROVE  BusyInv'
  BY <1>23, RowsStep, BusyFrame DEF Expire, TypeOK, Handler
<1>24. ASSUME NEW k \in Sweepers, SweepQueued(k)
      PROVE  BusyInv'
  <2>1. PICK T \in FindStale("queued") : Sweep(k, "requeue", T, NoSend)
    BY <1>24 DEF SweepQueued
  <2>2. \A s \in T : s \in Sends /\ row[s].status # "absent"
    BY <2>1 DEF FindStale, TypeOK
  <2>3. /\ sweeper'[k].pc = "requeue" /\ sweeper'[k].todo = T
        /\ \A m \in Sweepers : m # k => sweeper'[m] = sweeper[m]
    BY <2>1 DEF Sweep, TypeOK
  <2>4. handler' = handler
    BY <1>24 DEF SweepQueued
  <2> QED
    BY <2>2, <2>3, <2>4, RowsStep, BusySweepers
<1>25. ASSUME NEW k \in Sweepers, Requeue(k)
      PROVE  BusyInv'
  <2>1. PICK s \in sweeper[k].todo : Sweep(k, "requeue", sweeper[k].todo \ {s}, NoSend)
    BY <1>25 DEF Requeue
  <2>2. \A t \in sweeper[k].todo : t \in Sends /\ row[t].status # "absent"
    BY DEF BusyInv, TypeOK, Sweeper
  <2>3. /\ sweeper'[k].pc = "requeue" /\ sweeper'[k].todo \subseteq sweeper[k].todo
        /\ sweeper'[k].send = NoSend
        /\ \A m \in Sweepers : m # k => sweeper'[m] = sweeper[m]
    BY <2>1 DEF Sweep, TypeOK
  <2>4. handler' = handler
    BY <1>25 DEF Requeue
  <2> QED
    BY <2>1, <2>2, <2>3, <2>4, RowsStep, BusySweepers
<1>26. ASSUME NEW k \in Sweepers, SweepSending(k)
      PROVE  BusyInv'
  <2>1. PICK T \in FindStale("sending") : Sweep(k, "close", T, NoSend)
    BY <1>26 DEF SweepSending
  <2>2. \A s \in T : s \in Sends /\ row[s].status # "absent"
    BY <2>1 DEF FindStale, TypeOK
  <2>3. /\ sweeper'[k].pc = "close" /\ sweeper'[k].todo = T
        /\ \A m \in Sweepers : m # k => sweeper'[m] = sweeper[m]
    BY <2>1 DEF Sweep, TypeOK
  <2>4. handler' = handler
    BY <1>26 DEF SweepSending
  <2> QED
    BY <2>2, <2>3, <2>4, RowsStep, BusySweepers
<1>27. ASSUME NEW k \in Sweepers, MarkUnconfirmed(k)
      PROVE  BusyInv'
  <2>1. PICK s \in sweeper[k].todo : Sweep(k, "publish", sweeper[k].todo \ {s}, s)
    BY <1>27 DEF MarkUnconfirmed
  <2>2. \A t \in sweeper[k].todo : t \in Sends /\ row[t].status # "absent"
    BY DEF BusyInv, TypeOK, Sweeper
  <2>3. /\ sweeper'[k].pc = "publish" /\ sweeper'[k].todo \subseteq sweeper[k].todo
        /\ sweeper'[k].send = s
        /\ \A m \in Sweepers : m # k => sweeper'[m] = sweeper[m]
    BY <2>1 DEF Sweep, TypeOK
  <2>4. handler' = handler
    BY <1>27 DEF MarkUnconfirmed
  <2> QED
    BY <2>1, <2>2, <2>3, <2>4, RowsStep, BusySweepers
<1>28. ASSUME NEW k \in Sweepers, PublishUnconfirmed(k)
      PROVE  BusyInv'
  <2>1. /\ sweeper'[k].pc = "close" /\ sweeper'[k].todo = sweeper[k].todo
        /\ \A m \in Sweepers : m # k => sweeper'[m] = sweeper[m]
        /\ handler' = handler
    BY <1>28 DEF PublishUnconfirmed, Sweep, TypeOK
  <2>2. \A t \in sweeper[k].todo : t \in Sends /\ row[t].status # "absent"
    BY DEF BusyInv, TypeOK, Sweeper
  <2> QED
    BY <2>1, <2>2, RowsStep, BusySweepers
<1>29. ASSUME NEW k \in Sweepers, SweepDone(k)
      PROVE  BusyInv'
  <2>1. /\ sweeper'[k] = IdleSweeper /\ handler' = handler
        /\ \A m \in Sweepers : m # k => sweeper'[m] = sweeper[m]
    BY <1>29 DEF SweepDone, TypeOK
  <2> QED
    BY <2>1, RowsStep, BusySweepers DEF IdleSweeper
<1>30. ASSUME NEW k \in Sweepers, SweepAborts(k)
      PROVE  BusyInv'
  <2>1. /\ sweeper'[k] = IdleSweeper /\ handler' = handler
        /\ \A m \in Sweepers : m # k => sweeper'[m] = sweeper[m]
    BY <1>30 DEF SweepAborts, TypeOK
  <2> QED
    BY <2>1, RowsStep, BusySweepers DEF IdleSweeper
<1>31. CASE UNCHANGED vars
  BY <1>31 DEF vars, BusyInv
<1> QED
  BY <1>1, <1>2, <1>3, <1>4, <1>5, <1>6, <1>7, <1>8, <1>9, <1>10, <1>11, <1>12, <1>13, <1>14, <1>15, <1>16, <1>17, <1>18, <1>19, <1>20, <1>21, <1>22, <1>23, <1>24, <1>25, <1>26, <1>27, <1>28, <1>29, <1>30, <1>31
     DEF Next, Endpoint, HandlerProgress, HandlerFault, SweeperProgress

(***************************************************************************)
(* The theorems                                                            *)
(***************************************************************************)

\* The invariant holds initially.
LEMMA ClaimInit == Init => ClaimInv
<1> SUFFICES ASSUME Init PROVE ClaimInv
  OBVIOUS
<1>1. TypeOK
  <2>1. /\ 0 \in 0..MaxAttempts
        /\ 0 \in 0..MaxFaults
    BY SendAssumption DEF SendAssumption
  <2>2. row \in [Sends -> Row]
    BY <2>1 DEF Init, Row, SendStatus, FailureReason
  <2>3. job \in [Jobs -> JobType]
    BY SendAssumption DEF SendAssumption, Init, JobInit, FreeJob, JobType, JobState
  <2>4. handler \in [Handlers -> Handler] /\ sweeper \in [Sweepers -> Sweeper]
    BY IdleTypes DEF Init
  <2>5. told \in [Sends -> Seq(Outcome)]
    BY DEF Init
  <2> QED
    BY <2>1, <2>2, <2>3, <2>4, <2>5 DEF Init, TypeOK, ApiState
<1>2. JobInv /\ AwaitInv
  BY DEF Init, JobInit, FreeJob, JobInv, AwaitInv, IdleHandler
<1>3. RowInv
  BY SendAssumption DEF SendAssumption, Init, RowInv, RowFacts
<1>4. HolderInv /\ ExclusiveClaim
  BY DEF Init, HolderInv, ExclusiveClaim, Holds, HoldPC, IdleHandler
<1>5. BusyInv
  BY DEF Init, BusyInv, IdleHandler, IdleSweeper
<1> QED
  BY <1>1, <1>2, <1>3, <1>4, <1>5 DEF ClaimInv

\* The invariant is inductive.
LEMMA ClaimNext == ClaimInv /\ [Next]_vars => ClaimInv'
<1> SUFFICES ASSUME ClaimInv, [Next]_vars PROVE ClaimInv'
  OBVIOUS
<1>1. TypeOK /\ JobInv /\ AwaitInv /\ RowInv /\ HolderInv /\ ExclusiveClaim /\ BusyInv
  BY DEF ClaimInv
<1>2. TypeOK'
  BY <1>1, TypeStep
<1>3. JobInv' /\ AwaitInv'
  BY <1>1, JobStep
<1>4. RowInv' /\ HolderInv' /\ ExclusiveClaim'
  BY <1>1, ClaimStep
<1>5. BusyInv'
  BY <1>1, BusyStep
<1> QED
  BY <1>2, <1>3, <1>4, <1>5 DEF ClaimInv

\* The strengthened invariant holds of every behaviour of the specification.
THEOREM ClaimInvariant == Spec => []ClaimInv
<1> QED
  BY ClaimInit, ClaimNext, PTL DEF Spec

\* Every variable keeps its type: attempts never pass MAX_EMAIL_SEND_ATTEMPTS
\* (the column's range), and a handler past the claim names a persisted row.
THEOREM TypeCorrect == Spec => []TypeOK
<1>1. ClaimInv => TypeOK
  BY DEF ClaimInv
<1> QED
  BY <1>1, ClaimInvariant, PTL

\* For every number of sends, workers, jobs, sweeps and faults, and whatever the
\* clocks do, two handlers never work on one attempt at a time.
THEOREM ClaimIsExclusive == Spec => []ExclusiveClaim
<1>1. ClaimInv => ExclusiveClaim
  BY DEF ClaimInv
<1> QED
  BY <1>1, ClaimInvariant, PTL

\* The provider never accepts more copies of a message than attempts were
\* claimed for it, nor more than MAX_EMAIL_SEND_ATTEMPTS.
THEOREM WireBudget == Spec => []WireWithinBudget
<1>1. ClaimInv => WireWithinBudget
  BY SendAssumption
     DEF SendAssumption, ClaimInv, RowInv, RowFacts, TypeOK, Row, WireWithinBudget
<1> QED
  BY <1>1, ClaimInvariant, PTL

\* A handler that is about to call the provider holds a row without ids.
LEMMA OnlyUnrecordedIsSent ==
    ASSUME ClaimInv, [Next]_vars, NEW s \in Sends, row[s].messageId # "null"
    PROVE  wire'[s] = wire[s]
<1>1. TypeOK /\ HolderInv /\ BusyInv
  BY DEF ClaimInv
<1>2. wire' = wire \/ \E h \in Handlers : ProviderAccepts(h)
  BY ZenonT(60) DEF Next, Endpoint, HandlerProgress, HandlerFault, SweeperProgress, vars,
        Persist, EnqueueSend, EnqueueLost, Age, Fetch, ClaimThrows, Claim,
        ClaimLost, Reread, RereadThrows, ProviderRejects, PostAcceptThrows,
        MarkSent, CreateComposeFollowUp, PublishSent, ReleaseForRetry,
        Rethrow, MarkRejected, PublishRejected, ErrorWriteThrows, Crash,
        Expire, SweepQueued, Requeue, SweepSending, MarkUnconfirmed,
        PublishUnconfirmed, SweepDone, SweepAborts
<1>3. ASSUME NEW h \in Handlers, ProviderAccepts(h)
      PROVE  wire'[s] = wire[s]
  <2>1. Holds(h, handler[h].send) /\ handler[h].send \in Sends
    BY <1>1, <1>3 DEF ProviderAccepts, Holds, HoldPC, BusyInv
  <2>2. handler[h].send # s
    BY <1>1, <2>1 DEF HolderInv, ClaimFacts
  <2> QED
    BY <1>1, <1>3, <2>2 DEF ProviderAccepts, TypeOK
<1> QED
  BY <1>2, <1>3

\* A send whose provider ids were recorded is never transmitted again.
THEOREM NeverResent == Spec => NeverResentOnceRecorded
<1>1. ClaimInv /\ [Next]_vars =>
         [\A s \in Sends : row[s].messageId # "null" => wire'[s] = wire[s]]_vars
  BY OnlyUnrecordedIsSent
<1> QED
  BY <1>1, ClaimInvariant, PTL DEF Spec, NeverResentOnceRecorded

\* A step creates a follow-up only for a send whose ids are recorded.
LEMMA FollowUpNext ==
    ASSUME ClaimInv, FollowUpOnlyIfSent, TypeOK', RowInv', [Next]_vars
    PROVE  FollowUpOnlyIfSent'
<1>1. TypeOK /\ RowInv /\ BusyInv /\ followUps' \subseteq Sends
  BY SendAssumption DEF SendAssumption, ClaimInv, TypeOK
<1>2. RowsPersist
  BY <1>1, RowsStep
<1>3. \A s \in followUps' : row'[s].messageId # "null"
  <2>1. CASE followUps' = followUps
    BY <1>1, <1>2, <2>1 DEF FollowUpOnlyIfSent, RowsPersist
  <2>2. ASSUME NEW h \in Handlers, CreateComposeFollowUp(h)
        PROVE  \A s \in followUps' : row'[s].messageId # "null"
    <3>1. row[handler[h].send].messageId # "null" /\ row' = row
      BY <1>1, <2>2 DEF CreateComposeFollowUp, BusyInv
    <3>2. followUps' \subseteq followUps \cup {handler[h].send}
      BY <2>2 DEF CreateComposeFollowUp
    <3> QED
      BY <3>1, <3>2 DEF FollowUpOnlyIfSent
  <2> QED
    <3>1. followUps' = followUps \/ \E h \in Handlers : CreateComposeFollowUp(h)
      BY DEF Next, Endpoint, HandlerProgress, HandlerFault, SweeperProgress, vars,
        Persist, EnqueueSend, EnqueueLost, Age, Fetch, ClaimThrows, Claim,
        ClaimLost, Reread, RereadThrows, ProviderAccepts, ProviderRejects,
        PostAcceptThrows, MarkSent, PublishSent, ReleaseForRetry, Rethrow,
        MarkRejected, PublishRejected, ErrorWriteThrows, Crash, Expire,
        SweepQueued, Requeue, SweepSending, MarkUnconfirmed,
        PublishUnconfirmed, SweepDone, SweepAborts
    <3> QED
      BY <2>1, <2>2, <3>1
<1> QED
  BY <1>1, <1>3 DEF FollowUpOnlyIfSent, RowInv, RowFacts

\* A follow-up reminder exists only for a message that went out and was
\* recorded, through every crash, retry and late sweep.
THEOREM FollowUpTruthful == Spec => []FollowUpOnlyIfSent
<1>1. Init => FollowUpOnlyIfSent
  BY DEF Init, FollowUpOnlyIfSent
<1>2. ClaimInv' => TypeOK' /\ RowInv'
  BY DEF ClaimInv
<1>3. ClaimInv /\ ClaimInv' /\ FollowUpOnlyIfSent /\ [Next]_vars => FollowUpOnlyIfSent'
  BY <1>2, FollowUpNext
<1> QED
  BY <1>1, <1>3, ClaimInvariant, PTL DEF Spec

(***************************************************************************)
(* The shapes of a step                                                    *)
(***************************************************************************)

\* What a step does to one row, one handler, the wire or a user's events.
Writes(s, status) ==
    /\ row'[s].status = status
    /\ \A t \in Sends : t # s => row'[t] = row[t]
    /\ stale' = stale \ {s}
    /\ UNCHANGED <<wire, told>>

Keeps == UNCHANGED <<row, stale, wire, told>>

Tells(s, outcome) ==
    /\ told'[s] = Append(told[s], outcome)
    /\ \A t \in Sends : t # s => told'[t] = told[t]
    /\ UNCHANGED <<row, stale, wire>>

Transmits(s) ==
    /\ wire'[s] = wire[s] + 1
    /\ \A t \in Sends : t # s => wire'[t] = wire[t]
    /\ UNCHANGED <<row, stale, told>>

Hides(s) ==
    /\ hidden'[s] = hidden[s] + 1
    /\ \A t \in Sends : t # s => hidden'[t] = hidden[t]

Moves(h, from, to) ==
    /\ handler[h].pc = from /\ handler[h].send \in Sends
    /\ handler'[h].pc = to /\ handler'[h].send = handler[h].send
    /\ \A g \in Handlers : g # h => handler'[g] = handler[g]
    /\ sweeper' = sweeper

Leaves(h) ==
    /\ handler'[h].pc \in {"idle", "claim"}
    /\ \A g \in Handlers : g # h => handler'[g] = handler[g]
    /\ sweeper' = sweeper

SweepMoves(k, pc, todo, s) ==
    /\ sweeper'[k].pc = pc /\ sweeper'[k].todo = todo /\ sweeper'[k].send = s
    /\ \A m \in Sweepers : m # k => sweeper'[m] = sweeper[m]
    /\ handler' = handler

\* The handlers' steps, ...
HandlerShape(h) ==
    LET s == handler[h].send IN
    \/ Keeps /\ Leaves(h)
    \/ Keeps /\ (Moves(h, "reread", "dispatch") \/ Moves(h, "dispatch", "error"))
    \/ Keeps /\ Hides(s) /\ Moves(h, "accepted", "error")
    \/ Keeps /\ Moves(h, "followUp", "publishSent")
    \/ Moves(h, "dispatch", "accepted") /\ Transmits(s)
    \/ row[s].status = "queued" /\ Moves(h, "claim", "reread") /\ Writes(s, "sending")
    \/ Moves(h, "accepted", "followUp") /\ Writes(s, "sent")
    \/ Moves(h, "error", "throw") /\ Writes(s, "queued")
    \/ Moves(h, "error", "publishRejected") /\ Writes(s, "failed")
    \/ handler[h].pc = "publishSent" /\ s \in Sends /\ Leaves(h) /\ Tells(s, "succeeded")
    \/ handler[h].pc = "publishRejected" /\ s \in Sends /\ Leaves(h) /\ Tells(s, "rejected")

\* ... the sweepers' ...
SweeperShape(k) ==
    \/ /\ Keeps
       /\ \E pc \in {"idle", "requeue"}, T \in SUBSET Sends : SweepMoves(k, pc, T, NoSend)
    \/ /\ Keeps
       /\ \E T \in FindStale("sending") : SweepMoves(k, "close", T, NoSend)
    \/ \E s \in sweeper[k].todo :
          /\ sweeper[k].pc = "close"
          /\ SweepMoves(k, "publish", sweeper[k].todo \ {s}, s)
          /\ Writes(s, "failed")
    \/ /\ sweeper[k].pc = "publish"
       /\ SweepMoves(k, "close", sweeper[k].todo, NoSend)
       /\ Tells(sweeper[k].send, "unconfirmed")

\* ... and what endpoints, clocks and the queue do.
OtherShape ==
    \/ /\ Keeps
       /\ sweeper' = sweeper
       /\ \A g \in Handlers : handler'[g].pc = handler[g].pc /\ handler'[g].send = handler[g].send
    \/ \E s \in Sends :
          row[s].status = "absent" /\ Writes(s, "queued") /\ UNCHANGED <<handler, sweeper>>
    \/ \E s \in Sends : Age(s)

\* A row written with WriteRow has the status of what was written.
LEMMA WritesStep ==
    ASSUME TypeOK, NEW s \in Sends, NEW r \in Row, WriteRow(s, r), UNCHANGED <<wire, told>>
    PROVE  Writes(s, r.status)
<1>1. /\ row'[s] = r
      /\ \A t \in Sends : t # s => row'[t] = row[t]
  BY WriteRowStep DEF TypeOK
<1> QED
  BY <1>1 DEF WriteRow, Writes

\* A handler that goes on with the message it has.
LEMMA MovesStep ==
    ASSUME TypeOK, BusyInv, NEW h \in Handlers, handler[h].pc # "idle",
           NEW pc \in HandlerPC, Goto(h, pc), sweeper' = sweeper
    PROVE  Moves(h, handler[h].pc, pc)
  BY GotoHandler, BusyHandler DEF TypeOK, Moves

\* A handler whose job is over.
LEMMA LeavesStep ==
    ASSUME ClaimInv, NEW h \in Handlers, Return(h) \/ Throw(h), sweeper' = sweeper
    PROVE  Leaves(h)
  BY LeaveHandler DEF ClaimInv, TypeOK, Leaves, IdleHandler

\* A sweeper that goes on.
LEMMA SweepMovesStep ==
    ASSUME TypeOK, NEW k \in Sweepers, NEW pc \in SweeperPC, NEW T \in SUBSET Sends,
           NEW s \in Sends \cup {NoSend}, Sweep(k, pc, T, s), handler' = handler
    PROVE  SweepMoves(k, pc, T, s)
<1>1. /\ sweeper'[k] = [pc |-> pc, todo |-> T, send |-> s]
      /\ \A m \in Sweepers : m # k => sweeper'[m] = sweeper[m]
  BY SweepStep DEF TypeOK
<1> QED
  BY <1>1 DEF SweepMoves

\* Every step of a handler has one of its shapes.
LEMMA HandlerShapes ==
    ASSUME ClaimInv, NEW h \in Handlers,
           HandlerProgress(h) \/ HandlerFault(h) \/ \E j \in Jobs : Fetch(h, j)
    PROVE  HandlerShape(h)
<1> DEFINE s == handler[h].send
<1>1. TypeOK /\ BusyInv /\ RowInv
  BY DEF ClaimInv
<1>2. handler[h].pc # "idle" => s \in Sends /\ row[s] \in Row
  BY <1>1, BusyHandler DEF TypeOK
<1>3. ASSUME NEW j \in Jobs, Fetch(h, j)
      PROVE  HandlerShape(h)
  <2>1. Leaves(h) /\ Keeps
    BY <1>1, <1>3 DEF Fetch, TypeOK, Leaves, Keeps
  <2> QED
    BY <2>1 DEF HandlerShape
<1>4. CASE ClaimThrows(h) \/ ClaimLost(h) \/ RereadThrows(h) \/ Rethrow(h) \/ ErrorWriteThrows(h)
  <2>1. Leaves(h) /\ Keeps
    BY <1>4, LeavesStep DEF ClaimThrows, ClaimLost, RereadThrows, Rethrow, ErrorWriteThrows, Keeps
  <2> QED
    BY <2>1 DEF HandlerShape
<1>5. CASE Crash(h)
  <2>1. Leaves(h) /\ Keeps
    BY <1>1, <1>5 DEF Crash, TypeOK, Leaves, Keeps, IdleHandler
  <2> QED
    BY <2>1 DEF HandlerShape
<1>6. CASE Claim(h)
  <2>1. Moves(h, "claim", "reread")
    BY <1>1, <1>6, MovesStep DEF Claim, HandlerPC, HoldPC
  <2>2. s \in Sends /\ row[s] \in Row /\ row[s].status = "queued" /\ row[s].attempts < MaxAttempts
    BY <1>1, <1>2, <1>6 DEF Claim, RowInv, RowFacts
  <2>3. [row[s] EXCEPT !.status = "sending", !.attempts = @ + 1] \in Row
    BY <2>2, RowTypes
  <2>4. [row[s] EXCEPT !.status = "sending", !.attempts = @ + 1].status = "sending"
    BY <2>2 DEF Row
  <2>5. Writes(s, "sending")
    BY <1>1, <1>6, <2>2, <2>3, <2>4, WritesStep DEF Claim
  <2> QED
    BY <2>1, <2>2, <2>5 DEF HandlerShape
<1>7. CASE Reread(h)
  <2>1. Moves(h, "reread", "dispatch") /\ Keeps
    BY <1>1, <1>2, <1>7 DEF Reread, TypeOK, Handler, Moves, Keeps
  <2> QED
    BY <2>1 DEF HandlerShape
<1>8. CASE ProviderAccepts(h)
  <2>1. Moves(h, "dispatch", "accepted")
    BY <1>1, <1>8, MovesStep DEF ProviderAccepts, HandlerPC, HoldPC
  <2>2. Transmits(s)
    BY <1>1, <1>2, <1>8 DEF ProviderAccepts, Transmits, TypeOK
  <2> QED
    BY <2>1, <2>2 DEF HandlerShape
<1>9. CASE ProviderRejects(h)
  <2>1. Moves(h, "dispatch", "error") /\ Keeps
    BY <1>1, <1>9, MovesStep DEF ProviderRejects, HandlerPC, HoldPC, Keeps
  <2> QED
    BY <2>1 DEF HandlerShape
<1>10. CASE PostAcceptThrows(h)
  <2>1. Moves(h, "accepted", "error") /\ Keeps
    BY <1>1, <1>10, MovesStep DEF PostAcceptThrows, HandlerPC, HoldPC, Keeps
  <2>2. Hides(s)
    BY <1>1, <1>2, <1>10 DEF PostAcceptThrows, Hides, TypeOK
  <2> QED
    BY <2>1, <2>2 DEF HandlerShape
<1>11. CASE MarkSent(h)
  <2>1. Moves(h, "accepted", "followUp")
    BY <1>1, <1>11, MovesStep DEF MarkSent, HandlerPC, HoldPC
  <2>2. s \in Sends /\ [row[s] EXCEPT !.status = "sent", !.messageId = "provider"] \in Row
    BY <1>2, <1>11, RowTypes DEF MarkSent
  <2>3. [row[s] EXCEPT !.status = "sent", !.messageId = "provider"].status = "sent"
    BY <1>2, <1>11 DEF MarkSent, Row
  <2>4. Writes(s, "sent")
    BY <1>1, <1>11, <2>2, <2>3, WritesStep DEF MarkSent
  <2> QED
    BY <2>1, <2>4 DEF HandlerShape
<1>12. CASE CreateComposeFollowUp(h)
  <2>1. Moves(h, "followUp", "publishSent") /\ Keeps
    BY <1>1, <1>12, MovesStep DEF CreateComposeFollowUp, HandlerPC, HoldPC, Keeps
  <2> QED
    BY <2>1 DEF HandlerShape
<1>13. CASE PublishSent(h)
  <2>1. handler[h].pc = "publishSent" /\ s \in Sends /\ Leaves(h)
    BY <1>2, <1>13, LeavesStep DEF PublishSent
  <2>2. Tells(s, "succeeded")
    BY <1>1, <1>13, <2>1, PublishStep DEF PublishSent, Tells, Outcome, TypeOK
  <2> QED
    BY <2>1, <2>2 DEF HandlerShape
<1>14. CASE ReleaseForRetry(h)
  <2>1. Moves(h, "error", "throw")
    BY <1>1, <1>14, MovesStep DEF ReleaseForRetry, HandlerPC, HoldPC
  <2>2. s \in Sends /\ [row[s] EXCEPT !.status = "queued"] \in Row
    BY <1>2, <1>14, RowTypes DEF ReleaseForRetry
  <2>3. [row[s] EXCEPT !.status = "queued"].status = "queued"
    BY <1>2, <1>14 DEF ReleaseForRetry, Row
  <2>4. Writes(s, "queued")
    BY <1>1, <1>14, <2>2, <2>3, WritesStep DEF ReleaseForRetry
  <2> QED
    BY <2>1, <2>4 DEF HandlerShape
<1>15. CASE MarkRejected(h)
  <2>1. Moves(h, "error", "publishRejected")
    BY <1>1, <1>15, MovesStep DEF MarkRejected, HandlerPC, HoldPC
  <2>2. s \in Sends /\ [row[s] EXCEPT !.status = "failed", !.reason = "provider_rejected"] \in Row
    BY <1>2, <1>15, RowTypes DEF MarkRejected
  <2>3. [row[s] EXCEPT !.status = "failed", !.reason = "provider_rejected"].status = "failed"
    BY <1>2, <1>15 DEF MarkRejected, Row
  <2>4. Writes(s, "failed")
    BY <1>1, <1>15, <2>2, <2>3, WritesStep DEF MarkRejected
  <2> QED
    BY <2>1, <2>4 DEF HandlerShape
<1>16. CASE PublishRejected(h)
  <2>1. handler[h].pc = "publishRejected" /\ s \in Sends /\ Leaves(h)
    BY <1>2, <1>16, LeavesStep DEF PublishRejected
  <2>2. Tells(s, "rejected")
    BY <1>1, <1>16, <2>1, PublishStep DEF PublishRejected, Tells, Outcome, TypeOK
  <2> QED
    BY <2>1, <2>2 DEF HandlerShape
<1> QED
  BY <1>3, <1>4, <1>5, <1>6, <1>7, <1>8, <1>9, <1>10, <1>11, <1>12, <1>13, <1>14, <1>15, <1>16
     DEF HandlerProgress, HandlerFault

\* Every step of a sweeper has one of its shapes.
LEMMA SweeperShapes ==
    ASSUME ClaimInv, NEW k \in Sweepers, SweeperProgress(k) \/ SweepAborts(k)
    PROVE  SweeperShape(k)
<1>1. TypeOK /\ BusyInv
  BY DEF ClaimInv
<1>2. CASE SweepQueued(k)
  <2>1. PICK T \in FindStale("queued") : Sweep(k, "requeue", T, NoSend)
    BY <1>2 DEF SweepQueued
  <2>2. T \in SUBSET Sends
    BY <1>1, <2>1, StaleRows DEF TypeOK
  <2>3. SweepMoves(k, "requeue", T, NoSend) /\ Keeps
    BY <1>1, <1>2, <2>1, <2>2, SweepMovesStep DEF SweepQueued, Keeps, SweeperPC
  <2> QED
    BY <2>2, <2>3 DEF SweeperShape
<1>3. CASE Requeue(k)
  <2>1. PICK s \in sweeper[k].todo : Sweep(k, "requeue", sweeper[k].todo \ {s}, NoSend)
    BY <1>3 DEF Requeue
  <2>2. sweeper[k].todo \ {s} \in SUBSET Sends
    BY <1>1 DEF TypeOK, Sweeper
  <2>3. SweepMoves(k, "requeue", sweeper[k].todo \ {s}, NoSend) /\ Keeps
    BY <1>1, <1>3, <2>1, <2>2, SweepMovesStep DEF Requeue, Keeps, SweeperPC
  <2> QED
    BY <2>2, <2>3 DEF SweeperShape
<1>4. CASE SweepSending(k)
  <2>1. PICK T \in FindStale("sending") : Sweep(k, "close", T, NoSend)
    BY <1>4 DEF SweepSending
  <2>2. T \in SUBSET Sends
    BY <1>1, <2>1, StaleRows DEF TypeOK
  <2>3. SweepMoves(k, "close", T, NoSend) /\ Keeps
    BY <1>1, <1>4, <2>1, <2>2, SweepMovesStep DEF SweepSending, Keeps, SweeperPC
  <2> QED
    BY <2>1, <2>3 DEF SweeperShape
<1>5. CASE MarkUnconfirmed(k)
  <2>1. PICK s \in sweeper[k].todo :
           /\ WriteRow(s, [row[s] EXCEPT !.status = "failed", !.reason = "unconfirmed"])
           /\ Sweep(k, "publish", sweeper[k].todo \ {s}, s)
    BY <1>5 DEF MarkUnconfirmed
  <2>2. s \in Sends /\ sweeper[k].todo \ {s} \in SUBSET Sends /\ row[s] \in Row
    BY <1>1, <2>1 DEF TypeOK, Sweeper
  <2>3. sweeper[k].pc = "close" /\ SweepMoves(k, "publish", sweeper[k].todo \ {s}, s)
    BY <1>1, <1>5, <2>1, <2>2, SweepMovesStep DEF MarkUnconfirmed, SweeperPC
  <2>4. /\ [row[s] EXCEPT !.status = "failed", !.reason = "unconfirmed"] \in Row
        /\ [row[s] EXCEPT !.status = "failed", !.reason = "unconfirmed"].status = "failed"
    BY <2>2, RowTypes DEF Row
  <2>5. Writes(s, "failed")
    BY <1>1, <1>5, <2>1, <2>2, <2>4, WritesStep DEF MarkUnconfirmed
  <2> QED
    BY <2>3, <2>5 DEF SweeperShape
<1>6. CASE PublishUnconfirmed(k)
  <2>1. sweeper[k].send \in Sends /\ sweeper[k].todo \in SUBSET Sends
    BY <1>1, <1>6 DEF PublishUnconfirmed, BusyInv, TypeOK, Sweeper
  <2>2. SweepMoves(k, "close", sweeper[k].todo, NoSend)
    BY <1>1, <1>6, <2>1, SweepMovesStep DEF PublishUnconfirmed, SweeperPC
  <2>3. Tells(sweeper[k].send, "unconfirmed")
    BY <1>1, <1>6, <2>1, PublishStep DEF PublishUnconfirmed, Tells, Outcome, TypeOK
  <2> QED
    BY <1>6, <2>2, <2>3 DEF PublishUnconfirmed, SweeperShape
<1>7. CASE SweepDone(k) \/ SweepAborts(k)
  <2>1. SweepMoves(k, "idle", {}, NoSend) /\ Keeps
    BY <1>1, <1>7 DEF SweepDone, SweepAborts, SweepMoves, Keeps, TypeOK, IdleSweeper
  <2> QED
    BY <2>1 DEF SweeperShape
<1> QED
  BY <1>2, <1>3, <1>4, <1>5, <1>6, <1>7 DEF SweeperProgress

\* Every step has a shape.
LEMMA StepShapes ==
    ASSUME ClaimInv, [Next]_vars
    PROVE  \/ \E h \in Handlers : HandlerShape(h)
           \/ \E k \in Sweepers : SweeperShape(k)
           \/ OtherShape
<1>1. TypeOK /\ RowInv
  BY DEF ClaimInv
<1>2. ASSUME NEW s \in Sends, Persist(s)
      PROVE  OtherShape
  <2>1. row[s].status = "absent"
    BY <1>1, <1>2 DEF Persist, RowInv, RowFacts
  <2>2. /\ row[s] \in Row /\ [row[s] EXCEPT !.status = "queued"] \in Row
        /\ [row[s] EXCEPT !.status = "queued"].status = "queued"
    BY <1>1, RowTypes DEF TypeOK, Row
  <2>3. Writes(s, "queued")
    BY <1>1, <1>2, <2>2, WritesStep DEF Persist
  <2> QED
    BY <1>2, <2>1, <2>3 DEF Persist, OtherShape
<1>3. ASSUME NEW s \in Sends, EnqueueSend(s) \/ EnqueueLost(s)
      PROVE  OtherShape
  BY <1>3 DEF EnqueueSend, EnqueueLost, OtherShape, Keeps
<1>4. ASSUME NEW j \in Jobs, Expire(j)
      PROVE  OtherShape
  BY <1>1, <1>4 DEF Expire, OtherShape, Keeps, TypeOK, Handler
<1>5. CASE UNCHANGED vars
  BY <1>5 DEF vars, OtherShape, Keeps
<1> QED
  BY <1>2, <1>3, <1>4, <1>5, HandlerShapes, SweeperShapes DEF Next, Endpoint, OtherShape

(***************************************************************************)
(* One copy, but for those an error after the acceptance hid               *)
(***************************************************************************)

\* The copies on the wire are all hidden from those who would record them.
AllHidden(s) == wire[s] <= hidden[s]

\* A message that was refused has no other copy, failed, and is in nobody's hands.
Refused(s) ==
    /\ AllHidden(s) /\ row[s].status = "failed"
    /\ \A h \in Handlers : ~Holds(h, s)

\* Only a handler that has just sent a message holds one with a copy that is not
\* hidden, and whoever tells "rejected", or has told it, speaks of a refused one.
CleanFacts(s) ==
    /\ wire[s] <= 1 + hidden[s]
    /\ row[s].status \in {"absent", "queued"} => AllHidden(s)
    /\ \A h \in Handlers :
          /\ Holds(h, s) /\ handler[h].pc # "accepted" => AllHidden(s)
          /\ handler[h].send = s /\ handler[h].pc = "publishRejected" => Refused(s)
    /\ \A i \in DOMAIN told[s] : told[s][i] = "rejected" => Refused(s)

CleanInv == \A s \in Sends : CleanFacts(s)

\* A send the step does not concern keeps its facts.
LEMMA CleanFrame ==
    ASSUME NEW s \in Sends, CleanFacts(s),
           row'[s].status = row[s].status, told'[s] = told[s],
           wire'[s] = wire[s], hidden'[s] = hidden[s],
           \A h \in Handlers :
              /\ Holds(h, s)' => Holds(h, s) /\ (handler'[h].pc = "accepted" <=> handler[h].pc = "accepted")
              /\ handler'[h].send = s /\ handler'[h].pc = "publishRejected"
                    => handler[h].send = s /\ handler[h].pc = "publishRejected"
    PROVE  CleanFacts(s)'
<1>1. Refused(s) => Refused(s)'
  BY DEF Refused, AllHidden
<1> QED
  BY <1>1 DEF CleanFacts, AllHidden

\* Only an error after the acceptance hides a copy.
LEMMA HiddenStep ==
    ASSUME [Next]_vars, ~\E h \in Handlers : PostAcceptThrows(h)
    PROVE  hidden' = hidden
<1>1. ASSUME NEW s \in Sends, Endpoint(s) \/ Age(s)
      PROVE  hidden' = hidden
  BY <1>1 DEF Endpoint, Persist, EnqueueSend, EnqueueLost, Age
<1>2. ASSUME NEW h \in Handlers, NEW j \in Jobs, Fetch(h, j)
      PROVE  hidden' = hidden
  BY <1>2 DEF Fetch
<1>3. ASSUME NEW h \in Handlers, HandlerProgress(h) \/ HandlerFault(h)
      PROVE  hidden' = hidden
  BY <1>3 DEF HandlerProgress, HandlerFault, Claim, ClaimLost, Reread, ProviderAccepts,
              ProviderRejects, MarkSent, CreateComposeFollowUp, PublishSent, ReleaseForRetry,
              Rethrow, MarkRejected, PublishRejected, ClaimThrows, RereadThrows,
              ErrorWriteThrows, Crash
<1>4. ASSUME NEW j \in Jobs, Expire(j)
      PROVE  hidden' = hidden
  BY <1>4 DEF Expire
<1>5. ASSUME NEW k \in Sweepers, SweeperProgress(k) \/ SweepAborts(k)
      PROVE  hidden' = hidden
  BY <1>5 DEF SweeperProgress, SweepQueued, Requeue, SweepSending, MarkUnconfirmed,
              PublishUnconfirmed, SweepDone, SweepAborts
<1>6. CASE UNCHANGED vars
  BY <1>6 DEF vars
<1> QED
  BY <1>1, <1>2, <1>3, <1>4, <1>5, <1>6 DEF Next

\* That error adds the one copy its handler had not recorded to the hidden ones.
LEMMA CleanHide ==
    ASSUME ClaimInv, CleanInv, NEW h \in Handlers, PostAcceptThrows(h), NEW s \in Sends
    PROVE  CleanFacts(s)'
<1>1. /\ CleanFacts(s)
      /\ \A f, g \in Handlers : Holds(f, s) /\ Holds(g, s) => f = g
      /\ wire[s] \in Nat /\ hidden \in [Sends -> Nat]
      /\ handler \in [Handlers -> Handler]
  BY DEF ClaimInv, CleanInv, ExclusiveClaim, TypeOK
<1>2. /\ row' = row /\ wire' = wire /\ told' = told
      /\ handler[h].pc = "accepted" /\ handler'[h].pc = "error"
      /\ handler'[h].send = handler[h].send
      /\ \A g \in Handlers : g # h => handler'[g] = handler[g]
      /\ hidden' = [hidden EXCEPT ![handler[h].send] = hidden[handler[h].send] + 1]
  BY <1>1 DEF PostAcceptThrows, Goto, Handler
<1>3. CASE handler[h].send = s
  <2>1. Holds(h, s) /\ ~Refused(s)
    BY <1>2, <1>3 DEF Holds, HoldPC, Refused
  <2>2. hidden'[s] = hidden[s] + 1 /\ wire[s] <= 1 + hidden[s]
    BY <1>1, <1>2, <1>3 DEF CleanFacts
  <2>3. AllHidden(s)' /\ wire'[s] <= 1 + hidden'[s]
    BY <1>1, <1>2, <2>2 DEF AllHidden
  <2>4. \A g \in Handlers : ~(handler'[g].send = s /\ handler'[g].pc = "publishRejected")
    BY <1>1, <1>2, <2>1 DEF CleanFacts
  <2>5. \A i \in DOMAIN told'[s] : told'[s][i] # "rejected"
    BY <1>1, <1>2, <2>1 DEF CleanFacts
  <2> QED
    BY <2>3, <2>4, <2>5 DEF CleanFacts
<1>4. CASE handler[h].send # s
  <2>1. hidden'[s] = hidden[s]
    BY <1>1, <1>2, <1>4
  <2> QED
    BY <1>1, <1>2, <1>4, <2>1, CleanFrame DEF Holds, HoldPC
<1> QED
  BY <1>3, <1>4

\* Every other step of a handler keeps the facts of every send.
LEMMA CleanHandler ==
    ASSUME ClaimInv, CleanInv, hidden' = hidden,
           NEW h \in Handlers, HandlerShape(h), NEW s \in Sends
    PROVE  CleanFacts(s)'
<1>1. /\ CleanFacts(s)
      /\ \A g \in Handlers : Holds(g, s) => row[s].status \in {"sending", "failed"}
      /\ \A f, g \in Handlers : Holds(f, s) /\ Holds(g, s) => f = g
      /\ wire[s] \in Nat /\ hidden[s] \in Nat /\ told[s] \in Seq(Outcome)
  BY DEF ClaimInv, CleanInv, HolderInv, ClaimFacts, ExclusiveClaim, TypeOK
<1>2. CASE Keeps /\ Leaves(h)
  BY <1>1, <1>2, CleanFrame DEF Keeps, Leaves, Holds, HoldPC
<1>3. CASE Keeps /\ (Moves(h, "reread", "dispatch") \/ Moves(h, "dispatch", "error"))
  BY <1>1, <1>3, CleanFrame DEF Keeps, Moves, Holds, HoldPC
<1>4. CASE Keeps /\ Moves(h, "followUp", "publishSent")
  BY <1>1, <1>4, CleanFrame DEF Keeps, Moves, Holds, HoldPC
<1>5. CASE Moves(h, "dispatch", "accepted") /\ Transmits(handler[h].send)
  <2>1. CASE handler[h].send = s
    <3>1. Holds(h, s) /\ AllHidden(s) /\ ~Refused(s)
      BY <1>1, <1>5, <2>1 DEF Moves, Holds, HoldPC, CleanFacts, Refused
    <3>2. /\ wire'[s] <= 1 + hidden'[s] /\ row' = row /\ told' = told
          /\ \A g \in Handlers : Holds(g, s)' => g = h
      BY <1>1, <1>5, <2>1, <3>1 DEF Moves, Transmits, Holds, HoldPC, AllHidden
    <3>3. \A g \in Handlers : handler'[g].send = s /\ handler'[g].pc = "publishRejected"
             => handler[g].send = s /\ handler[g].pc = "publishRejected"
      BY <1>5 DEF Moves
    <3>4. row[s].status \notin {"absent", "queued"}
      BY <1>1, <3>1
    <3> QED
      BY <1>1, <1>5, <3>1, <3>2, <3>3, <3>4 DEF CleanFacts, Moves
  <2>2. CASE handler[h].send # s
    BY <1>1, <1>5, <2>2, CleanFrame DEF Moves, Transmits, Holds, HoldPC
  <2> QED
    BY <2>1, <2>2
<1>6. CASE row[handler[h].send].status = "queued" /\ Moves(h, "claim", "reread")
           /\ Writes(handler[h].send, "sending")
  <2>1. CASE handler[h].send = s
    <3>1. AllHidden(s) /\ ~Refused(s) /\ \A g \in Handlers : ~Holds(g, s)
      BY <1>1, <1>6, <2>1 DEF CleanFacts, Refused
    <3>2. /\ wire' = wire /\ told' = told /\ row'[s].status = "sending"
          /\ \A g \in Handlers : handler'[g].send = s /\ handler'[g].pc = "publishRejected"
                => handler[g].send = s /\ handler[g].pc = "publishRejected"
      BY <1>6, <2>1 DEF Moves, Writes
    <3> QED
      BY <1>1, <3>1, <3>2 DEF CleanFacts, AllHidden
  <2>2. CASE handler[h].send # s
    BY <1>1, <1>6, <2>2, CleanFrame DEF Moves, Writes, Holds, HoldPC
  <2> QED
    BY <2>1, <2>2
<1>7. CASE \/ Moves(h, "accepted", "followUp") /\ Writes(handler[h].send, "sent")
           \/ Moves(h, "error", "throw") /\ Writes(handler[h].send, "queued")
           \/ Moves(h, "error", "publishRejected") /\ Writes(handler[h].send, "failed")
  <2>1. CASE handler[h].send = s
    <3>1. Holds(h, s) /\ ~Refused(s) /\ (handler[h].pc = "error" => AllHidden(s))
      BY <1>1, <1>7, <2>1 DEF Moves, Holds, HoldPC, CleanFacts, Refused
    <3>2. /\ wire' = wire /\ told' = told
          /\ row'[s].status = "queued" => handler[h].pc = "error"
          /\ row'[s].status # "absent"
          /\ \A g \in Handlers : ~Holds(g, s)'
      BY <1>1, <1>7, <2>1, <3>1 DEF Moves, Writes, Holds, HoldPC
    <3>3. ASSUME NEW g \in Handlers, handler'[g].send = s, handler'[g].pc = "publishRejected"
          PROVE  Refused(s)'
      <4>1. g = h
        BY <1>1, <1>7, <3>1, <3>3 DEF Moves, CleanFacts
      <4>2. AllHidden(s) /\ row'[s].status = "failed"
        BY <1>7, <2>1, <3>1, <3>3, <4>1 DEF Moves, Writes
      <4> QED
        BY <3>2, <4>2 DEF Refused, AllHidden
    <3> QED
      BY <1>1, <3>1, <3>2, <3>3 DEF CleanFacts, AllHidden
  <2>2. CASE handler[h].send # s
    BY <1>1, <1>7, <2>2, CleanFrame DEF Moves, Writes, Holds, HoldPC
  <2> QED
    BY <2>1, <2>2
<1>8. CASE \E outcome \in {"succeeded", "rejected"} :
              /\ handler[h].pc = IF outcome = "succeeded" THEN "publishSent" ELSE "publishRejected"
              /\ Leaves(h) /\ Tells(handler[h].send, outcome)
  <2>1. PICK outcome \in {"succeeded", "rejected"} :
              /\ handler[h].pc = IF outcome = "succeeded" THEN "publishSent" ELSE "publishRejected"
              /\ Leaves(h) /\ Tells(handler[h].send, outcome)
    BY <1>8
  <2>2. \A g \in Handlers :
           /\ Holds(g, s)' => Holds(g, s) /\ handler'[g] = handler[g]
           /\ handler'[g].send = s /\ handler'[g].pc = "publishRejected"
                 => handler[g].send = s /\ handler[g].pc = "publishRejected"
    BY <2>1 DEF Leaves, Holds, HoldPC
  <2>3. CASE handler[h].send = s
    <3>1. told'[s] = Append(told[s], outcome) /\ row' = row /\ wire' = wire
      BY <2>1, <2>3 DEF Tells
    <3>2. \A i \in DOMAIN told'[s] : told'[s][i] = "rejected" => Refused(s)
      <4>1. outcome = "rejected" => Refused(s)
        BY <1>1, <2>1, <2>3 DEF CleanFacts
      <4>2. \A i \in DOMAIN told'[s] :
               (i \in DOMAIN told[s] /\ told'[s][i] = told[s][i]) \/ told'[s][i] = outcome
        BY <1>1, <3>1
      <4> QED
        BY <1>1, <4>1, <4>2 DEF CleanFacts
    <3>3. Refused(s) => Refused(s)'
      BY <2>2, <3>1 DEF Refused, AllHidden
    <3> QED
      BY <1>1, <2>2, <3>1, <3>2, <3>3 DEF CleanFacts, AllHidden
  <2>4. CASE handler[h].send # s
    BY <1>1, <2>1, <2>2, <2>4, CleanFrame DEF Tells
  <2> QED
    BY <2>3, <2>4
<1>9. CASE Moves(h, "accepted", "error") /\ Hides(handler[h].send)
  BY <1>9 DEF Moves, Hides, ClaimInv, TypeOK
<1> QED
  BY <1>2, <1>3, <1>4, <1>5, <1>6, <1>7, <1>8, <1>9 DEF HandlerShape

\* Sweepers only fail rows, and the rest of the system writes new ones only.
LEMMA CleanOther ==
    ASSUME ClaimInv, CleanInv, hidden' = hidden, NEW s \in Sends,
           (\E k \in Sweepers : SweeperShape(k)) \/ OtherShape \/ UNCHANGED vars
    PROVE  CleanFacts(s)'
<1>1. /\ CleanFacts(s)
      /\ told[s] \in Seq(Outcome)
      /\ \A g \in Handlers : Holds(g, s) => row[s].status # "absent"
  BY DEF ClaimInv, CleanInv, HolderInv, ClaimFacts, TypeOK
<1>2. ASSUME Keeps, \A g \in Handlers : handler'[g].pc = handler[g].pc
                                         /\ handler'[g].send = handler[g].send
      PROVE  CleanFacts(s)'
  BY <1>1, <1>2, CleanFrame DEF Keeps, Holds
<1>3. ASSUME NEW t \in Sends, NEW status \in {"queued", "failed"}, Writes(t, status),
             handler' = handler,
             status = "queued" => row[t].status = "absent"
      PROVE  CleanFacts(s)'
  <2>1. CASE t = s
    <3>1. /\ row'[s].status = status /\ wire' = wire /\ told' = told
          /\ \A h \in Handlers : Holds(h, s)' <=> Holds(h, s)
      BY <1>3, <2>1 DEF Writes, Holds
    <3>2. Refused(s) => Refused(s)'
      BY <1>3, <2>1, <3>1 DEF Refused, AllHidden
    <3>3. row'[s].status \in {"absent", "queued"} => AllHidden(s)
      BY <1>1, <1>3, <2>1, <3>1 DEF CleanFacts
    <3> QED
      BY <1>1, <1>3, <3>1, <3>2, <3>3 DEF CleanFacts, AllHidden
  <2>2. CASE t # s
    BY <1>1, <1>3, <2>2, CleanFrame DEF Writes, Holds
  <2> QED
    BY <2>1, <2>2
<1>4. ASSUME NEW t, Tells(t, "unconfirmed"), handler' = handler
      PROVE  CleanFacts(s)'
  <2>1. /\ row' = row /\ wire' = wire
        /\ \A h \in Handlers : Holds(h, s)' <=> Holds(h, s)
    BY <1>4 DEF Tells, Holds
  <2>2. told'[s] = told[s] \/ told'[s] = Append(told[s], "unconfirmed")
    BY <1>4 DEF Tells
  <2>3. \A i \in DOMAIN told'[s] : told'[s][i] = "rejected" =>
           i \in DOMAIN told[s] /\ told[s][i] = "rejected"
    BY <1>1, <2>2, SMTT(30)
  <2>4. Refused(s) => Refused(s)'
    BY <2>1 DEF Refused, AllHidden
  <2> QED
    BY <1>1, <1>4, <2>1, <2>3, <2>4 DEF CleanFacts, AllHidden
<1>5. ASSUME NEW k \in Sweepers, SweeperShape(k)
      PROVE  CleanFacts(s)'
  <2>1. handler' = handler
    BY <1>5 DEF SweeperShape, SweepMoves
  <2>2. CASE Keeps
    BY <1>2, <2>1, <2>2
  <2>3. CASE \E t \in sweeper[k].todo : Writes(t, "failed")
    BY <1>3, <2>1, <2>3 DEF ClaimInv, TypeOK, Sweeper
  <2>4. CASE Tells(sweeper[k].send, "unconfirmed")
    BY <1>4, <2>1, <2>4
  <2> QED
    BY <1>5, <2>2, <2>3, <2>4 DEF SweeperShape
<1>6. ASSUME NEW t \in Sends, Age(t)
      PROVE  CleanFacts(s)'
  BY <1>1, <1>6, CleanFrame DEF Age, Holds
<1>7. CASE OtherShape
  BY <1>2, <1>3, <1>6, <1>7 DEF OtherShape
<1>8. CASE UNCHANGED vars
  BY <1>2, <1>8 DEF vars, Keeps
<1> QED
  BY <1>5, <1>7, <1>8

\* The facts are inductive.
LEMMA CleanNext == ClaimInv /\ CleanInv /\ [Next]_vars => CleanInv'
<1> SUFFICES ASSUME ClaimInv, CleanInv, [Next]_vars, NEW s \in Sends
             PROVE  CleanFacts(s)'
  BY DEF CleanInv
<1>1. CASE \E h \in Handlers : PostAcceptThrows(h)
  BY <1>1, CleanHide
<1>2. CASE ~\E h \in Handlers : PostAcceptThrows(h)
  <2>1. hidden' = hidden
    BY <1>2, HiddenStep
  <2> QED
    BY <2>1, StepShapes, CleanHandler, CleanOther
<1> QED
  BY <1>1, <1>2

\* Nothing is on the wire, held or told at the start.
LEMMA CleanInit == Init => CleanInv
  BY DEF Init, CleanInv, CleanFacts, AllHidden, Holds, HoldPC, IdleHandler

\* The conditional claim is a double-send guard: however late handlers and
\* sweepers are and whatever is duplicated, retried or crashes, each copy but the
\* first follows one that an error after its acceptance hid from its handler.
THEOREM OneCopy == Spec => []OneCopyUnlessHidden
<1>1. CleanInv => OneCopyUnlessHidden
  BY DEF CleanInv, CleanFacts, OneCopyUnlessHidden
<1> QED
  BY <1>1, CleanInit, CleanNext, ClaimInvariant, PTL DEF Spec

\* "rejected" is only told of a message with no copy on the wire but hidden ones.
THEOREM RejectionIsTrue == Spec => []RejectedUnlessHidden
<1>1. CleanInv => RejectedUnlessHidden
  BY DEF CleanInv, CleanFacts, Refused, AllHidden, RejectedUnlessHidden
<1> QED
  BY <1>1, CleanInit, CleanNext, ClaimInvariant, PTL DEF Spec

(***************************************************************************)
(* Refinement, when no live handler is outlasted and sweeps do not overlap *)
(***************************************************************************)

\* The regime of the refinement: the cron's sweeps follow one another.
OneSweepAtATime == \A j, k \in Sweepers : j = k

\* A send the step does not concern keeps its facts.
LEMMA SettledFrame ==
    ASSUME NEW s \in Sends, SettledFacts(s),
           row'[s].status = row[s].status, told'[s] = told[s],
           s \in stale' <=> s \in stale,
           \A h \in Handlers :
              /\ Holds(h, s)' => Holds(h, s)
              /\ Owes(h, s)' => Owes(h, s) /\ (handler'[h].pc = "publishRejected"
                                                 <=> handler[h].pc = "publishRejected"),
           sweeper' = sweeper
    PROVE  SettledFacts(s)'
  BY DEF SettledFacts

\* A handler's step keeps the facts of every send.
LEMMA SettledHandler ==
    ASSUME ClaimInv, SettledInv, NEW h \in Handlers, HandlerShape(h), NEW s \in Sends
    PROVE  SettledFacts(s)'
<1>1. /\ SettledFacts(s)
      /\ \A f, g \in Handlers : Holds(f, s) /\ Holds(g, s) => f = g
      /\ told[s] \in Seq(Outcome)
  BY DEF ClaimInv, SettledInv, ExclusiveClaim, TypeOK
<1>2. CASE Keeps /\ Leaves(h)
  BY <1>1, <1>2, SettledFrame DEF Keeps, Leaves, Holds, HoldPC, Owes
<1>3. CASE Keeps /\ \/ Moves(h, "reread", "dispatch") \/ Moves(h, "dispatch", "error")
                    \/ Moves(h, "accepted", "error") \/ Moves(h, "followUp", "publishSent")
  BY <1>1, <1>3, SettledFrame DEF Keeps, Moves, Holds, HoldPC, Owes
<1>4. CASE Moves(h, "dispatch", "accepted") /\ Transmits(handler[h].send)
  BY <1>1, <1>4, SettledFrame DEF Transmits, Moves, Holds, HoldPC, Owes
<1>5. CASE row[handler[h].send].status = "queued" /\ Moves(h, "claim", "reread")
           /\ Writes(handler[h].send, "sending")
  <2>1. CASE handler[h].send = s
    <3>1. /\ told[s] = <<>>
          /\ \A g \in Handlers : ~Holds(g, s) /\ ~Owes(g, s)
          /\ \A k \in Sweepers :
                /\ ~(sweeper[k].pc \in {"close", "publish"} /\ s \in sweeper[k].todo)
                /\ ~(sweeper[k].pc = "publish" /\ sweeper[k].send = s)
      BY <1>1, <1>5, <2>1 DEF SettledFacts
    <3>2. /\ told' = told /\ sweeper' = sweeper
          /\ row'[s].status = "sending" /\ s \notin stale'
          /\ \A g \in Handlers : ~Owes(g, s)'
      BY <1>5, <2>1, <3>1 DEF Moves, Writes, Owes
    <3> QED
      BY <3>1, <3>2 DEF SettledFacts
  <2>2. CASE handler[h].send # s
    BY <1>1, <1>5, <2>2, SettledFrame DEF Moves, Writes, Holds, HoldPC, Owes
  <2> QED
    BY <2>1, <2>2
<1>6. CASE \/ Moves(h, "accepted", "followUp") /\ Writes(handler[h].send, "sent")
           \/ Moves(h, "error", "throw") /\ Writes(handler[h].send, "queued")
           \/ Moves(h, "error", "publishRejected") /\ Writes(handler[h].send, "failed")
  <2>1. CASE handler[h].send = s
    <3>1. Holds(h, s)
      BY <1>6, <2>1 DEF Moves, Holds, HoldPC
    <3>2. row[s].status = "sending" /\ s \notin stale
      BY <1>1, <3>1 DEF SettledFacts
    <3>3. /\ told[s] = <<>>
          /\ \A g \in Handlers : ~Owes(g, s)
          /\ \A k \in Sweepers :
                /\ ~(sweeper[k].pc \in {"close", "publish"} /\ s \in sweeper[k].todo)
                /\ ~(sweeper[k].pc = "publish" /\ sweeper[k].send = s)
      BY <1>1, <3>2 DEF SettledFacts
    <3>4. told' = told /\ sweeper' = sweeper
      BY <1>6 DEF Moves, Writes
    <3>5. \A g \in Handlers : ~Holds(g, s)' /\ (Owes(g, s)' => g = h)
      BY <1>1, <1>6, <3>1, <3>3 DEF Moves, Holds, HoldPC, Owes
    <3>6. Owes(h, s)' => row'[s].status =
             IF handler'[h].pc = "publishRejected" THEN "failed" ELSE "sent"
      BY <1>6, <2>1 DEF Moves, Writes, Owes
    <3> QED
      BY <3>3, <3>4, <3>5, <3>6 DEF SettledFacts
  <2>2. CASE handler[h].send # s
    BY <1>1, <1>6, <2>2, SettledFrame DEF Moves, Writes, Holds, HoldPC, Owes
  <2> QED
    BY <2>1, <2>2
<1>7. CASE \E outcome \in Outcome :
              /\ handler[h].pc \in {"publishSent", "publishRejected"}
              /\ Leaves(h) /\ Tells(handler[h].send, outcome)
  <2>1. CASE handler[h].send = s
    <3>1. Owes(h, s)
      BY <1>7, <2>1 DEF Owes
    <3>2. /\ row[s].status \in {"sent", "failed"}
          /\ \A g \in Handlers : Owes(g, s) => g = h
          /\ \A g \in Handlers : ~Holds(g, s)
          /\ \A k \in Sweepers :
                /\ ~(sweeper[k].pc \in {"close", "publish"} /\ s \in sweeper[k].todo)
                /\ ~(sweeper[k].pc = "publish" /\ sweeper[k].send = s)
      BY <1>1, <3>1 DEF SettledFacts
    <3>3. /\ row' = row /\ sweeper' = sweeper
          /\ \A g \in Handlers : ~Holds(g, s)' /\ ~Owes(g, s)'
      BY <1>7, <3>2 DEF Leaves, Tells, Holds, HoldPC, Owes
    <3> QED
      BY <3>2, <3>3 DEF SettledFacts
  <2>2. CASE handler[h].send # s
    BY <1>1, <1>7, <2>2, SettledFrame DEF Leaves, Tells, Holds, HoldPC, Owes
  <2> QED
    BY <2>1, <2>2
<1> QED
  BY <1>2, <1>3, <1>4, <1>5, <1>6, <1>7 DEF HandlerShape, Outcome

\* A sweeper's step keeps the facts of every send.
LEMMA SettledSweeper ==
    ASSUME OneSweepAtATime, ClaimInv, SettledInv, NEW k \in Sweepers, SweeperShape(k), NEW s \in Sends
    PROVE  SettledFacts(s)'
<1>1. /\ SettledFacts(s)
      /\ told[s] \in Seq(Outcome)
      /\ sweeper[k].todo \subseteq Sends
      /\ \A m \in Sweepers : m = k
  BY DEF ClaimInv, SettledInv, TypeOK, Sweeper, OneSweepAtATime
<1>2. /\ handler' = handler
      /\ \A h \in Handlers : (Holds(h, s)' <=> Holds(h, s)) /\ (Owes(h, s)' <=> Owes(h, s))
  BY DEF SweeperShape, SweepMoves, Holds, Owes
<1>3. CASE Keeps /\ \E pc \in {"idle", "requeue"}, T \in SUBSET Sends : SweepMoves(k, pc, T, NoSend)
  BY <1>1, <1>2, <1>3 DEF Keeps, SweepMoves, SettledFacts
<1>4. CASE Keeps /\ \E T \in FindStale("sending") : SweepMoves(k, "close", T, NoSend)
  <2>1. sweeper'[k].pc = "close" /\ sweeper'[k].todo \in FindStale("sending")
    BY <1>4 DEF SweepMoves
  <2>2. s \in sweeper'[k].todo => s \in stale /\ row[s].status = "sending"
    BY <2>1, StaleRows DEF ClaimInv, TypeOK
  <2> QED
    BY <1>1, <1>2, <1>4, <2>1, <2>2 DEF Keeps, SettledFacts
<1>5. CASE \E t \in sweeper[k].todo :
              /\ sweeper[k].pc = "close"
              /\ SweepMoves(k, "publish", sweeper[k].todo \ {t}, t)
              /\ Writes(t, "failed")
  <2>1. PICK t \in sweeper[k].todo :
              /\ sweeper[k].pc = "close"
              /\ SweepMoves(k, "publish", sweeper[k].todo \ {t}, t)
              /\ Writes(t, "failed")
    BY <1>5
  <2>2. CASE t = s
    <3>1. row[s].status = "sending" /\ s \in stale /\ told[s] = <<>>
      BY <1>1, <2>1, <2>2 DEF SettledFacts
    <3>2. \A h \in Handlers : ~Holds(h, s) /\ ~Owes(h, s)
      BY <1>1, <3>1 DEF SettledFacts
    <3>3. /\ row'[s].status = "failed" /\ told'[s] = told[s] /\ s \notin sweeper'[k].todo
      BY <2>1, <2>2 DEF SweepMoves, Writes
    <3> QED
      BY <1>1, <1>2, <3>1, <3>2, <3>3 DEF SettledFacts
  <2>3. CASE t # s
    <3>1. /\ row'[s] = row[s] /\ told'[s] = told[s] /\ (s \in stale' <=> s \in stale)
          /\ sweeper'[k].send # s
          /\ s \in sweeper'[k].todo => s \in sweeper[k].todo
      BY <2>1, <2>3 DEF SweepMoves, Writes
    <3> QED
      BY <1>1, <1>2, <2>1, <3>1 DEF SettledFacts
  <2> QED
    BY <2>2, <2>3
<1>6. CASE /\ sweeper[k].pc = "publish"
           /\ SweepMoves(k, "close", sweeper[k].todo, NoSend)
           /\ Tells(sweeper[k].send, "unconfirmed")
  <2>1. /\ row' = row /\ stale' = stale
        /\ sweeper'[k].pc = "close" /\ sweeper'[k].todo = sweeper[k].todo
    BY <1>6 DEF SweepMoves, Tells
  <2>2. CASE sweeper[k].send = s
    <3>1. row[s].status = "failed" /\ \A h \in Handlers : ~Owes(h, s)
      BY <1>1, <1>6, <2>2 DEF SettledFacts
    <3> QED
      BY <1>1, <1>2, <1>6, <2>1, <3>1 DEF SettledFacts
  <2>3. CASE sweeper[k].send # s
    <3>1. told'[s] = told[s]
      BY <1>6, <2>3 DEF Tells
    <3> QED
      BY <1>1, <1>2, <1>6, <2>1, <3>1 DEF SettledFacts
  <2> QED
    BY <2>2, <2>3
<1> QED
  BY <1>3, <1>4, <1>5, <1>6 DEF SweeperShape

\* So do endpoints, the queue, and a clock that spares the rows handlers hold.
LEMMA SettledOther ==
    ASSUME Timely, ClaimInv, SettledInv, OtherShape, NEW s \in Sends
    PROVE  SettledFacts(s)'
<1>1. SettledFacts(s)
  BY DEF SettledInv
<1>2. CASE /\ Keeps
           /\ sweeper' = sweeper
           /\ \A g \in Handlers : handler'[g].pc = handler[g].pc /\ handler'[g].send = handler[g].send
  BY <1>1, <1>2, SettledFrame DEF Keeps, Holds, Owes
<1>3. ASSUME NEW t \in Sends, row[t].status = "absent", Writes(t, "queued"),
             UNCHANGED <<handler, sweeper>>
      PROVE  SettledFacts(s)'
  <2>1. CASE t = s
    <3>1. /\ told[s] = <<>>
          /\ \A g \in Handlers : ~Holds(g, s) /\ ~Owes(g, s)
          /\ \A k \in Sweepers :
                /\ ~(sweeper[k].pc \in {"close", "publish"} /\ s \in sweeper[k].todo)
                /\ ~(sweeper[k].pc = "publish" /\ sweeper[k].send = s)
      BY <1>1, <1>3, <2>1 DEF SettledFacts
    <3>2. \A g \in Handlers : ~Holds(g, s)' /\ ~Owes(g, s)'
      BY <1>3, <3>1 DEF Holds, Owes
    <3> QED
      BY <1>3, <3>1, <3>2 DEF Writes, SettledFacts
  <2>2. CASE t # s
    BY <1>1, <1>3, <2>2, SettledFrame DEF Writes, Holds, Owes
  <2> QED
    BY <2>1, <2>2
<1>4. ASSUME NEW t \in Sends, Age(t)
      PROVE  SettledFacts(s)'
  <2>1. /\ UNCHANGED <<row, told, handler, sweeper>>
        /\ \A g \in Handlers : (Holds(g, s)' <=> Holds(g, s)) /\ (Owes(g, s)' <=> Owes(g, s))
    BY <1>4 DEF Age, Holds, Owes
  <2>2. CASE t = s
    <3>1. \A g \in Handlers : ~Holds(g, s)
      BY <1>1, <1>4, <2>2 DEF Age, SettledFacts
    <3>2. stale' = stale \cup {s}
      BY <1>4, <2>2 DEF Age
    <3> QED
      BY <1>1, <2>1, <3>1, <3>2 DEF SettledFacts
  <2>3. CASE t # s
    BY <1>1, <1>4, <2>1, <2>3, SettledFrame DEF Age
  <2> QED
    BY <2>2, <2>3
<1> QED
  BY <1>2, <1>3, <1>4 DEF OtherShape

\* Nothing is told, held or listed at the start, and every step keeps the facts.
LEMMA SettledInit == Init => SettledInv
  BY DEF Init, SettledInv, SettledFacts, Holds, HoldPC, Owes, IdleHandler, IdleSweeper

LEMMA SettledNext ==
    ASSUME Timely, OneSweepAtATime
    PROVE  ClaimInv /\ SettledInv /\ [Next]_vars => SettledInv'
  BY StepShapes, SettledHandler, SettledSweeper, SettledOther DEF SettledInv

\* Every row shape is a step of the ledger, or none.
LEMMA LedgerWrite ==
    ASSUME NEW s \in Sends, NEW status \in SendStatus, Writes(s, status),
           \/ row[s].status = "absent" /\ status = "queued"
           \/ row[s].status = "queued" /\ status = "sending"
           \/ row[s].status = "sending" /\ status = "queued"
           \/ row[s].status = "sending" /\ status = "failed"
           \/ row[s].status = "sending" /\ status = "sent" /\ wire[s] > 0
    PROVE  [Ledger!LedgerNext]_(Ledger!ledgerVars)
<1> DEFINE book == [t \in Sends |-> LedgerOf(row[t].status)]
<1>1. book' = [book EXCEPT ![s] = LedgerOf(status)]
  BY DEF Writes
<1>2. book[s] = LedgerOf(row[s].status) /\ UNCHANGED <<wire, told>>
  BY DEF Writes
<1>3. CASE row[s].status = "absent"
  BY <1>1, <1>2, <1>3 DEF LedgerOf, Ledger!LedgerNext, Ledger!HandOver
<1>4. CASE row[s].status \in {"queued", "sending"} /\ status \in {"queued", "sending"}
  <2>1. book' = book
    BY <1>1, <1>2, <1>4 DEF LedgerOf
  <2> QED
    BY <1>2, <2>1 DEF Ledger!ledgerVars
<1>5. CASE row[s].status = "sending" /\ status \in {"sent", "failed"}
  <2>1. Ledger!Settle(s, status)
    BY <1>1, <1>2, <1>5 DEF LedgerOf, Ledger!Settle
  <2> QED
    BY <1>5, <2>1 DEF Ledger!LedgerNext
<1> QED
  BY <1>3, <1>4, <1>5

\* An event the user has not been told, true of the settled row, is a notice.
LEMMA LedgerTell ==
    ASSUME TypeOK, TypeOK', NEW s \in Sends, NEW outcome \in Outcome, Tells(s, outcome), told[s] = <<>>,
           row[s].status = IF outcome = "succeeded" THEN "sent" ELSE "failed"
    PROVE  [Ledger!LedgerNext]_(Ledger!ledgerVars)
<1>1. told' = [told EXCEPT ![s] = <<outcome>>]
  <2>1. told'[s] = <<outcome>>
    BY DEF Tells
  <2> QED
    BY <2>1 DEF TypeOK, Tells
<1>2. /\ UNCHANGED <<row, wire>>
      /\ [t \in Sends |-> LedgerOf(row[t].status)]' = [t \in Sends |-> LedgerOf(row[t].status)]
  BY DEF Tells
<1>3. Ledger!Notify(s)
  BY <1>1, <1>2 DEF Ledger!Notify, Ledger!FailureNotice, LedgerOf, Outcome
<1> QED
  BY <1>3 DEF Ledger!LedgerNext

\* Every step of the pipeline is a step of the ledger, or leaves it alone.
LEMMA LedgerStep ==
    ASSUME ClaimInv, SettledInv, TypeOK', [Next]_vars
    PROVE  [Ledger!LedgerNext]_(Ledger!ledgerVars)
<1>1. TypeOK /\ RowInv /\ HolderInv
  BY DEF ClaimInv
<1>2. ASSUME UNCHANGED <<row, wire, told>>
      PROVE  [Ledger!LedgerNext]_(Ledger!ledgerVars)
  BY <1>2 DEF Ledger!ledgerVars
<1>3. ASSUME NEW h \in Handlers, HandlerShape(h)
      PROVE  [Ledger!LedgerNext]_(Ledger!ledgerVars)
  <2> DEFINE s == handler[h].send
  <2>1. CASE Keeps
    BY <1>2, <2>1 DEF Keeps
  <2>2. CASE Moves(h, "dispatch", "accepted") /\ Transmits(s)
    <3>1. s \in Sends /\ Holds(h, s)
      BY <2>2 DEF Moves, Holds, HoldPC
    <3>2. row[s].status = "sending" /\ wire[s] < MaxAttempts
      <4>1. wire[s] < row[s].attempts
        BY <1>1, <2>2, <3>1 DEF HolderInv, ClaimFacts, Moves
      <4>2. row[s].attempts \in 0..MaxAttempts /\ wire[s] \in Nat
        BY <1>1, <3>1 DEF TypeOK, Row
      <4>3. row[s].status = "sending"
        BY <3>1 DEF SettledInv, SettledFacts
      <4> QED
        BY <4>1, <4>2, <4>3, SendAssumption DEF SendAssumption
    <3>3. wire' = [wire EXCEPT ![s] = wire[s] + 1]
      BY <1>1, <2>2, <3>1 DEF TypeOK, Transmits
    <3>4. Ledger!Transmit(s)
      BY <2>2, <3>1, <3>2, <3>3 DEF Transmits, Ledger!Transmit, LedgerOf
    <3> QED
      BY <3>1, <3>4 DEF Ledger!LedgerNext
  <2>3. CASE row[s].status = "queued" /\ Moves(h, "claim", "reread") /\ Writes(s, "sending")
    BY <2>3, LedgerWrite DEF Moves, SendStatus
  <2>4. ASSUME \/ Moves(h, "accepted", "followUp") /\ Writes(s, "sent")
               \/ Moves(h, "error", "throw") /\ Writes(s, "queued")
               \/ Moves(h, "error", "publishRejected") /\ Writes(s, "failed")
        PROVE  [Ledger!LedgerNext]_(Ledger!ledgerVars)
    <3>1. s \in Sends /\ Holds(h, s)
      BY <2>4 DEF Moves, Holds, HoldPC
    <3>2. row[s].status = "sending"
      BY <3>1 DEF SettledInv, SettledFacts
    <3>3. handler[h].pc = "accepted" => wire[s] > 0
      BY <1>1, <3>1 DEF HolderInv, ClaimFacts
    <3> QED
      BY <2>4, <3>1, <3>2, <3>3, LedgerWrite DEF Moves, SendStatus
  <2>5. ASSUME NEW outcome \in {"succeeded", "rejected"}, s \in Sends,
               handler[h].pc = IF outcome = "succeeded" THEN "publishSent" ELSE "publishRejected",
               Tells(s, outcome)
        PROVE  [Ledger!LedgerNext]_(Ledger!ledgerVars)
    <3>1. Owes(h, s)
      BY <2>5 DEF Owes
    <3>2. told[s] = <<>> /\ row[s].status = IF outcome = "succeeded" THEN "sent" ELSE "failed"
      BY <2>5, <3>1 DEF SettledInv, SettledFacts
    <3>3. outcome \in Outcome
      BY DEF Outcome
    <3> QED
      BY <1>1, <2>5, <3>2, <3>3, LedgerTell
  <2>6. CASE handler[h].pc = "publishSent" /\ s \in Sends /\ Tells(s, "succeeded")
    BY <2>6, <2>5
  <2>7. CASE handler[h].pc = "publishRejected" /\ s \in Sends /\ Tells(s, "rejected")
    BY <2>7, <2>5
  <2> QED
    BY <1>3, <2>1, <2>2, <2>3, <2>4, <2>6, <2>7 DEF HandlerShape
<1>4. ASSUME NEW k \in Sweepers, SweeperShape(k)
      PROVE  [Ledger!LedgerNext]_(Ledger!ledgerVars)
  <2>1. CASE Keeps
    BY <1>2, <2>1 DEF Keeps
  <2>2. ASSUME NEW s \in sweeper[k].todo, sweeper[k].pc = "close", Writes(s, "failed")
        PROVE  [Ledger!LedgerNext]_(Ledger!ledgerVars)
    <3>1. s \in Sends
      BY <1>1, <2>2 DEF TypeOK, Sweeper
    <3>2. row[s].status = "sending"
      BY <2>2, <3>1 DEF SettledInv, SettledFacts
    <3> QED
      BY <2>2, <3>1, <3>2, LedgerWrite DEF SendStatus
  <2>3. CASE sweeper[k].pc = "publish" /\ Tells(sweeper[k].send, "unconfirmed")
    <3>1. sweeper[k].send \in Sends
      BY <2>3 DEF ClaimInv, BusyInv
    <3>2. told[sweeper[k].send] = <<>> /\ row[sweeper[k].send].status = "failed"
      BY <2>3, <3>1 DEF SettledInv, SettledFacts
    <3> QED
      BY <1>1, <2>3, <3>1, <3>2, LedgerTell DEF Outcome
  <2> QED
    BY <1>4, <2>1, <2>2, <2>3 DEF SweeperShape
<1>5. CASE OtherShape
  <2>1. CASE Keeps
    BY <1>2, <2>1 DEF Keeps
  <2>2. CASE \E s \in Sends : row[s].status = "absent" /\ Writes(s, "queued")
    BY <2>2, LedgerWrite DEF SendStatus
  <2>3. CASE \E s \in Sends : Age(s)
    BY <1>2, <2>3 DEF Age
  <2> QED
    BY <1>5, <2>1, <2>2, <2>3 DEF OtherShape
<1> QED
  BY <1>3, <1>4, <1>5, StepShapes

\* The pipeline keeps the ledger's promises: one settlement, no copy after it,
\* at most one truthful event.
THEOREM Refinement ==
    ASSUME Timely, OneSweepAtATime
    PROVE  Spec => RefinesLedger
<1>1. Init => Ledger!LedgerInit
  BY DEF Init, Ledger!LedgerInit, LedgerOf
<1>2. ClaimInv /\ SettledInv /\ TypeOK' /\ [Next]_vars => [Ledger!LedgerNext]_(Ledger!ledgerVars)
  BY LedgerStep
<1>3. ClaimInv => TypeOK
  BY DEF ClaimInv
<1> QED
  BY <1>1, <1>2, <1>3, SettledInit, SettledNext, ClaimInvariant, PTL
     DEF Spec, RefinesLedger, Ledger!LedgerSpec

(***************************************************************************)
(* What an infrastructure fault may cost                                   *)
(***************************************************************************)

\* Nobody will write the outcome of the attempt: its handler is gone.
Stranded(s) ==
    /\ row[s].status = "sending"
    /\ \A h \in Handlers : ~Holds(h, s)

\* A step without a fault: a handler lets go of a row only by settling or
\* requeueing it.
Undisturbed ==
    /\ faults' = faults
    /\ \A h \in Handlers : \A s \in Sends :
          Holds(h, s) /\ ~Holds(h, s)' => row'[s].status # "sending"

\* A fault takes one handler at most, and writes no row.
Disturbed ==
    /\ faults' = faults + 1
    /\ row' = row
    /\ \/ handler' = handler
       \/ \E h \in Handlers : \A g \in Handlers : g # h => handler'[g] = handler[g]

\* A handler whose row gets a status other than sending may let go of it.
LEMMA LetsGo ==
    ASSUME TypeOK, ExclusiveClaim, NEW h \in Handlers, NEW s \in Sends, Holds(h, s),
           faults' = faults, row'[s].status # "sending",
           \A g \in Handlers : g # h => handler'[g] = handler[g]
    PROVE  Undisturbed
  BY DEF Undisturbed, Holds, ExclusiveClaim

\* A step that keeps every holder and counts no fault disturbs nobody.
LEMMA HoldsOn ==
    ASSUME faults' = faults,
           \A h \in Handlers : handler[h].pc \in HoldPC =>
              handler'[h].pc \in HoldPC /\ handler'[h].send = handler[h].send
    PROVE  Undisturbed
  BY DEF Undisturbed, Holds

\* Every step is one or the other.
LEMMA DisturbedOrNot ==
    ASSUME ClaimInv, [Next]_vars
    PROVE  Undisturbed \/ Disturbed
<1>1. TypeOK /\ BusyInv /\ ExclusiveClaim /\ AwaitInv
  BY DEF ClaimInv
<1>2. ASSUME NEW h \in Handlers, HandlerFault(h)
      PROVE  Disturbed
  <2>1. CASE Crash(h)
    BY <1>1, <2>1 DEF Crash, Fault, Disturbed, TypeOK
  <2>2. CASE ClaimThrows(h) \/ RereadThrows(h) \/ ErrorWriteThrows(h)
    BY <1>1, <2>2 DEF ClaimThrows, RereadThrows, ErrorWriteThrows, Throw, Fault, Disturbed, TypeOK
  <2> QED
    BY <1>2, <2>1, <2>2 DEF HandlerFault
<1>3. ASSUME NEW h \in Handlers, MarkSent(h) \/ ReleaseForRetry(h) \/ MarkRejected(h)
      PROVE  Undisturbed
  <2> DEFINE s == handler[h].send
  <2>1. s \in Sends /\ Holds(h, s) /\ row[s] \in Row
    BY <1>1, <1>3 DEF MarkSent, ReleaseForRetry, MarkRejected, BusyInv, Holds, HoldPC, TypeOK
  <2>2. row'[s].status # "sending"
    <3>1. CASE MarkSent(h)
      BY <1>1, <2>1, <3>1 DEF MarkSent, WriteRow, Row, TypeOK
    <3>2. CASE ReleaseForRetry(h)
      BY <1>1, <2>1, <3>2 DEF ReleaseForRetry, WriteRow, Row, TypeOK
    <3>3. CASE MarkRejected(h)
      BY <1>1, <2>1, <3>3 DEF MarkRejected, WriteRow, Row, TypeOK
    <3> QED
      BY <1>3, <3>1, <3>2, <3>3
  <2>3. /\ faults' = faults
        /\ \A g \in Handlers : g # h => handler'[g] = handler[g]
    BY <1>1, <1>3 DEF MarkSent, ReleaseForRetry, MarkRejected, Goto, TypeOK
  <2> QED
    BY <1>1, <2>1, <2>2, <2>3, LetsGo
<1>4. ASSUME NEW h \in Handlers,
             \/ Claim(h) \/ ClaimLost(h) \/ Reread(h) \/ ProviderAccepts(h) \/ ProviderRejects(h)
             \/ PostAcceptThrows(h) \/ CreateComposeFollowUp(h) \/ PublishSent(h) \/ Rethrow(h)
             \/ PublishRejected(h) \/ \E j \in Jobs : Fetch(h, j)
      PROVE  Undisturbed
  <2>1. /\ faults' = faults
        /\ \A g \in Handlers : g # h => handler'[g] = handler[g]
    <3>1. CASE Claim(h) \/ ProviderAccepts(h) \/ ProviderRejects(h) \/ PostAcceptThrows(h)
               \/ CreateComposeFollowUp(h)
      BY <1>1, <3>1 DEF Claim, ProviderAccepts, ProviderRejects, PostAcceptThrows,
                        CreateComposeFollowUp, Goto, TypeOK
    <3>2. CASE ClaimLost(h) \/ PublishSent(h) \/ Rethrow(h) \/ PublishRejected(h)
      BY <1>1, <3>2 DEF ClaimLost, PublishSent, Rethrow, PublishRejected, Return, Throw, TypeOK
    <3>3. CASE Reread(h) \/ \E j \in Jobs : Fetch(h, j)
      BY <1>1, <3>3 DEF Reread, Fetch, TypeOK
    <3> QED
      BY <1>4, <3>1, <3>2, <3>3
  <2>2. CASE handler[h].pc \notin HoldPC
    BY <2>1, <2>2, HoldsOn
  <2>3. CASE Reread(h) \/ ProviderAccepts(h) \/ ProviderRejects(h) \/ PostAcceptThrows(h)
    <3>1. Reread(h) => handler'[h].pc \in HoldPC /\ handler'[h].send = handler[h].send
      BY <1>1 DEF Reread, HoldPC, TypeOK, Handler
    <3>2. ProviderAccepts(h) \/ ProviderRejects(h) \/ PostAcceptThrows(h) =>
             handler'[h].pc \in HoldPC /\ handler'[h].send = handler[h].send
      BY <1>1, GotoHandler
         DEF ProviderAccepts, ProviderRejects, PostAcceptThrows, HoldPC, HandlerPC, TypeOK
    <3> QED
      BY <2>1, <2>3, <3>1, <3>2, HoldsOn
  <2>4. Reread(h) \/ ProviderAccepts(h) \/ ProviderRejects(h) \/ PostAcceptThrows(h)
        \/ handler[h].pc \notin HoldPC
    BY <1>4 DEF Claim, ClaimLost, CreateComposeFollowUp, PublishSent, Rethrow, PublishRejected, Fetch, HoldPC
  <2> QED
    BY <2>2, <2>3, <2>4
<1>5. ASSUME NEW s \in Sends, EnqueueLost(s)
      PROVE  Disturbed
  BY <1>5 DEF EnqueueLost, Fault, Disturbed
<1>6. ASSUME NEW k \in Sweepers, SweepAborts(k)
      PROVE  Disturbed
  BY <1>6 DEF SweepAborts, Fault, Disturbed
<1>7. ASSUME NEW j \in Jobs, Expire(j)
      PROVE  Undisturbed
  BY <1>1, <1>7, HoldsOn DEF Expire, TypeOK, Handler
<1>8. ASSUME \/ \E s \in Sends : Persist(s) \/ EnqueueSend(s) \/ Age(s)
             \/ \E k \in Sweepers : SweeperProgress(k)
             \/ UNCHANGED vars
      PROVE  Undisturbed
  BY <1>8, HoldsOn DEF Persist, EnqueueSend, Age, SweeperProgress, SweepQueued, Requeue, SweepSending,
     MarkUnconfirmed, PublishUnconfirmed, SweepDone, vars
<1> QED
  BY <1>2, <1>3, <1>4, <1>5, <1>6, <1>7, <1>8 DEF Next, Endpoint, HandlerProgress

\* Only the claim makes a row sending, and its handler holds it then.
LEMMA SendingIsClaimed ==
    ASSUME ClaimInv, [Next]_vars, NEW s \in Sends,
           row[s].status # "sending", row'[s].status = "sending"
    PROVE  \E h \in Handlers : Holds(h, s)'
<1>1. ASSUME NEW h \in Handlers, HandlerShape(h)
      PROVE  Moves(h, "claim", "reread") /\ handler[h].send = s
  BY <1>1, "sent" # "sending", "queued" # "sending", "failed" # "sending"
     DEF HandlerShape, Keeps, Writes, Transmits, Tells, Moves
<1>2. ASSUME NEW k \in Sweepers, SweeperShape(k)
      PROVE  FALSE
  BY <1>2, TypeOK DEF SweeperShape, Keeps, Writes, Tells, ClaimInv, TypeOK, Sweeper
<1>3. ~OtherShape
  BY DEF OtherShape, Keeps, Writes, Age
<1> QED
  BY <1>1, <1>2, <1>3, StepShapes DEF Moves, Holds, HoldPC

\* The next state strands no further send without a fault, and one with it.
LEMMA StrandedStep ==
    ASSUME ClaimInv, [Next]_vars
    PROVE  \/ /\ faults' = faults
              /\ \A s \in Sends : Stranded(s)' => Stranded(s)
           \/ /\ faults' = faults + 1
              /\ row' = row
              /\ \/ \A s \in Sends : Stranded(s)' => Stranded(s)
                 \/ \E t \in Sends : \A s \in Sends : Stranded(s)' => Stranded(s) \/ s = t
<1>1. \A s \in Sends : Stranded(s)' => row[s].status = "sending"
  BY SendingIsClaimed DEF Stranded
<1>2. CASE Undisturbed
  BY <1>1, <1>2 DEF Undisturbed, Stranded
<1>3. CASE Disturbed
  <2>1. CASE handler' = handler
    BY <1>1, <1>3, <2>1 DEF Disturbed, Stranded, Holds
  <2>2. ASSUME NEW h \in Handlers, \A g \in Handlers : g # h => handler'[g] = handler[g]
        PROVE  \A s \in Sends : Stranded(s)' => Stranded(s) \/ s = handler[h].send
    BY <1>1, <1>3, <2>2 DEF Disturbed, Stranded, Holds
  <2>3. CASE \E h \in Handlers : handler[h].send \in Sends /\ \A g \in Handlers : g # h => handler'[g] = handler[g]
    BY <1>3, <2>2, <2>3 DEF Disturbed
  <2>4. CASE \E h \in Handlers : handler[h].send \notin Sends /\ \A g \in Handlers : g # h => handler'[g] = handler[g]
    BY <1>3, <2>2, <2>4 DEF Disturbed
  <2> QED
    BY <1>3, <2>1, <2>3, <2>4 DEF Disturbed
<1> QED
  BY <1>2, <1>3, DisturbedOrNot

\* A set that grows by one element a fault at most stays within the faults.
LEMMA CountStep ==
    ASSUME IsFiniteSet(Sends), faults \in Nat, faults' \in Nat,
           NEW S \in SUBSET Sends, NEW T \in SUBSET Sends, Cardinality(S) <= faults,
           \/ faults' = faults /\ T \subseteq S
           \/ faults' = faults + 1 /\ (T \subseteq S \/ \E t \in Sends : T \subseteq S \cup {t})
    PROVE  Cardinality(T) <= faults'
<1>1. IsFiniteSet(S) /\ Cardinality(S) \in Nat
  BY FS_Subset, FS_CardinalityType
<1>2. IsFiniteSet(T) /\ Cardinality(T) \in Nat
  BY FS_Subset, FS_CardinalityType
<1>3. CASE T \subseteq S
  <2>1. Cardinality(T) <= Cardinality(S)
    BY <1>1, <1>3, FS_Subset
  <2> QED
    BY <1>1, <1>2, <2>1
<1>4. ASSUME NEW t \in Sends, T \subseteq S \cup {t}, faults' = faults + 1
      PROVE  Cardinality(T) <= faults'
  <2>1. /\ IsFiniteSet(S \cup {t})
        /\ Cardinality(S \cup {t}) \in {Cardinality(S), Cardinality(S) + 1}
    <3>1. /\ IsFiniteSet(S \cup {t})
          /\ Cardinality(S \cup {t}) = IF t \in S THEN Cardinality(S) ELSE Cardinality(S) + 1
      BY <1>1, FS_AddElement
    <3> QED
      BY <3>1
  <2>2. Cardinality(T) <= Cardinality(S \cup {t})
    BY <1>4, <2>1, FS_Subset
  <2> QED
    BY <1>1, <1>2, <1>4, <2>1, <2>2
<1> QED
  BY <1>3, <1>4

\* A worker that dies or cannot write strands at most the one send it holds:
\* however jobs are retried, duplicated or expired, there are never more rows
\* stuck in sending than there were infrastructure faults.
THEOREM StrandedWithinFaults ==
    ASSUME IsFiniteSet(Sends)
    PROVE  Spec => [](Cardinality({s \in Sends : Stranded(s)}) <= faults)
<1> DEFINE Bound == Cardinality({s \in Sends : Stranded(s)}) <= faults
<1>1. Init => Bound
  <2>1. Init => {s \in Sends : Stranded(s)} = {} /\ faults = 0
    BY DEF Init, Stranded
  <2> QED
    BY <2>1, FS_EmptySet
<1>2. ClaimInv /\ ClaimInv' /\ Bound /\ [Next]_vars => Bound'
  <2> SUFFICES ASSUME ClaimInv, ClaimInv', Bound, [Next]_vars
               PROVE  Bound'
    OBVIOUS
  <2> DEFINE S == {s \in Sends : Stranded(s)}
             T == {s \in Sends : Stranded(s)'}
  <2>1. faults \in Nat /\ faults' \in Nat
    BY SendAssumption DEF SendAssumption, ClaimInv, TypeOK
  <2>2. \/ faults' = faults /\ T \subseteq S
        \/ faults' = faults + 1 /\ (T \subseteq S \/ \E t \in Sends : T \subseteq S \cup {t})
    BY StrandedStep
  <2>3. S \in SUBSET Sends /\ T \in SUBSET Sends /\ Cardinality(S) <= faults
    OBVIOUS
  <2> HIDE DEF S, T
  <2>4. Cardinality(T) <= faults'
    BY <2>1, <2>2, <2>3, CountStep
  <2> QED
    BY <2>4 DEF T
<1> QED
  BY <1>1, <1>2, ClaimInvariant, PTL DEF Spec

(***************************************************************************)
(* ... when no live handler is outlasted and sweeps do not overlap         *)
(***************************************************************************)

\* What is closed or told as unconfirmed was stranded before.
ReasonFacts(s) ==
    /\ row[s].reason = "unconfirmed" => row[s].status = "failed"
    /\ \A k \in Sweepers : sweeper[k].pc = "publish" /\ sweeper[k].send = s =>
          row[s].reason = "unconfirmed"
    /\ \A i \in DOMAIN told[s] : told[s][i] = "unconfirmed" => row[s].reason = "unconfirmed"

ReasonInv == \A s \in Sends : ReasonFacts(s)

\* No provider acceptance or rejection of the send is on record.
Interrupted(s) == Stranded(s) \/ row[s].reason = "unconfirmed"

\* The reason changes with the handler's verdict or the sweeper's only.
LEMMA ReasonStep ==
    ASSUME ClaimInv, [Next]_vars
    PROVE  \/ \A s \in Sends : row'[s].reason = row[s].reason
           \/ \E h \in Handlers : /\ MarkRejected(h)
                                  /\ Holds(h, handler[h].send)
                                  /\ \A s \in Sends : s # handler[h].send => row'[s] = row[s]
           \/ \E k \in Sweepers : \E t \in sweeper[k].todo :
                 /\ MarkUnconfirmed(k)
                 /\ t \in Sends /\ row'[t].reason = "unconfirmed" /\ row'[t].status = "failed"
                 /\ sweeper'[k].pc = "publish" /\ sweeper'[k].send = t
                 /\ \A s \in Sends : s # t => row'[s] = row[s]
<1>1. TypeOK /\ BusyInv /\ RowInv
  BY DEF ClaimInv
<1>2. ASSUME NEW s \in Sends, Persist(s)
      PROVE  \A t \in Sends : row'[t].reason = row[t].reason
  BY <1>1, <1>2 DEF Persist, WriteRow, TypeOK, Row
<1>3. ASSUME NEW h \in Handlers, Claim(h) \/ MarkSent(h) \/ ReleaseForRetry(h)
      PROVE  \A t \in Sends : row'[t].reason = row[t].reason
  <2> DEFINE s == handler[h].send
  <2>1. s \in Sends /\ row[s] \in Row
    BY <1>1, <1>3, BusyHandler DEF Claim, MarkSent, ReleaseForRetry, TypeOK
  <2>2. row'[s].reason = row[s].reason /\ \A t \in Sends : t # s => row'[t] = row[t]
    <3>1. CASE Claim(h)
      BY <1>1, <2>1, <3>1 DEF Claim, WriteRow, Row, TypeOK
    <3>2. CASE MarkSent(h)
      BY <1>1, <2>1, <3>2 DEF MarkSent, WriteRow, Row, TypeOK
    <3>3. CASE ReleaseForRetry(h)
      BY <1>1, <2>1, <3>3 DEF ReleaseForRetry, WriteRow, Row, TypeOK
    <3> QED
      BY <1>3, <3>1, <3>2, <3>3
  <2> QED
    BY <2>2
<1>4. ASSUME NEW h \in Handlers, MarkRejected(h)
      PROVE  /\ Holds(h, handler[h].send)
             /\ \A s \in Sends : s # handler[h].send => row'[s] = row[s]
  BY <1>1, <1>4 DEF MarkRejected, Holds, HoldPC, WriteRow, TypeOK
<1>5. ASSUME NEW k \in Sweepers, MarkUnconfirmed(k)
      PROVE  \E t \in sweeper[k].todo :
                 /\ t \in Sends /\ row'[t].reason = "unconfirmed" /\ row'[t].status = "failed"
                 /\ sweeper'[k].pc = "publish" /\ sweeper'[k].send = t
                 /\ \A s \in Sends : s # t => row'[s] = row[s]
  <2>1. PICK t \in sweeper[k].todo :
           /\ WriteRow(t, [row[t] EXCEPT !.status = "failed", !.reason = "unconfirmed"])
           /\ Sweep(k, "publish", sweeper[k].todo \ {t}, t)
    BY <1>5 DEF MarkUnconfirmed
  <2>2. t \in Sends /\ row[t] \in Row
    BY <1>1, <2>1 DEF TypeOK, Sweeper
  <2>3. /\ row'[t].reason = "unconfirmed" /\ row'[t].status = "failed"
        /\ \A s \in Sends : s # t => row'[s] = row[s]
    BY <1>1, <2>1, <2>2 DEF WriteRow, TypeOK, Row
  <2>4. sweeper'[k].pc = "publish" /\ sweeper'[k].send = t
    BY <1>1, <2>1 DEF Sweep, TypeOK
  <2> QED
    BY <2>2, <2>3, <2>4
<1> QED
  BY <1>2, <1>3, <1>4, <1>5, RowWriters

\* A send closed as unconfirmed is failed for good: nobody holds or lists it.
LEMMA ReasonStays ==
    ASSUME ClaimInv, SettledInv, ReasonInv, [Next]_vars,
           NEW s \in Sends, row[s].reason = "unconfirmed"
    PROVE  row'[s].reason = "unconfirmed" /\ row'[s].status = "failed"
<1>1. /\ TypeOK /\ row[s].status = "failed" /\ SettledFacts(s)
      /\ row[s].status \notin {"absent", "queued", "sending"}
  BY DEF ClaimInv, ReasonInv, ReasonFacts, SettledInv
<1>2. \A h \in Handlers : ~Holds(h, s)
  BY <1>1 DEF SettledFacts
<1>3. row'[s].reason = "unconfirmed"
  BY <1>2, ReasonStep
<1>4. ASSUME NEW h \in Handlers, HandlerShape(h)
      PROVE  row'[s].status = row[s].status
  BY <1>1, <1>2, <1>4 DEF HandlerShape, Keeps, Writes, Transmits, Tells, Moves, Holds, HoldPC
<1>5. ASSUME NEW k \in Sweepers, SweeperShape(k)
      PROVE  row'[s].status \in {row[s].status, "failed"}
  BY <1>5 DEF SweeperShape, Keeps, Writes, Tells
<1>6. CASE OtherShape
  BY <1>1, <1>6 DEF OtherShape, Keeps, Writes, Age
<1> QED
  BY <1>1, <1>3, <1>4, <1>5, <1>6, StepShapes

\* So what a sweeper closes and tells stays explained by its reason.
LEMMA ReasonNext ==
    ASSUME OneSweepAtATime, ClaimInv, SettledInv, ReasonInv, [Next]_vars
    PROVE  ReasonInv'
<1> SUFFICES ASSUME NEW s \in Sends
             PROVE  ReasonFacts(s)'
  BY DEF ReasonInv
<1>1. TypeOK /\ ReasonFacts(s) /\ BusyInv /\ told[s] \in Seq(Outcome)
  BY DEF ClaimInv, ReasonInv, TypeOK
<1>2. row'[s].reason = "unconfirmed" => row'[s].status = "failed"
  <2>1. CASE row[s].reason = "unconfirmed"
    BY <2>1, ReasonStays
  <2>2. CASE row[s].reason # "unconfirmed"
    <3>1. ASSUME NEW h \in Handlers, MarkRejected(h), handler[h].send = s
          PROVE  row'[s].reason # "unconfirmed"
      BY <1>1, <3>1 DEF MarkRejected, WriteRow, TypeOK, Row
    <3> QED
      BY <2>2, <3>1, ReasonStep
  <2> QED
    BY <2>1, <2>2
<1>3. ASSUME NEW k \in Sweepers, sweeper'[k].pc = "publish", sweeper'[k].send = s
      PROVE  row'[s].reason = "unconfirmed"
  <2>1. CASE sweeper'[k] = sweeper[k]
    BY <1>1, <1>3, <2>1, ReasonStays DEF ReasonFacts
  <2>2. CASE MarkUnconfirmed(k)
    BY <1>1, <1>3, <2>2 DEF MarkUnconfirmed, Sweep, WriteRow, TypeOK, Row, Sweeper
  <2>3. sweeper'[k] = sweeper[k] \/ MarkUnconfirmed(k)
    <3>1. ASSUME NEW m \in Sweepers, SweeperProgress(m) \/ SweepAborts(m), m = k
          PROVE  sweeper'[k].pc # "publish" \/ MarkUnconfirmed(k)
      BY <1>1, <3>1 DEF SweeperProgress, SweepQueued, Requeue, SweepSending, PublishUnconfirmed,
         SweepDone, SweepAborts, Sweep, IdleSweeper, TypeOK
    <3>2. ASSUME NEW m \in Sweepers, SweeperProgress(m) \/ SweepAborts(m)
          PROVE  sweeper'[k] = sweeper[k] \/ MarkUnconfirmed(k)
      BY <1>3, <3>1, <3>2 DEF OneSweepAtATime
    <3>3. ASSUME ~ \E m \in Sweepers : SweeperProgress(m) \/ SweepAborts(m)
          PROVE  sweeper' = sweeper
      BY <3>3 DEF Next, Endpoint, HandlerProgress, HandlerFault, vars,
        Persist, EnqueueSend, EnqueueLost, Age, Fetch, ClaimThrows, Claim,
        ClaimLost, Reread, RereadThrows, ProviderAccepts, ProviderRejects,
        PostAcceptThrows, MarkSent, CreateComposeFollowUp, PublishSent, ReleaseForRetry, Rethrow,
        MarkRejected, PublishRejected, ErrorWriteThrows, Crash, Expire
    <3> QED
      BY <3>2, <3>3
  <2> QED
    BY <2>1, <2>2, <2>3
<1>4. ASSUME NEW i \in DOMAIN told'[s], told'[s][i] = "unconfirmed"
      PROVE  row'[s].reason = "unconfirmed"
  <2>1. CASE told'[s] = told[s]
    BY <1>1, <1>4, <2>1, ReasonStays DEF ReasonFacts
  <2>2. ASSUME NEW outcome \in {"succeeded", "rejected"}, told'[s] = Append(told[s], outcome)
        PROVE  row'[s].reason = "unconfirmed"
    <3>1. i \in DOMAIN told[s] /\ told[s][i] = "unconfirmed"
      BY <1>1, <1>4, <2>2
    <3> QED
      BY <1>1, <3>1, ReasonStays DEF ReasonFacts
  <2>3. ASSUME NEW k \in Sweepers, sweeper[k].pc = "publish", sweeper[k].send = s
        PROVE  row'[s].reason = "unconfirmed"
    BY <1>1, <2>3, ReasonStays DEF ReasonFacts
  <2>4. ASSUME NEW h \in Handlers, HandlerShape(h)
        PROVE  told'[s] = told[s] \/ \E outcome \in {"succeeded", "rejected"} : told'[s] = Append(told[s], outcome)
    BY <2>4 DEF HandlerShape, Keeps, Writes, Transmits, Tells
  <2>5. ASSUME NEW k \in Sweepers, SweeperShape(k)
        PROVE  told'[s] = told[s] \/ (sweeper[k].pc = "publish" /\ sweeper[k].send = s)
    BY <2>5 DEF SweeperShape, Keeps, Writes, Tells
  <2>6. CASE OtherShape
    BY <2>1, <2>6 DEF OtherShape, Keeps, Writes, Age
  <2> QED
    BY <2>1, <2>2, <2>3, <2>4, <2>5, <2>6, StepShapes
<1> QED
  BY <1>2, <1>3, <1>4 DEF ReasonFacts

\* Only a stranded send is closed by a sweeper.
LEMMA InterruptedStep ==
    ASSUME ClaimInv, SettledInv, ReasonInv, [Next]_vars
    PROVE  \/ /\ faults' = faults
              /\ \A s \in Sends : Interrupted(s)' => Interrupted(s)
           \/ /\ faults' = faults + 1
              /\ \/ \A s \in Sends : Interrupted(s)' => Interrupted(s)
                 \/ \E t \in Sends : \A s \in Sends : Interrupted(s)' => Interrupted(s) \/ s = t
<1>1. TypeOK
  BY DEF ClaimInv
<1>2. ASSUME NEW s \in Sends, row'[s].reason = "unconfirmed"
      PROVE  Interrupted(s)
  <2>1. CASE row[s].reason = "unconfirmed"
    BY <2>1 DEF Interrupted
  <2>2. ASSUME NEW k \in Sweepers, s \in sweeper[k].todo, MarkUnconfirmed(k)
        PROVE  Interrupted(s)
    <3>1. row[s].status = "sending" /\ s \in stale
      BY <2>2 DEF MarkUnconfirmed, SettledInv, SettledFacts
    <3> QED
      BY <3>1 DEF SettledInv, SettledFacts, Interrupted, Stranded
  <2>3. ASSUME NEW h \in Handlers, MarkRejected(h), handler[h].send = s
        PROVE  row'[s].reason # "unconfirmed"
    BY <1>1, <2>3 DEF MarkRejected, WriteRow, TypeOK, Row
  <2> QED
    BY <1>2, <2>1, <2>2, <2>3, ReasonStep
<1> QED
  BY <1>2, StrandedStep DEF Interrupted

\* Nobody is told "unconfirmed" of a message whose outcome some live worker
\* would still have recorded: with a staleness threshold no live handler
\* outlasts and one sweep at a time, there are never more sends stuck, closed
\* or reported as unconfirmed than there were infrastructure faults.
THEOREM UnconfirmedWithinFaults ==
    ASSUME Timely, OneSweepAtATime, IsFiniteSet(Sends)
    PROVE  Spec => [](Cardinality({s \in Sends :
                         \/ Interrupted(s)
                         \/ \E i \in DOMAIN told[s] : told[s][i] = "unconfirmed"}) <= faults)
<1> DEFINE Bound == Cardinality({s \in Sends : Interrupted(s)}) <= faults
           Claimed == Cardinality({s \in Sends :
                         \/ Interrupted(s)
                         \/ \E i \in DOMAIN told[s] : told[s][i] = "unconfirmed"}) <= faults
<1>1. Init => Bound /\ ReasonInv
  <2>1. Init => {s \in Sends : Interrupted(s)} = {} /\ faults = 0
    BY DEF Init, Interrupted, Stranded
  <2>2. Init => ReasonInv
    BY DEF Init, ReasonInv, ReasonFacts, IdleSweeper
  <2> QED
    BY <2>1, <2>2, FS_EmptySet
<1>2. ClaimInv /\ ClaimInv' /\ SettledInv /\ ReasonInv /\ Bound /\ [Next]_vars => Bound'
  <2> SUFFICES ASSUME ClaimInv, ClaimInv', SettledInv, ReasonInv, Bound, [Next]_vars
               PROVE  Bound'
    OBVIOUS
  <2> DEFINE S == {s \in Sends : Interrupted(s)}
             T == {s \in Sends : Interrupted(s)'}
  <2>1. faults \in Nat /\ faults' \in Nat
    BY SendAssumption DEF SendAssumption, ClaimInv, TypeOK
  <2>2. \/ faults' = faults /\ T \subseteq S
        \/ faults' = faults + 1 /\ (T \subseteq S \/ \E t \in Sends : T \subseteq S \cup {t})
    BY InterruptedStep
  <2>3. S \in SUBSET Sends /\ T \in SUBSET Sends /\ Cardinality(S) <= faults
    OBVIOUS
  <2> HIDE DEF S, T
  <2>4. Cardinality(T) <= faults'
    BY <2>1, <2>2, <2>3, CountStep
  <2> QED
    BY <2>4 DEF T
<1>3. ClaimInv /\ SettledInv /\ ReasonInv /\ [Next]_vars => ReasonInv'
  BY ReasonNext
<1>4. ReasonInv /\ Bound => Claimed
  <2> SUFFICES ASSUME ReasonInv, Bound
               PROVE  Claimed
    OBVIOUS
  <2>1. {s \in Sends : \/ Interrupted(s)
                       \/ \E i \in DOMAIN told[s] : told[s][i] = "unconfirmed"}
           = {s \in Sends : Interrupted(s)}
    BY DEF ReasonInv, ReasonFacts, Interrupted
  <2> QED
    BY <2>1
<1>5. Spec => []SettledInv
  BY SettledInit, SettledNext, ClaimInvariant, PTL DEF Spec
<1> HIDE DEF Bound, Claimed
<1>6. Spec => []Claimed
  BY <1>1, <1>2, <1>3, <1>4, <1>5, ClaimInvariant, PTL DEF Spec
<1> QED
  BY <1>6, PTL DEF Claimed

(***************************************************************************)
(* What keeps an unsettled send going when nothing fails                   *)
(***************************************************************************)

\* pg-boss does not give up before the attempts column does:
\* EMAIL_SEND_RETRY_LIMIT = MAX_EMAIL_SEND_ATTEMPTS.
RetriesCoverAttempts == MaxAttempts <= RetryLimit + 1

\* No job ran out of time under its handler.
NoExpiry == \A j \in Jobs : ~Expire(j)

\* Somebody other than the sweeper will take the send further.
AtWork(s) ==
    \/ api[s] = "saved"
    \/ \E j \in Jobs : job[j].state = "ready" /\ job[j].key = s
    \/ \E h \in Handlers : handler[h].send = s /\ handler[h].pc \in HoldPC \cup {"claim", "throw"}

\* The retries of a job never outnumber the attempts its runs claimed, and a
\* handler past its claim has claimed one attempt more.
Used(h) == IF handler[h].pc = "claim" THEN 0 ELSE 1

HandlerBacked(h) ==
    handler[h].pc # "idle" =>
        /\ handler[h].job \in Jobs
        /\ job[handler[h].job].key = handler[h].send
        /\ job[handler[h].job].retries + Used(h) <= row[handler[h].send].attempts

JobBacked(j) ==
    job[j].state = "ready" => job[j].retries <= row[job[j].key].attempts

Backed == (\A h \in Handlers : HandlerBacked(h)) /\ (\A j \in Jobs : JobBacked(j))

Attended == \A s \in Sends : ~Stranded(s) /\ (row[s].status = "queued" => AtWork(s))

\* Attempts only grow.
LEMMA AttemptsStep ==
    ASSUME ClaimInv, [Next]_vars
    PROVE  \A s \in Sends : row[s].attempts <= row'[s].attempts
<1>1. TypeOK /\ BusyInv /\ RowInv
  BY DEF ClaimInv
<1>2. \A s \in Sends : row[s] \in Row /\ row[s].attempts \in Nat
  BY <1>1, SendAssumption DEF SendAssumption, TypeOK, Row
<1>3. ASSUME NEW s \in Sends, NEW r \in Row, WriteRow(s, r), row[s].attempts <= r.attempts
      PROVE  \A t \in Sends : row[t].attempts <= row'[t].attempts
  <2>1. row'[s] = r /\ \A t \in Sends : t # s => row'[t] = row[t]
    BY <1>1, <1>3, WriteRowStep DEF TypeOK
  <2> QED
    BY <1>3, <1>2, <2>1
<1>4. ASSUME NEW s \in Sends,
             \/ WriteRow(s, [row[s] EXCEPT !.status = "queued"])
             \/ WriteRow(s, [row[s] EXCEPT !.status = "sent", !.messageId = "provider"])
             \/ WriteRow(s, [row[s] EXCEPT !.status = "failed", !.reason = "provider_rejected"])
             \/ WriteRow(s, [row[s] EXCEPT !.status = "failed", !.reason = "unconfirmed"])
      PROVE  \A t \in Sends : row[t].attempts <= row'[t].attempts
  <2>1. /\ [row[s] EXCEPT !.status = "queued"].attempts = row[s].attempts
        /\ [row[s] EXCEPT !.status = "sent", !.messageId = "provider"].attempts = row[s].attempts
        /\ [row[s] EXCEPT !.status = "failed", !.reason = "provider_rejected"].attempts = row[s].attempts
        /\ [row[s] EXCEPT !.status = "failed", !.reason = "unconfirmed"].attempts = row[s].attempts
    BY <1>2 DEF Row
  <2>2. /\ [row[s] EXCEPT !.status = "queued"] \in Row
        /\ [row[s] EXCEPT !.status = "sent", !.messageId = "provider"] \in Row
        /\ [row[s] EXCEPT !.status = "failed", !.reason = "provider_rejected"] \in Row
        /\ [row[s] EXCEPT !.status = "failed", !.reason = "unconfirmed"] \in Row
    BY <1>2, RowTypes
  <2>3. row[s].attempts <= row[s].attempts
    BY <1>2
  <2> QED
    BY <1>3, <1>4, <2>1, <2>2, <2>3
<1>5. ASSUME NEW h \in Handlers, Claim(h)
      PROVE  \A t \in Sends : row[t].attempts <= row'[t].attempts
  <2> DEFINE s == handler[h].send
  <2>1. s \in Sends /\ row[s].attempts < MaxAttempts
    BY <1>1, <1>5, BusyHandler DEF Claim, RowInv, RowFacts
  <2>2. [row[s] EXCEPT !.status = "sending", !.attempts = @ + 1].attempts = row[s].attempts + 1
    BY <1>2, <2>1 DEF Row
  <2>3. [row[s] EXCEPT !.status = "sending", !.attempts = @ + 1] \in Row
    BY <1>2, <2>1, RowTypes
  <2>4. row[s].attempts <= row[s].attempts + 1
    BY <1>2, <2>1
  <2>5. WriteRow(s, [row[s] EXCEPT !.status = "sending", !.attempts = @ + 1])
    BY <1>5 DEF Claim
  <2> QED
    BY <1>3, <2>1, <2>2, <2>3, <2>4, <2>5
<1>6. ASSUME NEW h \in Handlers, MarkSent(h) \/ ReleaseForRetry(h) \/ MarkRejected(h)
      PROVE  \A t \in Sends : row[t].attempts <= row'[t].attempts
  BY <1>1, <1>4, <1>6, BusyHandler DEF MarkSent, ReleaseForRetry, MarkRejected
<1>7. ASSUME NEW k \in Sweepers, MarkUnconfirmed(k)
      PROVE  \A t \in Sends : row[t].attempts <= row'[t].attempts
  BY <1>1, <1>4, <1>7 DEF MarkUnconfirmed, TypeOK, Sweeper
<1>8. CASE row' = row
  BY <1>2, <1>8
<1> QED
  BY <1>4, <1>5, <1>6, <1>7, <1>8, RowWriters DEF Persist

\* What a step without a fault or an expiry does to the queue and the handlers:
\* nothing, ...
QueueStill ==
    /\ UNCHANGED <<job, handler>>

\* ... a new job, ...
QueueGrows(s) ==
    \E j \in Jobs :
        /\ job[j].state = "free"
        /\ job' = [job EXCEPT ![j] = [state |-> "ready", key |-> s, retries |-> 0]]
        /\ handler' = handler

\* ... a poll, ...
QueuePolled(h, j) ==
    /\ handler[h].pc = "idle" /\ job[j].state = "ready"
    /\ job' = [job EXCEPT ![j].state = "active"]
    /\ handler' = [handler EXCEPT ![h] = [pc |-> "claim", send |-> job[j].key,
                                          job |-> j, attempts |-> 0]]

\* ... a handler that goes on, having claimed an attempt if it was to, ...
HandlerGoesOn(h) ==
    /\ handler[h].pc \notin {"idle", "throw"}
    /\ job' = job
    /\ handler'[h].send = handler[h].send /\ handler'[h].job = handler[h].job
    /\ handler'[h].pc \notin {"idle", "claim"}
    /\ handler[h].pc = "claim" =>
          handler'[h].pc = "reread" /\ row'[handler[h].send].attempts = row[handler[h].send].attempts + 1
    /\ \A g \in Handlers : g # h => handler'[g] = handler[g]

\* ... or one that is done with its job.
HandlerReturns(h) ==
    /\ handler[h].pc # "idle"
    /\ job' = Completed(handler[h].job) /\ handler[h].pc \in {"claim", "publishSent", "publishRejected"}
    /\ row' = row /\ (handler[h].pc = "claim" => row[handler[h].send].status # "queued")
    /\ handler' = [handler EXCEPT ![h] = IdleHandler]

HandlerThrows(h) ==
    /\ handler[h].pc = "throw"
    /\ job' = Failed(handler[h].job)
    /\ row' = row
    /\ handler' = [handler EXCEPT ![h] = IdleHandler]

QueueShape ==
    \/ QueueStill
    \/ \E s \in Sends : QueueGrows(s) 
    \/ \E h \in Handlers, j \in Jobs : QueuePolled(h, j)
    \/ \E h \in Handlers : HandlerGoesOn(h) \/ HandlerReturns(h) \/ HandlerThrows(h)

LEMMA QueueShapes ==
    ASSUME ClaimInv, Backed, faults \in Nat, faults' = faults, [Next]_vars, NoExpiry
    PROVE  QueueShape
<1>1. TypeOK /\ BusyInv /\ RowInv
  BY DEF ClaimInv
<1>2. \A h \in Handlers : handler[h].pc # "idle" => handler[h].job # NoJob
  BY SendAssumption DEF SendAssumption, Backed, HandlerBacked
<1>3. ASSUME NEW h \in Handlers, HandlerProgress(h)
      PROVE  HandlerGoesOn(h) \/ HandlerReturns(h) \/ HandlerThrows(h)
  <2>1. CASE Claim(h)
    <3>1. handler[h].send \in Sends /\ row[handler[h].send] \in Row
      BY <1>1, <2>1, BusyHandler DEF Claim, TypeOK
    <3>2. row'[handler[h].send].attempts = row[handler[h].send].attempts + 1
      BY <1>1, <2>1, <3>1 DEF Claim, WriteRow, TypeOK, Row
    <3> QED
      BY <1>1, <2>1, <3>2, GotoHandler DEF Claim, TypeOK, HandlerPC, HoldPC, HandlerGoesOn
  <2>2. CASE Reread(h)
    BY <1>1, <2>2 DEF Reread, TypeOK, Handler, HandlerGoesOn
  <2>3. CASE ProviderAccepts(h) \/ ProviderRejects(h) \/ PostAcceptThrows(h)
    BY <1>1, <2>3, GotoHandler
       DEF ProviderAccepts, ProviderRejects, PostAcceptThrows, TypeOK, HandlerPC, HoldPC, HandlerGoesOn
  <2>4. CASE MarkSent(h) \/ CreateComposeFollowUp(h)
    BY <1>1, <2>4, GotoHandler
       DEF MarkSent, CreateComposeFollowUp, TypeOK, HandlerPC, HoldPC, HandlerGoesOn
  <2>5. CASE ReleaseForRetry(h) \/ MarkRejected(h)
    BY <1>1, <2>5, GotoHandler
       DEF ReleaseForRetry, MarkRejected, TypeOK, HandlerPC, HoldPC, HandlerGoesOn
  <2>6. CASE ClaimLost(h) \/ PublishSent(h) \/ PublishRejected(h)
    BY <1>2, <2>6 DEF ClaimLost, PublishSent, PublishRejected, Publish, Return, HandlerReturns
  <2>7. CASE Rethrow(h)
    BY <1>2, <2>7 DEF Rethrow, Throw, HandlerThrows
  <2> QED
    BY <1>3, <2>1, <2>2, <2>3, <2>4, <2>5, <2>6, <2>7 DEF HandlerProgress
<1>4. ASSUME NEW h \in Handlers, NEW j \in Jobs, Fetch(h, j)
      PROVE  QueuePolled(h, j)
  BY <1>4 DEF Fetch, FetchJob, QueuePolled
<1>5. ASSUME NEW s \in Sends, Endpoint(s) \/ Age(s)
      PROVE  QueueStill \/ QueueGrows(s)
  BY <1>5 DEF Endpoint, Persist, EnqueueSend, EnqueueLost, Age, Enqueue, QueueStill, QueueGrows
<1>6. ASSUME NEW k \in Sweepers, SweeperProgress(k) \/ SweepAborts(k)
      PROVE  QueueStill \/ \E s \in Sends : QueueGrows(s)
  <2>1. CASE Requeue(k)
    BY <1>1, <2>1 DEF Requeue, Enqueue, QueueGrows, TypeOK, Sweeper
  <2>2. CASE ~Requeue(k)
    BY <1>6, <2>2 DEF SweeperProgress, SweepAborts, SweepQueued, SweepSending, MarkUnconfirmed,
       PublishUnconfirmed, SweepDone, QueueStill
  <2> QED
    BY <2>1, <2>2
<1>7. CASE UNCHANGED vars
  BY <1>7 DEF vars, QueueStill, QueueShape
<1>8. ASSUME NEW h \in Handlers, HandlerFault(h)
      PROVE  FALSE
  BY <1>8 DEF HandlerFault, ClaimThrows, RereadThrows, ErrorWriteThrows, Crash, Fault
<1>9. \/ \E s \in Sends : Endpoint(s) \/ Age(s)
      \/ \E h \in Handlers, j \in Jobs : Fetch(h, j)
      \/ \E h \in Handlers : HandlerProgress(h)
      \/ \E k \in Sweepers : SweeperProgress(k) \/ SweepAborts(k)
      \/ UNCHANGED vars
  BY <1>8 DEF Next, NoExpiry
<1>10. CASE \E h \in Handlers : HandlerProgress(h)
  BY <1>3, <1>10 DEF QueueShape
<1>11. CASE \E h \in Handlers, j \in Jobs : Fetch(h, j)
  BY <1>4, <1>11 DEF QueueShape
<1>12. CASE \E s \in Sends : Endpoint(s) \/ Age(s)
  BY <1>5, <1>12 DEF QueueShape
<1>13. CASE \E k \in Sweepers : SweeperProgress(k) \/ SweepAborts(k)
  BY <1>6, <1>13 DEF QueueShape
<1> QED
  BY <1>7, <1>9, <1>10, <1>11, <1>12, <1>13

\* A job is touched while a handler it is fetched by runs, or not at all.
LEMMA BackedStep ==
    ASSUME ClaimInv, ClaimInv', Backed, QueueShape,
           \A s \in Sends : row[s].attempts <= row'[s].attempts
    PROVE  Backed'
<1>1. /\ TypeOK /\ TypeOK' /\ BusyInv /\ JobInv /\ JobInv' /\ AwaitInv
      /\ \A h \in Handlers : HandlerBacked(h)
      /\ \A j \in Jobs : JobBacked(j)
  BY DEF ClaimInv, Backed
<1>2. /\ \A s \in Sends : row[s].attempts \in Nat /\ row'[s].attempts \in Nat
      /\ \A j \in Jobs : job[j].retries \in Nat /\ job[j] \in JobType
  BY <1>1, SendAssumption DEF SendAssumption, TypeOK, Row, JobType
<1>3. \A h \in Handlers : handler[h].pc # "idle" =>
         /\ handler[h].send \in Sends
         /\ handler[h].job \in Jobs /\ handler[h].job # NoJob
         /\ job[handler[h].job].state = "active"
         /\ job[handler[h].job].key = handler[h].send
         /\ job[handler[h].job].retries + Used(h) <= row[handler[h].send].attempts
  BY <1>1, SendAssumption DEF SendAssumption, BusyInv, AwaitInv, HandlerBacked
\* A handler whose record and job the step leaves alone stays backed.
<1>4. ASSUME NEW h \in Handlers, handler'[h] = handler[h],
             handler[h].pc # "idle" => job'[handler[h].job] = job[handler[h].job]
      PROVE  HandlerBacked(h)'
  <2>1. CASE handler[h].pc # "idle"
    <3>1. Used(h)' = Used(h) /\ Used(h) \in Nat
      BY <1>4 DEF Used
    <3>2. row[handler[h].send].attempts <= row'[handler[h].send].attempts
      BY <1>3, <2>1
    <3>3. job[handler[h].job].retries + Used(h) <= row'[handler[h].send].attempts
      BY <1>2, <1>3, <2>1, <3>1, <3>2
    <3> QED
      BY <1>3, <1>4, <2>1, <3>1, <3>3 DEF HandlerBacked
  <2> QED
    BY <1>4, <2>1 DEF HandlerBacked
<1>5. ASSUME NEW j \in Jobs, job'[j] = job[j] \/ job'[j].state # "ready"
      PROVE  JobBacked(j)'
  <2>1. CASE job'[j] = job[j] /\ job[j].state = "ready"
    <3>1. job[j].key \in Sends /\ job[j].retries <= row[job[j].key].attempts
      BY <1>1, <2>1 DEF JobInv, JobBacked
    <3>2. job[j].retries <= row'[job[j].key].attempts
      BY <1>2, <3>1
    <3> QED
      BY <2>1, <3>2 DEF JobBacked
  <2> QED
    BY <1>5, <2>1 DEF JobBacked
<1>6. CASE QueueStill
  <2>1. \A h \in Handlers : HandlerBacked(h)'
    BY <1>4, <1>6 DEF QueueStill
  <2>2. \A j \in Jobs : JobBacked(j)'
    BY <1>5, <1>6 DEF QueueStill
  <2> QED
    BY <2>1, <2>2 DEF Backed
<1>7. ASSUME NEW s \in Sends, QueueGrows(s)
      PROVE  Backed'
  <2>1. PICK j \in Jobs :
          /\ job[j].state = "free"
          /\ job' = [job EXCEPT ![j] = [state |-> "ready", key |-> s, retries |-> 0]]
          /\ handler' = handler
    BY <1>7 DEF QueueGrows
  <2>2. job'[j].retries = 0 /\ job'[j].key = s /\ \A i \in Jobs : i # j => job'[i] = job[i]
    BY <1>1, <2>1 DEF TypeOK
  <2>3. JobBacked(j)'
    BY <1>2, <2>2 DEF JobBacked
  <2>4. \A h \in Handlers : HandlerBacked(h)'
    BY <1>3, <1>4, <2>1, <2>2
  <2>5. \A i \in Jobs : JobBacked(i)'
    BY <1>5, <2>2, <2>3
  <2> QED
    BY <2>4, <2>5 DEF Backed
<1>8. ASSUME NEW h \in Handlers, NEW j \in Jobs, QueuePolled(h, j)
      PROVE  Backed'
  <2>1. /\ job'[j].state = "active" /\ job'[j].key = job[j].key /\ job'[j].retries = job[j].retries
        /\ \A i \in Jobs : i # j => job'[i] = job[i]
    BY <1>1, <1>2, <1>8 DEF QueuePolled, TypeOK, JobType
  <2>2. /\ handler'[h] = [pc |-> "claim", send |-> job[j].key, job |-> j, attempts |-> 0]
        /\ \A g \in Handlers : g # h => handler'[g] = handler[g]
    BY <1>1, <1>8 DEF QueuePolled, TypeOK
  <2>3. job[j].key \in Sends /\ job[j].retries <= row[job[j].key].attempts
    BY <1>1, <1>8 DEF QueuePolled, JobInv, JobBacked
  <2>4. job[j].retries + 0 <= row'[job[j].key].attempts
    BY <1>2, <2>3
  <2>5. HandlerBacked(h)'
    BY <2>1, <2>2, <2>4 DEF HandlerBacked, Used
  <2>6. \A g \in Handlers : g # h => HandlerBacked(g)'
    BY <1>3, <1>4, <1>8, <2>1, <2>2 DEF QueuePolled
  <2>7. \A i \in Jobs : JobBacked(i)'
    BY <1>5, <2>1
  <2> QED
    BY <2>5, <2>6, <2>7 DEF Backed
<1>9. ASSUME NEW h \in Handlers, HandlerGoesOn(h)
      PROVE  Backed'
  <2> DEFINE s == handler[h].send
  <2>1. /\ s \in Sends /\ handler[h].job \in Jobs /\ job[handler[h].job].key = s
        /\ job[handler[h].job].retries + Used(h) <= row[s].attempts
    BY <1>3, <1>9 DEF HandlerGoesOn
  <2>2. job[handler[h].job].retries + 1 <= row'[s].attempts
    <3>1. CASE handler[h].pc = "claim"
      BY <1>2, <1>9, <2>1, <3>1 DEF HandlerGoesOn, Used
    <3>2. CASE handler[h].pc # "claim"
      BY <1>2, <2>1, <3>2 DEF Used
    <3> QED
      BY <3>1, <3>2
  <2>3. HandlerBacked(h)'
    BY <1>9, <2>1, <2>2 DEF HandlerGoesOn, HandlerBacked, Used
  <2>4. \A g \in Handlers : g # h => HandlerBacked(g)'
    BY <1>4, <1>9 DEF HandlerGoesOn
  <2>5. \A j \in Jobs : JobBacked(j)'
    BY <1>5, <1>9 DEF HandlerGoesOn
  <2> QED
    BY <2>3, <2>4, <2>5 DEF Backed
<1>10. ASSUME NEW h \in Handlers, HandlerReturns(h) \/ HandlerThrows(h)
       PROVE  Backed'
  <2> DEFINE j == handler[h].job
  <2>1. /\ handler[h].pc # "idle" /\ handler' = [handler EXCEPT ![h] = IdleHandler]
        /\ row' = row /\ j \in Jobs /\ job[j].state = "active"
        /\ \A i \in Jobs : i # j => job'[i] = job[i]
    BY <1>1, <1>3, <1>10 DEF HandlerReturns, HandlerThrows, Completed, Failed, TypeOK
  <2>2. HandlerBacked(h)'
    BY <1>1, <2>1 DEF HandlerBacked, IdleHandler, TypeOK
  <2>3. ASSUME NEW g \in Handlers, g # h
        PROVE  HandlerBacked(g)'
    <3>1. handler'[g] = handler[g]
      BY <1>1, <2>1, <2>3 DEF TypeOK
    <3>2. handler[g].pc # "idle" => handler[g].job # j
      BY <1>1, <1>3, <2>1, <2>3 DEF AwaitInv
    <3> QED
      BY <1>3, <1>4, <2>1, <3>1, <3>2
  <2>4. job'[j].state = "ready" => job'[j].retries <= row'[job'[j].key].attempts
    <3>1. CASE job' = Completed(j)
      BY <1>1, <2>1, <3>1 DEF Completed, FreeJob, TypeOK
    <3>2. CASE HandlerThrows(h) /\ job[j].retries < RetryLimit
      <4>1. job' = [job EXCEPT ![j] = [state |-> "ready", key |-> job[j].key, retries |-> job[j].retries + 1]]
        BY <3>2 DEF HandlerThrows, Failed
      <4>2. job'[j].key = job[j].key /\ job'[j].retries = job[j].retries + 1
        BY <1>1, <2>1, <4>1 DEF TypeOK
      <4>3. job[j].retries + 1 <= row[job[j].key].attempts
        BY <1>3, <3>2 DEF HandlerThrows, Used
      <4> QED
        BY <2>1, <4>2, <4>3
    <3>3. CASE HandlerThrows(h) /\ ~(job[j].retries < RetryLimit)
      BY <3>1, <3>3 DEF HandlerThrows, Failed
    <3> QED
      BY <1>10, <3>1, <3>2, <3>3 DEF HandlerReturns
  <2>5. \A i \in Jobs : JobBacked(i)'
    BY <1>5, <2>1, <2>4 DEF JobBacked
  <2> QED
    BY <2>2, <2>3, <2>5 DEF Backed
<1> QED
  BY <1>6, <1>7, <1>8, <1>9, <1>10 DEF QueueShape

\* A queued row keeps its endpoint, its job or its handler.
LEMMA AtWorkStep ==
    ASSUME RetriesCoverAttempts, ClaimInv, ClaimInv', Backed, QueueShape, faults' = faults,
           faults = 0, [Next]_vars,
           NEW s \in Sends, row[s].status = "queued", row'[s].status = "queued", AtWork(s)
    PROVE  AtWork(s)'
<1>1. /\ TypeOK /\ BusyInv /\ HolderInv /\ RowInv /\ AwaitInv
      /\ \A h \in Handlers : HandlerBacked(h)
  BY DEF ClaimInv, Backed
<1>2. CASE api[s] = "saved"
  <2>1. CASE EnqueueSend(s)
    <3>1. PICK j \in Jobs : job' = [job EXCEPT ![j] = [state |-> "ready", key |-> s, retries |-> 0]]
      BY <2>1 DEF EnqueueSend, Enqueue
    <3>2. job'[j].state = "ready" /\ job'[j].key = s
      BY <1>1, <3>1 DEF TypeOK
    <3> QED
      BY <3>2 DEF AtWork
  <2>2. CASE ~EnqueueSend(s)
    <3>1. api' = api \/ \E t \in Sends : Persist(t) \/ EnqueueSend(t) \/ EnqueueLost(t)
      BY DEF Next, HandlerProgress, HandlerFault, SweeperProgress, vars, Endpoint,
        Age, Fetch, ClaimThrows, Claim,
        ClaimLost, Reread, RereadThrows, ProviderAccepts, ProviderRejects,
        PostAcceptThrows, MarkSent, CreateComposeFollowUp, PublishSent, ReleaseForRetry, Rethrow,
        MarkRejected, PublishRejected, ErrorWriteThrows, Crash, Expire,
        SweepQueued, Requeue, SweepSending, MarkUnconfirmed,
        PublishUnconfirmed, SweepDone, SweepAborts
    <3>2. ASSUME NEW t \in Sends, Persist(t) \/ EnqueueSend(t)
          PROVE  api'[s] = api[s]
      BY <1>1, <1>2, <2>2, <3>2 DEF Persist, EnqueueSend, TypeOK
    <3>3. ASSUME NEW t \in Sends, EnqueueLost(t)
          PROVE  FALSE
      BY <3>3 DEF EnqueueLost, Fault
    <3> QED
      BY <1>2, <3>1, <3>2, <3>3 DEF AtWork
  <2> QED
    BY <2>1, <2>2
<1>3. ASSUME NEW i \in Jobs, job[i].state = "ready", job[i].key = s
      PROVE  AtWork(s)'
  <2>1. CASE job'[i] = job[i]
    BY <1>3, <2>1 DEF AtWork
  <2>2. ASSUME NEW h \in Handlers, QueuePolled(h, i)
        PROVE  AtWork(s)'
    <3>1. handler'[h].pc = "claim" /\ handler'[h].send = s
      BY <1>1, <1>3, <2>2 DEF QueuePolled, TypeOK
    <3> QED
      BY <3>1 DEF AtWork
  <2>3. ASSUME NEW h \in Handlers, NEW j \in Jobs, QueuePolled(h, j), j # i
        PROVE  job'[i] = job[i]
    BY <1>1, <2>3 DEF QueuePolled, TypeOK
  <2>4. ASSUME NEW t \in Sends, QueueGrows(t)
        PROVE  job'[i] = job[i]
    BY <1>1, <1>3, <2>4 DEF QueueGrows, TypeOK
  <2>5. ASSUME NEW h \in Handlers, HandlerReturns(h) \/ HandlerThrows(h)
        PROVE  job'[i] = job[i]
    <3>1. handler[h].job \in Jobs /\ handler[h].job # i
      BY <1>1, <1>3, <2>5, SendAssumption
         DEF SendAssumption, HandlerReturns, HandlerThrows, HandlerBacked, AwaitInv
    <3> QED
      BY <1>1, <2>5, <3>1 DEF HandlerReturns, HandlerThrows, Completed, Failed, TypeOK
  <2>6. QueueStill \/ (\E h \in Handlers : HandlerGoesOn(h)) => job'[i] = job[i]
    BY DEF QueueStill, HandlerGoesOn
  <2> QED
    BY <2>1, <2>2, <2>3, <2>4, <2>5, <2>6 DEF QueueShape
<1>4. ASSUME NEW h \in Handlers, handler[h].send = s, handler[h].pc \in HoldPC \cup {"claim", "throw"}
      PROVE  AtWork(s)'
  <2>1. handler[h].pc \in {"claim", "throw"}
    BY <1>1, <1>4 DEF HolderInv, ClaimFacts, Holds
  <2>2. CASE handler'[h] = handler[h]
    BY <1>4, <2>2 DEF AtWork
  <2>3. CASE HandlerThrows(h)
    <3> DEFINE j == handler[h].job
    <3>1. /\ j \in Jobs /\ job[j].key = s /\ job[j].retries + 1 <= row[s].attempts
      BY <1>1, <1>4, <2>3 DEF HandlerThrows, HandlerBacked, Used
    <3>2. row[s].attempts < MaxAttempts
      BY <1>1 DEF RowInv, RowFacts
    <3>3. row[s].attempts \in Nat /\ job[j].retries \in Nat
      BY <1>1, <3>1, SendAssumption DEF SendAssumption, TypeOK, Row, JobType
    <3>4. job[j].retries < RetryLimit
      BY <3>1, <3>2, <3>3, SendAssumption DEF SendAssumption, RetriesCoverAttempts
    <3>5. job' = [job EXCEPT ![j] = [state |-> "ready", key |-> job[j].key, retries |-> job[j].retries + 1]]
      BY <2>3, <3>4 DEF HandlerThrows, Failed
    <3>6. job'[j].state = "ready" /\ job'[j].key = s
      BY <1>1, <3>1, <3>5 DEF TypeOK
    <3> QED
      BY <3>1, <3>6 DEF AtWork
  <2>4. CASE HandlerGoesOn(h)
    BY <1>4, <2>1, <2>4 DEF HandlerGoesOn, HoldPC, AtWork
  <2>5. ~HandlerReturns(h)
    BY <1>4, <2>1 DEF HandlerReturns
  <2>6. ASSUME NEW g \in Handlers, g # h,
               \/ HandlerGoesOn(g) \/ HandlerReturns(g) \/ HandlerThrows(g)
               \/ \E j \in Jobs : QueuePolled(g, j)
        PROVE  handler'[h] = handler[h]
    BY <1>1, <2>6 DEF HandlerGoesOn, HandlerReturns, HandlerThrows, QueuePolled, TypeOK
  <2>7. \A j \in Jobs : ~QueuePolled(h, j)
    BY <2>1 DEF QueuePolled
  <2>8. QueueStill \/ (\E t \in Sends : QueueGrows(t)) => handler' = handler
    BY DEF QueueStill, QueueGrows
  <2> QED
    BY <2>2, <2>3, <2>4, <2>5, <2>6, <2>7, <2>8 DEF QueueShape
<1> QED
  BY <1>2, <1>3, <1>4 DEF AtWork

\* While nothing fails or expires, nothing is stranded or left behind.
WorkInv == faults = 0 => Backed /\ Attended

LEMMA WorkNext ==
    ASSUME RetriesCoverAttempts, ClaimInv, ClaimInv', WorkInv, NoExpiry, [Next]_vars
    PROVE  WorkInv'
<1> SUFFICES ASSUME faults' = 0
             PROVE  Backed' /\ Attended'
  BY DEF WorkInv
<1>1. faults = 0 /\ faults' = faults /\ Backed /\ Attended
  <2>1. faults \in Nat
    BY SendAssumption DEF SendAssumption, ClaimInv, TypeOK
  <2>2. faults = 0 /\ faults' = faults
    BY <2>1, StrandedStep
  <2> QED
    BY <2>2 DEF WorkInv
<1>2. QueueShape
  BY <1>1, QueueShapes
<1>3. Backed'
  BY <1>1, <1>2, AttemptsStep, BackedStep
<1>4. ASSUME NEW s \in Sends
      PROVE  ~Stranded(s)'
  BY <1>1, <1>4, StrandedStep DEF Attended
<1>5. ASSUME NEW s \in Sends, row'[s].status = "queued"
      PROVE  AtWork(s)'
  <2>1. CASE row[s].status = "queued"
    BY <1>1, <1>2, <1>5, <2>1, AtWorkStep DEF Attended
  <2>2. CASE row[s].status # "queued"
    <3>1. ASSUME NEW t \in Sends, Persist(t)
          PROVE  AtWork(s)'
      BY <1>5, <2>2, <3>1 DEF Persist, WriteRow, AtWork, ClaimInv, TypeOK
    <3>2. ASSUME NEW h \in Handlers,
                 Claim(h) \/ MarkSent(h) \/ ReleaseForRetry(h) \/ MarkRejected(h)
          PROVE  AtWork(s)'
      <4>1. HandlerShape(h)
        BY <3>2, HandlerShapes DEF HandlerProgress
      <4>2. Moves(h, "error", "throw") /\ handler[h].send = s
        BY <1>5, <2>2, <4>1, "sending" # "queued", "sent" # "queued", "failed" # "queued"
           DEF HandlerShape, Keeps, Writes, Transmits, Tells, Moves
      <4> QED
        BY <4>2 DEF Moves, AtWork
    <3>3. ASSUME NEW k \in Sweepers, MarkUnconfirmed(k)
          PROVE  FALSE
      <4>1. SweeperShape(k)
        BY <3>3, SweeperShapes DEF SweeperProgress
      <4> QED
        BY <1>5, <2>2, <4>1 DEF SweeperShape, Keeps, Writes, Tells, ClaimInv, TypeOK, Sweeper
    <3> QED
      BY <1>5, <2>2, <3>1, <3>2, <3>3, RowWriters
  <2> QED
    BY <2>1, <2>2
<1> QED
  BY <1>3, <1>4, <1>5 DEF Attended

\* Without a fault and without an expired job, no send depends on the sweeper:
\* a row in sending is in its handler's hands, and a row in queued has its
\* endpoint about to enqueue it, a job waiting, or a handler about to claim it
\* or to hand it back for a retry pg-boss still grants.
THEOREM NoSendLeftBehind ==
    ASSUME RetriesCoverAttempts
    PROVE  Spec /\ [][NoExpiry]_vars => [](faults = 0 => Attended)
<1>1. Init => WorkInv
  BY DEF Init, JobInit, FreeJob, WorkInv, Backed, HandlerBacked, JobBacked, Attended, Stranded,
         IdleHandler
<1>2. ClaimInv /\ ClaimInv' /\ WorkInv /\ [Next]_vars /\ [NoExpiry]_vars => WorkInv'
  <2>1. CASE UNCHANGED vars
    BY <2>1 DEF vars, WorkInv, Backed, HandlerBacked, JobBacked, Attended, Stranded, AtWork,
                Used, Holds
  <2> QED
    BY <2>1, WorkNext
<1>3. WorkInv => (faults = 0 => Attended)
  BY DEF WorkInv
<1> QED
  BY <1>1, <1>2, <1>3, ClaimInvariant, PTL DEF Spec

=============================================================================
