--------------------------- MODULE EmailSendQueue ---------------------------
(***************************************************************************)
(* The background email send: endpoints persist an attempt row and enqueue *)
(* a pg-boss job (email-send-queue.service.ts), worker handlers claim the  *)
(* row, call the provider and record the outcome, and a cron sweeper       *)
(* rescues what a crash left behind (email-send.processor.ts).             *)
(*                                                                         *)
(* Every database statement, queue call, provider call and Pusher publish  *)
(* is a step of its own, so handlers, sweepers and crashes interleave      *)
(* between any two of them.                                                *)
(***************************************************************************)
EXTENDS Naturals, Sequences, FiniteSets

CONSTANTS
    Sends,             \* attempt rows that can be persisted
    NewSends,          \* those composed as new mail with a follow-up window
    NoSend,            \* no row
    Handlers,          \* handler invocations of send-queued-email in flight
    Sweepers,          \* invocations of sweep-stalled-email-sends in flight
    Jobs,              \* pg-boss job slots (bound)
    NoJob,             \* a handler whose job is not, or no longer, its own
    RetryLimit,        \* EMAIL_SEND_RETRY_LIMIT
    MaxAttempts,       \* MAX_EMAIL_SEND_ATTEMPTS
    SweepBatch,        \* SEND_SWEEP_BATCH_SIZE
    MaxFaults,         \* crashes and infrastructure errors (bound)
    Timely             \* no live handler holds a row for STALE_SENDING_MINUTES

ASSUME SendAssumption ==
    /\ NewSends \subseteq Sends
    /\ NoSend \notin Sends
    /\ NoJob \notin Jobs
    /\ RetryLimit \in Nat
    /\ MaxAttempts \in Nat \ {0}
    /\ SweepBatch \in Nat \ {0}
    /\ MaxFaults \in Nat
    /\ Timely \in BOOLEAN

VARIABLES
    row,        \* email_send_attempts, one record per send
    stale,      \* rows whose updatedAt passed the threshold of their status
    job,        \* the pg-boss queue
    api,        \* the send endpoint's progress on each send
    handler,    \* the handler invocations
    sweeper,    \* the sweeper invocations
    wire,       \* copies of each message the provider accepted
    hidden,     \* those whose handler failed before it could record them (history)
    told,       \* outcome events triggered on the user's channel
    followUps,  \* sends whose follow-up reminder was created
    faults      \* infrastructure faults so far

vars ==
    <<row, stale, job, api, handler, sweeper, wire, hidden, told, followUps, faults>>

INSTANCE JobQueue WITH Keys <- Sends, NoKey <- NoSend

(***************************************************************************)
(* Types                                                                   *)
(***************************************************************************)

SendStatus == {"absent", "queued", "sending", "sent", "failed"}

FailureReason == {"none", "provider_rejected", "unconfirmed"}

Outcome == {"succeeded", "rejected", "unconfirmed"}

Row == [status: SendStatus, attempts: 0..MaxAttempts, reason: FailureReason,
        messageId: {"null", "provider"}]

\* Where a handler stands: the pc names what it does next.
HoldPC == {"reread", "dispatch", "accepted", "error"}

HandlerPC == HoldPC \cup
             {"idle", "claim", "followUp", "publishSent", "throw", "publishRejected"}

Handler == [pc: HandlerPC, send: Sends \cup {NoSend}, job: Jobs \cup {NoJob},
            attempts: 0..MaxAttempts]

IdleHandler == [pc |-> "idle", send |-> NoSend, job |-> NoJob, attempts |-> 0]

SweeperPC == {"idle", "requeue", "close", "publish"}

Sweeper == [pc: SweeperPC, todo: SUBSET Sends, send: Sends \cup {NoSend}]

IdleSweeper == [pc |-> "idle", todo |-> {}, send |-> NoSend]

ApiState == {"none", "saved", "returned", "threw"}

Init ==
    /\ row = [s \in Sends |-> [status |-> "absent", attempts |-> 0,
                               reason |-> "none", messageId |-> "null"]]
    /\ stale = {}
    /\ JobInit
    /\ api = [s \in Sends |-> "none"]
    /\ handler = [h \in Handlers |-> IdleHandler]
    /\ sweeper = [k \in Sweepers |-> IdleSweeper]
    /\ wire = [s \in Sends |-> 0]
    /\ hidden = [s \in Sends |-> 0]
    /\ told = [s \in Sends |-> <<>>]
    /\ followUps = {}
    /\ faults = 0

(***************************************************************************)
(* Helpers                                                                 *)
(***************************************************************************)

\* The handler has won the claim and not yet written an outcome to the row.
Holds(h, s) == handler[h].send = s /\ handler[h].pc \in HoldPC

\* A write to the row: TypeORM stamps updatedAt with it.
WriteRow(s, r) ==
    /\ row' = [row EXCEPT ![s] = r]
    /\ stale' = stale \ {s}

Goto(h, pc) == handler' = [handler EXCEPT ![h].pc = pc]

Fault == faults < MaxFaults /\ faults' = faults + 1

\* The handler returned: pg-boss completes its job, unless it expired before.
Return(h) ==
    /\ job' = IF handler[h].job = NoJob THEN job ELSE Completed(handler[h].job)
    /\ handler' = [handler EXCEPT ![h] = IdleHandler]

\* The handler threw: pg-boss retries its job or gives it up.
Throw(h) ==
    /\ job' = IF handler[h].job = NoJob THEN job ELSE Failed(handler[h].job)
    /\ handler' = [handler EXCEPT ![h] = IdleHandler]

\* A Pusher trigger for the user's channel; it never throws.
Publish(s, outcome) == told' = [told EXCEPT ![s] = Append(@, outcome)]

(***************************************************************************)
(* The send endpoint: persistAndEnqueue                                    *)
(***************************************************************************)

Persist(s) ==
    /\ api[s] = "none"
    /\ api' = [api EXCEPT ![s] = "saved"]
    /\ WriteRow(s, [row[s] EXCEPT !.status = "queued"])
    /\ UNCHANGED <<job, handler, sweeper, wire, hidden, told, followUps, faults>>

EnqueueSend(s) ==
    /\ api[s] = "saved"
    /\ api' = [api EXCEPT ![s] = "returned"]
    /\ Enqueue(s)
    /\ UNCHANGED <<row, stale, handler, sweeper, wire, hidden, told, followUps, faults>>

\* boss.send throws, or the process dies before it: the row has no job.
EnqueueLost(s) ==
    /\ api[s] = "saved"
    /\ api' = [api EXCEPT ![s] = "threw"]
    /\ Fault
    /\ UNCHANGED <<row, stale, job, handler, sweeper, wire, hidden, told, followUps>>

(***************************************************************************)
(* The handler: handleSend                                                 *)
(***************************************************************************)

Fetch(h, j) ==
    /\ handler[h].pc = "idle"
    /\ FetchJob(j)
    /\ handler' = [handler EXCEPT ![h] = [pc |-> "claim", send |-> job[j].key,
                                          job |-> j, attempts |-> 0]]
    /\ UNCHANGED <<row, stale, api, sweeper, wire, hidden, told, followUps, faults>>

\* withUserKey or the claiming UPDATE throws before anything was written.
ClaimThrows(h) ==
    /\ handler[h].pc = "claim"
    /\ Fault
    /\ Throw(h)
    /\ UNCHANGED <<row, stale, api, sweeper, wire, hidden, told, followUps>>

\* Mutant: the claiming UPDATE has no WHERE status = queued.
ClaimUnguarded(h) ==
    LET s == handler[h].send IN
    /\ handler[h].pc = "claim"
    /\ WriteRow(s, [row[s] EXCEPT !.status = "sending",
                                  !.attempts = IF @ < MaxAttempts THEN @ + 1 ELSE @])
    /\ Goto(h, "reread")
    /\ UNCHANGED <<job, api, sweeper, wire, hidden, told, followUps, faults>>

\* UPDATE ... SET status = sending, attempts = attempts + 1 WHERE status = queued
Claim(h) ==
    LET s == handler[h].send IN
    /\ handler[h].pc = "claim"
    /\ row[s].status = "queued"
    /\ WriteRow(s, [row[s] EXCEPT !.status = "sending", !.attempts = @ + 1])
    /\ Goto(h, "reread")
    /\ UNCHANGED <<job, api, sweeper, wire, hidden, told, followUps, faults>>

ClaimLost(h) ==
    /\ handler[h].pc = "claim"
    /\ row[handler[h].send].status # "queued"
    /\ Return(h)
    /\ UNCHANGED <<row, stale, api, sweeper, wire, hidden, told, followUps, faults>>

\* The findOne after the claim, whose copy of attempts decides about retries.
Reread(h) ==
    /\ handler[h].pc = "reread"
    /\ handler' = [handler EXCEPT ![h] = [@ EXCEPT
                       !.pc = "dispatch", !.attempts = row[handler[h].send].attempts]]
    /\ UNCHANGED <<row, stale, job, api, sweeper, wire, hidden, told, followUps, faults>>

\* The findOne throws outside the try block: the row stays in sending.
RereadThrows(h) ==
    /\ handler[h].pc = "reread"
    /\ Fault
    /\ Throw(h)
    /\ UNCHANGED <<row, stale, api, sweeper, wire, hidden, told, followUps>>

ProviderAccepts(h) ==
    /\ handler[h].pc = "dispatch"
    /\ wire' = [wire EXCEPT ![handler[h].send] = @ + 1]
    /\ Goto(h, "accepted")
    /\ UNCHANGED <<row, stale, job, api, sweeper, hidden, told, followUps, faults>>

\* No provider, an undecryptable source email, or the provider refuses.
ProviderRejects(h) ==
    /\ handler[h].pc = "dispatch"
    /\ Goto(h, "error")
    /\ UNCHANGED <<row, stale, job, api, sweeper, wire, hidden, told, followUps, faults>>

\* Mutant: recording the send and its follow-up share the provider's try block.
PostRecordThrows(h) ==
    /\ handler[h].pc \in {"accepted", "followUp"}
    /\ hidden' = [hidden EXCEPT ![handler[h].send] = @ + 1]
    /\ Goto(h, "error")
    /\ UNCHANGED <<row, stale, job, api, sweeper, wire, told, followUps, faults>>

\* The response is lost, trackEmailRecipients or storeSentReply throws, or
\* markSent's own UPDATE does: the catch block takes it for a failed send.
PostAcceptThrows(h) ==
    /\ handler[h].pc = "accepted"
    /\ hidden' = [hidden EXCEPT ![handler[h].send] = @ + 1]
    /\ Goto(h, "error")
    /\ UNCHANGED <<row, stale, job, api, sweeper, wire, told, followUps, faults>>

MarkSent(h) ==
    LET s == handler[h].send IN
    /\ handler[h].pc = "accepted"
    /\ WriteRow(s, [row[s] EXCEPT !.status = "sent", !.messageId = "provider"])
    /\ Goto(h, "followUp")
    /\ UNCHANGED <<job, api, sweeper, wire, hidden, told, followUps, faults>>

\* createComposeFollowUp never throws; a failure inside it is only logged.
CreateComposeFollowUp(h) ==
    LET s == handler[h].send IN
    /\ handler[h].pc = "followUp"
    /\ \/ s \in NewSends /\ followUps' = followUps \cup {s}
       \/ UNCHANGED followUps
    /\ Goto(h, "publishSent")
    /\ UNCHANGED <<row, stale, job, api, sweeper, wire, hidden, told, faults>>

PublishSent(h) ==
    /\ handler[h].pc = "publishSent"
    /\ Publish(handler[h].send, "succeeded")
    /\ Return(h)
    /\ UNCHANGED <<row, stale, api, sweeper, wire, hidden, followUps, faults>>

(***************************************************************************)
(* The handler's catch block: handleSendError                              *)
(***************************************************************************)

\* Mutant: an off-by-one grants one attempt too many.
HasOverspentAttempts(h) == handler[h].attempts > MaxAttempts

HasExhaustedAttempts(h) == handler[h].attempts >= MaxAttempts

\* Mutant: every failed attempt is reported to the user.
ReleaseAndReport(h) ==
    LET s == handler[h].send IN
    /\ handler[h].pc = "error"
    /\ ~HasExhaustedAttempts(h)
    /\ WriteRow(s, [row[s] EXCEPT !.status = "queued"])
    /\ Publish(s, "rejected")
    /\ Goto(h, "throw")
    /\ UNCHANGED <<job, api, sweeper, wire, hidden, followUps, faults>>

ReleaseForRetry(h) ==
    LET s == handler[h].send IN
    /\ handler[h].pc = "error"
    /\ ~HasExhaustedAttempts(h)
    /\ WriteRow(s, [row[s] EXCEPT !.status = "queued"])
    /\ Goto(h, "throw")
    /\ UNCHANGED <<job, api, sweeper, wire, hidden, told, followUps, faults>>

Rethrow(h) ==
    /\ handler[h].pc = "throw"
    /\ Throw(h)
    /\ UNCHANGED <<row, stale, api, sweeper, wire, hidden, told, followUps, faults>>

MarkRejected(h) ==
    LET s == handler[h].send IN
    /\ handler[h].pc = "error"
    /\ HasExhaustedAttempts(h)
    /\ WriteRow(s, [row[s] EXCEPT !.status = "failed", !.reason = "provider_rejected"])
    /\ Goto(h, "publishRejected")
    /\ UNCHANGED <<job, api, sweeper, wire, hidden, told, followUps, faults>>

PublishRejected(h) ==
    /\ handler[h].pc = "publishRejected"
    /\ Publish(handler[h].send, "rejected")
    /\ Return(h)
    /\ UNCHANGED <<row, stale, api, sweeper, wire, hidden, followUps, faults>>

\* releaseForRetry or markFailed throws: the row stays in sending.
ErrorWriteThrows(h) ==
    /\ handler[h].pc = "error"
    /\ Fault
    /\ Throw(h)
    /\ UNCHANGED <<row, stale, api, sweeper, wire, hidden, told, followUps>>

\* The worker process dies: its job stays active until pg-boss expires it.
Crash(h) ==
    /\ handler[h].pc # "idle"
    /\ Fault
    /\ handler' = [handler EXCEPT ![h] = IdleHandler]
    /\ UNCHANGED <<row, stale, job, api, sweeper, wire, hidden, told, followUps>>

(***************************************************************************)
(* Time: job expiry and the sweeper's staleness thresholds                 *)
(***************************************************************************)

\* expireInSeconds passed.  A handler that still runs is no longer awaited.
Expire(j) ==
    /\ job[j].state = "active"
    /\ job' = Failed(j)
    /\ handler' = [h \in Handlers |->
                      IF handler[h].job = j
                      THEN [handler[h] EXCEPT !.job = NoJob]
                      ELSE handler[h]]
    /\ UNCHANGED <<row, stale, api, sweeper, wire, hidden, told, followUps, faults>>

\* updatedAt falls behind STALE_QUEUED_MINUTES or STALE_SENDING_MINUTES.
Age(s) ==
    /\ s \notin stale
    /\ \/ row[s].status = "queued"
       \/ row[s].status = "sending" /\ (Timely => \A h \in Handlers : ~Holds(h, s))
    /\ stale' = stale \cup {s}
    /\ UNCHANGED <<row, job, api, handler, sweeper, wire, hidden, told, followUps, faults>>

(***************************************************************************)
(* The sweeper: sweepStalledSends                                          *)
(***************************************************************************)

Sweep(k, pc, todo, s) ==
    sweeper' = [sweeper EXCEPT ![k] = [pc |-> pc, todo |-> todo, send |-> s]]

\* The rows one query returns: all stale rows of the status, or a full batch.
FindStale(status) ==
    LET found == {s \in stale : row[s].status = status} IN
    {T \in SUBSET found : \/ T = found /\ Cardinality(T) <= SweepBatch
                          \/ Cardinality(T) = SweepBatch}

\* Mutant: rows whose job was never enqueued are not looked for.
SweepQueuedSkipped(k) ==
    /\ sweeper[k].pc = "idle"
    /\ Sweep(k, "requeue", {}, NoSend)
    /\ UNCHANGED <<row, stale, job, api, handler, wire, hidden, told, followUps, faults>>

SweepQueued(k) ==
    /\ sweeper[k].pc = "idle"
    /\ \E T \in FindStale("queued") :
          Sweep(k, "requeue", T, NoSend)
    /\ UNCHANGED <<row, stale, job, api, handler, wire, hidden, told, followUps, faults>>

Requeue(k) ==
    /\ sweeper[k].pc = "requeue"
    /\ \E s \in sweeper[k].todo :
          /\ Enqueue(s)
          /\ Sweep(k, "requeue", sweeper[k].todo \ {s}, NoSend)
    /\ UNCHANGED <<row, stale, api, handler, wire, hidden, told, followUps, faults>>

\* Mutant: rows stranded in sending are not looked for.
SweepSendingSkipped(k) ==
    /\ sweeper[k].pc = "requeue"
    /\ sweeper[k].todo = {}
    /\ Sweep(k, "close", {}, NoSend)
    /\ UNCHANGED <<row, stale, job, api, handler, wire, hidden, told, followUps, faults>>

SweepSending(k) ==
    /\ sweeper[k].pc = "requeue"
    /\ sweeper[k].todo = {}
    /\ \E T \in FindStale("sending") :
          Sweep(k, "close", T, NoSend)
    /\ UNCHANGED <<row, stale, job, api, handler, wire, hidden, told, followUps, faults>>

\* Mutant: a send of unknown outcome is released for another attempt.
ReleaseUnconfirmed(k) ==
    /\ sweeper[k].pc = "close"
    /\ \E s \in sweeper[k].todo :
          /\ WriteRow(s, [row[s] EXCEPT !.status =
                                 IF row[s].attempts < MaxAttempts THEN "queued" ELSE "failed"])
          /\ Sweep(k, "publish", sweeper[k].todo \ {s}, s)
    /\ UNCHANGED <<job, api, handler, wire, hidden, told, followUps, faults>>

\* failAttempt's UPDATE, by id alone, for a row of the list read earlier.
MarkUnconfirmed(k) ==
    /\ sweeper[k].pc = "close"
    /\ \E s \in sweeper[k].todo :
          /\ WriteRow(s, [row[s] EXCEPT !.status = "failed", !.reason = "unconfirmed"])
          /\ Sweep(k, "publish", sweeper[k].todo \ {s}, s)
    /\ UNCHANGED <<job, api, handler, wire, hidden, told, followUps, faults>>

\* Mutant: the sweeper reports the wrong failure reason.
PublishUnconfirmedAsRejected(k) ==
    /\ sweeper[k].pc = "publish"
    /\ Publish(sweeper[k].send, "rejected")
    /\ Sweep(k, "close", sweeper[k].todo, NoSend)
    /\ UNCHANGED <<row, stale, job, api, handler, wire, hidden, followUps, faults>>

PublishUnconfirmed(k) ==
    /\ sweeper[k].pc = "publish"
    /\ Publish(sweeper[k].send, "unconfirmed")
    /\ Sweep(k, "close", sweeper[k].todo, NoSend)
    /\ UNCHANGED <<row, stale, job, api, handler, wire, hidden, followUps, faults>>

SweepDone(k) ==
    /\ sweeper[k].pc = "close"
    /\ sweeper[k].todo = {}
    /\ sweeper' = [sweeper EXCEPT ![k] = IdleSweeper]
    /\ UNCHANGED <<row, stale, job, api, handler, wire, hidden, told, followUps, faults>>

\* A query or an enqueue throws, or the process dies: the rest of the sweep is
\* dropped and the next one starts over.
SweepAborts(k) ==
    /\ sweeper[k].pc # "idle"
    /\ Fault
    /\ sweeper' = [sweeper EXCEPT ![k] = IdleSweeper]
    /\ UNCHANGED <<row, stale, job, api, handler, wire, hidden, told, followUps>>

(***************************************************************************)
(* The specification                                                       *)
(***************************************************************************)

Endpoint(s) == Persist(s) \/ EnqueueSend(s) \/ EnqueueLost(s)

\* What a live handler does next when no infrastructure fault interferes.
HandlerProgress(h) ==
    \/ Claim(h) \/ ClaimLost(h) \/ Reread(h)
    \/ ProviderAccepts(h) \/ ProviderRejects(h) \/ PostAcceptThrows(h)
    \/ MarkSent(h) \/ CreateComposeFollowUp(h) \/ PublishSent(h)
    \/ ReleaseForRetry(h) \/ Rethrow(h) \/ MarkRejected(h) \/ PublishRejected(h)

HandlerFault(h) ==
    ClaimThrows(h) \/ RereadThrows(h) \/ ErrorWriteThrows(h) \/ Crash(h)

SweeperProgress(k) ==
    \/ SweepQueued(k) \/ Requeue(k) \/ SweepSending(k)
    \/ MarkUnconfirmed(k) \/ PublishUnconfirmed(k) \/ SweepDone(k)

Next ==
    \/ \E s \in Sends : Endpoint(s) \/ Age(s)
    \/ \E h \in Handlers, j \in Jobs : Fetch(h, j)
    \/ \E h \in Handlers : HandlerProgress(h) \/ HandlerFault(h)
    \/ \E j \in Jobs : Expire(j)
    \/ \E k \in Sweepers : SweeperProgress(k) \/ SweepAborts(k)

Spec == Init /\ [][Next]_vars

\* Workers keep polling, a live handler keeps running, pg-boss expires the jobs
\* of dead ones, clocks advance and the sweep cron keeps firing.
Fairness ==
    /\ WF_vars(\E h \in Handlers, j \in Jobs : Fetch(h, j))
    /\ \A h \in Handlers : WF_vars(HandlerProgress(h))
    /\ \A j \in Jobs : WF_vars(Expire(j))
    /\ \A s \in Sends : WF_vars(Age(s))
    /\ \A k \in Sweepers : WF_vars(SweeperProgress(k))

FairSpec == Spec /\ Fairness

(***************************************************************************)
(* Properties                                                              *)
(***************************************************************************)

TypeOK ==
    /\ row \in [Sends -> Row]
    /\ stale \subseteq Sends
    /\ job \in [Jobs -> JobType]
    /\ api \in [Sends -> ApiState]
    /\ handler \in [Handlers -> Handler]
    /\ sweeper \in [Sweepers -> Sweeper]
    /\ wire \in [Sends -> Nat]
    /\ hidden \in [Sends -> Nat]
    /\ told \in [Sends -> Seq(Outcome)]
    /\ followUps \subseteq NewSends
    /\ faults \in 0..MaxFaults

\* The claim is exclusive (claimForSending): two handlers never work on the
\* same attempt at once, whatever jobs are duplicated, retried, expired under a
\* live handler or requeued by a sweeper, and no matter how late a sweeper or a
\* slow handler writes the row.
ExclusiveClaim ==
    \A g, h \in Handlers : \A s \in Sends : Holds(g, s) /\ Holds(h, s) => g = h

\* The attempts counter, not pg-boss, is the retry budget: the provider never
\* accepts more copies than attempts were claimed, and never more than
\* MAX_EMAIL_SEND_ATTEMPTS, even across crashes, requeues and slow handlers.
WireWithinBudget ==
    \A s \in Sends : wire[s] <= row[s].attempts /\ row[s].attempts <= MaxAttempts

\* A send whose provider ids were recorded is never transmitted again, even
\* when a sweeper working from an old list overwrites its row with failed.
NeverResentOnceRecorded ==
    [][\A s \in Sends : row[s].messageId # "null" => wire'[s] = wire[s]]_vars

\* A failed send never leaves a stray reminder behind: a follow-up exists only
\* for a message that really went out and was recorded.
FollowUpOnlyIfSent ==
    \A s \in followUps : wire[s] > 0 /\ row[s].messageId # "null"

\* With Timely and one sweep at a time, the pipeline keeps the promises of
\* SendLedger: one settlement, no copy after it, at most one truthful event.
LedgerOf(status) == IF status \in {"queued", "sending"} THEN "pending" ELSE status

Ledger == INSTANCE SendLedger WITH
    ledger <- [s \in Sends |-> LedgerOf(row[s].status)],
    copies <- wire,
    notice <- told

RefinesLedger == Ledger!LedgerSpec

\* claimForSending is a double-send guard but for one thing: a second copy leaves
\* only when a step after an acceptance threw, so that the handler took an
\* accepted copy for a failed send.  No crash, expired job, duplicate, retry or
\* sweep makes one.
OneCopyUnlessHidden == \A s \in Sends : wire[s] <= 1 + hidden[s]

\* A user told "rejected" has no copy on the wire, but for those hidden that way.
RejectedUnlessHidden ==
    \A s \in Sends : \A i \in DOMAIN told[s] :
        told[s][i] = "rejected" => wire[s] <= hidden[s]

\* A persisted send is eventually settled, although its job may never be
\* enqueued, its jobs may die and its handlers may crash: the sweeper requeues
\* rows stranded in queued and closes rows stranded in sending.
EverySendSettles ==
    \A s \in Sends : row[s].status = "queued" ~> row[s].status \in {"sent", "failed"}

\* The inductive strengthening of ExclusiveClaim and WireWithinBudget.  What
\* makes the claim exclusive is that only its holder ever leads the row back to
\* queued: while a handler holds it the row is sending, or failed by a sweeper.
RowFacts(s) ==
    /\ api[s] = "none" => row[s].status = "absent"
    /\ row[s].status = "absent" => row[s].attempts = 0 /\ row[s].messageId = "null"
    /\ row[s].status = "queued" => row[s].attempts < MaxAttempts /\ row[s].messageId = "null"
    /\ row[s].status = "sent" => row[s].messageId # "null"
    /\ row[s].messageId # "null" => wire[s] > 0
    /\ wire[s] <= row[s].attempts

RowInv == \A s \in Sends : RowFacts(s)

ClaimFacts(h, s) ==
    /\ row[s].status \in {"sending", "failed"}
    /\ row[s].messageId = "null"
    /\ handler[h].pc # "reread" => handler[h].attempts = row[s].attempts
    /\ handler[h].pc \in {"reread", "dispatch"} => wire[s] < row[s].attempts
    /\ handler[h].pc = "accepted" => wire[s] > 0

HolderInv == \A h \in Handlers : \A s \in Sends : Holds(h, s) => ClaimFacts(h, s)

JobInv == \A j \in Jobs : job[j].state # "free" => job[j].key \in Sends

AwaitInv ==
    \A h \in Handlers : handler[h].job # NoJob =>
        /\ job[handler[h].job].state = "active"
        /\ \A g \in Handlers : handler[g].job = handler[h].job => g = h

BusyInv ==
    /\ \A h \in Handlers : handler[h].pc # "idle" => handler[h].send \in Sends
    /\ \A h \in Handlers : handler[h].pc \in {"followUp", "publishSent"} =>
          row[handler[h].send].messageId # "null"
    /\ \A k \in Sweepers : sweeper[k].pc = "publish" => sweeper[k].send \in Sends
    /\ \A k \in Sweepers : \A s \in sweeper[k].todo : row[s].status # "absent"

ClaimInv ==
    /\ TypeOK
    /\ JobInv
    /\ AwaitInv
    /\ RowInv
    /\ HolderInv
    /\ ExclusiveClaim
    /\ BusyInv

\* What Timely and a single sweep at a time add: a held row is sending, nobody
\* holds a row a sweeper is about to close, and an outcome event is owed by one
\* handler or sweeper at most, and only until it is triggered.
Owes(h, s) == handler[h].send = s /\
              handler[h].pc \in {"followUp", "publishSent", "publishRejected"}

SettledFacts(s) ==
    /\ row[s].status \in {"absent", "queued", "sending"} => told[s] = <<>>
    /\ \A h \in Handlers :
          /\ Holds(h, s) => row[s].status = "sending" /\ s \notin stale
          /\ Owes(h, s) =>
                /\ told[s] = <<>>
                /\ row[s].status = IF handler[h].pc = "publishRejected" THEN "failed" ELSE "sent"
                /\ \A g \in Handlers : Owes(g, s) => g = h
    /\ \A k \in Sweepers :
          /\ sweeper[k].pc \in {"close", "publish"} /\ s \in sweeper[k].todo =>
                row[s].status = "sending" /\ s \in stale
          /\ sweeper[k].pc = "publish" /\ sweeper[k].send = s =>
                /\ told[s] = <<>>
                /\ row[s].status = "failed"
                /\ \A h \in Handlers : ~Owes(h, s)

SettledInv == \A s \in Sends : SettledFacts(s)

=============================================================================
