----------------------------- MODULE SnoozeProofs -----------------------------
(***************************************************************************)
(* Proofs about Snooze, for any number of mails, requests, workers, jobs,  *)
(* retries and faults.                                                     *)
(*                                                                         *)
(* That a job ends a snooze only when one ran out is not inductive alone:  *)
(* the evidence travels from the scan to the queue to a worker (DueInv),   *)
(* and a worker acts on the job it holds and nobody else's (QueueInv).     *)
(* That a snoozed thread is not lost while it is away rests on the order   *)
(* in which the request and the job write its three places (Away); once it *)
(* is home and no request is under way, no job can undo that (AtRest).     *)
(***************************************************************************)
EXTENDS Snooze, TLAPS

\* A job carries its queue's kind, and a worker holds an active job of its own.
QueueInv ==
    /\ \A j \in Jobs : job[j].state # "free" => job[j].key = j[1]
    /\ \A w \in Workers : worker[w].pc # "idle" =>
          worker[w].job \in Jobs /\ job[worker[w].job].state = "active"
    /\ \A w \in Workers : worker[w].pc \in {"row", "mails"} => worker[w].job[1] = "unsnooze"
    /\ \A v, w \in Workers :
          worker[v].pc # "idle" /\ worker[w].pc # "idle" /\ worker[v].job = worker[w].job
            => v = w

\* What the scan has listed, and what it has queued, shows that a moment passed.
DueInv ==
    /\ listed => passed # {}
    /\ \A j \in Jobs : j[1] = "unsnooze" /\ job[j].state # "free" => passed # {}

IInv == TypeOK /\ QueueInv /\ DueInv

(***************************************************************************)
(* What the helpers do                                                     *)
(***************************************************************************)

LEMMA InitInv == ASSUME Init PROVE IInv
<1> USE SnoozeAssumption
<1>1. FreeJob \in JobType
  BY DEF FreeJob, JobType, JobState
<1>2. IdleRequest \in Request /\ IdleArrival \in Arrival /\ IdleWorker \in Worker
  BY DEF IdleRequest, Request, IdleArrival, Arrival, IdleWorker, Worker, Moments
<1>3. 0 \in Moments /\ job \in [Jobs -> JobType]
  BY <1>1 DEF Init, JobInit, Moments
<1>6. spent \in [snoozes: 0..MaxRequests, bulks: 0..MaxRequests,
                 unsnoozes: 0..MaxRequests, mails: 0..MaxNewMails, faults: 0..MaxFaults]
  BY DEF Init
<1>4. TypeOK
  BY <1>2, <1>3, <1>6 DEF Init, TypeOK
<1>5. QueueInv /\ DueInv
  BY DEF Init, QueueInv, DueInv, JobInit, FreeJob, IdleWorker
<1> QED BY <1>4, <1>5 DEF IInv

\* A fault is counted.
LEMMA FaultEffect ==
  ASSUME TypeOK, Fault
  PROVE  spent' \in [snoozes: 0..MaxRequests, bulks: 0..MaxRequests,
                     unsnoozes: 0..MaxRequests, mails: 0..MaxNewMails, faults: 0..MaxFaults]
  BY SnoozeAssumption DEF TypeOK, Fault

\* A request is counted, and a snooze it asks for has a moment.
LEMMA AsksEffect ==
  ASSUME TypeOK, NEW kind \in {"snoozes", "bulks", "unsnoozes"}, Asks(kind)
  PROVE  /\ spent' \in [snoozes: 0..MaxRequests, bulks: 0..MaxRequests,
                        unsnoozes: 0..MaxRequests, mails: 0..MaxNewMails, faults: 0..MaxFaults]
         /\ Latest + 1 \in Moments
  BY SnoozeAssumption DEF TypeOK, Asks, Latest, Moments

\* Queueing fills at most one free slot, of the queue it is meant for.
LEMMA SendEffect ==
  ASSUME TypeOK, NEW kind \in Kinds, Send(kind)
  PROVE  /\ job' \in [Jobs -> JobType]
         /\ window' \subseteq Kinds
         /\ \A j \in Jobs : \/ job'[j] = job[j]
                            \/ /\ job[j].state = "free" /\ job'[j].state = "ready"
                               /\ job'[j].key = kind /\ j[1] = kind
<1>1. window' \subseteq Kinds  BY DEF Send, TypeOK
<1>2. CASE kind \in window  BY <1>1, <1>2 DEF Send, TypeOK
<1>3. CASE kind \notin window
  <2>1. EnqueueOwn(kind)  BY <1>3 DEF Send
  <2>2. PICK j \in Jobs :
            /\ job[j].state = "free"
            /\ job' = [job EXCEPT ![j] = [state |-> "ready", key |-> kind, retries |-> 0]]
    BY <2>1 DEF EnqueueOwn, Enqueue
  <2>3. [state |-> "ready", key |-> kind, retries |-> 0] \in JobType
    BY SnoozeAssumption DEF JobType, JobState
  <2>4. /\ job' \in [Jobs -> JobType]
        /\ job'[j].state = "ready" /\ job'[j].key = kind
        /\ \A i \in Jobs \ {j} : job'[i] = job[i]
    BY <2>2, <2>3 DEF TypeOK
  <2>5. j[1] = kind  BY <2>1, <2>2, <2>4 DEF EnqueueOwn
  <2> QED BY <1>1, <2>2, <2>4, <2>5
<1> QED BY <1>2, <1>3

\* The invariant's queue part survives a send, its other part does if there is
\* evidence for the job.
LEMMA SendInv ==
  ASSUME IInv, NEW kind \in Kinds, Send(kind), worker' = worker, passed' = passed,
         listed' => listed, kind = "unsnooze" => passed # {}
  PROVE  QueueInv' /\ DueInv'
<1>1. \A j \in Jobs : \/ job'[j] = job[j]
                      \/ /\ job[j].state = "free" /\ job'[j].state = "ready"
                         /\ job'[j].key = kind /\ j[1] = kind
  BY SendEffect DEF IInv
<1>2. QueueInv'  BY <1>1 DEF IInv, QueueInv
<1>3. DueInv'  BY <1>1 DEF IInv, DueInv
<1> QED BY <1>2, <1>3

\* Both parts survive a step that leaves queue and workers alone and lists
\* nothing new without evidence.
LEMMA QuietInv ==
  ASSUME IInv, job' = job, worker' = worker, passed \subseteq passed',
         listed' => listed \/ passed # {}
  PROVE  QueueInv' /\ DueInv'
  BY DEF IInv, QueueInv, DueInv

\* A worker that is done with its job, or throws, is idle again; no slot but
\* its own changes, and that one keeps its kind.
LEMMA LeaveInv ==
  ASSUME IInv, NEW w \in Workers, worker[w].pc # "idle",
         worker' = [worker EXCEPT ![w] = IdleWorker],
         job' = Completed(worker[w].job) \/ job' = Failed(worker[w].job),
         passed' = passed, listed' = listed
  PROVE  /\ job' \in [Jobs -> JobType] /\ worker' \in [Workers -> Worker]
         /\ QueueInv' /\ DueInv'
<1>1. PICK j \in Jobs : j = worker[w].job /\ job[j].state = "active" /\ job[j].key = j[1]
  BY DEF IInv, QueueInv
<1>2. job[j] \in JobType /\ RetryLimit \in Nat
  BY <1>1, SnoozeAssumption DEF IInv, TypeOK
<1>3. /\ job' \in [Jobs -> JobType]
      /\ \A i \in Jobs \ {j} : job'[i] = job[i]
      /\ job'[j].state # "free" => job'[j].key = j[1]
  <2>1. CASE job' = Completed(j)
    BY <1>2, <2>1 DEF Completed, IInv, TypeOK, FreeJob, JobType, JobState
  <2>2. CASE job' = Failed(j) /\ job[j].retries < RetryLimit
    BY <1>1, <1>2, <2>2 DEF Failed, IInv, TypeOK, JobType, JobState
  <2>3. CASE job' = Failed(j) /\ ~(job[j].retries < RetryLimit)
    BY <2>1, <2>3 DEF Failed
  <2> QED BY <1>1, <2>1, <2>2, <2>3
<1>4. IdleWorker \in Worker /\ IdleWorker.pc = "idle"
  BY DEF IdleWorker, Worker
<1>5. /\ worker' \in [Workers -> Worker]
      /\ worker'[w].pc = "idle"
      /\ \A v \in Workers \ {w} : worker'[v] = worker[v]
  BY <1>4 DEF IInv, TypeOK
<1>6. \A v \in Workers \ {w} : worker[v].pc # "idle" => worker[v].job # j
  BY <1>1 DEF IInv, QueueInv
<1>7. \A v \in Workers : worker'[v].pc # "idle" =>
          worker'[v].job \in Jobs /\ job'[worker'[v].job].state = "active"
  BY <1>3, <1>5, <1>6 DEF IInv, QueueInv
<1>8. QueueInv'
  BY <1>3, <1>5, <1>7 DEF IInv, QueueInv
<1>9. DueInv'
  BY <1>1, <1>3 DEF IInv, DueInv
<1> QED BY <1>3, <1>5, <1>8, <1>9

(***************************************************************************)
(* The invariant                                                           *)
(***************************************************************************)

\* Requests write the row, the mails and the provider, and queue snooze jobs.
LEMMA RequestInv ==
  ASSUME IInv, NEW r \in Requests,
         \/ RequestSteps(r) \/ RequestFails(r) \/ BulkSnooze(r)
         \/ \E m \in Mails : BeginSnooze(r, m) \/ BeginUnsnooze(r, m)
  PROVE  IInv'
<1> USE SnoozeAssumption
<1>1. request[r] \in Request /\ request[r].until \in Moments /\ request[r].mails \subseteq Mails
  BY DEF IInv, TypeOK, Request
<1>2. IdleRequest \in Request
  BY DEF IdleRequest, Request, Moments
<1>3. ASSUME SavesThread(r) \/ SavesMail(r) \/ CallsProvider(r) \/ Confirms(r)
      PROVE  IInv'
  <2>1. /\ until' \in Moments /\ flagged' \subseteq Mails /\ labelled' \in BOOLEAN
        /\ UNCHANGED <<passed, arrival, listed, job, window, worker, spent>>
    BY <1>1, <1>3 DEF SavesThread, SavesMail, CallsProvider, Confirms, IInv, TypeOK
  <2>3. \/ request' = [request EXCEPT ![r] = IdleRequest]
        \/ \E pc \in {"mail", "provider", "confirm"} :
               request' = [request EXCEPT ![r].pc = pc]
    BY <1>3 DEF SavesThread, SavesMail, CallsProvider, Confirms
  <2>4. request' \in [Requests -> Request]
    BY <1>1, <1>2, <2>3 DEF IInv, TypeOK, Request
  <2>5. TypeOK'
    BY <2>1, <2>4 DEF IInv, TypeOK
  <2>2. QueueInv' /\ DueInv'
    BY <1>3, QuietInv DEF SavesThread, SavesMail, CallsProvider, Confirms
  <2> QED BY <2>2, <2>5 DEF IInv
<1>4. ASSUME BulkSavesMails(r) PROVE IInv'
  <2>1. TypeOK'  BY <1>1, <1>4 DEF BulkSavesMails, IInv, TypeOK, Request
  <2>2. QueueInv' /\ DueInv'  BY <1>4, QuietInv DEF BulkSavesMails
  <2> QED BY <2>1, <2>2 DEF IInv
<1>5. ASSUME BulkQueues(r) PROVE IInv'
  <2>1. Send("snooze") /\ "snooze" \in Kinds  BY <1>5 DEF BulkQueues, Kinds
  <2>2. job' \in [Jobs -> JobType] /\ window' \subseteq Kinds
    BY <2>1, SendEffect DEF IInv
  <2>3. TypeOK'  BY <1>2, <1>5, <2>2 DEF BulkQueues, IInv, TypeOK
  <2>4. QueueInv' /\ DueInv'  BY <1>5, <2>1, SendInv DEF BulkQueues
  <2> QED BY <2>3, <2>4 DEF IInv
<1>6. ASSUME RequestFails(r) PROVE IInv'
  <2>1. TypeOK'  BY <1>2, <1>6, FaultEffect DEF RequestFails, IInv, TypeOK
  <2>2. QueueInv' /\ DueInv'  BY <1>6, QuietInv DEF RequestFails
  <2> QED BY <2>1, <2>2 DEF IInv
<1>7. ASSUME BulkSnooze(r) PROVE IInv'
  <2>1. Latest + 1 \in Moments  BY <1>7, AsksEffect DEF BulkSnooze, IInv
  <2>2. [pc |-> "mails", until |-> Latest + 1, mails |-> Mails] \in Request
    BY <2>1 DEF Request
  <2>3. TypeOK'  BY <1>7, <2>1, <2>2, AsksEffect DEF BulkSnooze, IInv, TypeOK
  <2>4. QueueInv' /\ DueInv'  BY <1>7, QuietInv DEF BulkSnooze
  <2> QED BY <2>3, <2>4 DEF IInv
<1>8. ASSUME NEW m \in Mails, BeginSnooze(r, m) \/ BeginUnsnooze(r, m) PROVE IInv'
  <2>1. PICK u \in Moments :
            request' = [request EXCEPT ![r] = [pc |-> "thread", until |-> u, mails |-> {m}]]
    <3>1. CASE BeginSnooze(r, m)
      <4>1. Latest + 1 \in Moments  BY <3>1, AsksEffect DEF BeginSnooze, IInv
      <4>2. request' = [request EXCEPT ![r] = [pc |-> "thread", until |-> Latest + 1,
                                              mails |-> {m}]]
        BY <3>1 DEF BeginSnooze
      <4> QED BY <4>1, <4>2
    <3>2. CASE BeginUnsnooze(r, m)
      <4>1. 0 \in Moments  BY DEF Moments
      <4>2. request' = [request EXCEPT ![r] = [pc |-> "thread", until |-> 0, mails |-> {m}]]
        BY <3>2 DEF BeginUnsnooze
      <4> QED BY <4>1, <4>2
    <3> QED BY <1>8, <3>1, <3>2
  <2>2. [pc |-> "thread", until |-> u, mails |-> {m}] \in Request
    BY DEF Request
  <2>3. request' \in [Requests -> Request]
    BY <2>1, <2>2 DEF IInv, TypeOK
  <2>4. TypeOK'
    BY <1>8, <2>3, AsksEffect DEF BeginSnooze, BeginUnsnooze, IInv, TypeOK
  <2>5. QueueInv' /\ DueInv'  BY <1>8, QuietInv DEF BeginSnooze, BeginUnsnooze
  <2> QED BY <2>4, <2>5 DEF IInv
<1> QED BY <1>3, <1>4, <1>5, <1>6, <1>7, <1>8 DEF RequestSteps

\* A new mail writes the row, the mails and the provider.
LEMMA MailInv ==
  ASSUME IInv, MailSteps \/ MailArrives \/ MailFails
  PROVE  IInv'
<1>1. arrival \in Arrival /\ arrival.copy \in Moments /\ until \in Moments /\ 0 \in Moments
  BY SnoozeAssumption DEF IInv, TypeOK, Arrival, Moments
<1>2. IdleArrival \in Arrival
  BY <1>1 DEF IdleArrival, Arrival
<1>3. UNCHANGED <<passed, request, listed, job, window, worker>>
  BY DEF MailSteps, MailArrives, MailFails, MailSavesThread, MailSavesThreadAgain,
         MailListsSnoozed, MailWakesThread, MailWakesMails, MailTellsProvider
<1>4. until' \in Moments /\ flagged' \subseteq Mails /\ labelled' \in BOOLEAN
  BY <1>1 DEF MailSteps, MailArrives, MailFails, MailSavesThread, MailSavesThreadAgain,
         MailListsSnoozed, MailWakesThread, MailWakesMails, MailTellsProvider, IInv, TypeOK
<1>5. arrival' \in Arrival
  <2>1. CASE MailArrives  BY <1>1, <2>1 DEF MailArrives, Arrival
  <2>2. CASE MailSavesThread \/ MailSavesThreadAgain
    BY <1>1, <1>2, <2>2 DEF MailSavesThread, MailSavesThreadAgain, Arrival
  <2>3. CASE MailListsSnoozed
    BY <1>1, <1>2, <2>3 DEF MailListsSnoozed, Arrival
  <2>4. CASE MailWakesThread
    BY <1>1, <1>2, <2>4 DEF MailWakesThread, IdleArrival, Arrival
  <2>5. CASE MailWakesMails
    BY <1>1, <2>5 DEF MailWakesMails, Arrival
  <2>6. CASE MailTellsProvider \/ MailFails
    BY <1>2, <2>6 DEF MailTellsProvider, MailFails
  <2> QED BY <2>1, <2>2, <2>3, <2>4, <2>5, <2>6 DEF MailSteps
<1>6. spent' \in [snoozes: 0..MaxRequests, bulks: 0..MaxRequests,
                  unsnoozes: 0..MaxRequests, mails: 0..MaxNewMails, faults: 0..MaxFaults]
  <2>1. CASE MailArrives  BY SnoozeAssumption, <2>1 DEF MailArrives, IInv, TypeOK
  <2>2. CASE MailFails  BY <2>2, FaultEffect DEF MailFails, IInv
  <2>3. CASE MailSteps
    BY <2>3 DEF MailSteps, MailSavesThread, MailSavesThreadAgain, MailListsSnoozed,
       MailWakesThread, MailWakesMails, MailTellsProvider, IInv, TypeOK
  <2> QED BY <2>1, <2>2, <2>3
<1>7. TypeOK'  BY <1>3, <1>4, <1>5, <1>6 DEF IInv, TypeOK
<1>8. QueueInv' /\ DueInv'  BY <1>3, QuietInv
<1> QED BY <1>7, <1>8 DEF IInv

\* The scan lists a thread whose moment passed, and that is the evidence for
\* its job.
LEMMA ScanInv ==
  ASSUME IInv, ScanSteps \/ ScanFails
  PROVE  IInv'
<1>1. CASE ScanLists
  <2>1. TypeOK'  BY <1>1 DEF ScanLists, IInv, TypeOK
  <2>2. QueueInv' /\ DueInv'  BY <1>1, QuietInv DEF ScanLists
  <2> QED BY <2>1, <2>2 DEF IInv
<1>2. CASE ScanQueues
  <2>1. Send("unsnooze") /\ "unsnooze" \in Kinds  BY <1>2 DEF ScanQueues, Kinds
  <2>2. passed # {}  BY <1>2 DEF ScanQueues, IInv, DueInv
  <2>3. job' \in [Jobs -> JobType] /\ window' \subseteq Kinds
    BY <2>1, SendEffect DEF IInv
  <2>4. TypeOK'  BY <1>2, <2>3 DEF ScanQueues, IInv, TypeOK
  <2>5. QueueInv' /\ DueInv'  BY <1>2, <2>1, <2>2, SendInv DEF ScanQueues
  <2> QED BY <2>4, <2>5 DEF IInv
<1>3. CASE ScanFails
  <2>1. TypeOK'  BY <1>3, FaultEffect DEF ScanFails, IInv, TypeOK
  <2>2. QueueInv' /\ DueInv'  BY <1>3, QuietInv DEF ScanFails
  <2> QED BY <2>1, <2>2 DEF IInv
<1> QED BY <1>1, <1>2, <1>3 DEF ScanSteps

\* A fetched job is held by its fetcher alone.
LEMMA FetchInv ==
  ASSUME IInv, NEW w \in Workers, NEW j \in Jobs, Fetch(w, j)
  PROVE  IInv'
<1>1. /\ worker[w].pc = "idle" /\ job[j].state = "ready" /\ job[j] \in JobType
      /\ UNCHANGED <<until, flagged, labelled, passed, request, arrival, listed, window, spent>>
  BY DEF Fetch, FetchJob, IInv, TypeOK
<1>2. /\ job' \in [Jobs -> JobType]
      /\ job'[j].state = "active" /\ job'[j].key = job[j].key
      /\ \A i \in Jobs \ {j} : job'[i] = job[i]
  BY <1>1 DEF Fetch, FetchJob, IInv, TypeOK, JobType, JobState
<1>3. [pc |-> "provider", job |-> j] \in Worker  BY DEF Worker
<1>4. /\ worker' \in [Workers -> Worker]
      /\ worker'[w] = [pc |-> "provider", job |-> j]
      /\ \A v \in Workers \ {w} : worker'[v] = worker[v]
  BY <1>3 DEF Fetch, IInv, TypeOK
<1>5. \A v \in Workers : worker[v].pc # "idle" => worker[v].job # j
  BY <1>1 DEF IInv, QueueInv
<1>6. QueueInv'
  BY <1>1, <1>2, <1>4, <1>5 DEF IInv, QueueInv
<1>7. DueInv'
  BY <1>1, <1>2 DEF IInv, DueInv
<1>8. TypeOK'
  BY <1>1, <1>2, <1>4 DEF IInv, TypeOK
<1> QED BY <1>6, <1>7, <1>8 DEF IInv

\* A worker goes through its job's statements and lets go of it.
LEMMA WorkerInv ==
  ASSUME IInv, NEW w \in Workers,
         \/ WorkerCallsProvider(w) \/ WorkerConfirms(w) \/ WorkerWakesThread(w)
         \/ WorkerWakesMails(w) \/ WorkerThrows(w)
  PROVE  IInv'
<1>1. CASE WorkerCallsProvider(w) \/ WorkerWakesThread(w)
  <2>1. PICK pc \in {"confirm", "row", "mails"} :
            /\ worker' = [worker EXCEPT ![w].pc = pc]
            /\ worker[w].pc # "idle"
            /\ pc = "confirm" \/ worker[w].job[1] = "unsnooze"
    <3>1. CASE WorkerCallsProvider(w)
      <4>1. worker[w].pc = "provider"  BY <3>1 DEF WorkerCallsProvider
      <4>2. job[worker[w].job].key = worker[w].job[1] /\ worker[w].job[1] \in Kinds
        BY <4>1 DEF IInv, QueueInv, Jobs
      <4> QED BY <3>1, <4>1, <4>2 DEF WorkerCallsProvider, Kinds
    <3>2. CASE WorkerWakesThread(w)  BY <3>2 DEF WorkerWakesThread, IInv, QueueInv
    <3> QED BY <1>1, <3>1, <3>2
  <2>2. /\ worker' \in [Workers -> Worker]
        /\ worker'[w].pc = pc /\ worker'[w].job = worker[w].job
        /\ \A v \in Workers \ {w} : worker'[v] = worker[v]
    BY <2>1 DEF IInv, TypeOK, Worker
  <2>3. /\ UNCHANGED <<flagged, passed, request, arrival, listed, job, window, spent>>
        /\ until' \in Moments /\ labelled' \in BOOLEAN
    <3>1. 0 \in Moments /\ until \in Moments /\ labelled \in BOOLEAN
      BY SnoozeAssumption DEF Moments, IInv, TypeOK
    <3>2. CASE WorkerCallsProvider(w)
      <4>1. labelled' = (job[worker[w].job].key = "snooze")
        BY <3>2 DEF WorkerCallsProvider
      <4>2. labelled' \in BOOLEAN  BY <4>1, Zenon
      <4>3. UNCHANGED <<until, flagged, passed, request, arrival, listed, job, window, spent>>
        BY <3>2 DEF WorkerCallsProvider
      <4> QED BY <3>1, <4>2, <4>3
    <3>3. CASE WorkerWakesThread(w)
      BY <3>1, <3>3 DEF WorkerWakesThread
    <3> QED BY <1>1, <3>2, <3>3
  <2>4. QueueInv'  BY <2>1, <2>2, <2>3 DEF IInv, QueueInv
  <2>5. DueInv'  BY <2>3 DEF IInv, DueInv
  <2>6. TypeOK'  BY <2>2, <2>3 DEF IInv, TypeOK
  <2> QED BY <2>4, <2>5, <2>6 DEF IInv
<1>2. CASE WorkerConfirms(w) \/ WorkerWakesMails(w) \/ WorkerThrows(w)
  <2>1. /\ worker[w].pc # "idle"
        /\ worker' = [worker EXCEPT ![w] = IdleWorker]
        /\ job' = Completed(worker[w].job) \/ job' = Failed(worker[w].job)
        /\ UNCHANGED <<until, labelled, passed, request, arrival, listed, window>>
        /\ flagged' \subseteq Mails
    BY <1>2 DEF WorkerConfirms, WorkerWakesMails, WorkerThrows, IInv, TypeOK
  <2>2. /\ job' \in [Jobs -> JobType] /\ worker' \in [Workers -> Worker]
        /\ QueueInv' /\ DueInv'
    BY <2>1, LeaveInv
  <2>3. spent' \in [snoozes: 0..MaxRequests, bulks: 0..MaxRequests,
                    unsnoozes: 0..MaxRequests, mails: 0..MaxNewMails, faults: 0..MaxFaults]
    BY <1>2, FaultEffect DEF WorkerConfirms, WorkerWakesMails, WorkerThrows, IInv, TypeOK
  <2>4. TypeOK'  BY <2>1, <2>2, <2>3 DEF IInv, TypeOK
  <2> QED BY <2>2, <2>4 DEF IInv
<1> QED BY <1>1, <1>2

\* Time only adds evidence.
LEMMA TimeInv ==
  ASSUME IInv, (\E kind \in Kinds : WindowCloses(kind)) \/ (\E u \in Moments : Passes(u))
  PROVE  IInv'
<1>1. CASE \E kind \in Kinds : WindowCloses(kind)
  <2>1. TypeOK'  BY <1>1 DEF WindowCloses, IInv, TypeOK
  <2>2. QueueInv' /\ DueInv'  BY <1>1, QuietInv DEF WindowCloses
  <2> QED BY <2>1, <2>2 DEF IInv
<1>2. CASE \E u \in Moments : Passes(u)
  <2>1. TypeOK'  BY <1>2 DEF Passes, IInv, TypeOK
  <2>2. QueueInv' /\ DueInv'  BY <1>2, QuietInv DEF Passes
  <2> QED BY <2>1, <2>2 DEF IInv
<1> QED BY <1>1, <1>2

\* Every step keeps the invariant.
LEMMA NextInv == ASSUME IInv, [Next]_vars PROVE IInv'
<1>1. CASE UNCHANGED vars
  BY <1>1 DEF vars, IInv, TypeOK, QueueInv, DueInv
<1>2. CASE Next
  BY <1>2, RequestInv, MailInv, ScanInv, FetchInv, WorkerInv, TimeInv
     DEF Next, Begins, Faults, WorkerSteps
<1> QED BY <1>1, <1>2

(***************************************************************************)
(* Theorems                                                                *)
(***************************************************************************)

\* The strengthened invariant holds: whatever unsnoozes a thread goes back to a
\* scan that found it expired (snooze.processor.ts).
THEOREM SnoozeInvariant == Spec => []IInv
  BY InitInv, NextInv, PTL DEF Spec

\* Every variable keeps its type.
THEOREM TypeCorrect == Spec => []TypeOK
<1>1. IInv => TypeOK  BY DEF IInv
<1> QED BY <1>1, SnoozeInvariant, PTL

\* No job ends a snooze, in the row or at the provider, of a thread that never
\* had one run out, though the jobs do not look at the row (snooze.processor.ts).
THEOREM EndsOnlyExpired == Spec => EndsOnlyWhenDue
<1>1. ASSUME IInv, NEW w \in Workers, WorkerSteps(w),
             until' # until \/ (labelled /\ ~labelled')
      PROVE  passed # {}
  <2>1. CASE WorkerWakesThread(w)
    <3>1. worker[w].pc = "row"  BY <2>1 DEF WorkerWakesThread
    <3>2. worker[w].job \in Jobs /\ job[worker[w].job].state = "active"
      BY <1>1, <3>1 DEF IInv, QueueInv
    <3>3. worker[w].job[1] = "unsnooze"  BY <1>1, <3>1 DEF IInv, QueueInv
    <3> QED BY <1>1, <3>2, <3>3 DEF IInv, DueInv
  <2>2. CASE WorkerCallsProvider(w)
    <3>1. worker[w].pc = "provider" /\ job[worker[w].job].key # "snooze"
      <4>1. /\ worker[w].pc = "provider" /\ until' = until
            /\ labelled' = (job[worker[w].job].key = "snooze")
        BY <2>2 DEF WorkerCallsProvider
      <4>2. ~labelled'  BY <1>1, <4>1
      <4> QED BY <4>1, <4>2
    <3>2. worker[w].job \in Jobs /\ job[worker[w].job].state = "active"
      BY <1>1, <3>1 DEF IInv, QueueInv
    <3>3. job[worker[w].job].key = worker[w].job[1]
      BY <1>1, <3>2 DEF IInv, QueueInv
    <3>4. worker[w].job[1] \in {"snooze", "unsnooze"}
      BY <3>2 DEF Jobs, Kinds
    <3>5. worker[w].job[1] = "unsnooze"  BY <3>1, <3>3, <3>4
    <3> QED BY <1>1, <3>2, <3>5 DEF IInv, DueInv
  <2>3. CASE WorkerConfirms(w) \/ WorkerWakesMails(w) \/ \E j \in Jobs : Fetch(w, j)
    BY <1>1, <2>3 DEF WorkerConfirms, WorkerWakesMails, Fetch
  <2> QED BY <1>1, <2>1, <2>2, <2>3 DEF WorkerSteps
<1>2. IInv =>
        [(\E w \in Workers : WorkerSteps(w)) /\ (until' # until \/ (labelled /\ ~labelled'))
           => passed # {}]_vars
  BY <1>1
<1> QED BY <1>2, SnoozeInvariant, PTL DEF EndsOnlyWhenDue

(***************************************************************************)
(* A thread that is away is expected back                                  *)
(***************************************************************************)

\* What ComesHome needs at every moment, for a thread snoozed once, by itself,
\* and left alone.  Away at the provider it is only while the row says so, and
\* then the scan will find it.  Its mails may be flagged for longer, but then
\* an unsnooze job is there, unless more has failed than its retries cover.
AwayIsExpected ==
    SnoozedOnce =>
        /\ labelled => until # 0
        /\ flagged # {} => \/ until # 0
                           \/ \E j \in Jobs : job[j].state # "free"
                           \/ spent.faults > RetryLimit

\* The one request, if it still runs, runs alone and its moment has not passed.
RequestIsAlone ==
    \A r \in Requests : request[r].pc # "idle" =>
        /\ request[r].pc \in {"thread", "mail", "provider", "confirm"}
        /\ request[r].until = 1
        /\ request[r].pc = "thread" => ~labelled /\ flagged = {}
        /\ request[r].pc # "thread" => until # 0
        /\ spent.snoozes # 0 /\ passed = {}
        /\ \A q \in Requests : request[q].pc # "idle" => q = r

\* Before it nothing has happened, and after it only unsnooze jobs do.
Away ==
    /\ arrival.pc = "idle" /\ arrival.copy = 0
    /\ until \in {0, 1}
    /\ spent.snoozes = 0 => until = 0 /\ flagged = {} /\ ~labelled /\ passed = {}
    /\ RequestIsAlone
    /\ \A j \in Jobs : job[j].state # "free" => j[1] = "unsnooze"
    /\ \A w \in Workers : worker[w].pc # "confirm"
    /\ \A w \in Workers : worker[w].pc \in {"row", "mails"} => ~labelled
    /\ labelled => until # 0
    /\ flagged # {} => \/ until # 0
                       \/ \E j \in Jobs : job[j].state # "free"
                       \/ spent.faults > RetryLimit

\* No job has been retried more often than something failed.
RetriesAreFaults == \A j \in Jobs : job[j].retries <= spent.faults

HomeInv == RetriesAreFaults /\ (SnoozedOnce => Away)

\* Failures and requests are counted for good: a step to a state in which the
\* thread was snoozed at most once starts from one.
LEMMA OnceStep ==
  ASSUME IInv, [Next]_vars
  PROVE  /\ spent.faults \in Nat /\ spent'.faults \in Nat /\ spent.faults <= spent'.faults
         /\ SnoozedOnce' => SnoozedOnce
<1>1. /\ spent.snoozes \in Nat /\ spent.bulks \in Nat /\ spent.unsnoozes \in Nat
      /\ spent.mails \in Nat /\ spent.faults \in Nat
  BY SnoozeAssumption DEF IInv, TypeOK
<1>2. \/ spent' = spent
      \/ \E k \in {"snoozes", "bulks", "unsnoozes", "mails", "faults"} :
             spent' = [spent EXCEPT ![k] = @ + 1]
  <2>1. CASE Begins
    BY <2>1 DEF Begins, BeginSnooze, BeginUnsnooze, BulkSnooze, MailArrives, Asks
  <2>2. CASE Faults
    BY <2>2 DEF Faults, RequestFails, MailFails, ScanFails, WorkerThrows, Fault
  <2>3. CASE ~Begins /\ ~Faults
    BY <2>3
    DEF Next, vars, RequestSteps, SavesThread, SavesMail, CallsProvider, Confirms,
        BulkSavesMails, BulkQueues, MailSteps, MailSavesThread, MailSavesThreadAgain,
        MailListsSnoozed, MailWakesThread, MailWakesMails, MailTellsProvider, ScanSteps,
        ScanLists, ScanQueues, WorkerSteps, Fetch, WorkerCallsProvider, WorkerConfirms,
        WorkerWakesThread, WorkerWakesMails, WindowCloses, Passes
  <2> QED BY <2>1, <2>2, <2>3
<1>3. CASE spent' = spent
  BY <1>1, <1>3 DEF SnoozedOnce
<1>4. ASSUME NEW k \in {"snoozes", "bulks", "unsnoozes", "mails", "faults"},
             spent' = [spent EXCEPT ![k] = @ + 1]
      PROVE  /\ spent'.faults \in Nat /\ spent.faults <= spent'.faults
             /\ SnoozedOnce' => SnoozedOnce
  BY <1>1, <1>4 DEF SnoozedOnce, IInv, TypeOK
<1> QED
  BY <1>1, <1>2, <1>3, <1>4

\* A retry is counted with the failure it answers.
LEMMA RetriesStep ==
  ASSUME IInv, RetriesAreFaults, [Next]_vars
  PROVE  RetriesAreFaults'
<1>1. spent.faults \in Nat /\ spent'.faults \in Nat /\ spent.faults <= spent'.faults
  BY OnceStep
<1>2. \A j \in Jobs : job[j].retries \in Nat
  BY SnoozeAssumption DEF IInv, TypeOK, JobType
<1>3. ASSUME NEW j \in Jobs, job'[j].retries = job[j].retries \/ job'[j].retries = 0
      PROVE  job'[j].retries <= spent'.faults
  BY <1>1, <1>2, <1>3 DEF RetriesAreFaults
<1>4. CASE job' = job
  BY <1>3, <1>4 DEF RetriesAreFaults
<1>5. ASSUME NEW kind \in Kinds, Send(kind) PROVE RetriesAreFaults'
  <2>1. CASE job' = job
    BY <1>4, <2>1
  <2>2. CASE \E j \in Jobs :
                 job' = [job EXCEPT ![j] = [state |-> "ready", key |-> kind, retries |-> 0]]
    BY <1>3, <2>2 DEF RetriesAreFaults, IInv, TypeOK
  <2> QED BY <1>5, <2>1, <2>2 DEF Send, EnqueueOwn, Enqueue
<1>6. ASSUME NEW w \in Workers, NEW j \in Jobs, Fetch(w, j) PROVE RetriesAreFaults'
  BY <1>3, <1>6 DEF Fetch, FetchJob, RetriesAreFaults, IInv, TypeOK, JobType
<1>7. ASSUME NEW j \in Jobs, job' = Completed(j) PROVE RetriesAreFaults'
  BY <1>3, <1>7 DEF Completed, FreeJob, RetriesAreFaults, IInv, TypeOK
<1>8. ASSUME NEW w \in Workers, WorkerThrows(w) PROVE RetriesAreFaults'
  <2>1. PICK j \in Jobs : j = worker[w].job
    BY <1>8 DEF WorkerThrows, IInv, QueueInv
  <2>2. spent'.faults = spent.faults + 1
    BY <1>8 DEF WorkerThrows, Fault, IInv, TypeOK
  <2>3. CASE job' = Completed(j)
    BY <1>7, <2>3
  <2>4. CASE job' = [job EXCEPT ![j] = [state |-> "ready", key |-> job[j].key,
                                        retries |-> job[j].retries + 1]]
    <3>1. job'[j].retries = job[j].retries + 1 /\ \A i \in Jobs \ {j} : job'[i] = job[i]
      BY <2>4 DEF IInv, TypeOK
    <3>2. job'[j].retries <= spent'.faults
      BY <1>1, <1>2, <2>2, <3>1 DEF RetriesAreFaults
    <3> QED BY <1>3, <3>1, <3>2 DEF RetriesAreFaults
  <2> QED BY <1>8, <2>1, <2>3, <2>4 DEF WorkerThrows, Failed
<1>9. ASSUME NEW w \in Workers, WorkerSteps(w) PROVE RetriesAreFaults'
  <2>1. CASE WorkerConfirms(w) \/ WorkerWakesMails(w)
    <3>1. worker[w].job \in Jobs
      BY <2>1 DEF WorkerConfirms, WorkerWakesMails, IInv, QueueInv
    <3> QED BY <1>7, <2>1, <3>1 DEF WorkerConfirms, WorkerWakesMails
  <2>2. CASE WorkerCallsProvider(w) \/ WorkerWakesThread(w)
    BY <1>4, <2>2 DEF WorkerCallsProvider, WorkerWakesThread
  <2> QED BY <1>6, <1>9, <2>1, <2>2 DEF WorkerSteps
<1>10. ASSUME NEW r \in Requests, RequestSteps(r) \/ RequestFails(r) PROVE RetriesAreFaults'
  <2>1. CASE BulkQueues(r)
    BY <1>5, <2>1 DEF BulkQueues, Kinds
  <2> QED
    BY <1>4, <1>10, <2>1 DEF RequestSteps, RequestFails, SavesThread, SavesMail, CallsProvider,
       Confirms, BulkSavesMails
<1>11. CASE MailSteps \/ MailFails \/ ScanSteps \/ ScanFails
  <2>1. CASE ScanQueues
    BY <1>5, <2>1 DEF ScanQueues, Kinds
  <2> QED
    BY <1>4, <1>11, <2>1 DEF ScanSteps, ScanLists, ScanFails, MailFails, MailSteps,
       MailSavesThread, MailSavesThreadAgain, MailListsSnoozed, MailWakesThread,
       MailWakesMails, MailTellsProvider
<1>12. CASE Begins \/ UNCHANGED vars \/ (\E kind \in Kinds : WindowCloses(kind))
              \/ (\E u \in Moments : Passes(u))
  BY <1>4, <1>12 DEF Begins, BeginSnooze, BeginUnsnooze, BulkSnooze, MailArrives, vars,
     WindowCloses, Passes
<1> QED
  BY <1>8, <1>9, <1>10, <1>11, <1>12 DEF Next, Faults

\* While the request runs, no job exists and no worker is busy.
LEMMA AloneMeansQuiet ==
  ASSUME IInv, Away, NEW r \in Requests, request[r].pc # "idle"
  PROVE  /\ passed = {}
         /\ \A j \in Jobs : job[j].state = "free"
         /\ \A w \in Workers : worker[w].pc = "idle"
<1>1. passed = {}
  BY DEF Away, RequestIsAlone
<1>2. \A j \in Jobs : job[j].state = "free"
  BY <1>1 DEF Away, IInv, DueInv
<1>3. \A w \in Workers : worker[w].pc = "idle"
  BY <1>2 DEF IInv, QueueInv
<1> QED BY <1>1, <1>2, <1>3

\* The request puts the thread to sleep, row first.
LEMMA RequestAway ==
  ASSUME IInv, SnoozedOnce, SnoozedOnce', Away, NEW r \in Requests,
         \/ RequestSteps(r) \/ RequestFails(r)
         \/ \E m \in Mails : BeginSnooze(r, m) \/ BeginUnsnooze(r, m)
         \/ BulkSnooze(r)
  PROVE  Away'
<1>1. /\ spent.snoozes \in Nat /\ spent.bulks = 0 /\ spent.unsnoozes = 0 /\ spent.mails = 0
      /\ spent.faults \in Nat /\ spent.snoozes <= 1
  BY SnoozeAssumption DEF SnoozedOnce, IInv, TypeOK
<1>2. request \in [Requests -> Request]
  BY DEF IInv, TypeOK
<1>3. ASSUME request[r].pc # "idle", RequestSteps(r) \/ RequestFails(r)
      PROVE  Away'
  <2>1. /\ request[r].pc \in {"thread", "mail", "provider", "confirm"} /\ request[r].until = 1
        /\ \A q \in Requests : request[q].pc # "idle" => q = r
        /\ spent.snoozes # 0 /\ passed = {}
    BY <1>3 DEF Away, RequestIsAlone
  <2>2. \A w \in Workers : worker[w].pc = "idle"
    BY <1>3, AloneMeansQuiet
  <2>3. UNCHANGED <<passed, arrival, job, worker>> /\ spent'.snoozes = spent.snoozes
    BY <1>3, <2>1
    DEF RequestSteps, SavesThread, SavesMail, CallsProvider, Confirms, BulkSavesMails,
        BulkQueues, RequestFails, Fault, IInv, TypeOK
  <2>4. \A q \in Requests : q # r => request'[q] = request[q]
    BY <1>2, <1>3
    DEF RequestSteps, SavesThread, SavesMail, CallsProvider, Confirms, BulkSavesMails,
        BulkQueues, RequestFails
  <2>5. CASE SavesThread(r)
    <3>1. until' = 1 /\ request'[r].pc = "mail" /\ request'[r].until = 1
      BY <1>2, <2>1, <2>5 DEF SavesThread, Request
    <3> QED BY <2>1, <2>2, <2>3, <2>4, <2>5, <3>1 DEF SavesThread, Away, RequestIsAlone
  <2>6. CASE SavesMail(r)
    <3>1. request'[r].pc = "provider" /\ request'[r].until = 1 /\ until' # 0
      BY <1>2, <2>1, <2>6 DEF SavesMail, Request, Away, RequestIsAlone
    <3> QED BY <2>1, <2>2, <2>3, <2>4, <2>6, <3>1 DEF SavesMail, Away, RequestIsAlone
  <2>7. CASE CallsProvider(r)
    <3>1. request'[r].pc = "confirm" /\ request'[r].until = 1 /\ until' # 0
      BY <1>2, <2>1, <2>7 DEF CallsProvider, Request, Away, RequestIsAlone
    <3> QED BY <2>1, <2>2, <2>3, <2>4, <2>7, <3>1 DEF CallsProvider, Away, RequestIsAlone
  <2>8. CASE Confirms(r)
    <3>1. until' = 1 /\ request'[r].pc = "idle"
      BY <1>2, <2>1, <2>8 DEF Confirms, IdleRequest
    <3> QED BY <2>1, <2>2, <2>3, <2>4, <2>8, <3>1 DEF Confirms, Away, RequestIsAlone
  <2>9. CASE RequestFails(r)
    <3>1. request'[r].pc = "idle"
      BY <1>2, <2>9 DEF RequestFails, IdleRequest
    <3>2. request[r].pc = "thread" => ~labelled /\ flagged = {}
      BY <1>3 DEF Away, RequestIsAlone
    <3>3. request[r].pc # "thread" => until # 0
      BY <1>3 DEF Away, RequestIsAlone
    <3> QED
      BY <2>1, <2>2, <2>3, <2>4, <2>9, <3>1, <3>2, <3>3 DEF RequestFails, Away, RequestIsAlone
  <2> QED
    BY <1>3, <2>1, <2>5, <2>6, <2>7, <2>8, <2>9
    DEF RequestSteps, BulkSavesMails, BulkQueues
<1>4. ASSUME NEW m \in Mails, BeginSnooze(r, m) PROVE Away'
  <2>1. spent' = [spent EXCEPT !.snoozes = @ + 1] /\ spent'.snoozes = spent.snoozes + 1
    BY <1>4 DEF BeginSnooze, Asks, IInv, TypeOK
  <2>2. spent.snoozes = 0
    BY <1>1, <2>1 DEF SnoozedOnce
  <2>3. /\ until = 0 /\ flagged = {} /\ ~labelled /\ passed = {}
        /\ \A q \in Requests : request[q].pc = "idle"
    BY <2>2 DEF Away, RequestIsAlone
  <2>4. /\ request'[r].pc = "thread" /\ request'[r].until = 1
        /\ \A q \in Requests : q # r => request'[q] = request[q]
    BY <1>1, <1>2, <1>4, <2>2 DEF BeginSnooze, Latest
  <2> QED
    BY <1>1, <1>4, <2>1, <2>2, <2>3, <2>4 DEF BeginSnooze, Away, RequestIsAlone
<1>5. ASSUME BulkSnooze(r) \/ \E m \in Mails : BeginUnsnooze(r, m) PROVE FALSE
  <2>1. Asks("bulks") \/ Asks("unsnoozes")
    BY <1>5 DEF BulkSnooze, BeginUnsnooze
  <2>2. spent'.bulks + spent'.unsnoozes + spent'.mails # 0
    BY <1>1, <2>1 DEF Asks, IInv, TypeOK
  <2> QED BY <2>2 DEF SnoozedOnce
<1>6. RequestSteps(r) \/ RequestFails(r) => request[r].pc # "idle"
  BY DEF RequestSteps, SavesThread, SavesMail, CallsProvider, Confirms, BulkSavesMails,
         BulkQueues, RequestFails
<1> QED
  BY <1>3, <1>4, <1>5, <1>6

\* A step that leaves the thread alone keeps it expected, as long as no job
\* goes and none of the other kind comes.
LEMMA QuietAway ==
  ASSUME IInv, Away, UNCHANGED <<until, flagged, labelled, request, arrival>>,
         \A j \in Jobs : job[j].state # "free" => job'[j].state # "free",
         \A j \in Jobs : job'[j].state # "free" => job[j].state # "free" \/ j[1] = "unsnooze",
         \A w \in Workers : worker'[w].pc \in {worker[w].pc, "idle", "provider"},
         passed' = passed, spent'.snoozes = spent.snoozes,
         spent.faults \in Nat, spent'.faults \in Nat, spent.faults <= spent'.faults
  PROVE  Away'
<1>1. spent.faults > RetryLimit => spent'.faults > RetryLimit
  BY SnoozeAssumption
<1>2. RequestIsAlone'
  BY DEF Away, RequestIsAlone
<1>3. \A j \in Jobs : job'[j].state # "free" => j[1] = "unsnooze"
  BY DEF Away
<1>4. flagged # {} => \/ until # 0
                      \/ \E j \in Jobs : job'[j].state # "free"
                      \/ spent'.faults > RetryLimit
  BY <1>1 DEF Away
<1> QED
  BY <1>2, <1>3, <1>4 DEF Away

\* The unsnooze job brings the thread home, provider first and mails last.
LEMMA WorkerAway ==
  ASSUME IInv, SnoozedOnce, Away, RetriesAreFaults, NEW w \in Workers,
         WorkerSteps(w) \/ WorkerThrows(w)
  PROVE  Away'
<1>1. spent.faults \in Nat /\ RetryLimit \in Nat
  BY SnoozeAssumption DEF IInv, TypeOK
<1>2. CASE \E j \in Jobs : Fetch(w, j)
  <2>1. PICK j \in Jobs : Fetch(w, j)
    BY <1>2
  <2>2. /\ job'[j].state = "active" /\ job[j].state = "ready"
        /\ \A i \in Jobs \ {j} : job'[i] = job[i]
    BY <2>1 DEF Fetch, FetchJob, IInv, TypeOK, JobType
  <2>3. \A v \in Workers : worker'[v].pc \in {worker[v].pc, "idle", "provider"}
    BY <2>1 DEF Fetch, IInv, TypeOK
  <2>4. UNCHANGED <<until, flagged, labelled, request, arrival, passed, spent>>
    BY <2>1 DEF Fetch, IInv, TypeOK
  <2> QED BY <1>1, <2>2, <2>3, <2>4, QuietAway
<1>3. ASSUME worker[w].pc # "idle"
      PROVE  /\ worker[w].job \in Jobs /\ job[worker[w].job].state = "active"
             /\ job[worker[w].job].key = "unsnooze"
             /\ \A r \in Requests : request[r].pc = "idle"
  <2>1. worker[w].job \in Jobs /\ job[worker[w].job].state = "active"
    BY <1>3 DEF IInv, QueueInv
  <2>2. job[worker[w].job].key = "unsnooze"
    BY <2>1 DEF Away, IInv, QueueInv
  <2> QED BY <1>3, <2>1, <2>2, AloneMeansQuiet
<1>4. CASE WorkerCallsProvider(w)
  <2>1. worker[w].pc # "idle"  BY <1>4 DEF WorkerCallsProvider
  <2>2. ~labelled'
    BY <1>3, <1>4, <2>1 DEF WorkerCallsProvider
  <2>3. \A v \in Workers : worker'[v].pc # "confirm"
    BY <1>3, <1>4, <2>1 DEF WorkerCallsProvider, Away, IInv, TypeOK, Worker
  <2> QED BY <1>3, <1>4, <2>1, <2>2, <2>3 DEF WorkerCallsProvider, Away, RequestIsAlone
<1>5. CASE WorkerWakesThread(w)
  <2>1. worker[w].pc = "row" /\ ~labelled
    BY <1>5 DEF WorkerWakesThread, Away
  <2>2. \A v \in Workers : worker'[v].pc # "confirm"
    BY <1>5 DEF WorkerWakesThread, Away, IInv, TypeOK, Worker
  <2>3. \E j \in Jobs : job'[j].state # "free"
    BY <1>3, <1>5, <2>1 DEF WorkerWakesThread
  <2> QED BY <1>3, <1>5, <2>1, <2>2, <2>3 DEF WorkerWakesThread, Away, RequestIsAlone
<1>6. CASE WorkerConfirms(w)
  BY <1>6 DEF WorkerConfirms, Away
<1>7. CASE WorkerWakesMails(w) \/ WorkerThrows(w)
  <2>1. /\ worker[w].pc # "idle"
        /\ worker' = [worker EXCEPT ![w] = IdleWorker]
        /\ job' = Completed(worker[w].job) \/ job' = Failed(worker[w].job)
        /\ UNCHANGED <<until, labelled, passed, request, arrival>>
        /\ spent'.snoozes = spent.snoozes
    BY <1>7 DEF WorkerWakesMails, WorkerThrows, Fault, IInv, TypeOK
  <2>2. PICK j \in Jobs : j = worker[w].job /\ job[j].state = "active"
    BY <1>3, <2>1
  <2>3. \A i \in Jobs : job'[i].state # "free" => job[i].state # "free"
    BY <2>1, <2>2 DEF Completed, Failed, FreeJob, IInv, TypeOK
  <2>4. /\ worker'[w].pc = "idle"
        /\ \A v \in Workers \ {w} : worker'[v] = worker[v]
    BY <2>1 DEF IdleWorker, IInv, TypeOK
  <2>5. flagged' # {} => \/ until' # 0
                         \/ \E i \in Jobs : job'[i].state # "free"
                         \/ spent'.faults > RetryLimit
    <3>1. CASE WorkerWakesMails(w)
      BY <3>1 DEF WorkerWakesMails
    <3>2. CASE WorkerThrows(w)
      <4>1. spent'.faults = spent.faults + 1 /\ job' = Failed(j)
        BY <2>2, <3>2 DEF WorkerThrows, Fault, IInv, TypeOK
      <4>2. CASE job[j].retries < RetryLimit
        <5>1. job'[j].state = "ready"
          BY <2>2, <4>1, <4>2 DEF Failed, IInv, TypeOK
        <5> QED BY <5>1
      <4>3. CASE ~(job[j].retries < RetryLimit)
        <5>1. job[j].retries \in Nat /\ job[j].retries <= spent.faults
          BY <1>1, <2>2 DEF RetriesAreFaults, IInv, TypeOK, JobType
        <5>2. spent'.faults > RetryLimit
          BY <1>1, <4>1, <4>3, <5>1
        <5> QED BY <5>2
      <4> QED BY <4>2, <4>3
    <3> QED BY <1>7, <3>1, <3>2
  <2>6. RequestIsAlone'
    BY <1>3, <2>1 DEF RequestIsAlone
  <2>7. spent'.snoozes = 0 => flagged' = {}
    BY <1>7, <2>1 DEF WorkerWakesMails, WorkerThrows, Away
  <2> QED BY <2>1, <2>3, <2>4, <2>5, <2>6, <2>7 DEF Away
<1> QED
  BY <1>2, <1>4, <1>5, <1>6, <1>7 DEF WorkerSteps

\* Nobody else touches the thread: no mail arrives, and the scan and the clock
\* write neither row, mails nor provider.
LEMMA RestAway ==
  ASSUME IInv, [Next]_vars, SnoozedOnce, SnoozedOnce', Away,
         \/ MailSteps \/ MailFails \/ MailArrives \/ ScanSteps \/ ScanFails
         \/ \E kind \in Kinds : WindowCloses(kind)
         \/ \E u \in Moments : Passes(u)
  PROVE  Away'
<1>1. spent.faults \in Nat /\ spent'.faults \in Nat /\ spent.faults <= spent'.faults
  BY OnceStep
<1>2. ~MailSteps /\ ~MailFails
  BY DEF Away, MailFails, MailSteps, MailSavesThread, MailSavesThreadAgain, MailListsSnoozed,
         MailWakesThread, MailWakesMails, MailTellsProvider
<1>3. ~MailArrives
  <2> SUFFICES ASSUME MailArrives PROVE FALSE
    OBVIOUS
  <2>1. spent.bulks = 0 /\ spent.unsnoozes = 0 /\ spent.mails = 0
    BY SnoozeAssumption DEF SnoozedOnce, IInv, TypeOK
  <2>2. spent'.bulks + spent'.unsnoozes + spent'.mails # 0
    BY <2>1 DEF MailArrives, IInv, TypeOK
  <2> QED BY <2>2 DEF SnoozedOnce
<1>4. CASE ScanQueues
  <2>1. "unsnooze" \in Kinds
    BY DEF Kinds
  <2>2. \A j \in Jobs : \/ job'[j] = job[j]
                        \/ /\ job[j].state = "free" /\ job'[j].state = "ready"
                           /\ j[1] = "unsnooze"
    BY <1>4, <2>1, SendEffect DEF ScanQueues, IInv
  <2> QED BY <1>1, <1>4, <2>2, QuietAway DEF ScanQueues
<1>5. CASE ScanLists \/ ScanFails \/ \E kind \in Kinds : WindowCloses(kind)
  <2>1. /\ UNCHANGED <<until, flagged, labelled, request, arrival, passed, job, worker>>
        /\ spent'.snoozes = spent.snoozes
    BY <1>5 DEF ScanLists, ScanFails, WindowCloses, Fault, IInv, TypeOK
  <2> QED BY <1>1, <2>1, QuietAway
<1>6. CASE \E u \in Moments : Passes(u)
  <2>1. PICK u \in Moments : Passes(u)
    BY <1>6
  <2>2. u = until /\ u = 1 /\ \A r \in Requests : request[r].until # 1
    BY <2>1 DEF Passes, Away
  <2>3. \A r \in Requests : request[r].pc = "idle"
    BY <2>2 DEF Away, RequestIsAlone
  <2>4. UNCHANGED <<until, flagged, labelled, request, arrival, listed, job, worker, spent>>
    BY <2>1 DEF Passes
  <2>5. spent.snoozes # 0
    BY <2>2 DEF Away
  <2>6. RequestIsAlone'
    BY <2>3, <2>4 DEF RequestIsAlone
  <2> QED BY <2>4, <2>5, <2>6 DEF Away
<1> QED
  BY <1>2, <1>3, <1>4, <1>5, <1>6 DEF ScanSteps

\* A thread snoozed once, by itself, is off the inbox at the provider only as
\* long as its row is snoozed, so that the scan finds it (snooze.processor.ts:
\* the job tells the provider before it writes the row); and its mails are
\* flagged no longer than the row or an unsnooze job lasts, unless the retries
\* were used up.
THEOREM NotLostWhileAway == Spec => []AwayIsExpected
<1>1. Init => HomeInv
  BY DEF Init, JobInit, FreeJob, IdleRequest, IdleArrival, IdleWorker, HomeInv,
         RetriesAreFaults, Away, RequestIsAlone
<1>2. IInv /\ HomeInv /\ [Next]_vars => HomeInv'
  <2> SUFFICES ASSUME IInv, HomeInv, [Next]_vars PROVE HomeInv'
    OBVIOUS
  <2>1. RetriesAreFaults'
    BY RetriesStep DEF HomeInv
  <2>2. ASSUME SnoozedOnce' PROVE Away'
    <3>1. SnoozedOnce /\ Away /\ RetriesAreFaults
      BY <2>2, OnceStep DEF HomeInv
    <3>2. CASE UNCHANGED vars
      <4>1. UNCHANGED <<until, flagged, labelled, passed, request, arrival, job, worker, spent>>
        BY <3>2 DEF vars
      <4>2. RequestIsAlone'
        BY <3>1, <4>1 DEF Away, RequestIsAlone
      <4> QED BY <3>1, <4>1, <4>2 DEF Away
    <3>3. CASE Next
      BY <2>2, <3>1, <3>3, RequestAway, WorkerAway, RestAway DEF Next, Begins, Faults
    <3> QED BY <3>2, <3>3
  <2> QED BY <2>1, <2>2 DEF HomeInv
<1>3. HomeInv => AwayIsExpected
  BY DEF HomeInv, Away, AwayIsExpected
<1> QED
  BY <1>1, <1>2, <1>3, SnoozeInvariant, PTL DEF Spec

(***************************************************************************)
(* A thread that is home stays home                                        *)
(***************************************************************************)

\* Row, mails and provider show no snooze, nobody is about to write one, and
\* the only jobs left are ones that end a snooze.
AtRest ==
    /\ AtHome
    /\ \A r \in Requests : request[r].pc = "idle"
    /\ arrival.pc = "idle"
    /\ \A j \in Jobs : job[j].state # "free" => j[1] = "unsnooze"

\* At rest only the scan, the jobs and the clock move.
LEMMA RestStep ==
  ASSUME AtRest, Next, ~Begins
  PROVE  \/ ScanSteps \/ ScanFails
         \/ \E w \in Workers : WorkerSteps(w) \/ WorkerThrows(w)
         \/ \E kind \in Kinds : WindowCloses(kind)
         \/ \E u \in Moments : Passes(u)
<1>1. \A r \in Requests : ~RequestSteps(r) /\ ~RequestFails(r)
  BY DEF AtRest, RequestSteps, RequestFails, SavesThread, SavesMail, CallsProvider, Confirms,
         BulkSavesMails, BulkQueues
<1>2. ~MailSteps /\ ~MailFails
  BY DEF AtRest, MailFails, MailSteps, MailSavesThread, MailSavesThreadAgain, MailListsSnoozed,
         MailWakesThread, MailWakesMails, MailTellsProvider
<1> QED BY <1>1, <1>2 DEF Next, Faults

\* A job at rest is an unsnooze job; whatever it does, fails or leaves to a
\* retry, the thread is home already.
LEMMA WorkerRests ==
  ASSUME IInv, AtRest, NEW w \in Workers, WorkerSteps(w) \/ WorkerThrows(w)
  PROVE  AtRest'
<1>1. UNCHANGED <<request, arrival>>
  BY DEF WorkerSteps, Fetch, WorkerCallsProvider, WorkerConfirms, WorkerWakesThread,
         WorkerWakesMails, WorkerThrows
<1>2. CASE \E j \in Jobs : Fetch(w, j)
  <2>1. PICK j \in Jobs : Fetch(w, j)
    BY <1>2
  <2>2. j[1] = "unsnooze" /\ \A i \in Jobs \ {j} : job'[i] = job[i]
    BY <2>1 DEF Fetch, FetchJob, AtRest, IInv, TypeOK
  <2>3. UNCHANGED <<until, flagged, labelled>>
    BY <2>1 DEF Fetch
  <2> QED BY <1>1, <2>2, <2>3 DEF AtRest, AtHome
<1>3. CASE worker[w].pc # "idle" /\ ~(\E j \in Jobs : Fetch(w, j))
  <2>1. PICK j \in Jobs : j = worker[w].job /\ job[j].state = "active"
    BY <1>3 DEF IInv, QueueInv
  <2>2. j[1] = "unsnooze" /\ job[j].key = "unsnooze"
    BY <2>1 DEF AtRest, IInv, QueueInv
  <2>3. AtHome'
    <3>1. until' = 0 /\ flagged' = {}
      BY <1>3
      DEF WorkerSteps, WorkerCallsProvider, WorkerConfirms, WorkerWakesThread,
          WorkerWakesMails, WorkerThrows, AtRest, AtHome
    <3>2. CASE WorkerCallsProvider(w)
      <4>1. labelled' = (job[worker[w].job].key = "snooze")
        BY <3>2 DEF WorkerCallsProvider
      <4>2. ~labelled'
        BY <2>1, <2>2, <4>1
      <4> QED BY <3>1, <4>2 DEF AtHome
    <3>3. CASE labelled' = labelled
      BY <3>1, <3>3 DEF AtRest, AtHome
    <3> QED
      BY <1>3, <3>2, <3>3
      DEF WorkerSteps, WorkerConfirms, WorkerWakesThread, WorkerWakesMails, WorkerThrows
  <2>4. \A i \in Jobs \ {j} : job'[i] = job[i]
    <3>1. job' = job \/ job' = Completed(j) \/ job' = Failed(j)
      BY <1>3, <2>1
      DEF WorkerSteps, WorkerCallsProvider, WorkerConfirms, WorkerWakesThread,
          WorkerWakesMails, WorkerThrows
    <3> QED BY <3>1 DEF Completed, Failed, IInv, TypeOK
  <2> QED BY <1>1, <2>2, <2>3, <2>4 DEF AtRest
<1> QED
  BY <1>2, <1>3
  DEF WorkerSteps, WorkerCallsProvider, WorkerConfirms, WorkerWakesThread, WorkerWakesMails,
      WorkerThrows

\* Once a thread is home in all three places, only a request or a new mail can
\* take it away again: not an unsnooze job queued twice, run late or retried, a
\* scan that listed the thread before it woke, or a failure among them.
THEOREM StaysHome == Spec => [][AtRest /\ ~Begins => AtRest']_vars
<1>1. ASSUME IInv, AtRest, Next, ~Begins PROVE AtRest'
  <2>1. CASE ScanQueues
    <3>1. "unsnooze" \in Kinds
      BY DEF Kinds
    <3>2. \A j \in Jobs : job'[j] = job[j] \/ j[1] = "unsnooze"
      BY <1>1, <2>1, <3>1, SendEffect DEF ScanQueues, IInv
    <3>3. UNCHANGED <<until, flagged, labelled, request, arrival>>
      BY <2>1 DEF ScanQueues
    <3> QED BY <1>1, <3>2, <3>3 DEF AtRest, AtHome
  <2>2. CASE \/ ScanLists \/ ScanFails
             \/ \E kind \in Kinds : WindowCloses(kind)
             \/ \E u \in Moments : Passes(u)
    <3>1. UNCHANGED <<until, flagged, labelled, request, arrival, job>>
      BY <2>2 DEF ScanLists, ScanFails, WindowCloses, Passes
    <3> QED BY <1>1, <3>1 DEF AtRest, AtHome
  <2> QED BY <1>1, <2>1, <2>2, RestStep, WorkerRests DEF ScanSteps
<1>2. IInv /\ [Next]_vars => [AtRest /\ ~Begins => AtRest']_vars
  BY <1>1
<1> QED BY <1>2, SnoozeInvariant, PTL DEF Spec

=============================================================================
