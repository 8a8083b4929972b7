-------------------------------- MODULE Snooze --------------------------------
(***************************************************************************)
(* The snooze of one thread: the user's requests, the two jobs that tell   *)
(* the provider, the scan for snoozes that have run out, and the new mail  *)
(* that ends a snooze.  Every database statement, provider call and queue  *)
(* call is a step of its own.                                              *)
(*                                                                         *)
(* isSnoozed and snoozeUntil are always written together, so until is both *)
(* columns of the email_threads row.  Snoozes are numbered, and each lasts *)
(* until the moment of its own number; 0 is no snooze.                     *)
(* syncStatus and the columns of the archive decide nothing here           *)
(* (ThreadSync).                                                           *)
(***************************************************************************)
EXTENDS Naturals, FiniteSets

CONSTANTS
    Mails,        \* the thread's mails
    Requests,     \* snooze and unsnooze requests in flight at once (bound)
    Workers,      \* worker processes
    Depth,        \* jobs for the thread in each of the two queues (bound)
    NoJob,        \* no job
    RetryLimit,   \* retryLimit of both jobs
    MaxRequests,  \* requests made (bound)
    MaxNewMails,  \* new mails in the thread (bound)
    MaxFaults     \* failed calls and crashes (bound)

ASSUME SnoozeAssumption ==
    /\ NoJob \notin {"snooze", "unsnooze"} \X (1..Depth)
    /\ {Depth, RetryLimit, MaxRequests, MaxNewMails, MaxFaults} \subseteq Nat

VARIABLES
    until,     \* the row's snoozeUntil, 0 when it is not snoozed
    flagged,   \* mails with isSnoozed
    labelled,  \* the provider: the thread has the snooze label and is off the inbox
    passed,    \* moments that have passed
    request,   \* the requests in progress
    arrival,   \* the mail being stored
    listed,    \* the scan has listed the thread and not yet queued its job
    job,       \* jobs of the queues snooze-thread-provider-sync, unsnooze-thread
    window,    \* the kinds whose singletonSeconds window is open
    worker,    \* the jobs' handlers
    spent      \* how much of each bound is used up

vars == <<until, flagged, labelled, passed, request, arrival, listed, job, window,
          worker, spent>>

Kinds == {"snooze", "unsnooze"}

Jobs == Kinds \X (1..Depth)

INSTANCE JobQueue WITH Keys <- Kinds, NoKey <- "none"

(***************************************************************************)
(* Types                                                                   *)
(***************************************************************************)

Moments == 0..MaxRequests

Request == [pc: {"idle", "thread", "mail", "provider", "confirm", "mails", "queue"},
            until: Moments, mails: SUBSET Mails]

IdleRequest == [pc |-> "idle", until |-> 0, mails |-> {}]

Arrival == [pc: {"idle", "save", "saveAgain", "list", "row", "mails", "provider"},
            copy: Moments, found: BOOLEAN]

IdleArrival == [pc |-> "idle", copy |-> 0, found |-> FALSE]

Worker == [pc: {"idle", "provider", "row", "mails", "confirm"}, job: Jobs \cup {NoJob}]

IdleWorker == [pc |-> "idle", job |-> NoJob]

Init ==
    /\ until = 0
    /\ flagged = {}
    /\ labelled = FALSE
    /\ passed = {}
    /\ request = [r \in Requests |-> IdleRequest]
    /\ arrival = IdleArrival
    /\ listed = FALSE
    /\ JobInit
    /\ window = {}
    /\ worker = [w \in Workers |-> IdleWorker]
    /\ spent = [snoozes |-> 0, bulks |-> 0, unsnoozes |-> 0, mails |-> 0, faults |-> 0]

Fault ==
    /\ spent.faults < MaxFaults
    /\ spent' = [spent EXCEPT !.faults = @ + 1]

\* A new job takes a slot of its own queue.
EnqueueOwn(kind) ==
    /\ Enqueue(kind)
    /\ \A j \in Jobs : j[1] # kind => job'[j] = job[j]

\* boss.send with a singletonKey of the thread: a second job of the kind
\* within five minutes is dropped.
Send(kind) ==
    /\ IF kind \in window THEN UNCHANGED job ELSE EnqueueOwn(kind)
    /\ window' = window \cup {kind}

WindowCloses(kind) ==
    /\ kind \in window
    /\ window' = window \ {kind}
    /\ UNCHANGED <<until, flagged, labelled, passed, request, arrival, listed, job,
                   worker, spent>>

\* One more request of a kind.
Asks(kind) ==
    /\ spent.snoozes + spent.bulks + spent.unsnoozes < MaxRequests
    /\ spent' = [spent EXCEPT ![kind] = @ + 1]

\* The number of the latest snooze.
Latest == spent.snoozes + spent.bulks

\* The moment in the row, or in a copy of it, passes; what nobody holds any more
\* may pass unseen.  A snooze outlasts the request for it.
Passes(u) ==
    /\ u \in {until, arrival.copy} \ (passed \cup {0})
    /\ \A r \in Requests : request[r].until # u
    /\ passed' = passed \cup {u}
    /\ UNCHANGED <<until, flagged, labelled, request, arrival, listed, job, window,
                   worker, spent>>

(***************************************************************************)
(* snoozeEmail, unsnoozeEmail                                              *)
(***************************************************************************)

BeginSnooze(r, m) ==
    /\ request[r].pc = "idle"
    /\ Asks("snoozes")
    /\ request' = [request EXCEPT ![r] = [pc |-> "thread", until |-> Latest + 1,
                                          mails |-> {m}]]
    /\ UNCHANGED <<until, flagged, labelled, passed, arrival, listed, job, window, worker>>

BeginUnsnooze(r, m) ==
    /\ request[r].pc = "idle"
    /\ Asks("unsnoozes")
    /\ request' = [request EXCEPT ![r] = [pc |-> "thread", until |-> 0, mails |-> {m}]]
    /\ UNCHANGED <<until, flagged, labelled, passed, arrival, listed, job, window, worker>>

SavesThread(r) ==
    /\ request[r].pc = "thread"
    /\ until' = request[r].until
    /\ request' = [request EXCEPT ![r].pc = "mail"]
    /\ UNCHANGED <<flagged, labelled, passed, arrival, listed, job, window, worker, spent>>

\* Only the mail the user chose is written.
SavesMail(r) ==
    /\ request[r].pc = "mail"
    /\ flagged' = IF request[r].until # 0 THEN flagged \cup request[r].mails
                                          ELSE flagged \ request[r].mails
    /\ request' = [request EXCEPT ![r].pc = "provider"]
    /\ UNCHANGED <<until, labelled, passed, arrival, listed, job, window, worker, spent>>

CallsProvider(r) ==
    /\ request[r].pc = "provider"
    /\ labelled' = (request[r].until # 0)
    /\ request' = [request EXCEPT ![r].pc = "confirm"]
    /\ UNCHANGED <<until, flagged, passed, arrival, listed, job, window, worker, spent>>

\* The entity is saved once more, its snooze as this request set it.
Confirms(r) ==
    /\ request[r].pc = "confirm"
    /\ until' = request[r].until
    /\ request' = [request EXCEPT ![r] = IdleRequest]
    /\ UNCHANGED <<flagged, labelled, passed, arrival, listed, job, window, worker, spent>>

(***************************************************************************)
(* bulkSnoozeEmails                                                        *)
(***************************************************************************)

BulkSnooze(r) ==
    /\ request[r].pc = "idle"
    /\ Asks("bulks")
    /\ until' = Latest + 1
    /\ request' = [request EXCEPT ![r] = [pc |-> "mails", until |-> Latest + 1,
                                          mails |-> Mails]]
    /\ UNCHANGED <<flagged, labelled, passed, arrival, listed, job, window, worker>>

BulkSavesMails(r) ==
    /\ request[r].pc = "mails"
    /\ flagged' = flagged \cup request[r].mails
    /\ request' = [request EXCEPT ![r].pc = "queue"]
    /\ UNCHANGED <<until, labelled, passed, arrival, listed, job, window, worker, spent>>

BulkQueues(r) ==
    /\ request[r].pc = "queue"
    /\ Send("snooze")
    /\ request' = [request EXCEPT ![r] = IdleRequest]
    /\ UNCHANGED <<until, flagged, labelled, passed, arrival, listed, worker, spent>>

\* A statement or the queue fails, the provider call fails and is only logged,
\* or the server dies.
RequestFails(r) ==
    /\ request[r].pc # "idle"
    /\ Fault
    /\ request' = [request EXCEPT ![r] = IdleRequest]
    /\ UNCHANGED <<until, flagged, labelled, passed, arrival, listed, job, window, worker>>

(***************************************************************************)
(* createEmail, as far as it touches the snooze                            *)
(***************************************************************************)

\* getOrCreateEmailThread reads the thread ...
MailArrives ==
    /\ arrival.pc = "idle"
    /\ spent.mails < MaxNewMails
    /\ spent' = [spent EXCEPT !.mails = @ + 1]
    /\ arrival' = [pc |-> "save", copy |-> until, found |-> FALSE]
    /\ UNCHANGED <<until, flagged, labelled, passed, request, listed, job, window, worker>>

\* ... and saves it, if it has something to change in it.
MailSavesThread ==
    /\ arrival.pc = "save"
    /\ until' \in {until, arrival.copy}
    /\ arrival' = [arrival EXCEPT !.pc = "saveAgain"]
    /\ UNCHANGED <<flagged, labelled, passed, request, listed, job, window, worker, spent>>

\* The same entity is saved with its processing flags.  A blocked sender's
\* mail and an inactive user's stop here.
MailSavesThreadAgain ==
    /\ arrival.pc = "saveAgain"
    /\ until' = arrival.copy
    /\ arrival' \in {IdleArrival, [arrival EXCEPT !.pc = "list"]}
    /\ UNCHANGED <<flagged, labelled, passed, request, listed, job, window, worker, spent>>

\* cancelThreadSnoozeIfNeeded goes by the thread as it was read and by the
\* mails as they are now.
MailListsSnoozed ==
    /\ arrival.pc = "list"
    /\ arrival' = CASE arrival.copy # 0 ->
                         [pc |-> "row", copy |-> 0, found |-> flagged # {}]
                    [] arrival.copy = 0 /\ flagged # {} ->
                         [pc |-> "mails", copy |-> 0, found |-> FALSE]
                    [] OTHER -> IdleArrival
    /\ UNCHANGED <<until, flagged, labelled, passed, request, listed, job, window, worker,
                   spent>>

MailWakesThread ==
    /\ arrival.pc = "row"
    /\ until' = 0
    /\ arrival' = IF arrival.found THEN [IdleArrival EXCEPT !.pc = "mails"] ELSE IdleArrival
    /\ UNCHANGED <<flagged, labelled, passed, request, listed, job, window, worker, spent>>

MailWakesMails ==
    /\ arrival.pc = "mails"
    /\ flagged' = {}
    /\ arrival' = [arrival EXCEPT !.pc = "provider"]
    /\ UNCHANGED <<until, labelled, passed, request, listed, job, window, worker, spent>>

MailTellsProvider ==
    /\ arrival.pc = "provider"
    /\ labelled' = FALSE
    /\ arrival' = IdleArrival
    /\ UNCHANGED <<until, flagged, passed, request, listed, job, window, worker, spent>>

MailFails ==
    /\ arrival.pc # "idle"
    /\ Fault
    /\ arrival' = IdleArrival
    /\ UNCHANGED <<until, flagged, labelled, passed, request, listed, job, window, worker>>

(***************************************************************************)
(* check-expired-snoozes, every minute                                     *)
(***************************************************************************)

\* Mutant: the scan lists every snoozed thread.
ScanListsAny ==
    /\ ~listed
    /\ until # 0
    /\ listed' = TRUE
    /\ UNCHANGED <<until, flagged, labelled, passed, request, arrival, job, window, worker,
                   spent>>

\* Mutant: the scan takes only threads whose mails are flagged.
ScanListsFlagged ==
    /\ ~listed
    /\ until \in passed /\ flagged # {}
    /\ listed' = TRUE
    /\ UNCHANGED <<until, flagged, labelled, passed, request, arrival, job, window, worker,
                   spent>>

ScanLists ==
    /\ ~listed
    /\ until \in passed
    /\ listed' = TRUE
    /\ UNCHANGED <<until, flagged, labelled, passed, request, arrival, job, window, worker,
                   spent>>

ScanQueues ==
    /\ listed
    /\ Send("unsnooze")
    /\ listed' = FALSE
    /\ UNCHANGED <<until, flagged, labelled, passed, request, arrival, worker, spent>>

\* The queue refuses the job, which is logged, or the scan dies.
ScanFails ==
    /\ listed
    /\ Fault
    /\ listed' = FALSE
    /\ UNCHANGED <<until, flagged, labelled, passed, request, arrival, job, window, worker>>

(***************************************************************************)
(* The two jobs                                                            *)
(***************************************************************************)

Fetch(w, j) ==
    /\ worker[w].pc = "idle"
    /\ FetchJob(j)
    /\ worker' = [worker EXCEPT ![w] = [pc |-> "provider", job |-> j]]
    /\ UNCHANGED <<until, flagged, labelled, passed, request, arrival, listed, window, spent>>

\* Neither job looks at the row before it calls the provider.
WorkerCallsProvider(w) ==
    LET kind == job[worker[w].job].key
    IN  /\ worker[w].pc = "provider"
        /\ labelled' = (kind = "snooze")
        /\ worker' = [worker EXCEPT ![w].pc = IF kind = "snooze" THEN "confirm" ELSE "row"]
        /\ UNCHANGED <<until, flagged, passed, request, arrival, listed, job, window, spent>>

\* The snooze job writes syncStatus, no more.
WorkerConfirms(w) ==
    /\ worker[w].pc = "confirm"
    /\ job' = Completed(worker[w].job)
    /\ worker' = [worker EXCEPT ![w] = IdleWorker]
    /\ UNCHANGED <<until, flagged, labelled, passed, request, arrival, listed, window, spent>>

WorkerWakesThread(w) ==
    /\ worker[w].pc = "row"
    /\ until' = 0
    /\ worker' = [worker EXCEPT ![w].pc = "mails"]
    /\ UNCHANGED <<flagged, labelled, passed, request, arrival, listed, job, window, spent>>

WorkerWakesMails(w) ==
    /\ worker[w].pc = "mails"
    /\ flagged' = {}
    /\ job' = Completed(worker[w].job)
    /\ worker' = [worker EXCEPT ![w] = IdleWorker]
    /\ UNCHANGED <<until, labelled, passed, request, arrival, listed, window, spent>>

\* Mutant: the handler logs its error and returns.
WorkerGivesUp(w) ==
    /\ worker[w].pc # "idle"
    /\ Fault
    /\ job' = Completed(worker[w].job)
    /\ worker' = [worker EXCEPT ![w] = IdleWorker]
    /\ UNCHANGED <<until, flagged, labelled, passed, request, arrival, listed, window>>

WorkerThrows(w) ==
    /\ worker[w].pc # "idle"
    /\ Fault
    /\ job' = Failed(worker[w].job)
    /\ worker' = [worker EXCEPT ![w] = IdleWorker]
    /\ UNCHANGED <<until, flagged, labelled, passed, request, arrival, listed, window>>

(***************************************************************************)
(* Specification                                                           *)
(***************************************************************************)

RequestSteps(r) ==
    \/ SavesThread(r) \/ SavesMail(r) \/ CallsProvider(r) \/ Confirms(r)
    \/ BulkSavesMails(r) \/ BulkQueues(r)

MailSteps ==
    \/ MailSavesThread \/ MailSavesThreadAgain \/ MailListsSnoozed \/ MailWakesThread
    \/ MailWakesMails \/ MailTellsProvider

ScanSteps == ScanLists \/ ScanQueues

WorkerSteps(w) ==
    \/ \E j \in Jobs : Fetch(w, j)
    \/ WorkerCallsProvider(w) \/ WorkerConfirms(w) \/ WorkerWakesThread(w)
    \/ WorkerWakesMails(w)

Begins ==
    \/ \E r \in Requests, m \in Mails : BeginSnooze(r, m) \/ BeginUnsnooze(r, m)
    \/ \E r \in Requests : BulkSnooze(r)
    \/ MailArrives

Faults ==
    \/ \E r \in Requests : RequestFails(r)
    \/ MailFails \/ ScanFails
    \/ \E w \in Workers : WorkerThrows(w)

Next ==
    \/ \E r \in Requests : RequestSteps(r)
    \/ MailSteps \/ ScanSteps
    \/ \E w \in Workers : WorkerSteps(w)
    \/ \E kind \in Kinds : WindowCloses(kind)
    \/ \E u \in Moments : Passes(u)
    \/ Begins \/ Faults

Spec == Init /\ [][Next]_vars

\* Awaits resolve, workers poll, the scan runs every minute, time goes by.
FairSpec ==
    /\ Spec
    /\ \A r \in Requests : WF_vars(RequestSteps(r))
    /\ WF_vars(MailSteps)
    /\ WF_vars(ScanSteps)
    /\ \A w \in Workers : WF_vars(WorkerSteps(w))
    /\ \A kind \in Kinds : WF_vars(WindowCloses(kind))
    /\ \A u \in Moments : WF_vars(Passes(u))

(***************************************************************************)
(* Properties                                                              *)
(***************************************************************************)

TypeOK ==
    /\ until \in Moments
    /\ flagged \subseteq Mails
    /\ labelled \in BOOLEAN
    /\ passed \subseteq Moments
    /\ request \in [Requests -> Request]
    /\ arrival \in Arrival
    /\ listed \in BOOLEAN
    /\ job \in [Jobs -> JobType]
    /\ window \subseteq Kinds
    /\ worker \in [Workers -> Worker]
    /\ spent \in [snoozes: 0..MaxRequests, bulks: 0..MaxRequests,
                  unsnoozes: 0..MaxRequests, mails: 0..MaxNewMails,
                  faults: 0..MaxFaults]

\* The jobs do not look at the row again, yet they end a snooze, here or at the
\* provider, only when the thread has had a snooze that ran out.
EndsOnlyWhenDue ==
    [][(\E w \in Workers : WorkerSteps(w)) /\ (until' # until \/ (labelled /\ ~labelled'))
          => passed # {}]_vars

\* A snooze that has run out ends, however often a request or a new mail
\* brings it back with an entity read before it ended.
SnoozeEnds == <>[](until \notin passed)

\* A thread that was snoozed once, by itself, and left alone comes back for
\* good: row, mails and provider, whatever fails on the way.
AtHome == until = 0 /\ flagged = {} /\ ~labelled

SnoozedOnce == spent.snoozes <= 1 /\ spent.bulks + spent.unsnoozes + spent.mails = 0

ComesHome == []SnoozedOnce => <>[]AtHome

=============================================================================
