-------------------------- MODULE PriorityRefinement --------------------------
(***************************************************************************)
(* The priority of one thread: createEmail announces each new mail, a      *)
(* buffer in memory collects mails into refine-priority jobs, handlers     *)
(* score the thread by rule, local model, incremental check or LLM, and a  *)
(* cron job looks for threads that were left without a score or with the   *)
(* "Calculating..." flag on.  Every database statement, LLM call and queue *)
(* call that others may run into is a step of its own; an entity that is    *)
(* saved writes back every column it was read with.                        *)
(*                                                                         *)
(* Mails are numbered as they are received.  calculatedAt lies between two *)
(* of them, so dated is the last mail received before it.                  *)
(***************************************************************************)
EXTENDS Naturals, FiniteSets, FiniteSetsExt, Bags

CONSTANTS
    Workers,     \* handlers of the two refine queues
    MaxMails,    \* mails of the thread (bound)
    MaxRetries,  \* MAX_PRIORITY_RETRIES
    RetryLimit,  \* retries pg-boss grants a job after its first run
    MaxFaults    \* failed calls and crashes (bound)

ASSUME PriorityAssumption ==
    {MaxMails, MaxRetries, RetryLimit, MaxFaults} \subseteq Nat

VARIABLES
    row,       \* the email_threads row
    received,  \* how many mails the provider has received
    stored,    \* mails with an emails row
    arrival,   \* the mail createEmail is storing
    buffer,    \* priorityBatchBuffer: mails not yet sent to the queue
    jobs,      \* the refine jobs that wait, a bag
    worker,    \* the handlers
    detector,  \* what the stuck-priority cron does next
    crowded,   \* older rows fill all the scans of the cron take
    faults     \* failed calls and crashes so far

vars == <<row, received, stored, arrival, buffer, jobs, worker, detector, crowded, faults>>

(***************************************************************************)
(* Types                                                                   *)
(***************************************************************************)

Mails == 1..MaxMails

\* scored: priorityScore and the breakdown of priorityExplanation, which are
\* always written together.
Row == [processing: BOOLEAN, scored: BOOLEAN, dated: 0..MaxMails, retries: Nat]

FreshRow == [processing |-> FALSE, scored |-> FALSE, dated |-> 0, retries |-> 0]

Arrival == [pc: {"idle", "found", "save", "mail", "queue"}, mail: 0..MaxMails, copy: Row,
            deferred: BOOLEAN]

IdleArrival == [pc |-> "idle", mail |-> 0, copy |-> FreshRow, deferred |-> FALSE]

Job == [kind: {"single", "batch"}, mails: SUBSET Mails, tries: 0..RetryLimit]

NoJob == [kind |-> "single", mails |-> {}, tries |-> 0]

\* mails: still to be handled; scored: the thread had a score when it was read;
\* again: fallbacks to be sent again.
Worker == [pc: {"idle", "read", "cheap", "check", "lock", "analyze", "unlock", "requeue",
                "send", "count", "cleanup"},
           job: Job, mails: SUBSET Mails, scored: BOOLEAN, again: SUBSET Mails]

IdleWorker == [pc |-> "idle", job |-> NoJob, mails |-> {}, scored |-> FALSE, again |-> {}]

Init ==
    /\ row = FreshRow
    /\ received = 0
    /\ stored = {}
    /\ arrival = IdleArrival
    /\ buffer = {}
    /\ jobs = EmptyBag
    /\ worker = [w \in Workers |-> IdleWorker]
    /\ detector = "idle"
    /\ crowded = FALSE
    /\ faults = 0

Fault ==
    /\ faults < MaxFaults
    /\ faults' = faults + 1

Unlocked(r) == [r EXCEPT !.processing = FALSE]

\* A score with its breakdown, as rule, local model and LLM write it.
Scored(r) ==
    [r EXCEPT !.scored = TRUE, !.dated = received, !.processing = FALSE]

\* boss.send never looks for an equal job.
Send(kind, mails) ==
    jobs' = jobs (+) SetToBag({[kind |-> kind, mails |-> mails, tries |-> 0]})

\* Mutant: the queue does not count retries against its limit.
FailedUncounted(j) == jobs (+) SetToBag({[j EXCEPT !.tries = @ + 1]})

\* The queue after job j threw or ran out of time.
Failed(j) ==
    IF j.tries < RetryLimit THEN jobs (+) SetToBag({[j EXCEPT !.tries = @ + 1]}) ELSE jobs

(***************************************************************************)
(* createEmail and the buffer                                              *)
(***************************************************************************)

Receives ==
    /\ received < MaxMails
    /\ received' = received + 1
    /\ UNCHANGED <<row, stored, arrival, buffer, jobs, worker, detector, faults, crowded>>

\* getOrCreateEmailThread reads the thread ...
ArrivalFinds(m) ==
    /\ arrival.pc = "idle" /\ m \in (1..received) \ stored
    /\ arrival' = [IdleArrival EXCEPT !.pc = "found", !.mail = m, !.copy = row]
    /\ UNCHANGED <<row, received, stored, buffer, jobs, worker, detector, faults, crowded>>

\* ... and saves it if its labels have changed at the provider.
ArrivalRewrites ==
    /\ arrival.pc = "found"
    /\ row' = arrival.copy
    /\ arrival' = [arrival EXCEPT !.pc = "save"]
    /\ UNCHANGED <<received, stored, buffer, jobs, worker, detector, faults, crowded>>

\* The user is active and within the volume limit, or the AI work is deferred.
ArrivalSaves(deferred) ==
    /\ arrival.pc \in {"found", "save"}
    /\ row' = [arrival.copy EXCEPT !.processing = ~deferred]
    /\ arrival' = [arrival EXCEPT !.pc = "mail", !.copy = FreshRow, !.deferred = deferred]
    /\ UNCHANGED <<received, stored, buffer, jobs, worker, detector, faults, crowded>>

ArrivalStores ==
    /\ arrival.pc = "mail"
    /\ stored' = stored \cup {arrival.mail}
    /\ arrival' = IF arrival.deferred THEN IdleArrival ELSE [arrival EXCEPT !.pc = "queue"]
    /\ UNCHANGED <<row, received, buffer, jobs, worker, detector, faults, crowded>>

\* What updateThreadAfterSave writes decides nothing here.
ArrivalQueues ==
    /\ arrival.pc = "queue"
    /\ buffer' = buffer \cup {arrival.mail}
    /\ arrival' = IdleArrival
    /\ UNCHANGED <<row, received, stored, jobs, worker, detector, faults, crowded>>

\* The process dies or a statement fails; a mail not stored is synced again.
ArrivalFails ==
    /\ arrival.pc # "idle"
    /\ Fault
    /\ arrival' = IdleArrival
    /\ UNCHANGED <<row, received, stored, buffer, jobs, worker, detector, crowded>>

\* The timer, the tenth mail or the shutdown.  The buffer is one user's, so a
\* single mail of this thread may travel in a batch.
Flush(kind) ==
    /\ buffer # {}
    /\ kind = "single" => Cardinality(buffer) = 1
    /\ Send(kind, buffer)
    /\ buffer' = {}
    /\ UNCHANGED <<row, received, stored, arrival, worker, detector, faults, crowded>>

\* The buffer is emptied and the send fails, which is only logged; or the
\* process dies without its shutdown hook.
FlushLost ==
    /\ buffer # {}
    /\ Fault
    /\ buffer' = {}
    /\ UNCHANGED <<row, received, stored, arrival, jobs, worker, detector, crowded>>

(***************************************************************************)
(* handleRefinePriorityJob and handleRefinePriorityBatchJob                *)
(***************************************************************************)

At(w, pc) == worker[w].pc = pc

Is(w, kind) == worker[w].job.kind = kind

Goto(w, pc) == worker' = [worker EXCEPT ![w].pc = pc]

Done(w) == worker' = [worker EXCEPT ![w] = IdleWorker]

\* The handler goes on at pc with the mails that are left, or returns.
GoOn(w, pc, mails) ==
    worker' = [worker EXCEPT ![w] = IF mails = {} THEN IdleWorker
                                                  ELSE [@ EXCEPT !.pc = pc, !.mails = mails]]

Fetch(w, j) ==
    /\ At(w, "idle") /\ BagIn(j, jobs)
    /\ jobs' = jobs (-) SetToBag({j})
    /\ worker' = [worker EXCEPT ![w] = [IdleWorker EXCEPT !.pc = "read", !.job = j,
                                                          !.mails = j.mails]]
    /\ UNCHANGED <<row, received, stored, arrival, buffer, detector, faults, crowded>>

\* shouldSkipPriorityRecalculation, as far as the priority decides it.
Current ==
    /\ row.scored /\ ~row.processing
    /\ \A m \in stored : m <= row.dated

SkipsCurrent(w) ==
    /\ At(w, "read") /\ Current
    /\ Done(w)
    /\ UNCHANGED <<row, received, stored, arrival, buffer, jobs, detector, faults, crowded>>

\* A thread whose category was never resolved is not skipped either.
Reads(w) ==
    /\ At(w, "read")
    /\ worker' = [worker EXCEPT ![w].pc = "cheap", ![w].scored = row.scored]
    /\ UNCHANGED <<row, received, stored, arrival, buffer, jobs, detector, faults, crowded>>

\* gateOnAiCapacity, on the single path only.
IsGated(w) ==
    /\ At(w, "cheap") /\ Is(w, "single")
    /\ row' = Unlocked(row)
    /\ Done(w)
    /\ UNCHANGED <<received, stored, arrival, buffer, jobs, detector, faults, crowded>>

\* A rule or the local model scores some of the mails.
ScoresCheaply(w, handled) ==
    /\ At(w, "cheap") /\ handled # {}
    /\ row' = Scored(row)
    /\ GoOn(w, "lock", worker[w].mails \ handled)
    /\ UNCHANGED <<received, stored, arrival, buffer, jobs, detector, faults, crowded>>

\* The single path asks for an incremental check before it locks the thread,
\* the batch path after.
NeedsAnalysis(w) ==
    /\ At(w, "cheap")
    /\ Goto(w, IF Is(w, "single") /\ worker[w].scored THEN "check" ELSE "lock")
    /\ UNCHANGED <<row, received, stored, arrival, buffer, jobs, detector, faults, crowded>>

\* Only the batch path reads the thread again.  A scored thread stays scored
\* under it but for a stale save, so the read is part of the step.
Locks(w) ==
    /\ At(w, "lock")
    /\ row' = [row EXCEPT !.processing = TRUE]
    /\ worker' = [worker EXCEPT ![w].pc = IF Is(w, "single") THEN "analyze" ELSE "check",
                                ![w].scored = ~Is(w, "single") /\ row.scored]
    /\ UNCHANGED <<received, stored, arrival, buffer, jobs, detector, faults, crowded>>

\* The incremental check finds nothing that calls for a new analysis.  The flag
\* is cleared only together with a changed urgency.
HandlesIncrementally(w, handled, urgency) ==
    /\ At(w, "check") /\ worker[w].scored /\ handled # {}
    /\ IF urgency THEN row' = Unlocked(row) ELSE UNCHANGED row
    /\ IF Is(w, "single")
       THEN Done(w)
       ELSE worker' = [worker EXCEPT
                ![w].pc = IF handled = worker[w].mails THEN "unlock" ELSE "analyze",
                ![w].mails = @ \ handled]
    /\ UNCHANGED <<received, stored, arrival, buffer, jobs, detector, faults, crowded>>

NeedsFullAnalysis(w) ==
    /\ At(w, "check")
    /\ Goto(w, IF Is(w, "single") THEN "lock" ELSE "analyze")
    /\ UNCHANGED <<row, received, stored, arrival, buffer, jobs, detector, faults, crowded>>

\* applyPriorityResult.
Persists(w) ==
    /\ At(w, "analyze") /\ Is(w, "single")
    /\ row' = Scored(row)
    /\ Done(w)
    /\ UNCHANGED <<received, stored, arrival, buffer, jobs, detector, faults, crowded>>

\* applyBatchResults: what is neither scored nor a fallback was preserved by the
\* triage, which looks only at threads analysed before.
AppliesResults(w, scored, again) ==
    /\ At(w, "analyze") /\ Is(w, "batch")
    /\ scored \cap again = {}
    /\ ~worker[w].scored => scored \cup again = worker[w].mails
    /\ IF scored # {} THEN row' = Scored(row) ELSE UNCHANGED row
    /\ worker' = [worker EXCEPT ![w] =
            IF scored = worker[w].mails THEN IdleWorker
            ELSE [@ EXCEPT !.pc = "unlock", !.mails = {}, !.scored = FALSE, !.again = again]]
    /\ UNCHANGED <<received, stored, arrival, buffer, jobs, detector, faults, crowded>>

\* The update throws for some of the mails: they are unlocked, and no fallbacks.
ApplyFails(w, scored) ==
    /\ At(w, "analyze") /\ Is(w, "batch") /\ scored # worker[w].mails
    /\ Fault
    /\ IF scored # {} THEN row' = Scored(row) ELSE UNCHANGED row
    /\ worker' = [worker EXCEPT ![w].pc = "unlock", ![w].mails = {}, ![w].scored = FALSE]
    /\ UNCHANGED <<received, stored, arrival, buffer, jobs, detector, crowded>>

\* unlockIncrementallyHandledThreads, unlockUnwrittenThreads.
Unlocks(w) ==
    /\ At(w, "unlock")
    /\ row' = Unlocked(row)
    /\ IF worker[w].again = {} THEN Done(w) ELSE Goto(w, "requeue")
    /\ UNCHANGED <<received, stored, arrival, buffer, jobs, detector, faults, crowded>>

\* requeueFallbackEmails: one count for all mails of the thread ...
ReadsRetries(w) ==
    /\ At(w, "requeue")
    /\ IF row.retries < MaxRetries THEN Goto(w, "send") ELSE Done(w)
    /\ UNCHANGED <<row, received, stored, arrival, buffer, jobs, detector, faults, crowded>>

\* ... then each mail is sent ...
Resends(w, m) ==
    /\ At(w, "send") /\ m \in worker[w].again
    /\ Send("single", {m})
    /\ worker' = [worker EXCEPT ![w].pc = "count", ![w].again = @ \ {m}]
    /\ UNCHANGED <<row, received, stored, arrival, buffer, detector, faults, crowded>>

Counted(r) == [r EXCEPT !.retries = @ + 1]

\* ... and counted.
CountsRetry(w) ==
    /\ At(w, "count")
    /\ row' = Counted(row)
    /\ IF worker[w].again = {} THEN Done(w) ELSE Goto(w, "send")
    /\ UNCHANGED <<received, stored, arrival, buffer, jobs, detector, faults, crowded>>

\* A send that fails is logged, and the next mail has its turn.
ResendFails(w, m) ==
    /\ At(w, "send") /\ m \in worker[w].again
    /\ Fault
    /\ worker' = [worker EXCEPT ![w] = IF worker[w].again = {m} THEN IdleWorker
                                       ELSE [@ EXCEPT !.again = @ \ {m}]]
    /\ UNCHANGED <<row, received, stored, arrival, buffer, jobs, detector, crowded>>

\* A statement or the LLM call of the single path throws.
Throws(w) ==
    /\ worker[w].pc \in {"read", "cheap", "check", "lock", "analyze", "unlock", "requeue"}
    /\ Fault
    /\ Goto(w, "cleanup")
    /\ UNCHANGED <<row, received, stored, arrival, buffer, jobs, detector, crowded>>

CleansUp(w) ==
    /\ At(w, "cleanup")
    /\ row' = Unlocked(row)
    /\ jobs' = Failed(worker[w].job)
    /\ Done(w)
    /\ UNCHANGED <<received, stored, arrival, buffer, detector, faults, crowded>>

\* The process dies, or the cleanup fails too; the job expires.
Dies(w) ==
    /\ ~At(w, "idle")
    /\ Fault
    /\ jobs' = Failed(worker[w].job)
    /\ Done(w)
    /\ UNCHANGED <<row, received, stored, arrival, buffer, detector, crowded>>

(***************************************************************************)
(* detectAndRequeueStalePriorityThreads                                    *)
(***************************************************************************)

\* Nothing bounds the time a job waits or runs, so the ten minutes of the flag
\* and the five of a new thread may be over whenever the scan runs.
Unscored == ~row.processing /\ ~row.scored

LeftProcessing == row.processing

\* A scan takes MAX_REQUEUE_PER_RUN * 2 rows of all users, the oldest first, and
\* only then leaves out those that are out of retries: a hundred older ones of
\* them hide every other thread, for as long as they stay.  (Between a scan and
\* the end of its run the crowd decides nothing, so it changes outside of it.)
CrowdChanges ==
    /\ detector = "idle"
    /\ crowded' = ~crowded
    /\ UNCHANGED <<row, received, stored, arrival, buffer, jobs, worker, detector, faults>>

Detects(listed) ==
    /\ detector = "idle" /\ listed
    /\ ~crowded
    /\ row.retries < MaxRetries
    /\ stored # {}
    /\ detector' = "clear"
    /\ UNCHANGED <<row, received, stored, arrival, buffer, jobs, worker, faults, crowded>>

\* Mutant: the scan looks for threads without a score only.
DetectUnscoredOnly == Detects(Unscored)

Detect == Detects(Unscored \/ LeftProcessing)

DetectorClears ==
    /\ detector = "clear"
    /\ row' = Unlocked(row)
    /\ detector' = "send"
    /\ UNCHANGED <<received, stored, arrival, buffer, jobs, worker, faults, crowded>>

\* The thread's newest mail stands for it.
DetectorSends ==
    /\ detector = "send"
    /\ Send("single", {Max(stored)})
    /\ detector' = "count"
    /\ UNCHANGED <<row, received, stored, arrival, buffer, worker, faults, crowded>>

DetectorCounts ==
    /\ detector = "count"
    /\ row' = Counted(row)
    /\ detector' = "idle"
    /\ UNCHANGED <<received, stored, arrival, buffer, jobs, worker, faults, crowded>>

DetectorFails ==
    /\ detector # "idle"
    /\ Fault
    /\ detector' = "idle"
    /\ UNCHANGED <<row, received, stored, arrival, buffer, jobs, worker, crowded>>

(***************************************************************************)
(* The specification                                                       *)
(***************************************************************************)

Arriving == \/ \E m \in Mails : ArrivalFinds(m)
            \/ ArrivalRewrites
            \/ \E deferred \in BOOLEAN : ArrivalSaves(deferred)
            \/ ArrivalStores \/ ArrivalQueues

Flushing == \E kind \in {"single", "batch"} : Flush(kind)

Scoring(w) ==
    \/ \E j \in BagToSet(jobs) : Fetch(w, j)
    \/ SkipsCurrent(w) \/ Reads(w) \/ IsGated(w)
    \/ \E handled \in SUBSET worker[w].mails : ScoresCheaply(w, handled)
    \/ NeedsAnalysis(w) \/ Locks(w)
    \/ \E handled \in SUBSET worker[w].mails, urgency \in BOOLEAN :
          HandlesIncrementally(w, handled, urgency)
    \/ NeedsFullAnalysis(w)
    \/ Persists(w)
    \/ \E scored, again \in SUBSET worker[w].mails : AppliesResults(w, scored, again)
    \/ Unlocks(w)

Requeuing(w) == ReadsRetries(w) \/ CountsRetry(w) \/ \E m \in Mails : Resends(w, m)

\* What a handler does when nothing goes wrong, and what its catch does.
Works(w) == Scoring(w) \/ Requeuing(w) \/ CleansUp(w)

Fails(w) == \/ Throws(w) \/ Dies(w)
            \/ \E scored \in SUBSET worker[w].mails : ApplyFails(w, scored)
            \/ \E m \in Mails : ResendFails(w, m)

Detecting == Detect \/ DetectorClears \/ DetectorSends \/ DetectorCounts

Next ==
    \/ Receives \/ Arriving \/ ArrivalFails
    \/ Flushing \/ FlushLost
    \/ \E w \in Workers : Works(w) \/ Fails(w)
    \/ Detecting \/ DetectorFails \/ CrowdChanges

Spec == Init /\ [][Next]_vars

\* Mails the provider has are synced, the timer fires, jobs are fetched and
\* handled, the cron runs.
FairSpec ==
    /\ Spec
    /\ WF_vars(Arriving) /\ WF_vars(Flushing)
    /\ \A w \in Workers : WF_vars(Works(w))
    /\ WF_vars(Detecting)

(***************************************************************************)
(* Properties                                                              *)
(***************************************************************************)

TypeOK ==
    /\ row \in Row
    /\ received \in 0..MaxMails /\ stored \subseteq 1..received
    /\ arrival \in Arrival
    /\ buffer \subseteq stored
    /\ IsABag(jobs) /\ BagToSet(jobs) \subseteq Job
    /\ worker \in [Workers -> Worker]
    /\ detector \in {"idle", "clear", "send", "count"}
    /\ crowded \in BOOLEAN
    /\ faults \in 0..MaxFaults

\* "Calculating..." is on, or no analysis was ever stored.
Unsettled == row.processing \/ ~row.scored

\* Whatever is lost on the way, the buffer, a job, a handler, a stale copy that
\* undoes a score: in the end a thread with mails is scored and its flag is off,
\* unless the thread's retries are used up, and provided that older threads do
\* not go on to fill the cron's scans.
Ended == stored # {} /\ Unsettled => row.retries >= MaxRetries

RefinementEnds == <>[]~crowded => <>[]Ended

=============================================================================
