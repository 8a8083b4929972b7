------------------------------ MODULE JobQueue ------------------------------
(***************************************************************************)
(* The pg-boss queue as the server uses it: one job carries one key, a     *)
(* worker fetches a ready job, and the job is completed, failed (retried   *)
(* until its retry limit is burned) or expired when its handler does not   *)
(* answer in time.  Delivery is at-least-once: an expired job runs again   *)
(* even though the handler that held it may still be running.              *)
(*                                                                         *)
(* A bare singletonKey does not collapse duplicates (queue/job-dedupe.ts), *)
(* so Enqueue never looks for an equal job.  Slots in Jobs bound how many  *)
(* jobs exist at once; a completed or dead job gives its slot back.        *)
(***************************************************************************)
EXTENDS Naturals

CONSTANTS
    Jobs,        \* job slots (bound on the jobs that exist at once)
    Keys,        \* what a job is about
    NoKey,       \* the key of a free slot
    RetryLimit   \* retries pg-boss grants a job after its first run

VARIABLE job     \* job[j]: the slot's state, key and retries used

JobState == {"free", "ready", "active"}

JobType == [state: JobState, key: Keys \union {NoKey}, retries: 0..RetryLimit]

FreeJob == [state |-> "free", key |-> NoKey, retries |-> 0]

JobInit == job = [j \in Jobs |-> FreeJob]

\* boss.send: a new job for key k, whether or not one exists already.
Enqueue(k) ==
    \E j \in Jobs :
        /\ job[j].state = "free"
        /\ job' = [job EXCEPT ![j] = [state |-> "ready", key |-> k, retries |-> 0]]

\* A poll hands a ready job to a worker.
FetchJob(j) ==
    /\ job[j].state = "ready"
    /\ job' = [job EXCEPT ![j].state = "active"]

\* The queue after the handler of job j returned.
Completed(j) == [job EXCEPT ![j] = FreeJob]

\* Mutant: a job gets one retry more than its limit.
FailedOnceMore(j) ==
    IF job[j].retries <= RetryLimit
    THEN [job EXCEPT ![j] = [state |-> "ready", key |-> job[j].key,
                             retries |-> job[j].retries + 1]]
    ELSE Completed(j)

\* Mutant: the handler and the queue both count the failure.
FailedCountedTwice(j) ==
    IF job[j].retries < RetryLimit
    THEN [job EXCEPT ![j] = [state |-> "ready", key |-> job[j].key,
                             retries |-> job[j].retries + 2]]
    ELSE Completed(j)

\* The queue after the handler of job j threw or ran out of time.
Failed(j) ==
    IF job[j].retries < RetryLimit
    THEN [job EXCEPT ![j] = [state |-> "ready", key |-> job[j].key,
                             retries |-> job[j].retries + 1]]
    ELSE Completed(j)

=============================================================================
