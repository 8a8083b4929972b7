---------------------------- MODULE AutoResponder ----------------------------
(***************************************************************************)
(* Automatic replies (auto-responder.service.ts).  Every mail of a thread  *)
(* queues a job; a handler works through its checks, claims the thread     *)
(* with a conditional UPDATE, replies through the provider and then        *)
(* records what it did in five more statements.  Handlers of one thread,   *)
(* handlers of other threads of the same sender, the provider sync and the *)
(* user's own actions interleave with every statement.                     *)
(*                                                                         *)
(* The claim and the sync's guard are columns of email_threads.  Whoever   *)
(* takes in a mail (createEmail), or snoozes, stars, archives or assigns a *)
(* thread, reads its entity, changes other columns and saves it, and a     *)
(* save writes every column that differs from the row: a copy read before  *)
(* a claim erases the claim, one read before a release restores it.        *)
(*                                                                         *)
(* What the checks decide from the mail's content (age, classification,    *)
(* priority, exclusion rules, configuration) is a free choice.             *)
(***************************************************************************)
EXTENDS Naturals, FiniteSets

CONSTANTS
    Threads,    \* email threads
    NoThread,   \* no thread
    Senders,    \* the senders of their latest mails
    SenderOf,   \* the sender of each thread
    Handlers,   \* handler invocations of auto-responder in flight
    Savers,     \* calls that read a thread's entity in order to save it
    Jobs,       \* pg-boss job slots (bound)
    NoJob,      \* a handler whose job expired
    RetryLimit, \* retryLimit of an auto-responder job
    MaxMails,   \* mails that arrive in each thread (bound)
    MaxLost,    \* saves that change the claim of each thread (bound)
    MaxLapses,  \* cooldowns of each sender that run out (bound)
    MaxFaults   \* crashes, database errors, calls in doubt (bound)

ASSUME AutoAssumption ==
    /\ NoThread \notin Threads
    /\ SenderOf \in [Threads -> Senders]
    /\ NoJob \notin Jobs
    /\ IsFiniteSet(Handlers)
    /\ {RetryLimit, MaxMails, MaxLost, MaxLapses, MaxFaults} \subseteq Nat

VARIABLES
    job,        \* the pg-boss queue
    mails,      \* mails that arrived in each thread
    saver,      \* the calls that hold an entity
    erased,     \* saves of each thread that took its claim off
    restored,   \* saves of each thread that put a claim back
    handler,    \* the handler invocations
    claim,      \* threads whose autoResponseClaimedAt is set
    log,        \* threads with a row in auto_response_logs
    guarded,    \* threads whose lastAutoRespondedAt is set
    replied,    \* threads with a mail from the user's own address
    stored,     \* the emails row of each thread's confirmed reply
    cooldown,   \* senders with an active cooldown row
    optOut,     \* senders with an opt_out row
    optingOut,  \* senders whose opt-out has deleted but not yet saved
    lapses,     \* cooldowns of each sender that ran out
    confirmed,  \* replies of each thread the provider confirmed
    doubtful,   \* replies of each thread that left although the call threw
    faults      \* faults so far

calls == <<mails, saver, erased, restored>>

thread == <<claim, log, guarded, replied, stored>>

sender == <<cooldown, optOut, optingOut, lapses>>

wire == <<confirmed, doubtful>>

vars == <<job, calls, handler, thread, sender, wire, faults>>

INSTANCE JobQueue WITH Keys <- Threads, NoKey <- NoThread

(***************************************************************************)
(* Types                                                                   *)
(***************************************************************************)

\* Before the suppression check was passed, between it and the send, after.
CheckPC == {"log", "thread", "optOut"}

ReplyPC == {"cooldown", "compose", "claim", "send"}

PersistPC == {"find", "flag", "insert", "record", "guard", "clear", "cool"}

HandlerPC == {"idle", "release"} \cup CheckPC \cup ReplyPC \cup PersistPC

Handler == [pc: HandlerPC, thread: Threads \cup {NoThread}, job: Jobs \cup {NoJob}]

IdleHandler == [pc |-> "idle", thread |-> NoThread, job |-> NoJob]

\* A createEmail or a request, and the two columns of its copy that matter here.
Saver == [pc: {"idle", "mail", "request"}, thread: Threads \cup {NoThread},
          claimed: BOOLEAN, guarded: BOOLEAN]

IdleSaver == [pc |-> "idle", thread |-> NoThread, claimed |-> FALSE, guarded |-> FALSE]

StoredRow == {"none", "synced", "flagged", "duplicate"}

Init ==
    /\ JobInit
    /\ mails = [t \in Threads |-> 0]
    /\ saver = [k \in Savers |-> IdleSaver]
    /\ erased = [t \in Threads |-> 0]
    /\ restored = [t \in Threads |-> 0]
    /\ handler = [h \in Handlers |-> IdleHandler]
    /\ claim = {} /\ log = {} /\ guarded = {} /\ replied = {}
    /\ stored = [t \in Threads |-> "none"]
    /\ cooldown = {} /\ optOut = {} /\ optingOut = {}
    /\ lapses = [s \in Senders |-> 0]
    /\ confirmed = [t \in Threads |-> 0]
    /\ doubtful = [t \in Threads |-> 0]
    /\ faults = 0

(***************************************************************************)
(* Helpers                                                                 *)
(***************************************************************************)

Fault == faults < MaxFaults /\ faults' = faults + 1

At(h, pc) == handler[h].pc = pc

Thread(h) == handler[h].thread

SenderFor(h) == SenderOf[handler[h].thread]

Goto(h, pc) ==
    /\ handler' = [handler EXCEPT ![h].pc = pc]
    /\ UNCHANGED job

\* The handler returned: pg-boss completes its job, unless it expired before.
Return(h) ==
    /\ job' = IF handler[h].job = NoJob THEN job ELSE Completed(handler[h].job)
    /\ handler' = [handler EXCEPT ![h] = IdleHandler]

\* The handler threw or died: pg-boss retries its job or gives it up.
Throw(h) ==
    /\ job' = IF handler[h].job = NoJob THEN job ELSE Failed(handler[h].job)
    /\ handler' = [handler EXCEPT ![h] = IdleHandler]

(***************************************************************************)
(* createEmail and other calls that save the thread's entity               *)
(***************************************************************************)

FindsThread(k, kind, t) ==
    /\ saver[k].pc = "idle"
    /\ saver' = [saver EXCEPT ![k] = [pc |-> kind, thread |-> t,
                                      claimed |-> t \in claim, guarded |-> t \in guarded]]

\* getOrCreateEmailThread, for a new mail.
MailArrives(k, t) ==
    /\ mails[t] < MaxMails
    /\ mails' = [mails EXCEPT ![t] = @ + 1]
    /\ FindsThread(k, "mail", t)
    /\ UNCHANGED <<job, erased, restored, handler, thread, sender, wire, faults>>

\* The user or a member snoozes, stars, archives, assigns or rates the thread.
RequestArrives(k, t) ==
    /\ mails[t] > 0
    /\ FindsThread(k, "request", t)
    /\ UNCHANGED <<job, mails, erased, restored, handler, thread, sender, wire, faults>>

\* The set after a copy in which t is (not) a member was saved.
Put(set, t, member) == IF member THEN set \cup {t} ELSE set \ {t}

\* One count more if the row's claim is not the copy's.
CountIf(count, t, changed) == IF changed THEN [count EXCEPT ![t] = @ + 1] ELSE count

\* repository.save, once or several times in a call.
SavesThread(k) ==
    LET t == saver[k].thread
        claimed == saver[k].claimed IN
    /\ saver[k].pc # "idle"
    /\ (t \in claim) # claimed => erased[t] + restored[t] < MaxLost
    /\ claim' = Put(claim, t, claimed)
    /\ guarded' = Put(guarded, t, saver[k].guarded)
    /\ erased' = CountIf(erased, t, t \in claim /\ ~claimed)
    /\ restored' = CountIf(restored, t, t \notin claim /\ claimed)
    /\ UNCHANGED <<job, mails, saver, handler, log, replied, stored, sender, wire, faults>>

\* queueThreadLevelJobs follows createEmail's last save.  No job is sent for a
\* blocked sender, an inactive user or a mail that could not be stored; the
\* hour's singleton window swallows it, or boss.send fails, which is logged.
LeavesThread(k) ==
    /\ saver[k].pc # "idle"
    /\ \/ saver[k].pc = "mail" /\ Enqueue(saver[k].thread)
       \/ UNCHANGED job
    /\ saver' = [saver EXCEPT ![k] = IdleSaver]
    /\ UNCHANGED <<mails, erased, restored, handler, thread, sender, wire, faults>>

(***************************************************************************)
(* The job                                                                 *)
(***************************************************************************)

Fetch(h, j) ==
    /\ At(h, "idle")
    /\ FetchJob(j)
    /\ handler' = [handler EXCEPT ![h] = [pc |-> "log", thread |-> job[j].key, job |-> j]]
    /\ UNCHANGED <<calls, thread, sender, wire, faults>>

\* The job's hour is over while its handler still runs.
Expire(h) ==
    /\ handler[h].job # NoJob
    /\ Fault
    /\ job' = Failed(handler[h].job)
    /\ handler' = [handler EXCEPT ![h].job = NoJob]
    /\ UNCHANGED <<calls, thread, sender, wire>>

Crash(h) ==
    /\ ~At(h, "idle")
    /\ Fault
    /\ Throw(h)
    /\ UNCHANGED <<calls, thread, sender, wire>>

(***************************************************************************)
(* processEmailForAutoResponse: the checks                                 *)
(***************************************************************************)

\* Disabled, nothing to answer, excluded by content, or no provider.
Decline(h) ==
    /\ handler[h].pc \in {"log", "thread", "compose", "claim"}
    /\ Return(h)
    /\ UNCHANGED <<calls, thread, sender, wire, faults>>

\* A database or model error before sendAutoResponse is rethrown.
CheckThrows(h) ==
    /\ handler[h].pc \in CheckPC \cup {"cooldown", "compose"}
    /\ Throw(h)
    /\ UNCHANGED <<calls, thread, sender, wire, faults>>

CheckLog(h) ==
    /\ At(h, "log")
    /\ IF Thread(h) \in log THEN Return(h) ELSE Goto(h, "thread")
    /\ UNCHANGED <<calls, thread, sender, wire, faults>>

CheckReplies(h) ==
    /\ At(h, "thread")
    /\ IF Thread(h) \in replied THEN Return(h) ELSE Goto(h, "optOut")
    /\ UNCHANGED <<calls, thread, sender, wire, faults>>

\* Mutant: a stored opt-out is not looked up.
CheckOptOutSkipped(h) ==
    /\ At(h, "optOut")
    /\ Goto(h, "cooldown")
    /\ UNCHANGED <<calls, thread, sender, wire, faults>>

\* checkSuppression's first query ...
CheckOptOut(h) ==
    /\ At(h, "optOut")
    /\ IF SenderFor(h) \in optOut THEN Return(h) ELSE Goto(h, "cooldown")
    /\ UNCHANGED <<calls, thread, sender, wire, faults>>

\* ... and its second.
CheckCooldown(h) ==
    /\ At(h, "cooldown")
    /\ IF SenderFor(h) \in cooldown THEN Return(h) ELSE Goto(h, "compose")
    /\ UNCHANGED <<calls, thread, sender, wire, faults>>

\* Classification, priority, template and Q&A answer are done.
Compose(h) ==
    /\ At(h, "compose")
    /\ Goto(h, "claim")
    /\ UNCHANGED <<calls, thread, sender, wire, faults>>

(***************************************************************************)
(* sendAutoResponse                                                        *)
(***************************************************************************)

\* Mutant: the claim does not look whether the thread is claimed.
ClaimAnyway(h) ==
    /\ At(h, "claim")
    /\ Goto(h, "send")
    /\ claim' = claim \cup {Thread(h)}
    /\ UNCHANGED <<calls, log, guarded, replied, stored, sender, wire, faults>>

\* The UPDATE that finds autoResponseClaimedAt still NULL wins.
Claim(h) ==
    /\ At(h, "claim")
    /\ IF Thread(h) \in claim THEN Return(h) ELSE Goto(h, "send")
    /\ claim' = claim \cup {Thread(h)}
    /\ UNCHANGED <<calls, log, guarded, replied, stored, sender, wire, faults>>

ReplyAccepted(h) ==
    /\ At(h, "send")
    /\ confirmed' = [confirmed EXCEPT ![Thread(h)] = @ + 1]
    /\ Goto(h, "find")
    /\ UNCHANGED <<calls, thread, sender, doubtful, faults>>

ReplyRejected(h) ==
    /\ At(h, "send")
    /\ Goto(h, "release")
    /\ UNCHANGED <<calls, thread, sender, wire, faults>>

\* The reply leaves, but its answer is lost and the call throws.
ReplyInDoubt(h) ==
    /\ At(h, "send")
    /\ Fault
    /\ doubtful' = [doubtful EXCEPT ![Thread(h)] = @ + 1]
    /\ Goto(h, "release")
    /\ UNCHANGED <<calls, thread, sender, confirmed>>

\* Mutant: a failed send keeps its claim.
ReleaseForgotten(h) ==
    /\ At(h, "release")
    /\ Return(h)
    /\ UNCHANGED <<calls, thread, sender, wire, faults>>

\* releaseClaimIfSendFails; the rethrown error becomes a return value.
Release(h) ==
    /\ At(h, "release")
    /\ claim' = claim \ {Thread(h)}
    /\ Return(h)
    /\ UNCHANGED <<calls, log, guarded, replied, stored, sender, wire, faults>>

ReleaseThrows(h) ==
    /\ At(h, "release")
    /\ Fault
    /\ Return(h)
    /\ UNCHANGED <<calls, thread, sender, wire>>

(***************************************************************************)
(* persistAutoResponseRecord                                               *)
(***************************************************************************)

\* A provider that returns no message id leaves the sync to store the reply.
FindReply(h) ==
    /\ At(h, "find")
    /\ \/ Goto(h, IF stored[Thread(h)] = "none" THEN "insert" ELSE "flag")
       \/ Goto(h, "record")
    /\ UNCHANGED <<calls, thread, sender, wire, faults>>

FlagReply(h) ==
    /\ At(h, "flag")
    /\ stored' = [stored EXCEPT ![Thread(h)] = "flagged"]
    /\ Goto(h, "record")
    /\ UNCHANGED <<calls, claim, log, guarded, replied, sender, wire, faults>>

InsertReply(h) ==
    /\ At(h, "insert")
    /\ stored' = [stored EXCEPT ![Thread(h)] = IF @ = "none" THEN "flagged" ELSE "duplicate"]
    /\ replied' = replied \cup {Thread(h)}
    /\ Goto(h, "record")
    /\ UNCHANGED <<calls, claim, log, guarded, sender, wire, faults>>

LogResponse(h) ==
    /\ At(h, "record")
    /\ log' = log \cup {Thread(h)}
    /\ Goto(h, "guard")
    /\ UNCHANGED <<calls, claim, guarded, replied, stored, sender, wire, faults>>

GuardThread(h) ==
    /\ At(h, "guard")
    /\ guarded' = guarded \cup {Thread(h)}
    /\ Goto(h, "clear")
    /\ UNCHANGED <<calls, claim, log, replied, stored, sender, wire, faults>>

\* addCooldownSuppression deletes the sender's cooldown rows ...
ClearCooldown(h) ==
    /\ At(h, "clear")
    /\ cooldown' = cooldown \ {SenderFor(h)}
    /\ Goto(h, "cool")
    /\ UNCHANGED <<calls, thread, optOut, optingOut, lapses, wire, faults>>

\* ... and saves a new one.
StartCooldown(h) ==
    /\ At(h, "cool")
    /\ cooldown' = cooldown \cup {SenderFor(h)}
    /\ Return(h)
    /\ UNCHANGED <<calls, thread, optOut, optingOut, lapses, wire, faults>>

\* An error after the reply left is caught too: the job is not retried.
PersistThrows(h) ==
    /\ handler[h].pc \in PersistPC
    /\ Fault
    /\ Return(h)
    /\ UNCHANGED <<calls, thread, sender, wire>>

(***************************************************************************)
(* The provider sync and the user                                          *)
(***************************************************************************)

\* The sync meets the reply in the Sent mail and stores it if it is new.
SyncStoresReply(t) ==
    /\ confirmed[t] > 0
    /\ stored[t] = "none"
    /\ stored' = [stored EXCEPT ![t] = "synced"]
    /\ replied' = replied \cup {t}
    /\ UNCHANGED <<job, calls, handler, claim, log, guarded, sender, wire, faults>>

\* The user answers in person, or the sync stores a reply left in doubt.
UserReplies(t) ==
    /\ mails[t] > 0
    /\ replied' = replied \cup {t}
    /\ UNCHANGED <<job, calls, handler, claim, log, guarded, stored, sender, wire, faults>>

\* addOptOutSuppression deletes every suppression of the sender ...
BeginOptOut(s) ==
    /\ s \notin optingOut
    /\ optingOut' = optingOut \cup {s}
    /\ optOut' = optOut \ {s}
    /\ cooldown' = cooldown \ {s}
    /\ UNCHANGED <<job, calls, handler, thread, lapses, wire, faults>>

\* ... and saves the permanent one.
SaveOptOut(s) ==
    /\ s \in optingOut
    /\ optingOut' = optingOut \ {s}
    /\ optOut' = optOut \cup {s}
    /\ UNCHANGED <<job, calls, handler, thread, cooldown, lapses, wire, faults>>

RemoveOptOut(s) ==
    /\ s \in optOut
    /\ optOut' = optOut \ {s}
    /\ UNCHANGED <<job, calls, handler, thread, cooldown, optingOut, lapses, wire, faults>>

\* cooldownPeriodDays have passed.
CooldownLapses(s) ==
    /\ s \in cooldown
    /\ lapses[s] < MaxLapses
    /\ lapses' = [lapses EXCEPT ![s] = @ + 1]
    /\ cooldown' = cooldown \ {s}
    /\ UNCHANGED <<job, calls, handler, thread, optOut, optingOut, wire, faults>>

(***************************************************************************)
(* The specification                                                       *)
(***************************************************************************)

Checks(h) ==
    \/ Decline(h) \/ CheckThrows(h) \/ CheckLog(h) \/ CheckReplies(h)
    \/ CheckOptOut(h) \/ CheckCooldown(h) \/ Compose(h)

Replies(h) ==
    \/ Claim(h) \/ ReplyAccepted(h) \/ ReplyRejected(h) \/ Release(h)

Persists(h) ==
    \/ FindReply(h) \/ FlagReply(h) \/ InsertReply(h) \/ LogResponse(h)
    \/ GuardThread(h) \/ ClearCooldown(h) \/ StartCooldown(h)

Progress(h) == Checks(h) \/ Replies(h) \/ Persists(h)

Fails(h) ==
    \/ Expire(h) \/ Crash(h) \/ ReplyInDoubt(h) \/ ReleaseThrows(h) \/ PersistThrows(h)

Saves(k) ==
    \/ SavesThread(k) \/ LeavesThread(k)
    \/ \E t \in Threads : MailArrives(k, t) \/ RequestArrives(k, t)

OfThread(t) == UserReplies(t) \/ SyncStoresReply(t)

OfSender(s) == BeginOptOut(s) \/ SaveOptOut(s) \/ RemoveOptOut(s) \/ CooldownLapses(s)

Next ==
    \/ \E h \in Handlers : Progress(h) \/ Fails(h) \/ \E j \in Jobs : Fetch(h, j)
    \/ \E k \in Savers : Saves(k)
    \/ \E t \in Threads : OfThread(t)
    \/ \E s \in Senders : OfSender(s)

Spec == Init /\ [][Next]_vars

\* A live handler keeps running.
FairSpec == Spec /\ \A h \in Handlers : WF_vars(Progress(h))

(***************************************************************************)
(* Properties                                                              *)
(***************************************************************************)

TypeOK ==
    /\ job \in [Jobs -> JobType]
    /\ mails \in [Threads -> 0..MaxMails]
    /\ saver \in [Savers -> Saver]
    /\ erased \in [Threads -> Nat]
    /\ restored \in [Threads -> Nat]
    /\ handler \in [Handlers -> Handler]
    /\ claim \subseteq Threads
    /\ log \subseteq Threads
    /\ guarded \subseteq Threads
    /\ replied \subseteq Threads
    /\ stored \in [Threads -> StoredRow]
    /\ cooldown \subseteq Senders
    /\ optOut \subseteq Senders
    /\ optingOut \subseteq Senders
    /\ lapses \in [Senders -> 0..MaxLapses]
    /\ confirmed \in [Threads -> Nat]
    /\ doubtful \in [Threads -> Nat]
    /\ faults \in 0..MaxFaults

\* A saved opt-out binds every handler that has not yet looked it up: none of
\* them comes as far as composing a reply to that sender, and no cooldown of
\* the sender wears the opt-out off.  Only taking it back, or opting the same
\* sender out again (which deletes first), lifts it.
Barred(s) ==
    /\ s \in optOut
    /\ \A h \in Handlers : handler[h].pc \in ReplyPC => SenderFor(h) # s

LiftsOptOut(s) == RemoveOptOut(s) \/ BeginOptOut(s)

OptOutHolds ==
    [][\A s \in Senders : Barred(s) =>
          /\ Barred(s)' \/ LiftsOptOut(s)
          /\ \A t \in Threads : SenderOf[t] = s =>
                 confirmed'[t] = confirmed[t] /\ doubtful'[t] = doubtful[t]]_vars

\* A claim whose send came to nothing is given back, so that a later mail of
\* the thread can still get a reply, as long as nothing crashed or failed and
\* no call saved an older copy with a claim that had been given back.
ClaimSettles ==
    \A t \in Threads : t \in claim ~>
        (t \notin claim \/ confirmed[t] > 0 \/ faults > 0 \/ restored[t] > 0)

\* Whatever is queued, retried or expired, races, fails or is saved late, the
\* auto-responder keeps the promises of ReplyLedger: one attempt each time the
\* thread is open, one reply per attempt, no confirmed reply after the first
\* but for a claim that a save erased, and nothing recorded as sent that the
\* provider did not confirm.
AttemptOf(h) ==
    IF At(h, "send") THEN [phase |-> "reserved", thread |-> Thread(h)]
    ELSE IF At(h, "release") THEN [phase |-> "over", thread |-> Thread(h)]
    ELSE [phase |-> "none", thread |-> NoThread]

Ledger == INSTANCE ReplyLedger WITH
    Attempts <- Handlers,
    attempt <- [h \in Handlers |-> AttemptOf(h)],
    open <- Threads \ claim,
    stored <- {t \in Threads : stored[t] # "none"}

RefinesReplies == Ledger!LedgerSpec

=============================================================================
