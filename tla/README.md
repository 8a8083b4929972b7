# BearlyMail: TLA+ models, model checking and proofs

BearlyMail is an AI-assisted email client: a NestJS server (`src/server`), a
React client (`src/client`), a local-model helper and deployment code. The
server syncs mail from Gmail, Office 365, Zoho, Apple and IMAP, ranks threads
with an LLM, sends mail in the background, and runs everything slow through
pg-boss jobs that several worker processes poll. This directory holds the TLA+
models of that server's core protocols, the TLC runs that check them on small
instances and TLAPS proofs of what holds for every instance.

## 1. Inventory

Each part, the state it keeps, its operations, who it talks to, what is hard
about it and what makes it correct.

### Background email send (`server/src/email-send-queue`)
State: one `email_send_attempts` row per message (status, attempts, failure
reason, provider ids, `updatedAt`), one or more pg-boss jobs. Operations: the
send endpoints and the MCP send tools call `persistAndEnqueue`; a worker's
`handleSend` claims the row with a conditional UPDATE, calls the provider,
records the outcome and publishes it through Pusher; a cron sweep requeues rows
stranded in `queued` and closes rows stranded in `sending`. Hard: the provider
call is not transactional with the row; jobs are duplicated, retried, expired
under a live handler; a sweep works from a list that goes stale. Correct when:
one handler at a time works on a row, the attempts budget bounds the copies,
a recorded send is never repeated, every send settles, the user is told the
truth at most once.

### Scheduled emails (`server/src/scheduled-emails`)
State: `scheduled_emails` rows (pending, sent, failed, cancelled). Operations:
schedule and cancel by the user; a cron job sends what is due. Hard: the
sender reads a list and works through it without claiming rows, cancellation
is a read, a check and a save. Correct when: a settled message no run holds
stays closed, every further copy is paid for by an overlap or a fault, nothing
due is forgotten.

### Thread state and provider sync (`server/src/emails`)
State: `email_threads` (archived, starred, read, sync status), the provider's
own labels, pg-boss archive jobs. Operations: user actions write the row and
enqueue a provider call; the periodic sync compares a provider snapshot with the
rows and overwrites them. Hard: a snapshot taken before a user action is applied
after it; whole entities are saved long after they were read. Correct when: the
two sides converge and an unconfirmed action is not undone.

### Snooze (`server/src/snooze`)
State: `isSnoozed`/`snoozeUntil` of the thread, the flag of each mail, the label
at the provider. Operations: single snooze and unsnooze call the provider
themselves, bulk snooze queues a job for it; a cron job lists expired snoozes
every minute and queues unsnooze jobs; a new mail ends the snooze. Hard: three
copies of one fact, each written by a statement of its own, by four writers that
do not lock. Correct when: a job ends only snoozes that ran out, an expired
snooze ends, and the thread comes home in all three places.

### Priority refinement (`server/src/emails/priority-batch-*`, `llm-*`, `stuck-priority-*`)
State: in-memory buffers of mails with a debounce timer; refine-priority jobs,
single and batch; on the thread the flag behind "Calculating...", the score with
its breakdown and `calculatedAt`, a retry count. Operations: createEmail sets the
flag and announces the mail; the buffer is flushed by the timer, the tenth mail
or the shutdown; handlers skip, score or give up; a cron job queues threads that
were left behind. Hard: the buffer is emptied before the job is sent, the flag
is a lock nobody owns, and createEmail saves whole entities. Correct when: in
the end every thread with mails is scored and not "Calculating...", or its
retries are used up, as long as older threads leave the cron room.

### MCP OAuth (`server/src/mcp-oauth`, `server/src/personal-access-tokens`)
State: authorization requests with their one-shot codes, access tokens with a
rotating refresh token, personal tokens in the same table. Operations:
authorize, decide, redeem, refresh, revoke. Hard: each is a check-then-act over
several statements. Correct when: a request yields one grant, and only if
approved; a refresh token is exchanged once; revocation is final; the limit of
live tokens is passed by no more than the calls in progress.

### Context analysis (`server/src/context`)
State: one `context_analyses` row (status, results per batch, failed batches),
three job queues. Operations: sample and fan out batches, merge a batch's
discoveries, poll from a finaliser that re-queues itself, progress polls that
queue missing batches again, a cleanup cron, a newer analysis that supersedes
this one. Hard: every writer saves a copy of the row it read earlier. Correct
when: what is finalised holds every batch's discoveries unless a batch failed or
a stale copy took them back; polling stops; the analysis leaves `running`.

### Subscriptions and billing (`server/src/subscriptions`)
State: one `organizations` row: plan, limit, emails used, cycle start, trial end,
ids at Stripe and RevenueCat. Operations: metering a mail (a conditional UPDATE
rolls the cycle over, an atomic increment counts), the check before AI work,
webhooks of Stripe and RevenueCat, the admin's tools. Hard: the meter writes
columns, all others save whole entities. Correct when: every mail of a cycle
is counted, no more is let through than the limit, an organisation does not stay
over its limit, a trial ends.

### Data re-encryption (`server/src/encryption/data-reencryption`)
State: encrypted columns, key versions, fan-out jobs. Hard: rows written while
the migration runs. Correct when: every row ends under the new key, none is lost.

### Queue and workers (`server/src/queue`, `server/src/worker.ts`)
pg-boss with its default policy (3 retries, 15 minutes expiry), a worker adapter
that runs one job per invocation, a cluster primary that respawns workers.

### Auto-responder (`server/src/auto-responder`)
State: two columns of the thread's row, the claim (`autoResponseClaimedAt`) and the
guard against the sync (`lastAutoRespondedAt`); the response log, per-sender
suppressions (cooldowns, opt-outs), the stored reply. Operations: a job per new
mail checks a dozen conditions, composes a reply, claims the thread with a
conditional UPDATE, sends, records. Hard: the conditions are read long before
the send, the claim is given back when the send fails, the sync stores the same
reply, and createEmail and requests about the thread save its whole entity, claim
included, as they read it earlier. Correct when: a thread has one confirmed reply, and one
more at most for each claim such a save erased; an opt-out binds; a failed send
leaves the thread answerable.

### The rest
Follow-ups (a bulk send that marks rows without claiming them), the start of
onboarding, workflows, category rules, contacts, calendar, GitHub, LLM calls,
auth, organisations, the other mailbox providers, the client: `PROJECT.json`
lists each one with its status and the reason it is not modelled.

## 2. Modules

| Module | Models | Used by |
| --- | --- | --- |
| `JobQueue` | pg-boss as the server uses it: slots, retries, expiry, no collapsing of duplicates | `EmailSendQueue`, `AutoResponder`, `ThreadSync`, `Snooze` |
| `EmailSendQueue` | send endpoints, `handleSend`, the stalled-send sweep | |
| `SendLedger` | what the send pipeline promises, with no queue in sight | refined by `EmailSendQueue` |
| `ScheduledEmails` | scheduling, cancelling, the cron job | |
| `DeliveryLedger` | what scheduled mail promises, with no lists and no statements | refined by `ScheduledEmails` |
| `AutoResponder` | the reply job, suppressions, the calls that save the thread, the sync's copy of a reply | |
| `ReplyLedger` | what automatic replies promise, with no jobs and no handlers | refined by `AutoResponder` |
| `ThreadSync` | one thread's archive and star requests, the archive job, the Gmail sync | |
| `Snooze` | one thread's snooze: requests, scan, both jobs, new mail | |
| `PriorityRefinement` | one thread's score: new mail, buffer, refine jobs, stuck-priority cron | |
| `McpOAuth` | one user's MCP connections and personal tokens | |
| `McpGrants` | what connecting a client promises, with no concurrent calls | refined by `McpOAuth` |
| `ContextAnalysis` | one analysis from the request to its end | |
| `Billing` | one organisation's plan and mail meter | |
| `…Proofs` | the theorems of the module of that name | |
| `MC…` | instances for TLC, and statements the code breaks | the `.cfg` files |

A module has one action per database statement, provider call, queue call or
publish of the code, because that is where the server's processes interleave:
an `await` is the only place where another handler, request or crash gets in.
What lies between two awaits is one action. A handler is a record with a program
counter named after what it does next and the values it carries across awaits.

### `JobQueue`
`job[j]` is a slot: free, ready or active, its key and the retries used.
`Enqueue` never looks for an equal job, which is what a bare `singletonKey` does
under the default policy (`queue/job-dedupe.ts`). `Failed` covers a handler that
threw and one that expired. Slots bound the jobs alive at once; a completed or
dead job frees its slot.

### `EmailSendQueue`
`row` is `email_send_attempts`; `stale` the rows whose `updatedAt` has passed the
threshold of their status; `api` the endpoint's progress; `handler` and `sweeper`
the invocations in flight; `wire`, `told` and `followUps` what left the server, and
`hidden` (history) the accepted copies whose handler took them for failed sends.
`Claim` and `Reread` are `claimForSending`'s UPDATE and the read that follows, then
`ProviderAccepts` or `ProviderRejects`, `PostAcceptThrows` for what may fail between
the acceptance and the record, `MarkSent`, the follow-up, the publish; the sweeper
lists, requeues and closes.
`Timely` says whether a live handler always finishes within
STALE_SENDING_MINUTES, which is true of some deployments and not of others; each
property says whether it needs it. That what follows the acceptance may throw needs
no such switch: it always may, and `hidden` counts the copies it costs.

### `ScheduledEmails`
`status` and `due` are the rows; `cancel` is the user's request (read, check,
save); `run` the invocations of the cron job, each with the list it loaded. The
job does not claim rows, and when it reads one again it does not look at its status, so
two runs may overlap and a cancellation can fall between list and send. `Holding` maps a run's list and
program counter to what `DeliveryLedger` says of it: offered, delivered or failing.

### `AutoResponder`
`handler` walks the checks in the code's order; `claim` and `guarded` are the threads
whose `autoResponseClaimedAt` and `lastAutoRespondedAt` are set, `log` the response
log, `stored` the emails row of a reply; `confirmed` and `doubtful` count replies
whose answer came back and whose answer was lost. Suppressions are `cooldown` and
`optOut`; an opt-out deletes before it inserts (`optingOut`). `saver` are the calls
that hold a copy of the thread: `MailArrives` is createEmail, which reads the entity,
saves it once or more and then queues a job, `RequestArrives` a snooze, star, archive
or assignment, which reads and saves it. `SavesThread` writes the copy's claim and
guard back, whatever the row has become; `erased` and `restored` (history) count the
saves that took a claim off and put one back. `ReplyLedger` knows open threads and
attempts. An attempt is a handler at the provider (reserved) or about to give the
claim back (over); a thread is open while it is unclaimed. A save may open or close a
thread (`Overwrite`), and each opening is on the account of `Answer`, which allows one
confirmed reply more.

### `ThreadSync`
`row` is one `email_threads` row, `prov` the thread at Gmail, `stored` how many of
its mails have an emails row. `archiver` and `starrer` are the user's requests,
`worker` the archive job, `syncer` one run of `performSync` with everything it
has read. TypeORM's `save` writes back the whole entity, so a step that saves
what an earlier step read restores every column it was read with; `saveMail` and
`saveAgain` are createEmail's two saves of one read. The thread is recent, that is
inside the sync window; one sync runs at a time.

### `Snooze`
`until` is the row (a snooze is numbered and lasts until the moment of its own
number), `flagged` the mails, `labelled` the provider. `request` walks through single
and bulk requests, `arrival` through createEmail, `listed` and `job` carry an expiry
from the scan to a worker; `window` is the singleton window of `boss.send`.
A moment passes only when the request that set it is over.

### `PriorityRefinement`
`row` holds the four columns the protocol reads: the flag, whether there is a score,
the mail `calculatedAt` follows, the retries. `arrival` is createEmail with its copy
of the row, `buffer` the mails of this thread in memory, `jobs` a bag (nothing ever
collapses two equal jobs), `worker` the handlers with the mails still to do,
`detector` the cron job, `crowded` whether older rows fill all its scans. Rule, local
model, incremental check and LLM are choices; what each writes and which path unlocks
the thread is the code's. A thread whose category was never resolved is not skipped,
so `Reads` is always possible.

### `McpOAuth`
`code` and `token` are the two tables, `call` the HTTP calls, one step per statement,
each of which may be the last. A secret is the number of its generation;
`exchanges` counts how often each was accepted. `Live` tokens count for the limit,
which is checked (`BelowTokenLimit`) a statement before the insert. For `McpGrants` an
approved request counts as granted from the insert of its connection, not from
the record of it that follows.

### `ContextAnalysis`
`row` is the analysis, `ready` the waiting jobs of the three queues, `worker` the
handlers with the copy of the row they will save, `poll` and `cleanup` the two other
writers. `overwritten` and `erred` record that a save put a result back to nothing and
that a batch failed: the two ways in which a result can be missing. `window` says
that a finaliser was sent before: `boss.send` drops a second one within the hour
and queues it after, and nothing says which it is, so both are possible.

### `Billing`
`row` is the organisation, `elapsed` the trial's clock, `stripe` the subscription's state
at Stripe, `call` the requests and webhooks with their copy. `meter` is history: mails
counted and let through since the cycle began, the highest limit in it, and
whether a stale save has overwritten the counter.

## 3. Runs

`tlc -config X.cfg MCY` for each row; all instances are in the `MC` modules.

| Run | Question | Answer |
| --- | --- | --- |
| `SendQueueTimely` | With the code's own limits (3 attempts, 3 retries), crashes, expiries and duplicate jobs: is the claim exclusive, is a recorded send ever repeated, does the pipeline implement `SendLedger`? | yes, no, yes |
| `SendQueueLiveness` | Can a second copy leave, or a "rejected" be told of a message with a copy out, for any other reason than an error between acceptance and record? Does every persisted send settle? | no, no, yes |
| `ScheduledOverlap` | Overlapping cron runs, cancellations, a crash: is every further copy paid for by an overlap or a fault, does the job implement `DeliveryLedger`, is a due message settled? | yes |
| `AutoReplyRace` | Two handlers race for a thread while another call saves an old copy of it: do they implement `ReplyLedger` (one attempt each time the thread is open, one confirmed reply and one more for each erased claim, only a confirmed reply is recorded), does an opt-out bind, is the claim of a failed send given back? | yes |
| `ThreadSyncRace` | Does any pass of the sync, however old its snapshots, touch the archive flag of an unsynced row? | no |
| `ThreadSyncSettles` | Once requests, mails and moves are over, do repeated syncs bring row and provider together? Is a single archive confirmed? | yes, yes |
| `McpOAuthRace` | Concurrent answers, redemptions, refreshes and revocations, dying anywhere: do they implement `McpGrants` (an answer is final, only an approval is granted), one grant per request, one exchange per secret, revocation final, the limit passed by no more than the calls? | yes |
| `ContextAnalysisRace` | Stale copies from every writer: is anything finalised that lacks a batch for another reason than a failure or a stale save? | no |
| `ContextAnalysisEnds` | Does polling stop, does the analysis leave `running`, whoever dies? | yes, yes |
| `BillingRace` | Metering calls against webhooks: is every mail counted, the limit kept, an organisation over its limit only for a time, the trial ended? | yes |
| `SnoozeRace` | Requests, a new mail, scan and jobs: does a job end only what ran out, does an expired snooze end, does a thread snoozed once come home? | yes |
| `PriorityEnds` | With a buffer, job, statement or handler lost, and scans of the cron that are not crowded for good: is a thread in the end scored and its flag off, or its retries used up? | yes |

Each property also has a mutant in `PROJECT.json`: a variant of one action or
helper, defined beside the original, under which its run fails.

### What the code breaks
Sentences of the repository that its code does not keep. They stand, unless said
otherwise, in the component's `MC` module; naming one in a `.cfg` shows the
behaviour.

- Send queue. `AtMostOneCopy`: "a duplicate/retried job must never put a second copy
  of the message on the wire" (`email-send.processor.ts:107`), but the try block
  around the dispatch also covers what follows the provider's acceptance (`:121`),
  and its catch releases the row: the retry sends again. `EverySendIsTold` (under
  `FairSpec`): a crash after markSent loses the event for good (`:122`).
  `TerminalIsFinal` (`Timely = FALSE`): markSent and markFailed update by id, so a
  slow handler and a late sweeper overwrite each other
  (`email-send-queue.service.ts:112`). `OneJobPerSend`: a requeue adds a job beside
  the one that waits (`:202`).
- Scheduled mail. `CancelOnlyPending`: the check and the save of a cancellation
  are apart (`scheduled-emails.service.ts:151`). `FailedMeansUnsent`: what follows
  the acceptance throws and the message is marked failed (`:211`).
- Auto-responder. `ConfirmedIsLast`: the claim is "set only while NULL, so two
  concurrent jobs can't both reply to one thread" (`email-thread.entity.ts:285`), but
  a copy of the thread read before the claim and saved after it
  (`email-thread.service.ts:687`, `email-lifecycle.service.ts:177`) writes the NULL
  back and the next job replies again. `ClaimSettlesAlways`: a copy read while the
  claim was held and saved after its release restores it with no handler behind it,
  and the thread is never answered (`auto-responder.service.ts:852`).
  `CooldownRespected` (two threads of one sender): both pass the check before either
  saves (`auto-responder.service.ts:296`). `StoredOnce`: the sync stores the reply
  between look-up and insert (`:649`).
- Thread sync. `UserOpHolds` (`email-thread.service.ts:246`, `:211`);
  `LocalIsAuthoritative`: the star UPDATE has no `syncStatus` condition (`:369`);
  `LevelKept`: level 1 or 2 comes out as 3 (`gmail-sync.service.ts:461`);
  `UnsyncedIsBrief` with `MaxArchives = 2`: the job of a second archive within five
  minutes is dropped (`email-archive.service.ts:118`); and with `MaxStars = 1`: a new
  mail's save of a row read while it was marked for a star brings the mark back
  after the star is confirmed. `Settles` does not hold with a
  star request beside a change at the provider (`MaxStars = 1`).
- Context analysis. `FinalizesWhenAllDone`: a failed batch is counted both by its
  handler and by the poll, so the finaliser starts before "all batches are
  confirmed complete" (`context-finalization.processor.ts:278`). Two more, seen in
  traces: a whole-row save revives a superseded analysis, and the cleanup, which
  updates by id, can fail a run that has just completed.
- Billing. `PaidStaysPaid`: a metering call that read the trial saves it as
  expired over a checkout. The counter's "atomic increment"
  (`subscriptions.service.ts:1357`) does not protect it from whole-entity saves,
  which is why `CountsEveryMail` excludes them (`meter.broken`).
- Snooze. `SnoozeKept`: bulk snooze, the moment passes, the scan queues a job, the
  user snoozes again, and the job ends the new snooze (`snooze.processor.ts:190`).
  `LabelEnds`: the provider job of a bulk snooze runs after the unsnooze job and
  the label stays (`email-provider.interface.ts:264`).
- Priority. `EveryThreadEnds`: the cron is "the safety net"
  (`stuck-priority-detection.service.ts:24`), but each scan takes the hundred oldest
  rows of all users before it leaves out those without retries (`:183`, `:225`,
  `:307`): a hundred exhausted threads hide every newer one. `FlagGoesOff`: "this
  makes the recovery reliable" (`stuck-priority-detection.service.ts:288`), but the
  scan leaves out threads whose retries are used up, and nothing resets the count.
  `RetriesWithinLimit`: the count is read once for two mails
  (`priority-batch-analysis-runner.ts:541`). `AnalysisHolds`: createEmail's save of an
  older read undoes a score. Also: a mail received before `calculatedAt` and stored
  after it is taken for scored; a thread that has a score and loses its re-queued job
  is not "re-detected next run"; and the drain of deferred threads sends `threadIds`
  to a handler that reads `emailIds` (`email-backlog.service.ts:46`), so it throws.

### Bounds and why they suffice
Faults, requests and mails are counted and capped; everything else is finite by
itself. One send with two handlers and one sweeper shows every conflict over a row,
since rows share only the queue and the sweep list. Two job slots hold the original
job and the requeued or duplicated one. `SendQueueTimely` has the code's three
attempts and retries and two faults. Slow handlers (`Timely = FALSE`) are left to the
theorems, whose claims do not need it. Two runs of the cron job are the least that
overlap, and two messages the least with which one can fail in front of another.
`AutoReplyRace` has two handlers, two mails, two jobs that are not retried, one call
that holds a copy of the thread and two saves that change its claim (`MaxLost`):
enough for a claim to be given back, restored, erased, and the thread to be answered
once more. The theorems cover any number of each. `ThreadSync` has one thread because
no statement relates two; `ThreadSyncSettles` leaves the star request out (the user
stars in Gmail instead) and has a second mail, for a run that stores twice from one
listing.

`McpOAuthRace` has one request, three rows, two calls, three secrets and a limit of
one: two redemptions, a rotation with a retry, and a personal token competing for
the last place. `ContextAnalysisRace` has two batches and two handlers, so that a copy
can lose the other batch's result, and no re-queue: with one the run passes four
million states, and `FinalizedIsComplete` covers any number. `ContextAnalysisEnds` has
one batch and one re-queue, the least with which polling can end with batches
missing.
`BillingRace` has two calls, limits 1 and 2 and the three kinds of webhook that differ
in what they do to the counter: restart it, end the plan, keep it.
`SnoozeRace` has one mail, one request at a time, one job per queue and worker, two
requests in all and a new mail. `PriorityEnds` has one handler, two mails (one to be
scored, one to arrive meanwhile), two retries and jobs that are not retried, so
that every loss is the cron's to repair.

Symmetry is used in runs that check no liveness. Runs whose requests are bounded
say `CHECK_DEADLOCK FALSE` where the system comes to rest.

### Fairness
Weak fairness of a handler, worker, sweeper or request stands for Node's event loop:
an await resolves or rejects, and pg-boss polls for as long as a worker lives. A crash
is an action of its own and carries no fairness. The send queue also assumes that
clocks advance, that an abandoned job expires (pg-boss's own maintenance) and that the
sweep cron keeps firing; scheduled mail that a message becomes due and each cron run
proceeds. Snooze: time passes, the scan runs every minute, windows close. Context
analysis: queued jobs are fetched, polls finish, an untouched row ages, the cleanup
cron runs. Priority: mails the provider has are synced, the timer fires, jobs are
handled, the cron runs. Billing: calls go on and months pass; that the organisation is
in use (`UsageGoesOn`) is a premise of its two liveness properties, because a plan is
corrected only when it is read. That older threads do not crowd the cron's scans for
good is a premise of `RefinementEnds`: nothing in the code guarantees it, and without
it the property fails (`EveryThreadEnds`). `ThreadSync` asks for strong fairness of
one thing: starting a full sync. Full syncs are cron jobs, continuation jobs come in
between, and weak fairness would be satisfied by continuations alone. Only bounded
faults are assumed; none at all in `ClaimSettles` (the code gives a claim back in a
`catch`, which a crash skips; a restored claim is excepted as well) and in
`ThreadSyncSettles` (no sweep rescues an archive whose job was lost).

## 4. Proofs

TLAPS proves the following for every value of the constants that satisfies
the module's `ASSUME`, that is any number of sends, handlers, sweepers, runs,
threads, jobs and faults.

**`EmailSendQueueProofs`.** `ClaimInvariant` is `Spec => []ClaimInv`. Exclusive
claims are not inductive by themselves: a handler keeps its claim only because
nobody leads the row back to `queued` but the holder. `ClaimInv` says so: while a
handler holds a row it is `sending`, or `failed` by a sweeper, its provider id is
null and the handler's attempt count is the row's (`HolderInv`); a queued row has
attempts left and copies never exceed attempts (`RowInv`); a job is awaited by
one handler at most (`AwaitInv`); what sweepers list exists (`BusyInv`). From it
follow `TypeCorrect`, `ClaimIsExclusive`, `WireBudget` (copies never exceed attempts,
nor the limit), `FollowUpTruthful` (a follow-up only for a recorded send), and
`NeverResent` as an action property: the one step that transmits is the holder's,
whose row has no recorded id.

`CleanInv` says that a row that can be sent again has no copy out but hidden ones
(`AllHidden`): the one step that could break it, an error after the acceptance, hides
the copy it leaves (`CleanHide`). It gives `OneCopy` and `RejectionIsTrue`, for late
sweepers and handlers too.

One result assumes more. Under `Timely` and one sweep at a time, `SettledInv` adds
that a held row is not stale, that nobody holds a row about to be closed and that an
event is owed by one process, until it is triggered; with it every step maps to a step
of `SendLedger` or a stutter (`Refinement`). Each step is first reduced to the few
shapes it can have for a row (`Keeps`, `OtherShape`, the ledger's own moves), so the
mapping is proved once per shape.

Three results bound what is left to the sweeper. A row is stranded when it is
`sending` and nobody who holds its claim can still record an outcome;
`StrandedWithinFaults` (finitely many sends) says that each stranded row cost a fault
of its own, because a crash or a failed statement takes one handler and a handler
holds one send: every step strands one row at most, and none without a fault
(`StrandedStep`). `UnconfirmedWithinFaults` (also `Timely`, one sweep at a time)
extends the count to rows closed or reported as `unconfirmed`. `NoSendLeftBehind` is
the safety half of `EverySendSettles`: with no fault and no expired job (`NoExpiry`),
every queued row has its endpoint, a ready job or a handler ahead of it and every
sending row its holder. `WorkInv` carries it: a job has retries left for the attempts
its row may still claim, which needs `MaxAttempts <= RetryLimit + 1`; the code sets
both to the same constant (email-send.constants.ts:53).

**`AutoResponderProofs`.** A claim that any save may take off or put back has no
single holder, so the invariant counts instead. `ClaimInv`: the handlers at the
provider or about to give the claim back (`Holders`), one if the thread is unclaimed
(`Free`), and the confirmed replies are together no more than one and the erased
claims. A claim moves one from `Free` to the holders, an answer from the holders to
the replies, a release back to `Free`; a crash or a restored claim only takes away,
and the one step that adds, a save over a set claim, is counted (`SaveCounts`).
`ReplyInvariant` puts beside it the types and that handlers hold active jobs of their
own (`QueueInv`). `BoundedReplies` is what it says of replies, `AnsweredOnce` the
action property: a thread whose replies have used up its account is not answered
again, confirmed or in doubt, since no handler can be at the provider. `OptOutBinds`
follows as well. `OnlyConfirmedIsRecorded` (`RecordInv`) adds that a stored reply, a
log entry, a guard, a saver's copy of the guard, or a handler about to write one has a
confirmed reply behind it. The two invariants give `Refinement`: claims, answers, lost
answers, releases and deaths of handlers are the attempts' steps, a record writes, a
save overwrites, and everything else leaves the ledger as it was. `NoOrphanedClaim` is
the safety half of `ClaimSettles`: without a crash or a failed statement, and unless a
save restored it, an unanswered claim always has a handler that is about to have the
reply confirmed or to give the claim back. Fairness of that handler is all that
`ClaimSettles` adds.

**`ScheduledEmailsProofs`.** `TypeCorrect`; `ClosedForGood`: a settled message that no
run has listed stays settled, unlisted and unsent, so a cancellation confirmed
before any run lists the message always holds; and `PaidFor`: `PaidInv` counts the
runs that may still send a message or owe it a status or a reminder, and keeps
copies plus what may still be sent within runs plus faults, for which a run may
list a message only once (`ListedOnce`). `PaidInvariant` also keeps reminders plus
what may still be asked for within copies, which `Refinement` needs: without it a
reminder could not be a step of `DeliveryLedger`. The other steps follow from what
a run's step does to the messages it holds.

**`ThreadSyncProofs`.** `TypeCorrect`, for which the worker must hold the slot it
gives back (`WorkerInv`) and the sync must still lack a mail whenever it stores
one (`StoreInv`), and `UnsyncedArchiveHolds`: no pass of the sync, with whatever it
has read, changes the archive flag of an unsynced row. `NoForgottenArchive` is the
safety half of `UnsyncedIsBrief`: with one archive, no star request and no fault
(`Calm`), an unsynced row has its job still to be queued, queued or in a worker's
hands. `Marked` carries it: no copy that the sync or the request still has to save
is unsynced without the user's operation, which a new mail clears with the mark.
`QuietRunConverges` and `StaysAgreed` are the safety half of `Settles`. A full run that
starts when no request, job or unsynced row is left brings the row to what the
provider says, whatever differed: `OnTrack` says for each pass what is right
already, and a step leaves it only by a request, a mail, the user at the provider
or a fault. `OnTrackEndsAtRest` gives agreement at its end, and from there no pass of
any later run parts them, finished or broken off.

**`McpOAuthProofs`.** `GrantInvariant`: what a call holds agrees with the tables
(`CallInv`), a consumed code has one call or one row that stands for it
(`GrantInv`), rows carry secrets that were generated, no two the same one (`RowInv`),
and a secret still to be exchanged has not been (`SecretInv`). `SingleGrant`,
`ApprovedGrants`, `SingleExchange` and `RevokedStaysRevoked` follow. `OvershootBound`, for
finitely many calls, adds `RoomInv`: rows that are usable, or will be after a
rotation, plus inserts under way never pass the limit plus the other calls.
`Refinement` maps every statement to a step of `McpGrants` or none; the insert is the
step that connects, for which `GrantInv` says that the request has no connection
yet, and the rotation the one that exchanges, for which `SecretInv` says that the
secret is unspent.

**`ContextAnalysisProofs`.** `AnalysisInvariant`: every copy of the row, in a handler
or a poll, is one whose failed batches carry an error (`SoundRow`); without a recorded
failure no result is an error (`ErrorsAreKnown`); a finaliser that decided to complete
knows every result its copy has (`GatherKnows`). `FinalizedIsComplete` follows. Two
results stand under `EndsForGood` and `FinalizerStops`. `StaysEnded` (an action
property): with the row ended and no handler holding a running copy of it, no step
brings `running` back, so a revival always takes a handler that read before the end;
the poll's save cannot. `FinalizersWithinFaults` (finitely many handlers) counts
waiting finaliser jobs and handlers that finalise: a re-queue passes its place on, a
retry takes the place of the handler that failed, and whatever adds one (a lost
handler whose job runs again, a second job that hands out batches) is a fault.

**`BillingProofs`.** The counter equals what was counted (`EveryMailCounted`), and the
mails let through plus the counted calls that have not answered yet never exceed
the counter (`UnansweredAreCounted`); with `PeakIsHighest` this gives `WithinLimit`.
Two action properties say what a stale save can do to the plan. `TrialStaysOver`: an
elapsed trial that is over comes back only if a call that read it before saves it.
`PaidIsKept`: with no call holding an older copy, a paid plan ends only through a
webhook or an admin's tool. Both follow from `PlanStep`, which lists where a step can
take the plan from; `PaidStaysPaid` in `MCBilling` is what the code breaks without the
condition on older copies.

**`SnoozeProofs`.** `SnoozeInvariant`: workers hold active jobs of their own
(`QueueInv`), and an unsnooze job or a listed thread exists only after a moment has
passed (`DueInv`); `EndsOnlyExpired` follows. `NotLostWhileAway` is the safety half of
`ComesHome`: a thread snoozed once, by itself, is away at the provider only while its
row is snoozed, whatever fails, and its mails are flagged no longer than the row is
snoozed or an unsnooze job exists, unless more failed than its retries cover. The
reasons are orders of statements (`Away`: the request writes the row first, the job
the provider first and the mails last) and a count (`RetriesAreFaults`). `StaysHome`
(an action property) is the rest of it: a thread that is home in all three places,
with no request or arrival under way, stays there through late, duplicate and retried
unsnooze jobs, scans that listed it earlier and failures, until a request or a new
mail.

Each proof has a lemma per helper that says what it does to the variables it
writes, a lemma per part of the invariant or group of actions with one step per
action, and a temporal step at the end.

Only model-checked: all liveness (`EverySendSettles`, `DueIsSettled`, `ClaimSettles`,
`Settles`, `UnsyncedIsBrief`, `FinalizerStops`, `EndsForGood`, `OverLimitIsBrief`,
`TrialEnds`, `SnoozeEnds`, `ComesHome`, `RefinementEnds`), which is out of the
prover's reach, and `PriorityRefinement`, whose one question is of that kind; its type
invariant is checked with it. Every other property a run checks is a theorem. Of
several liveness properties the safety half is one as well. `NoSendLeftBehind`
(`EverySendSettles`), `ClaimIsHeld` (`ClaimSettles`), `UnsyncedHasJob`
(`UnsyncedIsBrief`) and `AwayIsExpected` (`ComesHome`) say that whoever makes progress
is always there; `QuietRunConverges` (`Settles`) that each step of a run makes it;
`StaysAgreed`, `StaysHome`, `StaysEnded` and `TrialStaysOver` that what was reached is
kept. Fairness of the actor is what the runs add.

Four theorems state properties no run lists because a refinement the runs check says
as much: `BoundedReplies` (`RepliesBounded`) and `AnsweredOnce` (`AnsweredStays`; in
`ReplyLedger` only `Answer` confirms, within the account), `ApprovedGrants`
(`GrantsAreApproved`; only `approved` leads to `granted`) and `ClosedForGood`
(`ClosedStaysClosed`; only a pending message is handed out).

## 5. What is left out
Message contents, encryption, attachments, the LLM's answers, rendering, rate limits
and the HTTP layer. pg-boss, PostgreSQL, Pusher and the mail providers are modelled
from how the code uses them. In the send queue, which provider an account uses; in the
auto-responder, the conditions that read only the mail (they are one choice) and what
the sync does with the guard the job sets; in `ThreadSync`, that guard (for 24 hours
the sync does not archive a thread that was answered, `email-thread.service.ts:251`),
the cap of 500 threads on the listings of its last pass (`gmail-sync.service.ts:553`:
an inbox thread beyond it is taken for archived), the moment between the star pass's
read of the rows and its UPDATE (`email-thread.service.ts:323`, `:369`: one step
here), blocked senders, read status, deletion, threads missing at the provider,
providers other than Gmail, two syncs at once, threads older than the sync window, and
handlers that outlive their job; in `Snooze`, accounts without a provider; in
`PriorityRefinement`, the Lambda path (off unless `USE_LAMBDA_PRIORITISATION` is set)
with its finaliser, forced recalculations, the star-promotion job, the repair on inbox
load, category columns and the drain of deferred threads; in `McpOAuth`, client
registration and the audit log; in `ContextAnalysis`, thread counts and percentages;
in `Billing`, seats and members' own subscriptions.

### Not modelled
Follow-ups and the start of onboarding (small protocols, next in the plan); data
re-encryption (a walk over every table, which needs a model of the encrypted
columns first). The remaining components hold no protocol of their own: CRUD on
independent rows, calls of external services, presentation, deployment.
`PROJECT.json` has the reason for each.

## 6. Plan
1. `FollowUps`: the bulk send without a claim; copies bounded by jobs.
2. `PriorityRefinement`: two handlers in a run of its own, the Lambda path with its
   finaliser, and a proof that a score is lost only to a stale save.
3. Re-encryption: rows written while the migration walks the tables.
4. Composition: `Snooze` and `ThreadSync` over one row, whose saves overwrite each
   other's columns.
5. Proofs: for an analysis what `NoSendLeftBehind` is for a send (a running row is
   always within reach of a job, a poll or the cleanup), and the walk of the Stripe
   webhooks towards the plan that `OverLimitIsBrief` waits for.
