------------------------------ MODULE ThreadSync ------------------------------
(***************************************************************************)
(* One thread of a Gmail mailbox: its email_threads row, the provider's    *)
(* labels, the user's archive and star requests, the archive job and the   *)
(* periodic sync that compares the two sides.  Every database statement,   *)
(* provider call and queue call is a step of its own.  An entity that is   *)
(* read and saved again writes back every column it was read with.         *)
(*                                                                         *)
(* syncStatus unsynced says that the provider has yet to confirm what the  *)
(* user did; the sync's UPDATEs are meant to leave such a row alone.       *)
(***************************************************************************)
EXTENDS Naturals

CONSTANTS
    Levels,      \* star levels a user may set
    Jobs,        \* pg-boss job slots (bound)
    NoJob,       \* no job
    RetryLimit,  \* retryLimit of the archive job
    MaxArchives, \* archive requests (bound)
    MaxStars,    \* star requests (bound)
    MaxMails,    \* new mails in the thread (bound)
    MaxMoves,    \* changes the user makes at the provider (bound)
    MaxFaults    \* failed calls and crashes (bound)

ASSUME ThreadAssumption ==
    /\ Levels \subseteq 0..3
    /\ NoJob \notin Jobs
    /\ {RetryLimit, MaxArchives, MaxStars, MaxMails, MaxMoves, MaxFaults} \subseteq Nat

VARIABLES
    row,      \* the email_threads row
    prov,     \* the provider: INBOX and STARRED labels, mails in the thread
    stored,   \* mails with an emails row
    archiver, \* the archive request in progress
    starrer,  \* the star request in progress
    job,      \* archive-email-provider-sync jobs; the key tells wasStarred
    window,   \* the singletonSeconds window of the last job is open
    worker,   \* the archive job's handler
    syncer,   \* the sync run
    spent     \* how much of each bound is used up

vars == <<row, prov, stored, archiver, starrer, job, window, worker, syncer, spent>>

Kinds == {"plain", "starred"}

INSTANCE JobQueue WITH Keys <- Kinds, NoKey <- "none"

(***************************************************************************)
(* Types                                                                   *)
(***************************************************************************)

SyncStatus == {"synced", "unsynced"}

Row == [archived: BOOLEAN, star: 0..3, sync: SyncStatus, userOp: BOOLEAN]

FreshRow == [archived |-> FALSE, star |-> 0, sync |-> "synced", userOp |-> FALSE]

Archiver == [pc: {"idle", "findStar", "saveStar", "find", "save", "enqueue"},
             bulk: BOOLEAN, wasStarred: BOOLEAN, copy: Row]

IdleArchiver == [pc |-> "idle", bulk |-> FALSE, wasStarred |-> FALSE, copy |-> FreshRow]

Starrer == [pc: {"idle", "find", "save", "mark", "provider", "confirm"},
            level: 0..3, copy: Row]

IdleStarrer == [pc |-> "idle", level |-> 0, copy |-> FreshRow]

Worker == [pc: {"idle", "archive", "unstar", "confirm"}, job: Jobs \cup {NoJob},
           wasStarred: BOOLEAN]

IdleWorker == [pc |-> "idle", job |-> NoJob, wasStarred |-> FALSE]

\* What a sync run knows of the thread: its labels as the provider gave them.
Labels == [archived: BOOLEAN, star: {0, 3}]

SyncPC == {"idle", "rows", "thread", "findMail", "saveMail", "saveAgain", "stars",
           "archived", "starred", "inbox", "all", "last"}

Syncer == [pc: SyncPC, listed: BOOLEAN, continuation: BOOLEAN, differs: BOOLEAN,
           got: Labels, mails: 0..MaxMails, copy: Row]

IdleSyncer == [pc |-> "idle", listed |-> FALSE, continuation |-> FALSE, differs |-> FALSE,
               got |-> [archived |-> FALSE, star |-> 0], mails |-> 0, copy |-> FreshRow]

Init ==
    /\ row = FreshRow
    /\ prov = [inbox |-> TRUE, starred |-> FALSE, mails |-> 0]
    /\ stored = 0
    /\ archiver = IdleArchiver
    /\ starrer = IdleStarrer
    /\ JobInit
    /\ window = FALSE
    /\ worker = IdleWorker
    /\ syncer = IdleSyncer
    /\ spent = [archives |-> 0, stars |-> 0, moves |-> 0, faults |-> 0]

Spend(kind, max) ==
    /\ spent[kind] < max
    /\ spent' = [spent EXCEPT ![kind] = @ + 1]

Fault == Spend("faults", MaxFaults)

(***************************************************************************)
(* archiveEmail, bulkArchiveEmails, archiveThreadById                      *)
(***************************************************************************)

\* The request reads the thread to see whether it is starred.
BeginArchive(bulk) ==
    /\ archiver.pc = "idle"
    /\ Spend("archives", MaxArchives)
    /\ archiver' = [archiver EXCEPT !.pc = IF row.star > 0 THEN "findStar" ELSE "find",
                                    !.bulk = bulk, !.wasStarred = row.star > 0]
    /\ UNCHANGED <<row, prov, stored, starrer, job, window, worker, syncer>>

\* updateThreadStarCount(0) reads the thread once more ...
UnstarFinds ==
    /\ archiver.pc = "findStar" /\ ~archiver.bulk
    /\ archiver' = [archiver EXCEPT !.pc = IF row.star = 0 THEN "find" ELSE "saveStar",
                                    !.copy = row]
    /\ UNCHANGED <<row, prov, stored, starrer, job, window, worker, syncer, spent>>

\* ... and saves it.
UnstarSaves ==
    /\ archiver.pc = "saveStar"
    /\ row' = [archiver.copy EXCEPT !.star = 0]
    /\ archiver' = [archiver EXCEPT !.pc = "find"]
    /\ UNCHANGED <<prov, stored, starrer, job, window, worker, syncer, spent>>

\* bulkArchiveEmails updates the one column.
BulkUnstar ==
    /\ archiver.pc = "findStar" /\ archiver.bulk
    /\ row' = [row EXCEPT !.star = 0]
    /\ archiver' = [archiver EXCEPT !.pc = "find"]
    /\ UNCHANGED <<prov, stored, starrer, job, window, worker, syncer, spent>>

ByUser(r) == [r EXCEPT !.archived = TRUE, !.userOp = TRUE, !.sync = "unsynced"]

\* updateThreadArchivedStatus reads the thread ...
ArchiveFinds ==
    /\ archiver.pc = "find" /\ ~archiver.bulk
    /\ archiver' = [archiver EXCEPT !.pc = "save", !.copy = row]
    /\ UNCHANGED <<row, prov, stored, starrer, job, window, worker, syncer, spent>>

\* ... and saves it archived.
ArchiveSaves ==
    /\ archiver.pc = "save"
    /\ row' = ByUser(archiver.copy)
    /\ archiver' = [archiver EXCEPT !.pc = "enqueue"]
    /\ UNCHANGED <<prov, stored, starrer, job, window, worker, syncer, spent>>

BulkArchives ==
    /\ archiver.pc = "find" /\ archiver.bulk
    /\ row' = ByUser(row)
    /\ archiver' = [archiver EXCEPT !.pc = "enqueue"]
    /\ UNCHANGED <<prov, stored, starrer, job, window, worker, syncer, spent>>

\* boss.send: a second job within five minutes is dropped.
EnqueueArchive ==
    /\ archiver.pc = "enqueue"
    /\ IF window THEN UNCHANGED job ELSE Enqueue(IF archiver.wasStarred THEN "starred" ELSE "plain")
    /\ window' = TRUE
    /\ archiver' = IdleArchiver
    /\ UNCHANGED <<row, prov, stored, starrer, worker, syncer, spent>>

\* A send that fails is logged; a crash before it loses the job as well.
EnqueueLost ==
    /\ archiver.pc = "enqueue"
    /\ Fault
    /\ archiver' = IdleArchiver
    /\ UNCHANGED <<row, prov, stored, starrer, job, window, worker, syncer>>

WindowCloses ==
    /\ window
    /\ window' = FALSE
    /\ UNCHANGED <<row, prov, stored, archiver, starrer, job, worker, syncer, spent>>

(***************************************************************************)
(* setStarCount, toggleStar                                                *)
(***************************************************************************)

BeginStar(level) ==
    /\ starrer.pc = "idle"
    /\ Spend("stars", MaxStars)
    /\ starrer' = [starrer EXCEPT !.pc = "find", !.level = level]
    /\ UNCHANGED <<row, prov, stored, archiver, job, window, worker, syncer>>

StarFinds ==
    /\ starrer.pc = "find"
    /\ starrer' = [starrer EXCEPT !.pc = IF row.star = starrer.level THEN "mark" ELSE "save",
                                  !.copy = row]
    /\ UNCHANGED <<row, prov, stored, archiver, job, window, worker, syncer, spent>>

StarSaves ==
    /\ starrer.pc = "save"
    /\ row' = [starrer.copy EXCEPT !.star = starrer.level]
    /\ starrer' = [starrer EXCEPT !.pc = "mark"]
    /\ UNCHANGED <<prov, stored, archiver, job, window, worker, syncer, spent>>

StarMarks ==
    /\ starrer.pc = "mark"
    /\ row' = [row EXCEPT !.sync = "unsynced"]
    /\ starrer' = [starrer EXCEPT !.pc = "provider"]
    /\ UNCHANGED <<prov, stored, archiver, job, window, worker, syncer, spent>>

StarReachesProvider ==
    /\ starrer.pc = "provider"
    /\ prov' = [prov EXCEPT !.starred = starrer.level > 0]
    /\ starrer' = [starrer EXCEPT !.pc = "confirm"]
    /\ UNCHANGED <<row, stored, archiver, job, window, worker, syncer, spent>>

StarConfirms ==
    /\ starrer.pc = "confirm"
    /\ row' = [row EXCEPT !.sync = "synced"]
    /\ starrer' = IdleStarrer
    /\ UNCHANGED <<prov, stored, archiver, job, window, worker, syncer, spent>>

\* The provider call fails and is only logged, or the request dies.
StarFails ==
    /\ starrer.pc \in {"provider", "confirm"}
    /\ Fault
    /\ starrer' = IdleStarrer
    /\ UNCHANGED <<row, prov, stored, archiver, job, window, worker, syncer>>

(***************************************************************************)
(* handleArchiveProviderSync                                               *)
(***************************************************************************)

Fetch(j) ==
    /\ worker.pc = "idle"
    /\ FetchJob(j)
    /\ worker' = [pc |-> "archive", job |-> j, wasStarred |-> job[j].key = "starred"]
    /\ UNCHANGED <<row, prov, stored, archiver, starrer, window, syncer, spent>>

\* archiveThread takes INBOX off the thread, whatever has arrived in it.
WorkerArchives ==
    /\ worker.pc = "archive"
    /\ prov' = [prov EXCEPT !.inbox = FALSE]
    /\ worker' = [worker EXCEPT !.pc = IF worker.wasStarred THEN "unstar" ELSE "confirm"]
    /\ UNCHANGED <<row, stored, archiver, starrer, job, window, syncer, spent>>

\* removeStarFromThread; its errors are swallowed.
WorkerUnstars ==
    /\ worker.pc = "unstar"
    /\ \/ prov' = [prov EXCEPT !.starred = FALSE] /\ UNCHANGED spent
       \/ Fault /\ UNCHANGED prov
    /\ worker' = [worker EXCEPT !.pc = "confirm"]
    /\ UNCHANGED <<row, stored, archiver, starrer, job, window, syncer>>

\* Mutant: an archive that took the star off as well is left unconfirmed.
WorkerConfirmsPlain ==
    /\ worker.pc = "confirm"
    /\ row' = IF worker.wasStarred THEN row ELSE [row EXCEPT !.sync = "synced"]
    /\ job' = Completed(worker.job)
    /\ worker' = IdleWorker
    /\ UNCHANGED <<prov, stored, archiver, starrer, window, syncer, spent>>

\* markThreadSyncStatus looks at nothing but the thread's id.
WorkerConfirms ==
    /\ worker.pc = "confirm"
    /\ row' = [row EXCEPT !.sync = "synced"]
    /\ job' = Completed(worker.job)
    /\ worker' = IdleWorker
    /\ UNCHANGED <<prov, stored, archiver, starrer, window, syncer, spent>>

WorkerThrows ==
    /\ worker.pc # "idle"
    /\ Fault
    /\ job' = Failed(worker.job)
    /\ worker' = IdleWorker
    /\ UNCHANGED <<row, prov, stored, archiver, starrer, window, syncer>>

(***************************************************************************)
(* The provider                                                            *)
(***************************************************************************)

\* A new mail brings the thread back to the inbox.
MailArrives ==
    /\ prov.mails < MaxMails
    /\ prov' = [prov EXCEPT !.mails = @ + 1, !.inbox = TRUE]
    /\ UNCHANGED <<row, stored, archiver, starrer, job, window, worker, syncer, spent>>

\* The user archives, restores, stars or unstars the thread in Gmail.
MoveAtProvider(inbox, starred) ==
    /\ <<inbox, starred>> # <<prov.inbox, prov.starred>>
    /\ Spend("moves", MaxMoves)
    /\ prov' = [prov EXCEPT !.inbox = inbox, !.starred = starred]
    /\ UNCHANGED <<row, stored, archiver, starrer, job, window, worker, syncer>>

(***************************************************************************)
(* performSync                                                             *)
(***************************************************************************)

\* A recent thread is listed while it is in the inbox, and as long as a mail
\* the user sent in it is recent.  A continuation job skips the last passes.
SyncLists(listed, continuation) ==
    /\ syncer.pc = "idle"
    /\ prov.inbox => listed
    /\ continuation => listed
    /\ syncer' = [syncer EXCEPT !.pc = IF listed THEN "rows" ELSE "starred",
                                !.listed = listed, !.continuation = continuation]
    /\ UNCHANGED <<row, prov, stored, archiver, starrer, job, window, worker, spent>>

\* getThreadsByThreadIds
SyncReadsRows ==
    /\ syncer.pc = "rows"
    /\ syncer' = [syncer EXCEPT !.pc = "thread", !.copy = row]
    /\ UNCHANGED <<row, prov, stored, archiver, starrer, job, window, worker, spent>>

ProviderLabels == [archived |-> ~prov.inbox, star |-> IF prov.starred THEN 3 ELSE 0]

Differs(r, labels) == r.archived # labels.archived \/ r.star # labels.star

\* threads.get, compared with the row as it was read.
SyncReadsThread ==
    /\ syncer.pc = "thread"
    /\ syncer' = [syncer EXCEPT !.pc = IF stored < prov.mails THEN "findMail" ELSE "stars",
                                !.got = ProviderLabels, !.mails = prov.mails,
                                !.differs = Differs(syncer.copy, ProviderLabels),
                                !.copy = FreshRow]
    /\ UNCHANGED <<row, prov, stored, archiver, starrer, job, window, worker, spent>>

\* getOrCreateEmailThread for a new mail reads the thread ...
MailFinds ==
    /\ syncer.pc = "findMail"
    /\ syncer' = [syncer EXCEPT !.pc = "saveMail", !.copy = row]
    /\ UNCHANGED <<row, prov, stored, archiver, starrer, job, window, worker, spent>>

\* ... and saves it unarchived, the user's operation forgotten.
Revived(r, star) ==
    IF r.userOp
    THEN [r EXCEPT !.archived = FALSE, !.userOp = FALSE, !.sync = "synced"]
    ELSE [r EXCEPT !.archived = FALSE, !.star = star]

MailSaves ==
    /\ syncer.pc = "saveMail"
    /\ LET revived == Revived(syncer.copy, syncer.got.star)
       IN  /\ row' = IF revived = syncer.copy THEN row ELSE revived
           /\ syncer' = [syncer EXCEPT !.pc = "saveAgain", !.copy = revived]
    /\ UNCHANGED <<prov, stored, archiver, starrer, job, window, worker, spent>>

\* createEmail saves the same entity once more, with its processing flags, and
\* then the mail.
MailSavesAgain ==
    /\ syncer.pc = "saveAgain"
    /\ row' = syncer.copy
    /\ stored' = stored + 1
    /\ syncer' = [syncer EXCEPT !.pc = IF stored' < syncer.mails THEN "findMail" ELSE "stars",
                                !.copy = FreshRow]
    /\ UNCHANGED <<prov, archiver, starrer, job, window, worker, spent>>

\* batchUpdateThreadStarCount: the UPDATE has no syncStatus condition.
SyncAppliesStars ==
    /\ syncer.pc = "stars"
    /\ row' = IF syncer.differs THEN [row EXCEPT !.star = syncer.got.star] ELSE row
    /\ syncer' = [syncer EXCEPT !.pc = "archived"]
    /\ UNCHANGED <<prov, stored, archiver, starrer, job, window, worker, spent>>

AfterArchived == IF syncer.continuation THEN IdleSyncer ELSE [syncer EXCEPT !.pc = "starred"]

\* Mutant: the UPDATE takes unsynced rows as well.
SyncArchivesAny ==
    /\ syncer.pc = "archived"
    /\ row' = IF syncer.differs THEN [row EXCEPT !.archived = syncer.got.archived] ELSE row
    /\ syncer' = AfterArchived
    /\ UNCHANGED <<prov, stored, archiver, starrer, job, window, worker, spent>>

\* Mutant: a thread back in the inbox stays archived.
SyncArchivesOnly ==
    /\ syncer.pc = "archived"
    /\ row' = IF syncer.differs /\ row.sync = "synced" /\ syncer.got.archived
              THEN [row EXCEPT !.archived = TRUE]
              ELSE row
    /\ syncer' = AfterArchived
    /\ UNCHANGED <<prov, stored, archiver, starrer, job, window, worker, spent>>

\* batchUpdateThreadArchivedStatuses
SyncAppliesArchived ==
    /\ syncer.pc = "archived"
    /\ row' = IF syncer.differs /\ row.sync = "synced"
              THEN [row EXCEPT !.archived = syncer.got.archived]
              ELSE row
    /\ syncer' = AfterArchived
    /\ UNCHANGED <<prov, stored, archiver, starrer, job, window, worker, spent>>

\* checkExistingStarredThreads: a starred row the listing missed is looked up.
SyncChecksStarred ==
    /\ syncer.pc = "starred"
    /\ syncer' = IF row.star > 0 /\ ~syncer.listed
                 THEN [syncer EXCEPT !.pc = "stars", !.listed = TRUE, !.differs = TRUE,
                                     !.got = ProviderLabels]
                 ELSE [syncer EXCEPT !.pc = "inbox"]
    /\ UNCHANGED <<row, prov, stored, archiver, starrer, job, window, worker, spent>>

\* syncThreadArchivedStatus lists the inbox and its starred threads ...
SyncListsInbox ==
    /\ syncer.pc = "inbox"
    /\ syncer' = [syncer EXCEPT !.pc = "all",
                                !.got = IF prov.inbox THEN ProviderLabels
                                        ELSE [archived |-> TRUE, star |-> 0]]
    /\ UNCHANGED <<row, prov, stored, archiver, starrer, job, window, worker, spent>>

\* ... reads all rows ...
SyncReadsAll ==
    /\ syncer.pc = "all"
    /\ syncer' = IF row.sync = "synced" /\ Differs(row, syncer.got)
                 THEN [syncer EXCEPT !.pc = "last"]
                 ELSE IdleSyncer
    /\ UNCHANGED <<row, prov, stored, archiver, starrer, job, window, worker, spent>>

\* ... and archives, stars and unstars those still synced.
Aligned(r, labels) ==
    [r EXCEPT !.archived = @ \/ labels.archived,
              !.star = IF labels.star > 0 THEN 3 ELSE IF labels.archived THEN @ ELSE 0]

SyncAlignsAll ==
    /\ syncer.pc = "last"
    /\ row' = IF row.sync = "synced" THEN Aligned(row, syncer.got) ELSE row
    /\ syncer' = IdleSyncer
    /\ UNCHANGED <<prov, stored, archiver, starrer, job, window, worker, spent>>

\* An error while the thread is read or its mails are stored is swallowed:
\* the passes go on with what was found by then.
SyncSkipsThread ==
    /\ syncer.pc \in {"thread", "findMail", "saveMail", "saveAgain"}
    /\ Fault
    /\ syncer' = [syncer EXCEPT !.pc = "stars", !.copy = FreshRow]
    /\ UNCHANGED <<row, prov, stored, archiver, starrer, job, window, worker>>

\* Another call of the sync fails; the next run starts over.
SyncFails ==
    /\ syncer.pc # "idle"
    /\ Fault
    /\ syncer' = IdleSyncer
    /\ UNCHANGED <<row, prov, stored, archiver, starrer, job, window, worker>>

(***************************************************************************)
(* The specification                                                       *)
(***************************************************************************)

ArchiveSteps ==
    \/ UnstarFinds \/ UnstarSaves \/ BulkUnstar
    \/ ArchiveFinds \/ ArchiveSaves \/ BulkArchives \/ EnqueueArchive

StarSteps == StarFinds \/ StarSaves \/ StarMarks \/ StarReachesProvider \/ StarConfirms

WorkerSteps ==
    \/ \E j \in Jobs : Fetch(j)
    \/ WorkerArchives \/ WorkerUnstars \/ WorkerConfirms

StoreSteps == MailFinds \/ MailSaves \/ MailSavesAgain

PassSteps ==
    \/ \E listed, continuation \in BOOLEAN : SyncLists(listed, continuation)
    \/ SyncReadsRows \/ SyncReadsThread \/ SyncAppliesStars \/ SyncAppliesArchived
    \/ SyncChecksStarred \/ SyncListsInbox \/ SyncReadsAll \/ SyncAlignsAll

Faults == EnqueueLost \/ StarFails \/ WorkerThrows \/ SyncSkipsThread \/ SyncFails

Requests ==
    \/ \E bulk \in BOOLEAN : BeginArchive(bulk)
    \/ \E level \in Levels : BeginStar(level)
    \/ MailArrives
    \/ \E inbox, starred \in BOOLEAN : MoveAtProvider(inbox, starred)

Next ==
    \/ ArchiveSteps \/ StarSteps \/ WorkerSteps \/ StoreSteps \/ PassSteps
    \/ WindowCloses \/ Faults \/ Requests

Spec == Init /\ [][Next]_vars

\* Requests, workers and the sync keep running; full runs of the sync are
\* scheduled again and again.
FairSpec ==
    /\ Spec
    /\ WF_vars(ArchiveSteps) /\ WF_vars(StarSteps) /\ WF_vars(WorkerSteps)
    /\ WF_vars(StoreSteps \/ PassSteps)
    /\ SF_vars(\E listed \in BOOLEAN : SyncLists(listed, FALSE))

(***************************************************************************)
(* Properties                                                              *)
(***************************************************************************)

TypeOK ==
    /\ row \in Row
    /\ prov \in [inbox: BOOLEAN, starred: BOOLEAN, mails: 0..MaxMails]
    /\ stored \in 0..MaxMails
    /\ archiver \in Archiver
    /\ starrer \in Starrer
    /\ job \in [Jobs -> JobType]
    /\ window \in BOOLEAN
    /\ worker \in Worker
    /\ syncer \in Syncer
    /\ spent \in [archives: 0..MaxArchives, stars: 0..MaxStars,
                  moves: 0..MaxMoves, faults: 0..MaxFaults]

\* However a sync run's snapshots have aged, none of its passes changes the
\* archive flag of a row that holds an unconfirmed user action.
ArchiveIsAuthoritative ==
    [][PassSteps /\ row.sync = "unsynced" => row'.archived = row.archived]_vars

\* When the user, the provider and the faults come to rest, the row agrees
\* with the provider unless it stays unsynced: on the inbox, and for a thread
\* in the inbox on whether it is starred.
Settles ==
    <>[](row.sync = "synced" =>
            /\ row.archived = ~prov.inbox
            /\ prov.inbox => ((row.star > 0) = prov.starred))

\* An archive that was queued reaches the provider and is confirmed.
UnsyncedIsBrief == row.sync = "unsynced" ~> row.sync = "synced"

=============================================================================
