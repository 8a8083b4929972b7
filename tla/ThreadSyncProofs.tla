--------------------------- MODULE ThreadSyncProofs ---------------------------
(***************************************************************************)
(* Proofs about ThreadSync, for any star levels, job slots, retries,       *)
(* requests, mails, moves and faults.                                      *)
(*                                                                         *)
(* TypeOK is not inductive alone.  The worker gives back a slot it holds   *)
(* (WorkerInv), and the sync stores a mail only while it still lacks one   *)
(* of those it listed (StoreInv), so it never stores more than arrived.    *)
(* That an unconfirmed archive always has its job needs what each copy of  *)
(* the row says of the mark (Marked).  That the row settles is liveness;   *)
(* its safety half is that an undisturbed run of the sync stays on course  *)
(* (OnTrack) and that nothing but the user or a new mail undoes the result *)
(* (AtRest).                                                               *)
(***************************************************************************)
EXTENDS ThreadSync, TLAPS

WorkerInv == worker.pc # "idle" => worker.job \in Jobs

StoreInv == syncer.pc \in {"findMail", "saveMail", "saveAgain"} => stored < syncer.mails

IInv == TypeOK /\ WorkerInv /\ StoreInv

\* The row of a new thread is a row.
LEMMA FreshType == FreshRow \in Row
  BY DEF FreshRow, Row, SyncStatus

\* An actor that has nothing to do has the type of that actor.
LEMMA IdleType ==
  /\ IdleArchiver \in Archiver
  /\ IdleStarrer \in Starrer
  /\ IdleWorker \in Worker /\ IdleWorker.pc = "idle"
  /\ IdleSyncer \in Syncer /\ IdleSyncer.pc = "idle"
<1>1. IdleArchiver \in Archiver
  BY FreshType DEF IdleArchiver, Archiver
<1>2. IdleStarrer \in Starrer
  BY FreshType DEF IdleStarrer, Starrer
<1>3. IdleWorker \in Worker /\ IdleWorker.pc = "idle"
  BY DEF IdleWorker, Worker
<1>4. IdleSyncer \in Syncer /\ IdleSyncer.pc = "idle"
  <2>1. [archived |-> FALSE, star |-> 0] \in Labels
    BY DEF Labels
  <2>2. 0 \in 0..MaxMails
    BY ThreadAssumption DEF ThreadAssumption
  <2> QED BY <2>1, <2>2, FreshType DEF IdleSyncer, Syncer, SyncPC
<1> QED BY <1>1, <1>2, <1>3, <1>4

\* The columns a statement sets keep the row a row.
LEMMA RowType ==
  ASSUME NEW r \in Row
  PROVE  /\ \A b \in BOOLEAN : [r EXCEPT !.archived = b] \in Row
         /\ \A n \in 0..3 : [r EXCEPT !.star = n] \in Row
         /\ \A x \in SyncStatus : [r EXCEPT !.sync = x] \in Row
         /\ ByUser(r) \in Row
         /\ \A labels \in Labels : Revived(r, labels.star) \in Row /\ Aligned(r, labels) \in Row
<1>1. /\ \A b \in BOOLEAN : [r EXCEPT !.archived = b] \in Row
      /\ \A n \in 0..3 : [r EXCEPT !.star = n] \in Row
      /\ \A x \in SyncStatus : [r EXCEPT !.sync = x] \in Row
  BY DEF Row
<1>2. ByUser(r) \in Row
  BY DEF ByUser, Row, SyncStatus
<1>3. ASSUME NEW labels \in Labels
      PROVE  Revived(r, labels.star) \in Row /\ Aligned(r, labels) \in Row
  <2>1. labels.star \in 0..3 /\ labels.archived \in BOOLEAN
    BY DEF Labels
  <2>2. Revived(r, labels.star) \in Row
    <3>1. CASE r.userOp
      BY <3>1 DEF Revived, Row, SyncStatus
    <3>2. CASE ~r.userOp
      BY <2>1, <3>2 DEF Revived, Row
    <3> QED BY <3>1, <3>2
  <2>3. (r.archived \/ labels.archived) \in BOOLEAN
    OBVIOUS
  <2>4. (IF labels.star > 0 THEN 3 ELSE IF labels.archived THEN r.star ELSE 0) \in 0..3
    BY DEF Row
  <2>5. Aligned(r, labels) \in Row
    BY <2>3, <2>4 DEF Aligned, Row
  <2> QED BY <2>2, <2>5
<1> QED BY <1>1, <1>2, <1>3

\* The initial state satisfies the invariant.
LEMMA InitInv == ASSUME Init PROVE IInv
<1>1. job \in [Jobs -> JobType]
  BY ThreadAssumption DEF ThreadAssumption, Init, JobInit, FreeJob, JobType, JobState
<1>2. /\ prov \in [inbox: BOOLEAN, starred: BOOLEAN, mails: 0..MaxMails]
      /\ stored \in 0..MaxMails
      /\ spent \in [archives: 0..MaxArchives, stars: 0..MaxStars,
                    moves: 0..MaxMoves, faults: 0..MaxFaults]
  BY ThreadAssumption DEF ThreadAssumption, Init
<1> QED
  BY <1>1, <1>2, FreshType, IdleType DEF Init, IInv, TypeOK, WorkerInv, StoreInv

\* A cap that is spent stays within its bound.
LEMMA SpendType ==
  ASSUME TypeOK,
         \/ Spend("archives", MaxArchives) \/ Spend("stars", MaxStars)
         \/ Spend("moves", MaxMoves) \/ Fault
  PROVE  spent' \in [archives: 0..MaxArchives, stars: 0..MaxStars,
                     moves: 0..MaxMoves, faults: 0..MaxFaults]
  BY ThreadAssumption DEF ThreadAssumption, TypeOK, Spend, Fault

\* Sending, fetching, completing and failing keep the queue well-formed.
LEMMA QueueType ==
  ASSUME TypeOK,
         \/ \E k \in Kinds : Enqueue(k)
         \/ \E j \in Jobs : FetchJob(j) \/ job' = Completed(j) \/ job' = Failed(j)
  PROVE  job' \in [Jobs -> JobType]
<1> USE DEF TypeOK, JobType, JobState, FreeJob
<1>1. ASSUME NEW k \in Kinds, Enqueue(k) PROVE job' \in [Jobs -> JobType]
  <2>1. [state |-> "ready", key |-> k, retries |-> 0] \in JobType
    BY <1>1, ThreadAssumption DEF ThreadAssumption
  <2> QED BY <1>1, <2>1 DEF Enqueue
<1>2. ASSUME NEW j \in Jobs, FetchJob(j) PROVE job' \in [Jobs -> JobType]
  BY <1>2 DEF FetchJob
<1>3. ASSUME NEW j \in Jobs PROVE Completed(j) \in [Jobs -> JobType]
  BY ThreadAssumption DEF ThreadAssumption, Completed
<1>4. ASSUME NEW j \in Jobs PROVE Failed(j) \in [Jobs -> JobType]
  <2>1. CASE job[j].retries < RetryLimit
    <3>1. [state |-> "ready", key |-> job[j].key, retries |-> job[j].retries + 1] \in JobType
      BY <2>1, ThreadAssumption DEF ThreadAssumption
    <3> QED BY <2>1, <3>1 DEF Failed
  <2> QED BY <2>1, <1>3 DEF Failed
<1> QED BY <1>1, <1>2, <1>3, <1>4

(***************************************************************************)
(* One lemma per actor                                                     *)
(***************************************************************************)

\* Archive requests keep the invariant.
LEMMA ArchiverInv ==
  ASSUME IInv, ArchiveSteps \/ EnqueueLost \/ \E bulk \in BOOLEAN : BeginArchive(bulk)
  PROVE  IInv'
<1> USE DEF IInv, TypeOK, WorkerInv, StoreInv
<1>1. CASE UnstarFinds
  BY <1>1 DEF UnstarFinds, Archiver
<1>2. CASE UnstarSaves
  <2>1. archiver.copy \in Row  BY DEF Archiver
  <2>2. row' \in Row
    <3>1. 0 \in 0..3  OBVIOUS
    <3>2. [archiver.copy EXCEPT !.star = 0] \in Row
      BY <2>1, <3>1, RowType
    <3> QED BY <1>2, <3>2 DEF UnstarSaves
  <2>3. archiver' \in Archiver
    BY <1>2 DEF UnstarSaves, Archiver
  <2> QED BY <1>2, <2>2, <2>3 DEF UnstarSaves
<1>3. CASE BulkUnstar
  <2>1. row' \in Row
    <3>1. 0 \in 0..3  OBVIOUS
    <3>2. [row EXCEPT !.star = 0] \in Row
      BY <3>1, RowType
    <3> QED BY <1>3, <3>2 DEF BulkUnstar
  <2>2. archiver' \in Archiver
    BY <1>3 DEF BulkUnstar, Archiver
  <2> QED BY <1>3, <2>1, <2>2 DEF BulkUnstar
<1>4. CASE ArchiveFinds
  BY <1>4 DEF ArchiveFinds, Archiver
<1>5. CASE ArchiveSaves
  <2>1. archiver.copy \in Row  BY DEF Archiver
  <2> QED BY <1>5, <2>1, RowType DEF ArchiveSaves, Archiver
<1>6. CASE BulkArchives
  BY <1>6, RowType DEF BulkArchives, Archiver
<1>7. CASE EnqueueArchive
  <2>1. job' \in [Jobs -> JobType]
    BY <1>7, QueueType DEF EnqueueArchive, Kinds
  <2> QED BY <1>7, <2>1, IdleType DEF EnqueueArchive
<1>8. CASE EnqueueLost
  BY <1>8, IdleType, SpendType DEF EnqueueLost
<1>9. CASE \E bulk \in BOOLEAN : BeginArchive(bulk)
  <2>1. PICK bulk \in BOOLEAN : BeginArchive(bulk)  BY <1>9
  <2>2. (row.star > 0) \in BOOLEAN  OBVIOUS
  <2>3. archiver' \in Archiver
    BY <2>1, <2>2 DEF BeginArchive, Archiver
  <2>4. Spend("archives", MaxArchives)
    BY <2>1 DEF BeginArchive
  <2> QED BY <2>1, <2>3, <2>4, SpendType DEF BeginArchive
<1> QED
  BY <1>1, <1>2, <1>3, <1>4, <1>5, <1>6, <1>7, <1>8, <1>9 DEF ArchiveSteps

\* Star requests keep the invariant.
LEMMA StarrerInv ==
  ASSUME IInv, StarSteps \/ StarFails \/ \E level \in Levels : BeginStar(level)
  PROVE  IInv'
<1> USE DEF IInv, TypeOK, WorkerInv, StoreInv
<1>1. CASE StarFinds
  BY <1>1 DEF StarFinds, Starrer
<1>2. CASE StarSaves
  <2>1. starrer.copy \in Row /\ starrer.level \in 0..3  BY DEF Starrer
  <2> QED BY <1>2, <2>1, RowType DEF StarSaves, Starrer
<1>3. CASE StarMarks
  <2>1. row' \in Row
    BY <1>3, RowType DEF StarMarks, SyncStatus
  <2>2. starrer' \in Starrer
    BY <1>3 DEF StarMarks, Starrer
  <2> QED BY <1>3, <2>1, <2>2 DEF StarMarks
<1>4. CASE StarReachesProvider
  <2>1. (starrer.level > 0) \in BOOLEAN  OBVIOUS
  <2>2. prov' \in [inbox: BOOLEAN, starred: BOOLEAN, mails: 0..MaxMails]
    BY <1>4, <2>1 DEF StarReachesProvider
  <2>3. starrer' \in Starrer
    BY <1>4 DEF StarReachesProvider, Starrer
  <2> QED BY <1>4, <2>2, <2>3 DEF StarReachesProvider
<1>5. CASE StarConfirms
  BY <1>5, RowType, IdleType DEF StarConfirms, SyncStatus
<1>6. CASE StarFails
  BY <1>6, IdleType, SpendType DEF StarFails
<1>7. CASE \E level \in Levels : BeginStar(level)
  BY <1>7, SpendType, ThreadAssumption DEF ThreadAssumption, BeginStar, Starrer
<1> QED
  BY <1>1, <1>2, <1>3, <1>4, <1>5, <1>6, <1>7 DEF StarSteps

\* The archive job's handler keeps the invariant.
LEMMA HandlerInv ==
  ASSUME IInv, WorkerSteps \/ WorkerThrows
  PROVE  IInv'
<1> USE DEF IInv, TypeOK, WorkerInv, StoreInv
<1>1. CASE \E j \in Jobs : Fetch(j)
  <2>1. PICK j \in Jobs : Fetch(j)  BY <1>1
  <2>2. job' \in [Jobs -> JobType]
    BY <2>1, QueueType DEF Fetch
  <2>3. worker' \in Worker /\ worker'.job \in Jobs
    BY <2>1 DEF Fetch, Worker
  <2> QED BY <2>1, <2>2, <2>3 DEF Fetch
<1>2. CASE WorkerArchives
  BY <1>2 DEF WorkerArchives, Worker
<1>3. CASE WorkerUnstars
  <2>1. worker' \in Worker /\ worker'.job \in Jobs
    BY <1>3 DEF WorkerUnstars, Worker
  <2>2. /\ prov' \in [inbox: BOOLEAN, starred: BOOLEAN, mails: 0..MaxMails]
        /\ UNCHANGED spent \/ Fault
    BY <1>3 DEF WorkerUnstars
  <2> QED BY <1>3, <2>1, <2>2, SpendType DEF WorkerUnstars
<1>4. CASE WorkerConfirms
  <2>1. job' \in [Jobs -> JobType]
    BY <1>4, QueueType DEF WorkerConfirms
  <2> QED BY <1>4, <2>1, RowType, IdleType DEF WorkerConfirms, SyncStatus
<1>5. CASE WorkerThrows
  <2>1. job' \in [Jobs -> JobType]
    BY <1>5, QueueType DEF WorkerThrows
  <2> QED BY <1>5, <2>1, IdleType, SpendType DEF WorkerThrows
<1> QED
  BY <1>1, <1>2, <1>3, <1>4, <1>5 DEF WorkerSteps

\* Storing a mail keeps the invariant: one the sync listed is still missing.
LEMMA StoringInv ==
  ASSUME IInv, StoreSteps
  PROVE  IInv'
<1> USE DEF IInv, TypeOK, WorkerInv, StoreInv, Syncer
<1>1. CASE MailFinds
  BY <1>1 DEF MailFinds, SyncPC
<1>2. CASE MailSaves
  <2>1. Revived(syncer.copy, syncer.got.star) \in Row
    BY RowType
  <2>2. row' \in Row
    BY <1>2, <2>1 DEF MailSaves
  <2>3. syncer' = [syncer EXCEPT !.pc = "saveAgain",
                                 !.copy = Revived(syncer.copy, syncer.got.star)]
    BY <1>2 DEF MailSaves
  <2>4. syncer' \in Syncer /\ StoreInv'
    BY <1>2, <2>1, <2>3 DEF MailSaves, SyncPC
  <2> QED BY <1>2, <2>2, <2>4 DEF MailSaves
<1>3. CASE MailSavesAgain
  <2>1. stored < syncer.mails /\ stored' = stored + 1
    BY <1>3 DEF MailSavesAgain
  <2>2. stored' \in 0..MaxMails
    BY <2>1, ThreadAssumption DEF ThreadAssumption
  <2>3. row' \in Row
    BY <1>3 DEF MailSavesAgain
  <2>4. syncer' \in Syncer /\ StoreInv'
    BY <1>3, FreshType DEF MailSavesAgain, SyncPC
  <2> QED BY <1>3, <2>2, <2>3, <2>4 DEF MailSavesAgain
<1> QED BY <1>1, <1>2, <1>3 DEF StoreSteps

\* What the sync read at the provider has the type of what it may apply.
LEMMA ProviderLabelsType == ASSUME TypeOK PROVE ProviderLabels \in Labels
  BY DEF TypeOK, ProviderLabels, Labels

\* The other steps of the sync, failing ones included, keep the invariant.
LEMMA PassInv ==
  ASSUME IInv, PassSteps \/ SyncSkipsThread \/ SyncFails
  PROVE  IInv'
<1> USE DEF IInv, TypeOK, WorkerInv, Syncer
<1>1. UNCHANGED <<prov, stored, archiver, starrer, job, window, worker>>
  BY DEF PassSteps, SyncLists, SyncReadsRows, SyncReadsThread, SyncAppliesStars,
         SyncAppliesArchived, SyncChecksStarred, SyncListsInbox, SyncReadsAll, SyncAlignsAll,
         SyncSkipsThread, SyncFails
<1>2. row' \in Row
  <2>1. CASE SyncAppliesStars
    <3>1. syncer.got.star \in 0..3  BY DEF Labels
    <3> QED BY <2>1, <3>1, RowType DEF SyncAppliesStars
  <2>2. CASE SyncAppliesArchived
    <3>1. syncer.got.archived \in BOOLEAN  BY DEF Labels
    <3> QED BY <2>2, <3>1, RowType DEF SyncAppliesArchived
  <2>3. CASE SyncAlignsAll
    BY <2>3, RowType DEF SyncAlignsAll
  <2> QED
    BY <2>1, <2>2, <2>3
    DEF PassSteps, SyncLists, SyncReadsRows, SyncReadsThread, SyncChecksStarred,
        SyncListsInbox, SyncReadsAll, SyncSkipsThread, SyncFails
<1>3. IdleSyncer \in Syncer /\ IdleSyncer.pc = "idle" /\ FreshRow \in Row
  BY IdleType, FreshType
<1>4. syncer' \in Syncer /\ StoreInv'
  <2>1. CASE \E listed, continuation \in BOOLEAN : SyncLists(listed, continuation)
    BY <2>1, ZenonT(60) DEF SyncLists, SyncPC, StoreInv
  <2>2. CASE SyncReadsRows
    BY <2>2 DEF SyncReadsRows, SyncPC, StoreInv
  <2>3. CASE SyncReadsThread
    <3>1. Differs(syncer.copy, ProviderLabels) \in BOOLEAN
      BY DEF Differs
    <3> QED BY <2>3, <3>1, <1>3, ProviderLabelsType DEF SyncReadsThread, SyncPC, StoreInv
  <2>4. CASE SyncAppliesStars \/ SyncAppliesArchived
    BY <2>4, <1>3 DEF SyncAppliesStars, SyncAppliesArchived, AfterArchived, SyncPC, StoreInv
  <2>5. CASE SyncChecksStarred
    BY <2>5, ProviderLabelsType DEF SyncChecksStarred, SyncPC, StoreInv
  <2>6. CASE SyncListsInbox
    BY <2>6, ProviderLabelsType DEF SyncListsInbox, SyncPC, StoreInv, Labels
  <2>7. CASE SyncReadsAll \/ SyncAlignsAll \/ SyncFails
    BY <2>7, <1>3 DEF SyncReadsAll, SyncAlignsAll, SyncFails, SyncPC, StoreInv
  <2>8. CASE SyncSkipsThread
    BY <2>8, <1>3 DEF SyncSkipsThread, SyncPC, StoreInv
  <2> QED BY <2>1, <2>2, <2>3, <2>4, <2>5, <2>6, <2>7, <2>8 DEF PassSteps
<1>5. UNCHANGED spent \/ Fault
  BY DEF PassSteps, SyncLists, SyncReadsRows, SyncReadsThread, SyncAppliesStars,
         SyncAppliesArchived, SyncChecksStarred, SyncListsInbox, SyncReadsAll, SyncAlignsAll,
         SyncSkipsThread, SyncFails
<1> QED BY <1>1, <1>2, <1>4, <1>5, SpendType DEF StoreInv

\* The outside world keeps the invariant.
LEMMA WorldInv ==
  ASSUME IInv,
         \/ WindowCloses \/ MailArrives
         \/ \E inbox, starred \in BOOLEAN : MoveAtProvider(inbox, starred)
  PROVE  IInv'
<1> USE DEF IInv, TypeOK, WorkerInv, StoreInv
<1>1. CASE WindowCloses
  BY <1>1 DEF WindowCloses
<1>2. CASE MailArrives
  <2>1. prov.mails + 1 \in 0..MaxMails
    BY <1>2, ThreadAssumption DEF ThreadAssumption, MailArrives
  <2>2. prov' \in [inbox: BOOLEAN, starred: BOOLEAN, mails: 0..MaxMails]
    BY <1>2, <2>1 DEF MailArrives
  <2> QED BY <1>2, <2>2 DEF MailArrives
<1>3. CASE \E inbox, starred \in BOOLEAN : MoveAtProvider(inbox, starred)
  BY <1>3, SpendType DEF MoveAtProvider
<1> QED BY <1>1, <1>2, <1>3

(***************************************************************************)
(* The theorems                                                            *)
(***************************************************************************)

\* Every step keeps the invariant.
LEMMA NextInv == ASSUME IInv, [Next]_vars PROVE IInv'
<1>1. CASE UNCHANGED vars
  BY <1>1 DEF vars, IInv, TypeOK, WorkerInv, StoreInv
<1> QED
  BY <1>1, ArchiverInv, StarrerInv, HandlerInv, StoringInv, PassInv, WorldInv
  DEF Next, Faults, Requests

\* The invariant always holds.
THEOREM SyncInvariant == Spec => []IInv
  BY InitInv, NextInv, PTL DEF Spec

\* Every variable keeps its type; in particular the sync never stores more
\* mails than arrived, and the queue only gets back jobs that exist.
THEOREM TypeCorrect == Spec => []TypeOK
  BY SyncInvariant, PTL DEF IInv

\* No pass changes the archive flag of a row with an unconfirmed action.
LEMMA PassKeepsArchived ==
  ASSUME TypeOK, PassSteps, row.sync = "unsynced"
  PROVE  row'.archived = row.archived
<1>1. CASE SyncAppliesStars
  BY <1>1 DEF SyncAppliesStars, TypeOK, Row
<1>2. CASE SyncAppliesArchived \/ SyncAlignsAll
  BY <1>2 DEF SyncAppliesArchived, SyncAlignsAll
<1> QED
  BY <1>1, <1>2
  DEF PassSteps, SyncLists, SyncReadsRows, SyncReadsThread, SyncChecksStarred, SyncListsInbox,
      SyncReadsAll

\* However old what a sync run has read, its passes leave the archive flag of
\* an unsynced row alone, for any number of requests, mails and faults.
THEOREM UnsyncedArchiveHolds == Spec => ArchiveIsAuthoritative
<1>1. TypeOK /\ [Next]_vars =>
         [PassSteps /\ row.sync = "unsynced" => row'.archived = row.archived]_vars
  BY PassKeepsArchived
<1> QED
  BY <1>1, TypeCorrect, PTL DEF Spec, ArchiveIsAuthoritative

(***************************************************************************)
(* What stands behind an unconfirmed archive                               *)
(***************************************************************************)

\* One archive request, no star request and no fault.
Calm == spent.archives <= 1 /\ spent.stars = 0 /\ spent.faults = 0

\* The archive still has to be queued, waits as a job, or is being carried out.
Pending ==
    \/ archiver.pc = "enqueue"
    \/ \E j \in Jobs : job[j].state = "ready"
    \/ worker.pc # "idle"

\* What UnsyncedIsBrief needs at every moment.  A star request breaks it: the
\* sync may read the row while it is marked unsynced for the star, and save it
\* so again when the star has been confirmed.
UnsyncedHasJob == Calm => (row.sync = "unsynced" => Pending)

\* The request has not marked the row yet.
Unmarked == spent.archives = 0 \/ archiver.pc \notin {"idle", "enqueue"}

\* Nothing has been queued yet.
Unqueued == spent.archives = 0 \/ archiver.pc # "idle"

\* Only the user's archive makes the row unsynced, and the sync, which reads it
\* in that state, forgets the user's operation and the mark together.
Marked ==
    /\ starrer.pc = "idle"
    /\ spent.archives = 0 => archiver.pc = "idle"
    /\ Unqueued => ~window
    /\ Unmarked => row.sync = "synced"
    /\ archiver.pc = "saveStar" => archiver.copy.sync = "synced"
    /\ row.sync = "unsynced" => row.userOp /\ Pending
    /\ syncer.pc = "saveMail" => (syncer.copy.sync = "unsynced" => syncer.copy.userOp)
    /\ syncer.pc = "saveAgain" => syncer.copy.sync = "synced"

MarkInv == Calm => Marked

\* What has been spent stays spent, so a calm step starts from a calm state,
\* is no fault and asks for no star.
LEMMA CalmStep ==
  ASSUME IInv, Next, Calm'
  PROVE  Calm /\ ~Faults /\ ~(\E level \in Levels : BeginStar(level)) /\ ~Fault
<1>1. /\ spent.archives \in Nat /\ spent.stars \in Nat /\ spent.faults \in Nat
      /\ spent'.archives <= 1 /\ spent'.stars = 0 /\ spent'.faults = 0
  BY ThreadAssumption DEF ThreadAssumption, IInv, TypeOK, Calm
<1>2. ~Fault /\ ~Spend("stars", MaxStars)
  BY <1>1 DEF Fault, Spend, IInv, TypeOK
<1>3. ~Faults /\ ~(\E level \in Levels : BeginStar(level))
  BY <1>2 DEF Faults, EnqueueLost, StarFails, WorkerThrows, SyncSkipsThread, SyncFails, BeginStar
<1>4. \/ UNCHANGED spent
      \/ Spend("archives", MaxArchives)
      \/ Spend("moves", MaxMoves)
  BY <1>2, <1>3
  DEF Next, ArchiveSteps, UnstarFinds, UnstarSaves, BulkUnstar, ArchiveFinds, ArchiveSaves,
      BulkArchives, EnqueueArchive, StarSteps, StarFinds, StarSaves, StarMarks,
      StarReachesProvider, StarConfirms, WorkerSteps, Fetch, WorkerArchives, WorkerUnstars,
      WorkerConfirms, StoreSteps, MailFinds, MailSaves, MailSavesAgain, PassSteps, SyncLists,
      SyncReadsRows, SyncReadsThread, SyncAppliesStars, SyncAppliesArchived, SyncChecksStarred,
      SyncListsInbox, SyncReadsAll, SyncAlignsAll, WindowCloses, Requests, BeginArchive,
      MailArrives, MoveAtProvider
<1>5. Calm
  BY <1>1, <1>4 DEF Calm, Spend, IInv, TypeOK
<1> QED
  BY <1>2, <1>3, <1>5

\* The request marks the row and queues the job; nobody else opens the window.
LEMMA ArchiverMarks ==
  ASSUME IInv, Calm, Calm', Marked, ArchiveSteps \/ \E bulk \in BOOLEAN : BeginArchive(bulk)
  PROVE  Marked'
<1> USE DEF IInv, TypeOK, Calm, Marked, Unmarked, Unqueued, Pending
<1>1. CASE UnstarFinds
  BY <1>1 DEF UnstarFinds, Archiver
<1>2. CASE UnstarSaves
  <2>1. row'.sync = archiver.copy.sync
    BY <1>2 DEF UnstarSaves, Archiver, Row
  <2> QED BY <1>2, <2>1 DEF UnstarSaves, Archiver
<1>3. CASE BulkUnstar
  BY <1>3 DEF BulkUnstar, Archiver, Row
<1>4. CASE ArchiveFinds
  BY <1>4 DEF ArchiveFinds, Archiver
<1>5. CASE ArchiveSaves \/ BulkArchives
  <2>1. row'.userOp /\ archiver'.pc = "enqueue"
    BY <1>5 DEF ArchiveSaves, BulkArchives, ByUser, Archiver, Row
  <2> QED BY <1>5, <2>1 DEF ArchiveSaves, BulkArchives
<1>6. CASE EnqueueArchive
  <2>1. archiver'.pc = "idle" /\ spent.archives # 0 /\ ~window
    BY <1>6 DEF EnqueueArchive, IdleArchiver
  <2>2. PICK k \in Kinds : Enqueue(k)
    BY <1>6, <2>1 DEF EnqueueArchive, Kinds
  <2>3. \E j \in Jobs : job'[j].state = "ready"
    BY <2>2 DEF Enqueue
  <2> QED BY <1>6, <2>1, <2>3 DEF EnqueueArchive
<1>7. CASE \E bulk \in BOOLEAN : BeginArchive(bulk)
  <2>1. PICK bulk \in BOOLEAN : BeginArchive(bulk)
    BY <1>7
  <2>2. spent.archives = 0 /\ spent'.archives # 0
    <3>1. spent.archives \in Nat /\ spent'.archives <= 1
      BY ThreadAssumption DEF ThreadAssumption
    <3>2. spent'.archives = spent.archives + 1
      BY <2>1 DEF BeginArchive, Spend
    <3> QED BY <3>1, <3>2
  <2>3. archiver'.pc \in {"findStar", "find"}
    BY <2>1 DEF BeginArchive, Archiver
  <2> QED BY <2>1, <2>2, <2>3 DEF BeginArchive
<1> QED
  BY <1>1, <1>2, <1>3, <1>4, <1>5, <1>6, <1>7 DEF ArchiveSteps

\* The worker takes a job over and confirms before it gives it back.
LEMMA WorkerMarks ==
  ASSUME IInv, Calm, Calm', Marked, WorkerSteps
  PROVE  Marked'
<1> USE DEF IInv, TypeOK, Calm, Marked, Unmarked, Unqueued, Pending
<1>1. CASE \E j \in Jobs : Fetch(j)
  <2>1. worker'.pc # "idle"
    BY <1>1 DEF Fetch
  <2> QED BY <1>1, <2>1 DEF Fetch
<1>2. CASE WorkerArchives \/ WorkerUnstars
  <2>1. worker'.pc # "idle" /\ UNCHANGED <<row, archiver, starrer, window, syncer>>
    BY <1>2 DEF WorkerArchives, WorkerUnstars, Worker
  <2>2. spent'.archives = spent.archives
    BY <1>2, ThreadAssumption DEF ThreadAssumption, WorkerArchives, WorkerUnstars, Fault, Spend
  <2> QED BY <2>1, <2>2
<1>3. CASE WorkerConfirms
  <2>1. row'.sync = "synced"
    BY <1>3 DEF WorkerConfirms, Row
  <2> QED BY <1>3, <2>1 DEF WorkerConfirms
<1> QED BY <1>1, <1>2, <1>3 DEF WorkerSteps

\* A mail that finds the row unsynced saves it synced, both times.
LEMMA StoringMarks ==
  ASSUME IInv, Calm, Calm', Marked, StoreSteps
  PROVE  Marked'
<1> USE DEF IInv, TypeOK, Calm, Marked, Unmarked, Unqueued, Pending
<1>1. CASE MailFinds
  BY <1>1 DEF MailFinds, Syncer
<1>2. CASE MailSaves
  <2> DEFINE revived == Revived(syncer.copy, syncer.got.star)
  <2>1. syncer.copy \in Row /\ syncer.pc = "saveMail"
    BY <1>2 DEF MailSaves, Syncer
  <2>2. revived.sync = "synced"
    BY <2>1 DEF Revived, Row, SyncStatus
  <2>3. row' = row \/ row'.sync = "synced"
    BY <1>2, <2>2 DEF MailSaves
  <2>4. syncer'.pc = "saveAgain" /\ syncer'.copy.sync = "synced"
    BY <1>2, <2>2 DEF MailSaves, Syncer
  <2> QED BY <1>2, <2>3, <2>4 DEF MailSaves
<1>3. CASE MailSavesAgain
  <2>1. row'.sync = "synced"
    BY <1>3 DEF MailSavesAgain
  <2>2. syncer'.pc \notin {"saveMail", "saveAgain"}
    BY <1>3 DEF MailSavesAgain, Syncer
  <2> QED BY <1>3, <2>1, <2>2 DEF MailSavesAgain
<1> QED BY <1>1, <1>2, <1>3 DEF StoreSteps

\* The passes write neither the mark nor the user's operation.
LEMMA PassMarks ==
  ASSUME IInv, Calm, Calm', Marked, PassSteps
  PROVE  Marked'
<1>1. UNCHANGED <<archiver, starrer, job, window, worker, spent>>
  BY DEF PassSteps, SyncLists, SyncReadsRows, SyncReadsThread, SyncAppliesStars,
         SyncAppliesArchived, SyncChecksStarred, SyncListsInbox, SyncReadsAll, SyncAlignsAll
<1>2. row'.sync = row.sync /\ row'.userOp = row.userOp
  BY DEF PassSteps, SyncLists, SyncReadsRows, SyncReadsThread, SyncAppliesStars,
         SyncAppliesArchived, SyncChecksStarred, SyncListsInbox, SyncReadsAll, SyncAlignsAll,
         Aligned, IInv, TypeOK, Row
<1>3. syncer'.pc \notin {"saveMail", "saveAgain"}
  <2> USE DEF IInv, TypeOK, Syncer, IdleSyncer
  <2>1. CASE \E listed, continuation \in BOOLEAN : SyncLists(listed, continuation)
    BY <2>1 DEF SyncLists
  <2>2. CASE SyncReadsRows \/ SyncReadsThread
    BY <2>2 DEF SyncReadsRows, SyncReadsThread
  <2>3. CASE SyncAppliesStars \/ SyncAppliesArchived
    BY <2>3 DEF SyncAppliesStars, SyncAppliesArchived, AfterArchived
  <2>4. CASE SyncChecksStarred \/ SyncListsInbox
    BY <2>4 DEF SyncChecksStarred, SyncListsInbox
  <2>5. CASE SyncReadsAll \/ SyncAlignsAll
    BY <2>5 DEF SyncReadsAll, SyncAlignsAll
  <2> QED BY <2>1, <2>2, <2>3, <2>4, <2>5 DEF PassSteps
<1> QED
  BY <1>1, <1>2, <1>3 DEF Marked, Unmarked, Unqueued, Pending

\* The world outside touches no mark.
LEMMA WorldMarks ==
  ASSUME IInv, Calm, Calm', Marked,
         \/ WindowCloses \/ MailArrives
         \/ \E inbox, starred \in BOOLEAN : MoveAtProvider(inbox, starred)
  PROVE  Marked'
<1>1. UNCHANGED <<row, archiver, starrer, job, worker, syncer>>
  BY DEF WindowCloses, MailArrives, MoveAtProvider
<1>3. window' => window
  BY Zenon DEF WindowCloses, MailArrives, MoveAtProvider
<1>2. spent'.archives = spent.archives
  BY DEF WindowCloses, MailArrives, MoveAtProvider, Spend, IInv, TypeOK
<1> QED
  BY <1>1, <1>2, <1>3 DEF Marked, Unmarked, Unqueued, Pending

\* An archive that the provider has yet to confirm is never forgotten: the
\* request is about to queue its job, the job waits, or the worker has it.
THEOREM NoForgottenArchive == Spec => []UnsyncedHasJob
<1>1. Init => MarkInv
  BY DEF Init, MarkInv, Marked, Unmarked, Unqueued, FreshRow, IdleArchiver, IdleStarrer, IdleSyncer
<1>2. IInv /\ MarkInv /\ [Next]_vars => MarkInv'
  <2> SUFFICES ASSUME IInv, MarkInv, [Next]_vars, Calm' PROVE Marked'
    BY DEF MarkInv
  <2>1. CASE UNCHANGED vars
    BY <2>1 DEF vars, MarkInv, Marked, Calm, Unmarked, Unqueued, Pending
  <2>2. CASE Next
    <3>1. Calm /\ Marked /\ ~Faults /\ ~(\E level \in Levels : BeginStar(level))
      BY <2>2, CalmStep DEF MarkInv
    <3>2. ~StarSteps
      BY <3>1 DEF Marked, StarSteps, StarFinds, StarSaves, StarMarks, StarReachesProvider,
                  StarConfirms
    <3> QED
      BY <2>2, <3>1, <3>2, ArchiverMarks, WorkerMarks, StoringMarks, PassMarks, WorldMarks
      DEF Next, Requests
  <2> QED BY <2>1, <2>2
<1>3. MarkInv => UnsyncedHasJob
  BY DEF MarkInv, Marked, UnsyncedHasJob
<1> QED
  BY <1>1, <1>2, <1>3, SyncInvariant, PTL DEF Spec

(***************************************************************************)
(* What a sync run does to a thread that nobody else touches               *)
(***************************************************************************)

\* What Settles promises of a synced row.
Agreed == row.archived = ~prov.inbox /\ (prov.inbox => ((row.star > 0) = prov.starred))

\* The labels the last pass reads: an archived thread is in no listing.
InboxLabels == IF prov.inbox THEN ProviderLabels ELSE [archived |-> TRUE, star |-> 0]

\* No request, job or handler is under way; every mail is stored and the row
\* waits for no confirmation.
Quiet ==
    /\ archiver.pc = "idle" /\ starrer.pc = "idle" /\ worker.pc = "idle"
    /\ \A j \in Jobs : job[j].state = "free"
    /\ row.sync = "synced"
    /\ stored = prov.mails

\* The sync run stores no mail, and the labels it is about to apply are still
\* those of the provider.
UpToDate ==
    /\ syncer.pc \notin {"findMail", "saveMail", "saveAgain"}
    /\ syncer.pc \in {"stars", "archived"} /\ syncer.differs => syncer.got = ProviderLabels
    /\ syncer.pc \in {"all", "last"} => syncer.got = InboxLabels

AtRest == Quiet /\ UpToDate /\ Agreed

\* A run that started in quiet has done its part so far.
OnTrack ==
    /\ Quiet /\ UpToDate
    /\ syncer.pc = "idle" => Agreed
    /\ syncer.pc = "thread" => syncer.copy = row
    /\ syncer.pc = "stars" /\ ~syncer.differs => Agreed
    /\ syncer.pc = "archived" => IF syncer.differs THEN row.star = syncer.got.star ELSE Agreed
    /\ syncer.pc \in {"starred", "inbox", "all", "last"} /\ prov.inbox => ~row.archived

\* A run decides that the row differs only once it has read the provider.
Undecided == syncer.pc \in {"idle", "rows", "thread"} => ~syncer.differs

\* In quiet only the sync, its failures and the job window can move.
LEMMA QuietStep ==
  ASSUME Quiet, UpToDate, Next, ~Requests
  PROVE  PassSteps \/ SyncSkipsThread \/ SyncFails \/ WindowCloses
<1>1. ~ArchiveSteps /\ ~EnqueueLost
  BY DEF Quiet, ArchiveSteps, UnstarFinds, UnstarSaves, BulkUnstar, ArchiveFinds, ArchiveSaves,
         BulkArchives, EnqueueArchive, EnqueueLost
<1>2. ~StarSteps /\ ~StarFails
  BY DEF Quiet, StarSteps, StarFinds, StarSaves, StarMarks, StarReachesProvider, StarConfirms,
         StarFails
<1>3. ~WorkerSteps /\ ~WorkerThrows
  BY DEF Quiet, WorkerSteps, Fetch, FetchJob, WorkerArchives, WorkerUnstars, WorkerConfirms,
         WorkerThrows
<1>4. ~StoreSteps
  BY DEF UpToDate, StoreSteps, MailFinds, MailSaves, MailSavesAgain
<1> QED BY <1>1, <1>2, <1>3, <1>4 DEF Next, Faults

\* The passes and their failures change the row's two flags and the run only.
LEMMA PassFrame ==
  ASSUME IInv, PassSteps \/ SyncSkipsThread \/ SyncFails \/ WindowCloses
  PROVE  /\ UNCHANGED <<prov, stored, archiver, starrer, job, worker>>
         /\ row'.sync = row.sync
         /\ ProviderLabels' = ProviderLabels /\ InboxLabels' = InboxLabels
         /\ Quiet => Quiet'
<1>1. UNCHANGED <<prov, stored, archiver, starrer, job, worker>>
  BY DEF PassSteps, SyncLists, SyncReadsRows, SyncReadsThread, SyncAppliesStars,
         SyncAppliesArchived, SyncChecksStarred, SyncListsInbox, SyncReadsAll, SyncAlignsAll,
         SyncSkipsThread, SyncFails, WindowCloses
<1>2. row'.sync = row.sync
  BY DEF PassSteps, SyncLists, SyncReadsRows, SyncReadsThread, SyncAppliesStars,
         SyncAppliesArchived, SyncChecksStarred, SyncListsInbox, SyncReadsAll, SyncAlignsAll,
         SyncSkipsThread, SyncFails, WindowCloses, Aligned, IInv, TypeOK, Row
<1> QED BY <1>1, <1>2 DEF ProviderLabels, InboxLabels, Quiet

\* A run in which no step has looked at the provider has found no difference.
LEMMA UndecidedStep == ASSUME IInv, Undecided, [Next]_vars PROVE Undecided'
<1> USE DEF IInv, TypeOK, Undecided, Syncer
<1>1. CASE UNCHANGED syncer
  BY <1>1
<1>2. CASE \E listed, continuation \in BOOLEAN : SyncLists(listed, continuation)
  BY <1>2 DEF SyncLists
<1>3. CASE SyncReadsRows
  BY <1>3 DEF SyncReadsRows
<1>4. CASE SyncReadsThread
  BY <1>4 DEF SyncReadsThread
<1>5. CASE SyncAppliesStars \/ SyncChecksStarred \/ SyncListsInbox
  <2>1. syncer'.pc \in {"archived", "stars", "inbox", "all"}
    BY <1>5 DEF SyncAppliesStars, SyncChecksStarred, SyncListsInbox
  <2> QED BY <2>1
<1>6. CASE SyncAppliesArchived
  BY <1>6 DEF SyncAppliesArchived, AfterArchived, IdleSyncer
<1>7. CASE SyncReadsAll \/ SyncAlignsAll \/ SyncFails
  BY <1>7 DEF SyncReadsAll, SyncAlignsAll, SyncFails, IdleSyncer
<1>8. CASE StoreSteps \/ SyncSkipsThread
  <2>1. syncer'.pc \in {"saveMail", "saveAgain", "findMail", "stars"}
    <3>1. CASE MailFinds \/ MailSaves
      BY <3>1 DEF MailFinds, MailSaves
    <3>2. CASE MailSavesAgain
      BY <3>2 DEF MailSavesAgain
    <3>3. CASE SyncSkipsThread
      BY <3>3 DEF SyncSkipsThread
    <3> QED BY <1>8, <3>1, <3>2, <3>3 DEF StoreSteps
  <2> QED BY <2>1
<1>9. \/ UNCHANGED syncer \/ PassSteps \/ StoreSteps \/ SyncSkipsThread \/ SyncFails
  BY DEF vars, Next, Faults, Requests, ArchiveSteps, UnstarFinds, UnstarSaves, BulkUnstar,
         ArchiveFinds, ArchiveSaves, BulkArchives, EnqueueArchive, EnqueueLost, StarSteps,
         StarFinds, StarSaves, StarMarks, StarReachesProvider, StarConfirms, StarFails,
         WorkerSteps, Fetch, WorkerArchives, WorkerUnstars, WorkerConfirms, WorkerThrows,
         WindowCloses, BeginArchive, BeginStar, MailArrives, MoveAtProvider
<1> QED
  BY <1>1, <1>2, <1>3, <1>4, <1>5, <1>6, <1>7, <1>8, <1>9 DEF PassSteps

\* Applying labels that are still the provider's keeps the row in agreement.
LEMMA PassKeepsAgreement ==
  ASSUME IInv, AtRest, PassSteps
  PROVE  Agreed'
<1> USE DEF IInv, TypeOK, AtRest, Quiet, UpToDate, Agreed, ProviderLabels, Row
<1>1. CASE SyncAppliesStars
  BY <1>1 DEF SyncAppliesStars
<1>2. CASE SyncAppliesArchived
  BY <1>2 DEF SyncAppliesArchived
<1>3. CASE SyncAlignsAll
  BY <1>3 DEF SyncAlignsAll, Aligned, InboxLabels
<1>4. CASE UNCHANGED row
  <2>1. UNCHANGED prov
    BY PassFrame
  <2> QED BY <1>4, <2>1
<1>5. SyncAppliesStars \/ SyncAppliesArchived \/ SyncAlignsAll \/ UNCHANGED row
  BY DEF PassSteps, SyncLists, SyncReadsRows, SyncReadsThread, SyncChecksStarred,
         SyncListsInbox, SyncReadsAll
<1> QED BY <1>1, <1>2, <1>3, <1>4, <1>5

\* A run that finds every mail stored reads labels that are the provider's.
LEMMA PassStaysUpToDate ==
  ASSUME IInv, Undecided, Quiet, UpToDate, PassSteps
  PROVE  UpToDate'
<1>1. ProviderLabels' = ProviderLabels /\ InboxLabels' = InboxLabels
  BY PassFrame
<1> USE DEF IInv, TypeOK, UpToDate, Syncer
<1>2. CASE \E listed, continuation \in BOOLEAN : SyncLists(listed, continuation)
  BY <1>1, <1>2 DEF SyncLists
<1>3. CASE SyncReadsRows
  BY <1>1, <1>3 DEF SyncReadsRows
<1>4. CASE SyncReadsThread
  <2>1. syncer'.pc = "stars" /\ syncer'.got = ProviderLabels
    <3>1. ~(stored < prov.mails)
      BY ThreadAssumption DEF ThreadAssumption, Quiet
    <3> QED BY <1>4, <3>1 DEF SyncReadsThread
  <2> QED BY <1>1, <2>1
<1>5. CASE SyncAppliesStars
  BY <1>1, <1>5 DEF SyncAppliesStars
<1>6. CASE SyncAppliesArchived
  BY <1>1, <1>6 DEF SyncAppliesArchived, AfterArchived, IdleSyncer
<1>7. CASE SyncChecksStarred
  BY <1>1, <1>7 DEF SyncChecksStarred
<1>8. CASE SyncListsInbox
  <2>1. syncer'.pc = "all" /\ syncer'.got = InboxLabels
    BY <1>8 DEF SyncListsInbox, InboxLabels
  <2> QED BY <1>1, <2>1
<1>9. CASE SyncReadsAll
  BY <1>1, <1>9 DEF SyncReadsAll, IdleSyncer
<1>10. CASE SyncAlignsAll
  BY <1>10 DEF SyncAlignsAll, IdleSyncer
<1> QED
  BY <1>2, <1>3, <1>4, <1>5, <1>6, <1>7, <1>8, <1>9, <1>10 DEF PassSteps

\* Once the row agrees with the provider, no request is under way and the sync
\* has read nothing that is out of date, only the user or a new mail can part
\* them again: neither a sync run, wherever it is, nor one that breaks off.
THEOREM StaysAgreed == Spec => [][AtRest /\ ~Requests => AtRest']_vars
<1>1. Init => Undecided
  BY DEF Init, Undecided, IdleSyncer
<1>2. ASSUME IInv, Undecided, AtRest, Next, ~Requests PROVE AtRest'
  <2>1. CASE PassSteps
    BY <1>2, <2>1, PassFrame, PassKeepsAgreement, PassStaysUpToDate DEF AtRest
  <2>2. CASE SyncSkipsThread \/ SyncFails \/ WindowCloses
    <3>1. UNCHANGED <<row, prov>>
      BY <2>2 DEF SyncSkipsThread, SyncFails, WindowCloses
    <3>2. Quiet' /\ ProviderLabels' = ProviderLabels /\ InboxLabels' = InboxLabels
      BY <1>2, <2>2, PassFrame DEF AtRest
    <3>3. CASE SyncSkipsThread
      <4>1. syncer.pc = "thread" /\ ~syncer.differs
        BY <1>2, <3>3 DEF SyncSkipsThread, AtRest, UpToDate, Undecided
      <4>2. syncer'.pc = "stars" /\ ~syncer'.differs
        BY <1>2, <3>3, <4>1 DEF SyncSkipsThread, IInv, TypeOK, Syncer
      <4> QED BY <1>2, <3>1, <3>2, <4>2 DEF AtRest, UpToDate, Agreed
    <3>4. CASE SyncFails
      <4>1. syncer'.pc = "idle"
        BY <3>4, IdleType DEF SyncFails
      <4> QED BY <1>2, <3>1, <3>2, <4>1 DEF AtRest, UpToDate, Agreed
    <3>5. CASE WindowCloses
      BY <1>2, <3>1, <3>2, <3>5 DEF WindowCloses, AtRest, UpToDate, Agreed
    <3> QED BY <2>2, <3>3, <3>4, <3>5
  <2> QED BY <1>2, <2>1, <2>2, QuietStep DEF AtRest
<1>3. IInv /\ Undecided /\ [Next]_vars => [AtRest /\ ~Requests => AtRest']_vars
  BY <1>2
<1>4. IInv /\ Undecided /\ [Next]_vars => Undecided'
  BY UndecidedStep
<1> QED BY <1>1, <1>3, <1>4, SyncInvariant, PTL DEF Spec

\* The run up to the two UPDATEs: what it decides to write is what is missing.
LEMMA ReadsOnTrack ==
  ASSUME IInv, OnTrack, SyncReadsRows \/ SyncReadsThread \/ SyncAppliesStars
  PROVE  OnTrack'
<1>1. /\ Quiet' /\ UNCHANGED prov
      /\ ProviderLabels' = ProviderLabels /\ InboxLabels' = InboxLabels
  BY PassFrame DEF PassSteps, OnTrack
<1> USE DEF IInv, TypeOK, OnTrack, UpToDate, Syncer
<1>2. CASE SyncReadsRows
  BY <1>1, <1>2 DEF SyncReadsRows
<1>3. CASE SyncReadsThread
  <2>1. ~(stored < prov.mails)
    BY ThreadAssumption DEF ThreadAssumption, Quiet
  <2>2. /\ syncer'.pc = "stars" /\ syncer'.got = ProviderLabels
        /\ syncer'.differs = Differs(row, ProviderLabels)
        /\ UNCHANGED row
    BY <1>3, <2>1 DEF SyncReadsThread
  <2>3. ~Differs(row, ProviderLabels) => Agreed
    BY DEF Differs, ProviderLabels, Agreed, Row
  <2>4. ~syncer'.differs => Agreed'
    BY <1>1, <2>2, <2>3 DEF Agreed
  <2> QED BY <1>1, <2>2, <2>4
<1>4. CASE SyncAppliesStars
  <2>1. /\ syncer'.pc = "archived" /\ syncer'.got = syncer.got
        /\ syncer'.differs = syncer.differs
    BY <1>4 DEF SyncAppliesStars
  <2>2. CASE syncer.differs
    <3>1. row'.star = syncer.got.star
      BY <1>4, <2>2 DEF SyncAppliesStars, Row
    <3> QED BY <1>1, <1>4, <2>1, <2>2, <3>1 DEF SyncAppliesStars
  <2>3. CASE ~syncer.differs
    <3>1. UNCHANGED row /\ Agreed
      BY <1>4, <2>3 DEF SyncAppliesStars
    <3> QED BY <1>1, <2>1, <2>3, <3>1 DEF Agreed
  <2> QED BY <2>2, <2>3
<1> QED BY <1>2, <1>3, <1>4

\* The passes that write the archive flag and read the listings.
LEMMA PassesOnTrack ==
  ASSUME IInv, OnTrack,
         SyncAppliesArchived \/ SyncChecksStarred \/ SyncListsInbox \/ SyncReadsAll \/ SyncAlignsAll
  PROVE  OnTrack'
<1>1. /\ Quiet' /\ UNCHANGED prov
      /\ ProviderLabels' = ProviderLabels /\ InboxLabels' = InboxLabels
  BY PassFrame DEF PassSteps, OnTrack
<1> USE DEF IInv, TypeOK, OnTrack, UpToDate, Syncer
<1>2. CASE SyncAppliesArchived
  <2>1. row.sync = "synced"
    BY DEF Quiet
  <2>2. Agreed'
    <3>1. CASE syncer.differs
      <4>1. row'.archived = ~prov.inbox /\ row'.star = row.star
        BY <1>2, <2>1, <3>1 DEF SyncAppliesArchived, ProviderLabels, Row
      <4>2. row.star = IF prov.starred THEN 3 ELSE 0
        BY <1>2, <3>1 DEF SyncAppliesArchived, ProviderLabels
      <4> QED BY <1>1, <4>1, <4>2 DEF Agreed
    <3>2. CASE ~syncer.differs
      BY <1>1, <1>2, <3>2 DEF SyncAppliesArchived, Agreed
    <3> QED BY <3>1, <3>2
  <2>3. syncer'.pc \in {"idle", "starred"}
    BY <1>2, IdleType DEF SyncAppliesArchived, AfterArchived
  <2>4. prov'.inbox => ~row'.archived
    BY <2>2 DEF Agreed
  <2> QED BY <1>1, <2>2, <2>3, <2>4
<1>3. CASE SyncChecksStarred
  <2>1. UNCHANGED row /\ syncer.pc = "starred"
    BY <1>3 DEF SyncChecksStarred
  <2>2. \/ syncer'.pc = "stars" /\ syncer'.differs /\ syncer'.got = ProviderLabels
        \/ syncer'.pc = "inbox"
    BY <1>3 DEF SyncChecksStarred
  <2> QED BY <1>1, <2>1, <2>2
<1>4. CASE SyncListsInbox
  <2>1. syncer'.pc = "all" /\ syncer'.got = InboxLabels /\ UNCHANGED row /\ syncer.pc = "inbox"
    BY <1>4 DEF SyncListsInbox, InboxLabels
  <2> QED BY <1>1, <2>1
<1>5. CASE SyncReadsAll
  <2>1. /\ syncer.pc = "all" /\ UNCHANGED row
        /\ IF Differs(row, syncer.got)
           THEN syncer' = [syncer EXCEPT !.pc = "last"] ELSE syncer' = IdleSyncer
    BY <1>5 DEF SyncReadsAll, Quiet
  <2>2. CASE Differs(row, syncer.got)
    BY <1>1, <2>1, <2>2
  <2>3. CASE ~Differs(row, syncer.got)
    <3>1. Agreed
      BY <2>1, <2>3 DEF Differs, InboxLabels, ProviderLabels, Agreed, Row
    <3>2. Agreed' /\ syncer'.pc = "idle"
      BY <1>1, <2>1, <2>3, <3>1, IdleType DEF Agreed
    <3> QED BY <1>1, <3>2
  <2> QED BY <2>2, <2>3
<1>6. CASE SyncAlignsAll
  <2>1. /\ row' = Aligned(row, InboxLabels) /\ syncer'.pc = "idle"
        /\ prov.inbox => ~row.archived
    BY <1>6, IdleType DEF SyncAlignsAll, Quiet
  <2>2. Agreed'
    BY <1>1, <2>1 DEF Aligned, InboxLabels, ProviderLabels, Agreed, Row
  <2> QED BY <1>1, <2>1, <2>2
<1> QED BY <1>2, <1>3, <1>4, <1>5, <1>6

\* A run that ends on track leaves the thread at rest, where StaysAgreed holds it.
LEMMA OnTrackEndsAtRest == OnTrack /\ syncer.pc = "idle" => AtRest
  BY DEF OnTrack, AtRest

\* A full run of the sync that starts in quiet, however the row and the
\* provider differ then, ends with the two in agreement unless a request, a
\* mail or a fault comes between.
THEOREM QuietRunConverges ==
  Spec => [][/\ Quiet /\ (\E listed \in BOOLEAN : SyncLists(listed, FALSE)) => OnTrack'
             /\ OnTrack /\ ~Requests /\ ~Faults => OnTrack']_vars
<1>1. ASSUME IInv, Quiet, NEW listed \in BOOLEAN, NEW continuation \in BOOLEAN,
             SyncLists(listed, continuation)
      PROVE  OnTrack'
  <2>1. /\ Quiet' /\ UNCHANGED <<row, prov>>
    BY <1>1, PassFrame DEF PassSteps, SyncLists
  <2>2. syncer'.pc = IF listed THEN "rows" ELSE "starred"
    BY <1>1 DEF SyncLists, IInv, TypeOK, Syncer
  <2>3. prov.inbox => listed
    BY <1>1 DEF SyncLists
  <2> QED BY <2>1, <2>2, <2>3 DEF OnTrack, UpToDate
<1>2. ASSUME IInv, OnTrack, Next, ~Requests, ~Faults PROVE OnTrack'
  <2>1. PassSteps \/ WindowCloses
    BY <1>2, QuietStep DEF OnTrack, Faults
  <2>2. CASE WindowCloses
    <3>1. Quiet' /\ UNCHANGED <<row, prov, syncer>>
      BY <1>2, <2>2, PassFrame DEF WindowCloses, OnTrack
    <3> QED BY <1>2, <3>1 DEF OnTrack, UpToDate, Agreed, ProviderLabels, InboxLabels
  <2>3. CASE \E listed, continuation \in BOOLEAN : SyncLists(listed, continuation)
    BY <1>1, <1>2, <2>3 DEF OnTrack
  <2> QED
    BY <1>2, <2>1, <2>2, <2>3, ReadsOnTrack, PassesOnTrack DEF PassSteps
<1>3. IInv /\ [Next]_vars =>
        [/\ Quiet /\ (\E listed \in BOOLEAN : SyncLists(listed, FALSE)) => OnTrack'
         /\ OnTrack /\ ~Requests /\ ~Faults => OnTrack']_vars
  BY <1>1, <1>2
<1> QED BY <1>3, SyncInvariant, PTL DEF Spec

=============================================================================
