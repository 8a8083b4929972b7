------------------------ MODULE AutoResponderProofs ------------------------
(***************************************************************************)
(* Proofs about AutoResponder, for any number of threads, senders,         *)
(* handlers, savers, jobs, retries and faults.                             *)
(*                                                                         *)
(* TypeOK is not inductive alone: a handler works on a thread because the  *)
(* job it fetched carries one (QueueInv), a call saves a thread because it *)
(* found one (SaverInv), and a handler that returns frees the slot it      *)
(* holds and no other's.  That one claim gives one reply is a matter of    *)
(* counting (ClaimInv): the handlers at the provider, the claim nobody     *)
(* took and the confirmed replies of a thread are one together, and one    *)
(* more for each save that erased its claim.  A save that restores one     *)
(* takes one away and adds nothing.  The refinement of ReplyLedger needs   *)
(* besides that a handler records, and a copy carries, only what the       *)
(* provider confirmed (RecordInv).  ClaimIsHeld is what ClaimSettles, a    *)
(* liveness property, needs at every moment.                               *)
(***************************************************************************)
EXTENDS AutoResponder, FiniteSetTheorems, TLAPS

Sending(h) == handler[h].pc \in {"send", "release"}

\* Jobs that exist carry a thread, and handlers hold active jobs of their own.
QueueInv ==
    /\ \A j \in Jobs : job[j].state # "free" => job[j].key \in Threads
    /\ \A h \in Handlers : handler[h].pc # "idle" => handler[h].thread \in Threads
    /\ \A h \in Handlers : handler[h].job # NoJob => job[handler[h].job].state = "active"
    /\ \A g, h \in Handlers : handler[g].job # NoJob /\ handler[g].job = handler[h].job => g = h

\* A call that will save a thread has found one.
SaverInv == \A k \in Savers : saver[k].pc # "idle" => saver[k].thread \in Threads

\* The handlers at the provider for t, and the claim on t that is still free.
Holders(t) == {h \in Handlers : Sending(h) /\ handler[h].thread = t}

Free(t) == IF t \in claim THEN 0 ELSE 1

\* Each erased claim lets one more handler come to the provider, and no more.
ClaimInv ==
    \A t \in Threads : Cardinality(Holders(t)) + Free(t) + confirmed[t] <= 1 + erased[t]

IInv == TypeOK /\ QueueInv /\ SaverInv /\ ClaimInv

(***************************************************************************)
(* What the helpers do                                                     *)
(***************************************************************************)

\* The initial state satisfies the invariant.
LEMMA InitInv == ASSUME Init PROVE IInv
<1>1. TypeOK
  BY AutoAssumption DEF Init, TypeOK, JobInit, FreeJob, JobType, JobState, Handler, HandlerPC,
     IdleHandler, Saver, IdleSaver, StoredRow
<1>2. QueueInv /\ SaverInv
  BY DEF Init, QueueInv, SaverInv, JobInit, FreeJob, IdleHandler, IdleSaver
<1>3. ASSUME NEW t \in Threads
      PROVE  Cardinality(Holders(t)) + Free(t) + confirmed[t] <= 1 + erased[t]
  <2>1. Holders(t) = {}
    BY DEF Init, Holders, Sending, IdleHandler
  <2> QED
    BY <2>1, FS_EmptySet DEF Init, Free
<1> QED
  BY <1>1, <1>2, <1>3 DEF IInv, ClaimInv

\* Completing or failing an active job keeps the queue well-formed and leaves
\* every other slot alone.
LEMMA SlotEffect ==
  ASSUME TypeOK, QueueInv, NEW j \in Jobs, job[j].state = "active",
         NEW next, next = Completed(j) \/ next = Failed(j)
  PROVE  /\ next \in [Jobs -> JobType]
         /\ \A i \in Jobs \ {j} : next[i] = job[i]
         /\ next[j].state # "free" => next[j].key \in Threads
<1> USE AutoAssumption
<1>1. job[j] \in JobType /\ job[j].key \in Threads /\ RetryLimit \in Nat
  BY DEF TypeOK, QueueInv
<1>2. CASE next = Completed(j)
  BY <1>1, <1>2 DEF Completed, TypeOK, FreeJob, JobType, JobState
<1>3. CASE next = Failed(j) /\ job[j].retries < RetryLimit
  BY <1>1, <1>3 DEF Failed, TypeOK, JobType, JobState
<1>4. CASE next = Failed(j) /\ ~(job[j].retries < RetryLimit)
  BY <1>1, <1>2, <1>4 DEF Failed
<1> QED BY <1>2, <1>3, <1>4

\* A handler that returns or throws is idle again; no other handler, and no
\* job another handler holds, is touched.
LEMMA LeaveEffect ==
  ASSUME TypeOK, QueueInv, NEW h \in Handlers, Return(h) \/ Throw(h)
  PROVE  /\ job' \in [Jobs -> JobType]
         /\ handler' \in [Handlers -> Handler]
         /\ QueueInv'
         /\ handler'[h] = IdleHandler
         /\ \A g \in Handlers \ {h} : handler'[g] = handler[g]
<1> USE AutoAssumption
<1>1. handler' = [handler EXCEPT ![h] = IdleHandler]
  BY DEF Return, Throw
<1>2. IdleHandler \in Handler /\ IdleHandler.job = NoJob /\ IdleHandler.pc = "idle"
  BY DEF IdleHandler, Handler, HandlerPC
<1>3. /\ handler' \in [Handlers -> Handler]
      /\ handler'[h] = IdleHandler
      /\ \A g \in Handlers \ {h} : handler'[g] = handler[g]
  BY <1>1, <1>2 DEF TypeOK
<1>4. handler[h].job \in Jobs \cup {NoJob}
  BY DEF TypeOK, Handler
<1>5. CASE handler[h].job = NoJob
  <2>1. job' = job  BY <1>5 DEF Return, Throw
  <2>2. QueueInv'  BY <2>1, <1>2, <1>3 DEF QueueInv
  <2> QED BY <2>1, <2>2, <1>3 DEF TypeOK
<1>6. CASE handler[h].job # NoJob
  <2>1. PICK j \in Jobs : j = handler[h].job  BY <1>4, <1>6
  <2>2. job[j].state = "active"  BY <2>1, <1>6 DEF QueueInv
  <2>3. job' = Completed(j) \/ job' = Failed(j)
    BY <2>1, <1>6 DEF Return, Throw
  <2>4. /\ job' \in [Jobs -> JobType]
        /\ \A i \in Jobs \ {j} : job'[i] = job[i]
        /\ job'[j].state # "free" => job'[j].key \in Threads
    BY <2>2, <2>3, SlotEffect
  <2>5. \A g \in Handlers \ {h} : handler[g].job # j
    BY <2>1, <1>6 DEF QueueInv
  <2>6. \A g \in Handlers : handler[g].job \in Jobs \cup {NoJob}
    BY DEF TypeOK, Handler
  <2>7. \A i \in Jobs : job'[i].state # "free" => job'[i].key \in Threads
    BY <2>4 DEF QueueInv
  <2>8. \A g \in Handlers : handler'[g].job # NoJob => job'[handler'[g].job].state = "active"
    BY <2>4, <2>5, <2>6, <1>2, <1>3 DEF QueueInv
  <2>9. \A g \in Handlers : handler'[g].pc # "idle" => handler'[g].thread \in Threads
    BY <1>2, <1>3 DEF QueueInv
  <2>10. \A f, g \in Handlers : handler'[f].job # NoJob /\ handler'[f].job = handler'[g].job => f = g
    BY <1>2, <1>3 DEF QueueInv
  <2>11. QueueInv'  BY <2>7, <2>8, <2>9, <2>10 DEF QueueInv
  <2> QED BY <2>4, <2>11, <1>3
<1> QED BY <1>5, <1>6

\* A handler that goes on changes its place only.
LEMMA GotoEffect ==
  ASSUME TypeOK, QueueInv, NEW h \in Handlers, handler[h].pc # "idle",
         NEW pc \in HandlerPC, Goto(h, pc)
  PROVE  /\ job' \in [Jobs -> JobType]
         /\ handler' \in [Handlers -> Handler]
         /\ QueueInv'
         /\ handler'[h].pc = pc
         /\ handler'[h].thread = handler[h].thread
         /\ \A g \in Handlers \ {h} : handler'[g] = handler[g]
<1>1. job' = job /\ handler' = [handler EXCEPT ![h].pc = pc]
  BY DEF Goto
<1>2. /\ handler' \in [Handlers -> Handler]
      /\ handler'[h].pc = pc
      /\ handler'[h].thread = handler[h].thread
      /\ handler'[h].job = handler[h].job
      /\ \A g \in Handlers \ {h} : handler'[g] = handler[g]
  BY <1>1 DEF TypeOK, Handler
<1>3. QueueInv'  BY <1>1, <1>2 DEF QueueInv
<1> QED BY <1>1, <1>2, <1>3 DEF TypeOK

\* Any handlers can be counted.
LEMMA CountsHandlers ==
  ASSUME NEW S \in SUBSET Handlers
  PROVE  IsFiniteSet(S) /\ Cardinality(S) \in Nat
  BY AutoAssumption, FS_Subset, FS_CardinalityType

\* Nothing new counts for t: no handler came to the provider, and the free
\* claim, the confirmed replies and the erased claims are what they were.
StillCounts(t) ==
    /\ Holders(t)' \subseteq Holders(t)
    /\ Free(t)' = Free(t) /\ confirmed'[t] = confirmed[t] /\ erased'[t] = erased[t]

\* Then t keeps its part of ClaimInv.
LEMMA CountKept ==
  ASSUME TypeOK, ClaimInv, NEW t \in Threads, StillCounts(t)
  PROVE  Cardinality(Holders(t)') + Free(t)' + confirmed'[t] <= 1 + erased'[t]
<1>1. Holders(t) \in SUBSET Handlers /\ Holders(t)' \in SUBSET Handlers
  BY DEF Holders
<1>2. Cardinality(Holders(t)') \in Nat /\ Cardinality(Holders(t)) \in Nat
  BY <1>1, CountsHandlers
<1>3. Cardinality(Holders(t)') <= Cardinality(Holders(t))
  BY <1>1, CountsHandlers, FS_Subset DEF StillCounts
<1>4. confirmed[t] \in Nat /\ erased[t] \in Nat /\ Free(t) \in Nat
  BY DEF TypeOK, Free
<1>5. Cardinality(Holders(t)) + Free(t) + confirmed[t] <= 1 + erased[t]
  BY DEF ClaimInv
<1> QED
  BY <1>2, <1>3, <1>4, <1>5 DEF StillCounts

\* ClaimInv survives a step that sends no new handler to the provider, saves
\* no thread, takes no claim back and confirms nothing.
LEMMA QuietClaim ==
  ASSUME TypeOK, ClaimInv, UNCHANGED <<claim, confirmed, erased>>,
         \A h \in Handlers : Sending(h)' => Sending(h) /\ handler'[h].thread = handler[h].thread
  PROVE  ClaimInv'
<1>1. \A t \in Threads : StillCounts(t)
  BY DEF StillCounts, Holders, Free
<1> QED
  BY <1>1, CountKept DEF ClaimInv

\* Steps that only move a handler keep the calls' part of the invariant.
LEMMA QuietSavers == ASSUME SaverInv, UNCHANGED calls PROVE SaverInv'
  BY DEF SaverInv, calls

(***************************************************************************)
(* The invariant                                                           *)
(***************************************************************************)

\* The checks change nothing but the handler and its job.
LEMMA ChecksInv ==
  ASSUME IInv, NEW h \in Handlers, Checks(h)
  PROVE  IInv'
<1> USE DEF At
<1>1. UNCHANGED <<calls, thread, sender, wire, faults>>
  BY DEF Checks, Decline, CheckThrows, CheckLog, CheckReplies, CheckOptOut, CheckCooldown, Compose
<1>2. /\ handler[h].pc # "idle"
      /\ \/ Return(h) \/ Throw(h)
         \/ \E pc \in {"thread", "optOut", "cooldown", "compose", "claim"} : Goto(h, pc)
  BY DEF Checks, Decline, CheckThrows, CheckLog, CheckReplies, CheckOptOut, CheckCooldown,
         Compose, CheckPC
<1>3. /\ job' \in [Jobs -> JobType] /\ handler' \in [Handlers -> Handler] /\ QueueInv'
      /\ ~Sending(h)'
      /\ \A g \in Handlers \ {h} : handler'[g] = handler[g]
  <2>1. CASE Return(h) \/ Throw(h)
    BY <2>1, LeaveEffect DEF IInv, Sending, IdleHandler
  <2>2. CASE \E pc \in {"thread", "optOut", "cooldown", "compose", "claim"} : Goto(h, pc)
    <3>1. PICK pc \in {"thread", "optOut", "cooldown", "compose", "claim"} : Goto(h, pc)
      BY <2>2
    <3>2. pc \in HandlerPC  BY <3>1 DEF HandlerPC, CheckPC, ReplyPC
    <3> QED BY <3>1, <3>2, <1>2, GotoEffect DEF IInv, Sending
  <2> QED BY <1>2, <2>1, <2>2
<1>4. TypeOK'
  BY <1>1, <1>3 DEF IInv, TypeOK, calls, thread, sender, wire
<1>5. ClaimInv'
  BY <1>1, <1>3, QuietClaim DEF IInv, calls, thread, wire, Sending
<1>6. SaverInv'  BY <1>1, QuietSavers DEF IInv
<1> QED BY <1>3, <1>4, <1>5, <1>6 DEF IInv

\* The claim of a free thread lets one handler through.
LEMMA ClaimCounts ==
  ASSUME IInv, NEW h \in Handlers, NEW t \in Threads, t = handler[h].thread,
         ~Sending(h), t \notin claim,
         Sending(h)', handler'[h].thread = t,
         \A g \in Handlers \ {h} : handler'[g] = handler[g],
         claim' = claim \cup {t}, UNCHANGED <<confirmed, erased>>
  PROVE  ClaimInv'
<1>1. \A u \in Threads \ {t} : StillCounts(u)
  BY DEF StillCounts, Holders, Free, Sending
<1>2. Holders(t)' = Holders(t) \cup {h} /\ h \notin Holders(t)
  BY DEF Holders, Sending
<1>3. Holders(t) \in SUBSET Handlers
  BY DEF Holders
<1>4. Cardinality(Holders(t)') = Cardinality(Holders(t)) + 1 /\ Cardinality(Holders(t)) \in Nat
  BY <1>2, <1>3, CountsHandlers, FS_AddElement
<1>5. Free(t) = 1 /\ Free(t)' = 0
  BY DEF Free
<1>6. confirmed[t] \in Nat /\ erased[t] \in Nat
  BY DEF IInv, TypeOK
<1>7. Cardinality(Holders(t)) + Free(t) + confirmed[t] <= 1 + erased[t]
  BY DEF IInv, ClaimInv
<1>8. Cardinality(Holders(t)') + Free(t)' + confirmed'[t] <= 1 + erased'[t]
  BY <1>4, <1>5, <1>6, <1>7
<1> QED
  BY <1>1, <1>8, CountKept DEF IInv, ClaimInv

\* A handler that leaves the provider makes room for what it leaves behind: a
\* confirmed reply or a claim given back.
LEMMA LeaveCounts ==
  ASSUME IInv, NEW h \in Handlers, NEW t \in Threads, t = handler[h].thread,
         Sending(h), ~Sending(h)',
         \A g \in Handlers \ {h} : handler'[g] = handler[g],
         erased' = erased,
         \/ claim' = claim /\ confirmed' = [confirmed EXCEPT ![t] = @ + 1]
         \/ claim' = claim \ {t} /\ confirmed' = confirmed
  PROVE  ClaimInv'
<1>0. confirmed[t] \in Nat /\ erased[t] \in Nat /\ Free(t) \in Nat
  BY DEF IInv, TypeOK, Free
<1>1. \A u \in Threads \ {t} : StillCounts(u)
  BY DEF StillCounts, Holders, Free, Sending, IInv, TypeOK
<1>2. Holders(t)' = Holders(t) \ {h} /\ h \in Holders(t)
  BY DEF Holders, Sending
<1>3. Holders(t) \in SUBSET Handlers /\ Holders(t)' \in SUBSET Handlers
  BY DEF Holders
<1>4. /\ Cardinality(Holders(t)') = Cardinality(Holders(t)) - 1
      /\ Cardinality(Holders(t)) \in Nat /\ Cardinality(Holders(t)') \in Nat
  BY <1>2, <1>3, CountsHandlers, FS_RemoveElement
<1>5. Free(t)' + confirmed'[t] <= Free(t) + confirmed[t] + 1
  <2>1. CASE claim' = claim /\ confirmed' = [confirmed EXCEPT ![t] = @ + 1]
    <3>1. confirmed'[t] = confirmed[t] + 1 /\ Free(t)' = Free(t)
      BY <2>1 DEF IInv, TypeOK, Free
    <3> QED BY <3>1, <1>0
  <2>2. CASE claim' = claim \ {t} /\ confirmed' = confirmed
    <3>1. confirmed'[t] = confirmed[t] /\ Free(t)' = 1
      BY <2>2 DEF Free
    <3> QED BY <3>1, <1>0
  <2> QED BY <2>1, <2>2
<1>6. Cardinality(Holders(t)) + Free(t) + confirmed[t] <= 1 + erased[t]
  BY DEF IInv, ClaimInv
<1>7. confirmed'[t] \in Nat /\ Free(t)' \in Nat
  BY <1>0 DEF IInv, TypeOK, Free
<1>8. Cardinality(Holders(t)') + Free(t)' + confirmed'[t] <= 1 + erased'[t]
  BY <1>0, <1>4, <1>5, <1>6, <1>7
<1> QED
  BY <1>1, <1>8, CountKept DEF IInv, ClaimInv

\* Claiming, the provider's answers and giving the claim back.
LEMMA RepliesInv ==
  ASSUME IInv, NEW h \in Handlers, Replies(h) \/ ReplyInDoubt(h)
  PROVE  IInv'
<1> USE DEF At
<1>0. handler[h].pc # "idle"
  BY DEF Replies, Claim, ReplyAccepted, ReplyRejected, Release, ReplyInDoubt
<1>1. handler[h].thread \in Threads
  BY <1>0 DEF IInv, QueueInv
<1>2. ASSUME Claim(h) PROVE IInv'
  <2>0. SaverInv'
    BY <1>2, QuietSavers DEF Claim, IInv
  <2>1. CASE handler[h].thread \in claim
    <3>1. Return(h) /\ claim' = claim
      BY <1>2, <2>1 DEF Claim, Thread
    <3>2. /\ job' \in [Jobs -> JobType] /\ handler' \in [Handlers -> Handler] /\ QueueInv'
          /\ ~Sending(h)'
          /\ \A g \in Handlers \ {h} : handler'[g] = handler[g]
      BY <3>1, LeaveEffect DEF IInv, Sending, IdleHandler
    <3>3. TypeOK'  BY <3>1, <3>2, <1>2 DEF IInv, TypeOK, Claim, calls, sender, wire
    <3>4. ClaimInv'
      BY <3>1, <3>2, <1>2, QuietClaim DEF IInv, Claim, calls, wire, Sending
    <3> QED BY <3>2, <3>3, <3>4, <2>0 DEF IInv
  <2>2. CASE handler[h].thread \notin claim
    <3>1. /\ Goto(h, "send") /\ claim' = claim \cup {handler[h].thread}
          /\ UNCHANGED <<confirmed, erased>>
      BY <1>2, <2>2 DEF Claim, Thread, calls, wire
    <3>2. /\ job' \in [Jobs -> JobType] /\ handler' \in [Handlers -> Handler] /\ QueueInv'
          /\ handler'[h].pc = "send" /\ handler'[h].thread = handler[h].thread
          /\ \A g \in Handlers \ {h} : handler'[g] = handler[g]
      BY <3>1, <1>0, GotoEffect DEF IInv, HandlerPC, ReplyPC
    <3>3. TypeOK'  BY <3>1, <3>2, <1>1, <1>2 DEF IInv, TypeOK, Claim, calls, sender, wire
    <3>4. ~Sending(h)
      BY <1>2 DEF Claim, Sending
    <3>5. ClaimInv'
      BY <3>1, <3>2, <3>4, <2>2, <1>1, ClaimCounts DEF Sending
    <3> QED BY <3>2, <3>3, <3>5, <2>0 DEF IInv
  <2> QED BY <2>1, <2>2
<1>3. ASSUME ReplyAccepted(h) PROVE IInv'
  <2>1. /\ handler[h].pc = "send" /\ Goto(h, "find")
        /\ confirmed' = [confirmed EXCEPT ![handler[h].thread] = @ + 1]
        /\ UNCHANGED <<claim, erased>>
    BY <1>3 DEF ReplyAccepted, Thread, calls, thread
  <2>2. /\ job' \in [Jobs -> JobType] /\ handler' \in [Handlers -> Handler] /\ QueueInv'
        /\ ~Sending(h)'
        /\ \A g \in Handlers \ {h} : handler'[g] = handler[g]
    BY <2>1, <1>0, GotoEffect DEF IInv, HandlerPC, PersistPC, Sending
  <2>3. confirmed' \in [Threads -> Nat]
    BY <2>1, <1>1 DEF IInv, TypeOK
  <2>4. TypeOK'  BY <2>2, <2>3, <1>3 DEF IInv, TypeOK, ReplyAccepted, calls, thread, sender
  <2>5. ClaimInv'
    BY <1>1, <2>1, <2>2, LeaveCounts DEF Sending
  <2>6. SaverInv'
    BY <1>3, QuietSavers DEF ReplyAccepted, IInv
  <2> QED BY <2>2, <2>4, <2>5, <2>6 DEF IInv
<1>4. ASSUME ReplyRejected(h) \/ ReplyInDoubt(h) PROVE IInv'
  <2>1. /\ handler[h].pc = "send" /\ Goto(h, "release")
        /\ UNCHANGED <<calls, thread, sender, confirmed>>
    BY <1>4 DEF ReplyRejected, ReplyInDoubt, wire
  <2>2. /\ job' \in [Jobs -> JobType] /\ handler' \in [Handlers -> Handler] /\ QueueInv'
        /\ handler'[h].pc = "release" /\ handler'[h].thread = handler[h].thread
        /\ \A g \in Handlers \ {h} : handler'[g] = handler[g]
    BY <2>1, <1>0, GotoEffect DEF IInv, HandlerPC
  <2>3. doubtful' \in [Threads -> Nat] /\ faults' \in 0..MaxFaults
    BY <1>4, <1>1, AutoAssumption DEF ReplyRejected, ReplyInDoubt, Fault, Thread, wire, IInv, TypeOK
  <2>4. TypeOK'  BY <2>1, <2>2, <2>3 DEF IInv, TypeOK, calls, thread, sender
  <2>5. ClaimInv'  BY <2>1, <2>2, QuietClaim DEF IInv, calls, thread, Sending
  <2>6. SaverInv'  BY <2>1, QuietSavers DEF IInv
  <2> QED BY <2>2, <2>4, <2>5, <2>6 DEF IInv
<1>5. ASSUME Release(h) PROVE IInv'
  <2>1. /\ handler[h].pc = "release" /\ Return(h)
        /\ claim' = claim \ {handler[h].thread} /\ UNCHANGED <<confirmed, erased>>
    BY <1>5 DEF Release, Thread, calls, wire
  <2>2. /\ job' \in [Jobs -> JobType] /\ handler' \in [Handlers -> Handler] /\ QueueInv'
        /\ ~Sending(h)'
        /\ \A g \in Handlers \ {h} : handler'[g] = handler[g]
    BY <2>1, LeaveEffect DEF IInv, Sending, IdleHandler
  <2>3. TypeOK'  BY <2>1, <2>2, <1>5 DEF IInv, TypeOK, Release, calls, sender, wire
  <2>4. ClaimInv'
    BY <1>1, <2>1, <2>2, LeaveCounts DEF Sending
  <2>5. SaverInv'
    BY <1>5, QuietSavers DEF Release, IInv
  <2> QED BY <2>2, <2>3, <2>4, <2>5 DEF IInv
<1> QED BY <1>2, <1>3, <1>4, <1>5 DEF Replies

\* Recording the reply never touches claims or the wire.
LEMMA PersistsInv ==
  ASSUME IInv, NEW h \in Handlers, Persists(h)
  PROVE  IInv'
<1> USE DEF At
<1>1. UNCHANGED <<calls, claim, optOut, optingOut, lapses, confirmed, doubtful, faults>>
  BY DEF Persists, FindReply, FlagReply, InsertReply, LogResponse, GuardThread, ClearCooldown,
         StartCooldown, thread, sender, wire
<1>2. /\ handler[h].pc # "idle"
      /\ Return(h) \/ \E pc \in PersistPC : Goto(h, pc)
  BY DEF Persists, FindReply, FlagReply, InsertReply, LogResponse, GuardThread, ClearCooldown,
         StartCooldown, PersistPC
<1>3. /\ job' \in [Jobs -> JobType] /\ handler' \in [Handlers -> Handler] /\ QueueInv'
      /\ ~Sending(h)'
      /\ \A g \in Handlers \ {h} : handler'[g] = handler[g]
  <2>1. CASE Return(h)
    BY <2>1, LeaveEffect DEF IInv, Sending, IdleHandler
  <2>2. CASE \E pc \in PersistPC : Goto(h, pc)
    <3>1. PICK pc \in PersistPC : Goto(h, pc)  BY <2>2
    <3>2. pc \in HandlerPC /\ pc \notin {"send", "release"}
      BY <3>1 DEF HandlerPC, PersistPC
    <3> QED BY <3>1, <3>2, <1>2, GotoEffect DEF IInv, Sending
  <2> QED BY <1>2, <2>1, <2>2
<1>4. handler[h].thread \in Threads /\ SenderOf[handler[h].thread] \in Senders
  BY <1>2, AutoAssumption DEF IInv, QueueInv
<1>5. /\ log' \subseteq Threads /\ guarded' \subseteq Threads /\ replied' \subseteq Threads
      /\ stored' \in [Threads -> StoredRow]
      /\ cooldown' \subseteq Senders
  <2>1. CASE FindReply(h)  BY <2>1 DEF FindReply, thread, sender, IInv, TypeOK
  <2>2. CASE FlagReply(h)  BY <2>2 DEF FlagReply, sender, IInv, TypeOK, StoredRow
  <2>3. CASE InsertReply(h)
    BY <2>3, <1>4 DEF InsertReply, sender, IInv, TypeOK, StoredRow, Thread
  <2>4. CASE LogResponse(h)  BY <2>4, <1>4 DEF LogResponse, sender, IInv, TypeOK, Thread
  <2>5. CASE GuardThread(h)  BY <2>5, <1>4 DEF GuardThread, sender, IInv, TypeOK, Thread
  <2>6. CASE ClearCooldown(h)  BY <2>6 DEF ClearCooldown, thread, IInv, TypeOK
  <2>7. CASE StartCooldown(h)
    BY <2>7, <1>4 DEF StartCooldown, thread, IInv, TypeOK, SenderFor
  <2> QED BY <2>1, <2>2, <2>3, <2>4, <2>5, <2>6, <2>7 DEF Persists
<1>6. TypeOK'  BY <1>1, <1>3, <1>5 DEF IInv, TypeOK, calls
<1>7. ClaimInv'  BY <1>1, <1>3, QuietClaim DEF IInv, calls, Sending
<1>8. SaverInv'  BY <1>1, QuietSavers DEF IInv
<1> QED BY <1>3, <1>6, <1>7, <1>8 DEF IInv

\* Expired jobs, crashes and errors that are caught.
LEMMA FailsInv ==
  ASSUME IInv, NEW h \in Handlers,
         Expire(h) \/ Crash(h) \/ ReleaseThrows(h) \/ PersistThrows(h)
  PROVE  IInv'
<1> USE DEF At
<1>1. UNCHANGED <<calls, thread, sender, wire>> /\ faults' \in 0..MaxFaults
  BY AutoAssumption DEF Expire, Crash, ReleaseThrows, PersistThrows, Fault, IInv, TypeOK
<1>2. /\ job' \in [Jobs -> JobType] /\ handler' \in [Handlers -> Handler] /\ QueueInv'
      /\ Sending(h)' => Sending(h) /\ handler'[h].thread = handler[h].thread
      /\ \A g \in Handlers \ {h} : handler'[g] = handler[g]
  <2>1. CASE Return(h) \/ Throw(h)
    BY <2>1, LeaveEffect DEF IInv, Sending, IdleHandler
  <2>2. CASE Expire(h)
    <3>1. PICK j \in Jobs : j = handler[h].job /\ j # NoJob
      BY <2>2 DEF Expire, IInv, TypeOK, Handler
    <3>2. job[j].state = "active"  BY <3>1 DEF IInv, QueueInv
    <3>3. job' = Failed(j)  BY <2>2, <3>1 DEF Expire
    <3>4. /\ job' \in [Jobs -> JobType]
          /\ \A i \in Jobs \ {j} : job'[i] = job[i]
          /\ job'[j].state # "free" => job'[j].key \in Threads
      BY <3>2, <3>3, SlotEffect DEF IInv
    <3>5. /\ handler' \in [Handlers -> Handler]
          /\ handler'[h].job = NoJob
          /\ handler'[h].pc = handler[h].pc /\ handler'[h].thread = handler[h].thread
          /\ \A g \in Handlers \ {h} : handler'[g] = handler[g]
      BY <2>2 DEF Expire, IInv, TypeOK, Handler
    <3>6. \A g \in Handlers \ {h} : handler[g].job # j
      BY <3>1 DEF IInv, QueueInv
    <3>7. \A g \in Handlers : handler[g].job \in Jobs \cup {NoJob}
      BY DEF IInv, TypeOK, Handler
    <3>8. \A i \in Jobs : job'[i].state # "free" => job'[i].key \in Threads
      BY <3>4 DEF IInv, QueueInv
    <3>9. \A g \in Handlers : handler'[g].job # NoJob => job'[handler'[g].job].state = "active"
      BY <3>4, <3>5, <3>6, <3>7 DEF IInv, QueueInv
    <3>10. \A g \in Handlers : handler'[g].pc # "idle" => handler'[g].thread \in Threads
      BY <3>5 DEF IInv, QueueInv
    <3>11. \A f, g \in Handlers :
              handler'[f].job # NoJob /\ handler'[f].job = handler'[g].job => f = g
      BY <3>5 DEF IInv, QueueInv
    <3>12. QueueInv'  BY <3>8, <3>9, <3>10, <3>11 DEF QueueInv
    <3> QED BY <3>4, <3>5, <3>12 DEF Sending
  <2> QED BY <2>1, <2>2 DEF Crash, ReleaseThrows, PersistThrows
<1>3. TypeOK'  BY <1>1, <1>2 DEF IInv, TypeOK, calls, thread, sender, wire
<1>4. ClaimInv'  BY <1>1, <1>2, QuietClaim DEF IInv, calls, thread, wire, Sending
<1>5. SaverInv'  BY <1>1, QuietSavers DEF IInv
<1> QED BY <1>2, <1>3, <1>4, <1>5 DEF IInv

\* A fetched job gives its handler a thread.
LEMMA FetchInv ==
  ASSUME IInv, NEW h \in Handlers, NEW j \in Jobs, Fetch(h, j)
  PROVE  IInv'
<1>1. /\ handler[h].pc = "idle" /\ job[j].state = "ready"
      /\ job' = [job EXCEPT ![j].state = "active"]
      /\ handler' = [handler EXCEPT ![h] = [pc |-> "log", thread |-> job[j].key, job |-> j]]
      /\ UNCHANGED <<calls, thread, sender, wire, faults>>
  BY DEF Fetch, FetchJob, At
<1>2. job[j] \in JobType /\ job[j].key \in Threads
  BY <1>1 DEF IInv, TypeOK, QueueInv
<1>3. /\ job' \in [Jobs -> JobType]
      /\ job'[j].state = "active" /\ job'[j].key = job[j].key
      /\ \A i \in Jobs \ {j} : job'[i] = job[i]
  BY <1>1, <1>2 DEF IInv, TypeOK, JobType, JobState
<1>4. [pc |-> "log", thread |-> job[j].key, job |-> j] \in Handler
  BY <1>2 DEF Handler, HandlerPC, CheckPC
<1>5. /\ handler' \in [Handlers -> Handler]
      /\ handler'[h].pc = "log" /\ handler'[h].thread \in Threads /\ handler'[h].job = j
      /\ \A g \in Handlers \ {h} : handler'[g] = handler[g]
  BY <1>1, <1>2, <1>4 DEF IInv, TypeOK
<1>6. \A g \in Handlers \ {h} : handler[g].job # j
  BY <1>1, AutoAssumption DEF IInv, QueueInv
<1>7. \A g \in Handlers : handler[g].job \in Jobs \cup {NoJob}
  BY DEF IInv, TypeOK, Handler
<1>8. \A i \in Jobs : job'[i].state # "free" => job'[i].key \in Threads
  BY <1>2, <1>3 DEF IInv, QueueInv
<1>9. \A g \in Handlers : handler'[g].job # NoJob => job'[handler'[g].job].state = "active"
  BY <1>3, <1>5, <1>6, <1>7 DEF IInv, QueueInv
<1>10. \A f, g \in Handlers :
          handler'[f].job # NoJob /\ handler'[f].job = handler'[g].job => f = g
  BY <1>5, <1>6 DEF IInv, QueueInv
<1>11. \A g \in Handlers : handler'[g].pc # "idle" => handler'[g].thread \in Threads
  BY <1>5 DEF IInv, QueueInv
<1>12. QueueInv'  BY <1>8, <1>9, <1>10, <1>11 DEF QueueInv
<1>13. TypeOK'  BY <1>1, <1>3, <1>5 DEF IInv, TypeOK, calls, thread, sender, wire
<1>14. ClaimInv'  BY <1>1, <1>5, QuietClaim DEF IInv, calls, thread, wire, Sending
<1>15. SaverInv'  BY <1>1, QuietSavers DEF IInv
<1> QED BY <1>12, <1>13, <1>14, <1>15 DEF IInv

\* A mail may put a job for its thread into the queue.
LEMMA EnqueueEffect ==
  ASSUME TypeOK, QueueInv, UNCHANGED handler,
         UNCHANGED job \/ \E t \in Threads : Enqueue(t)
  PROVE  job' \in [Jobs -> JobType] /\ QueueInv'
<1>1. CASE UNCHANGED job
  BY <1>1 DEF TypeOK, QueueInv
<1>2. CASE \E t \in Threads : Enqueue(t)
  <2>1. PICK t \in Threads, j \in Jobs :
          /\ job[j].state = "free"
          /\ job' = [job EXCEPT ![j] = [state |-> "ready", key |-> t, retries |-> 0]]
    BY <1>2 DEF Enqueue
  <2>2. [state |-> "ready", key |-> t, retries |-> 0] \in JobType
    BY <2>1, AutoAssumption DEF JobType, JobState
  <2>3. /\ job' \in [Jobs -> JobType]
        /\ job'[j].key = t
        /\ \A i \in Jobs \ {j} : job'[i] = job[i]
    BY <2>1, <2>2 DEF TypeOK
  <2>4. \A g \in Handlers : handler[g].job \in Jobs \cup {NoJob}
    BY DEF TypeOK, Handler
  <2>5. \A i \in Jobs : job'[i].state # "free" => job'[i].key \in Threads
    BY <2>1, <2>3 DEF QueueInv
  <2>6. \A g \in Handlers : handler'[g].job # NoJob => job'[handler'[g].job].state = "active"
    BY <2>1, <2>3, <2>4 DEF QueueInv
  <2> QED
    BY <2>3, <2>5, <2>6 DEF QueueInv
<1> QED
  BY <1>1, <1>2

\* A save of t moves its claim, and accounts for one it erases.
LEMMA SaveCounts ==
  ASSUME IInv, NEW t \in Threads, NEW claimed \in BOOLEAN,
         claim' = Put(claim, t, claimed),
         erased' = CountIf(erased, t, t \in claim /\ ~claimed),
         UNCHANGED <<handler, confirmed>>
  PROVE  ClaimInv'
<1>1. \A u \in Threads : Holders(u)' = Holders(u)
  BY DEF Holders, Sending
<1>2. \A u \in Threads \ {t} : StillCounts(u)
  BY <1>1 DEF StillCounts, Free, Put, CountIf, IInv, TypeOK
<1>3. Holders(t) \in SUBSET Handlers
  BY DEF Holders
<1>4. Cardinality(Holders(t)) \in Nat
  BY <1>3, CountsHandlers
<1>5. confirmed[t] \in Nat /\ erased[t] \in Nat /\ Free(t) \in Nat /\ Free(t)' \in Nat
  BY DEF IInv, TypeOK, Free
<1>6. erased'[t] \in Nat /\ Free(t)' + erased[t] <= Free(t) + erased'[t]
  <2>1. CASE t \in claim /\ ~claimed
    <3>1. erased'[t] = erased[t] + 1
      BY <2>1 DEF CountIf, IInv, TypeOK
    <3>2. Free(t)' <= 1
      BY DEF Free
    <3> QED BY <3>1, <3>2, <1>5
  <2>2. CASE ~(t \in claim /\ ~claimed)
    <3>1. erased'[t] = erased[t]
      BY <2>2 DEF CountIf
    <3>2. Free(t)' <= Free(t)
      BY <2>2 DEF Put, Free
    <3> QED BY <3>1, <3>2, <1>5
  <2> QED BY <2>1, <2>2
<1>7. Cardinality(Holders(t)) + Free(t) + confirmed[t] <= 1 + erased[t]
  BY DEF IInv, ClaimInv
<1>8. Cardinality(Holders(t)') + Free(t)' + confirmed'[t] <= 1 + erased'[t]
  <2>1. Cardinality(Holders(t)') = Cardinality(Holders(t)) /\ confirmed'[t] = confirmed[t]
    BY <1>1
  <2> QED BY <2>1, <1>4, <1>5, <1>6, <1>7
<1> QED
  BY <1>2, <1>8, CountKept DEF IInv, ClaimInv

\* Calls that find a thread, save it and leave it.
LEMMA SavesInv ==
  ASSUME IInv, NEW k \in Savers, Saves(k)
  PROVE  IInv'
<1>1. /\ UNCHANGED <<handler, log, replied, stored, sender, wire, faults>>
      /\ saver[k] \in Saver
  BY DEF Saves, SavesThread, LeavesThread, MailArrives, RequestArrives, thread, IInv, TypeOK
<1>2. ASSUME NEW t \in Threads, MailArrives(k, t) \/ RequestArrives(k, t)
      PROVE  IInv'
  <2>1. PICK kind \in {"mail", "request"} : FindsThread(k, kind, t)
    BY <1>2 DEF MailArrives, RequestArrives
  <2>2. /\ saver' = [saver EXCEPT ![k] = [pc |-> kind, thread |-> t,
                                          claimed |-> t \in claim, guarded |-> t \in guarded]]
        /\ UNCHANGED <<job, claim, guarded, erased, restored>>
    BY <1>2, <2>1 DEF MailArrives, RequestArrives, FindsThread, thread
  <2>3. [pc |-> kind, thread |-> t, claimed |-> t \in claim, guarded |-> t \in guarded] \in Saver
    BY DEF Saver
  <2>4. saver' \in [Savers -> Saver] /\ SaverInv'
    BY <2>2, <2>3 DEF IInv, TypeOK, SaverInv
  <2>5. mails' \in [Threads -> 0..MaxMails]
    BY <1>2, AutoAssumption DEF MailArrives, RequestArrives, IInv, TypeOK
  <2>6. TypeOK'
    BY <1>1, <2>2, <2>4, <2>5 DEF IInv, TypeOK, sender, wire
  <2>7. QueueInv' /\ ClaimInv'
    BY <1>1, <2>2, QuietClaim DEF IInv, QueueInv, wire, Sending
  <2> QED
    BY <2>4, <2>6, <2>7 DEF IInv
<1>3. ASSUME SavesThread(k)
      PROVE  IInv'
  <2>1. PICK t \in Threads : t = saver[k].thread
    BY <1>3 DEF SavesThread, IInv, SaverInv
  <2>2. PICK claimed \in BOOLEAN : claimed = saver[k].claimed
    BY <1>1 DEF Saver
  <2>3. /\ claim' = Put(claim, t, claimed)
        /\ guarded' = Put(guarded, t, saver[k].guarded)
        /\ erased' = CountIf(erased, t, t \in claim /\ ~claimed)
        /\ restored' = CountIf(restored, t, t \notin claim /\ claimed)
        /\ UNCHANGED <<job, mails, saver>>
    BY <1>3, <2>1, <2>2 DEF SavesThread
  <2>4. /\ claim' \subseteq Threads /\ guarded' \subseteq Threads
        /\ erased' \in [Threads -> Nat] /\ restored' \in [Threads -> Nat]
    BY <2>3 DEF Put, CountIf, IInv, TypeOK
  <2>5. TypeOK'
    BY <1>1, <2>3, <2>4 DEF IInv, TypeOK, sender, wire
  <2>6. QueueInv' /\ SaverInv'
    BY <1>1, <2>3 DEF IInv, QueueInv, SaverInv
  <2>7. ClaimInv'
    BY <1>1, <2>3, SaveCounts DEF wire
  <2> QED
    BY <2>5, <2>6, <2>7 DEF IInv
<1>4. ASSUME LeavesThread(k)
      PROVE  IInv'
  <2>1. /\ saver' = [saver EXCEPT ![k] = IdleSaver]
        /\ UNCHANGED <<mails, erased, restored, claim, guarded>>
        /\ UNCHANGED job \/ Enqueue(saver[k].thread)
        /\ saver[k].thread \in Threads
    BY <1>4 DEF LeavesThread, thread, IInv, SaverInv
  <2>2. job' \in [Jobs -> JobType] /\ QueueInv'
    BY <1>1, <2>1, EnqueueEffect DEF IInv
  <2>3. saver' \in [Savers -> Saver] /\ SaverInv'
    BY <2>1 DEF IInv, TypeOK, SaverInv, Saver, IdleSaver
  <2>4. TypeOK'
    BY <1>1, <2>1, <2>2, <2>3 DEF IInv, TypeOK, sender, wire
  <2>5. ClaimInv'
    BY <1>1, <2>1, QuietClaim DEF IInv, wire, Sending
  <2> QED
    BY <2>2, <2>3, <2>4, <2>5 DEF IInv
<1> QED
  BY <1>2, <1>3, <1>4 DEF Saves

\* The part of TypeOK that the sync and the user write.
OutsideOK ==
    /\ replied \subseteq Threads /\ stored \in [Threads -> StoredRow]
    /\ cooldown \subseteq Senders /\ optOut \subseteq Senders /\ optingOut \subseteq Senders
    /\ lapses \in [Senders -> 0..MaxLapses]

\* The sync and the user never touch jobs, handlers, claims or the wire.
LEMMA OutsideInv ==
  ASSUME IInv,
         (\E t \in Threads : OfThread(t)) \/ (\E s \in Senders : OfSender(s))
  PROVE  IInv'
<1>1. UNCHANGED <<job, calls, handler, claim, log, guarded, confirmed, doubtful, faults>>
  BY DEF OfThread, OfSender, UserReplies, SyncStoresReply, BeginOptOut, SaveOptOut, RemoveOptOut,
         CooldownLapses, thread, sender, wire
<1>2. OutsideOK'
  <2>1. ASSUME NEW t \in Threads, OfThread(t) PROVE OutsideOK'
    BY <2>1 DEF OfThread, UserReplies, SyncStoresReply, sender, IInv, OutsideOK, TypeOK, StoredRow
  <2>2. ASSUME NEW s \in Senders, OfSender(s) PROVE OutsideOK'
    <3>1. CASE BeginOptOut(s)  BY <3>1 DEF BeginOptOut, thread, IInv, OutsideOK, TypeOK
    <3>2. CASE SaveOptOut(s) \/ RemoveOptOut(s)
      BY <3>2 DEF SaveOptOut, RemoveOptOut, thread, IInv, OutsideOK, TypeOK
    <3>3. CASE CooldownLapses(s)
      BY <3>3, AutoAssumption DEF CooldownLapses, thread, IInv, OutsideOK, TypeOK
    <3> QED BY <2>2, <3>1, <3>2, <3>3 DEF OfSender
  <2> QED BY <2>1, <2>2
<1>3. TypeOK'  BY <1>1, <1>2 DEF IInv, OutsideOK, TypeOK, calls
<1>4. ClaimInv'  BY <1>1, QuietClaim DEF IInv, calls, Sending
<1>5. QueueInv' /\ SaverInv'  BY <1>1, QuietSavers DEF IInv, QueueInv
<1> QED BY <1>3, <1>4, <1>5 DEF IInv

\* Every step keeps the invariant.
LEMMA NextInv == ASSUME IInv, [Next]_vars PROVE IInv'
<1>1. CASE UNCHANGED vars
  <2>1. TypeOK' /\ QueueInv' /\ SaverInv'
    BY <1>1 DEF vars, calls, thread, sender, wire, IInv, TypeOK, QueueInv, SaverInv
  <2>2. ClaimInv'
    BY <1>1, QuietClaim DEF vars, calls, thread, wire, IInv, Sending
  <2> QED BY <2>1, <2>2 DEF IInv
<1>2. ASSUME NEW h \in Handlers, Progress(h) \/ Fails(h) PROVE IInv'
  BY <1>2, ChecksInv, RepliesInv, PersistsInv, FailsInv DEF Progress, Fails
<1>3. ASSUME NEW h \in Handlers, NEW j \in Jobs, Fetch(h, j) PROVE IInv'
  BY <1>3, FetchInv
<1>4. ASSUME NEW k \in Savers, Saves(k) PROVE IInv'
  BY <1>4, SavesInv
<1>5. CASE (\E t \in Threads : OfThread(t)) \/ (\E s \in Senders : OfSender(s))
  BY <1>5, OutsideInv
<1> QED BY <1>1, <1>2, <1>3, <1>4, <1>5 DEF Next

\* The inductive invariant holds in every reachable state: handlers keep to
\* their own jobs, and the handlers at the provider, the free claim and the
\* confirmed replies of a thread never exceed one and the claims erased.
THEOREM ReplyInvariant == Spec => []IInv
<1>1. Init => IInv  BY InitInv
<1>2. IInv /\ [Next]_vars => IInv'  BY NextInv
<1> QED BY <1>1, <1>2, PTL DEF Spec

(***************************************************************************)
(* The theorems                                                            *)
(***************************************************************************)

\* Every variable keeps its type; in particular a handler past its idle place
\* always has a thread and never holds another handler's job.
THEOREM TypeCorrect == Spec => []TypeOK
<1>1. IInv => TypeOK  BY DEF IInv
<1> QED BY <1>1, ReplyInvariant, PTL

\* The calls that save a thread, the sync and the user run no handler.
LEMMA HandlersKept ==
  ASSUME \/ \E k \in Savers : Saves(k)
         \/ \E t \in Threads : OfThread(t)
         \/ \E s \in Senders : OfSender(s)
  PROVE  UNCHANGED <<handler, wire, faults>>
  BY DEF Saves, SavesThread, LeavesThread, MailArrives, RequestArrives,
     OfThread, OfSender, UserReplies, SyncStoresReply, BeginOptOut, SaveOptOut, RemoveOptOut,
     CooldownLapses

\* A step of the job and its handler leaves the calls and their accounts alone.
LEMMA CallsKept ==
  ASSUME NEW h \in Handlers, Progress(h) \/ Fails(h) \/ \E j \in Jobs : Fetch(h, j)
  PROVE  UNCHANGED calls
  BY DEF Progress, Checks, Replies, Persists, Fails, Fetch,
     Decline, CheckThrows, CheckLog, CheckReplies, CheckOptOut, CheckCooldown, Compose,
     Claim, ReplyAccepted, ReplyRejected, ReplyInDoubt, Release, ReleaseThrows, Expire, Crash,
     PersistThrows, FindReply, FlagReply, InsertReply, LogResponse, GuardThread, ClearCooldown,
     StartCooldown

\* A step that sends comes from a handler at the provider.
LEMMA SenderAtProvider ==
  ASSUME IInv, [Next]_vars, NEW t \in Threads,
         ~(confirmed'[t] = confirmed[t] /\ doubtful'[t] = doubtful[t])
  PROVE  \E h \in Handlers : handler[h].pc = "send" /\ handler[h].thread = t
<1>1. PICK h \in Handlers : ReplyAccepted(h) \/ ReplyInDoubt(h)
  BY HandlersKept DEF Next, vars, Progress, Checks, Replies, Persists, Fails,
     Decline, CheckThrows, CheckLog, CheckReplies, CheckOptOut, CheckCooldown, Compose,
     Claim, ReplyRejected, Release, ReleaseThrows, Expire, Crash, PersistThrows, Fetch,
     FindReply, FlagReply, InsertReply, LogResponse, GuardThread, ClearCooldown, StartCooldown,
     wire
<1>2. handler[h].pc = "send"
  BY <1>1 DEF ReplyAccepted, ReplyInDoubt, At
<1>3. handler[h].thread = t
  BY <1>1 DEF ReplyAccepted, ReplyInDoubt, Thread, IInv, TypeOK
<1> QED BY <1>2, <1>3

\* A confirmation is never taken back.
LEMMA ConfirmedGrows ==
  ASSUME IInv, [Next]_vars, NEW t \in Threads
  PROVE  confirmed'[t] >= confirmed[t]
<1>1. confirmed[t] \in Nat
  BY DEF IInv, TypeOK
<1>2. confirmed' = confirmed \/ \E u \in Threads : confirmed' = [confirmed EXCEPT ![u] = @ + 1]
  BY HandlersKept DEF Next, vars, Progress, Checks, Replies, Persists, Fails,
     Decline, CheckThrows, CheckLog, CheckReplies, CheckOptOut, CheckCooldown, Compose,
     Claim, ReplyAccepted, ReplyRejected, ReplyInDoubt, Release, ReleaseThrows, Expire, Crash,
     PersistThrows, Fetch, FindReply, FlagReply, InsertReply, LogResponse, GuardThread,
     ClearCooldown, StartCooldown, At, Thread, wire, IInv, QueueInv
<1> QED
  BY <1>1, <1>2 DEF IInv, TypeOK

\* A handler at the provider is one of the thread's account.
LEMMA ProviderCounts ==
  ASSUME IInv, NEW h \in Handlers, Sending(h), NEW t \in Threads, handler[h].thread = t
  PROVE  confirmed[t] <= erased[t]
<1>1. Holders(t) \in SUBSET Handlers /\ h \in Holders(t)
  BY DEF Holders
<1>2. IsFiniteSet(Holders(t)) /\ Cardinality(Holders(t)) \in Nat
  BY <1>1, CountsHandlers
<1>3. Cardinality(Holders(t)) >= 1
  BY <1>1, <1>2, FS_EmptySet
<1>4. Cardinality(Holders(t)) + Free(t) + confirmed[t] <= 1 + erased[t]
  BY DEF IInv, ClaimInv
<1> QED
  BY <1>2, <1>3, <1>4 DEF Free, IInv, TypeOK

\* A thread has one confirmed reply at most, and one more at most for each
\* time a save of an older copy erased its claim.
RepliesBounded == \A t \in Threads : confirmed[t] <= 1 + erased[t]

\* However many jobs, retries and saves there are, the replies of a thread
\* never exceed the claims it lost by one.
THEOREM BoundedReplies == Spec => []RepliesBounded
<1>1. ASSUME IInv, NEW t \in Threads PROVE confirmed[t] <= 1 + erased[t]
  <2>1. Holders(t) \in SUBSET Handlers
    BY DEF Holders
  <2>2. Cardinality(Holders(t)) \in Nat
    BY <2>1, CountsHandlers
  <2>3. Cardinality(Holders(t)) + Free(t) + confirmed[t] <= 1 + erased[t]
    BY <1>1 DEF IInv, ClaimInv
  <2> QED BY <1>1, <2>2, <2>3 DEF Free, IInv, TypeOK
<1>2. IInv => RepliesBounded
  BY <1>1 DEF RepliesBounded
<1> QED BY <1>2, ReplyInvariant, PTL

\* A thread that has its reply is not answered again, in doubt or not, until a
\* save of an older copy erases its claim once more.
AnsweredStays ==
    [][\A t \in Threads : confirmed[t] > erased[t] =>
          confirmed'[t] = confirmed[t] /\ doubtful'[t] = doubtful[t]]_vars

\* Two concurrent jobs do not both reply to one thread while its claim is kept:
\* no handler is even at the provider for a thread that has its reply.
THEOREM AnsweredOnce == Spec => AnsweredStays
<1>1. ASSUME IInv, [Next]_vars, NEW t \in Threads, confirmed[t] > erased[t]
      PROVE  confirmed'[t] = confirmed[t] /\ doubtful'[t] = doubtful[t]
  <2>1. ASSUME NEW h \in Handlers, handler[h].pc = "send", handler[h].thread = t
        PROVE  FALSE
    <3>1. confirmed[t] <= erased[t]
      BY <1>1, <2>1, ProviderCounts DEF Sending
    <3> QED BY <1>1, <3>1 DEF IInv, TypeOK
  <2> QED BY <1>1, <2>1, SenderAtProvider
<1>2. IInv /\ [Next]_vars =>
        [\A t \in Threads : confirmed[t] > erased[t] =>
            confirmed'[t] = confirmed[t] /\ doubtful'[t] = doubtful[t]]_vars
  BY <1>1
<1> QED BY <1>2, ReplyInvariant, PTL DEF Spec, AnsweredStays

\* A step after which h composes a reply found no opt-out, or h composed before.
KeepsReply(h) ==
    handler'[h].pc \in ReplyPC =>
        /\ handler'[h].thread = handler[h].thread
        /\ handler[h].pc \in ReplyPC \/ SenderFor(h) \notin optOut

\* A handler comes to compose a reply only by finding no opt-out.
LEMMA NewReply ==
  ASSUME IInv, [Next]_vars, NEW h \in Handlers
  PROVE  KeepsReply(h)
<1> USE DEF At
<1>1. CASE handler' = handler  BY <1>1 DEF KeepsReply, SenderFor
<1>2. ASSUME NEW g \in Handlers, Progress(g) \/ Fails(g) PROVE KeepsReply(h)
  <2>1. CASE Return(g) \/ Throw(g)
    BY <2>1 DEF KeepsReply, SenderFor, Return, Throw, IInv, TypeOK, IdleHandler, ReplyPC
  <2>2. CASE Expire(g)
    BY <2>2 DEF KeepsReply, SenderFor, Expire, IInv, TypeOK, Handler
  <2>3. ASSUME NEW pc \in HandlerPC, Goto(g, pc),
               pc \in ReplyPC => handler[g].pc \in ReplyPC \/ SenderFor(g) \notin optOut
        PROVE  KeepsReply(h)
    BY <2>3 DEF KeepsReply, SenderFor, Goto, IInv, TypeOK, Handler
  <2>4. \/ Return(g) \/ Throw(g) \/ Expire(g)
        \/ \E pc \in HandlerPC :
              /\ Goto(g, pc)
              /\ pc \in ReplyPC => handler[g].pc \in ReplyPC \/ SenderFor(g) \notin optOut
    BY <1>2 DEF Progress, Checks, Replies, Persists, Fails, HandlerPC, CheckPC, ReplyPC, PersistPC,
       Decline, CheckThrows, CheckLog, CheckReplies, CheckOptOut, CheckCooldown, Compose,
       Claim, ReplyAccepted, ReplyRejected, ReplyInDoubt, Release, ReleaseThrows, Crash,
       PersistThrows, FindReply, FlagReply, InsertReply, LogResponse, GuardThread,
       ClearCooldown, StartCooldown
  <2> QED BY <2>1, <2>2, <2>3, <2>4
<1>3. ASSUME NEW g \in Handlers, NEW j \in Jobs, Fetch(g, j) PROVE KeepsReply(h)
  BY <1>3 DEF KeepsReply, SenderFor, Fetch, IInv, TypeOK, ReplyPC
<1>4. CASE \/ \E k \in Savers : Saves(k)
           \/ \E t \in Threads : OfThread(t)
           \/ \E s \in Senders : OfSender(s)
  BY <1>1, <1>4, HandlersKept
<1> QED BY <1>1, <1>2, <1>3, <1>4 DEF Next, vars

\* An opt-out disappears only when it is lifted.
LEMMA OptOutStays ==
  ASSUME [Next]_vars, NEW s \in optOut PROVE s \in optOut' \/ LiftsOptOut(s)
<1>1. CASE \E r \in Senders : OfSender(r)
  BY <1>1 DEF OfSender, BeginOptOut, SaveOptOut, RemoveOptOut, CooldownLapses, LiftsOptOut
<1>2. CASE ~\E r \in Senders : OfSender(r)
  BY <1>2 DEF Next, vars, sender, Progress, Checks, Replies, Persists, Fails, OfThread,
     Decline, CheckThrows, CheckLog, CheckReplies, CheckOptOut, CheckCooldown, Compose,
     Claim, ReplyAccepted, ReplyRejected, ReplyInDoubt, Release, ReleaseThrows, Expire, Crash,
     PersistThrows, Fetch, FindReply, FlagReply, InsertReply, LogResponse, GuardThread,
     ClearCooldown, StartCooldown, UserReplies, SyncStoresReply,
     Saves, SavesThread, LeavesThread, MailArrives, RequestArrives
<1> QED BY <1>1, <1>2

\* A saved opt-out binds every handler that has not yet looked it up.
THEOREM OptOutBinds == Spec => OptOutHolds
<1>1. ASSUME IInv, [Next]_vars, NEW s \in Senders, Barred(s), ~LiftsOptOut(s) PROVE Barred(s)'
  <2>1. s \in optOut'  BY <1>1, OptOutStays DEF Barred
  <2>2. ASSUME NEW h \in Handlers, handler'[h].pc \in ReplyPC PROVE SenderFor(h)' # s
    BY <1>1, <2>2, NewReply DEF KeepsReply, Barred, SenderFor
  <2> QED BY <2>1, <2>2 DEF Barred
<1>2. ASSUME IInv, [Next]_vars, NEW s \in Senders, Barred(s), NEW t \in Threads, SenderOf[t] = s
      PROVE  confirmed'[t] = confirmed[t] /\ doubtful'[t] = doubtful[t]
  BY <1>2, SenderAtProvider DEF Barred, SenderFor, ReplyPC
<1>3. IInv /\ [Next]_vars =>
        [\A s \in Senders : Barred(s) =>
            /\ Barred(s)' \/ LiftsOptOut(s)
            /\ \A t \in Threads : SenderOf[t] = s =>
                   confirmed'[t] = confirmed[t] /\ doubtful'[t] = doubtful[t]]_vars
  BY <1>1, <1>2
<1> QED BY <1>3, ReplyInvariant, PTL DEF Spec, OptOutHolds

(***************************************************************************)
(* No claim is orphaned without a fault or a late save                     *)
(***************************************************************************)

\* What ClaimSettles needs at every moment: an unanswered claim has a handler
\* that will give it back or have the reply confirmed, or something failed, or
\* a save of an older copy put the claim back.
ClaimIsHeld ==
    \A t \in claim : \/ confirmed[t] > 0
                     \/ faults > 0
                     \/ restored[t] > 0
                     \/ \E h \in Handlers : Sending(h) /\ handler[h].thread = t

\* A handler leaves the provider by a confirmed reply, by a fault, or by giving
\* the claim back.
LEMMA HolderLeaves ==
  ASSUME IInv, [Next]_vars, NEW h \in Handlers, Sending(h)
  PROVE  \/ Sending(h)' /\ handler'[h].thread = handler[h].thread
         \/ faults' > 0
         \/ ReplyAccepted(h)
         \/ Release(h)
<1> USE DEF At
<1> DEFINE Leaves == \/ Sending(h)' /\ handler'[h].thread = handler[h].thread
                     \/ faults' > 0
                     \/ ReplyAccepted(h)
                     \/ Release(h)
<1>0. faults \in Nat
  BY AutoAssumption DEF IInv, TypeOK
<1>1. CASE handler' = handler
  BY <1>1 DEF Sending
<1>2. ASSUME NEW g \in Handlers, Progress(g) \/ Fails(g)
      PROVE  Leaves
  <2>1. CASE g # h
    <3>1. handler'[h] = handler[h]
      BY <1>2, <2>1 DEF Progress, Checks, Replies, Persists, Fails,
         Decline, CheckThrows, CheckLog, CheckReplies, CheckOptOut, CheckCooldown, Compose,
         Claim, ReplyAccepted, ReplyRejected, ReplyInDoubt, Release, ReleaseThrows, Expire, Crash,
         PersistThrows, FindReply, FlagReply, InsertReply, LogResponse, GuardThread,
         ClearCooldown, StartCooldown, Goto, Return, Throw, IInv, TypeOK
    <3> QED
      BY <3>1 DEF Sending
  <2>2. CASE g = h /\ (Expire(h) \/ Crash(h) \/ ReplyInDoubt(h) \/ ReleaseThrows(h) \/ PersistThrows(h))
    BY <1>0, <2>2 DEF Expire, Crash, ReplyInDoubt, ReleaseThrows, PersistThrows, Fault
  <2>3. CASE g = h /\ ReplyRejected(h)
    BY <2>3 DEF ReplyRejected, Goto, Sending, IInv, TypeOK, Handler
  <2>4. CASE g = h /\ (Checks(h) \/ Persists(h) \/ Claim(h))
    BY <2>4 DEF Checks, Persists, Decline, CheckThrows, CheckLog, CheckReplies, CheckOptOut,
       CheckCooldown, Compose, Claim, FindReply, FlagReply, InsertReply, LogResponse,
       GuardThread, ClearCooldown, StartCooldown, Sending, CheckPC
  <2> QED
    BY <1>2, <2>1, <2>2, <2>3, <2>4 DEF Progress, Replies, Fails
<1>3. ASSUME NEW g \in Handlers, NEW j \in Jobs, Fetch(g, j)
      PROVE  Leaves
  BY <1>3 DEF Fetch, Sending, IInv, TypeOK
<1>4. CASE \/ \E k \in Savers : Saves(k)
           \/ \E t \in Threads : OfThread(t)
           \/ \E s \in Senders : OfSender(s)
  BY <1>1, <1>4, HandlersKept
<1> QED
  BY <1>1, <1>2, <1>3, <1>4 DEF Next, vars

\* Faults and restored claims are never forgotten, and any other claim is taken
\* only by going to send.
LEMMA NewClaim ==
  ASSUME IInv, [Next]_vars
  PROVE  /\ faults' >= faults
         /\ \A t \in Threads : restored'[t] >= restored[t]
         /\ \A t \in claim' \ claim :
               \/ restored'[t] > 0
               \/ \E h \in Handlers : handler'[h].pc = "send" /\ handler'[h].thread = t
<1>0. faults \in Nat /\ \A t \in Threads : restored[t] \in Nat
  BY AutoAssumption DEF IInv, TypeOK
<1>1. CASE \E h \in Handlers : Claim(h)
  <2>1. PICK h \in Handlers : Claim(h)
    BY <1>1
  <2>2. faults' = faults /\ restored' = restored
    BY <2>1 DEF Claim, calls
  <2>3. CASE Thread(h) \in claim
    BY <1>0, <2>1, <2>2, <2>3 DEF Claim
  <2>4. CASE Thread(h) \notin claim
    <3>1. handler'[h].pc = "send" /\ handler'[h].thread = Thread(h)
      BY <2>1, <2>4 DEF Claim, Goto, Thread, IInv, TypeOK, Handler
    <3> QED
      BY <1>0, <2>1, <2>2, <3>1 DEF Claim
  <2> QED
    BY <2>3, <2>4
<1>2. CASE \E k \in Savers : SavesThread(k)
  <2>1. PICK k \in Savers : SavesThread(k)
    BY <1>2
  <2>2. PICK u \in Threads : u = saver[k].thread
    BY <2>1 DEF SavesThread, IInv, SaverInv
  <2>3. /\ claim' = Put(claim, u, saver[k].claimed)
        /\ restored' = CountIf(restored, u, u \notin claim /\ saver[k].claimed)
        /\ faults' = faults
    BY <2>1, <2>2 DEF SavesThread
  <2>4. \A t \in Threads : restored'[t] >= restored[t]
    BY <1>0, <2>3 DEF CountIf, IInv, TypeOK
  <2>5. ASSUME NEW t \in claim' \ claim
        PROVE  restored'[t] > 0
    <3>1. t = u /\ saver[k].claimed
      BY <2>3, <2>5 DEF Put
    <3>2. restored'[t] = restored[t] + 1
      BY <2>3, <2>5, <3>1 DEF CountIf, IInv, TypeOK
    <3> QED
      BY <1>0, <3>1, <3>2
  <2> QED
    BY <1>0, <2>3, <2>4, <2>5
<1>3. CASE ~(\E h \in Handlers : Claim(h)) /\ ~(\E k \in Savers : SavesThread(k))
  <2>1. claim' \subseteq claim
    BY <1>3 DEF Next, vars, thread, Progress, Checks, Replies, Persists, Fails, OfThread, OfSender,
       Decline, CheckThrows, CheckLog, CheckReplies, CheckOptOut, CheckCooldown, Compose,
       ReplyAccepted, ReplyRejected, ReplyInDoubt, Release, ReleaseThrows, Expire, Crash,
       PersistThrows, Fetch, FindReply, FlagReply, InsertReply, LogResponse, GuardThread,
       ClearCooldown, StartCooldown, Saves, LeavesThread, MailArrives, RequestArrives,
       UserReplies, SyncStoresReply, BeginOptOut, SaveOptOut, RemoveOptOut, CooldownLapses
  <2>2. faults' = faults \/ faults' = faults + 1
    BY <1>3 DEF Next, vars, Progress, Checks, Replies, Persists, Fails, OfThread, OfSender,
       Decline, CheckThrows, CheckLog, CheckReplies, CheckOptOut, CheckCooldown, Compose, Fault,
       ReplyAccepted, ReplyRejected, ReplyInDoubt, Release, ReleaseThrows, Expire, Crash,
       PersistThrows, Fetch, FindReply, FlagReply, InsertReply, LogResponse, GuardThread,
       ClearCooldown, StartCooldown, Saves, LeavesThread, MailArrives, RequestArrives,
       UserReplies, SyncStoresReply, BeginOptOut, SaveOptOut, RemoveOptOut, CooldownLapses
  <2>3. restored' = restored
    BY <1>3, CallsKept DEF Next, vars, calls, Saves, LeavesThread, MailArrives, RequestArrives,
       OfThread, OfSender, UserReplies, SyncStoresReply, BeginOptOut, SaveOptOut, RemoveOptOut,
       CooldownLapses
  <2> QED
    BY <1>0, <2>1, <2>2, <2>3
<1> QED
  BY <1>1, <1>2, <1>3

\* A claim is orphaned only by a fault or a late save: without one, every
\* claimed thread that is still unanswered has the handler that will answer it
\* or free it.
THEOREM NoOrphanedClaim == Spec => []ClaimIsHeld
<1>1. Init => ClaimIsHeld
  BY DEF Init, ClaimIsHeld
<1>2. IInv /\ ClaimIsHeld /\ [Next]_vars => ClaimIsHeld'
  <2> SUFFICES ASSUME IInv, ClaimIsHeld, [Next]_vars, NEW t \in claim',
                      ~(confirmed'[t] > 0), ~(faults' > 0), ~(restored'[t] > 0)
               PROVE  \E h \in Handlers : Sending(h)' /\ handler'[h].thread = t
    BY DEF ClaimIsHeld
  <2>0. IInv'
    BY NextInv
  <2>1. CASE t \notin claim
    BY <2>1, NewClaim DEF Sending
  <2>2. CASE t \in claim
    <3>1. /\ t \in Threads /\ faults \in Nat /\ faults' \in Nat /\ confirmed[t] \in Nat
          /\ confirmed'[t] \in Nat /\ restored[t] \in Nat /\ restored'[t] \in Nat
      BY <2>0, AutoAssumption DEF IInv, TypeOK
    <3>2. ~(confirmed[t] > 0) /\ ~(faults > 0) /\ ~(restored[t] > 0)
      BY <3>1, ConfirmedGrows, NewClaim
    <3>3. PICK h \in Handlers : Sending(h) /\ handler[h].thread = t
      BY <2>2, <3>2 DEF ClaimIsHeld
    <3>4. CASE ReplyAccepted(h)
      <4>1. confirmed'[t] = confirmed[t] + 1
        BY <3>1, <3>3, <3>4 DEF ReplyAccepted, Thread, IInv, TypeOK
      <4> QED
        BY <4>1, <3>1
    <3>5. CASE Release(h)
      BY <3>3, <3>5 DEF Release, Thread
    <3> QED
      BY <3>3, <3>4, <3>5, HolderLeaves
  <2> QED
    BY <2>1, <2>2
<1> QED
  BY <1>1, <1>2, ReplyInvariant, PTL DEF Spec

(***************************************************************************)
(* Only confirmed replies are recorded                                     *)
(***************************************************************************)

\* Only a confirmed reply is recorded, in the mailbox, the log or the guard, and
\* only such a guard is in a copy that is still to be saved.
RecordInv ==
    /\ \A h \in Handlers : handler[h].pc \in PersistPC => confirmed[handler[h].thread] > 0
    /\ \A t \in Threads : t \in log \cup guarded \/ stored[t] # "none" => confirmed[t] > 0
    /\ \A k \in Savers : saver[k].guarded =>
          saver[k].thread \in Threads /\ confirmed[saver[k].thread] > 0

\* A handler comes to record a reply only through the provider's confirmation.
LEMMA NewRecorder ==
  ASSUME IInv, [Next]_vars, NEW h \in Handlers, handler'[h].pc \in PersistPC
  PROVE  /\ handler'[h].thread = handler[h].thread
         /\ handler[h].pc \in PersistPC \/ ReplyAccepted(h)
<1> USE DEF At
<1> DEFINE Came == /\ handler'[h].thread = handler[h].thread
                   /\ handler[h].pc \in PersistPC \/ ReplyAccepted(h)
<1>1. CASE handler' = handler
  BY <1>1
<1>2. ASSUME NEW g \in Handlers, Progress(g) \/ Fails(g)
      PROVE  Came
  <2>1. CASE Return(g) \/ Throw(g)
    BY <2>1 DEF Return, Throw, IInv, TypeOK, IdleHandler, PersistPC
  <2>2. CASE Expire(g)
    BY <2>2 DEF Expire, IInv, TypeOK, Handler
  <2>3. ASSUME NEW pc \in HandlerPC, Goto(g, pc),
               pc \in PersistPC => handler[g].pc \in PersistPC \/ ReplyAccepted(g)
        PROVE  Came
    BY <2>3 DEF Goto, IInv, TypeOK, Handler
  <2>4. \/ Return(g) \/ Throw(g) \/ Expire(g)
        \/ \E pc \in HandlerPC :
              /\ Goto(g, pc)
              /\ pc \in PersistPC => handler[g].pc \in PersistPC \/ ReplyAccepted(g)
    BY <1>2 DEF Progress, Checks, Replies, Persists, Fails, HandlerPC, CheckPC, ReplyPC, PersistPC,
       Decline, CheckThrows, CheckLog, CheckReplies, CheckOptOut, CheckCooldown, Compose,
       Claim, ReplyAccepted, ReplyRejected, ReplyInDoubt, Release, ReleaseThrows, Crash,
       PersistThrows, FindReply, FlagReply, InsertReply, LogResponse, GuardThread,
       ClearCooldown, StartCooldown
  <2> QED
    BY <2>1, <2>2, <2>3, <2>4
<1>3. ASSUME NEW g \in Handlers, NEW j \in Jobs, Fetch(g, j)
      PROVE  Came
  BY <1>3 DEF Fetch, IInv, TypeOK, PersistPC
<1>4. CASE \/ \E k \in Savers : Saves(k)
           \/ \E t \in Threads : OfThread(t)
           \/ \E s \in Senders : OfSender(s)
  BY <1>1, <1>4, HandlersKept
<1> QED
  BY <1>1, <1>2, <1>3, <1>4 DEF Next, vars

\* What a handler, the sync or a copy records of a thread was confirmed before.
LEMMA NewRecord ==
  ASSUME IInv, RecordInv, [Next]_vars, NEW t \in Threads,
         t \in log' \cup guarded' \/ stored'[t] # "none"
  PROVE  confirmed[t] > 0
<1> USE DEF At
<1>1. CASE t \in log \cup guarded \/ stored[t] # "none"
  BY <1>1 DEF RecordInv
<1>2. CASE ~UNCHANGED <<log, guarded, stored>> /\ t \notin log \cup guarded /\ stored[t] = "none"
  <2>1. \/ \E h \in Handlers : FlagReply(h) \/ InsertReply(h) \/ LogResponse(h) \/ GuardThread(h)
        \/ \E u \in Threads : SyncStoresReply(u)
        \/ \E k \in Savers : SavesThread(k)
    BY <1>2 DEF Next, vars, thread, Progress, Checks, Replies, Persists, Fails, OfThread, OfSender,
       Decline, CheckThrows, CheckLog, CheckReplies, CheckOptOut, CheckCooldown, Compose,
       Claim, ReplyAccepted, ReplyRejected, ReplyInDoubt, Release, ReleaseThrows, Expire, Crash,
       PersistThrows, Fetch, FindReply, ClearCooldown, StartCooldown, Saves, LeavesThread,
       MailArrives, RequestArrives, UserReplies, BeginOptOut, SaveOptOut, RemoveOptOut,
       CooldownLapses
  <2>2. ASSUME NEW h \in Handlers,
               FlagReply(h) \/ InsertReply(h) \/ LogResponse(h) \/ GuardThread(h)
        PROVE  confirmed[t] > 0
    <3>1. confirmed[handler[h].thread] > 0
      BY <2>2 DEF RecordInv, PersistPC, FlagReply, InsertReply, LogResponse, GuardThread
    <3>2. handler[h].thread = t
      BY <1>2, <2>2 DEF FlagReply, InsertReply, LogResponse, GuardThread, Thread, IInv, TypeOK
    <3> QED
      BY <3>1, <3>2
  <2>3. ASSUME NEW u \in Threads, SyncStoresReply(u)
        PROVE  confirmed[t] > 0
    BY <1>2, <2>3 DEF SyncStoresReply, IInv, TypeOK
  <2>4. ASSUME NEW k \in Savers, SavesThread(k)
        PROVE  confirmed[t] > 0
    <3>1. saver[k].thread = t /\ saver[k].guarded
      BY <1>2, <2>4 DEF SavesThread, Put
    <3> QED
      BY <3>1 DEF RecordInv
  <2> QED
    BY <2>1, <2>2, <2>3, <2>4
<1> QED
  BY <1>1, <1>2

\* A copy is guarded because the row was when it was read.
LEMMA NewCopy ==
  ASSUME IInv, RecordInv, [Next]_vars, NEW k \in Savers, saver'[k].guarded
  PROVE  saver'[k].thread \in Threads /\ confirmed[saver'[k].thread] > 0
<1>1. CASE saver'[k] = saver[k]
  BY <1>1 DEF RecordInv
<1>2. ASSUME NEW l \in Savers, Saves(l)
      PROVE  saver'[k].thread \in Threads /\ confirmed[saver'[k].thread] > 0
  <2>1. CASE SavesThread(l) \/ l # k
    <3>1. saver'[k] = saver[k]
      BY <1>2, <2>1 DEF Saves, SavesThread, LeavesThread, MailArrives, RequestArrives, FindsThread,
         IInv, TypeOK
    <3> QED BY <1>1, <3>1
  <2>2. CASE LeavesThread(l) /\ l = k
    BY <2>2 DEF LeavesThread, IdleSaver, IInv, TypeOK
  <2>3. ASSUME NEW t \in Threads, MailArrives(l, t) \/ RequestArrives(l, t), l = k
        PROVE  saver'[k].thread \in Threads /\ confirmed[saver'[k].thread] > 0
    <3>1. saver'[k].thread = t /\ t \in guarded
      <4>1. PICK kind \in {"mail", "request"} : FindsThread(k, kind, t)
        BY <2>3 DEF MailArrives, RequestArrives
      <4>2. saver'[k] = [pc |-> kind, thread |-> t, claimed |-> t \in claim, guarded |-> t \in guarded]
        BY <4>1 DEF FindsThread, IInv, TypeOK
      <4>3. PICK copy : copy = saver'[k]
        OBVIOUS
      <4>4. copy = [pc |-> kind, thread |-> t, claimed |-> t \in claim, guarded |-> t \in guarded]
        BY <4>2, <4>3
      <4>5. copy.guarded
        BY <4>3
      <4>6. t \in guarded
        BY <4>4, <4>5, Zenon
      <4>7. copy.thread = t
        BY <4>4
      <4> QED BY <4>3, <4>6, <4>7
    <3> QED BY <3>1 DEF RecordInv
  <2> QED BY <1>2, <2>1, <2>2, <2>3 DEF Saves
<1>3. CASE ~\E l \in Savers : Saves(l)
  <2>1. saver' = saver
    BY <1>3, CallsKept DEF Next, vars, calls, OfThread, OfSender, UserReplies, SyncStoresReply,
       BeginOptOut, SaveOptOut, RemoveOptOut, CooldownLapses
  <2> QED BY <1>1, <2>1
<1> QED BY <1>2, <1>3

\* Nothing is recorded at the start ...
LEMMA InitRecord == ASSUME Init PROVE RecordInv
  BY DEF Init, RecordInv, IdleHandler, IdleSaver, PersistPC

\* ... and no step records what was not confirmed.
LEMMA NextRecord == ASSUME IInv, RecordInv, [Next]_vars PROVE RecordInv'
<1>1. \A t \in Threads : confirmed[t] > 0 => confirmed'[t] > 0
  BY NextInv, ConfirmedGrows DEF IInv, TypeOK
<1>2. ASSUME NEW h \in Handlers, handler'[h].pc \in PersistPC
      PROVE  confirmed'[handler'[h].thread] > 0
  <2>1. /\ handler'[h].thread = handler[h].thread
        /\ handler[h].pc \in PersistPC \/ ReplyAccepted(h)
    BY <1>2, NewRecorder
  <2>2. PICK t \in Threads : t = handler[h].thread
    BY <2>1 DEF ReplyAccepted, At, PersistPC, IInv, QueueInv
  <2>3. CASE handler[h].pc \in PersistPC
    BY <1>1, <2>1, <2>2, <2>3 DEF RecordInv
  <2>4. CASE ReplyAccepted(h)
    <3>1. confirmed' = [confirmed EXCEPT ![t] = @ + 1]
      BY <2>2, <2>4 DEF ReplyAccepted, Thread
    <3>2. confirmed[t] \in Nat /\ confirmed'[t] = confirmed[t] + 1
      BY <2>2, <3>1 DEF IInv, TypeOK
    <3> QED
      BY <2>1, <2>2, <3>2
  <2> QED
    BY <2>1, <2>3, <2>4
<1>3. \A t \in Threads : t \in log' \cup guarded' \/ stored'[t] # "none" => confirmed'[t] > 0
  BY <1>1, NewRecord
<1>4. \A k \in Savers : saver'[k].guarded =>
         saver'[k].thread \in Threads /\ confirmed'[saver'[k].thread] > 0
  BY <1>1, NewCopy
<1> QED
  BY <1>2, <1>3, <1>4 DEF RecordInv

\* Nothing is stored, logged or guarded as an automatic reply that the
\* provider did not confirm.
THEOREM OnlyConfirmedIsRecorded == Spec => []RecordInv
<1>1. Init => RecordInv
  BY InitRecord
<1>2. IInv /\ RecordInv /\ [Next]_vars => RecordInv'
  BY NextRecord
<1> QED
  BY <1>1, <1>2, ReplyInvariant, PTL DEF Spec

(***************************************************************************)
(* The refinement of ReplyLedger                                           *)
(***************************************************************************)

\* What ReplyLedger sees.
Attempting == [h \in Handlers |-> AttemptOf(h)]

Stored == {t \in Threads : stored[t] # "none"}

\* A handler outside the provider's call is no attempt.
LEMMA NoAttemptOutside ==
  ASSUME NEW h \in Handlers, ~Sending(h)
  PROVE  AttemptOf(h) = Ledger!NoAttempt
  BY DEF AttemptOf, Sending, At, Ledger!NoAttempt

\* Only h moves, and what it comes to be is what the ledger sees.
LEMMA AttemptMoves ==
  ASSUME NEW h \in Handlers, \A g \in Handlers \ {h} : handler'[g] = handler[g]
  PROVE  Attempting' = [Attempting EXCEPT ![h] = AttemptOf(h)']
<1>1. \A g \in Handlers \ {h} : AttemptOf(g)' = AttemptOf(g)
  BY DEF AttemptOf, At, Thread
<1> QED
  BY <1>1 DEF Attempting

\* A step that moves nobody at the provider, and of the ledger's accounts none,
\* is no step of it.
LEMMA LedgerStutter ==
  ASSUME Attempting' = Attempting,
         UNCHANGED <<claim, confirmed, doubtful, erased, stored, log, guarded>>
  PROVE  [Ledger!LedgerNext]_(Ledger!ledgerVars)
<1>1. Stored' = Stored
  BY DEF Stored
<1> QED
  BY <1>1 DEF Ledger!ledgerVars, Attempting, Stored

\* The reply of an answered thread is recorded.
LEMMA LedgerWrite ==
  ASSUME Attempting' = Attempting, UNCHANGED <<claim, confirmed, doubtful, erased>>,
         NEW t \in Threads, confirmed[t] > 0,
         log' \in {log, log \cup {t}}, guarded' \in {guarded, guarded \cup {t}},
         Stored' \in {Stored, Stored \cup {t}}
  PROVE  [Ledger!LedgerNext]_(Ledger!ledgerVars)
<1>1. Ledger!Write(t)
  BY DEF Ledger!Write, Ledger!sent, Attempting, Stored
<1> QED
  BY <1>1 DEF Ledger!LedgerNext

\* The claim of an unclaimed thread reserves it.
LEMMA LedgerClaim ==
  ASSUME IInv, NEW h \in Handlers, Claim(h), handler[h].thread \notin claim
  PROVE  [Ledger!LedgerNext]_(Ledger!ledgerVars)
<1>0. PICK t \in Threads : t = handler[h].thread
  BY DEF IInv, QueueInv, Claim, At
<1>1. /\ handler[h].pc = "claim" /\ Goto(h, "send") /\ claim' = claim \cup {t}
      /\ UNCHANGED <<stored, log, guarded, confirmed, doubtful, erased>>
  BY <1>0 DEF Claim, At, Thread, wire, calls
<1>2. /\ handler'[h].pc = "send" /\ handler'[h].thread = t
      /\ \A g \in Handlers \ {h} : handler'[g] = handler[g]
  BY <1>0, <1>1, GotoEffect DEF IInv, HandlerPC, ReplyPC
<1>3. AttemptOf(h) = Ledger!NoAttempt
  BY <1>1, NoAttemptOutside DEF Sending
<1>4. AttemptOf(h)' = [phase |-> "reserved", thread |-> t]
  BY <1>2 DEF AttemptOf, At, Thread
<1>5. Attempting' = [Attempting EXCEPT ![h] = [phase |-> "reserved", thread |-> t]]
  BY <1>2, <1>4, AttemptMoves
<1>6. Attempting[h] = Ledger!NoAttempt
  BY <1>3 DEF Attempting
<1>7. t \in Threads \ claim /\ Threads \ claim' = (Threads \ claim) \ {t}
  BY <1>0, <1>1
<1>8. Stored' = Stored
  BY <1>1 DEF Stored
<1>9. Ledger!Reserve(h, t)
  BY <1>1, <1>5, <1>6, <1>7, <1>8
  DEF Ledger!Reserve, Ledger!sent, Ledger!written, Attempting, Stored
<1> QED
  BY <1>9 DEF Ledger!LedgerNext

\* The provider's confirmation answers the thread, which its account allows.
LEMMA LedgerAnswer ==
  ASSUME IInv, NEW h \in Handlers, ReplyAccepted(h)
  PROVE  [Ledger!LedgerNext]_(Ledger!ledgerVars)
<1>0. PICK t \in Threads : t = handler[h].thread
  BY DEF IInv, QueueInv, ReplyAccepted, At
<1>1. /\ handler[h].pc = "send" /\ Goto(h, "find")
      /\ confirmed' = [confirmed EXCEPT ![t] = @ + 1]
      /\ UNCHANGED <<claim, stored, log, guarded, doubtful, erased>>
  BY <1>0 DEF ReplyAccepted, At, Thread, thread, calls
<1>2. /\ handler'[h].pc = "find"
      /\ \A g \in Handlers \ {h} : handler'[g] = handler[g]
  BY <1>1, GotoEffect DEF IInv, HandlerPC, PersistPC
<1>3. confirmed[t] <= erased[t]
  BY <1>0, <1>1, ProviderCounts DEF Sending
<1>4. Attempting[h] = [phase |-> "reserved", thread |-> t]
  BY <1>0, <1>1 DEF Attempting, AttemptOf, At, Thread
<1>5. AttemptOf(h)' = Ledger!NoAttempt
  BY <1>2 DEF AttemptOf, At, Ledger!NoAttempt
<1>6. Attempting' = [Attempting EXCEPT ![h] = Ledger!NoAttempt]
  BY <1>2, <1>5, AttemptMoves
<1>7. Stored' = Stored
  BY <1>1 DEF Stored
<1>8. Attempting[h].thread = t /\ Attempting[h].phase = "reserved"
  BY <1>4
<1>9. Ledger!Answer(h)
  BY <1>1, <1>3, <1>6, <1>7, <1>8 DEF Ledger!Answer, Ledger!written, Attempting, Stored
<1> QED
  BY <1>9 DEF Ledger!LedgerNext

\* The provider's refusal, or its silence, brings the attempt to nothing.
LEMMA LedgerNothing ==
  ASSUME IInv, NEW h \in Handlers, ReplyRejected(h) \/ ReplyInDoubt(h)
  PROVE  [Ledger!LedgerNext]_(Ledger!ledgerVars)
<1>0. PICK t \in Threads : t = handler[h].thread
  BY DEF IInv, QueueInv, ReplyRejected, ReplyInDoubt, At
<1>1. /\ handler[h].pc = "send" /\ Goto(h, "release")
      /\ UNCHANGED <<claim, confirmed, stored, log, guarded, erased>>
      /\ doubtful' \in {doubtful, [doubtful EXCEPT ![t] = @ + 1]}
  BY <1>0 DEF ReplyRejected, ReplyInDoubt, At, Thread, thread, wire, calls
<1>2. /\ handler'[h].pc = "release" /\ handler'[h].thread = t
      /\ \A g \in Handlers \ {h} : handler'[g] = handler[g]
  BY <1>0, <1>1, GotoEffect DEF IInv, HandlerPC
<1>3. Attempting[h] = [phase |-> "reserved", thread |-> t]
  BY <1>0, <1>1 DEF Attempting, AttemptOf, At, Thread
<1>4. AttemptOf(h)' = [phase |-> "over", thread |-> t]
  BY <1>2 DEF AttemptOf, At, Thread
<1>5. Attempting' = [Attempting EXCEPT ![h] = [phase |-> "over", thread |-> t]]
  BY <1>2, <1>4, AttemptMoves
<1>6. Attempting' = [Attempting EXCEPT ![h].phase = "over"]
  <2>1. [Attempting[h] EXCEPT !.phase = "over"] = [phase |-> "over", thread |-> t]
    BY <1>3
  <2> QED BY <1>5, <2>1
<1>7. Stored' = Stored
  BY <1>1 DEF Stored
<1>8. Attempting[h].thread = t /\ Attempting[h].phase = "reserved"
  BY <1>3
<1>9. Ledger!ComesToNothing(h)
  BY <1>1, <1>6, <1>7, <1>8 DEF Ledger!ComesToNothing, Ledger!written, Attempting, Stored
<1> QED
  BY <1>9 DEF Ledger!LedgerNext

\* Giving the claim back opens the thread again.
LEMMA LedgerRelease ==
  ASSUME IInv, NEW h \in Handlers, Release(h)
  PROVE  [Ledger!LedgerNext]_(Ledger!ledgerVars)
<1>0. PICK t \in Threads : t = handler[h].thread
  BY DEF IInv, QueueInv, Release, At
<1>1. /\ handler[h].pc = "release" /\ Return(h) /\ claim' = claim \ {t}
      /\ UNCHANGED <<stored, log, guarded, confirmed, doubtful, erased>>
  BY <1>0 DEF Release, At, Thread, wire, calls
<1>2. /\ handler'[h].pc = "idle"
      /\ \A g \in Handlers \ {h} : handler'[g] = handler[g]
  BY <1>1, LeaveEffect DEF IInv, IdleHandler
<1>3. Attempting[h] = [phase |-> "over", thread |-> t]
  BY <1>0, <1>1 DEF Attempting, AttemptOf, At, Thread
<1>4. AttemptOf(h)' = Ledger!NoAttempt
  BY <1>2 DEF AttemptOf, At, Ledger!NoAttempt
<1>5. Attempting' = [Attempting EXCEPT ![h] = Ledger!NoAttempt]
  BY <1>2, <1>4, AttemptMoves
<1>6. Threads \ claim' = (Threads \ claim) \cup {t}
  BY <1>0, <1>1
<1>7. Stored' = Stored
  BY <1>1 DEF Stored
<1>8. Attempting[h].thread = t /\ Attempting[h].phase = "over"
  BY <1>3
<1>9. Ledger!GiveBack(h)
  BY <1>1, <1>5, <1>6, <1>7, <1>8
  DEF Ledger!GiveBack, Ledger!sent, Ledger!written, Attempting, Stored
<1> QED
  BY <1>9 DEF Ledger!LedgerNext

\* A handler that dies at the provider, or cannot give its claim back, abandons
\* its attempt.
LEMMA LedgerAbandon ==
  ASSUME IInv, NEW h \in Handlers, Sending(h), Return(h) \/ Throw(h),
         UNCHANGED <<claim, confirmed, doubtful, erased, stored, log, guarded>>
  PROVE  [Ledger!LedgerNext]_(Ledger!ledgerVars)
<1>1. /\ handler'[h].pc = "idle"
      /\ \A g \in Handlers \ {h} : handler'[g] = handler[g]
  BY LeaveEffect DEF IInv, IdleHandler
<1>2. Attempting[h].phase \in {"reserved", "over"}
  BY DEF Attempting, AttemptOf, At, Sending
<1>3. AttemptOf(h)' = Ledger!NoAttempt
  BY <1>1 DEF AttemptOf, At, Ledger!NoAttempt
<1>4. Attempting' = [Attempting EXCEPT ![h] = Ledger!NoAttempt]
  BY <1>1, <1>3, AttemptMoves
<1>5. Attempting[h] # Ledger!NoAttempt
  BY <1>2 DEF Ledger!NoAttempt
<1>6. Stored' = Stored
  BY DEF Stored
<1>7. Ledger!Abandon(h)
  BY <1>4, <1>5, <1>6 DEF Ledger!Abandon, Ledger!sent, Ledger!written, Attempting, Stored
<1> QED
  BY <1>7 DEF Ledger!LedgerNext

\* A step of a handler that stays away from the provider moves no attempt.
LEMMA AttemptsKept ==
  ASSUME IInv, NEW h \in Handlers,
         \/ Checks(h) \/ Persists(h) \/ Expire(h) \/ PersistThrows(h)
         \/ Crash(h) /\ ~Sending(h)
         \/ Claim(h) /\ handler[h].thread \in claim
  PROVE  Attempting' = Attempting
<1> USE DEF At
<1>1. CASE Expire(h)
  <2>1. \A g \in Handlers : handler'[g].pc = handler[g].pc /\ handler'[g].thread = handler[g].thread
    BY <1>1 DEF Expire, IInv, TypeOK, Handler
  <2>2. \A g \in Handlers : AttemptOf(g)' = AttemptOf(g)
    BY <2>1 DEF AttemptOf, Thread
  <2> QED
    BY <2>2 DEF Attempting
<1>2. CASE /\ handler[h].pc # "idle" /\ ~Sending(h)
           /\ Return(h) \/ Throw(h) \/ \E pc \in HandlerPC \ {"send", "release"} : Goto(h, pc)
  <2>1. ~Sending(h)' /\ \A g \in Handlers \ {h} : handler'[g] = handler[g]
    <3>1. CASE Return(h) \/ Throw(h)
      BY <3>1, LeaveEffect DEF IInv, IdleHandler, Sending
    <3>2. CASE \E pc \in HandlerPC \ {"send", "release"} : Goto(h, pc)
      BY <1>2, <3>2, GotoEffect DEF IInv, Sending
    <3> QED
      BY <1>2, <3>1, <3>2
  <2>2. AttemptOf(h) = Ledger!NoAttempt
    BY <1>2, NoAttemptOutside
  <2>3. AttemptOf(h)' = Ledger!NoAttempt
    BY <2>1 DEF AttemptOf, Sending, Ledger!NoAttempt
  <2>4. \A g \in Handlers : AttemptOf(g)' = AttemptOf(g)
    BY <2>1, <2>2, <2>3 DEF AttemptOf, Thread
  <2> QED
    BY <2>4 DEF Attempting
<1>3. Checks(h) =>
         /\ handler[h].pc # "idle" /\ ~Sending(h)
         /\ Return(h) \/ Throw(h) \/ \E pc \in HandlerPC \ {"send", "release"} : Goto(h, pc)
  BY DEF Checks, Decline, CheckThrows, CheckLog, CheckReplies, CheckOptOut, CheckCooldown,
         Compose, HandlerPC, CheckPC, ReplyPC, Sending
<1>4. Persists(h) =>
         /\ handler[h].pc # "idle" /\ ~Sending(h)
         /\ Return(h) \/ Throw(h) \/ \E pc \in HandlerPC \ {"send", "release"} : Goto(h, pc)
  BY DEF Persists, FindReply, FlagReply, InsertReply, LogResponse, GuardThread, ClearCooldown,
         StartCooldown, HandlerPC, PersistPC, Sending
<1>5. PersistThrows(h) \/ (Crash(h) /\ ~Sending(h)) \/ (Claim(h) /\ handler[h].thread \in claim) =>
         handler[h].pc # "idle" /\ ~Sending(h) /\ (Return(h) \/ Throw(h))
  BY DEF PersistThrows, Crash, Claim, Thread, PersistPC, Sending
<1> QED
  BY <1>1, <1>2, <1>3, <1>4, <1>5

(***************************************************************************)
(* Every step refines                                                      *)
(***************************************************************************)

\* Recording the reply is a ledger entry for the handler's own thread.
LEMMA LedgerPersists ==
  ASSUME IInv, RecordInv, NEW h \in Handlers, Persists(h)
  PROVE  [Ledger!LedgerNext]_(Ledger!ledgerVars)
<1>1. Attempting' = Attempting
  BY AttemptsKept
<1>2. handler[h].pc \in PersistPC
  BY DEF Persists, FindReply, FlagReply, InsertReply, LogResponse, GuardThread, ClearCooldown,
         StartCooldown, PersistPC, At
<1>3. PICK t \in Threads : t = handler[h].thread
  BY <1>2 DEF IInv, QueueInv, PersistPC
<1>4. confirmed[t] > 0
  BY <1>2, <1>3 DEF RecordInv
<1>5. /\ log' \in {log, log \cup {t}} /\ guarded' \in {guarded, guarded \cup {t}}
      /\ UNCHANGED <<claim, confirmed, doubtful, erased>>
  BY <1>3 DEF Persists, FindReply, FlagReply, InsertReply, LogResponse, GuardThread, ClearCooldown,
         StartCooldown, Thread, thread, wire, calls
<1>6. \/ UNCHANGED stored
      \/ stored'[t] # "none" /\ \A u \in Threads \ {t} : stored'[u] = stored[u]
  BY <1>3 DEF Persists, FindReply, FlagReply, InsertReply, LogResponse, GuardThread, ClearCooldown,
         StartCooldown, Thread, thread, IInv, TypeOK
<1>7. Stored' = Stored \/ Stored' = Stored \cup {t}
  BY <1>6 DEF Stored
<1> QED
  BY <1>1, <1>4, <1>5, <1>7, LedgerWrite

\* Checking, claiming, sending, recording, and everything that fails.
LEMMA LedgerHandler ==
  ASSUME IInv, RecordInv, NEW h \in Handlers, Progress(h) \/ Fails(h)
  PROVE  [Ledger!LedgerNext]_(Ledger!ledgerVars)
<1> USE DEF At
<1>1. CASE \/ Checks(h) \/ Expire(h) \/ PersistThrows(h)
           \/ Crash(h) /\ ~Sending(h)
           \/ Claim(h) /\ handler[h].thread \in claim
  <2>1. Attempting' = Attempting
    BY <1>1, AttemptsKept
  <2>2. UNCHANGED <<claim, confirmed, doubtful, erased, stored, log, guarded>>
    BY <1>1 DEF Checks, Decline, CheckThrows, CheckLog, CheckReplies, CheckOptOut, CheckCooldown,
       Compose, Expire, PersistThrows, Crash, Claim, Thread, thread, wire, calls
  <2> QED
    BY <2>1, <2>2, LedgerStutter
<1>2. CASE ReplyRejected(h) \/ ReplyInDoubt(h)
  BY <1>2, LedgerNothing
<1>3. CASE (Crash(h) /\ Sending(h)) \/ ReleaseThrows(h)
  <2>1. /\ Return(h) \/ Throw(h)
        /\ UNCHANGED <<claim, confirmed, doubtful, erased, stored, log, guarded>>
    BY <1>3 DEF Crash, ReleaseThrows, Sending, thread, wire, calls
  <2>2. Sending(h)
    BY <1>3 DEF ReleaseThrows, Sending
  <2> QED
    BY <2>1, <2>2, LedgerAbandon
<1>4. CASE Claim(h) /\ handler[h].thread \notin claim
  BY <1>4, LedgerClaim
<1>5. CASE ReplyAccepted(h)
  BY <1>5, LedgerAnswer
<1>6. CASE Release(h)
  BY <1>6, LedgerRelease
<1>7. CASE Persists(h)
  BY <1>7, LedgerPersists
<1> QED
  BY <1>1, <1>2, <1>3, <1>4, <1>5, <1>6, <1>7 DEF Progress, Replies, Fails

\* A fetched job is not yet at the provider.
LEMMA LedgerFetch ==
  ASSUME IInv, NEW h \in Handlers, NEW j \in Jobs, Fetch(h, j)
  PROVE  [Ledger!LedgerNext]_(Ledger!ledgerVars)
<1>1. /\ ~Sending(h) /\ ~Sending(h)'
      /\ \A g \in Handlers \ {h} : handler'[g] = handler[g]
  BY DEF Fetch, At, IInv, TypeOK, Sending
<1>2. AttemptOf(h) = AttemptOf(h)'
  BY <1>1 DEF AttemptOf, At, Sending
<1>3. \A g \in Handlers : AttemptOf(g)' = AttemptOf(g)
  BY <1>1, <1>2 DEF AttemptOf, At, Thread
<1>4. Attempting' = Attempting
  BY <1>3 DEF Attempting
<1> QED
  BY <1>4, LedgerStutter DEF Fetch, thread, wire, calls

\* Handlers that stay where they are keep their attempts.
LEMMA AttemptsStay == ASSUME handler' = handler PROVE Attempting' = Attempting
  BY DEF Attempting, AttemptOf, At, Thread

\* The save of an older copy opens or closes the thread, and goes on its account.
LEMMA LedgerSaves ==
  ASSUME IInv, RecordInv, NEW k \in Savers, Saves(k)
  PROVE  [Ledger!LedgerNext]_(Ledger!ledgerVars)
<1>1. handler' = handler /\ UNCHANGED wire /\ Attempting' = Attempting
  BY HandlersKept, AttemptsStay
<1>2. CASE SavesThread(k)
  <2>1. PICK t \in Threads : t = saver[k].thread
    BY <1>2 DEF SavesThread, IInv, SaverInv
  <2>2. /\ claim' = Put(claim, t, saver[k].claimed)
        /\ guarded' = Put(guarded, t, saver[k].guarded)
        /\ erased' = CountIf(erased, t, t \in claim /\ ~saver[k].claimed)
        /\ UNCHANGED <<log, stored>>
    BY <1>2, <2>1 DEF SavesThread
  <2>3. \/ Threads \ claim' = (Threads \ claim) \ {t} /\ UNCHANGED erased
        \/ /\ Threads \ claim' = (Threads \ claim) \cup {t}
           /\ erased' = IF t \in Threads \ claim THEN erased ELSE [erased EXCEPT ![t] = @ + 1]
    BY <2>1, <2>2 DEF Put, CountIf
  <2>4. \/ guarded' = guarded \ {t}
        \/ confirmed[t] > 0 /\ guarded' = guarded \cup {t}
    BY <2>1, <2>2 DEF Put, RecordInv
  <2>5. Stored' = Stored
    BY <2>2 DEF Stored
  <2>6. Ledger!Overwrite(t)
    BY <1>1, <2>2, <2>3, <2>4, <2>5 DEF Ledger!Overwrite, Ledger!sent, Attempting, Stored, wire
  <2> QED
    BY <2>6 DEF Ledger!LedgerNext
<1>3. CASE ~SavesThread(k)
  <2>1. UNCHANGED <<claim, erased, stored, log, guarded>>
    BY <1>3 DEF Saves, LeavesThread, MailArrives, RequestArrives, thread
  <2> QED
    BY <1>1, <2>1, LedgerStutter DEF wire
<1> QED
  BY <1>2, <1>3

\* Of the sync and the user, only the sync's own copy of the reply shows.
LEMMA LedgerOutside ==
  ASSUME IInv, RecordInv,
         (\E t \in Threads : OfThread(t)) \/ (\E s \in Senders : OfSender(s))
  PROVE  [Ledger!LedgerNext]_(Ledger!ledgerVars)
<1>1. UNCHANGED <<handler, claim, erased, confirmed, doubtful, log, guarded>>
  BY DEF OfThread, OfSender, UserReplies, SyncStoresReply,
         BeginOptOut, SaveOptOut, RemoveOptOut, CooldownLapses, calls, thread, wire
<1>2. Attempting' = Attempting
  BY <1>1, AttemptsStay
<1>3. CASE \E t \in Threads : SyncStoresReply(t)
  <2>1. PICK t \in Threads : SyncStoresReply(t)
    BY <1>3
  <2>2. Stored' = Stored \cup {t}
    BY <2>1 DEF SyncStoresReply, Stored, IInv, TypeOK
  <2> QED
    BY <1>1, <1>2, <2>1, <2>2, LedgerWrite DEF SyncStoresReply
<1>4. CASE ~\E t \in Threads : SyncStoresReply(t)
  <2>1. UNCHANGED stored
    BY <1>4 DEF OfThread, OfSender, UserReplies,
       BeginOptOut, SaveOptOut, RemoveOptOut, CooldownLapses, thread
  <2> QED
    BY <1>1, <1>2, <2>1, LedgerStutter
<1> QED
  BY <1>3, <1>4

\* Every step of the auto-responder is a step of the ledger, or none.
LEMMA LedgerStep ==
  ASSUME IInv, RecordInv, [Next]_vars
  PROVE  [Ledger!LedgerNext]_(Ledger!ledgerVars)
<1>1. CASE UNCHANGED vars
  BY <1>1, AttemptsStay, LedgerStutter DEF vars, calls, thread, wire
<1>2. CASE Next
  BY <1>2, LedgerHandler, LedgerFetch, LedgerSaves, LedgerOutside DEF Next
<1> QED
  BY <1>1, <1>2

\* The ledger starts with every thread open.
LEMMA LedgerStart == ASSUME Init PROVE Ledger!LedgerInit
<1>1. Attempting = [h \in Handlers |-> Ledger!NoAttempt] /\ Stored = {}
  BY DEF Init, Attempting, Stored, AttemptOf, At, IdleHandler, Ledger!NoAttempt
<1>2. Threads \ claim = Threads
  BY DEF Init
<1> QED
  BY <1>1, <1>2 DEF Init, Ledger!LedgerInit, Attempting, Stored

\* The auto-responder implements ReplyLedger: whatever is queued, retried or
\* expired, races, fails or is saved late, each opening of a thread gives one
\* attempt and one confirmed reply at most, and what is recorded as sent was
\* confirmed.
THEOREM Refinement == Spec => RefinesReplies
<1>1. Init => Ledger!LedgerInit
  BY LedgerStart
<1>2. IInv /\ RecordInv /\ [Next]_vars => [Ledger!LedgerNext]_(Ledger!ledgerVars)
  BY LedgerStep
<1> QED
  BY <1>1, <1>2, ReplyInvariant, OnlyConfirmedIsRecorded, PTL
  DEF Spec, RefinesReplies, Ledger!LedgerSpec

=============================================================================
