---------------------------- MODULE BillingProofs ----------------------------
(***************************************************************************)
(* Proofs about Billing: types, and that while no stale entity is saved    *)
(* the counter holds every mail of the cycle and the mails let through     *)
(* stay within the limit.  The argument for the last counts the calls      *)
(* whose mail is on the counter but which have not answered: they and the  *)
(* mails let through so far never outnumber the mails counted, so the one  *)
(* that reads a counter within the limit is within the limit itself.       *)
(* The last part is about the plan: which saves can bring an ended trial   *)
(* back or take a paid plan away.                                          *)
(***************************************************************************)
EXTENDS Billing, FiniteSetTheorems, TLAPS

(***************************************************************************)
(* The inductive invariant                                                 *)
(***************************************************************************)

Unanswered(calls) == {c \in Calls : calls[c].counted}

CountedReads == \A c \in Calls : call[c].counted => call[c].pc = "read"

SaversRewrite == \A c \in Calls : call[c].pc = "save" => call[c].kind \in WriterKinds

UnansweredAreCounted ==
    ~meter.broken => meter.allowed + Cardinality(Unanswered(call)) <= meter.counted

PeakIsHighest == ~meter.broken => row.limit <= meter.peak

MeterInv ==
    /\ CountedReads
    /\ SaversRewrite
    /\ CountsEveryMail
    /\ UnansweredAreCounted
    /\ PeakIsHighest
    /\ AllowedWithinLimit

IInv == TypeOK /\ MeterInv

(***************************************************************************)
(* Types                                                                   *)
(***************************************************************************)

LEMMA LimitTypes ==
    /\ FreeLimit \in Nat /\ PaidLimit \in Nat /\ FreeLimit <= PaidLimit
    /\ MaxWrites \in Nat /\ MaxFaults \in Nat
    /\ IsFiniteSet(Calls) /\ Kinds \subseteq WriterKinds
BY BillingAssumption

\* What a call computes from an entity is an entity.
LEMMA OrgTypes ==
    ASSUME NEW org \in Org
    PROVE  /\ Expired(org) \in Org /\ Paid(org) \in Org /\ Free(org) \in Org
           /\ Restarted(org) \in Org /\ Aged(org) \in Org
           /\ \A kind \in WriterKinds : Rewritten(kind, org) \in Org
<1>1. /\ Expired(org) \in Org /\ Paid(org) \in Org /\ Free(org) \in Org
      /\ Aged(org) \in Org
  BY LimitTypes DEF Expired, Paid, Free, Aged, Org
<1>2. \A o \in Org : Restarted(o) \in Org
  BY LimitTypes DEF Restarted, Org
<1>3. ASSUME NEW kind \in WriterKinds
      PROVE  Rewritten(kind, org) \in Org
  <2>1. [Paid(org) EXCEPT !.customer = TRUE] \in Org
    BY <1>1 DEF Org
  <2>2. [Paid(org) EXCEPT !.limit = org.limit, !.start = "current", !.rc = TRUE] \in Org
    BY <1>1 DEF Org
  <2>3. [Paid(org) EXCEPT !.start = "current"] \in Org
    BY <1>1 DEF Org
  <2>4. [Free(org) EXCEPT !.trialEnds = FALSE] \in Org
    BY <1>1 DEF Org
  <2> QED
    BY <1>1, <1>2, <2>1, <2>2, <2>3, <2>4
    DEF Rewritten, WriterKinds, StripeKinds, RevenueCatKinds, AdminKinds
<1> QED
  BY <1>1, <1>2, <1>3

LEMMA NewTypes ==
    /\ NewOrg \in Org /\ Idle \in Call
    /\ \A limit \in {FreeLimit, PaidLimit} : FreshMeter(limit) \in Meter
    /\ Broken \in Meter
<1>1. NewOrg \in Org
  BY LimitTypes DEF NewOrg, Org
<1>2. Idle \in Call
  BY <1>1 DEF Idle, Call
<1>3. \A limit \in {FreeLimit, PaidLimit} : FreshMeter(limit) \in Meter
  BY DEF FreshMeter, Meter
<1>4. Broken \in Meter
  BY <1>3 DEF Broken, Meter, FreshMeter
<1> QED
  BY <1>1, <1>2, <1>3, <1>4

\* A cycle begins, or an entity is saved, with typed parts.
LEMMA WriteTypes ==
    ASSUME TypeOK, NEW new \in Org, NEW calls \in [Calls -> Call]
    PROVE  /\ BeginsCycle(new, calls) =>
                 row' \in Org /\ call' \in [Calls -> Call] /\ meter' \in Meter
           /\ SavesWithin(new, calls) =>
                 row' \in Org /\ call' \in [Calls -> Call] /\ meter' \in Meter
<1>1. Uncounted(calls) \in [Calls -> Call]
  BY DEF Uncounted, Call
<1>2. new.limit \in {FreeLimit, PaidLimit}
  BY DEF Org
<1>3. FreshMeter(new.limit) \in Meter
  BY <1>2, NewTypes
<1>4. [meter EXCEPT !.peak = Higher(@, new.limit)] \in Meter
  BY <1>2 DEF TypeOK, Meter, Higher
<1> QED
  BY <1>1, <1>3, <1>4, NewTypes DEF BeginsCycle, SavesWithin

(***************************************************************************)
(* One lemma for each action: it keeps the types                           *)
(***************************************************************************)

LEMMA AsksTypes ==
    ASSUME TypeOK, NEW c \in Calls, NEW kind \in Askers, Asks(c, kind)
    PROVE  TypeOK'
<1>1. call' \in [Calls -> Call]
  BY ZenonT(60) DEF Asks, TypeOK, Call
<1> QED
  BY <1>1 DEF Asks, NoWrite, TypeOK

LEMMA RolloverTypes ==
    ASSUME TypeOK, NEW c \in Calls, Rollover(c)
    PROVE  TypeOK'
<1>1. AfterRollover(c) \in [Calls -> Call]
  BY DEF TypeOK, AfterRollover, Call
<1>2. [row EXCEPT !.used = 0, !.start = "current"] \in Org
  BY DEF TypeOK, Org
<1>3. row' \in Org /\ call' \in [Calls -> Call] /\ meter' \in Meter
  <2>1. CASE row.start # "current"
    BY <1>1, <1>2, <2>1, WriteTypes DEF Rollover
  <2>2. CASE ~(row.start # "current")
    BY <1>1, <2>2 DEF Rollover, NoWrite, TypeOK
  <2> QED BY <2>1, <2>2
<1> QED
  BY <1>3 DEF Rollover, TypeOK

LEMMA IncrementTypes ==
    ASSUME TypeOK, NEW c \in Calls, Increment(c)
    PROVE  TypeOK'
<1>1. row' \in Org
  BY DEF Increment, TypeOK, Org
<1>2. meter' \in Meter
  BY DEF Increment, TypeOK, Meter
<1>3. call' \in [Calls -> Call]
  BY DEF Increment, TypeOK, Call
<1> QED
  BY <1>1, <1>2, <1>3 DEF Increment, TypeOK

LEMMA ReadsTypes ==
    ASSUME TypeOK, NEW c \in Calls, Reads(c)
    PROVE  TypeOK'
<1>1. meter' \in Meter
  BY DEF Reads, LetsThrough, TypeOK, Meter
<1>2. Expired(row) \in Org
  BY OrgTypes DEF TypeOK
<1>3. [call[c] EXCEPT !.pc = "expire", !.copy = Expired(row), !.counted = FALSE] \in Call
  BY <1>2 DEF TypeOK, Call
<1>4. call' \in [Calls -> Call]
  BY <1>3, NewTypes DEF Reads, AfterRead, TypeOK
<1> QED
  BY <1>1, <1>4 DEF Reads, TypeOK

LEMMA ExpireTypes ==
    ASSUME TypeOK, NEW c \in Calls, Expire(c)
    PROVE  TypeOK'
<1>1. [call EXCEPT ![c] = Idle] \in [Calls -> Call]
  BY NewTypes DEF TypeOK
<1>2. call[c].copy \in Org
  BY DEF TypeOK, Call
<1>3. row' \in Org /\ call' \in [Calls -> Call] /\ meter' \in Meter
  BY <1>1, <1>2, WriteTypes DEF Expire
<1> QED
  BY <1>3 DEF Expire, TypeOK

LEMMA RewriteBeginsTypes ==
    ASSUME TypeOK, NEW c \in Calls, NEW kind \in WriterKinds, RewriteBegins(c, kind)
    PROVE  TypeOK'
<1>1. call' \in [Calls -> Call]
  BY DEF RewriteBegins, TypeOK, Call
<1>2. writes' \in 0..MaxWrites
  BY LimitTypes DEF RewriteBegins, TypeOK
<1> QED
  BY <1>1, <1>2 DEF RewriteBegins, NoWrite, TypeOK

LEMMA RewritesTypes ==
    ASSUME TypeOK, SaversRewrite, NEW c \in Calls, Rewrites(c)
    PROVE  TypeOK'
<1>1. [call EXCEPT ![c] = Idle] \in [Calls -> Call]
  BY NewTypes DEF TypeOK
<1>2. call[c].copy \in Org
  BY DEF TypeOK, Call
<1>3. call[c].kind \in WriterKinds
  BY DEF SaversRewrite, Rewrites, At
<1>4. Rewritten(call[c].kind, call[c].copy) \in Org
  BY <1>2, <1>3, OrgTypes
<1>5. row' \in Org /\ call' \in [Calls -> Call] /\ meter' \in Meter
  BY <1>1, <1>4, WriteTypes DEF Rewrites
<1> QED
  BY <1>5 DEF Rewrites, TypeOK

LEMMA CallDiesTypes ==
    ASSUME TypeOK, NEW c \in Calls, CallDies(c)
    PROVE  TypeOK'
<1>1. call' \in [Calls -> Call]
  BY NewTypes DEF CallDies, Ends, TypeOK
<1>2. faults' \in 0..MaxFaults
  BY LimitTypes DEF CallDies, Fault, TypeOK
<1> QED
  BY <1>1, <1>2 DEF CallDies, NoWrite, TypeOK

LEMMA MonthTypes ==
    ASSUME TypeOK, MonthPasses
    PROVE  TypeOK'
<1>1. row' \in Org
  BY OrgTypes DEF MonthPasses, TypeOK
<1>2. \A c \in Calls : Aged(call[c].copy) \in Org
  BY OrgTypes DEF TypeOK, Call
<1>3. call' \in [Calls -> Call]
  BY <1>2 DEF MonthPasses, TypeOK, Call
<1> QED
  BY <1>1, <1>3 DEF MonthPasses, TypeOK

(***************************************************************************)
(* What the meter knows                                                    *)
(***************************************************************************)

\* Calls that are done, or begin, are not among the unanswered ones.
LEMMA UnansweredIsFinite ==
    ASSUME NEW calls
    PROVE  /\ IsFiniteSet(Unanswered(calls))
           /\ Cardinality(Unanswered(calls)) \in Nat
<1>1. Unanswered(calls) \subseteq Calls
  BY DEF Unanswered
<1> QED
  BY <1>1, LimitTypes, FS_Subset, FS_CardinalityType

LEMMA FewerUnanswered ==
    ASSUME NEW calls, NEW more, Unanswered(calls) \subseteq Unanswered(more)
    PROVE  Cardinality(Unanswered(calls)) <= Cardinality(Unanswered(more))
BY UnansweredIsFinite, FS_Subset

\* A new cycle knows of no mail and no call.
LEMMA CycleInv ==
    ASSUME TypeOK, NEW new \in Org, NEW calls \in [Calls -> Call],
           new.used = 0, BeginsCycle(new, calls)
    PROVE  /\ CountsEveryMail' /\ UnansweredAreCounted'
           /\ PeakIsHighest' /\ AllowedWithinLimit' /\ CountedReads'
<1>1. \A c \in Calls : call'[c].counted = FALSE
  BY DEF BeginsCycle, Uncounted, Call
<1>2. Unanswered(call') = {}
  BY <1>1 DEF Unanswered
<1>3. Cardinality(Unanswered(call')) = 0
  BY <1>2, FS_EmptySet
<1>4. /\ meter'.counted = 0 /\ meter'.allowed = 0 /\ meter'.peak = new.limit
      /\ row' = new
  BY DEF BeginsCycle, FreshMeter
<1>5. new.limit \in Nat
  BY LimitTypes DEF Org
<1> QED
  BY <1>1, <1>3, <1>4, <1>5
  DEF CountsEveryMail, UnansweredAreCounted, PeakIsHighest, AllowedWithinLimit, CountedReads

\* A save within a cycle either breaks the meter or leaves the counter alone.
LEMMA SaveInv ==
    ASSUME TypeOK, MeterInv, NEW c \in Calls, NEW new \in Org,
           SavesWithin(new, [call EXCEPT ![c] = Idle])
    PROVE  /\ CountsEveryMail' /\ UnansweredAreCounted'
           /\ PeakIsHighest' /\ AllowedWithinLimit' /\ CountedReads'
<1>1. call' = [call EXCEPT ![c] = Idle] /\ row' = new
  BY DEF SavesWithin
<1>2. CountedReads'
  BY <1>1 DEF MeterInv, CountedReads, Idle, TypeOK
<1>3. CASE meter'.broken
  BY <1>2, <1>3 DEF CountsEveryMail, UnansweredAreCounted, PeakIsHighest, AllowedWithinLimit
<1>4. CASE ~meter'.broken
  <2>1. /\ ~meter.broken /\ new.used = row.used
        /\ meter' = [meter EXCEPT !.peak = Higher(@, new.limit)]
    BY <1>4 DEF SavesWithin, Broken, FreshMeter
  <2>2. /\ meter'.counted = meter.counted /\ meter'.allowed = meter.allowed
        /\ meter'.peak = Higher(meter.peak, new.limit)
    BY <2>1 DEF TypeOK, Meter
  <2>3. meter.peak \in Nat /\ new.limit \in Nat /\ meter.allowed \in Nat
        /\ meter.counted \in Nat
    BY LimitTypes DEF TypeOK, Meter, Org
  <2>4. new.limit <= meter'.peak /\ meter.peak <= meter'.peak
    BY <2>2, <2>3 DEF Higher
  <2>5. Unanswered(call') \subseteq Unanswered(call)
    BY <1>1 DEF Unanswered, Idle, TypeOK
  <2>6. Cardinality(Unanswered(call')) <= Cardinality(Unanswered(call))
    BY <2>5, FewerUnanswered
  <2>7. /\ meter.allowed + Cardinality(Unanswered(call)) <= meter.counted
        /\ row.used = meter.counted /\ meter.allowed <= meter.peak
    BY <2>1 DEF MeterInv, CountsEveryMail, UnansweredAreCounted, AllowedWithinLimit
  <2>8. Cardinality(Unanswered(call')) \in Nat /\ Cardinality(Unanswered(call)) \in Nat
    BY UnansweredIsFinite
  <2>9. meter'.peak \in Nat
    BY <2>2, <2>3 DEF Higher
  <2> QED
    BY <1>1, <1>2, <2>1, <2>2, <2>3, <2>4, <2>6, <2>7, <2>8, <2>9
    DEF CountsEveryMail, UnansweredAreCounted, PeakIsHighest, AllowedWithinLimit
<1> QED
  BY <1>3, <1>4

\* Nothing is written and no call is counted that was not: the meter holds.
LEMMA QuietInv ==
    ASSUME TypeOK, MeterInv, meter' = meter, row'.used = row.used, row'.limit = row.limit,
           Unanswered(call') \subseteq Unanswered(call)
    PROVE  CountsEveryMail' /\ UnansweredAreCounted' /\ PeakIsHighest' /\ AllowedWithinLimit'
<1>1. Cardinality(Unanswered(call')) <= Cardinality(Unanswered(call))
  BY FewerUnanswered
<1>2. Cardinality(Unanswered(call')) \in Nat /\ Cardinality(Unanswered(call)) \in Nat
  BY UnansweredIsFinite
<1>3. meter.allowed \in Nat /\ meter.counted \in Nat
  BY DEF TypeOK, Meter
<1> QED
  BY <1>1, <1>2, <1>3
  DEF MeterInv, CountsEveryMail, UnansweredAreCounted, PeakIsHighest, AllowedWithinLimit

(***************************************************************************)
(* One lemma for each action that moves a call: it keeps MeterInv          *)
(***************************************************************************)

LEMMA AsksMeter ==
    ASSUME TypeOK, MeterInv, NEW c \in Calls, NEW kind \in Askers, Asks(c, kind)
    PROVE  MeterInv'
<1>1. row' = row /\ meter' = meter
  BY DEF Asks, NoWrite
<1>2. \A d \in Calls : /\ call'[d].counted = call[d].counted
                       /\ d # c => call'[d] = call[d]
                       /\ call'[d].pc = "save" => call[d].pc = "save" /\ d # c
  BY DEF Asks, TypeOK, Call, At
<1>3. ~call[c].counted
  BY DEF MeterInv, CountedReads, Asks, At
<1>4. Unanswered(call') \subseteq Unanswered(call)
  BY <1>2 DEF Unanswered
<1>5. CountedReads' /\ SaversRewrite'
  BY <1>2, <1>3 DEF MeterInv, CountedReads, SaversRewrite
<1> QED
  BY <1>1, <1>4, <1>5, QuietInv DEF MeterInv

LEMMA RolloverMeter ==
    ASSUME TypeOK, MeterInv, NEW c \in Calls, Rollover(c)
    PROVE  MeterInv'
<1> DEFINE calls == AfterRollover(c)
           new == [row EXCEPT !.used = 0, !.start = "current"]
<1>1. calls \in [Calls -> Call]
  BY DEF TypeOK, AfterRollover, Call
<1>2. \A d \in Calls : /\ calls[d].counted = call[d].counted
                       /\ calls[d].kind = call[d].kind
                       /\ d # c => calls[d] = call[d]
                       /\ calls[c].pc # "save"
  BY DEF TypeOK, AfterRollover, Call
<1>3. ~call[c].counted
  BY DEF MeterInv, CountedReads, Rollover, At
<1>4. CASE row.start # "current"
  <2>1. BeginsCycle(new, calls)
    BY <1>4 DEF Rollover
  <2>2. new \in Org /\ new.used = 0
    BY DEF TypeOK, Org
  <2>3. /\ CountsEveryMail' /\ UnansweredAreCounted'
        /\ PeakIsHighest' /\ AllowedWithinLimit' /\ CountedReads'
    BY <1>1, <2>1, <2>2, CycleInv
  <2>4. \A d \in Calls : call'[d].pc = calls[d].pc /\ call'[d].kind = calls[d].kind
    BY <1>1, <2>1 DEF BeginsCycle, Uncounted, Call
  <2>5. SaversRewrite'
    BY <1>2, <2>4 DEF SaversRewrite, MeterInv
  <2> QED
    BY <2>3, <2>5 DEF MeterInv
<1>5. CASE ~(row.start # "current")
  <2>1. call' = calls /\ row' = row /\ meter' = meter
    BY <1>5 DEF Rollover, NoWrite
  <2>2. Unanswered(call') \subseteq Unanswered(call)
    BY <1>2, <2>1 DEF Unanswered
  <2>3. CountedReads' /\ SaversRewrite'
    BY <1>2, <1>3, <2>1 DEF MeterInv, CountedReads, SaversRewrite
  <2> QED
    BY <2>1, <2>2, <2>3, QuietInv DEF MeterInv
<1> QED
  BY <1>4, <1>5

LEMMA IncrementMeter ==
    ASSUME TypeOK, MeterInv, NEW c \in Calls, Increment(c)
    PROVE  MeterInv'
<1>1. /\ call' = [call EXCEPT ![c].pc = "read", ![c].counted = TRUE]
      /\ row' = [row EXCEPT !.used = @ + 1]
      /\ meter' = IF meter.broken THEN meter ELSE [meter EXCEPT !.counted = @ + 1]
      /\ call[c].pc = "increment"
  BY DEF Increment, At
<1>2. \A d \in Calls : /\ d # c => call'[d] = call[d]
                       /\ call'[c].pc = "read" /\ call'[c].counted
  BY <1>1 DEF TypeOK, Call
<1>3. ~call[c].counted
  BY <1>1 DEF MeterInv, CountedReads
<1>4. CountedReads' /\ SaversRewrite'
  BY <1>2 DEF MeterInv, CountedReads, SaversRewrite
<1>5. Unanswered(call') = Unanswered(call) \cup {c} /\ c \notin Unanswered(call)
  BY <1>2, <1>3 DEF Unanswered
<1>6. Cardinality(Unanswered(call')) = Cardinality(Unanswered(call)) + 1
  BY <1>5, UnansweredIsFinite, FS_AddElement
<1>7. row'.used = row.used + 1 /\ row'.limit = row.limit
  BY <1>1 DEF TypeOK, Org
<1>8. CASE meter.broken
  BY <1>1, <1>4, <1>8
  DEF MeterInv, CountsEveryMail, UnansweredAreCounted, PeakIsHighest, AllowedWithinLimit
<1>9. CASE ~meter.broken
  <2>1. /\ meter'.counted = meter.counted + 1 /\ meter'.allowed = meter.allowed
        /\ meter'.peak = meter.peak /\ meter'.broken = meter.broken
    BY <1>1, <1>9 DEF TypeOK, Meter
  <2>2. /\ meter.allowed + Cardinality(Unanswered(call)) <= meter.counted
        /\ row.used = meter.counted /\ meter.allowed <= meter.peak
        /\ row.limit <= meter.peak
    BY <1>9 DEF MeterInv, CountsEveryMail, UnansweredAreCounted, PeakIsHighest,
                AllowedWithinLimit
  <2>3. meter.allowed \in Nat /\ meter.counted \in Nat
        /\ Cardinality(Unanswered(call)) \in Nat
    BY UnansweredIsFinite DEF TypeOK, Meter
  <2> QED
    BY <1>4, <1>6, <1>7, <2>1, <2>2, <2>3
    DEF MeterInv, CountsEveryMail, UnansweredAreCounted, PeakIsHighest, AllowedWithinLimit
<1> QED
  BY <1>8, <1>9

\* The mail that is let through was on the counter with all that were before:
\* the counter it read was within the limit, and so is their number.
LEMMA ReadsMeter ==
    ASSUME TypeOK, MeterInv, NEW c \in Calls, Reads(c)
    PROVE  MeterInv'
<1>1. row' = row /\ call[c].pc = "read" /\ LetsThrough(c, row) /\ AfterRead(c, row)
  BY DEF Reads, At
<1>2. /\ \A d \in Calls : d # c => call'[d] = call[d]
      /\ ~call'[c].counted /\ call'[c].pc # "save"
  BY <1>1 DEF AfterRead, Idle, TypeOK, Call
<1>3. CountedReads' /\ SaversRewrite'
  BY <1>2 DEF MeterInv, CountedReads, SaversRewrite
<1>4. Unanswered(call') = Unanswered(call) \ {c}
  BY <1>2 DEF Unanswered
<1>5. CASE call[c].counted /\ Within(InMemory(row)) /\ ~meter.broken
  <2>1. meter' = [meter EXCEPT !.allowed = @ + 1]
    BY <1>1, <1>5 DEF LetsThrough
  <2>2. /\ meter'.allowed = meter.allowed + 1 /\ meter'.counted = meter.counted
        /\ meter'.peak = meter.peak /\ meter'.broken = meter.broken
    BY <2>1 DEF TypeOK, Meter
  <2>3. c \in Unanswered(call)
    BY <1>5 DEF Unanswered
  <2>4. Cardinality(Unanswered(call')) = Cardinality(Unanswered(call)) - 1
    BY <1>4, <2>3, UnansweredIsFinite, FS_RemoveElement
  <2>5. /\ meter.allowed + Cardinality(Unanswered(call)) <= meter.counted
        /\ row.used = meter.counted /\ row.limit <= meter.peak
    BY <1>5 DEF MeterInv, CountsEveryMail, UnansweredAreCounted, PeakIsHighest
  <2>6. /\ meter.allowed \in Nat /\ meter.counted \in Nat /\ meter.peak \in Nat
        /\ Cardinality(Unanswered(call)) \in Nat /\ Cardinality(Unanswered(call')) \in Nat
        /\ row.limit \in Nat /\ row.used \in Nat
    BY UnansweredIsFinite, LimitTypes DEF TypeOK, Meter, Org
  <2>7. row.used <= row.limit
    <3>1. InMemory(row).used = row.used /\ InMemory(row).limit <= row.limit
      BY LimitTypes DEF InMemory, Expired, TypeOK, Org
    <3>2. InMemory(row).limit \in Nat
      BY LimitTypes DEF InMemory, Expired, TypeOK, Org
    <3> QED
      BY <1>5, <3>1, <3>2, <2>6 DEF Within
  <2>8. meter.allowed + 1 <= meter.peak
    BY <2>4, <2>5, <2>6, <2>7
  <2> QED
    BY <1>1, <1>3, <2>2, <2>4, <2>5, <2>6, <2>8
    DEF MeterInv, CountsEveryMail, UnansweredAreCounted, PeakIsHighest, AllowedWithinLimit
<1>6. CASE ~(call[c].counted /\ Within(InMemory(row)) /\ ~meter.broken)
  <2>1. meter' = meter
    BY <1>1, <1>6 DEF LetsThrough
  <2> QED
    BY <1>1, <1>3, <1>4, <2>1, QuietInv DEF MeterInv
<1> QED
  BY <1>5, <1>6

\* A call that ends, whatever it did, leaves no mail unanswered.
LEMMA EndedCalls ==
    ASSUME TypeOK, MeterInv, NEW c \in Calls, call' = [call EXCEPT ![c] = Idle]
    PROVE  /\ CountedReads' /\ SaversRewrite'
           /\ Unanswered(call') \subseteq Unanswered(call)
<1>1. \A d \in Calls : call'[d] = IF d = c THEN Idle ELSE call[d]
  BY DEF TypeOK
<1>2. Idle.pc = "idle" /\ ~Idle.counted
  BY DEF Idle
<1> QED
  BY <1>1, <1>2 DEF CountedReads, SaversRewrite, Unanswered, MeterInv

LEMMA ExpireMeter ==
    ASSUME TypeOK, MeterInv, NEW c \in Calls, Expire(c)
    PROVE  MeterInv'
<1>1. call[c].copy \in Org
  BY DEF TypeOK, Call
<1>2. SavesWithin(call[c].copy, [call EXCEPT ![c] = Idle])
  BY DEF Expire
<1>3. SaversRewrite'
  BY <1>2, EndedCalls DEF SavesWithin
<1> QED
  BY <1>1, <1>2, <1>3, SaveInv DEF MeterInv

LEMMA RewriteBeginsMeter ==
    ASSUME TypeOK, MeterInv, NEW c \in Calls, NEW kind \in WriterKinds,
           RewriteBegins(c, kind)
    PROVE  MeterInv'
<1>1. row' = row /\ meter' = meter
  BY DEF RewriteBegins, NoWrite
<1>2. /\ \A d \in Calls : d # c => call'[d] = call[d]
      /\ ~call'[c].counted /\ call'[c].kind = kind
  BY DEF RewriteBegins, TypeOK
<1>3. Unanswered(call') \subseteq Unanswered(call)
  BY <1>2 DEF Unanswered
<1>4. CountedReads' /\ SaversRewrite'
  BY <1>2 DEF MeterInv, CountedReads, SaversRewrite
<1> QED
  BY <1>1, <1>3, <1>4, QuietInv DEF MeterInv

LEMMA RewritesMeter ==
    ASSUME TypeOK, MeterInv, NEW c \in Calls, Rewrites(c)
    PROVE  MeterInv'
<1> DEFINE kind == call[c].kind
           copy == call[c].copy
           calls == [call EXCEPT ![c] = Idle]
<1>1. copy \in Org /\ kind \in WriterKinds
  BY DEF TypeOK, Call, MeterInv, SaversRewrite, Rewrites, At
<1>2. Rewritten(kind, copy) \in Org
  BY <1>1, OrgTypes
<1>3. calls \in [Calls -> Call]
  BY NewTypes DEF TypeOK
<1>4. CASE Restarts(kind, copy)
  <2>1. BeginsCycle(Rewritten(kind, copy), calls)
    BY <1>4 DEF Rewrites
  <2>2. \A o \in Org : Restarted(o).used = 0
    BY DEF Restarted, Org
  <2>3. [Paid(copy) EXCEPT !.customer = TRUE] \in Org
    <3>1. Paid(copy) \in Org
      BY <1>1, OrgTypes
    <3> QED
      BY <3>1 DEF Org
  <2>4. Rewritten(kind, copy).used = 0
    BY <1>1, <1>4, <2>2, <2>3 DEF Restarts, Rewritten
  <2>5. /\ CountsEveryMail' /\ UnansweredAreCounted'
        /\ PeakIsHighest' /\ AllowedWithinLimit' /\ CountedReads'
    BY <1>2, <1>3, <2>1, <2>4, CycleInv
  <2>6. \A d \in Calls : /\ call'[d].pc = calls[d].pc
                         /\ call'[d].kind = calls[d].kind
    BY <1>3, <2>1 DEF BeginsCycle, Uncounted, Call
  <2>7. SaversRewrite'
    BY <2>6 DEF SaversRewrite, MeterInv, Idle, TypeOK
  <2> QED
    BY <2>5, <2>7 DEF MeterInv
<1>5. CASE ~Restarts(kind, copy)
  <2>1. SavesWithin(Rewritten(kind, copy), calls)
    BY <1>5 DEF Rewrites
  <2>2. SaversRewrite'
    BY <2>1, EndedCalls DEF SavesWithin
  <2> QED
    BY <1>2, <2>1, <2>2, SaveInv DEF MeterInv
<1> QED
  BY <1>4, <1>5

LEMMA CallDiesMeter ==
    ASSUME TypeOK, MeterInv, NEW c \in Calls, CallDies(c)
    PROVE  MeterInv'
<1>1. row' = row /\ meter' = meter /\ call' = [call EXCEPT ![c] = Idle]
  BY DEF CallDies, NoWrite, Ends
<1> QED
  BY <1>1, EndedCalls, QuietInv DEF MeterInv

LEMMA MonthMeter ==
    ASSUME TypeOK, MeterInv, MonthPasses
    PROVE  MeterInv'
<1>1. meter' = meter /\ row'.used = row.used /\ row'.limit = row.limit
  BY DEF MonthPasses, Aged, TypeOK, Org
<1>2. \A c \in Calls : /\ call'[c].pc = call[c].pc /\ call'[c].kind = call[c].kind
                       /\ call'[c].counted = call[c].counted
  BY DEF MonthPasses, TypeOK, Call
<1>3. Unanswered(call') \subseteq Unanswered(call)
  BY <1>2 DEF Unanswered
<1>4. CountedReads' /\ SaversRewrite'
  BY <1>2 DEF MeterInv, CountedReads, SaversRewrite
<1> QED
  BY <1>1, <1>3, <1>4, QuietInv DEF MeterInv

\* Time, the customer and stuttering touch neither the row nor a call.
LEMMA RestInv ==
    ASSUME IInv, TrialElapses \/ Subscribes \/ SubscriptionEnds \/ UNCHANGED vars
    PROVE  IInv'
<1>1. row' = row /\ meter' = meter /\ call' = call /\ writes' = writes /\ faults' = faults
  BY DEF TrialElapses, Subscribes, SubscriptionEnds, vars
<1>2. elapsed' \in BOOLEAN /\ stripe' \in {"none", "live", "ended"}
  BY DEF IInv, TypeOK, TrialElapses, Subscribes, SubscriptionEnds, vars
<1>3. TypeOK'
  BY <1>1, <1>2 DEF IInv, TypeOK
<1>4. MeterInv'
  BY <1>1 DEF IInv, MeterInv, CountedReads, SaversRewrite, CountsEveryMail,
              UnansweredAreCounted, PeakIsHighest, AllowedWithinLimit
<1> QED
  BY <1>3, <1>4 DEF IInv

(***************************************************************************)
(* The invariant                                                           *)
(***************************************************************************)

LEMMA InitInv == Init => IInv
<1> SUFFICES ASSUME Init PROVE IInv
  OBVIOUS
<1>1. TypeOK
  <2>1. meter \in Meter
    BY NewTypes DEF Init
  <2>2. row \in Org /\ call \in [Calls -> Call]
    BY NewTypes DEF Init
  <2>3. writes \in 0..MaxWrites /\ faults \in 0..MaxFaults
    BY LimitTypes DEF Init
  <2>4. elapsed \in BOOLEAN /\ stripe \in {"none", "live", "ended"}
    BY DEF Init
  <2> QED
    BY <2>1, <2>2, <2>3, <2>4 DEF TypeOK
<1>2. \A c \in Calls : ~call[c].counted /\ call[c].pc = "idle"
  BY DEF Init, Idle
<1>3. Unanswered(call) = {}
  BY <1>2 DEF Unanswered
<1>4. Cardinality(Unanswered(call)) = 0
  BY <1>3, FS_EmptySet
<1>5. /\ meter.counted = 0 /\ meter.allowed = 0 /\ meter.peak = PaidLimit
      /\ row.used = 0 /\ row.limit = PaidLimit
  BY DEF Init, FreshMeter, NewOrg
<1>6. MeterInv
  BY <1>2, <1>4, <1>5, LimitTypes
  DEF MeterInv, CountedReads, SaversRewrite, CountsEveryMail, UnansweredAreCounted,
      PeakIsHighest, AllowedWithinLimit
<1> QED
  BY <1>1, <1>6 DEF IInv

LEMMA NextInv == IInv /\ [Next]_vars => IInv'
<1> SUFFICES ASSUME IInv, [Next]_vars PROVE IInv'
  OBVIOUS
<1>1. TypeOK /\ MeterInv /\ SaversRewrite
  BY DEF IInv, MeterInv
<1>2. ASSUME NEW c \in Calls, NEW kind \in Askers, Asks(c, kind) PROVE IInv'
  BY <1>1, <1>2, AsksTypes, AsksMeter DEF IInv
<1>3. ASSUME NEW c \in Calls, Goes(c) PROVE IInv'
  <2>1. CASE Rollover(c)
    BY <1>1, <2>1, RolloverTypes, RolloverMeter DEF IInv
  <2>2. CASE Increment(c)
    BY <1>1, <2>2, IncrementTypes, IncrementMeter DEF IInv
  <2>3. CASE Reads(c)
    BY <1>1, <2>3, ReadsTypes, ReadsMeter DEF IInv
  <2>4. CASE Expire(c)
    BY <1>1, <2>4, ExpireTypes, ExpireMeter DEF IInv
  <2>5. CASE Rewrites(c)
    BY <1>1, <2>5, RewritesTypes, RewritesMeter DEF IInv
  <2> QED
    BY <1>3, <2>1, <2>2, <2>3, <2>4, <2>5 DEF Goes
<1>4. ASSUME NEW c \in Calls, CallDies(c) PROVE IInv'
  BY <1>1, <1>4, CallDiesTypes, CallDiesMeter DEF IInv
<1>5. ASSUME NEW c \in Calls, NEW kind \in WriterKinds, RewriteBegins(c, kind) PROVE IInv'
  BY <1>1, <1>5, RewriteBeginsTypes, RewriteBeginsMeter DEF IInv
<1>6. CASE MonthPasses
  BY <1>1, <1>6, MonthTypes, MonthMeter DEF IInv
<1>7. CASE TrialElapses \/ Subscribes \/ SubscriptionEnds \/ UNCHANGED vars
  BY <1>7, RestInv
<1> QED
  BY <1>2, <1>3, <1>4, <1>5, <1>6, <1>7 DEF Next, Asked

(***************************************************************************)
(* The plan: what a stale entity can and cannot do to it                   *)
(***************************************************************************)

\* An elapsed trial is over, and no call is about to save the plan "trial" that
\* it read earlier.
TrialOver ==
    /\ elapsed /\ row.plan # "trial"
    /\ \A c \in Calls : At(c, "save") \/ At(c, "expire") => call[c].copy.plan # "trial"

\* The organisation has paid, and no call holds an entity to save.
PaidAlone ==
    /\ row.plan = "active"
    /\ \A c \in Calls : ~At(c, "save") /\ ~At(c, "expire")

\* A webhook or an admin's request finds the row.
Rewriting == \E c \in Calls, kind \in WriterKinds : RewriteBegins(c, kind)

\* No webhook and no admin's tool makes a trial of what is none.
LEMMA RewrittenPlan ==
    ASSUME NEW org \in Org, org.plan # "trial", NEW kind \in WriterKinds
    PROVE  Rewritten(kind, org).plan # "trial"
<1>1. /\ Paid(org) \in Org /\ Paid(org).plan = "active"
      /\ Free(org) \in Org /\ Free(org).plan = "expired"
  BY OrgTypes DEF Paid, Free, Org
<1>2. \A o \in Org : Restarted(o).plan = o.plan
  BY DEF Restarted, Org
<1>3. /\ [Paid(org) EXCEPT !.customer = TRUE] \in Org
      /\ [Paid(org) EXCEPT !.customer = TRUE].plan = "active"
      /\ [Paid(org) EXCEPT !.limit = org.limit, !.start = "current", !.rc = TRUE].plan = "active"
      /\ [Paid(org) EXCEPT !.start = "current"].plan = "active"
      /\ [Free(org) EXCEPT !.trialEnds = FALSE].plan = "expired"
  BY <1>1 DEF Org
<1> QED
  BY <1>1, <1>2, <1>3
  DEF Rewritten, WriterKinds, StripeKinds, RevenueCatKinds, AdminKinds

\* Where the calls stand after a write.
LEMMA WrittenCalls ==
    ASSUME NEW new, NEW calls \in [Calls -> Call],
           BeginsCycle(new, calls) \/ SavesWithin(new, calls)
    PROVE  /\ row' = new
           /\ \A c \in Calls : call'[c].pc = calls[c].pc /\ call'[c].copy = calls[c].copy
BY DEF BeginsCycle, SavesWithin, Uncounted, Call

\* What a step leaves or puts into the hands of the calls.
LEMMA PlanStep ==
    ASSUME IInv, [Next]_vars
    PROVE  /\ elapsed => elapsed'
           /\ \/ row'.plan = row.plan
              \/ \E c \in Calls : At(c, "expire") /\ row' = call[c].copy
              \/ \E c \in Calls : /\ At(c, "save")
                                  /\ row' = Rewritten(call[c].kind, call[c].copy)
           /\ \A c \in Calls : call'[c].pc \in {"save", "expire"} =>
                 \/ call'[c].pc = call[c].pc /\ call'[c].copy.plan = call[c].copy.plan
                 \/ call'[c].pc = "expire" /\ call'[c].copy.plan = "expired" /\ ExpiryDue(row)
                 \/ Rewriting /\ call'[c].copy = row
<1> DEFINE Kept(c) == call'[c].pc = call[c].pc /\ call'[c].copy.plan = call[c].copy.plan
<1>1. row \in Org /\ call \in [Calls -> Call] /\ TypeOK
  BY DEF IInv, TypeOK
<1>2. ASSUME NEW c \in Calls, NEW kind, Asks(c, kind)
      PROVE  /\ UNCHANGED <<row, elapsed>> /\ call'[c].pc \in {"read", "rollover"}
             /\ \A d \in Calls \ {c} : call'[d] = call[d]
  BY <1>1, <1>2 DEF Asks, NoWrite, Call
<1>3. ASSUME NEW c \in Calls, Rollover(c)
      PROVE  /\ row'.plan = row.plan /\ elapsed' = elapsed
             /\ call'[c].pc \in {"read", "increment"}
             /\ \A d \in Calls \ {c} : call'[d].pc = call[d].pc /\ call'[d].copy = call[d].copy
  <2>1. /\ AfterRollover(c) \in [Calls -> Call]
        /\ AfterRollover(c)[c].pc \in {"read", "increment"}
        /\ \A d \in Calls \ {c} : AfterRollover(c)[d] = call[d]
    BY <1>1 DEF AfterRollover, Call
  <2>2. [row EXCEPT !.used = 0, !.start = "current"].plan = row.plan
    BY <1>1 DEF Org
  <2>3. CASE row.start # "current"
    <3> DEFINE new == [row EXCEPT !.used = 0, !.start = "current"]
    <3>1. BeginsCycle(new, AfterRollover(c)) /\ elapsed' = elapsed
      BY <1>3, <2>3 DEF Rollover
    <3> HIDE DEF new
    <3>2. /\ row' = new
          /\ \A d \in Calls : /\ call'[d].pc = AfterRollover(c)[d].pc
                              /\ call'[d].copy = AfterRollover(c)[d].copy
      BY <2>1, <3>1, WrittenCalls
    <3> QED
      BY <2>1, <2>2, <3>1, <3>2 DEF new
  <2>4. CASE row.start = "current"
    BY <1>3, <2>1, <2>4 DEF Rollover, NoWrite
  <2> QED
    BY <2>3, <2>4
<1>4. ASSUME NEW c \in Calls, Increment(c)
      PROVE  /\ row'.plan = row.plan /\ elapsed' = elapsed /\ call'[c].pc = "read"
             /\ \A d \in Calls \ {c} : call'[d] = call[d]
  BY <1>1, <1>4 DEF Increment, Org, Call
<1>5. ASSUME NEW c \in Calls, Reads(c)
      PROVE  /\ UNCHANGED <<row, elapsed>>
             /\ \/ call'[c].pc = "idle"
                \/ call'[c].pc = "expire" /\ call'[c].copy.plan = "expired" /\ ExpiryDue(row)
             /\ \A d \in Calls \ {c} : call'[d] = call[d]
  <2>1. Expired(row).plan = "expired"
    BY <1>1 DEF Expired, Org
  <2> QED
    BY <1>1, <1>5, <2>1 DEF Reads, AfterRead, Call, Idle
<1>6. ASSUME NEW c \in Calls, Expire(c) \/ Rewrites(c) \/ CallDies(c)
      PROVE  /\ elapsed' = elapsed /\ call'[c].pc = "idle"
             /\ \/ row' = row
                \/ At(c, "expire") /\ row' = call[c].copy
                \/ At(c, "save") /\ row' = Rewritten(call[c].kind, call[c].copy)
             /\ \A d \in Calls \ {c} : call'[d].pc = call[d].pc /\ call'[d].copy = call[d].copy
  <2>1. /\ [call EXCEPT ![c] = Idle] \in [Calls -> Call]
        /\ [call EXCEPT ![c] = Idle][c].pc = "idle"
        /\ \A d \in Calls \ {c} : [call EXCEPT ![c] = Idle][d] = call[d]
    BY <1>1, NewTypes DEF Idle
  <2>2. CASE Expire(c)
    BY <2>1, <2>2, WrittenCalls DEF Expire
  <2>3. CASE Rewrites(c)
    BY <2>1, <2>3, WrittenCalls DEF Rewrites
  <2>4. CASE CallDies(c)
    BY <2>1, <2>4 DEF CallDies, Ends, NoWrite
  <2> QED
    BY <1>6, <2>2, <2>3, <2>4
<1>7. ASSUME NEW c \in Calls, NEW kind \in WriterKinds, RewriteBegins(c, kind)
      PROVE  /\ UNCHANGED <<row, elapsed>> /\ Rewriting /\ call'[c].copy = row
             /\ \A d \in Calls \ {c} : call'[d] = call[d]
  BY <1>1, <1>7 DEF RewriteBegins, NoWrite, Rewriting
<1>8. ASSUME MonthPasses
      PROVE  row'.plan = row.plan /\ elapsed' = elapsed /\ \A c \in Calls : Kept(c)
  BY <1>1, <1>8 DEF MonthPasses, Aged, Org, Call
<1>9. ASSUME TrialElapses \/ Subscribes \/ SubscriptionEnds \/ UNCHANGED vars
      PROVE  UNCHANGED <<row, call>> /\ (elapsed => elapsed')
  BY <1>9 DEF TrialElapses, Subscribes, SubscriptionEnds, vars
<1> QED
  BY <1>2, <1>3, <1>4, <1>5, <1>6, <1>7, <1>8, <1>9 DEF Next, Asked, Goes

(***************************************************************************)
(* Theorems                                                                *)
(***************************************************************************)

\* Types hold for any number of calls, kinds of webhook, mails and months.
THEOREM TypeCorrect == Spec => []TypeOK
<1>1. IInv => TypeOK
  BY DEF IInv
<1> QED
  BY <1>1, InitInv, NextInv, PTL DEF Spec

\* While no stale entity has been saved in the cycle, increment and the
\* conditional rollover lose no mail.
THEOREM EveryMailCounted == Spec => []CountsEveryMail
<1>1. IInv => CountsEveryMail
  BY DEF IInv, MeterInv
<1> QED
  BY <1>1, InitInv, NextInv, PTL DEF Spec

\* The mails of a cycle that are let through stay within the highest limit of
\* the cycle, however many calls run at once.
THEOREM WithinLimit == Spec => []AllowedWithinLimit
<1>1. IInv => AllowedWithinLimit
  BY DEF IInv, MeterInv
<1> QED
  BY <1>1, InitInv, NextInv, PTL DEF Spec

\* An elapsed trial is over for good unless a call that read it before saves it:
\* no webhook, no admin's tool and no metering call that reads the row from
\* then on brings it back (the safety half of TrialEnds).
THEOREM TrialStaysOver == Spec => [][TrialOver => TrialOver']_vars
<1>1. ASSUME IInv, TrialOver, [Next]_vars PROVE TrialOver'
  <2>1. row'.plan # "trial"
    <3>1. ASSUME NEW c \in Calls, At(c, "save")
          PROVE  Rewritten(call[c].kind, call[c].copy).plan # "trial"
      BY <1>1, <3>1, RewrittenPlan
      DEF IInv, TypeOK, MeterInv, SaversRewrite, TrialOver, At, Call
    <3> QED
      BY <1>1, <3>1, PlanStep DEF TrialOver, At
  <2>2. \A c \in Calls : call'[c].pc \in {"save", "expire"} => call'[c].copy.plan # "trial"
    BY <1>1, PlanStep DEF TrialOver, At
  <2> QED
    BY <1>1, <2>1, <2>2, PlanStep DEF TrialOver, At
<1> QED
  BY <1>1, InitInv, NextInv, PTL DEF Spec

\* Use of the product never costs a paid plan: once no call holds an older
\* entity, only a webhook or an admin's tool can end it, however many mails are
\* metered, months pass or the trial's clock runs out.
THEOREM PaidIsKept == Spec => [][PaidAlone /\ ~Rewriting => PaidAlone']_vars
<1>1. ASSUME IInv, PaidAlone, ~Rewriting, [Next]_vars PROVE PaidAlone'
  BY <1>1, PlanStep DEF PaidAlone, At, ExpiryDue
<1> QED
  BY <1>1, InitInv, NextInv, PTL DEF Spec

=============================================================================
