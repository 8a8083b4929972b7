------------------------------- MODULE Billing -------------------------------
(***************************************************************************)
(* The plan and the mail meter of one organisation.  Every inbound mail is *)
(* metered and every AI request is gated against one row, which billing    *)
(* webhooks of Stripe and RevenueCat and the admin's tools rewrite.        *)
(*                                                                         *)
(* The meter uses single statements: a conditional UPDATE rolls a stale    *)
(* cycle over and increment counts a mail.  Everybody else finds the       *)
(* entity, changes it and saves it, and save writes every column that      *)
(* differs from the row: a copy is part of a call here.  Tiers are their   *)
(* limits; seats, the members' own subscriptions and what the payment      *)
(* providers keep for themselves are left out.                             *)
(***************************************************************************)
EXTENDS Naturals, FiniteSets

CONSTANTS
    Calls,      \* calls that are under way at once
    Kinds,      \* the rewriting calls that happen
    FreeLimit,  \* FREE_TIER_EMAIL_LIMIT
    PaidLimit,  \* the limit of the trial and of the paid tier
    MaxUsed,    \* no mail is metered while this many are counted (bound)
    MaxWrites,  \* rewriting calls (bound)
    MaxFaults   \* calls and statements that fail (bound)

StripeKinds == {"checkout", "updated", "lapsed", "deleted", "invoice"}
RevenueCatKinds == {"seats", "tier", "renewal", "expiration"}
AdminKinds == {"grant", "revoke", "reset"}
WriterKinds == StripeKinds \cup RevenueCatKinds \cup AdminKinds

ASSUME BillingAssumption ==
    /\ IsFiniteSet(Calls)
    /\ Kinds \subseteq WriterKinds
    /\ {FreeLimit, PaidLimit, MaxUsed, MaxWrites, MaxFaults} \subseteq Nat
    /\ FreeLimit <= PaidLimit

VARIABLES
    row,       \* the organizations row
    elapsed,   \* trialEndsAt has passed
    stripe,    \* the subscription at Stripe
    call,      \* the calls
    writes, faults,
    meter      \* history: what happened since the billing cycle began

vars == <<row, elapsed, stripe, call, writes, faults, meter>>

(***************************************************************************)
(* Types                                                                   *)
(***************************************************************************)

\* start: billingCycleStart is null, more than a month ago, or in this month.
Org == [plan: {"trial", "active", "expired"}, limit: {FreeLimit, PaidLimit}, used: Nat,
        start: {"null", "old", "current"}, trialEnds: BOOLEAN, customer: BOOLEAN, rc: BOOLEAN]

NewOrg == [plan |-> "trial", limit |-> PaidLimit, used |-> 0, start |-> "null",
           trialEnds |-> TRUE, customer |-> FALSE, rc |-> FALSE]

Askers == {"track", "check", "view"}

\* counted: the call's mail has been counted in the running cycle, and the call
\* has not answered yet.
Call == [pc: {"idle", "rollover", "increment", "read", "expire", "save"},
         kind: Askers \cup WriterKinds \cup {"none"}, copy: Org, counted: BOOLEAN]

Idle == [pc |-> "idle", kind |-> "none", copy |-> NewOrg, counted |-> FALSE]

\* peak: the highest limit the row had; broken: a save put the counter to a
\* value read earlier.
Meter == [counted: Nat, allowed: Nat, peak: {FreeLimit, PaidLimit}, broken: BOOLEAN]

FreshMeter(limit) == [counted |-> 0, allowed |-> 0, peak |-> limit, broken |-> FALSE]

Broken == [FreshMeter(PaidLimit) EXCEPT !.broken = TRUE]

Init ==
    /\ row = NewOrg
    /\ elapsed = FALSE
    /\ stripe = "none"
    /\ call = [c \in Calls |-> Idle]
    /\ writes = 0 /\ faults = 0
    /\ meter = FreshMeter(PaidLimit)

Fault == faults < MaxFaults /\ faults' = faults + 1

(***************************************************************************)
(* Calls and what they write                                               *)
(***************************************************************************)

At(c, pc) == call[c].pc = pc

Goto(c, pc) == call' = [call EXCEPT ![c].pc = pc]

Ends(c) == call' = [call EXCEPT ![c] = Idle]

Higher(m, n) == IF m < n THEN n ELSE m

\* The calls after one of them began a new cycle: no mail of theirs counts in it.
Uncounted(calls) == [d \in Calls |-> [calls[d] EXCEPT !.counted = FALSE]]

\* A cycle begins with the row new.
BeginsCycle(new, calls) ==
    /\ row' = new
    /\ call' = Uncounted(calls)
    /\ meter' = FreshMeter(new.limit)

\* The entity is saved in the middle of a cycle.
SavesWithin(new, calls) ==
    /\ row' = new
    /\ call' = calls
    /\ meter' = IF meter.broken \/ new.used # row.used THEN Broken
                ELSE [meter EXCEPT !.peak = Higher(@, new.limit)]

NoWrite == UNCHANGED <<row, meter>>

(***************************************************************************)
(* trackEmailProcessed, checkAiCapacity, and the organisation's page       *)
(***************************************************************************)

Asks(c, kind) ==
    /\ At(c, "idle")
    /\ kind = "track" => row.used < MaxUsed
    /\ call' = [call EXCEPT ![c].kind = kind,
                            ![c].pc = IF kind = "view" THEN "read" ELSE "rollover"]
    /\ NoWrite
    /\ UNCHANGED <<elapsed, stripe, writes, faults>>

AfterRollover(c) ==
    [call EXCEPT ![c].pc = IF call[c].kind = "track" THEN "increment" ELSE "read"]

\* Mutant: the UPDATE has no condition.
RolloverAlways(c) ==
    /\ At(c, "rollover")
    /\ IF row.start # "current"
       THEN BeginsCycle([row EXCEPT !.used = 0, !.start = "current"], AfterRollover(c))
       ELSE row' = [row EXCEPT !.used = 0] /\ call' = AfterRollover(c) /\ UNCHANGED meter
    /\ UNCHANGED <<elapsed, stripe, writes, faults>>

\* Mutant: a cycle that never started is not stale.
RolloverDated(c) ==
    /\ At(c, "rollover")
    /\ IF row.start = "old"
       THEN BeginsCycle([row EXCEPT !.used = 0, !.start = "current"], AfterRollover(c))
       ELSE call' = AfterRollover(c) /\ NoWrite
    /\ UNCHANGED <<elapsed, stripe, writes, faults>>

\* rolloverStaleBillingCycle: UPDATE ... WHERE billingCycleStart < cutoff OR NULL.
Rollover(c) ==
    /\ At(c, "rollover")
    /\ IF row.start # "current"
       THEN BeginsCycle([row EXCEPT !.used = 0, !.start = "current"], AfterRollover(c))
       ELSE call' = AfterRollover(c) /\ NoWrite
    /\ UNCHANGED <<elapsed, stripe, writes, faults>>

Increment(c) ==
    /\ At(c, "increment")
    /\ row' = [row EXCEPT !.used = @ + 1]
    /\ meter' = IF meter.broken THEN meter ELSE [meter EXCEPT !.counted = @ + 1]
    /\ call' = [call EXCEPT ![c].pc = "read", ![c].counted = TRUE]
    /\ UNCHANGED <<elapsed, stripe, writes, faults>>

\* applyTrialExpiryIfDue: the status and the limit, nothing else.
ExpiryDue(org) == org.plan = "trial" /\ org.trialEnds /\ elapsed

Expired(org) == [org EXCEPT !.plan = "expired", !.limit = FreeLimit]

InMemory(org) == IF ExpiryDue(org) THEN Expired(org) ELSE org

Within(org) == org.used <= org.limit

\* The verdict on what was read is one on this call's mail.
LetsThrough(c, org) ==
    meter' = IF call[c].counted /\ Within(InMemory(org)) /\ ~meter.broken
             THEN [meter EXCEPT !.allowed = @ + 1] ELSE meter

AfterRead(c, org) ==
    call' = [call EXCEPT ![c] =
                IF ExpiryDue(org)
                THEN [@ EXCEPT !.pc = "expire", !.copy = Expired(org), !.counted = FALSE]
                ELSE Idle]

\* Mutant: the mail is judged by the counter it found.
ReadsBefore(c) ==
    /\ At(c, "read")
    /\ LET found == [row EXCEPT !.used = IF @ > 0 THEN @ - 1 ELSE 0]
       IN  LetsThrough(c, found) /\ AfterRead(c, row)
    /\ UNCHANGED <<row, elapsed, stripe, writes, faults>>

\* The call reads the row and answers, whatever becomes of the expiry's save.
Reads(c) ==
    /\ At(c, "read")
    /\ LetsThrough(c, row) /\ AfterRead(c, row)
    /\ UNCHANGED <<row, elapsed, stripe, writes, faults>>

\* Mutant: the expired trial is not persisted.
ExpireInMemory(c) ==
    /\ At(c, "expire")
    /\ Ends(c)
    /\ NoWrite
    /\ UNCHANGED <<elapsed, stripe, writes, faults>>

Expire(c) ==
    /\ At(c, "expire")
    /\ SavesWithin(call[c].copy, [call EXCEPT ![c] = Idle])
    /\ UNCHANGED <<elapsed, stripe, writes, faults>>

(***************************************************************************)
(* Webhooks and the admin's tools                                          *)
(***************************************************************************)

\* Stripe sends events of a subscription, late ones too, once there is one.
Sent(kind) ==
    /\ kind \in StripeKinds => stripe # "none"
    /\ kind = "deleted" => stripe = "ended"

\* findOrgForStripe: an invoice has no organisation id, the customer must be
\* known.  assertNotRevenueCatManaged: grants and revocations are refused.
Accepts(kind, org) ==
    /\ kind \in {"deleted", "invoice"} => org.customer
    /\ kind \in {"grant", "revoke"} => ~org.rc

RewriteBegins(c, kind) ==
    /\ At(c, "idle") /\ kind \in Kinds
    /\ Sent(kind) /\ Accepts(kind, row)
    /\ writes < MaxWrites /\ writes' = writes + 1
    /\ call' = [call EXCEPT ![c] = [pc |-> "save", kind |-> kind, copy |-> row,
                                    counted |-> FALSE]]
    /\ NoWrite
    /\ UNCHANGED <<elapsed, stripe, faults>>

Paid(org) == [org EXCEPT !.plan = "active", !.limit = PaidLimit, !.trialEnds = FALSE]

\* Mutant: a plan that ended leaves the organisation without a status.
FreeUnpaid(org) == [org EXCEPT !.plan = "unpaid", !.limit = FreeLimit]

Free(org) == [org EXCEPT !.plan = "expired", !.limit = FreeLimit]

Restarted(org) == [org EXCEPT !.used = 0, !.start = "current"]

\* Whether the call puts the counter to zero.
Restarts(kind, org) ==
    \/ kind \in {"checkout", "invoice", "renewal", "reset"}
    \/ kind = "updated" /\ org.start = "null"

Rewritten(kind, org) ==
    CASE kind = "checkout" -> Restarted([Paid(org) EXCEPT !.customer = TRUE])
      [] kind = "updated"  -> LET live == [Paid(org) EXCEPT !.customer = TRUE]
                              IN  IF org.start = "null" THEN Restarted(live) ELSE live
      [] kind = "seats"    -> [Paid(org) EXCEPT !.limit = org.limit, !.start = "current",
                                                !.rc = TRUE]
      [] kind = "tier"     -> [Paid(org) EXCEPT !.start = "current"]
      [] kind = "grant"    -> Paid(org)
      [] kind = "revoke"   -> [Free(org) EXCEPT !.trialEnds = FALSE]
      [] kind \in {"lapsed", "deleted", "expiration"} -> Free(org)
      [] kind \in {"invoice", "renewal", "reset"}     -> Restarted(org)

Rewrites(c) ==
    /\ At(c, "save")
    /\ LET kind == call[c].kind
           new  == Rewritten(kind, call[c].copy)
           calls == [call EXCEPT ![c] = Idle]
       IN  IF Restarts(kind, call[c].copy) THEN BeginsCycle(new, calls)
           ELSE SavesWithin(new, calls)
    /\ UNCHANGED <<elapsed, stripe, writes, faults>>

\* The process stops or a statement fails during a call; a trial's expiry whose
\* save fails is caught, the call has its answer.
CallDies(c) ==
    /\ ~At(c, "idle")
    /\ Fault
    /\ Ends(c)
    /\ NoWrite
    /\ UNCHANGED <<elapsed, stripe, writes>>

(***************************************************************************)
(* Time and the customer                                                   *)
(***************************************************************************)

TrialElapses ==
    /\ ~elapsed
    /\ elapsed' = TRUE
    /\ UNCHANGED <<row, stripe, call, writes, faults, meter>>

Aged(org) == [org EXCEPT !.start = IF @ = "current" THEN "old" ELSE @]

\* A month has passed since the cycle began.
MonthPasses ==
    /\ row.start = "current"
    /\ row' = Aged(row)
    /\ call' = [c \in Calls |-> [call[c] EXCEPT !.copy = Aged(@)]]
    /\ UNCHANGED <<elapsed, stripe, writes, faults, meter>>

Subscribes ==
    /\ stripe = "none"
    /\ stripe' = "live"
    /\ UNCHANGED <<row, elapsed, call, writes, faults, meter>>

SubscriptionEnds ==
    /\ stripe = "live"
    /\ stripe' = "ended"
    /\ UNCHANGED <<row, elapsed, call, writes, faults, meter>>

(***************************************************************************)
(* The specification                                                       *)
(***************************************************************************)

Asked == \E c \in Calls, kind \in Askers : Asks(c, kind)

Goes(c) == \/ Rollover(c) \/ Increment(c) \/ Reads(c) \/ Expire(c) \/ Rewrites(c)

Next ==
    \/ Asked
    \/ \E c \in Calls : \/ Goes(c) \/ CallDies(c)
                        \/ \E kind \in WriterKinds : RewriteBegins(c, kind)
    \/ TrialElapses \/ MonthPasses
    \/ Subscribes \/ SubscriptionEnds

Spec == Init /\ [][Next]_vars

\* A call that has begun goes on, and months pass.
FairSpec ==
    /\ Spec
    /\ \A c \in Calls : WF_vars(Goes(c))
    /\ WF_vars(MonthPasses)

(***************************************************************************)
(* Properties                                                              *)
(***************************************************************************)

TypeOK ==
    /\ row \in Org
    /\ elapsed \in BOOLEAN
    /\ stripe \in {"none", "live", "ended"}
    /\ call \in [Calls -> Call]
    /\ writes \in 0..MaxWrites /\ faults \in 0..MaxFaults
    /\ meter \in Meter

\* "Use atomic increment to avoid read-modify-write race conditions": as long
\* as no stale entity is saved, every mail of the cycle is on the counter, and
\* of two calls that find the cycle stale one rolls it over.
CountsEveryMail == ~meter.broken => row.used = meter.counted

\* However the calls interleave, no more mails of a cycle are let through than
\* the highest limit the organisation had in it.
AllowedWithinLimit == ~meter.broken => meter.allowed <= meter.peak

\* Mails keep arriving, or members keep asking for AI.
UsageGoesOn == []<><<\E c \in Calls : Asks(c, "track") \/ Asks(c, "check")>>_vars

\* "permanently over its volume cap": while the organisation is in use, it
\* does not stay over its limit, whatever webhooks are lost or saved late.
OverLimitIsBrief ==
    UsageGoesOn => (~Within(row) ~> Within(row))

\* An elapsed trial ends for good although a stale entity may revive it.
TrialEnds ==
    UsageGoesOn => <>[](elapsed => row.plan # "trial")

=============================================================================
