------------------------------- MODULE McpOAuth -------------------------------
(***************************************************************************)
(* One user's connections to the MCP endpoint: authorization requests, the *)
(* consent answer, the code that is exchanged once, the connection's       *)
(* refresh tokens that rotate in place, personal tokens that share the     *)
(* table and its limit, and revocation.  HTTP calls run concurrently; a    *)
(* call is one step per database statement and may die between two.        *)
(*                                                                         *)
(* A secret is a number: the n-th refresh token generated.  That a caller  *)
(* names the right client, redirect URI and verifier is taken for granted: *)
(* a call that does not changes nothing.  The audit log, lastUsedAt and    *)
(* the registry of clients are left out.                                   *)
(***************************************************************************)
EXTENDS Naturals, FiniteSets

CONSTANTS
    Requests,    \* authorization requests (bound)
    NoRequest,   \* the request of a personal token
    Tokens,      \* ids of personal_access_tokens rows (bound)
    NoToken,     \* no row
    Calls,       \* HTTP calls in progress at once (bound)
    MaxTokens,   \* MAX_ACTIVE_TOKENS_PER_USER
    MaxSecrets,  \* refresh tokens generated (bound)
    MaxFaults    \* calls that die (bound)

ASSUME McpOAuthAssumption ==
    /\ NoRequest \notin Requests
    /\ NoToken \notin Tokens
    /\ IsFiniteSet(Calls) /\ Calls # {}
    /\ {MaxTokens, MaxSecrets, MaxFaults} \subseteq Nat

VARIABLES
    code,      \* oauth_authorization_codes rows
    token,     \* personal_access_tokens rows
    call,      \* the HTTP calls
    secrets,   \* refresh tokens generated so far
    exchanges, \* history: how often each refresh token was exchanged
    faults     \* calls that died so far

vars == <<code, token, call, secrets, exchanges, faults>>

(***************************************************************************)
(* Types                                                                   *)
(***************************************************************************)

\* state "pending" is userId and consumedAt null; "approved" has a code hash.
CodeRow == [state: {"none", "pending", "denied", "approved"}, consumed: BOOLEAN,
            issued: Tokens \cup {NoToken}, expired: BOOLEAN, codeExpired: BOOLEAN,
            old: BOOLEAN, deleted: BOOLEAN]

NoCode == [state |-> "none", consumed |-> FALSE, issued |-> NoToken, expired |-> FALSE,
           codeExpired |-> FALSE, old |-> FALSE, deleted |-> FALSE]

\* lapsed: refreshTokenExpiresAt is past; recent: rotated within the grace time.
TokenRow == [kind: {"none", "personal", "oauth"}, request: Requests \cup {NoRequest},
             secret: 0..MaxSecrets, previous: 0..MaxSecrets, recent: BOOLEAN,
             lapsed: BOOLEAN, revoked: BOOLEAN]

NoRow == [kind |-> "none", request |-> NoRequest, secret |-> 0, previous |-> 0,
          recent |-> FALSE, lapsed |-> FALSE, revoked |-> FALSE]

CallPC == {"idle", "prune", "limit", "claim", "deny", "consume", "count", "insert",
           "record", "replayed", "rotate", "reused", "end", "insertPersonal"}

CallState == [pc: CallPC, request: Requests \cup {NoRequest},
              token: Tokens \cup {NoToken}, secret: 0..MaxSecrets]

Idle == [pc |-> "idle", request |-> NoRequest, token |-> NoToken, secret |-> 0]

Init ==
    /\ code = [r \in Requests |-> NoCode]
    /\ token = [t \in Tokens |-> NoRow]
    /\ call = [c \in Calls |-> Idle]
    /\ secrets = 0
    /\ exchanges = [s \in 1..MaxSecrets |-> 0]
    /\ faults = 0

(***************************************************************************)
(* Rows and calls                                                          *)
(***************************************************************************)

Exists(r) == code[r].state # "none" /\ ~code[r].deleted

Pending(r) == Exists(r) /\ code[r].state = "pending"

\* liveTokenConditions
Live == {t \in Tokens : /\ token[t].kind # "none"
                        /\ ~token[t].revoked
                        /\ token[t].kind = "oauth" => ~token[t].lapsed}

BelowTokenLimit == Cardinality(Live) < MaxTokens

At(c, pc) == call[c].pc = pc

\* The call goes on at pc, or ends.
Goto(c, pc) == call' = [call EXCEPT ![c].pc = pc]

Return(c) == call' = [call EXCEPT ![c] = Idle]

Start(c, pc, r, t, s) ==
    /\ At(c, "idle")
    /\ call' = [call EXCEPT ![c] = [pc |-> pc, request |-> r, token |-> t, secret |-> s]]

(***************************************************************************)
(* beginAuthorization, decide                                              *)
(***************************************************************************)

BeginAuthorization(c, r) ==
    /\ code[r].state = "none"
    /\ Start(c, "prune", NoRequest, NoToken, 0)
    /\ code' = [code EXCEPT ![r].state = "pending"]
    /\ UNCHANGED <<token, secrets, exchanges, faults>>

PruneStaleRequests(c) ==
    /\ At(c, "prune")
    /\ code' = [r \in Requests |-> IF code[r].old THEN [code[r] EXCEPT !.deleted = TRUE]
                                   ELSE code[r]]
    /\ Return(c)
    /\ UNCHANGED <<token, secrets, exchanges, faults>>

\* findPendingRequest
Decide(c, r, approve) ==
    /\ Pending(r) /\ ~code[r].expired
    /\ Start(c, IF approve THEN "limit" ELSE "deny", r, NoToken, 0)
    /\ UNCHANGED <<code, token, secrets, exchanges, faults>>

AssertBelowTokenLimit(c) ==
    /\ At(c, "limit")
    /\ IF BelowTokenLimit THEN Goto(c, "claim") ELSE Return(c)
    /\ UNCHANGED <<code, token, secrets, exchanges, faults>>

\* Mutant: a deny does not look whether the request was answered meanwhile.
DenyAny(c) ==
    /\ At(c, "deny")
    /\ LET r == call[c].request
       IN  code' = [code EXCEPT ![r].state = "denied", ![r].consumed = TRUE]
    /\ Return(c)
    /\ UNCHANGED <<token, secrets, exchanges, faults>>

\* claimRequest: first answer wins.
Deny(c) ==
    /\ At(c, "deny")
    /\ LET r == call[c].request
       IN  code' = IF Pending(r)
                   THEN [code EXCEPT ![r].state = "denied", ![r].consumed = TRUE]
                   ELSE code
    /\ Return(c)
    /\ UNCHANGED <<token, secrets, exchanges, faults>>

Approve(c) ==
    /\ At(c, "claim")
    /\ LET r == call[c].request
       IN  code' = IF Pending(r) THEN [code EXCEPT ![r].state = "approved"] ELSE code
    /\ Return(c)
    /\ UNCHANGED <<token, secrets, exchanges, faults>>

(***************************************************************************)
(* redeemCode                                                              *)
(***************************************************************************)

\* A code seen consumed ends the connection it produced, if that is recorded.
Redeem(c, r) ==
    /\ Exists(r) /\ code[r].state = "approved"
    /\ \/ /\ code[r].consumed /\ code[r].issued # NoToken
          /\ Start(c, "replayed", r, code[r].issued, 0)
       \/ /\ ~code[r].consumed /\ ~code[r].codeExpired
          /\ Start(c, "consume", r, NoToken, 0)
    /\ UNCHANGED <<code, token, secrets, exchanges, faults>>

\* Mutant: the code is consumed without the condition on consumedAt.
ConsumeAny(c) ==
    /\ At(c, "consume")
    /\ code' = [code EXCEPT ![call[c].request].consumed = TRUE]
    /\ Goto(c, "count")
    /\ UNCHANGED <<token, secrets, exchanges, faults>>

Consume(c) ==
    /\ At(c, "consume")
    /\ LET r == call[c].request
       IN  IF Exists(r) /\ ~code[r].consumed
           THEN code' = [code EXCEPT ![r].consumed = TRUE] /\ Goto(c, "count")
           ELSE Return(c) /\ UNCHANGED code
    /\ UNCHANGED <<token, secrets, exchanges, faults>>

\* Mutant: the grant is issued without looking at the limit again.
IssueUncounted(c) ==
    /\ At(c, "count")
    /\ Goto(c, "insert")
    /\ UNCHANGED <<code, token, secrets, exchanges, faults>>

\* issue: the limit is checked again; when it is reached the code is spent.
IssueCounts(c) ==
    /\ At(c, "count")
    /\ IF BelowTokenLimit THEN Goto(c, "insert") ELSE Return(c)
    /\ UNCHANGED <<code, token, secrets, exchanges, faults>>

IssueInserts(c, t) ==
    /\ At(c, "insert")
    /\ token[t].kind = "none"
    /\ secrets < MaxSecrets
    /\ secrets' = secrets + 1
    /\ token' = [token EXCEPT ![t] = [NoRow EXCEPT !.kind = "oauth", !.secret = secrets',
                                                   !.request = call[c].request]]
    /\ call' = [call EXCEPT ![c].pc = "record", ![c].token = t]
    /\ UNCHANGED <<code, exchanges, faults>>

\* Mutant: the request's own id is recorded instead of the connection's.
RecordRequest(c) ==
    /\ At(c, "record")
    /\ code' = [code EXCEPT ![call[c].request].issued = call[c].request]
    /\ Return(c)
    /\ UNCHANGED <<token, secrets, exchanges, faults>>

RecordIssued(c) ==
    /\ At(c, "record")
    /\ code' = IF Exists(call[c].request)
               THEN [code EXCEPT ![call[c].request].issued = call[c].token]
               ELSE code
    /\ Return(c)
    /\ UNCHANGED <<token, secrets, exchanges, faults>>

(***************************************************************************)
(* refresh                                                                 *)
(***************************************************************************)

HasSecret(t, s) == token[t].kind = "oauth" /\ token[t].secret = s /\ ~token[t].revoked

Refresh(c, s) ==
    /\ s \in 1..secrets
    /\ \/ \E t \in Tokens : /\ HasSecret(t, s) /\ ~token[t].lapsed
                            /\ Start(c, "rotate", NoRequest, t, s)
       \/ /\ \A t \in Tokens : ~(HasSecret(t, s) /\ ~token[t].lapsed)
          /\ Start(c, "reused", NoRequest, NoToken, s)
    /\ UNCHANGED <<code, token, secrets, exchanges, faults>>

Rotated(row, s) == [row EXCEPT !.secret = secrets + 1, !.previous = s, !.recent = TRUE,
                               !.lapsed = FALSE]

\* Mutant: the UPDATE looks at revokedAt and not at the old hash.
RotateAnyHash(c) ==
    /\ At(c, "rotate")
    /\ secrets < MaxSecrets
    /\ IF ~token[call[c].token].revoked
       THEN /\ token' = [token EXCEPT ![call[c].token] = Rotated(@, call[c].secret)]
            /\ secrets' = secrets + 1
            /\ exchanges' = [exchanges EXCEPT ![call[c].secret] = @ + 1]
            /\ Return(c)
       ELSE Goto(c, "reused") /\ UNCHANGED <<token, secrets, exchanges>>
    /\ UNCHANGED <<code, faults>>

\* Mutant: the UPDATE looks at the old hash and not at revokedAt.
RotateRevoked(c) ==
    /\ At(c, "rotate")
    /\ secrets < MaxSecrets
    /\ IF token[call[c].token].secret = call[c].secret
       THEN /\ token' = [token EXCEPT ![call[c].token] = Rotated(@, call[c].secret)]
            /\ secrets' = secrets + 1
            /\ exchanges' = [exchanges EXCEPT ![call[c].secret] = @ + 1]
            /\ Return(c)
       ELSE Goto(c, "reused") /\ UNCHANGED <<token, secrets, exchanges>>
    /\ UNCHANGED <<code, faults>>

\* Conditional on the old hash: one of two concurrent refreshes wins.  The
\* expiry was looked at when the row was read and is not looked at again.
Rotate(c) ==
    /\ At(c, "rotate")
    /\ secrets < MaxSecrets
    /\ IF HasSecret(call[c].token, call[c].secret)
       THEN /\ token' = [token EXCEPT ![call[c].token] = Rotated(@, call[c].secret)]
            /\ secrets' = secrets + 1
            /\ exchanges' = [exchanges EXCEPT ![call[c].secret] = @ + 1]
            /\ Return(c)
       ELSE Goto(c, "reused") /\ UNCHANGED <<token, secrets, exchanges>>
    /\ UNCHANGED <<code, faults>>

\* revokeIfRefreshTokenReused: a repeat within the grace time is a retry.
CheckReused(c) ==
    /\ At(c, "reused")
    /\ LET reused == {t \in Tokens : /\ token[t].kind = "oauth" /\ ~token[t].revoked
                                     /\ token[t].previous = call[c].secret
                                     /\ ~token[t].recent}
       IN  \/ \E t \in reused : call' = [call EXCEPT ![c].pc = "end", ![c].token = t]
           \/ reused = {} /\ Return(c)
    /\ UNCHANGED <<code, token, secrets, exchanges, faults>>

Revoked(t) == [token EXCEPT ![t].revoked = TRUE]

\* revokeById, for a replayed code and for a reused refresh token
RevokeById(c) ==
    /\ call[c].pc \in {"replayed", "end"}
    /\ token' = Revoked(call[c].token)
    /\ Return(c)
    /\ UNCHANGED <<code, secrets, exchanges, faults>>

(***************************************************************************)
(* Revocation and personal tokens                                          *)
(***************************************************************************)

\* The client, by secret, or the user in Settings: one conditional UPDATE.
Revoke(t) ==
    /\ token[t].kind # "none" /\ ~token[t].revoked
    /\ token' = Revoked(t)
    /\ UNCHANGED <<code, call, secrets, exchanges, faults>>

CreatePersonal(c) ==
    /\ BelowTokenLimit
    /\ Start(c, "insertPersonal", NoRequest, NoToken, 0)
    /\ UNCHANGED <<code, token, secrets, exchanges, faults>>

InsertPersonal(c, t) ==
    /\ At(c, "insertPersonal")
    /\ token[t].kind = "none"
    /\ token' = [token EXCEPT ![t] = [NoRow EXCEPT !.kind = "personal"]]
    /\ Return(c)
    /\ UNCHANGED <<code, secrets, exchanges, faults>>

(***************************************************************************)
(* Time and failures                                                       *)
(***************************************************************************)

RequestExpires(r) ==
    /\ code[r].state # "none" /\ ~code[r].expired
    /\ code' = [code EXCEPT ![r].expired = TRUE]
    /\ UNCHANGED <<token, call, secrets, exchanges, faults>>

CodeExpires(r) ==
    /\ code[r].state = "approved" /\ ~code[r].codeExpired
    /\ code' = [code EXCEPT ![r].codeExpired = TRUE]
    /\ UNCHANGED <<token, call, secrets, exchanges, faults>>

\* A day has passed since the request began.
RequestAges(r) ==
    /\ code[r].expired /\ ~code[r].old
    /\ code[r].state = "approved" => code[r].codeExpired
    /\ code' = [code EXCEPT ![r].old = TRUE]
    /\ UNCHANGED <<token, call, secrets, exchanges, faults>>

Lapse(t) ==
    /\ token[t].kind = "oauth" /\ ~token[t].lapsed
    /\ token' = [token EXCEPT ![t].lapsed = TRUE]
    /\ UNCHANGED <<code, call, secrets, exchanges, faults>>

GraceEnds(t) ==
    /\ token[t].recent
    /\ token' = [token EXCEPT ![t].recent = FALSE]
    /\ UNCHANGED <<code, call, secrets, exchanges, faults>>

\* A statement fails or the process stops.
CallDies(c) ==
    /\ ~At(c, "idle")
    /\ faults < MaxFaults
    /\ faults' = faults + 1
    /\ Return(c)
    /\ UNCHANGED <<code, token, secrets, exchanges>>

(***************************************************************************)
(* The specification                                                       *)
(***************************************************************************)

Answering(c) == PruneStaleRequests(c) \/ AssertBelowTokenLimit(c) \/ Deny(c) \/ Approve(c)

Redeeming(c) == \/ Consume(c) \/ IssueCounts(c) \/ RecordIssued(c)
                \/ \E t \in Tokens : IssueInserts(c, t)

Refreshing(c) == Rotate(c) \/ CheckReused(c) \/ RevokeById(c)

Starting(c) ==
    \/ \E r \in Requests : \/ BeginAuthorization(c, r) \/ Redeem(c, r)
                           \/ \E approve \in BOOLEAN : Decide(c, r, approve)
    \/ \E s \in 1..MaxSecrets : Refresh(c, s)
    \/ CreatePersonal(c)

CallSteps(c) ==
    \/ Starting(c) \/ Answering(c) \/ Redeeming(c) \/ Refreshing(c)
    \/ \E t \in Tokens : InsertPersonal(c, t)
    \/ CallDies(c)

TimeSteps ==
    \/ \E r \in Requests : RequestExpires(r) \/ CodeExpires(r) \/ RequestAges(r)
    \/ \E t \in Tokens : Lapse(t) \/ GraceEnds(t)

Next ==
    \/ \E c \in Calls : CallSteps(c)
    \/ \E t \in Tokens : Revoke(t)
    \/ TimeSteps

Spec == Init /\ [][Next]_vars

(***************************************************************************)
(* Properties                                                              *)
(***************************************************************************)

TypeOK ==
    /\ code \in [Requests -> CodeRow]
    /\ token \in [Tokens -> TokenRow]
    /\ call \in [Calls -> CallState]
    /\ secrets \in 0..MaxSecrets
    /\ exchanges \in [1..MaxSecrets -> Nat]
    /\ faults \in 0..MaxFaults

\* Whatever tabs answer and however often a code is redeemed at once, an
\* authorization request produces at most one connection, ...
OneGrantPerRequest ==
    \A t, u \in Tokens :
        token[t].kind = "oauth" /\ token[u].kind = "oauth"
            /\ token[t].request = token[u].request => t = u

\* ... and only when the answer that won was an approval.
GrantsAreApproved ==
    \A t \in Tokens : token[t].kind = "oauth" => code[token[t].request].state = "approved"

\* Every refresh token is exchanged at most once, concurrent refreshes,
\* retries and lapses included.
ExchangedOnce == \A s \in 1..MaxSecrets : exchanges[s] <= 1

\* A revoked connection hands out nothing more: a refresh that had read it
\* live before the revocation neither rotates nor revives it.
RevokedForGood ==
    [][\A t \in Tokens : token[t].revoked =>
          token'[t].revoked /\ token'[t].secret = token[t].secret]_vars

\* The limit is counted before the insert, so concurrent calls may pass it,
\* but by no more than the calls in progress besides the first.
LimitOvershoot == Cardinality(Live) + 1 <= MaxTokens + Cardinality(Calls)

\* However its statements interleave and wherever a call dies, the endpoint
\* keeps the promises of McpGrants: an answer is final, an approval becomes
\* one connection at most (not two, and none after a denial), a refresh token
\* is exchanged once, and what was revoked stays so.
HasConnection(r) == \E t \in Tokens : token[t].kind = "oauth" /\ token[t].request = r

AnswerOf(r) == IF code[r].state = "approved" /\ HasConnection(r) THEN "granted" ELSE code[r].state

ConnectionOf(row) == [kind |-> row.kind, request |-> row.request, key |-> row.secret]

Grants == INSTANCE McpGrants WITH
    answer <- [r \in Requests |-> AnswerOf(r)],
    connection <- [t \in Tokens |-> ConnectionOf(token[t])],
    ended <- {t \in Tokens : token[t].revoked},
    minted <- secrets,
    spent <- {s \in 1..MaxSecrets : exchanges[s] > 0}

RefinesGrants == Grants!GrantsSpec

=============================================================================
