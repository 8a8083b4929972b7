--------------------------- MODULE McpOAuthProofs ---------------------------
(***************************************************************************)
(* Proofs about McpOAuth, for any number of requests, rows, concurrent     *)
(* calls, secrets and failures, and any token limit.                       *)
(*                                                                         *)
(* OneGrantPerRequest is not inductive: the call that consumed a code has  *)
(* no row to show for it until it inserts one (GrantInv).  ExchangedOnce   *)
(* needs the current secrets to be pairwise different and none of them     *)
(* exchanged yet (SecretInv).  LimitOvershoot needs what the calls on      *)
(* their way may still add: each inserts one row at most, or brings one    *)
(* lapsed connection back (RoomInv).  With the same invariants each        *)
(* statement is a step of McpGrants or none.                               *)
(***************************************************************************)
EXTENDS McpOAuth, FiniteSetTheorems, TLAPS

OAuth(t) == token[t].kind = "oauth"

\* The call has consumed a code and not inserted the connection yet.
Issuing(c) == call[c].pc \in {"count", "insert"}

\* What a call carries when it is past a given statement.
CallInv ==
    \A c \in Calls :
        /\ call[c].pc \in {"limit", "claim", "deny", "consume", "count", "insert", "record"}
              => call[c].request \in Requests
        /\ call[c].pc \in {"consume", "count", "insert", "record"}
              => code[call[c].request].state = "approved"
        /\ call[c].pc \in {"record", "replayed", "rotate", "end"}
              => call[c].token \in Tokens /\ OAuth(call[c].token)
        /\ call[c].pc = "rotate" => call[c].secret \in 1..MaxSecrets

\* A connection's request was approved and its code consumed; a call that is
\* about to insert one is alone with its request.
GrantInv ==
    /\ \A t \in Tokens : OAuth(t) =>
          /\ token[t].request \in Requests
          /\ code[token[t].request].state = "approved"
          /\ code[token[t].request].consumed
    /\ OneGrantPerRequest
    /\ \A c \in Calls : Issuing(c) =>
          /\ code[call[c].request].consumed
          /\ \A t \in Tokens : OAuth(t) => token[t].request # call[c].request
    /\ \A c, d \in Calls :
          Issuing(c) /\ Issuing(d) /\ call[c].request = call[d].request => c = d

\* Rows that were revoked or recorded exist.
RowInv ==
    /\ \A t \in Tokens : token[t].revoked => token[t].kind # "none"
    /\ \A r \in Requests : code[r].issued # NoToken => OAuth(code[r].issued)

\* The current secrets differ and were never exchanged.
SecretInv ==
    /\ \A t \in Tokens : OAuth(t) =>
          token[t].secret \in 1..secrets /\ exchanges[token[t].secret] = 0
    /\ \A t, u \in Tokens : OAuth(t) /\ OAuth(u) /\ token[t].secret = token[u].secret => t = u
    /\ \A s \in 1..MaxSecrets : s > secrets => exchanges[s] = 0
    /\ ExchangedOnce

IInv == TypeOK /\ CallInv /\ GrantInv /\ RowInv /\ SecretInv

(***************************************************************************)
(* What the helpers do                                                     *)
(***************************************************************************)

\* The initial state satisfies the invariant.
LEMMA InitInv == ASSUME Init PROVE IInv
  BY McpOAuthAssumption
  DEF Init, IInv, TypeOK, CallInv, GrantInv, RowInv, SecretInv, OneGrantPerRequest,
      ExchangedOnce, OAuth, Issuing, CodeRow, NoCode, TokenRow, NoRow, CallState, CallPC, Idle

\* Every record the actions write is a row of its table.
LEMMA CodeRows ==
  ASSUME NEW row \in CodeRow
  PROVE  /\ \A s \in {"pending", "denied", "approved"} : [row EXCEPT !.state = s] \in CodeRow
         /\ [row EXCEPT !.state = "denied", !.consumed = TRUE] \in CodeRow
         /\ [row EXCEPT !.consumed = TRUE] \in CodeRow
         /\ [row EXCEPT !.deleted = TRUE] \in CodeRow
  BY DEF CodeRow

LEMMA TokenRows ==
  ASSUME NEW row \in TokenRow
  PROVE  /\ [row EXCEPT !.lapsed = TRUE] \in TokenRow
         /\ [row EXCEPT !.recent = FALSE] \in TokenRow
  BY DEF TokenRow

\* A step of call c that leaves the tables alone and brings c to a place that
\* carries what it must keeps the invariant.
LEMMA CallMoves ==
  ASSUME IInv, NEW c \in Calls, NEW new \in CallState,
         call' = [call EXCEPT ![c] = new],
         UNCHANGED <<code, token, secrets, exchanges>>, faults' \in 0..MaxFaults,
         new.pc \in {"limit", "claim", "deny", "consume"} => new.request \in Requests,
         new.pc = "consume" => code[new.request].state = "approved",
         new.pc \in {"replayed", "rotate", "end"} => new.token \in Tokens /\ OAuth(new.token),
         new.pc = "rotate" => new.secret \in 1..MaxSecrets,
         new.pc # "record",
         new.pc \in {"count", "insert"} => Issuing(c) /\ new.request = call[c].request
  PROVE  IInv'
<1>1. TypeOK'
  BY DEF IInv, TypeOK
<1>2. /\ call'[c] = new
      /\ \A d \in Calls \ {c} : call'[d] = call[d]
      /\ code' = code /\ token' = token /\ secrets' = secrets /\ exchanges' = exchanges
  BY DEF IInv, TypeOK
<1>3. CallInv'
  BY <1>2 DEF IInv, CallInv, OAuth, Issuing
<1>4. GrantInv'
  BY <1>2 DEF IInv, GrantInv, OneGrantPerRequest, OAuth, Issuing
<1>5. RowInv' /\ SecretInv'
  BY <1>2 DEF IInv, RowInv, SecretInv, ExchangedOnce, OAuth
<1> QED BY <1>1, <1>3, <1>4, <1>5 DEF IInv

\* A call that ends touches nothing else.
LEMMA ReturnInv ==
  ASSUME IInv, NEW c \in Calls, Return(c),
         UNCHANGED <<code, token, secrets, exchanges>>, faults' \in 0..MaxFaults
  PROVE  IInv'
<1>1. Idle \in CallState /\ Idle.pc = "idle"
  BY McpOAuthAssumption DEF Idle, CallState, CallPC
<1> QED BY <1>1, CallMoves DEF Return

\* A call that starts at a place that consumes nothing.
LEMMA StartInv ==
  ASSUME IInv, NEW c \in Calls, NEW pc \in CallPC, NEW r \in Requests \cup {NoRequest},
         NEW t \in Tokens \cup {NoToken}, NEW s \in 0..MaxSecrets,
         Start(c, pc, r, t, s), UNCHANGED <<code, token, secrets, exchanges, faults>>,
         pc \notin {"count", "insert", "record"},
         pc \in {"limit", "claim", "deny", "consume"} => r \in Requests,
         pc = "consume" => code[r].state = "approved",
         pc \in {"replayed", "rotate", "end"} => t \in Tokens /\ OAuth(t),
         pc = "rotate" => s \in 1..MaxSecrets
  PROVE  IInv'
<1> DEFINE new == [pc |-> pc, request |-> r, token |-> t, secret |-> s]
<1>1. new \in CallState /\ call' = [call EXCEPT ![c] = new]
  BY DEF CallState, Start
<1>2. faults' \in 0..MaxFaults
  BY DEF IInv, TypeOK
<1>3. new.pc = pc /\ new.request = r /\ new.token = t /\ new.secret = s
  OBVIOUS
<1> HIDE DEF new
<1> QED BY <1>1, <1>2, <1>3, CallMoves

\* A step that touches only the codes and call c, which ends or goes on with
\* its request, keeps what is not about the codes.
LEMMA CodesMove ==
  ASSUME IInv, code' \in [Requests -> CodeRow],
         UNCHANGED <<token, secrets, exchanges>>, faults' = faults,
         call' \in [Calls -> CallState],
         \A c \in Calls : call'[c].pc \in {"idle", "prune"} \/ call'[c] = call[c],
         \A r \in Requests :
            /\ code[r].state = "approved" => code'[r].state = "approved"
            /\ code[r].consumed => code'[r].consumed
            /\ code'[r].issued = code[r].issued
  PROVE  IInv'
<1>1. TypeOK'
  BY DEF IInv, TypeOK
<1>2. CallInv'
  BY DEF IInv, CallInv, OAuth
<1>3. \A c \in Calls : Issuing(c)' => call'[c] = call[c] /\ Issuing(c) /\ call[c].request \in Requests
  BY DEF IInv, CallInv, Issuing
<1>4. GrantInv'
  BY <1>3 DEF IInv, GrantInv, OneGrantPerRequest, OAuth
<1>5. RowInv' /\ SecretInv'
  BY DEF IInv, RowInv, SecretInv, ExchangedOnce, OAuth
<1> QED BY <1>1, <1>2, <1>4, <1>5 DEF IInv

\* What is left of a call that ends.
LEMMA ReturnEffect ==
  ASSUME TypeOK, NEW c \in Calls, Return(c)
  PROVE  /\ call' \in [Calls -> CallState]
         /\ call'[c].pc = "idle"
         /\ \A d \in Calls \ {c} : call'[d] = call[d]
<1>1. Idle \in CallState /\ Idle.pc = "idle"
  BY McpOAuthAssumption DEF Idle, CallState, CallPC
<1> QED BY <1>1 DEF Return, TypeOK

\* No row changes its kind, its request or its refresh token.
RowsKeepSecrets ==
    \A t \in Tokens :
        /\ token'[t].kind = token[t].kind
        /\ token'[t].request = token[t].request
        /\ token'[t].secret = token[t].secret
        /\ token[t].kind = "none" => token'[t].revoked = token[t].revoked

\* Rows that keep what they were issued for and their secret keep the
\* invariant, whether or not a call ends.
LEMMA RowsMove ==
  ASSUME IInv, token' \in [Tokens -> TokenRow],
         UNCHANGED <<code, secrets, exchanges, faults>>,
         call' \in [Calls -> CallState],
         \A c \in Calls : call'[c].pc = "idle" \/ call'[c] = call[c],
         RowsKeepSecrets
  PROVE  IInv'
<1>1. TypeOK'
  BY DEF IInv, TypeOK
<1>2. \A t \in Tokens : OAuth(t)' = OAuth(t)  BY DEF OAuth, RowsKeepSecrets
<1>3. CallInv'  BY <1>2 DEF IInv, CallInv
<1>4. \A c \in Calls : Issuing(c)' => Issuing(c) /\ call'[c] = call[c]
  BY DEF Issuing
<1>5. GrantInv'  BY <1>2, <1>4 DEF IInv, GrantInv, OneGrantPerRequest, OAuth, RowsKeepSecrets
<1>6. RowInv'
  <2>1. \A r \in Requests : code[r].issued # NoToken => code[r].issued \in Tokens /\ OAuth(code[r].issued)
    BY DEF IInv, TypeOK, CodeRow, RowInv
  <2> QED BY <1>2, <2>1 DEF IInv, RowInv, RowsKeepSecrets
<1>7. SecretInv'  BY <1>2 DEF IInv, SecretInv, ExchangedOnce, OAuth, RowsKeepSecrets
<1> QED BY <1>1, <1>3, <1>5, <1>6, <1>7 DEF IInv

(***************************************************************************)
(* The invariant                                                           *)
(***************************************************************************)

\* A call that goes on: its record differs in its place alone.
LEMMA GotoInv ==
  ASSUME IInv, NEW c \in Calls, NEW pc \in {"claim", "insert", "reused"}, Goto(c, pc),
         UNCHANGED <<code, token, secrets, exchanges, faults>>,
         pc = "claim" => At(c, "limit"), pc = "insert" => At(c, "count")
  PROVE  IInv'
<1> DEFINE new == [call[c] EXCEPT !.pc = pc]
<1>1. new \in CallState /\ call' = [call EXCEPT ![c] = new] /\ faults' \in 0..MaxFaults
  BY DEF IInv, TypeOK, CallState, CallPC, Goto
<1>2. new.pc = pc /\ new.request = call[c].request
  BY DEF IInv, TypeOK, CallState
<1>3. /\ new.pc = "claim" => new.request \in Requests
      /\ new.pc = "insert" => Issuing(c)
  BY <1>2 DEF IInv, CallInv, At, Issuing
<1> HIDE DEF new
<1> QED BY <1>1, <1>2, <1>3, CallMoves

\* Beginning a request, pruning, answering and redeeming up to the code.
LEMMA AnswerInv ==
  ASSUME IInv, NEW c \in Calls,
         \/ \E r \in Requests : \/ BeginAuthorization(c, r) \/ Redeem(c, r)
                                \/ \E approve \in BOOLEAN : Decide(c, r, approve)
         \/ Answering(c)
  PROVE  IInv'
<1> USE McpOAuthAssumption
<1>1. CASE \E r \in Requests : BeginAuthorization(c, r)
  <2>1. PICK r \in Requests : BeginAuthorization(c, r)  BY <1>1
  <2>2. code' \in [Requests -> CodeRow]
    BY <2>1, CodeRows DEF BeginAuthorization, IInv, TypeOK
  <2>3. call' \in [Calls -> CallState]
    BY <2>1 DEF BeginAuthorization, Start, IInv, TypeOK, CallState, CallPC
  <2>4. \A d \in Calls : call'[d].pc \in {"idle", "prune"} \/ call'[d] = call[d]
    BY <2>1 DEF BeginAuthorization, Start, IInv, TypeOK
  <2>5. \A q \in Requests : /\ code[q].state = "approved" => code'[q].state = "approved"
                            /\ code[q].consumed => code'[q].consumed
                            /\ code'[q].issued = code[q].issued
    BY <2>1 DEF BeginAuthorization, IInv, TypeOK, CodeRow
  <2> QED BY <2>1, <2>2, <2>3, <2>4, <2>5, CodesMove DEF BeginAuthorization
<1>2. CASE \E r \in Requests : Redeem(c, r)
  <2>1. PICK r \in Requests : Redeem(c, r)  BY <1>2
  <2>2. CASE Start(c, "replayed", r, code[r].issued, 0) /\ code[r].issued # NoToken
    <3>1. code[r].issued \in Tokens /\ OAuth(code[r].issued)
      BY <2>2 DEF IInv, TypeOK, CodeRow, RowInv
    <3>2. "replayed" \in CallPC /\ 0 \in 0..MaxSecrets  BY DEF CallPC
    <3> QED BY <2>1, <2>2, <3>1, <3>2, StartInv DEF Redeem
  <2>3. CASE Start(c, "consume", r, NoToken, 0)
    <3>1. "consume" \in CallPC /\ 0 \in 0..MaxSecrets  BY DEF CallPC
    <3> QED BY <2>1, <2>3, <3>1, StartInv DEF Redeem
  <2> QED BY <2>1, <2>2, <2>3 DEF Redeem
<1>3. CASE \E r \in Requests, approve \in BOOLEAN : Decide(c, r, approve)
  <2>1. PICK r \in Requests, pc \in {"limit", "deny"} :
           /\ Start(c, pc, r, NoToken, 0)
           /\ UNCHANGED <<code, token, secrets, exchanges, faults>>
    BY <1>3 DEF Decide
  <2>2. pc \in CallPC /\ 0 \in 0..MaxSecrets  BY DEF CallPC
  <2> QED BY <2>1, <2>2, StartInv
<1>4. CASE PruneStaleRequests(c)
  <2>1. code' \in [Requests -> CodeRow]
    BY <1>4, CodeRows DEF PruneStaleRequests, IInv, TypeOK
  <2>2. call' \in [Calls -> CallState]
    BY <1>4 DEF PruneStaleRequests, Return, Idle, IInv, TypeOK, CallState, CallPC
  <2>3. \A d \in Calls : call'[d].pc \in {"idle", "prune"} \/ call'[d] = call[d]
    BY <1>4 DEF PruneStaleRequests, Return, Idle, IInv, TypeOK
  <2>4. \A q \in Requests : /\ code[q].state = "approved" => code'[q].state = "approved"
                            /\ code[q].consumed => code'[q].consumed
                            /\ code'[q].issued = code[q].issued
    BY <1>4 DEF PruneStaleRequests, IInv, TypeOK, CodeRow
  <2> QED BY <1>4, <2>1, <2>2, <2>3, <2>4, CodesMove DEF PruneStaleRequests
<1>5. CASE AssertBelowTokenLimit(c)
  <2>1. faults' \in 0..MaxFaults  BY <1>5 DEF AssertBelowTokenLimit, IInv, TypeOK
  <2> QED BY <1>5, <2>1, GotoInv, ReturnInv DEF AssertBelowTokenLimit
<1>6. CASE Deny(c) \/ Approve(c)
  <2>1. PICK r \in Requests : r = call[c].request
    BY <1>6 DEF Deny, Approve, At, IInv, CallInv
  <2> DEFINE denied == [code[r] EXCEPT !.state = "denied", !.consumed = TRUE]
             approved == [code[r] EXCEPT !.state = "approved"]
  <2>2. code \in [Requests -> CodeRow] /\ code[r] \in CodeRow
    BY DEF IInv, TypeOK
  <2>3. /\ denied \in CodeRow /\ denied.issued = code[r].issued /\ denied.consumed
        /\ approved \in CodeRow /\ approved.issued = code[r].issued
        /\ approved.state = "approved" /\ approved.consumed = code[r].consumed
    BY <2>2 DEF CodeRow
  <2>4. \/ code' = code
        \/ code[r].state = "pending" /\ code' = [code EXCEPT ![r] = denied]
        \/ code[r].state = "pending" /\ code' = [code EXCEPT ![r] = approved]
    BY <1>6, <2>1, <2>2 DEF Deny, Approve, Pending
  <2> HIDE DEF denied, approved
  <2>5. code' \in [Requests -> CodeRow]
    BY <2>2, <2>3, <2>4, <2>5
  <2>6. Return(c)  BY <1>6 DEF Deny, Approve
  <2>7. call' \in [Calls -> CallState]
    BY <2>6 DEF Return, Idle, IInv, TypeOK, CallState, CallPC
  <2>8. \A d \in Calls : call'[d].pc \in {"idle", "prune"} \/ call'[d] = call[d]
    BY <2>6 DEF Return, Idle, IInv, TypeOK
  <2>9. \A q \in Requests : /\ code[q].state = "approved" => code'[q].state = "approved"
                            /\ code[q].consumed => code'[q].consumed
                            /\ code'[q].issued = code[q].issued
    <3>1. CASE code' = code
      BY <3>1
    <3>2. CASE code[r].state = "pending" /\ code' = [code EXCEPT ![r] = denied]
      BY <2>2, <2>3, <3>2
    <3>3. CASE code[r].state = "pending" /\ code' = [code EXCEPT ![r] = approved]
      BY <2>2, <2>3, <3>3
    <3> QED BY <2>4, <3>1, <3>2, <3>3
  <2>10. UNCHANGED <<token, secrets, exchanges, faults>>
    BY <1>6 DEF Deny, Approve
  <2> QED BY <2>5, <2>7, <2>8, <2>9, <2>10, CodesMove
<1> QED BY <1>1, <1>2, <1>3, <1>4, <1>5, <1>6 DEF Answering

\* The code is consumed by one call.
LEMMA ConsumeInv == ASSUME IInv, NEW c \in Calls, Consume(c) PROVE IInv'
<1>1. PICK r \in Requests : r = call[c].request /\ code[r].state = "approved"
  BY DEF Consume, At, IInv, CallInv
<1>2. CASE ~(Exists(r) /\ ~code[r].consumed)
  <2>1. faults' \in 0..MaxFaults  BY DEF Consume, IInv, TypeOK
  <2> QED BY <1>1, <1>2, <2>1, ReturnInv DEF Consume
<1>3. CASE Exists(r) /\ ~code[r].consumed
  <2>1. /\ code' = [code EXCEPT ![r].consumed = TRUE]
        /\ call' = [call EXCEPT ![c].pc = "count"]
        /\ UNCHANGED <<token, secrets, exchanges, faults>>
    BY <1>1, <1>3 DEF Consume, Goto
  <2>2. /\ call'[c].pc = "count" /\ call'[c].request = r
        /\ \A d \in Calls \ {c} : call'[d] = call[d]
        /\ code'[r].consumed
        /\ \A q \in Requests : /\ code'[q].state = code[q].state
                                /\ code'[q].issued = code[q].issued
                                /\ code[q].consumed => code'[q].consumed
    BY <1>1, <2>1 DEF IInv, TypeOK, CallState, CodeRow
  <2>3. TypeOK'
    <3>1. code' \in [Requests -> CodeRow]
      BY <1>1, <2>1, CodeRows DEF IInv, TypeOK
    <3>2. [call[c] EXCEPT !.pc = "count"] \in CallState
      BY DEF IInv, TypeOK, CallState, CallPC
    <3>3. call' \in [Calls -> CallState]
      BY <2>1, <3>2 DEF IInv, TypeOK
    <3> QED BY <2>1, <3>1, <3>3 DEF IInv, TypeOK
  <2>4. CallInv'
    BY <1>1, <2>1, <2>2 DEF IInv, CallInv, OAuth
  <2>5. \A t \in Tokens : OAuth(t) => token[t].request # r
    BY <1>3 DEF IInv, GrantInv
  <2>6. \A d \in Calls : Issuing(d) => call[d].request # r /\ call[d].request \in Requests
    BY <1>3 DEF IInv, GrantInv, CallInv, Issuing
  <2>7. \A d \in Calls \ {c} : Issuing(d)' => Issuing(d)
    BY <2>2 DEF Issuing
  <2>8. GrantInv'
    BY <2>1, <2>2, <2>5, <2>6, <2>7 DEF IInv, GrantInv, OneGrantPerRequest, OAuth
  <2>9. RowInv' /\ SecretInv'
    BY <2>1, <2>2 DEF IInv, RowInv, SecretInv, ExchangedOnce, OAuth
  <2> QED BY <2>3, <2>4, <2>8, <2>9 DEF IInv
<1> QED BY <1>2, <1>3

\* The connection is inserted with a secret of its own.
LEMMA IssueInv ==
  ASSUME IInv, NEW c \in Calls, NEW t \in Tokens, IssueInserts(c, t)
  PROVE  IInv'
<1> USE McpOAuthAssumption
<1>1. PICK r \in Requests : r = call[c].request /\ code[r].state = "approved"
  BY DEF IssueInserts, At, IInv, CallInv
<1>2. /\ code[r].consumed /\ Issuing(c)
      /\ \A u \in Tokens : OAuth(u) => token[u].request # r
      /\ \A d \in Calls \ {c} : Issuing(d) => call[d].request # r
  BY <1>1 DEF IssueInserts, At, IInv, GrantInv, Issuing
<1>3. secrets \in Nat /\ MaxSecrets \in Nat /\ secrets' = secrets + 1 /\ secrets' \in 1..MaxSecrets
  BY DEF IssueInserts, IInv, TypeOK
<1>4. /\ token'[t].kind = "oauth" /\ token'[t].request = r /\ token'[t].secret = secrets'
      /\ token'[t].revoked = FALSE
      /\ \A u \in Tokens \ {t} : token'[u] = token[u]
      /\ token' \in [Tokens -> TokenRow]
  <2> DEFINE new == [NoRow EXCEPT !.kind = "oauth", !.secret = secrets', !.request = r]
  <2>1. /\ new.kind = "oauth" /\ new.request = r /\ new.secret = secrets' /\ new.revoked = FALSE
        /\ new \in TokenRow
    <3>1. secrets' \in 0..MaxSecrets /\ 0 \in 0..MaxSecrets  BY <1>3
    <3>2. NoRow \in TokenRow /\ NoRow.revoked = FALSE
      BY <3>1 DEF NoRow, TokenRow
    <3> QED BY <3>1, <3>2 DEF TokenRow
  <2>2. token' = [token EXCEPT ![t] = new]
    BY <1>1 DEF IssueInserts
  <2> HIDE DEF new
  <2> QED BY <2>1, <2>2 DEF IInv, TypeOK
<1>5. /\ call'[c].pc = "record" /\ call'[c].token = t /\ call'[c].request = r
      /\ \A d \in Calls \ {c} : call'[d] = call[d]
      /\ call' \in [Calls -> CallState]
  <2> DEFINE new == [call[c] EXCEPT !.pc = "record", !.token = t]
  <2>1. new.pc = "record" /\ new.token = t /\ new.request = r /\ new \in CallState
    BY <1>1 DEF IInv, TypeOK, CallState, CallPC
  <2>2. call' = [call EXCEPT ![c] = new]
    BY DEF IssueInserts, IInv, TypeOK
  <2> HIDE DEF new
  <2> QED BY <2>1, <2>2 DEF IInv, TypeOK
<1>6. code' = code /\ exchanges' = exchanges /\ faults' = faults
  BY DEF IssueInserts
<1>7. TypeOK'  BY <1>3, <1>4, <1>5, <1>6 DEF IInv, TypeOK
<1>8. ~OAuth(t) /\ OAuth(t)' /\ \A u \in Tokens \ {t} : OAuth(u)' = OAuth(u)
  BY <1>4 DEF IssueInserts, OAuth
<1>9. CallInv'  BY <1>1, <1>5, <1>6, <1>8 DEF IInv, CallInv
<1>10. ~Issuing(c)' /\ \A d \in Calls \ {c} : Issuing(d)' = Issuing(d)
  BY <1>5 DEF Issuing
<1>11. GrantInv'
  <2>1. \A u \in Tokens : OAuth(u)' =>
          /\ token'[u].request \in Requests
          /\ code'[token'[u].request].state = "approved"
          /\ code'[token'[u].request].consumed
    BY <1>1, <1>2, <1>4, <1>6, <1>8 DEF IInv, GrantInv
  <2>2. OneGrantPerRequest'
    BY <1>2, <1>4, <1>8 DEF IInv, GrantInv, OneGrantPerRequest, OAuth
  <2>3. \A d \in Calls : Issuing(d)' =>
          /\ code'[call'[d].request].consumed
          /\ \A u \in Tokens : OAuth(u)' => token'[u].request # call'[d].request
    BY <1>2, <1>4, <1>5, <1>6, <1>8, <1>10 DEF IInv, GrantInv
  <2>4. \A d, e \in Calls :
          Issuing(d)' /\ Issuing(e)' /\ call'[d].request = call'[e].request => d = e
    BY <1>5, <1>10 DEF IInv, GrantInv
  <2> QED BY <2>1, <2>2, <2>3, <2>4 DEF GrantInv
<1>12. RowInv'
  BY <1>4, <1>6, <1>8 DEF IInv, TypeOK, CodeRow, RowInv
<1>13. SecretInv'
  <2>1. \A u \in Tokens \ {t} : OAuth(u) => token[u].secret # secrets'
    BY <1>3 DEF IInv, SecretInv
  <2>2. exchanges[secrets'] = 0
    BY <1>3 DEF IInv, SecretInv
  <2>3. \A u \in Tokens : OAuth(u)' =>
          token'[u].secret \in 1..secrets' /\ exchanges'[token'[u].secret] = 0
    BY <1>3, <1>4, <1>6, <1>8, <2>2 DEF IInv, SecretInv
  <2>4. \A u, v \in Tokens :
          OAuth(u)' /\ OAuth(v)' /\ token'[u].secret = token'[v].secret => u = v
    BY <1>4, <1>8, <2>1 DEF IInv, SecretInv
  <2>5. \A s \in 1..MaxSecrets : s > secrets' => exchanges'[s] = 0
    BY <1>3, <1>6 DEF IInv, SecretInv
  <2> QED BY <2>3, <2>4, <2>5, <1>6 DEF IInv, SecretInv, ExchangedOnce
<1> QED BY <1>7, <1>9, <1>11, <1>12, <1>13 DEF IInv

\* The issued connection is recorded, for a later replay of the code.
LEMMA RecordInv == ASSUME IInv, NEW c \in Calls, RecordIssued(c) PROVE IInv'
<1>1. /\ call[c].request \in Requests /\ call[c].token \in Tokens /\ OAuth(call[c].token)
      /\ UNCHANGED <<token, secrets, exchanges, faults>>
  BY DEF RecordIssued, At, IInv, CallInv
<1>2. \A q \in Requests : /\ code'[q].state = code[q].state /\ code'[q].consumed = code[q].consumed
                          /\ code'[q].issued \in {code[q].issued, call[c].token}
  BY <1>1 DEF RecordIssued, IInv, TypeOK, CodeRow
<1>3. Return(c)  BY DEF RecordIssued
<1>4. /\ call'[c] = Idle /\ Idle.pc = "idle"
      /\ \A d \in Calls \ {c} : call'[d] = call[d]
  BY <1>3 DEF Return, IInv, TypeOK, Idle
<1>5. code' \in [Requests -> CodeRow]
  BY <1>1 DEF RecordIssued, IInv, TypeOK, CodeRow
<1>6. call' \in [Calls -> CallState]
  BY <1>3, McpOAuthAssumption DEF Return, IInv, TypeOK, CallState, CallPC, Idle
<1>7. TypeOK'  BY <1>1, <1>5, <1>6 DEF IInv, TypeOK
<1>8. CallInv'  BY <1>1, <1>2, <1>4 DEF IInv, CallInv, OAuth
<1>9. \A d \in Calls : Issuing(d)' => Issuing(d) /\ call'[d] = call[d] /\ call[d].request \in Requests
  BY <1>4 DEF Issuing, IInv, CallInv
<1>10. GrantInv'
  BY <1>1, <1>2, <1>9 DEF IInv, GrantInv, OneGrantPerRequest, OAuth
<1>11. RowInv' /\ SecretInv'
  BY <1>1, <1>2 DEF IInv, RowInv, SecretInv, ExchangedOnce, OAuth
<1> QED BY <1>7, <1>8, <1>10, <1>11 DEF IInv

\* One of the calls that read a secret live rotates it.
LEMMA RotateInv == ASSUME IInv, NEW c \in Calls, Rotate(c) PROVE IInv'
<1> USE McpOAuthAssumption
<1>1. CASE ~HasSecret(call[c].token, call[c].secret)
  BY <1>1, GotoInv DEF Rotate
<1>2. CASE HasSecret(call[c].token, call[c].secret)
  <2>1. PICK t \in Tokens, s \in 1..MaxSecrets :
           /\ t = call[c].token /\ s = call[c].secret
           /\ OAuth(t) /\ token[t].secret = s /\ ~token[t].revoked
    BY <1>2 DEF Rotate, At, HasSecret, IInv, CallInv, OAuth
  <2>2. /\ token' = [token EXCEPT ![t] = Rotated(token[t], s)]
        /\ secrets' = secrets + 1
        /\ exchanges' = [exchanges EXCEPT ![s] = @ + 1]
        /\ UNCHANGED <<code, faults>> /\ Return(c)
    BY <1>2, <2>1 DEF Rotate
  <2>3. secrets \in Nat /\ MaxSecrets \in Nat /\ secrets' \in 1..MaxSecrets
    BY <2>2 DEF Rotate, IInv, TypeOK
  <2>4. /\ Rotated(token[t], s) \in TokenRow
        /\ Rotated(token[t], s).kind = token[t].kind
        /\ Rotated(token[t], s).request = token[t].request
        /\ Rotated(token[t], s).revoked = token[t].revoked
        /\ Rotated(token[t], s).secret = secrets'
    <3>1. token[t] \in TokenRow  BY DEF IInv, TypeOK
    <3>2. secrets + 1 \in 0..MaxSecrets /\ s \in 0..MaxSecrets  BY <2>2, <2>3
    <3> QED BY <2>2, <3>1, <3>2 DEF Rotated, TokenRow
  <2>5. /\ token' \in [Tokens -> TokenRow] /\ token'[t].secret = secrets'
        /\ \A u \in Tokens \ {t} : token'[u] = token[u]
        /\ \A u \in Tokens : /\ token'[u].kind = token[u].kind
                              /\ token'[u].request = token[u].request
                              /\ token'[u].revoked = token[u].revoked
    BY <2>2, <2>4 DEF IInv, TypeOK
  <2>6. exchanges[s] = 0 /\ s <= secrets
    BY <2>1 DEF IInv, SecretInv
  <2>7. /\ exchanges' \in [1..MaxSecrets -> Nat] /\ exchanges'[s] = 1
        /\ \A q \in 1..MaxSecrets \ {s} : exchanges'[q] = exchanges[q]
    BY <2>2, <2>6 DEF IInv, TypeOK
  <2>8. /\ call'[c] = Idle /\ Idle.pc = "idle" /\ call' \in [Calls -> CallState]
        /\ \A d \in Calls \ {c} : call'[d] = call[d]
    BY <2>2 DEF Return, IInv, TypeOK, CallState, CallPC, Idle
  <2>9. TypeOK'  BY <2>2, <2>3, <2>5, <2>7, <2>8 DEF IInv, TypeOK
  <2>10. \A u \in Tokens : OAuth(u)' = OAuth(u)  BY <2>5 DEF OAuth
  <2>11. CallInv'  BY <2>2, <2>8, <2>10 DEF IInv, CallInv
  <2>12. \A d \in Calls : Issuing(d)' => Issuing(d) /\ call'[d] = call[d]
    BY <2>8 DEF Issuing
  <2>13. GrantInv'
    BY <2>2, <2>5, <2>10, <2>12 DEF IInv, GrantInv, OneGrantPerRequest, OAuth
  <2>14. RowInv'
    BY <2>2, <2>5, <2>10 DEF IInv, TypeOK, CodeRow, RowInv
  <2>15. SecretInv'
    <3>1. \A u \in Tokens \ {t} : OAuth(u) => token[u].secret # s /\ token[u].secret \in 1..secrets
      BY <2>1 DEF IInv, SecretInv
    <3>2. secrets' \in 1..MaxSecrets /\ secrets' # s /\ exchanges'[secrets'] = 0
      BY <2>2, <2>3, <2>6, <2>7 DEF IInv, SecretInv
    <3>3. \A u \in Tokens : OAuth(u)' =>
            token'[u].secret \in 1..secrets' /\ exchanges'[token'[u].secret] = 0
      BY <2>2, <2>3, <2>5, <2>7, <2>10, <3>1, <3>2 DEF IInv, SecretInv
    <3>4. \A u, v \in Tokens :
            OAuth(u)' /\ OAuth(v)' /\ token'[u].secret = token'[v].secret => u = v
      BY <2>2, <2>3, <2>5, <2>10, <3>1 DEF IInv, SecretInv
    <3>5. \A q \in 1..MaxSecrets : q > secrets' => exchanges'[q] = 0
      BY <2>2, <2>3, <2>6, <2>7 DEF IInv, SecretInv
    <3>6. \A q \in 1..MaxSecrets : exchanges'[q] <= 1
      BY <2>7 DEF IInv, SecretInv, ExchangedOnce
    <3> QED BY <3>3, <3>4, <3>5, <3>6 DEF SecretInv, ExchangedOnce
  <2> QED BY <2>9, <2>11, <2>13, <2>14, <2>15 DEF IInv
<1> QED BY <1>1, <1>2

\* Ending a connection, at once or for a replayed or reused secret.
LEMMA RevokeInv ==
  ASSUME IInv, NEW t \in Tokens, token[t].kind # "none", token' = Revoked(t),
         UNCHANGED <<code, secrets, exchanges, faults>>,
         UNCHANGED call \/ \E c \in Calls : Return(c)
  PROVE  IInv'
<1> DEFINE new == [token[t] EXCEPT !.revoked = TRUE]
<1>1. /\ new \in TokenRow
      /\ new.kind = token[t].kind /\ new.request = token[t].request
      /\ new.secret = token[t].secret
  BY DEF IInv, TypeOK, TokenRow
<1>2. token' = [token EXCEPT ![t] = new]
  BY DEF Revoked
<1> HIDE DEF new
<1>3. /\ token' \in [Tokens -> TokenRow]
      /\ RowsKeepSecrets
  BY <1>1, <1>2 DEF IInv, TypeOK, RowsKeepSecrets
<1>4. /\ call' \in [Calls -> CallState]
      /\ \A c \in Calls : call'[c].pc = "idle" \/ call'[c] = call[c]
  <2>1. CASE UNCHANGED call
    BY <2>1 DEF IInv, TypeOK
  <2>2. CASE \E c \in Calls : Return(c)
    <3>1. PICK c \in Calls : Return(c)  BY <2>2
    <3> QED BY <3>1, ReturnEffect DEF IInv
  <2> QED BY <2>1, <2>2
<1> QED BY <1>3, <1>4, RowsMove

\* A personal token is no connection.
LEMMA PersonalInv ==
  ASSUME IInv, NEW c \in Calls, NEW t \in Tokens, InsertPersonal(c, t)
  PROVE  IInv'
<1> USE McpOAuthAssumption
<1> DEFINE new == [NoRow EXCEPT !.kind = "personal"]
<1>1. new \in TokenRow /\ new.kind = "personal" /\ new.revoked = FALSE
  <2>1. NoRow \in TokenRow /\ NoRow.revoked = FALSE
    BY DEF NoRow, TokenRow
  <2> QED BY <2>1 DEF TokenRow
<1>2. token' = [token EXCEPT ![t] = new] /\ ~OAuth(t)
  BY DEF InsertPersonal, OAuth
<1> HIDE DEF new
<1>3. /\ token' \in [Tokens -> TokenRow]
      /\ ~OAuth(t)' /\ ~token'[t].revoked
      /\ \A u \in Tokens \ {t} : token'[u] = token[u]
  BY <1>1, <1>2 DEF IInv, TypeOK, OAuth
<1>4. \A u \in Tokens : OAuth(u)' = OAuth(u)
  BY <1>2, <1>3 DEF OAuth
<1>5. /\ call' \in [Calls -> CallState] /\ call'[c].pc = "idle"
      /\ \A d \in Calls \ {c} : call'[d] = call[d]
  BY ReturnEffect DEF InsertPersonal, IInv
<1>6. UNCHANGED <<code, secrets, exchanges, faults>>
  BY DEF InsertPersonal
<1>7. TypeOK'  BY <1>3, <1>5, <1>6 DEF IInv, TypeOK
<1>8. CallInv'  BY <1>4, <1>5, <1>6 DEF IInv, CallInv
<1>9. \A d \in Calls : Issuing(d)' => Issuing(d) /\ call'[d] = call[d]
  BY <1>5 DEF Issuing
<1>10. GrantInv'
  BY <1>3, <1>4, <1>6, <1>9 DEF IInv, GrantInv, OneGrantPerRequest, OAuth
<1>11. RowInv'
  BY <1>3, <1>4, <1>6 DEF IInv, TypeOK, CodeRow, RowInv
<1>12. SecretInv'
  BY <1>3, <1>4, <1>6 DEF IInv, SecretInv, ExchangedOnce, OAuth
<1> QED BY <1>7, <1>8, <1>10, <1>11, <1>12 DEF IInv

\* Every step keeps the invariant.
LEMMA NextInv == ASSUME IInv, [Next]_vars PROVE IInv'
<1> USE McpOAuthAssumption
<1>1. CASE \E c \in Calls : CallSteps(c)
  <2>1. PICK c \in Calls : CallSteps(c)  BY <1>1
  <2>2. CASE \E s \in 1..MaxSecrets : Refresh(c, s)
    <3>1. PICK s \in 1..MaxSecrets : Refresh(c, s)  BY <2>2
    <3>2. s \in 0..MaxSecrets /\ {"rotate", "reused"} \subseteq CallPC  BY DEF CallPC
    <3>3. CASE \E t \in Tokens : HasSecret(t, s) /\ Start(c, "rotate", NoRequest, t, s)
      BY <3>1, <3>2, <3>3, StartInv DEF Refresh, HasSecret, OAuth
    <3>4. CASE Start(c, "reused", NoRequest, NoToken, s)
      BY <3>1, <3>2, <3>4, StartInv DEF Refresh
    <3> QED BY <3>1, <3>3, <3>4 DEF Refresh
  <2>3. CASE CreatePersonal(c)
    <3>1. "insertPersonal" \in CallPC /\ 0 \in 0..MaxSecrets  BY DEF CallPC
    <3> QED BY <2>3, <3>1, StartInv DEF CreatePersonal
  <2>4. CASE \/ \E r \in Requests : \/ BeginAuthorization(c, r) \/ Redeem(c, r)
                                   \/ \E approve \in BOOLEAN : Decide(c, r, approve)
             \/ Answering(c)
    BY <2>4, AnswerInv
  <2>5. CASE IssueCounts(c)
    <3>1. faults' \in 0..MaxFaults  BY <2>5 DEF IssueCounts, IInv, TypeOK
    <3> QED BY <2>5, <3>1, GotoInv, ReturnInv DEF IssueCounts
  <2>6. CASE Consume(c) \/ RecordIssued(c) \/ \E t \in Tokens : IssueInserts(c, t)
    BY <2>6, ConsumeInv, RecordInv, IssueInv
  <2>7. CASE Rotate(c)
    BY <2>7, RotateInv
  <2>8. CASE CheckReused(c)
    <3>1. faults' \in 0..MaxFaults  BY <2>8 DEF CheckReused, IInv, TypeOK
    <3>2. CASE Return(c)
      BY <2>8, <3>1, <3>2, ReturnInv DEF CheckReused
    <3>3. CASE \E t \in Tokens : OAuth(t) /\ call' = [call EXCEPT ![c].pc = "end", ![c].token = t]
      <4>1. PICK t \in Tokens : OAuth(t) /\ call' = [call EXCEPT ![c].pc = "end", ![c].token = t]
        BY <3>3
      <4> DEFINE new == [call[c] EXCEPT !.pc = "end", !.token = t]
      <4>2. new \in CallState /\ new.pc = "end" /\ new.token = t
        BY DEF IInv, TypeOK, CallState, CallPC
      <4>3. call' = [call EXCEPT ![c] = new]
        BY <4>1 DEF IInv, TypeOK
      <4> HIDE DEF new
      <4> QED BY <2>8, <3>1, <4>1, <4>2, <4>3, CallMoves DEF CheckReused
    <3> QED BY <2>8, <3>2, <3>3 DEF CheckReused, OAuth
  <2>9. CASE RevokeById(c)
    <3>1. call[c].token \in Tokens /\ OAuth(call[c].token)
      BY <2>9 DEF RevokeById, IInv, CallInv
    <3> QED BY <2>9, <3>1, RevokeInv DEF RevokeById, OAuth
  <2>10. CASE \E t \in Tokens : InsertPersonal(c, t)
    BY <2>10, PersonalInv
  <2>11. CASE CallDies(c)
    <3>1. faults' \in 0..MaxFaults  BY <2>11 DEF CallDies, IInv, TypeOK
    <3> QED BY <2>11, <3>1, ReturnInv DEF CallDies
  <2> QED BY <2>1, <2>2, <2>3, <2>4, <2>5, <2>6, <2>7, <2>8, <2>9, <2>10, <2>11
          DEF CallSteps, Starting, Redeeming, Refreshing
<1>2. CASE \E t \in Tokens : Revoke(t)
  BY <1>2, RevokeInv DEF Revoke
<1>3. CASE \E t \in Tokens : Lapse(t) \/ GraceEnds(t)
  <2>1. PICK t \in Tokens : Lapse(t) \/ GraceEnds(t)  BY <1>3
  <2>2. /\ token' \in [Tokens -> TokenRow]
        /\ RowsKeepSecrets
    <3>1. CASE Lapse(t)
      <4>1. token' \in [Tokens -> TokenRow]
        BY <3>1, TokenRows DEF Lapse, IInv, TypeOK
      <4> QED BY <3>1, <4>1 DEF Lapse, IInv, TypeOK, TokenRow, RowsKeepSecrets
    <3>2. CASE GraceEnds(t)
      <4>1. token' \in [Tokens -> TokenRow]
        BY <3>2, TokenRows DEF GraceEnds, IInv, TypeOK
      <4> QED BY <3>2, <4>1 DEF GraceEnds, IInv, TypeOK, TokenRow, RowsKeepSecrets
    <3> QED BY <2>1, <3>1, <3>2
  <2>3. UNCHANGED <<code, call, secrets, exchanges, faults>>
    BY <2>1 DEF Lapse, GraceEnds
  <2>4. call' \in [Calls -> CallState]  BY <2>3 DEF IInv, TypeOK
  <2> QED BY <2>2, <2>3, <2>4, RowsMove
<1>4. CASE \E r \in Requests : RequestExpires(r) \/ CodeExpires(r) \/ RequestAges(r)
  <2>1. PICK r \in Requests : RequestExpires(r) \/ CodeExpires(r) \/ RequestAges(r)  BY <1>4
  <2> DEFINE next == {[code[r] EXCEPT !.expired = TRUE], [code[r] EXCEPT !.codeExpired = TRUE],
                      [code[r] EXCEPT !.old = TRUE]}
  <2>2. code \in [Requests -> CodeRow] /\ code[r] \in CodeRow
    BY DEF IInv, TypeOK
  <2>3. \A new \in next : /\ new \in CodeRow /\ new.state = code[r].state
                          /\ new.consumed = code[r].consumed /\ new.issued = code[r].issued
    BY <2>2 DEF CodeRow
  <2>4. \E new \in next : code' = [code EXCEPT ![r] = new]
    BY <2>1, <2>2 DEF RequestExpires, CodeExpires, RequestAges
  <2> HIDE DEF next
  <2>5. code' \in [Requests -> CodeRow]
    BY <2>2, <2>3, <2>4
  <2>6. \A q \in Requests : /\ code[q].state = "approved" => code'[q].state = "approved"
                            /\ code[q].consumed => code'[q].consumed
                            /\ code'[q].issued = code[q].issued
    BY <2>2, <2>3, <2>4
  <2>7. UNCHANGED <<token, call, secrets, exchanges, faults>>
    BY <2>1 DEF RequestExpires, CodeExpires, RequestAges
  <2>8. call' \in [Calls -> CallState]  BY <2>7 DEF IInv, TypeOK
  <2> QED BY <2>5, <2>6, <2>7, <2>8, CodesMove
<1>5. CASE UNCHANGED vars
  <2>1. \A c \in Calls : Issuing(c)' = Issuing(c)  BY <1>5 DEF vars, Issuing
  <2> QED BY <1>5, <2>1
          DEF vars, IInv, TypeOK, CallInv, GrantInv, RowInv, SecretInv, OneGrantPerRequest,
              ExchangedOnce, OAuth
<1> QED BY <1>1, <1>2, <1>3, <1>4, <1>5 DEF Next, TimeSteps

(***************************************************************************)
(* The theorems                                                            *)
(***************************************************************************)

\* The inductive invariant holds throughout.
THEOREM GrantInvariant == Spec => []IInv
<1>1. Init => IInv  BY InitInv
<1>2. IInv /\ [Next]_vars => IInv'  BY NextInv
<1> QED BY <1>1, <1>2, PTL DEF Spec

\* Rows, calls and counters keep their types.
THEOREM TypeCorrect == Spec => []TypeOK
<1>1. IInv => TypeOK  BY DEF IInv
<1> QED BY <1>1, GrantInvariant, PTL

\* An authorization request produces at most one connection (redeemCode), ...
THEOREM SingleGrant == Spec => []OneGrantPerRequest
<1>1. IInv => OneGrantPerRequest  BY DEF IInv, GrantInv
<1> QED BY <1>1, GrantInvariant, PTL

\* ... and only one that was approved (decide).
THEOREM ApprovedGrants == Spec => []GrantsAreApproved
<1>1. IInv => GrantsAreApproved  BY DEF IInv, GrantInv, GrantsAreApproved, OAuth
<1> QED BY <1>1, GrantInvariant, PTL

\* No refresh token is exchanged twice (refresh).
THEOREM SingleExchange == Spec => []ExchangedOnce
<1>1. IInv => ExchangedOnce  BY Zenon DEF IInv, SecretInv
<1> QED BY <1>1, GrantInvariant, PTL

\* A revoked connection stays revoked and its secret is not rotated.
THEOREM RevokedStaysRevoked == Spec => RevokedForGood
<1> DEFINE Held == \A t \in Tokens : token[t].revoked =>
                      token'[t].revoked /\ token'[t].secret = token[t].secret
<1>1. IInv /\ [Next]_vars => [Held]_vars
  <2> SUFFICES ASSUME IInv, Next PROVE Held
    BY DEF Held
  <2>1. CASE UNCHANGED token
    BY <2>1
  <2>2. CASE \E c \in Calls, t \in Tokens : IssueInserts(c, t) \/ InsertPersonal(c, t)
    BY <2>2 DEF IssueInserts, InsertPersonal, IInv, RowInv, TypeOK
  <2>3. CASE \E c \in Calls : Rotate(c)
    BY <2>3 DEF Rotate, HasSecret, IInv, TypeOK
  <2>4. CASE \E t \in Tokens : token' = Revoked(t)
    BY <2>4 DEF Revoked, IInv, TypeOK, TokenRow
  <2>5. CASE \E t \in Tokens : Lapse(t)
    BY <2>5 DEF Lapse, IInv, TypeOK, TokenRow
  <2>6. CASE \E t \in Tokens : GraceEnds(t)
    BY <2>6 DEF GraceEnds, IInv, TypeOK, TokenRow
  <2>7. \A c \in Calls : RevokeById(c) => call[c].token \in Tokens
    BY DEF RevokeById, IInv, CallInv
  <2> QED
    BY <2>1, <2>2, <2>3, <2>4, <2>5, <2>6, <2>7
    DEF Next, CallSteps, Starting, Answering, Redeeming, Refreshing, TimeSteps,
        BeginAuthorization, PruneStaleRequests, Decide, AssertBelowTokenLimit, Deny, Approve,
        Redeem, Consume, IssueCounts, RecordIssued, Refresh, CheckReused, RevokeById, Revoke,
        CreatePersonal, RequestExpires, CodeExpires, RequestAges, CallDies
<1> HIDE DEF Held
<1>2. Spec => [][Held]_vars
  BY <1>1, GrantInvariant, PTL DEF Spec
<1> QED BY <1>2, PTL DEF RevokedForGood, Held

(***************************************************************************)
(* The limit                                                               *)
(***************************************************************************)

Inserting == {c \in Calls : call[c].pc \in {"insert", "insertPersonal"}}

Rotating == {c \in Calls : At(c, "rotate")}

\* Live connections, and those a refresh on its way may bring back: it looked
\* at their expiry when it read them.
Usable == Live \cup {t \in Tokens : ~token[t].revoked /\ \E c \in Rotating : call[c].token = t}

RoomInv ==
    /\ IsFiniteSet(Usable)
    /\ Cardinality(Usable) + Cardinality(Inserting) + 1 <= MaxTokens + Cardinality(Calls)

\* A step adds no row to what is usable or on its way, ...
AddsNone == Usable' \subseteq Usable /\ Inserting' \subseteq Inserting

\* ... or is the insert of a call that was on its way, ...
Inserts(c) ==
    /\ c \in Inserting
    /\ \E t \in Tokens : Usable' \subseteq Usable \cup {t}
    /\ Inserting' \subseteq Inserting \ {c}

\* ... or lets a call go on that found the limit not reached.
Admits(c) ==
    /\ c \notin Inserting \cup Rotating
    /\ BelowTokenLimit
    /\ Usable' \subseteq Usable
    /\ Inserting' \subseteq Inserting \cup {c}

\* The elements of two sets without a common one add up.
LEMMA DisjointUnion ==
  ASSUME NEW S, NEW T, IsFiniteSet(S), IsFiniteSet(T), S \cap T = {}
  PROVE  Cardinality(S \cup T) = Cardinality(S) + Cardinality(T)
<1>1. Cardinality(S \cup T) = Cardinality(S) + Cardinality(T) - Cardinality(S \cap T)
  BY FS_Union
<1>2. Cardinality(S \cap T) = 0 /\ Cardinality(S) \in Nat /\ Cardinality(T) \in Nat
  BY FS_EmptySet, FS_CardinalityType
<1> QED
  BY <1>1, <1>2

\* Connections held by a refresh are at most as many as the refreshes.
LEMMA UsableBound ==
  ASSUME IsFiniteSet(Usable)
  PROVE  /\ IsFiniteSet(Rotating) /\ IsFiniteSet(Inserting) /\ IsFiniteSet(Live)
         /\ Cardinality(Usable) <= Cardinality(Live) + Cardinality(Rotating)
<1> DEFINE held == {call[c].token : c \in Rotating}
           back == Usable \ Live
           f == [c \in Rotating |-> call[c].token]
<1>1. IsFiniteSet(Rotating) /\ IsFiniteSet(Inserting)
  BY FS_Subset, McpOAuthAssumption DEF McpOAuthAssumption, Rotating, Inserting
<1>2. f \in Surjection(Rotating, held)
  BY DEF Surjection
<1>3. IsFiniteSet(held) /\ Cardinality(held) <= Cardinality(Rotating)
  BY <1>1, <1>2, FS_Surjection
<1>4. back \subseteq held /\ Live \subseteq Usable
  BY DEF Usable
<1>5. IsFiniteSet(Live) /\ IsFiniteSet(back) /\ Cardinality(back) <= Cardinality(held)
  BY <1>3, <1>4, FS_Subset
<1>6. Usable = Live \cup back /\ Live \cap back = {}
  BY <1>4
<1>7. Cardinality(Usable) = Cardinality(Live) + Cardinality(back)
  BY <1>5, <1>6, DisjointUnion
<1> QED
  BY <1>1, <1>3, <1>5, <1>7, FS_CardinalityType

\* Whatever the step's kind, the room suffices after it.
LEMMA RoomStep ==
  ASSUME RoomInv, AddsNone \/ \E c \in Calls : Inserts(c) \/ Admits(c)
  PROVE  RoomInv'
<1> USE McpOAuthAssumption DEF McpOAuthAssumption
<1>1. /\ IsFiniteSet(Rotating) /\ IsFiniteSet(Inserting) /\ IsFiniteSet(Live)
      /\ Cardinality(Usable) <= Cardinality(Live) + Cardinality(Rotating)
      /\ {Cardinality(Rotating), Cardinality(Inserting), Cardinality(Live),
          Cardinality(Usable), Cardinality(Calls)} \subseteq Nat
  BY UsableBound, FS_CardinalityType DEF RoomInv
<1>2. IsFiniteSet(Inserting') /\ Cardinality(Inserting') \in Nat
  BY FS_Subset, FS_CardinalityType DEF Inserting
<1>3. CASE AddsNone
  <2>1. /\ IsFiniteSet(Usable') /\ Cardinality(Usable') <= Cardinality(Usable)
        /\ Cardinality(Inserting') <= Cardinality(Inserting)
    BY <1>1, <1>3, FS_Subset DEF AddsNone, RoomInv
  <2>2. Cardinality(Usable') \in Nat
    BY <2>1, FS_CardinalityType
  <2> QED
    BY <1>1, <1>2, <2>1, <2>2 DEF RoomInv
<1>4. ASSUME NEW c \in Calls, Inserts(c)
      PROVE  RoomInv'
  <2>1. PICK t \in Tokens : Usable' \subseteq Usable \cup {t}
    BY <1>4 DEF Inserts
  <2>2. IsFiniteSet(Usable \cup {t}) /\ Cardinality(Usable \cup {t}) <= Cardinality(Usable) + 1
    <3>1. /\ IsFiniteSet(Usable \cup {t})
          /\ Cardinality(Usable \cup {t}) =
                IF t \in Usable THEN Cardinality(Usable) ELSE Cardinality(Usable) + 1
      BY FS_AddElement DEF RoomInv
    <3> QED
      BY <1>1, <3>1
  <2>3. IsFiniteSet(Usable') /\ Cardinality(Usable') <= Cardinality(Usable \cup {t})
    BY <2>1, <2>2, FS_Subset
  <2>4. IsFiniteSet(Inserting \ {c}) /\ Cardinality(Inserting \ {c}) = Cardinality(Inserting) - 1
    BY <1>1, <1>4, FS_RemoveElement DEF Inserts
  <2>5. Cardinality(Inserting') <= Cardinality(Inserting) - 1
    BY <1>4, <2>4, FS_Subset DEF Inserts
  <2>6. {Cardinality(Usable'), Cardinality(Usable \cup {t})} \subseteq Nat
    BY <2>2, <2>3, FS_CardinalityType
  <2> QED
    BY <1>1, <1>2, <2>2, <2>3, <2>5, <2>6 DEF RoomInv
<1>5. ASSUME NEW c \in Calls, Admits(c)
      PROVE  RoomInv'
  <2> DEFINE busy == Inserting \cup Rotating
  <2>1. Inserting \cap Rotating = {}
    BY DEF Inserting, Rotating, At
  <2>2. IsFiniteSet(busy) /\ Cardinality(busy) = Cardinality(Inserting) + Cardinality(Rotating)
    BY <1>1, <2>1, DisjointUnion, FS_Union
  <2>3. Cardinality(busy \cup {c}) = Cardinality(busy) + 1
    BY <1>5, <2>2, FS_AddElement DEF Admits
  <2>4. busy \cup {c} \subseteq Calls
    BY DEF Inserting, Rotating
  <2>5. Cardinality(busy \cup {c}) <= Cardinality(Calls)
    BY <2>4, FS_Subset
  <2>6. IsFiniteSet(Usable') /\ Cardinality(Usable') <= Cardinality(Usable)
    BY <1>1, <1>5, FS_Subset DEF Admits, RoomInv
  <2>7. Cardinality(Inserting') <= Cardinality(Inserting) + 1
    <3>1. IsFiniteSet(Inserting \cup {c}) /\ Cardinality(Inserting \cup {c}) = Cardinality(Inserting) + 1
      BY <1>1, <1>5, FS_AddElement DEF Admits
    <3>2. Cardinality(Inserting') <= Cardinality(Inserting \cup {c})
      BY <1>5, <3>1, FS_Subset DEF Admits
    <3> QED
      BY <1>1, <1>2, <3>1, <3>2, FS_CardinalityType
  <2>8. Cardinality(Live) < MaxTokens /\ Cardinality(Usable') \in Nat
    BY <1>5, <2>6, FS_CardinalityType DEF Admits, BelowTokenLimit
  <2> QED
    BY <1>1, <1>2, <2>2, <2>3, <2>5, <2>6, <2>7, <2>8 DEF RoomInv
<1> QED
  BY <1>3, <1>4, <1>5

\* A step that brings no call to an insert or a refresh and makes no row live.
LEMMA AddsNoneStep ==
  ASSUME \A c \in Calls :
            /\ call'[c].pc \in {"insert", "insertPersonal"} => call'[c].pc = call[c].pc
            /\ call'[c].pc = "rotate" => call'[c] = call[c],
         \A t \in Tokens :
            /\ t \in Live' => t \in Usable
            /\ ~token'[t].revoked => ~token[t].revoked
  PROVE  AddsNone
<1>1. \A t \in Tokens, c \in Rotating' :
         ~token'[t].revoked /\ call'[c].token = t => t \in Usable
  <2> SUFFICES ASSUME NEW t \in Tokens, NEW c \in Calls, call'[c].pc = "rotate",
                      ~token'[t].revoked, call'[c].token = t
               PROVE  t \in Usable
    BY DEF Rotating, At
  <2>1. call'[c] = call[c] /\ ~token[t].revoked
    OBVIOUS
  <2> QED
    BY <2>1 DEF Usable, Rotating, At
<1>2. Usable' = Live' \cup {t \in Tokens : ~token'[t].revoked /\ \E c \in Rotating' : call'[c].token = t}
  BY DEF Usable
<1>3. Live' \subseteq Usable
  BY DEF Live
<1>4. Inserting' \subseteq Inserting
  BY DEF Inserting
<1> QED
  BY <1>1, <1>2, <1>3, <1>4 DEF AddsNone

\* Every step is of one of the three kinds.
LEMMA RoomKinds ==
  ASSUME IInv, [Next]_vars
  PROVE  AddsNone \/ \E c \in Calls : Inserts(c) \/ Admits(c)
<1>1. TypeOK /\ CallInv
  BY DEF IInv
<1>2. Live \subseteq Usable /\ Live \subseteq Tokens
  BY DEF Usable, Live
<1>3. ASSUME NEW c \in Calls, IssueCounts(c) \/ CreatePersonal(c)
      PROVE  AddsNone \/ Admits(c)
  <2>1. CASE Return(c) /\ token' = token
    BY <1>1, <1>2, <2>1, AddsNoneStep DEF Return, Idle, TypeOK, Live
  <2>2. CASE BelowTokenLimit /\ token' = token
    <3>1. /\ call[c].pc \in {"count", "idle"} /\ call'[c].pc \in {"insert", "insertPersonal"}
          /\ \A d \in Calls \ {c} : call'[d] = call[d]
      BY <1>1, <1>3, <2>2 DEF TypeOK, CallState, IssueCounts, CreatePersonal, Goto, Start, At
    <3> QED
      BY <2>2, <3>1 DEF Admits, Usable, Live, Rotating, Inserting, At
  <2> QED
    BY <1>3, <2>1, <2>2 DEF IssueCounts, CreatePersonal
<1>4. ASSUME NEW c \in Calls, NEW t \in Tokens, IssueInserts(c, t) \/ InsertPersonal(c, t)
      PROVE  Inserts(c)
  <2>1. /\ call[c].pc \in {"insert", "insertPersonal"} /\ call'[c].pc \in {"record", "idle"}
        /\ \A d \in Calls \ {c} : call'[d] = call[d]
        /\ \A u \in Tokens \ {t} : token'[u] = token[u]
    BY <1>1, <1>4 DEF TypeOK, CallState, IssueInserts, InsertPersonal, At, Return, Idle
  <2> QED
    BY <2>1 DEF Inserts, Usable, Live, Rotating, Inserting, At
<1>5. ASSUME NEW c \in Calls, NEW s \in 1..MaxSecrets, Refresh(c, s)
      PROVE  AddsNone
  <2>1. token' = token
    BY <1>5 DEF Refresh
  <2>2. CASE \E t \in Tokens : HasSecret(t, s) /\ ~token[t].lapsed /\ Start(c, "rotate", NoRequest, t, s)
    <3>1. PICK t \in Tokens : HasSecret(t, s) /\ ~token[t].lapsed /\ Start(c, "rotate", NoRequest, t, s)
      BY <2>2
    <3>2. t \in Live /\ call'[c].pc = "rotate" /\ call'[c].token = t
      BY <1>1, <3>1 DEF Live, HasSecret, Start, TypeOK
    <3>3. \A d \in Calls \ {c} : call'[d] = call[d]
      BY <1>1, <3>1 DEF Start, TypeOK
    <3> QED
      BY <2>1, <3>2, <3>3 DEF AddsNone, Usable, Live, Rotating, Inserting, At
  <2>3. CASE Start(c, "reused", NoRequest, NoToken, s)
    BY <1>1, <1>2, <2>1, <2>3, AddsNoneStep DEF Start, TypeOK, Live
  <2> QED
    BY <1>5, <2>2, <2>3 DEF Refresh
<1>6. ASSUME NEW c \in Calls, Rotate(c)
      PROVE  AddsNone
  <2>1. call[c].token \in Tokens
    BY <1>1, <1>6 DEF Rotate, CallInv, At
  <2>2. call'[c].pc \in {"idle", "reused"} /\ \A d \in Calls \ {c} : call'[d] = call[d]
    BY <1>1, <1>6 DEF Rotate, TypeOK, CallState, Return, Idle, Goto
  <2>3. CASE token' = token
    BY <1>2, <2>2, <2>3, AddsNoneStep DEF Live
  <2>4. CASE HasSecret(call[c].token, call[c].secret)
             /\ token' = [token EXCEPT ![call[c].token] = Rotated(@, call[c].secret)]
    <3>1. /\ call[c].token \in Usable
          /\ \A t \in Tokens : t # call[c].token => token'[t] = token[t]
      BY <1>1, <1>6, <2>1, <2>4 DEF Usable, Rotating, Rotate, HasSecret, TypeOK
    <3>2. ~token[call[c].token].revoked
      BY <2>4 DEF HasSecret
    <3> QED
      BY <1>2, <2>2, <3>1, <3>2, AddsNoneStep DEF Live
  <2> QED
    BY <1>6, <2>3, <2>4 DEF Rotate
<1>7. ASSUME NEW c \in Calls, NEW r \in Requests,
             BeginAuthorization(c, r) \/ Redeem(c, r) \/ \E approve \in BOOLEAN : Decide(c, r, approve)
      PROVE  AddsNone
  <2>1. /\ token' = token
        /\ \E pc \in {"prune", "replayed", "consume", "limit", "deny"} : \E t, q : Start(c, pc, q, t, 0)
    BY <1>7 DEF BeginAuthorization, Redeem, Decide
  <2> QED
    BY <1>1, <1>2, <2>1, AddsNoneStep DEF Start, TypeOK, Live
<1>8. ASSUME NEW c \in Calls,
             \/ Answering(c) \/ Consume(c) \/ RecordIssued(c) \/ CheckReused(c) \/ CallDies(c)
      PROVE  AddsNone
  <2>1. /\ token' = token
        /\ call'[c].pc \in {"idle", "claim", "count", "end"}
        /\ \A d \in Calls \ {c} : call'[d] = call[d]
    <3>1. call \in [Calls -> CallState] /\ Idle.pc = "idle"
      BY <1>1 DEF TypeOK, Idle
    <3>2. CASE Return(c) /\ token' = token
      BY <3>1, <3>2 DEF Return
    <3>3. CASE (Goto(c, "claim") \/ Goto(c, "count")) /\ token' = token
      BY <3>1, <3>3 DEF Goto, CallState
    <3>4. CASE token' = token /\ \E t \in Tokens : call' = [call EXCEPT ![c].pc = "end", ![c].token = t]
      BY <3>1, <3>4 DEF CallState
    <3> QED
      BY <1>8, <3>2, <3>3, <3>4
         DEF Answering, PruneStaleRequests, AssertBelowTokenLimit, Deny, Approve, Consume,
             RecordIssued, CheckReused, CallDies
  <2> QED
    BY <1>2, <2>1, AddsNoneStep DEF Live
<1>9. ASSUME NEW t \in Tokens, token' = Revoked(t),
             call' = call \/ \E c \in Calls : Return(c)
      PROVE  AddsNone
  <2>1. \A u \in Tokens : /\ ~token'[u].revoked => token'[u] = token[u]
    BY <1>1, <1>9 DEF Revoked, TypeOK, TokenRow
  <2>2. \A d \in Calls : call'[d] = call[d] \/ call'[d].pc = "idle"
    BY <1>1, <1>9 DEF Return, Idle, TypeOK
  <2> QED
    BY <1>2, <2>1, <2>2, AddsNoneStep DEF Live
<1>10. ASSUME NEW c \in Calls, RevokeById(c)
       PROVE  AddsNone
  BY <1>1, <1>9, <1>10 DEF RevokeById, CallInv
<1>11. ASSUME NEW t \in Tokens, Revoke(t)
       PROVE  AddsNone
  BY <1>9, <1>11 DEF Revoke
<1>12. ASSUME NEW t \in Tokens, Lapse(t) \/ GraceEnds(t)
       PROVE  AddsNone
  <2>1. /\ call' = call
        /\ \A u \in Tokens : /\ token'[u].kind = token[u].kind
                             /\ token'[u].revoked = token[u].revoked
                             /\ token[u].lapsed => token'[u].lapsed
    <3>1. CASE Lapse(t)
      BY <1>1, <3>1 DEF Lapse, TypeOK, TokenRow
    <3>2. CASE GraceEnds(t)
      BY <1>1, <3>2 DEF GraceEnds, TypeOK, TokenRow
    <3> QED
      BY <1>12, <3>1, <3>2
  <2> QED
    BY <1>2, <2>1, AddsNoneStep DEF Live
<1>13. CASE UNCHANGED <<token, call>>
  BY <1>2, <1>13, AddsNoneStep DEF Live
<1>14. ASSUME NEW r \in Requests, RequestExpires(r) \/ CodeExpires(r) \/ RequestAges(r)
       PROVE  UNCHANGED <<token, call>>
  BY <1>14 DEF RequestExpires, CodeExpires, RequestAges
<1>15. CASE \E c \in Calls : CallSteps(c)
  BY <1>3, <1>4, <1>5, <1>6, <1>7, <1>8, <1>10, <1>15
     DEF CallSteps, Starting, Redeeming, Refreshing
<1> QED
  BY <1>11, <1>12, <1>13, <1>14, <1>15 DEF Next, TimeSteps, vars

\* However many calls run at once, the connections and tokens a user has pass
\* the limit by no more than the calls in progress besides the first.
THEOREM OvershootBound == Spec => []LimitOvershoot
<1>1. Init => RoomInv
  <2> SUFFICES ASSUME Init PROVE RoomInv
    OBVIOUS
  <2>1. Usable = {} /\ Inserting = {}
    BY DEF Init, Usable, Live, Rotating, Inserting, At, Idle, NoRow
  <2>2. Cardinality(Calls) \in Nat /\ Cardinality(Calls) # 0
    BY McpOAuthAssumption, FS_CardinalityType, FS_EmptySet DEF McpOAuthAssumption
  <2> QED
    BY <2>1, <2>2, FS_EmptySet, McpOAuthAssumption DEF McpOAuthAssumption, RoomInv
<1>2. IInv /\ RoomInv /\ [Next]_vars => RoomInv'
  BY RoomKinds, RoomStep
<1>3. RoomInv => LimitOvershoot
  <2> SUFFICES ASSUME RoomInv PROVE LimitOvershoot
    OBVIOUS
  <2>1. Live \subseteq Usable
    BY DEF Usable
  <2>2. IsFiniteSet(Inserting)
    BY UsableBound DEF RoomInv
  <2>3. Cardinality(Live) <= Cardinality(Usable) /\ IsFiniteSet(Live)
    BY <2>1, FS_Subset DEF RoomInv
  <2>4. {Cardinality(Live), Cardinality(Usable), Cardinality(Inserting), Cardinality(Calls), MaxTokens}
           \subseteq Nat
    BY <2>2, <2>3, FS_CardinalityType, McpOAuthAssumption DEF RoomInv, McpOAuthAssumption
  <2> QED
    BY <2>3, <2>4 DEF RoomInv, LimitOvershoot
<1> QED
  BY <1>1, <1>2, <1>3, GrantInvariant, PTL DEF Spec

(***************************************************************************)
(* The refinement of McpGrants                                             *)
(***************************************************************************)

\* What McpGrants sees of the code rows and of the token rows.
Answers == [r \in Requests |-> AnswerOf(r)]

Connections == [t \in Tokens |-> ConnectionOf(token[t])]

Ended == {t \in Tokens : token[t].revoked}

Spent == {s \in 1..MaxSecrets : exchanges[s] > 0}

\* A connection's request was approved, so an answer other than an approval
\* shows as it stands.
LEMMA AnswerShown ==
  ASSUME GrantInv, NEW r \in Requests, code[r].state # "approved"
  PROVE  AnswerOf(r) = code[r].state /\ ~HasConnection(r)
  BY DEF GrantInv, HasConnection, OAuth, AnswerOf

\* A step that answers no request and changes no token row but for its times
\* is none of the ledger's.
LEMMA GrantsStutter ==
  ASSUME \A r \in Requests : code'[r].state = code[r].state,
         \A t \in Tokens : ConnectionOf(token'[t]) = ConnectionOf(token[t]),
         \A t \in Tokens : token'[t].revoked <=> token[t].revoked,
         UNCHANGED <<secrets, exchanges>>
  PROVE  [Grants!GrantsNext]_(Grants!grantVars)
<1>1. \A t \in Tokens : token'[t].kind = token[t].kind /\ token'[t].request = token[t].request
  <2> SUFFICES ASSUME NEW t \in Tokens
               PROVE  token'[t].kind = token[t].kind /\ token'[t].request = token[t].request
    OBVIOUS
  <2>1. /\ ConnectionOf(token'[t]).kind = token'[t].kind
        /\ ConnectionOf(token'[t]).request = token'[t].request
        /\ ConnectionOf(token[t]).kind = token[t].kind
        /\ ConnectionOf(token[t]).request = token[t].request
    BY DEF ConnectionOf
  <2> QED
    BY <2>1
<1>2. \A r \in Requests : AnswerOf(r)' = AnswerOf(r)
  BY <1>1 DEF AnswerOf, HasConnection
<1>3. Answers' = Answers /\ Connections' = Connections /\ Ended' = Ended /\ Spent' = Spent
  BY <1>2 DEF Answers, Connections, Ended, Spent
<1> QED
  BY <1>3 DEF Grants!grantVars, Answers, Connections, Ended, Spent

\* A request is asked, or answered while it is pending.
LEMMA GrantsAnswer ==
  ASSUME GrantInv, GrantInv', code \in [Requests -> CodeRow], NEW r \in Requests,
         \A q \in Requests \ {r} : code'[q] = code[q],
         UNCHANGED <<token, secrets, exchanges>>,
         \/ code[r].state = "none" /\ code'[r].state = "pending"
         \/ code[r].state = "pending" /\ code'[r].state \in {"denied", "approved"}
  PROVE  [Grants!GrantsNext]_(Grants!grantVars)
<1>1. AnswerOf(r) = code[r].state /\ ~HasConnection(r)
  BY AnswerShown
<1>2. AnswerOf(r)' = code'[r].state
  BY <1>1 DEF AnswerOf, HasConnection
<1>3. \A q \in Requests \ {r} : AnswerOf(q)' = AnswerOf(q)
  BY DEF AnswerOf, HasConnection
<1>4. Answers' = [Answers EXCEPT ![r] = code'[r].state] /\ Answers[r] = code[r].state
  BY <1>1, <1>2, <1>3 DEF Answers
<1>5. Connections' = Connections /\ Ended' = Ended /\ Spent' = Spent
  BY DEF Connections, Ended, Spent
<1>6. Grants!Ask(r) \/ \E a \in {"denied", "approved"} : Grants!Answer(r, a)
  BY <1>4, <1>5 DEF Grants!Ask, Grants!Answer, Answers, Connections, Ended, Spent
<1> QED
  BY <1>6 DEF Grants!GrantsNext

\* The step that inserts the connection grants its request, which had none.
LEMMA GrantsConnect ==
  ASSUME IInv, NEW c \in Calls, NEW t \in Tokens, IssueInserts(c, t)
  PROVE  [Grants!GrantsNext]_(Grants!grantVars)
<1> USE McpOAuthAssumption
<1>1. PICK r \in Requests : r = call[c].request /\ code[r].state = "approved"
  BY DEF IssueInserts, At, IInv, CallInv
<1>2. ~HasConnection(r)
  BY <1>1 DEF IssueInserts, At, IInv, GrantInv, Issuing, HasConnection, OAuth
<1> DEFINE row == [NoRow EXCEPT !.kind = "oauth", !.secret = secrets', !.request = r]
<1>3. /\ row.kind = "oauth" /\ row.request = r
      /\ ConnectionOf(row) = [kind |-> "oauth", request |-> r, key |-> secrets']
      /\ ~row.revoked
  BY DEF NoRow, ConnectionOf
<1>4. token' = [token EXCEPT ![t] = row] /\ token[t].kind = "none"
  BY <1>1 DEF IssueInserts
<1> HIDE DEF row
<1>5. token'[t] = row /\ \A u \in Tokens \ {t} : token'[u] = token[u]
  BY <1>4 DEF IInv, TypeOK
<1>6. UNCHANGED <<code, exchanges>> /\ secrets' = secrets + 1
  BY DEF IssueInserts
<1>7. AnswerOf(r) = "approved" /\ AnswerOf(r)' = "granted"
  BY <1>1, <1>2, <1>3, <1>5, <1>6 DEF AnswerOf, HasConnection
<1>8. \A q \in Requests \ {r} : AnswerOf(q)' = AnswerOf(q)
  BY <1>3, <1>4, <1>5, <1>6 DEF AnswerOf, HasConnection
<1>9. Answers' = [Answers EXCEPT ![r] = "granted"] /\ Answers[r] = "approved"
  BY <1>7, <1>8 DEF Answers
<1>10. /\ Connections' = [Connections EXCEPT ![t] = [kind |-> "oauth", request |-> r,
                                                     key |-> secrets']]
       /\ Connections[t].kind = "none"
  BY <1>3, <1>4, <1>5 DEF Connections, ConnectionOf
<1>11. Ended' = Ended /\ Spent' = Spent
  <2>1. ~token[t].revoked /\ ~token'[t].revoked
    BY <1>3, <1>4, <1>5 DEF IInv, RowInv
  <2> QED
    BY <1>5, <1>6, <2>1 DEF Ended, Spent
<1>12. Grants!Connect(r, t)
  BY <1>6, <1>9, <1>10, <1>11 DEF Grants!Connect, Answers, Connections, Ended, Spent
<1> QED
  BY <1>12 DEF Grants!GrantsNext

\* A step that changes one token row, and no request of a row, ...
LEMMA GrantsRow ==
  ASSUME TypeOK, NEW t \in Tokens, NEW row \in TokenRow,
         token' = [token EXCEPT ![t] = row], UNCHANGED code,
         (row.kind = "oauth") = (token[t].kind = "oauth"),
         row.kind = "oauth" => row.request = token[t].request
  PROVE  /\ Answers' = Answers
         /\ Connections' = [Connections EXCEPT ![t] = ConnectionOf(row)]
         /\ Connections[t] = ConnectionOf(token[t])
<1>1. token'[t] = row /\ \A u \in Tokens \ {t} : token'[u] = token[u]
  BY DEF TypeOK
<1>2. \A r \in Requests : HasConnection(r)' = HasConnection(r)
  BY <1>1 DEF HasConnection
<1>3. \A r \in Requests : AnswerOf(r)' = AnswerOf(r)
  BY <1>2 DEF AnswerOf
<1>4. Connections' = [Connections EXCEPT ![t] = ConnectionOf(row)]
  <2>1. \A u \in Tokens : ConnectionOf(token'[u]) = IF u = t THEN ConnectionOf(row) ELSE ConnectionOf(token[u])
    BY <1>1
  <2>2. Connections' = [u \in Tokens |-> ConnectionOf(token'[u])]
    BY DEF Connections
  <2> QED
    BY <2>1, <2>2 DEF Connections
<1> QED
  BY <1>3, <1>4 DEF Answers, Connections

\* ... as a personal token does, ...
LEMMA GrantsPersonal ==
  ASSUME IInv, NEW c \in Calls, NEW t \in Tokens, InsertPersonal(c, t)
  PROVE  [Grants!GrantsNext]_(Grants!grantVars)
<1> USE McpOAuthAssumption
<1> DEFINE row == [NoRow EXCEPT !.kind = "personal"]
<1>1. /\ row \in TokenRow /\ row.kind = "personal" /\ ~row.revoked
      /\ ConnectionOf(row) = [Grants!NoConnection EXCEPT !.kind = "personal"]
  <2>1. NoRow \in TokenRow /\ ~NoRow.revoked
    BY DEF NoRow, TokenRow
  <2>2. row \in TokenRow /\ row.kind = "personal" /\ ~row.revoked
    BY <2>1 DEF TokenRow
  <2>3. ConnectionOf(row) = [Grants!NoConnection EXCEPT !.kind = "personal"]
    BY DEF NoRow, ConnectionOf, Grants!NoConnection
  <2> QED
    BY <2>2, <2>3
<1>2. /\ token' = [token EXCEPT ![t] = row] /\ token[t].kind = "none"
      /\ UNCHANGED <<code, secrets, exchanges>>
  BY DEF InsertPersonal
<1> HIDE DEF row
<1>3. /\ Answers' = Answers
      /\ Connections' = [Connections EXCEPT ![t] = ConnectionOf(row)]
      /\ Connections[t] = ConnectionOf(token[t])
  BY <1>1, <1>2, GrantsRow DEF IInv
<1>4. Connections[t].kind = "none" /\ Ended' = Ended /\ Spent' = Spent
  <2>1. ~token[t].revoked /\ ~token'[t].revoked /\ \A u \in Tokens \ {t} : token'[u] = token[u]
    BY <1>1, <1>2 DEF IInv, RowInv, TypeOK
  <2> QED
    BY <1>2, <1>3, <2>1 DEF ConnectionOf, Ended, Spent
<1>5. Grants!CreateToken(t)
  BY <1>1, <1>2, <1>3, <1>4 DEF Grants!CreateToken, Answers, Connections, Ended, Spent
<1> QED
  BY <1>5 DEF Grants!GrantsNext

\* ... a rotation, which spends a refresh token that was not spent before, ...
LEMMA GrantsExchange ==
  ASSUME IInv, NEW c \in Calls, Rotate(c), HasSecret(call[c].token, call[c].secret)
  PROVE  [Grants!GrantsNext]_(Grants!grantVars)
<1> USE McpOAuthAssumption
<1>1. PICK t \in Tokens, s \in 1..MaxSecrets :
         /\ t = call[c].token /\ s = call[c].secret
         /\ token[t].kind = "oauth" /\ token[t].secret = s /\ ~token[t].revoked
  BY DEF Rotate, At, HasSecret, IInv, CallInv
<1> DEFINE row == Rotated(token[t], s)
<1>2. /\ token' = [token EXCEPT ![t] = row]
      /\ secrets' = secrets + 1 /\ secrets < MaxSecrets
      /\ exchanges' = [exchanges EXCEPT ![s] = @ + 1]
      /\ UNCHANGED code
  BY <1>1 DEF Rotate
<1>3. token[t] \in TokenRow /\ secrets' \in 0..MaxSecrets /\ s \in 0..MaxSecrets
  BY <1>2 DEF IInv, TypeOK
<1>4. /\ row \in TokenRow /\ row.kind = token[t].kind /\ row.request = token[t].request
      /\ row.secret = secrets' /\ row.revoked = token[t].revoked
  BY <1>2, <1>3 DEF Rotated, TokenRow
<1>5. ConnectionOf(row) = [ConnectionOf(token[t]) EXCEPT !.key = secrets']
  BY <1>4 DEF ConnectionOf
<1> HIDE DEF row
<1>6. /\ Answers' = Answers
      /\ Connections' = [Connections EXCEPT ![t] = ConnectionOf(row)]
      /\ Connections[t] = ConnectionOf(token[t])
  BY <1>2, <1>4, GrantsRow DEF IInv
<1>7. Connections' = [Connections EXCEPT ![t].key = secrets']
  BY <1>5, <1>6
<1>8. /\ Connections[t].kind = "oauth" /\ Connections[t].key = s
      /\ t \notin Ended /\ Ended' = Ended
  <2>1. token'[t].revoked = token[t].revoked /\ \A u \in Tokens \ {t} : token'[u] = token[u]
    BY <1>2, <1>4 DEF IInv, TypeOK
  <2> QED
    BY <1>1, <1>6, <2>1 DEF ConnectionOf, Ended
<1>9. exchanges[s] = 0 /\ exchanges \in [1..MaxSecrets -> Nat]
  BY <1>1 DEF IInv, SecretInv, OAuth, TypeOK
<1>10. Spent' = Spent \cup {s} /\ s \notin Spent
  BY <1>2, <1>9 DEF Spent
<1>11. Grants!Exchange(t)
  BY <1>2, <1>6, <1>7, <1>8, <1>10 DEF Grants!Exchange, Answers, Connections, Ended, Spent
<1> QED
  BY <1>11 DEF Grants!GrantsNext

\* ... and a revocation, which may find the row revoked already.
LEMMA GrantsEnd ==
  ASSUME IInv, NEW t \in Tokens, token[t].kind # "none", token' = Revoked(t),
         UNCHANGED <<code, secrets, exchanges>>
  PROVE  [Grants!GrantsNext]_(Grants!grantVars)
<1> DEFINE row == [token[t] EXCEPT !.revoked = TRUE]
<1>1. token[t] \in TokenRow
  BY DEF IInv, TypeOK
<1>2. /\ row \in TokenRow /\ row.kind = token[t].kind /\ row.request = token[t].request
      /\ row.secret = token[t].secret /\ row.revoked
  BY <1>1 DEF TokenRow
<1>3. token' = [token EXCEPT ![t] = row]
  BY DEF Revoked
<1> HIDE DEF row
<1>4. ConnectionOf(row) = ConnectionOf(token[t])
  BY <1>2 DEF ConnectionOf
<1>5. token'[t] = row /\ \A u \in Tokens \ {t} : token'[u] = token[u]
  BY <1>3 DEF IInv, TypeOK
<1>6. CASE token[t].revoked
  <2>1. \A u \in Tokens : /\ ConnectionOf(token'[u]) = ConnectionOf(token[u])
                          /\ token'[u].revoked <=> token[u].revoked
    BY <1>2, <1>4, <1>5, <1>6
  <2> QED
    BY <2>1, GrantsStutter
<1>7. CASE ~token[t].revoked
  <2>1. /\ Answers' = Answers
        /\ Connections' = [Connections EXCEPT ![t] = ConnectionOf(row)]
        /\ Connections[t] = ConnectionOf(token[t])
    BY <1>2, <1>3, GrantsRow DEF IInv
  <2>2. Connections' = Connections
    BY <1>4, <2>1 DEF Connections
  <2>3. Connections[t].kind # "none" /\ Spent' = Spent
    BY <2>1 DEF ConnectionOf, Spent
  <2>4. t \notin Ended /\ Ended' = Ended \cup {t}
    BY <1>2, <1>5, <1>7 DEF Ended
  <2>5. Grants!End(t)
    BY <2>1, <2>2, <2>3, <2>4 DEF Grants!End, Answers, Connections, Ended, Spent
  <2> QED
    BY <2>5 DEF Grants!GrantsNext
<1> QED
  BY <1>6, <1>7

\* Every step of the endpoint is a step of McpGrants, or leaves it alone.
LEMMA GrantsStep ==
  ASSUME IInv, IInv', [Next]_vars
  PROVE  [Grants!GrantsNext]_(Grants!grantVars)
<1>1. TypeOK /\ GrantInv /\ GrantInv' /\ code \in [Requests -> CodeRow] /\ token \in [Tokens -> TokenRow]
  BY DEF IInv, TypeOK
<1>2. ASSUME \A r \in Requests : code'[r].state = code[r].state,
             UNCHANGED <<token, secrets, exchanges>>
      PROVE  [Grants!GrantsNext]_(Grants!grantVars)
  BY <1>2, GrantsStutter
<1>3. ASSUME NEW c \in Calls, NEW r \in Requests,
             BeginAuthorization(c, r) \/ Redeem(c, r) \/ \E approve \in BOOLEAN : Decide(c, r, approve)
      PROVE  [Grants!GrantsNext]_(Grants!grantVars)
  <2>1. CASE BeginAuthorization(c, r)
    <3>1. /\ code[r].state = "none" /\ code'[r].state = "pending"
          /\ \A q \in Requests \ {r} : code'[q] = code[q]
          /\ UNCHANGED <<token, secrets, exchanges>>
      BY <1>1, <2>1 DEF BeginAuthorization, CodeRow
    <3> QED
      BY <1>1, <3>1, GrantsAnswer
  <2>2. CASE UNCHANGED <<code, token, secrets, exchanges>>
    BY <1>2, <2>2
  <2> QED
    BY <1>3, <2>1, <2>2 DEF Redeem, Decide
<1>4. ASSUME NEW c \in Calls, Deny(c) \/ Approve(c)
      PROVE  [Grants!GrantsNext]_(Grants!grantVars)
  <2>1. PICK r \in Requests : r = call[c].request
    BY <1>4 DEF Deny, Approve, At, IInv, CallInv
  <2>2. UNCHANGED <<token, secrets, exchanges>>
    BY <1>4 DEF Deny, Approve
  <2>3. CASE code' = code
    BY <1>2, <2>2, <2>3
  <2>4. CASE /\ code[r].state = "pending"
             /\ \/ code' = [code EXCEPT ![r].state = "denied", ![r].consumed = TRUE]
                \/ code' = [code EXCEPT ![r].state = "approved"]
    <3>1. /\ code'[r].state \in {"denied", "approved"}
          /\ \A q \in Requests \ {r} : code'[q] = code[q]
      BY <1>1, <2>4 DEF CodeRow
    <3> QED
      BY <1>1, <2>2, <2>4, <3>1, GrantsAnswer
  <2> QED
    BY <1>4, <2>1, <2>3, <2>4 DEF Deny, Approve, Pending
<1>5. ASSUME NEW c \in Calls, PruneStaleRequests(c) \/ Consume(c) \/ RecordIssued(c)
      PROVE  [Grants!GrantsNext]_(Grants!grantVars)
  <2>1. \A r \in Requests : code'[r].state = code[r].state
    <3>1. CASE PruneStaleRequests(c)
      BY <1>1, <3>1 DEF PruneStaleRequests, CodeRow
    <3>2. CASE Consume(c)
      BY <1>1, <3>2 DEF Consume, CodeRow
    <3>3. CASE RecordIssued(c)
      BY <1>1, <3>3 DEF RecordIssued, CodeRow
    <3> QED
      BY <1>5, <3>1, <3>2, <3>3
  <2> QED
    BY <1>2, <1>5, <2>1 DEF PruneStaleRequests, Consume, RecordIssued
<1>6. ASSUME NEW r \in Requests, RequestExpires(r) \/ CodeExpires(r) \/ RequestAges(r)
      PROVE  [Grants!GrantsNext]_(Grants!grantVars)
  <2>1. \A q \in Requests : code'[q].state = code[q].state
    BY <1>1, <1>6 DEF RequestExpires, CodeExpires, RequestAges, CodeRow
  <2> QED
    BY <1>2, <1>6, <2>1 DEF RequestExpires, CodeExpires, RequestAges
<1>7. ASSUME NEW c \in Calls, Rotate(c)
      PROVE  [Grants!GrantsNext]_(Grants!grantVars)
  BY <1>2, <1>7, GrantsExchange DEF Rotate
<1>8. ASSUME NEW c \in Calls, RevokeById(c)
      PROVE  [Grants!GrantsNext]_(Grants!grantVars)
  <2>1. call[c].token \in Tokens /\ token[call[c].token].kind # "none"
    BY <1>8 DEF RevokeById, IInv, CallInv, OAuth
  <2> QED
    BY <1>8, <2>1, GrantsEnd DEF RevokeById
<1>9. ASSUME NEW t \in Tokens, Revoke(t)
      PROVE  [Grants!GrantsNext]_(Grants!grantVars)
  BY <1>9, GrantsEnd DEF Revoke
<1>10. ASSUME NEW t \in Tokens, Lapse(t) \/ GraceEnds(t)
       PROVE  [Grants!GrantsNext]_(Grants!grantVars)
  <2>1. \A u \in Tokens : /\ ConnectionOf(token'[u]) = ConnectionOf(token[u])
                          /\ token'[u].revoked <=> token[u].revoked
    <3>1. CASE Lapse(t)
      BY <1>1, <3>1 DEF Lapse, TokenRow, ConnectionOf
    <3>2. CASE GraceEnds(t)
      BY <1>1, <3>2 DEF GraceEnds, TokenRow, ConnectionOf
    <3> QED
      BY <1>10, <3>1, <3>2
  <2> QED
    BY <1>10, <2>1, GrantsStutter DEF Lapse, GraceEnds
<1>11. ASSUME NEW c \in Calls,
              \/ AssertBelowTokenLimit(c) \/ IssueCounts(c) \/ CheckReused(c) \/ CreatePersonal(c)
              \/ CallDies(c) \/ \E s \in 1..MaxSecrets : Refresh(c, s)
       PROVE  [Grants!GrantsNext]_(Grants!grantVars)
  BY <1>2, <1>11
     DEF AssertBelowTokenLimit, IssueCounts, CheckReused, CreatePersonal, CallDies, Refresh
<1>12. CASE UNCHANGED vars
  BY <1>2, <1>12 DEF vars
<1>13. CASE \E c \in Calls : CallSteps(c)
  BY <1>3, <1>4, <1>5, <1>7, <1>8, <1>11, <1>13, GrantsConnect, GrantsPersonal
     DEF CallSteps, Starting, Answering, Redeeming, Refreshing
<1> QED
  BY <1>6, <1>9, <1>10, <1>12, <1>13 DEF Next, TimeSteps

\* The endpoint's concurrent calls keep the promises of McpGrants.
THEOREM Refinement == Spec => RefinesGrants
<1>1. Init => Grants!GrantsInit
  <2> SUFFICES ASSUME Init PROVE Grants!GrantsInit
    OBVIOUS
  <2>1. \A r \in Requests : AnswerOf(r) = "none"
    BY DEF Init, AnswerOf, NoCode
  <2>2. \A t \in Tokens : ConnectionOf(token[t]) = Grants!NoConnection
    BY DEF Init, NoRow, ConnectionOf, Grants!NoConnection
  <2>3. {t \in Tokens : token[t].revoked} = {} /\ {s \in 1..MaxSecrets : exchanges[s] > 0} = {}
    BY DEF Init, NoRow
  <2> QED
    BY <2>1, <2>2, <2>3 DEF Init, Grants!GrantsInit
<1>2. IInv /\ IInv' /\ [Next]_vars => [Grants!GrantsNext]_(Grants!grantVars)
  BY GrantsStep
<1> QED
  BY <1>1, <1>2, GrantInvariant, PTL DEF Spec, RefinesGrants, Grants!GrantsSpec

=============================================================================
