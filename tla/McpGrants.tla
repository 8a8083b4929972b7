------------------------------ MODULE McpGrants ------------------------------
(***************************************************************************)
(* What connecting a client to the MCP endpoint promises its user, with no *)
(* concurrent calls, codes or time in sight.  A request is answered once.  *)
(* An approved one becomes a connection at most once.  A connection has    *)
(* one current refresh token, which is exchanged for a new one at most     *)
(* once and only while the connection lasts.  An ended connection is never *)
(* revived.                                                                *)
(***************************************************************************)
EXTENDS Naturals

CONSTANTS
    Requests,    \* authorization requests
    NoRequest,   \* the request of a personal token
    Tokens       \* connections and personal tokens

VARIABLES
    answer,      \* answer[r]: none, pending, denied, approved, granted
    connection,  \* connection[t]: kind, request, current refresh token
    ended,       \* connections and personal tokens that were revoked
    minted,      \* refresh tokens generated so far
    spent        \* refresh tokens that were exchanged

grantVars == <<answer, connection, ended, minted, spent>>

NoConnection == [kind |-> "none", request |-> NoRequest, key |-> 0]

GrantsInit ==
    /\ answer = [r \in Requests |-> "none"]
    /\ connection = [t \in Tokens |-> NoConnection]
    /\ ended = {}
    /\ minted = 0
    /\ spent = {}

Ask(r) ==
    /\ answer[r] = "none"
    /\ answer' = [answer EXCEPT ![r] = "pending"]
    /\ UNCHANGED <<connection, ended, minted, spent>>

Answer(r, a) ==
    /\ answer[r] = "pending"
    /\ answer' = [answer EXCEPT ![r] = a]
    /\ UNCHANGED <<connection, ended, minted, spent>>

Connect(r, t) ==
    /\ answer[r] = "approved"
    /\ connection[t].kind = "none"
    /\ minted' = minted + 1
    /\ answer' = [answer EXCEPT ![r] = "granted"]
    /\ connection' = [connection EXCEPT ![t] =
                         [kind |-> "oauth", request |-> r, key |-> minted']]
    /\ UNCHANGED <<ended, spent>>

CreateToken(t) ==
    /\ connection[t].kind = "none"
    /\ connection' = [connection EXCEPT ![t] = [NoConnection EXCEPT !.kind = "personal"]]
    /\ UNCHANGED <<answer, ended, minted, spent>>

Exchange(t) ==
    /\ connection[t].kind = "oauth" /\ t \notin ended
    /\ connection[t].key \notin spent
    /\ minted' = minted + 1
    /\ spent' = spent \cup {connection[t].key}
    /\ connection' = [connection EXCEPT ![t].key = minted']
    /\ UNCHANGED <<answer, ended>>

End(t) ==
    /\ connection[t].kind # "none" /\ t \notin ended
    /\ ended' = ended \cup {t}
    /\ UNCHANGED <<answer, connection, minted, spent>>

GrantsNext ==
    \/ \E r \in Requests :
          \/ Ask(r)
          \/ \E a \in {"denied", "approved"} : Answer(r, a)
          \/ \E t \in Tokens : Connect(r, t)
    \/ \E t \in Tokens : CreateToken(t) \/ Exchange(t) \/ End(t)

GrantsSpec == GrantsInit /\ [][GrantsNext]_grantVars

=============================================================================
