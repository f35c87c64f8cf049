--------------------------- MODULE McpConnections ---------------------------
(***************************************************************************)
(* A user's connections to MCP servers: the stored credentials, the OAuth  *)
(* authorization that obtains them (authorize, the callback, the exchange  *)
(* of the code), and the runs that use them, refresh a token that is about *)
(* to expire and record on the connection what discovery met.              *)
(*                                                                         *)
(* Tokens are numbered in the order the authorization server issues them;  *)
(* a refresh token has the number of the token it came with.  A            *)
(* transaction of the file store is one step.  In the database a           *)
(* modification reads a row in one step and writes all of it in another.   *)
(***************************************************************************)
EXTENDS Integers, FiniteSets

CONSTANTS
    UserServers,   \* servers with auth mode "user"
    OAuthServers,  \* servers with auth mode "oauth"
    Ids,           \* connection ids, each used once
    Callers,       \* requests of the user and runs
    Backend,       \* "fs" or "db"
    Rotates,       \* whether a refresh replaces the refresh token
    MaxIssued,     \* tokens the authorization server issues
    MaxStates      \* authorizations that are started

None == "none"
Idle == [pc |-> "idle"]
NoConnection == [status |-> "unused", server |-> None, credential |-> FALSE,
                 token |-> 0, refresh |-> 0, age |-> "fresh", state |-> 0]

VARIABLES
    connection,  \* the stored connections
    caller,      \* where a request or a run is
    started,     \* authorizations started, numbered
    codes,       \* authorizations the user approved, their code not yet used
    issued,      \* tokens issued
    valid        \* refresh tokens the authorization server accepts

vars == <<connection, caller, started, codes, issued, valid>>
external == <<started, codes, issued, valid>>

Live(i) == connection[i].status \notin {"unused", "deleted"}
ByServer(s) == {i \in Ids : Live(i) /\ connection[i].server = s}

Init ==
    /\ connection = [i \in Ids |-> NoConnection]
    /\ caller = [c \in Callers |-> Idle]
    /\ started = 0 /\ codes = {} /\ issued = 0 /\ valid = {}

Goto(c, at) == caller' = [caller EXCEPT ![c] = at]

-----------------------------------------------------------------------------
(* The store. *)

(* createMcpConnection writes the file; the id is new. *)
CreateFile(c, new, then) ==
    /\ \E i \in Ids : connection[i] = NoConnection /\ connection' = [connection EXCEPT ![i] = new]
    /\ Goto(c, then)

CreateRow(c, new, then) ==
    /\ Goto(c, [pc |-> "insert", new |-> new, then |-> then])
    /\ UNCHANGED connection

InsertRow(c) ==
    /\ caller[c].pc = "insert"
    /\ \E i \in Ids : connection[i] = NoConnection /\ connection' = [connection EXCEPT ![i] = caller[c].new]
    /\ Goto(c, caller[c].then)
    /\ UNCHANGED external

(* modifyMcpConnection: a missing file is an error, which callers ignore or *)
(* report.                                                                  *)
ModifyFile(c, i, new, then) ==
    /\ connection' = IF Live(i) THEN [connection EXCEPT ![i] = new] ELSE connection
    /\ Goto(c, then)

ModifyRow(c, i, new, then) ==
    /\ Goto(c, IF Live(i) THEN [pc |-> "update", id |-> i, new |-> new, then |-> then] ELSE then)
    /\ UNCHANGED connection

(* Mutant of UpdateRow: the row is saved, which inserts a missing one. *)
SaveRow(c) ==
    /\ caller[c].pc = "update"
    /\ connection' = [connection EXCEPT ![caller[c].id] = caller[c].new]
    /\ Goto(c, caller[c].then)
    /\ UNCHANGED external

UpdateRow(c) ==
    /\ caller[c].pc = "update"
    /\ connection' = IF Live(caller[c].id) THEN [connection EXCEPT ![caller[c].id] = caller[c].new] ELSE connection
    /\ Goto(c, caller[c].then)
    /\ UNCHANGED external

Create(c, new, then) == IF Backend = "fs" THEN CreateFile(c, new, then) ELSE CreateRow(c, new, then)
Modify(c, i, new, then) == IF Backend = "fs" THEN ModifyFile(c, i, new, then) ELSE ModifyRow(c, i, new, then)

-----------------------------------------------------------------------------
(* Requests of the user. *)

(* Mutant of MayCreate: the connection is not looked for. *)
MayAlwaysCreate(s) == TRUE

MayCreate(s) == ByServer(s) = {}

(* handleMcpConnectionsCreate *)
HandleMcpConnectionsCreate(c, s) ==
    /\ caller[c] = Idle
    /\ MayCreate(s)
    /\ Create(c, [NoConnection EXCEPT !.status = "connected", !.server = s, !.credential = TRUE], Idle)
    /\ UNCHANGED external

HandleMcpConnectionsDelete(c, i) ==
    /\ caller[c] = Idle
    /\ Live(i)
    /\ connection' = [connection EXCEPT ![i] = [NoConnection EXCEPT !.status = "deleted"]]
    /\ UNCHANGED <<caller, external>>

(* handleMcpConnectionsAuthorize: discovery and registration between two    *)
(* transactions; if they fail nothing is stored.                            *)
HandleMcpConnectionsAuthorize(c, s) ==
    /\ caller[c] = Idle
    /\ started < MaxStates
    /\ started' = started + 1
    /\ Goto(c, [pc |-> "upsert", server |-> s, state |-> started + 1])
    /\ UNCHANGED <<connection, codes, issued, valid>>

UpsertPending(c) ==
    /\ caller[c].pc = "upsert"
    /\ LET existing == ByServer(caller[c].server) IN
       \/ \E i \in existing :
            Modify(c, i, [connection[i] EXCEPT !.status = "pending", !.state = caller[c].state], Idle)
       \/ /\ existing = {}
          /\ Create(c, [NoConnection EXCEPT !.status = "pending", !.server = caller[c].server,
                                            !.state = caller[c].state], Idle)
    /\ UNCHANGED external

(* The user approves at the authorization server, external. *)
Approve ==
    /\ \E a \in 1..started :
        /\ a \notin codes /\ \A c \in Callers : (caller[c].pc = "upsert" => caller[c].state # a)
        /\ codes' = codes \cup {a}
    /\ UNCHANGED <<connection, caller, started, issued, valid>>

(* completeMcpOAuth: the pending connection is found by the state. *)
HandleMcpOAuthCallback(c, a) ==
    /\ caller[c] = Idle
    /\ a \in codes
    /\ \E i \in Ids :
        /\ Live(i) /\ connection[i].state = a
        /\ Goto(c, [pc |-> "exchange", id |-> i, state |-> a])
    /\ UNCHANGED <<connection, external>>

(* ExchangeCode: the server takes a code once.  The request may also fail. *)
ExchangeCode(c) ==
    /\ caller[c].pc = "exchange"
    /\ \/ /\ caller[c].state \in codes /\ issued < MaxIssued
          /\ codes' = codes \ {caller[c].state}
          /\ issued' = issued + 1
          /\ valid' = valid \cup {issued + 1}
          /\ Goto(c, [pc |-> "apply", id |-> caller[c].id, token |-> issued + 1])
       \/ /\ Goto(c, [pc |-> "mark", id |-> caller[c].id])
          /\ UNCHANGED <<codes, issued, valid>>
    /\ UNCHANGED <<connection, started>>

(* ApplyOAuthToken: a refresh without a new refresh token keeps the old one.*)
ApplyOAuthToken(record, token, refresh) ==
    [record EXCEPT !.status = "connected", !.token = token, !.age = "fresh",
                   !.refresh = IF refresh = 0 THEN @ ELSE refresh]

(* The callback also clears what the authorization left. *)
StoreExchanged(c) ==
    /\ caller[c].pc = "apply"
    /\ LET i == caller[c].id IN
       Modify(c, i, [ApplyOAuthToken(connection[i], caller[c].token, caller[c].token) EXCEPT !.state = 0], Idle)
    /\ UNCHANGED external

MarkMcpConnectionError(c) ==
    /\ caller[c].pc = "mark"
    /\ LET i == caller[c].id IN
       Modify(c, i, [connection[i] EXCEPT !.status = "error", !.state = 0], Idle)
    /\ UNCHANGED external

-----------------------------------------------------------------------------
(* Runs. *)

(* oauthAuthorization: what is done with the token of a connection. *)
OauthAuthorization(record) ==
    CASE record.token = 0 -> "skip"
      [] record.age = "fresh" -> "discover"
      [] record.age # "fresh" /\ record.refresh # 0 -> "refresh"
      [] record.age = "leeway" /\ record.refresh = 0 -> "discover"
      [] record.age = "expired" /\ record.refresh = 0 -> "skip"

(* Mutant of AuthorizationForConnection: a missing token goes unnoticed. *)
AuthorizationUnchecked(record) ==
    IF record.server \in UserServers THEN "discover"
    ELSE IF record.token = 0 THEN "discover" ELSE OauthAuthorization(record)

AuthorizationForConnection(record) ==
    IF record.server \in UserServers THEN IF record.credential THEN "discover" ELSE "skip"
    ELSE OauthAuthorization(record)

(* resolveServers, and resolveUserServers for one of the connections. *)
ResolveUserServers(c, i) ==
    /\ caller[c] = Idle
    /\ Live(i)
    /\ AuthorizationForConnection(connection[i]) # "skip"
    /\ Goto(c, [pc |-> AuthorizationForConnection(connection[i]), id |-> i,
                refresh |-> connection[i].refresh, expired |-> connection[i].age = "expired"])
    /\ UNCHANGED <<connection, external>>

Discovering(c) == [pc |-> "discover", id |-> caller[c].id]

(* refreshOAuthToken: a token that has not expired yet is used if the       *)
(* refresh fails, an expired one is given up with an error.                 *)
RefreshOAuthToken(c) ==
    /\ caller[c].pc = "refresh"
    /\ \/ /\ caller[c].refresh \in valid /\ issued < MaxIssued
          /\ issued' = issued + 1
          /\ valid' = IF Rotates THEN (valid \ {caller[c].refresh}) \cup {issued + 1} ELSE valid
          /\ Goto(c, [pc |-> "persist", id |-> caller[c].id, token |-> issued + 1])
       \/ /\ Goto(c, IF caller[c].expired THEN [pc |-> "give up", id |-> caller[c].id] ELSE Discovering(c))
          /\ UNCHANGED <<issued, valid>>
    /\ UNCHANGED <<connection, started, codes>>

PersistRefreshed(c) ==
    /\ caller[c].pc = "persist"
    /\ LET i == caller[c].id IN
       Modify(c, i, ApplyOAuthToken(connection[i], caller[c].token, IF Rotates THEN caller[c].token ELSE 0),
              Discovering(c))
    /\ UNCHANGED external

MarkConnectionError(c, i) == Modify(c, i, [connection[i] EXCEPT !.status = "error"], Idle)
MarkConnectionConnected(c, i) == Modify(c, i, [connection[i] EXCEPT !.status = "connected"], Idle)

GiveUp(c) ==
    /\ caller[c].pc = "give up"
    /\ MarkConnectionError(c, caller[c].id)
    /\ UNCHANGED external

(* RegisterTools and recordDiscoveryOutcomes: a cached result is not        *)
(* recorded.                                                                *)
RecordDiscoveryOutcomes(c) ==
    /\ caller[c].pc = "discover"
    /\ \/ MarkConnectionError(c, caller[c].id)
       \/ MarkConnectionConnected(c, caller[c].id)
       \/ Goto(c, Idle) /\ UNCHANGED connection
    /\ UNCHANGED external

(* Time passes for a token: within the leeway of its expiry, then past it. *)
Age(i) ==
    /\ Live(i) /\ connection[i].token # 0 /\ connection[i].age # "expired"
    /\ connection' = [connection EXCEPT ![i].age = IF @ = "fresh" THEN "leeway" ELSE "expired"]
    /\ UNCHANGED <<caller, external>>

-----------------------------------------------------------------------------
Next ==
    \/ \E c \in Callers :
        \/ \E s \in UserServers : HandleMcpConnectionsCreate(c, s)
        \/ \E s \in OAuthServers : HandleMcpConnectionsAuthorize(c, s)
        \/ \E i \in Ids : HandleMcpConnectionsDelete(c, i) \/ ResolveUserServers(c, i)
        \/ \E a \in 1..MaxStates : HandleMcpOAuthCallback(c, a)
        \/ UpsertPending(c) \/ ExchangeCode(c) \/ StoreExchanged(c) \/ MarkMcpConnectionError(c)
        \/ RefreshOAuthToken(c) \/ PersistRefreshed(c) \/ GiveUp(c) \/ RecordDiscoveryOutcomes(c)
        \/ InsertRow(c) \/ UpdateRow(c)
    \/ Approve
    \/ \E i \in Ids : Age(i)

Spec == Init /\ [][Next]_vars

-----------------------------------------------------------------------------
TypeOK ==
    /\ connection \in [Ids -> [status : {"unused", "deleted", "pending", "connected", "error"},
                               server : UserServers \cup OAuthServers \cup {None}, credential : BOOLEAN,
                               token : 0..MaxIssued, refresh : 0..MaxIssued,
                               age : {"fresh", "leeway", "expired"}, state : 0..MaxStates]]
    /\ \A c \in Callers : caller[c].pc \in {"idle", "insert", "update", "upsert", "exchange", "apply", "mark",
                                             "discover", "refresh", "persist", "give up"}
    /\ started \in 0..MaxStates /\ codes \subseteq 1..MaxStates
    /\ issued \in 0..MaxIssued /\ valid \subseteq 1..MaxIssued

(* A user has one connection to a server, however creations, authorizations *)
(* and deletions interleave (rpc_mcp.go looks for one before it creates).   *)
(* The database does not satisfy it: nothing makes the check and the insert *)
(* one step.                                                                *)
OneConnectionPerServer == \A s \in UserServers \cup OAuthServers : Cardinality(ByServer(s)) <= 1

(* A connection shown as connected has a credential, through authorizations *)
(* that are begun again, callbacks that fail and discoveries that end late. *)
ConnectedHasCredential ==
    \A i \in Ids : connection[i].status = "connected" => connection[i].credential \/ connection[i].token # 0

(* A run that ends, a refresh or a callback does not bring a connection     *)
(* back that the user has deleted.                                          *)
ConnectionStaysGone ==
    \A i \in Ids : connection[i].status = "deleted" => connection'[i].status = "deleted"

(* A stored token is replaced by younger ones only.  The code does not      *)
(* satisfy it: a refresh is persisted after an authorization that ended     *)
(* meanwhile, and the database writes back whole rows.                      *)
TokenNotOlder == [][\A i \in Ids : Live(i) /\ Live(i)' => connection'[i].token >= connection[i].token]_vars
=============================================================================
