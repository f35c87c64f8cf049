------------------------------ MODULE Accounts ------------------------------
(***************************************************************************)
(* Users, sessions, tokens and the WebSocket connections they open: the    *)
(* handlers of api/auth.go, rpc_auth.go, rpc_users.go and rpc_profile.go,  *)
(* the authentication middleware, and the users, sessions and tokens of    *)
(* the two stores.                                                         *)
(*                                                                         *)
(* Backend "fs" is fsstore: a transaction holds the store's mutex, writes  *)
(* at once and undoes nothing.  A user is a directory; its sessions and    *)
(* tokens are files in it.  Backend "db" is dbstore: transactions run side *)
(* by side at READ COMMITTED, so a ModifyX, which reads the row and later  *)
(* writes all its columns, is two steps.  A connection answers one request *)
(* at a time and keeps the user it was opened with.                        *)
(***************************************************************************)
EXTENDS Integers, FiniteSets

CONSTANTS
    Users,       \* user ids; an id is used once
    Names,       \* usernames
    Sessions,    \* session ids; an id is used once
    Tokens,      \* token ids; an id is used once
    Clients,     \* connections, each opened again after it has ended
    Setups,      \* requests to /api/auth/setup
    Backend,     \* "fs" or "db"
    MayFail      \* whether a store operation may fail

Passwords == {"first", "second"}
NoUser == [name |-> "none", admin |-> FALSE, password |-> "none", profile |-> 0]
Idle == [pc |-> "idle"]
Off == [user |-> {}, admin |-> FALSE, session |-> {}]

VARIABLES
    account,     \* users/<id>/user.yaml, or the row of users
    folder,      \* fs: the directories under users/
    usedIds,     \* ids of users that were ever created
    sessionOf,   \* the session's user and age, or "unused", "gone"
    tokenOf,     \* the token's user, or "unused", "gone"
    client,      \* what the context of a connection holds
    request,     \* the transaction a connection is in: its target and what it will write
    setup,       \* handleAuthSetup
    refused      \* setup requests that were answered with an error

vars == <<account, folder, usedIds, sessionOf, tokenOf, client, request, setup, refused>>

Exists(u) == account[u] # NoUser
Live(s) == sessionOf[s].pc = "live"
Held(t) == tokenOf[t].pc = "live"
Writing == {c \in Clients : request[c].pc = "write"}

(* fileSystemStore.Transaction: the mutex. *)
Serialized == Backend = "fs" => Writing = {}

Init ==
    /\ account = [u \in Users |-> NoUser]
    /\ folder = {} /\ usedIds = {} /\ refused = {}
    /\ sessionOf = [s \in Sessions |-> [pc |-> "unused"]]
    /\ tokenOf = [t \in Tokens |-> [pc |-> "unused"]]
    /\ client = [c \in Clients |-> Off]
    /\ request = [c \in Clients |-> Idle]
    /\ setup = [p \in Setups |-> "idle"]

-----------------------------------------------------------------------------
(* The stores. *)

(* getUserByUsername of fsstore: the first of the records that match. *)
UsersNamed(n) == {u \in Users : account[u].name = n}

(* createUser: a look at every record, and a directory with user.yaml and   *)
(* the seed files.                                                          *)
CreateUserFile(u, record) ==
    /\ UsersNamed(record.name) = {}
    /\ account' = [account EXCEPT ![u] = record]
    /\ folder' = folder \cup {u}

(* dbstore.CreateUser: the unique index. *)
CreateUserRow(u, record) ==
    /\ \A v \in Users : account[v].name # record.name
    /\ account' = [account EXCEPT ![u] = record]
    /\ UNCHANGED folder

(* onboarding.CreateUser.  Its conversation is Conversations!Init. *)
CreateUser(u, n, isAdmin) ==
    /\ u \notin usedIds
    /\ LET record == [name |-> n, admin |-> isAdmin, password |-> "first", profile |-> 0] IN
       IF Backend = "fs" THEN CreateUserFile(u, record) ELSE CreateUserRow(u, record)
    /\ usedIds' = usedIds \cup {u}

(* createSession of fsstore, CreateSession of dbstore. *)
CreateSession(s, u) ==
    /\ sessionOf[s].pc = "unused"
    /\ sessionOf' = [sessionOf EXCEPT ![s] = [pc |-> "live", user |-> u, age |-> "new"]]

DeleteSession(s) == sessionOf' = [sessionOf EXCEPT ![s] = [pc |-> "gone"]]

(* Mutant of TouchSession: an upsert. *)
TouchAnySession(s) ==
    sessionOf' = [sessionOf EXCEPT ![s] = [pc |-> "live", user |-> CHOOSE u \in Users : TRUE, age |-> "new"]]

(* modifySession, after GetSession: a row that is gone is not updated. *)
TouchSession(s) ==
    sessionOf' = IF Live(s) THEN [sessionOf EXCEPT ![s].age = "new"] ELSE sessionOf

(* Mutant of DropSessionsOf: nothing cascades. *)
KeepSessionsOf(u) == UNCHANGED sessionOf

(* The sessions go with the user's directory, or ON DELETE CASCADE. *)
DropSessionsOf(u) ==
    sessionOf' = [s \in Sessions |->
                     IF Live(s) /\ sessionOf[s].user = u THEN [pc |-> "gone"] ELSE sessionOf[s]]

DropTokensOf(u) ==
    tokenOf' = [t \in Tokens |->
                   IF Held(t) /\ tokenOf[t].user = u THEN [pc |-> "gone"] ELSE tokenOf[t]]

(* deleteUser: a directory without user.yaml is not found. *)
DeleteUser(u) ==
    /\ Exists(u)
    /\ account' = [account EXCEPT ![u] = NoUser]
    /\ folder' = folder \ {u}
    /\ DropSessionsOf(u) /\ DropTokensOf(u)

(* createToken of fsstore makes the directory it writes to. *)
CreateTokenFile(t, u) ==
    /\ tokenOf' = [tokenOf EXCEPT ![t] = [pc |-> "live", user |-> u]]
    /\ folder' = folder \cup {u}

(* CreateToken of dbstore: the foreign key has to hold. *)
CreateTokenRow(t, u) ==
    /\ IF Exists(u) THEN tokenOf' = [tokenOf EXCEPT ![t] = [pc |-> "live", user |-> u]]
       ELSE UNCHANGED tokenOf
    /\ UNCHANGED folder

DeleteToken(t) == tokenOf' = [tokenOf EXCEPT ![t] = [pc |-> "gone"]]

(* modifyUser of fsstore writes the fields of the record, whatever the      *)
(* other users are called.                                                  *)
WriteUserFile(u, record) == account' = [account EXCEPT ![u] = record]

(* Mutant of WriteUserRow: no unique index. *)
WriteUnchecked(u, record) ==
    account' = IF Exists(u) THEN [account EXCEPT ![u] = record] ELSE account

(* ModifyUser of dbstore updates every column.  The row may be gone, and    *)
(* the unique index refuses the name of another user.                       *)
WriteUserRow(u, record) ==
    account' = IF Exists(u) /\ UsersNamed(record.name) \subseteq {u}
               THEN [account EXCEPT ![u] = record] ELSE account

-----------------------------------------------------------------------------
(* Requests without a connection. *)

(* handleAuthSetup looks for a password in one transaction... *)
HandleAuthSetup(p) ==
    /\ setup[p] = "idle" /\ Serialized
    /\ IF \E u \in Users : Exists(u)
       THEN setup' = [setup EXCEPT ![p] = "conflict"]
       ELSE setup' = [setup EXCEPT ![p] = "checked"]
    /\ UNCHANGED <<account, folder, usedIds, sessionOf, tokenOf, client, request, refused>>

(* ... and creates the user and its session in another. *)
HandleAuthSetupCreate(p) ==
    /\ setup[p] = "checked" /\ Serialized
    /\ \E n \in Names :
        \/ /\ UsersNamed(n) # {}
           /\ setup' = [setup EXCEPT ![p] = "conflict"]
           /\ UNCHANGED <<account, folder, usedIds, sessionOf>>
        \/ /\ \E u \in Users : CreateUser(u, n, TRUE) /\ \E s \in Sessions : CreateSession(s, u)
           /\ setup' = [setup EXCEPT ![p] = "done"]
    /\ UNCHANGED <<tokenOf, client, request, refused>>

(* Mutant of FailedTransaction: the transaction is committed nevertheless. *)
CommitOnError(u, n) == CreateUser(u, n, TRUE)

(* A transaction that fails after CreateUser: dbstore rolls it back, in     *)
(* fsstore what is written stays.                                           *)
FailedTransaction(u, n) ==
    IF Backend = "fs" THEN CreateUser(u, n, TRUE)
    ELSE usedIds' = usedIds \cup {u} /\ UNCHANGED <<account, folder>>

HandleAuthSetupFails(p) ==
    /\ MayFail /\ setup[p] = "checked" /\ Serialized
    /\ \E u \in Users, n \in Names :
        /\ UsersNamed(n) = {} /\ u \notin usedIds
        /\ FailedTransaction(u, n)
        /\ refused' = refused \cup {u}
    /\ setup' = [setup EXCEPT ![p] = "failed"]
    /\ UNCHANGED <<sessionOf, tokenOf, client, request>>

(* handleAuthLogin. *)
HandleAuthLogin(n, w) ==
    /\ Serialized
    /\ \E u \in UsersNamed(n), s \in Sessions :
        account[u].password = w /\ CreateSession(s, u)
    /\ UNCHANGED <<account, folder, usedIds, tokenOf, client, request, setup, refused>>

HandleAuthLogout(s) ==
    /\ Live(s) /\ Serialized
    /\ DeleteSession(s)
    /\ UNCHANGED <<account, folder, usedIds, tokenOf, client, request, setup, refused>>

(* Time passes: an hour after it was touched the session is touched again, *)
(* two weeks after it is over.                                              *)
SessionAges(s) ==
    /\ Live(s) /\ sessionOf[s].age # "expired"
    /\ sessionOf' = [sessionOf EXCEPT ![s].age = IF @ = "new" THEN "stale" ELSE "expired"]
    /\ UNCHANGED <<account, folder, usedIds, tokenOf, client, request, setup, refused>>

-----------------------------------------------------------------------------
(* MakeAuthenticationMiddleware and handleWebSocket. *)

(* newWebSocketConnection: the context keeps the user that was found. *)
Connected(u, s) == [user |-> {u}, admin |-> account[u].admin, session |-> s]

(* checkSession reads the session and its user.  An expired one is removed  *)
(* and a stale one is written back.                                         *)
CheckSession(c, s) ==
    /\ client[c] = Off /\ request[c] = Idle /\ Live(s) /\ Serialized
    /\ \/ /\ sessionOf[s].age = "expired"
          /\ DeleteSession(s)
          /\ UNCHANGED <<client, request>>
       \/ /\ sessionOf[s].age = "new" /\ Exists(sessionOf[s].user)
          /\ client' = [client EXCEPT ![c] = Connected(sessionOf[s].user, {s})]
          /\ UNCHANGED <<sessionOf, request>>
       \/ /\ sessionOf[s].age = "stale" /\ Exists(sessionOf[s].user)
          /\ request' = [request EXCEPT ![c] =
                 [pc |-> "write", what |-> "session", session |-> s,
                  client |-> Connected(sessionOf[s].user, {s})]]
          /\ UNCHANGED <<sessionOf, client>>
    /\ UNCHANGED <<account, folder, usedIds, tokenOf, setup, refused>>

(* ModifySession answers with the session, or with an error if it is gone. *)
CheckSessionWrites(c) ==
    /\ request[c].pc = "write" /\ request[c].what = "session"
    /\ TouchSession(request[c].session)
    /\ client' = [client EXCEPT ![c] = IF Live(request[c].session) THEN request[c].client ELSE Off]
    /\ request' = [request EXCEPT ![c] = Idle]
    /\ UNCHANGED <<account, folder, usedIds, tokenOf, setup, refused>>

(* checkToken.  The time of its last use is not kept. *)
CheckToken(c, t) ==
    /\ client[c] = Off /\ request[c] = Idle /\ Held(t) /\ Serialized
    /\ Exists(tokenOf[t].user)
    /\ client' = [client EXCEPT ![c] = Connected(tokenOf[t].user, {})]
    /\ UNCHANGED <<account, folder, usedIds, sessionOf, tokenOf, request, setup, refused>>

(* serve ends. *)
Disconnect(c) ==
    /\ client[c] # Off /\ request[c] = Idle
    /\ client' = [client EXCEPT ![c] = Off]
    /\ UNCHANGED <<account, folder, usedIds, sessionOf, tokenOf, request, setup, refused>>

-----------------------------------------------------------------------------
(* Requests of a connection. *)

Ready(c) == client[c] # Off /\ request[c] = Idle /\ Serialized

(* requireAdmin goes by the user in the context. *)
RequireAdmin(c) == client[c].admin

HandleSessionsRevoke(c, s) ==
    /\ Ready(c) /\ s \notin client[c].session
    /\ Live(s) /\ sessionOf[s].user \in client[c].user
    /\ DeleteSession(s)
    /\ UNCHANGED <<account, folder, usedIds, tokenOf, client, request, setup, refused>>

HandleAuthTokensCreate(c, t) ==
    /\ Ready(c) /\ tokenOf[t].pc = "unused"
    /\ \E u \in client[c].user :
        IF Backend = "fs" THEN CreateTokenFile(t, u) ELSE CreateTokenRow(t, u)
    /\ UNCHANGED <<account, usedIds, sessionOf, client, request, setup, refused>>

HandleAuthTokensDelete(c, t) ==
    /\ Ready(c) /\ Held(t) /\ tokenOf[t].user \in client[c].user
    /\ DeleteToken(t)
    /\ UNCHANGED <<account, folder, usedIds, sessionOf, client, request, setup, refused>>

HandleUsersCreate(c, u, n) ==
    /\ Ready(c) /\ RequireAdmin(c)
    /\ CreateUser(u, n, FALSE)
    /\ UNCHANGED <<sessionOf, tokenOf, client, request, setup, refused>>

HandleUsersDelete(c, u) ==
    /\ Ready(c) /\ RequireAdmin(c) /\ u \notin client[c].user
    /\ DeleteUser(u)
    /\ UNCHANGED <<usedIds, client, request, setup, refused>>

(* ModifyUser reads the user and runs the modifier. *)
BeginModify(c, u, record) ==
    /\ Ready(c) /\ Exists(u)
    /\ request' = [request EXCEPT ![c] =
                       [pc |-> "write", what |-> "user", user |-> u, record |-> record]]
    /\ UNCHANGED <<account, folder, usedIds, sessionOf, tokenOf, client, setup, refused>>

(* ... and writes it.  The read back at the end changes nothing. *)
EndModify(c) ==
    /\ request[c].pc = "write" /\ request[c].what = "user"
    /\ IF Backend = "fs" THEN WriteUserFile(request[c].user, request[c].record)
       ELSE WriteUserRow(request[c].user, request[c].record)
    /\ request' = [request EXCEPT ![c] = Idle]
    /\ UNCHANGED <<folder, usedIds, sessionOf, tokenOf, client, setup, refused>>

HandleAuthChangePassword(c, old, new) ==
    \E u \in client[c].user :
        /\ account[u].password = old
        /\ BeginModify(c, u, [account[u] EXCEPT !.password = new])

HandleUsersChangePassword(c, u, new) ==
    /\ RequireAdmin(c) /\ u \notin client[c].user
    /\ BeginModify(c, u, [account[u] EXCEPT !.password = new])

HandleUsersUpdate(c, u, n) ==
    /\ RequireAdmin(c) /\ u \notin client[c].user
    /\ BeginModify(c, u, [account[u] EXCEPT !.name = n])

HandleUsersSetRole(c, u, isAdmin) ==
    /\ RequireAdmin(c) /\ u \notin client[c].user
    /\ BeginModify(c, u, [account[u] EXCEPT !.admin = isAdmin])

HandleProfileUpdate(c) ==
    \E u \in client[c].user : BeginModify(c, u, [account[u] EXCEPT !.profile = 1])

HandleProfileAvatarRemove(c) ==
    \E u \in client[c].user : BeginModify(c, u, [account[u] EXCEPT !.profile = 0])

-----------------------------------------------------------------------------
ClientRequest(c) ==
    \/ \E s \in Sessions : CheckSession(c, s) \/ HandleSessionsRevoke(c, s)
    \/ \E t \in Tokens :
        CheckToken(c, t) \/ HandleAuthTokensCreate(c, t) \/ HandleAuthTokensDelete(c, t)
    \/ \E u \in Users :
        \/ \E n \in Names : HandleUsersCreate(c, u, n) \/ HandleUsersUpdate(c, u, n)
        \/ HandleUsersDelete(c, u)
        \/ \E w \in Passwords : HandleUsersChangePassword(c, u, w)
        \/ \E b \in BOOLEAN : HandleUsersSetRole(c, u, b)
    \/ \E old, new \in Passwords : HandleAuthChangePassword(c, old, new)
    \/ HandleProfileUpdate(c) \/ HandleProfileAvatarRemove(c)
    \/ CheckSessionWrites(c) \/ EndModify(c) \/ Disconnect(c)

Next ==
    \/ \E p \in Setups : HandleAuthSetup(p) \/ HandleAuthSetupCreate(p) \/ HandleAuthSetupFails(p)
    \/ \E n \in Names, w \in Passwords : HandleAuthLogin(n, w)
    \/ \E s \in Sessions : HandleAuthLogout(s) \/ SessionAges(s)
    \/ \E c \in Clients : ClientRequest(c)

Spec == Init /\ [][Next]_vars

-----------------------------------------------------------------------------
(* Properties. *)

Records == [name : Names \cup {"none"}, admin : BOOLEAN,
            password : Passwords \cup {"none"}, profile : {0, 1}]
ClientStates == [user : SUBSET Users, admin : BOOLEAN, session : SUBSET Sessions]

TypeOK ==
    /\ account \in [Users -> Records]
    /\ folder \subseteq Users /\ usedIds \subseteq Users /\ refused \subseteq Users
    /\ \A s \in Sessions : Live(s) =>
        sessionOf[s].user \in Users /\ sessionOf[s].age \in {"new", "stale", "expired"}
    /\ \A t \in Tokens : Held(t) => tokenOf[t].user \in Users
    /\ client \in [Clients -> ClientStates]
    /\ \A c \in Clients : request[c].pc = "write" => request[c].what \in {"session", "user"}
    /\ setup \in [Setups -> {"idle", "checked", "done", "conflict", "failed"}]

(* DeleteUser, CheckSession: whatever runs at the same time, a session that *)
(* is in the store is one of a user that is in the store.                   *)
SessionHasUser == \A s \in Sessions : Live(s) => Exists(sessionOf[s].user)

(* handleSessionsRevoke, handleAuthLogout, checkSession: a session that was *)
(* revoked or ended does not come back, not even when a request that was    *)
(* let in with it writes it back afterwards.                                *)
GoneStaysGone ==
    \A s \in Sessions : sessionOf[s].pc = "gone" => sessionOf'[s].pc = "gone"

(* createUser "Check username uniqueness", users_username_unique_index: two *)
(* users never have the same name.                                          *)
UsernamesUnique == \A n \in Names : Cardinality(UsersNamed(n)) <= 1

(* onboarding.CreateUser, "all within the caller-provided transaction": a   *)
(* setup that was answered with an error has left no user behind.           *)
RefusedLeavesNothing == \A u \in refused : ~ Exists(u)

(* listUserRecords: what is listed as a user is one. *)
FoldersAreUsers == Backend = "fs" => folder \subseteq {u \in Users : Exists(u)}

(* handleAuthSetup "handles first-time password setup": it succeeds once. *)
SetupOnce == Cardinality({p \in Setups : setup[p] = "done"}) <= 1

(* handleUsersDelete, handleUsersSetRole refuse one's own account: an       *)
(* administrator remains.                                                   *)
AdminRemains ==
    (\E u \in Users : Exists(u)) => \E u \in Users : account[u].admin
=============================================================================
