------------------------------ MODULE MCStores ------------------------------
(***************************************************************************)
(* The records of the node, kind by kind, in the file store and in the     *)
(* database, on small instances.  A behaviour is one of a single kind and  *)
(* a single store: the kinds share no state, so that their behaviours side *)
(* by side are all there is to explore.  The configuration in the file and *)
(* the constants of memory, history and summaries are those of the modules *)
(* it extends; what is explored in either store is an instance.            *)
(***************************************************************************)
EXTENDS Records

CONSTANT Kinds   \* the kinds of records to explore

VARIABLES
    kind,
    account, folder, accountIds, sessionOf, tokenOf, client, accountRequest, setup, refused,
    savedRow, rowWriter, rowAnswer, rowMutex,
    file, trashed, fileCaller, answered, replaced,
    alive, projectIds, name, renamed, todo, todoCall,
    connection, mcpCaller, started, codes, issued, valid,
    published, skill, skillCaller, skillAsked, offered,
    agent, default, seen, agentCaller, agentAsked, chain,
    job, scheduler, executing, jobCall, armed, fired, runs

accountVars == <<account, folder, accountIds, sessionOf, tokenOf, client, accountRequest, setup, refused>>
rowVars == <<savedRow, rowWriter, rowAnswer, rowMutex>>
workspaceVars == <<file, trashed, fileCaller, answered, replaced>>
todoVars == <<alive, projectIds, name, renamed, todo, todoCall>>
mcpVars == <<connection, mcpCaller, started, codes, issued, valid>>
skillVars == <<published, skill, skillCaller, skillAsked, offered>>
agentVars == <<agent, default, seen, agentCaller, agentAsked, chain>>
jobVars == <<job, scheduler, executing, jobCall, armed, fired, runs>>
allVars == <<kind, store, vars, accountVars, conversationVars, rowVars, memoryVars, summaryVars,
          workspaceVars, todoVars, mcpVars, skillVars, agentVars, jobVars>>

-----------------------------------------------------------------------------
(* The kinds, with their bounds. *)

(* Two connections; one with two sessions, in the database only; and one    *)
(* with an API token.                                                       *)
AccountsIn(s) == INSTANCE Accounts
    WITH usedIds <- accountIds, request <- accountRequest,
         Users <- {"u1", "u2"}, Names <- {"n1", "n2"}, Sessions <- {"s1"}, Tokens <- {},
         Clients <- {"c1", "c2"}, Setups <- {"p1"}, Backend <- s, MayFail <- TRUE

SessionsIn(s) == INSTANCE Accounts
    WITH usedIds <- accountIds, request <- accountRequest,
         Users <- {"u1", "u2"}, Names <- {"n1", "n2"}, Sessions <- {"s1", "s2"}, Tokens <- {},
         Clients <- {"c1"}, Setups <- {"p1"}, Backend <- s, MayFail <- TRUE

TokensIn(s) == INSTANCE Accounts
    WITH usedIds <- accountIds, request <- accountRequest,
         Users <- {"u1", "u2"}, Names <- {"n1", "n2"}, Sessions <- {"s1"}, Tokens <- {"t1"},
         Clients <- {"c1"}, Setups <- {"p1"}, Backend <- s, MayFail <- TRUE

(* Two callers and few messages, and one caller and more of them. *)
ConversationsIn(s) == INSTANCE Conversations
    WITH caller <- conversationCaller,
         Agents <- {"a1"}, FirstAgent <- "a1", Ids <- {"i1", "i2"}, FirstId <- "i1",
         Callers <- {"p1", "p2"}, Backend <- s, PageSize <- 1, MaxMessages <- 1

HistoryIn(s) == INSTANCE Conversations
    WITH caller <- conversationCaller,
         Agents <- ConversationAgents, Ids <- ConversationIds, Callers <- ConversationCallers, Backend <- s

(* An administrator's requests and the certificate manager, in either.      *)
SettingsRow == INSTANCE Settings
    WITH saved <- savedRow, writer <- rowWriter, answer <- rowAnswer, mutex <- rowMutex,
         ConfigFields <- {"node", "updating"}, Secrets <- {"key"}, FileFields <- {}, Values <- {"x"},
         Requests <- {"r1"}, Acme <- "acme", Backend <- "db", MayFail <- TRUE

MemoryIn(s) == INSTANCE Memory
    WITH request <- memoryRequest,
         Ids <- MemoryIds, Contents <- MemoryContents, Models <- EmbeddingModels, Callers <- MemoryCallers,
         Backend <- s

SummarizerIn(s) == INSTANCE Summarizer
    WITH todo <- summaryTodo,
         Conversations <- SummarizedConversations, Users <- SummarizedUsers, Agents <- SummarizedAgents,
         Projects <- SummarizedProjects, Backend <- s

WorkspaceIn(s) == INSTANCE Workspace
    WITH caller <- fileCaller,
         Paths <- {"p", "q"}, Pieces <- {"x1", "x2", "x3"}, Callers <- {"c1", "c2"}, Backend <- s,
         MayFail <- TRUE

TodosIn(s) == INSTANCE Todos
    WITH usedIds <- projectIds, call <- todoCall,
         Conversations <- {"v1"}, Projects <- {"p1"}, Names <- {"a", "b"}, Ids <- {"t1", "t2"},
         Callers <- {"c1", "c2"}, Backend <- s

McpConnectionsIn(s) == INSTANCE McpConnections
    WITH caller <- mcpCaller,
         UserServers <- {"u"}, OAuthServers <- {"o"}, Ids <- {"i1", "i2"}, Callers <- {"c1", "c2"},
         Backend <- s, Rotates <- TRUE, MaxIssued <- 2, MaxStates <- 1

SkillsIn(s) == INSTANCE Skills
    WITH caller <- skillCaller, asked <- skillAsked,
         Names <- {"n1"}, Callers <- {"c1", "c2"}, MaxVersion <- 2, Backend <- s, MayFail <- TRUE

(* Two callers, and one beside runs that start each other. *)
AgentsIn(s) == INSTANCE Agents
    WITH caller <- agentCaller, asked <- agentAsked,
         Ids <- {"a", "b"}, First <- "a", Avatars <- {"x"}, Callers <- {"c1", "c2"}, Backend <- s,
         MayFail <- TRUE, MaxDepth <- 5, MaxChain <- 1

SpawnsIn(s) == INSTANCE Agents
    WITH caller <- agentCaller, asked <- agentAsked,
         Ids <- {"a", "b"}, First <- "a", Avatars <- {"x"}, Callers <- {"c1"}, Backend <- s,
         MayFail <- TRUE, MaxDepth <- 5, MaxChain <- 3

JobRecordsIn(s) == INSTANCE JobRecords
    WITH call <- jobCall,
         Ids <- {"j"}, Users <- {"u1"}, Texts <- {"x", "y"}, Callers <- {"c1", "c2"},
         UserOf <- [c1 |-> "u1", c2 |-> "u1"], Backend <- s, MaxArms <- 2, MaxFires <- 2

-----------------------------------------------------------------------------
(* A kind that is not explored stays in one initial state. *)
AllInit ==
    /\ kind \in Kinds /\ store \in Stores /\ (kind = "sessions" => store = "db")
    /\ Init /\ SettingsRow!Init
    /\ \E s \in Stores :
        /\ s = store
        /\ CASE kind = "sessions" -> SessionsIn(s)!Init
             [] kind = "tokens" -> TokensIn(s)!Init
             [] OTHER -> AccountsIn(s)!Init
        /\ IF kind = "history" THEN HistoryIn(s)!Init ELSE ConversationsIn(s)!Init
        /\ MemoryIn(s)!Init /\ SummarizerIn(s)!Init
        /\ WorkspaceIn(s)!Init /\ TodosIn(s)!Init /\ McpConnectionsIn(s)!Init /\ SkillsIn(s)!Init
        /\ JobRecordsIn(s)!Init
        /\ IF kind = "spawns" THEN SpawnsIn(s)!Init ELSE AgentsIn(s)!Init
    /\ kind # "memory" => model = "none"
    /\ kind # "workspace" => file["p"] = {} /\ file["q"] = {}

AllNext ==
    /\ UNCHANGED <<kind, store>>
    /\ IF kind = "settings" /\ store = "fs" THEN Next ELSE UNCHANGED vars
    /\ IF kind = "settings" /\ store = "db" THEN SettingsRow!Next ELSE UNCHANGED rowVars
    /\ \E s \in Stores :
        /\ s = store
        /\ CASE kind = "accounts" -> AccountsIn(s)!Next
             [] kind = "sessions" -> SessionsIn(s)!Next
             [] kind = "tokens" -> TokensIn(s)!Next
             [] OTHER -> UNCHANGED accountVars
        /\ CASE kind = "conversations" -> ConversationsIn(s)!Next
             [] kind = "history" -> HistoryIn(s)!Next
             [] OTHER -> UNCHANGED conversationVars
        /\ IF kind = "memory" THEN MemoryIn(s)!Next ELSE UNCHANGED memoryVars
        /\ IF kind = "summaries" THEN SummarizerIn(s)!Next ELSE UNCHANGED summaryVars
        /\ IF kind = "workspace" THEN WorkspaceIn(s)!Next ELSE UNCHANGED workspaceVars
        /\ IF kind = "todos" THEN TodosIn(s)!Next ELSE UNCHANGED todoVars
        /\ IF kind = "mcp" THEN McpConnectionsIn(s)!Next ELSE UNCHANGED mcpVars
        /\ IF kind = "skills" THEN SkillsIn(s)!Next ELSE UNCHANGED skillVars
        /\ CASE kind = "agents" -> AgentsIn(s)!Next
             [] kind = "spawns" -> SpawnsIn(s)!Next
             [] OTHER -> UNCHANGED agentVars
        /\ IF kind = "jobs" THEN JobRecordsIn(s)!Next ELSE UNCHANGED jobVars

AllSpec == AllInit /\ [][AllNext]_allVars

-----------------------------------------------------------------------------
(* The fields of every record, and of every call under way. *)
WellTyped ==
    \A s \in Stores : s = store =>
        CASE kind = "accounts" -> AccountsIn(s)!TypeOK
          [] kind = "sessions" -> SessionsIn(s)!TypeOK
          [] kind = "tokens" -> TokensIn(s)!TypeOK
          [] kind = "conversations" -> ConversationsIn(s)!TypeOK
          [] kind = "history" -> HistoryIn(s)!TypeOK
          [] kind = "settings" -> TypeOK /\ SettingsRow!TypeOK
          [] kind = "memory" -> MemoryIn(s)!TypeOK
          [] kind = "summaries" -> SummarizerIn(s)!TypeOK
          [] kind = "workspace" -> WorkspaceIn(s)!TypeOK
          [] kind = "todos" -> TodosIn(s)!TypeOK
          [] kind = "mcp" -> McpConnectionsIn(s)!TypeOK
          [] kind = "skills" -> SkillsIn(s)!TypeOK
          [] kind = "agents" -> AgentsIn(s)!TypeOK
          [] kind = "spawns" -> SpawnsIn(s)!TypeOK
          [] kind = "jobs" -> JobRecordsIn(s)!TypeOK

(* Whatever calls run at the same time, what a record refers to is there    *)
(* and what is to be unique is: a session has a user; in the database users *)
(* have different names, an agent has one default conversation, a todo has  *)
(* its owner and the default agent exists; in the file store a user has one *)
(* connection to an MCP server, and a connected one has a credential.       *)
RecordsConsistent ==
    /\ \A s \in Stores : s = store =>
        /\ kind \in {"accounts", "tokens"} => AccountsIn(s)!SessionHasUser
        /\ kind = "sessions" => SessionsIn(s)!SessionHasUser
    /\ store = "db" => AccountsIn("db")!UsernamesUnique
    /\ kind \in {"conversations", "history"} /\ store = "db" => ConversationsIn("db")!OneDefaultPerAgent
    /\ kind = "todos" /\ store = "db" => TodosIn("db")!TodoHasOwner
    /\ kind \in {"agents", "spawns"} /\ store = "db" => AgentsIn("db")!DefaultExists
    /\ kind = "mcp" /\ store = "fs" =>
        McpConnectionsIn("fs")!OneConnectionPerServer /\ McpConnectionsIn("fs")!ConnectedHasCredential

(* What a caller was told is how it is.  In the file store what a workspace *)
(* tool has stored is kept until it is replaced, an agent has the avatar    *)
(* and a project the name last set, and a skill is enabled if it was left   *)
(* so.  In either what is installed of a skill is what its publisher        *)
(* signed, through installs, updates and changes of the index in any order. *)
AnsweredIsStored ==
    /\ kind = "workspace" /\ store = "fs" => WorkspaceIn("fs")!StoredIsKept
    /\ kind \in {"agents", "spawns"} /\ store = "fs" => AgentsIn("fs")!AvatarKept
    /\ kind = "todos" /\ store = "fs" => TodosIn("fs")!NameAsAsked
    /\ kind = "skills" /\ store = "fs" => SkillsIn("fs")!EnabledKept
    /\ kind = "skills" => \A s \in Stores : s = store => SkillsIn(s)!InstalledIsPublished

(* No step undoes what was done since the step was decided on: a session, a *)
(* todo, an MCP connection or a job that is gone does not come back; nor    *)
(* does a memory item in the file store, where no run is recorded of a job  *)
(* that is gone either; in the database a message stays in its conversation.*)
NothingUndone ==
    [][\A s \in Stores : s = store =>
         /\ kind \in {"accounts", "tokens"} => AccountsIn(s)!GoneStaysGone
         /\ kind = "sessions" => SessionsIn(s)!GoneStaysGone
         /\ kind = "todos" => TodosIn(s)!TodoStaysGone
         /\ kind = "mcp" => McpConnectionsIn(s)!ConnectionStaysGone
         /\ kind = "jobs" => JobRecordsIn(s)!JobStaysGone /\ (s = "fs" => JobRecordsIn(s)!RunHasJob)
         /\ kind = "memory" /\ s = "fs" => MemoryIn(s)!DeletedStaysDeleted
         /\ kind \in {"conversations", "history"} /\ s = "db" => ConversationsIn(s)!MessagesKept]_allVars
=============================================================================
