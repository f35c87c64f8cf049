------------------------------- MODULE Records -------------------------------
(***************************************************************************)
(* Kinds of records that share the store of the node, and nothing else:    *)
(* beside the configuration the memory of an agent, the conversations of a *)
(* user with the client that reads one, and the summaries that the         *)
(* background loop makes.  Backend is the store, as it is for Settings.    *)
(***************************************************************************)
EXTENDS Settings, Naturals

CONSTANTS
    MemoryIds, MemoryContents, EmbeddingModels,  \* of module Memory
    MemoryCallers,                               \* runs and connections that use the memory
    TurnTTL, MaxResults, MaxHistory,             \* of module Memory
    ConversationAgents, FirstAgent,              \* of module Conversations
    ConversationIds, FirstId,                    \* of module Conversations
    ConversationCallers,                         \* goroutines that change conversations
    PageSize, MaxMessages,                       \* of module Conversations
    SummarizedConversations, SummarizedUsers,    \* of module Summarizer
    SummarizedAgents, SummarizedProjects

VARIABLES
    store,   \* the store in which a behaviour is explored
    item, model, memoryRequest, touched, history, goneAt,
    used, agentOf, messages, pointer, flagged, running, deleted, conversationCaller, view,
    loop, summaryTodo, notify, exists, summary, newer, active, fresh, read

memoryVars == <<item, model, memoryRequest, touched, history, goneAt>>
conversationVars == <<used, agentOf, messages, pointer, flagged, running, deleted, conversationCaller, view>>
summaryVars == <<loop, summaryTodo, notify, exists, summary, newer, active, fresh, read>>

Stores == {"fs", "db"}

ASSUME MemoryAssumption == TurnTTL \in Nat
ASSUME PageAssumption == PageSize \in Nat \ {0}

Memory == INSTANCE Memory
    WITH request <- memoryRequest,
         Ids <- MemoryIds, Contents <- MemoryContents, Models <- EmbeddingModels, Callers <- MemoryCallers

History == INSTANCE Conversations
    WITH caller <- conversationCaller,
         Agents <- ConversationAgents, Ids <- ConversationIds, Callers <- ConversationCallers

Summarizer == INSTANCE Summarizer
    WITH todo <- summaryTodo,
         Conversations <- SummarizedConversations, Users <- SummarizedUsers, Agents <- SummarizedAgents,
         Projects <- SummarizedProjects

(* conversations.history, in the database: page by page a client comes to   *)
(* show every message once and in order, whatever is added meanwhile.       *)
HistoryComplete == store = "db" => History!HistoryComplete

(* What is deleted is out of the prompts TurnTTL user messages later.       *)
ForgottenAfterTurns == Memory!ForgottenAfterTurns

(* In the file store the summarizer asks a model again only about what has  *)
(* changed since the summary it has.                                        *)
NoIdleSynthesis == store = "fs" => Summarizer!NoIdleSynthesis
=============================================================================
