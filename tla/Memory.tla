------------------------------- MODULE Memory -------------------------------
(***************************************************************************)
(* The memory items of one scope: the memory tools (tools/memory), the     *)
(* memory.* handlers, the items of the two stores, the search over their   *)
(* embeddings, and the overlay that shows what a conversation has          *)
(* retrieved lately in its next prompts.                                   *)
(*                                                                         *)
(* A tool call computes embeddings first, outside of any transaction.  In  *)
(* fsstore a transaction is one step.  In dbstore ModifyMemoryItem reads   *)
(* the row and saves all of it in two statements.  Deleting an item        *)
(* archives it.  A content stands for the title, text and tags of an item. *)
(***************************************************************************)
EXTENDS Integers, Sequences, FiniteSets, FiniteSetsExt

CONSTANTS
    Ids,         \* ids of memory items; an id is used once
    Contents,    \* what an item may say
    Models,      \* embedding models an admin may configure
    Callers,     \* runs that call a tool and connections that call memory.*
    Backend,     \* "fs" or "db"
    TurnTTL,     \* shortTermMemoryOverlayOptions.TurnTTL
    MaxResults,  \* "maxResults" of a search
    MaxHistory   \* bound: messages of the conversation

None == "none"
User == [role |-> "user", items |-> {}]
Idle == [pc |-> "idle"]
NoItem == [state |-> "unused", content |-> None, vectorOf |-> None, model |-> None]

VARIABLES
    item,       \* the record of an item
    model,      \* the embedding model of the provider registry, or none
    request,    \* a caller: the operation it is in
    touched,    \* whether ModifiedAt of the scope's owner was set
    history,    \* the conversation: user messages and retrieve results
    goneAt      \* ghost: of an archived item, the user messages by then

vars == <<item, model, request, touched, history, goneAt>>

Live == {i \in Ids : item[i].state = "live"}
Turns == Cardinality({k \in DOMAIN history : history[k] = User})

Init ==
    /\ item = [i \in Ids |-> NoItem]
    /\ model \in Models \cup {None}
    /\ request = [c \in Callers |-> Idle]
    /\ touched = FALSE
    /\ history = <<>>
    /\ goneAt = [i \in Ids |-> 0]

-----------------------------------------------------------------------------
(* Embeddings. *)

(* Embedder.EmbedMany, with its fallback to single texts: a vector and the  *)
(* model it is of, or none for a text that could not be embedded.           *)
Embedded(content) ==
    {[vectorOf |-> None, model |-> None]}
    \cup IF model = None THEN {} ELSE {[vectorOf |-> content, model |-> model]}

(* SemanticSearchMemory goes by the items embedded with the same model as   *)
(* the query, if they are at least half.                                    *)
Comparable(items) == {i \in items : model # None /\ item[i].model = model}

SemanticUseful(items) ==
    model # None /\ Cardinality(Comparable(items)) >= (Cardinality(items) + 1) \div 2

(* The best of them; how they score is not modelled. *)
SemanticSearchMemory(items) ==
    {r \in SUBSET Comparable(items) :
        Cardinality(r) = IF Cardinality(Comparable(items)) > MaxResults THEN MaxResults
                         ELSE Cardinality(Comparable(items))}

(* KeywordSearchMemory: items with a line that has a word of the query. *)
KeywordSearchMemory(items) == {r \in SUBSET items : Cardinality(r) <= MaxResults}

(* SearchMemory: the query's embedding may fail. *)
SearchMemory(items) ==
    KeywordSearchMemory(items)
    \cup IF SemanticUseful(items) THEN SemanticSearchMemory(items) ELSE {}

-----------------------------------------------------------------------------
(* The stores. *)

Put(i, record) == item' = [item EXCEPT ![i] = record]

(* fsstore.CreateMemoryItem rewrites the file of the scope. *)
CreateMemoryItemFile(i, record) == item[i].state = "unused" /\ Put(i, record)

(* dbstore.CreateMemoryItem inserts a row. *)
CreateMemoryItemRow(i, record) == item[i].state = "unused" /\ Put(i, record)

CreateMemoryItem(i, record) ==
    IF Backend = "fs" THEN CreateMemoryItemFile(i, record) ELSE CreateMemoryItemRow(i, record)

(* ListMemoryItems without IncludeArchived. *)
ListMemoryItemsFile == {i \in Ids : item[i].state \notin {"unused", "archived"}}
ListMemoryItemsRow == {i \in Ids : item[i].state = "live"}
ListMemoryItems == IF Backend = "fs" THEN ListMemoryItemsFile ELSE ListMemoryItemsRow

(* Mutant of ModifyMemoryItemFile: the record is made anew from the model,  *)
(* as in dbstore, and nobody looks whether it is archived.                  *)
ModifyAnyFile(i, record) == Put(i, record)

(* fsstore.ModifyMemoryItem: an archived item is not found, and the record  *)
(* that was read is changed in place.                                       *)
ModifyMemoryItemFile(i, record) ==
    IF i \in Live THEN Put(i, [record EXCEPT !.state = item[i].state]) ELSE UNCHANGED item

(* dbstore.ModifyMemoryItem: Save writes every column, archived_at too,     *)
(* which the copy does not have.                                            *)
SaveMemoryItemRow(i, record) == Put(i, record)

(* DeleteMemoryItem archives what is not archived. *)
DeleteMemoryItemFile(i) == item' = IF i \in Live THEN [item EXCEPT ![i].state = "archived"] ELSE item
DeleteMemoryItemRow(i) ==
    item' = [j \in Ids |-> IF j = i /\ j \in Live THEN [item[j] EXCEPT !.state = "archived"] ELSE item[j]]

DeleteMemoryItem(i) ==
    /\ IF Backend = "fs" THEN DeleteMemoryItemFile(i) ELSE DeleteMemoryItemRow(i)
    /\ goneAt' = IF i \in Live THEN [goneAt EXCEPT ![i] = Turns] ELSE goneAt

-----------------------------------------------------------------------------
(* The tools: executeBatch.  Bound: a batch has one item. *)

Answered(c) == request' = [request EXCEPT ![c] = Idle]
Touching(c) == request' = [request EXCEPT ![c] = [pc |-> "touch"]]

(* batchEmbed, before the transaction. *)
BatchEmbed(c, op, i, content) ==
    /\ request[c] = Idle
    /\ op = "add" <=> item[i].state = "unused"
    /\ \E v \in Embedded(content) :
        request' = [request EXCEPT ![c] =
            [pc |-> op, id |-> i, content |-> content, vectorOf |-> v.vectorOf, model |-> v.model]]
    /\ UNCHANGED <<item, model, touched, history, goneAt>>

(* batchAdd.  A possible duplicate is only warned about. *)
BatchAdd(c) ==
    /\ request[c].pc = "add"
    /\ CreateMemoryItem(request[c].id,
           [state |-> "live", content |-> request[c].content,
            vectorOf |-> request[c].vectorOf, model |-> request[c].model])
    /\ Touching(c)
    /\ UNCHANGED <<model, touched, history, goneAt>>

(* The modifier of batchUpdate: without a new vector the old one stays. *)
Modified(r, old) ==
    [state |-> "live", content |-> r.content,
     vectorOf |-> IF r.vectorOf = None THEN old.vectorOf ELSE r.vectorOf,
     model |-> IF r.vectorOf = None THEN old.model ELSE r.model]

(* batchUpdate.  An item that is not found is an error of its own. *)
BatchUpdate(c) ==
    /\ request[c].pc = "update"
    /\ LET i == request[c].id
           record == Modified(request[c], item[i]) IN
       \/ /\ Backend = "fs"
          /\ ModifyMemoryItemFile(i, record)
          /\ IF i \in Live THEN Touching(c) ELSE Answered(c)
       \/ /\ Backend = "db"
          /\ IF i \in Live
             THEN request' = [request EXCEPT ![c] = [pc |-> "save", id |-> i, record |-> record]]
             ELSE Answered(c)
          /\ UNCHANGED item
    /\ UNCHANGED <<model, touched, history, goneAt>>

BatchUpdateSaves(c) ==
    /\ request[c].pc = "save"
    /\ SaveMemoryItemRow(request[c].id, request[c].record)
    /\ Touching(c)
    /\ UNCHANGED <<model, touched, history, goneAt>>

BatchDelete(c, i) ==
    /\ request[c] = Idle /\ item[i].state # "unused"
    /\ DeleteMemoryItem(i)
    /\ IF i \in Live THEN Touching(c) ELSE Answered(c)
    /\ UNCHANGED <<model, touched, history>>

(* "persist": a result is added without an embedding. *)
PersistResult(c, i, content) ==
    /\ request[c] = Idle
    /\ CreateMemoryItem(i, [state |-> "live", content |-> content,
                            vectorOf |-> None, model |-> None])
    /\ Touching(c)
    /\ UNCHANGED <<model, touched, history, goneAt>>

(* executeSummary, when the synthesizer answers with a summary. *)
ExecuteSummary(c, i) == \E t \in Contents : PersistResult(c, i, t)

(* executeFilter adds the messages that pass its filters. *)
ExecuteFilter(c, i) == \E t \in Contents : PersistResult(c, i, t)

(* callAfterMutate: a transaction of its own. *)
CallAfterMutate(c) ==
    /\ request[c].pc = "touch"
    /\ touched' = TRUE
    /\ Answered(c)
    /\ UNCHANGED <<item, model, history, goneAt>>

(* executeRetrieve lists the items, then embeds the query and ranks them. *)
ExecuteRetrieve(c) ==
    /\ request[c] = Idle
    /\ \A d \in Callers : request[d].pc # "rank"
    /\ request' = [request EXCEPT ![c] = [pc |-> "rank", items |-> ListMemoryItems]]
    /\ UNCHANGED <<item, model, touched, history, goneAt>>

ExecuteRetrieveAnswers(c) ==
    /\ request[c].pc = "rank" /\ Len(history) < MaxHistory
    /\ \E r \in SearchMemory(request[c].items) :
        history' = Append(history, [role |-> "tool", items |-> r])
    /\ Answered(c)
    /\ UNCHANGED <<item, model, touched, goneAt>>

-----------------------------------------------------------------------------
(* The rest of the system. *)

(* handleMemoryDelete looks at the owner of the item, then deletes it; the  *)
(* second of two deletions finds nothing.                                   *)
HandleMemoryDelete(c, i) ==
    /\ request[c] = Idle /\ i \in Live
    /\ DeleteMemoryItem(i)
    /\ UNCHANGED <<model, request, touched, history>>

(* The next user message; a run adds its tool results before it. *)
UserMessage ==
    /\ Len(history) < MaxHistory
    /\ \A c \in Callers : request[c].pc # "rank"
    /\ history' = Append(history, User)
    /\ UNCHANGED <<item, model, request, touched, goneAt>>

(* The admin configures another embedding model. *)
ModelConfigured ==
    /\ model' \in (Models \cup {None}) \ {model}
    /\ UNCHANGED <<item, request, touched, history, goneAt>>

-----------------------------------------------------------------------------
(* The overlay. *)

TurnsAfter(k) == Cardinality({j \in DOMAIN history : j > k /\ history[j] = User})

(* Mutant of SelectRecentMemoryRetrieveResults: one turn too many. *)
SelectWithoutEnd == {k \in DOMAIN history : history[k] # User}

(* selectRecentMemoryRetrieveResults looks back over TurnTTL user messages. *)
SelectRecentMemoryRetrieveResults ==
    {k \in DOMAIN history : history[k] # User /\ TurnsAfter(k) <= TurnTTL}

(* buildShortTermMemoryOverlay shows the last of them. *)
BuildShortTermMemoryOverlay ==
    IF SelectRecentMemoryRetrieveResults = {} THEN {}
    ELSE history[Max(SelectRecentMemoryRetrieveResults)].items

-----------------------------------------------------------------------------
Next ==
    \/ \E c \in Callers :
        \/ \E i \in Ids :
            \/ \E op \in {"add", "update"}, t \in Contents : BatchEmbed(c, op, i, t)
            \/ ExecuteSummary(c, i) \/ ExecuteFilter(c, i)
            \/ BatchDelete(c, i) \/ HandleMemoryDelete(c, i)
        \/ BatchAdd(c) \/ BatchUpdate(c) \/ BatchUpdateSaves(c) \/ CallAfterMutate(c)
        \/ ExecuteRetrieve(c) \/ ExecuteRetrieveAnswers(c)
    \/ UserMessage \/ ModelConfigured

Spec == Init /\ [][Next]_vars

-----------------------------------------------------------------------------
(* Properties. *)

Records ==
    [state : {"unused", "live", "archived"}, content : Contents \cup {None},
     vectorOf : Contents \cup {None}, model : Models \cup {None}]

TypeOK ==
    /\ item \in [Ids -> Records]
    /\ model \in Models \cup {None}
    /\ \A c \in Callers : request[c].pc \in {"idle", "add", "update", "save", "touch", "rank"}
    /\ touched \in BOOLEAN
    /\ \A k \in DOMAIN history : history[k].role \in {"user", "tool"} /\ history[k].items \subseteq Ids
    /\ goneAt \in [Ids -> 0..MaxHistory]

(* BuildOverlay, TurnTTL: what is deleted, by whatever caller and while     *)
(* whatever search is under way, is out of the prompts of a conversation    *)
(* TurnTTL user messages later.                                             *)
ForgottenAfterTurns ==
    \A i \in BuildShortTermMemoryOverlay :
        item[i].state = "archived" => Turns <= goneAt[i] + TurnTTL

(* DeleteMemoryItem: a deleted item stays deleted, whatever update of it is *)
(* under way.                                                               *)
DeletedStaysDeleted ==
    \A i \in Ids : item[i].state = "archived" => item'[i].state = "archived"

(* batchEmbed: an item's vector is one of what the item says. *)
VectorFitsContent ==
    \A i \in Ids : item[i].vectorOf # None => item[i].vectorOf = item[i].content
=============================================================================
