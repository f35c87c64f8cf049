--------------------------- MODULE Conversations ---------------------------
(***************************************************************************)
(* The conversations of one user: which of them is an agent's default      *)
(* (coordinators/conversations.go, over either store), their messages, the *)
(* conversations.* handlers that change them, and a client that loads the  *)
(* history page by page.                                                   *)
(*                                                                         *)
(* A call of the coordinator is a sequence of transactions.  In fsstore a  *)
(* transaction is one step, under the store's mutex; the default of an     *)
(* agent is a pointer in user.yaml.  In dbstore it is the flag of a row,   *)
(* and setting it is two statements: what the first of them saw may have   *)
(* changed when the second is done (READ COMMITTED).                       *)
(***************************************************************************)
EXTENDS Integers, Sequences, SequencesExt

CONSTANTS
    Agents,      \* agent ids
    FirstAgent,  \* the agent onboarding.CreateUser has picked
    Ids,         \* conversation ids
    FirstId,     \* the conversation onboarding.CreateUser has made
    Callers,     \* goroutines: requests, channel messages, runs that start
    Backend,     \* "fs" or "db"
    PageSize,    \* "limit" of conversations.history
    MaxMessages  \* bound: messages in a conversation

VARIABLES
    used,        \* ids that were ever handed out
    agentOf,     \* of the conversations in the store: their agent
    messages,    \* of the conversations in the store: their messages
    pointer,     \* fs: userRecord.DefaultConversationIDs
    flagged,     \* db: the rows with default = true
    running,     \* conversations with an active runner
    deleted,     \* conversations that were ever deleted
    caller,      \* a call: where it is, its agent, its conversation, what it saw
    view         \* the history a client shows: conversation, first index, messages

storeVars == <<agentOf, messages, pointer, flagged>>
vars == <<storeVars, used, running, deleted, caller, view>>

Alive == DOMAIN agentOf
Idle == [pc |-> "idle"]
NoView == [id |-> "none", oldest |-> 0, shown |-> <<>>]

(* After onboarding.CreateUser, which sets Default: createConversation of   *)
(* fsstore does not store it.                                               *)
Init ==
    /\ used = {FirstId} /\ running = {} /\ deleted = {}
    /\ agentOf = [i \in {FirstId} |-> FirstAgent]
    /\ messages = [i \in {FirstId} |-> <<1>>]
    /\ pointer = [a \in Agents |-> {}]
    /\ flagged = IF Backend = "db" THEN {FirstId} ELSE {}
    /\ caller = [p \in Callers |-> Idle]
    /\ view = NoView

-----------------------------------------------------------------------------
(* The stores. *)

(* With the row, and without it. *)
With(f, i, value) == [j \in DOMAIN f \cup {i} |-> IF j = i THEN value ELSE f[j]]
Without(f, i) == [j \in DOMAIN f \ {i} |-> f[j]]

(* createConversationFile writes a header and no messages over whatever is  *)
(* there.                                                                   *)
CreateConversationFile(i, a) ==
    /\ agentOf' = With(agentOf, i, a)
    /\ messages' = With(messages, i, <<>>)

(* Mutant of CreateConversationRow: an upsert. *)
UpsertConversationRow(i, a) ==
    /\ agentOf' = With(agentOf, i, a)
    /\ messages' = With(messages, i, <<>>)

(* dbstore.CreateConversation: the primary key refuses a second row. *)
CreateConversationRow(i, a) ==
    IF i \in Alive THEN UNCHANGED <<agentOf, messages>>
    ELSE agentOf' = With(agentOf, i, a) /\ messages' = With(messages, i, <<>>)

(* findDefaultConversation of fsstore: the pointer may be to a file that is *)
(* gone.                                                                    *)
DefaultFile(a) == pointer[a] \cap Alive

(* FindDefaultConversation of dbstore. *)
DefaultRow(a) == {i \in flagged : agentOf[i] = a}

FindDefaultConversation(a) == IF Backend = "fs" THEN DefaultFile(a) ELSE DefaultRow(a)

(* trash.Move of the file.  The pointer stays. *)
DeleteConversationFile(i) ==
    agentOf' = Without(agentOf, i) /\ messages' = Without(messages, i)
    /\ UNCHANGED <<pointer, flagged>>

(* Mutant of DeleteConversationRow: the flag stays. *)
DeleteConversationUnflagged(i) ==
    agentOf' = Without(agentOf, i) /\ messages' = Without(messages, i)
    /\ UNCHANGED <<pointer, flagged>>

(* The row goes with its flag, and ON DELETE CASCADE with its messages. *)
DeleteConversationRow(i) ==
    agentOf' = Without(agentOf, i) /\ messages' = Without(messages, i)
    /\ flagged' = flagged \ {i} /\ UNCHANGED pointer

-----------------------------------------------------------------------------
(* The coordinator. *)

Start(p, record) ==
    /\ caller[p].pc = "idle"
    /\ caller' = [caller EXCEPT ![p] = record]

Finish(p) == caller' = [caller EXCEPT ![p] = Idle]

(* security.NewULID. *)
NewId(i) == i \notin used /\ used' = used \cup {i}

(* EnsureDefaultConversation.  Both stores answer ErrNotFound when there is *)
(* no default, so the transaction is over before it looks for the most      *)
(* recent conversation and a new one is made.                               *)
EnsureDefaultConversation(p, a) ==
    /\ \/ FindDefaultConversation(a) # {} /\ UNCHANGED <<used, caller>>
       \/ /\ FindDefaultConversation(a) = {}
          /\ \E i \in Ids : NewId(i) /\ Start(p, [pc |-> "persist", agent |-> a, id |-> i, then |-> "idle"])
    /\ UNCHANGED <<storeVars, running, deleted, view>>

(* SetDefaultConversation, for a conversation a client can see.  It may be  *)
(* gone when it is persisted, and is made again.                            *)
SetDefaultConversation(p, a, i) ==
    /\ i \in Alive
    /\ Start(p, [pc |-> "persist", agent |-> a, id |-> i, then |-> "idle"])
    /\ UNCHANGED <<storeVars, used, running, deleted, view>>

(* SetDefaultConversationIfUnset looks in a transaction of its own. *)
SetDefaultConversationIfUnset(p, a, i) ==
    FindDefaultConversation(a) = {} /\ SetDefaultConversation(p, a, i)

(* NewDefaultConversation, which creates what it has persisted once more. *)
NewDefaultConversation(p, a) ==
    /\ \E i \in Ids :
        NewId(i) /\ Start(p, [pc |-> "persist", agent |-> a, id |-> i, then |-> "create"])
    /\ UNCHANGED <<storeVars, running, deleted, view>>

(* The caller after its transaction: the next one, or none. *)
AfterPersist(p) ==
    caller' = [caller EXCEPT ![p] =
        IF @.then = "create" THEN [pc |-> "create", agent |-> @.agent, id |-> @.id] ELSE Idle]

(* persistDefaultConversation with setDefaultConversation of fsstore: the   *)
(* pointer of the conversation's own agent.                                 *)
PersistFile(p) ==
    /\ Backend = "fs" /\ caller[p].pc = "persist"
    /\ LET i == caller[p].id
           own == IF i \in Alive THEN agentOf[i] ELSE caller[p].agent IN
       /\ IF i \in Alive THEN UNCHANGED <<agentOf, messages>>
          ELSE CreateConversationFile(i, own)
       /\ pointer' = [pointer EXCEPT ![own] = {i}]
    /\ AfterPersist(p)
    /\ UNCHANGED <<flagged, used, running, deleted, view>>

(* ... with dbstore: GetConversation, and the defaults that the statement   *)
(* which clears them can see.                                               *)
PersistRowBegins(p) ==
    /\ Backend = "db" /\ caller[p].pc = "persist"
    /\ LET i == caller[p].id
           own == IF i \in Alive THEN agentOf[i] ELSE caller[p].agent IN
       caller' = [caller EXCEPT ![p] =
                      [pc |-> "commit", agent |-> own, id |-> i, then |-> @.then,
                       isNew |-> i \notin Alive, seen |-> DefaultRow(own)]]
    /\ UNCHANGED <<storeVars, used, running, deleted, view>>

(* Mutant of Refused: no unique index. *)
NeverRefused(i, a, isNew, seen) == FALSE

(* The primary key, and conversations_default_unique_index: a default that  *)
(* was set since, and is not among the cleared ones, refuses this one.      *)
Refused(i, a, isNew, seen) ==
    \/ isNew /\ i \in Alive
    \/ DefaultRow(a) \ (seen \cup {i}) # {}

(* The transaction is committed, or rolled back as a whole and logged.      *)
PersistRowCommits(p) ==
    /\ caller[p].pc = "commit"
    /\ LET i == caller[p].id
           a == IF i \in Alive THEN agentOf[i] ELSE caller[p].agent IN
       IF Refused(i, a, caller[p].isNew, caller[p].seen)
       THEN UNCHANGED <<agentOf, messages, flagged>>
       ELSE /\ IF caller[p].isNew THEN CreateConversationRow(i, a) ELSE UNCHANGED <<agentOf, messages>>
            /\ flagged' = (flagged \ (caller[p].seen \cap DefaultRow(caller[p].agent)))
                              \cup ({i} \cap DOMAIN agentOf')
    /\ AfterPersist(p)
    /\ UNCHANGED <<pointer, used, running, deleted, view>>

(* createConversation of the coordinator, at the end of                     *)
(* NewDefaultConversation.                                                  *)
CreateConversation(p) ==
    /\ caller[p].pc = "create"
    /\ IF Backend = "fs" THEN CreateConversationFile(caller[p].id, caller[p].agent)
       ELSE CreateConversationRow(caller[p].id, caller[p].agent)
    /\ Finish(p)
    /\ UNCHANGED <<pointer, flagged, used, running, deleted, view>>

(* Coordinator.Run for a new conversation, and for one the caller names:    *)
(* the run begins, and then the default is set if there is none.            *)
RunNewConversation(p, a, i) ==
    /\ NewId(i)
    /\ Start(p, [pc |-> "ifUnset", agent |-> a, id |-> i])
    /\ IF Backend = "fs" THEN CreateConversationFile(i, a) ELSE CreateConversationRow(i, a)
    /\ UNCHANGED <<pointer, flagged, running, deleted, view>>

RunConversation(p, a, i) ==
    /\ i \in Alive
    /\ Start(p, [pc |-> "ifUnset", agent |-> a, id |-> i])
    /\ UNCHANGED <<storeVars, used, running, deleted, view>>

RunSetsDefault(p) ==
    /\ caller[p].pc = "ifUnset"
    /\ IF FindDefaultConversation(caller[p].agent) = {}
       THEN caller' = [caller EXCEPT ![p] =
                [pc |-> "persist", agent |-> @.agent, id |-> @.id, then |-> "idle"]]
            /\ UNCHANGED running
       ELSE Finish(p) /\ running' = running \cup {caller[p].id}
    /\ UNCHANGED <<storeVars, used, deleted, view>>

(* A run adds a message.  In a conversation that is gone it fails. *)
CreateConversationMessage(i) ==
    /\ i \in running \cap Alive /\ Len(messages[i]) < MaxMessages
    /\ messages' = [messages EXCEPT ![i] = Append(@, Len(@) + 1)]
    /\ UNCHANGED <<agentOf, pointer, flagged, used, running, deleted, caller, view>>

RunEnds(i) ==
    /\ i \in running /\ running' = running \ {i}
    /\ UNCHANGED <<storeVars, used, deleted, caller, view>>

-----------------------------------------------------------------------------
(* conversations.delete and conversations.history. *)

(* handleConversationsDelete: not the default of the agent the client has   *)
(* named, in the store, no active run.                                      *)
HandleConversationsDelete(p, a, i) ==
    /\ FindDefaultConversation(a) # {} /\ i \notin FindDefaultConversation(a)
    /\ i \in Alive /\ i \notin running
    /\ Start(p, [pc |-> "delete", id |-> i])
    /\ UNCHANGED <<storeVars, used, running, deleted, view>>

(* Its last transaction. *)
DeleteConversation(p) ==
    /\ caller[p].pc = "delete"
    /\ IF caller[p].id \notin Alive THEN UNCHANGED <<storeVars, deleted>>
       ELSE /\ IF Backend = "fs" THEN DeleteConversationFile(caller[p].id)
               ELSE DeleteConversationRow(caller[p].id)
            /\ deleted' = deleted \cup {caller[p].id}
    /\ Finish(p)
    /\ UNCHANGED <<used, running, view>>

(* Mutant of PageConversationMessages: the page ends one message early. *)
PageOneShort(list, before) ==
    LET end == IF before > 0 /\ before < Len(list) THEN before - 1 ELSE Len(list)
        start == IF end < PageSize THEN 0 ELSE end - PageSize
    IN  [page |-> SubSeq(list, start + 1, end), oldest |-> start]

(* pageConversationMessages: the last messages before an index. *)
PageConversationMessages(list, before) ==
    LET end == IF before > 0 /\ before < Len(list) THEN before ELSE Len(list)
        start == IF end < PageSize THEN 0 ELSE end - PageSize
    IN  [page |-> SubSeq(list, start + 1, end), oldest |-> start]

(* switchConversation of the client: the newest page. *)
OpenConversation(i) ==
    /\ i \in Alive /\ view = NoView
    /\ LET result == PageConversationMessages(messages[i], 0) IN
       view' = [id |-> i, oldest |-> result.oldest, shown |-> result.page]
    /\ UNCHANGED <<storeVars, used, running, deleted, caller>>

(* loadOlderMessages, while there are older ones. *)
LoadOlderMessages ==
    /\ view.id \in Alive /\ view.oldest > 0
    /\ LET result == PageConversationMessages(messages[view.id], view.oldest) IN
       view' = [view EXCEPT !.oldest = result.oldest, !.shown = result.page \o @]
    /\ UNCHANGED <<storeVars, used, running, deleted, caller>>

CloseConversation ==
    /\ view # NoView /\ view' = NoView
    /\ UNCHANGED <<storeVars, used, running, deleted, caller>>

-----------------------------------------------------------------------------
Next ==
    \/ \E p \in Callers :
        \/ \E a \in Agents :
            \/ EnsureDefaultConversation(p, a) \/ NewDefaultConversation(p, a)
            \/ \E i \in Ids :
                \/ SetDefaultConversation(p, a, i) \/ SetDefaultConversationIfUnset(p, a, i)
                \/ RunNewConversation(p, a, i) \/ RunConversation(p, a, i)
                \/ HandleConversationsDelete(p, a, i)
        \/ PersistFile(p) \/ PersistRowBegins(p) \/ PersistRowCommits(p)
        \/ CreateConversation(p) \/ RunSetsDefault(p) \/ DeleteConversation(p)
    \/ \E i \in Ids : CreateConversationMessage(i) \/ RunEnds(i) \/ OpenConversation(i)
    \/ LoadOlderMessages \/ CloseConversation

Spec == Init /\ [][Next]_vars

-----------------------------------------------------------------------------
(* Properties. *)

TypeOK ==
    /\ used \subseteq Ids /\ deleted \subseteq used /\ running \subseteq used
    /\ agentOf \in [Alive -> Agents] /\ Alive \subseteq used
    /\ messages \in [Alive -> Seq(1..MaxMessages)]
    /\ pointer \in [Agents -> SUBSET used] /\ flagged \subseteq Alive
    /\ \A p \in Callers :
        caller[p].pc \in {"idle", "persist", "commit", "create", "ifUnset", "delete"}
    /\ view.oldest \in 0..MaxMessages

(* SetDefaultConversation, conversations_default_unique_index: however the  *)
(* calls that set a default overlap, an agent has at most one default, and  *)
(* it is a conversation with that agent.                                    *)
OneDefaultPerAgent ==
    \A a \in Agents : \A i, j \in FindDefaultConversation(a) : i = j /\ agentOf[i] = a

(* createConversation, CreateConversationMessage: what was written to a     *)
(* conversation stays in it until the conversation is deleted, also when    *)
(* somebody writes to it before the call that makes it is done.             *)
MessagesKept ==
    \A i \in Alive \cap DOMAIN agentOf' : IsPrefix(messages[i], messages'[i])

(* pageConversationMessages, loadOlderMessages: page by page the client     *)
(* shows every message from the oldest it has loaded on, once and in order, *)
(* whatever was added to the conversation in the meantime.                  *)
HistoryComplete ==
    view.id \in Alive \ deleted =>
        view.shown = SubSeq(messages[view.id], view.oldest + 1, view.oldest + Len(view.shown))

(* handleConversationsDelete, "cannot delete the default conversation": an  *)
(* agent that has a default keeps one.                                      *)
DefaultStays ==
    [][\A a \in Agents : FindDefaultConversation(a) # {} => FindDefaultConversation(a)' # {}]_vars

(* conversations.go, "Fall back to the most recent conversation for this    *)
(* agent": nothing is made for an agent that has a conversation.            *)
EnsureReuses ==
    [][\A p \in Callers, a \in Agents :
        EnsureDefaultConversation(p, a) /\ used' # used => ~ \E i \in Alive : agentOf[i] = a]_vars
=============================================================================
