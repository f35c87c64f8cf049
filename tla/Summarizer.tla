----------------------------- MODULE Summarizer -----------------------------
(***************************************************************************)
(* The background loop of summarizers.Summarizer: titles and summaries of  *)
(* conversations, descriptions of users, agents and projects.  A pass      *)
(* looks at every item, one after the other; for one that looks out of     *)
(* date it reads the source, asks a model, and writes the answer back with *)
(* SummarizedAt.                                                           *)
(*                                                                         *)
(* Of the timestamps only their order is kept: newer[i] says that the      *)
(* source's time is after SummarizedAt.                                    *)
(***************************************************************************)
EXTENDS Integers, Sequences, SequencesExt

CONSTANTS
    Conversations, Users, Agents, Projects,  \* the items of the store
    Backend                                  \* "fs" or "db"

Items == Conversations \cup Users \cup Agents \cup Projects

VARIABLES
    loop,      \* the goroutine: "delay", "wait", "pass", "ask", "save", "stopped"
    todo,      \* the items of this pass that are still to come
    notify,    \* whether the channel notify holds a notification
    exists,    \* the items that were not deleted
    summary,   \* whether an item has a title or description, and SummarizedAt
    newer,     \* whether the source's time is after SummarizedAt
    active,    \* conversations with a run, or with a message of the last minutes
    fresh,     \* ghost: whether the summary is of the source as it is
    read       \* ghost: whether the source is still as the loop has read it

vars == <<loop, todo, notify, exists, summary, newer, active, fresh, read>>

Init ==
    /\ loop = "delay" /\ todo = <<>> /\ notify = FALSE
    /\ exists = Items /\ active = {}
    /\ summary = [i \in Items |-> FALSE]
    /\ newer = [i \in Items |-> TRUE]
    /\ fresh = [i \in Items |-> FALSE]
    /\ read = FALSE

-----------------------------------------------------------------------------
(* The loop. *)

(* summarizeAll: conversations and users, then agents, then projects; the   *)
(* ids of each kind are listed in order.                                    *)
SummarizeAll ==
    SetToSeq(Conversations \cap exists) \o SetToSeq(Users \cap exists)
    \o SetToSeq(Agents \cap exists) \o SetToSeq(Projects \cap exists)

(* The startup delay is over, the ticker fires, or Notify was called. *)
Wake ==
    /\ loop \in {"delay", "wait"}
    /\ notify' \in {notify, FALSE}
    /\ loop' = "pass" /\ todo' = SummarizeAll
    /\ UNCHANGED <<exists, summary, newer, active, fresh, read>>

(* Notify does not block: notifications are coalesced. *)
Notify ==
    /\ notify' = TRUE
    /\ UNCHANGED <<loop, todo, exists, summary, newer, active, fresh, read>>

(* Stop cancels the context; the loop ends at the next look at it. *)
Stop ==
    /\ loop \in {"delay", "wait", "pass"}
    /\ loop' = "stopped" /\ todo' = <<>>
    /\ UNCHANGED <<notify, exists, summary, newer, active, fresh, read>>

PassEnds ==
    /\ loop = "pass" /\ todo = <<>>
    /\ loop' = "wait"
    /\ UNCHANGED <<todo, notify, exists, summary, newer, active, fresh, read>>

-----------------------------------------------------------------------------
(* One item. *)

(* summarizeAgentConversations: a conversation that has a title is left     *)
(* alone while something happens in it.                                     *)
ConversationDue(i) == newer[i] /\ (summary[i] => i \notin active)

(* summarize{Agent,User,Project}DescriptionModel: no description yet, or    *)
(* AGENT.md, USER.md or MEMORY.md, PROJECT.md is newer than it.  A project  *)
(* of dbstore has a time of its own besides.                                *)
AgentDue(i) == summary[i] => newer[i]
UserDue(i) == summary[i] => newer[i]
ProjectDue(i) == summary[i] => newer[i]

Due(i) ==
    /\ i \in exists
    /\ i \in Conversations => ConversationDue(i)
    /\ i \in Agents => AgentDue(i)
    /\ i \in Users => UserDue(i)
    /\ i \in Projects => ProjectDue(i)

Skip ==
    /\ loop = "pass" /\ todo # <<>> /\ ~ Due(Head(todo))
    /\ todo' = Tail(todo)
    /\ UNCHANGED <<loop, notify, exists, summary, newer, active, fresh, read>>

(* listConversationMessages, loadWorkspaceFileFromStore: what the model is  *)
(* asked about is read now.                                                 *)
ReadSource ==
    /\ loop = "pass" /\ todo # <<>> /\ Due(Head(todo))
    /\ loop' = "ask" /\ read' = TRUE
    /\ UNCHANGED <<todo, notify, exists, summary, newer, active, fresh>>

(* runSynthesisRequest: an answer, or an error, a timeout, no provider, an  *)
(* empty or unreadable answer.                                              *)
RunSynthesisRequest ==
    /\ loop = "ask"
    /\ \/ loop' = "save" /\ UNCHANGED todo
       \/ loop' = "pass" /\ todo' = Tail(todo)
    /\ UNCHANGED <<notify, exists, summary, newer, active, fresh, read>>

(* Mutant of UpdateConversationHeader: the file keeps the time of the write. *)
UpdateConversationHeaderOnly == {TRUE}

(* fsstore.ModifyConversation writes the header with a SummarizedAt of now  *)
(* and gives the file back the time of its last message.                    *)
UpdateConversationHeader == {FALSE}

(* dbstore.ModifyConversation sets modified_at after SummarizedAt; the two  *)
(* are compared in milliseconds.                                            *)
UpdateConversationRow == {TRUE, FALSE}

(* dbstore.ModifyProject sets modified_at after SummarizedAt; the project   *)
(* of fsstore has no such time.                                             *)
ModifyProject == {Backend = "db"}

(* ModifyAgent and ModifyUser leave the files' times alone. *)
ModifyDescription == {FALSE}

NewerAfterSave(i) ==
    IF i \in Conversations
    THEN IF Backend = "fs" THEN UpdateConversationHeader ELSE UpdateConversationRow
    ELSE IF i \in Projects THEN ModifyProject ELSE ModifyDescription

(* The save; an item that was deleted meanwhile is not found. *)
Save ==
    /\ loop = "save"
    /\ LET i == Head(todo) IN
       \/ /\ i \in exists
          /\ summary' = [summary EXCEPT ![i] = TRUE]
          /\ \E b \in NewerAfterSave(i) : newer' = [newer EXCEPT ![i] = b]
          /\ fresh' = [fresh EXCEPT ![i] = read]
       \/ /\ i \notin exists
          /\ UNCHANGED <<summary, newer, fresh>>
    /\ loop' = "pass" /\ todo' = Tail(todo)
    /\ UNCHANGED <<notify, exists, active, read>>

-----------------------------------------------------------------------------
(* The rest of the system. *)

(* A message is added, or AGENT.md, MEMORY.md, USER.md or PROJECT.md is     *)
(* written.                                                                 *)
SourceChanges(i) ==
    /\ i \in exists
    /\ newer' = [newer EXCEPT ![i] = TRUE]
    /\ fresh' = [fresh EXCEPT ![i] = FALSE]
    /\ read' = (read /\ ~ (loop \in {"ask", "save"} /\ i = Head(todo)))
    /\ active' = active \cup ({i} \cap Conversations)
    /\ UNCHANGED <<loop, todo, notify, exists, summary>>

(* The run is over and summarizerInactivityTime has passed. *)
GoesQuiet(i) ==
    /\ i \in active
    /\ active' = active \ {i}
    /\ UNCHANGED <<loop, todo, notify, exists, summary, newer, fresh, read>>

IsDeleted(i) ==
    /\ i \in exists
    /\ exists' = exists \ {i}
    /\ UNCHANGED <<loop, todo, notify, summary, newer, active, fresh, read>>

-----------------------------------------------------------------------------
LoopStep == Wake \/ PassEnds \/ Skip \/ ReadSource \/ RunSynthesisRequest \/ Save

Next ==
    \/ LoopStep \/ Notify \/ Stop
    \/ \E i \in Items : SourceChanges(i) \/ GoesQuiet(i) \/ IsDeleted(i)

Spec == Init /\ [][Next]_vars

-----------------------------------------------------------------------------
(* Properties. *)

TypeOK ==
    /\ loop \in {"delay", "wait", "pass", "ask", "save", "stopped"}
    /\ \A k \in DOMAIN todo : todo[k] \in Items
    /\ loop \in {"ask", "save"} => todo # <<>>
    /\ notify \in BOOLEAN /\ read \in BOOLEAN
    /\ exists \subseteq Items /\ active \subseteq Conversations
    /\ {summary, newer, fresh} \subseteq [Items -> BOOLEAN]

(* summarizeAll, every minute: a model is asked again only about an item    *)
(* whose source has changed since its summary was made; the loop does not   *)
(* feed itself.                                                             *)
NoIdleSynthesis == loop = "ask" /\ read => ~ fresh[Head(todo)]

(* summarizedAt >= lastActive, SummarizedAt not before the files: an item   *)
(* that is passed over has a summary of its source as it is.                *)
UpToDateIsFresh == \A i \in exists : summary[i] /\ ~ newer[i] => fresh[i]
=============================================================================
