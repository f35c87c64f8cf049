------------------------------- MODULE Todos -------------------------------
(***************************************************************************)
(* Projects, and the todos of projects and conversations: the two todo     *)
(* tools, the projects tool, conversations.todos.* and projects.*, over    *)
(* either store.                                                           *)
(*                                                                         *)
(* In fsstore a transaction is one step under the store's mutex.  In       *)
(* dbstore Modify... reads a row and updates all of its columns in two     *)
(* statements, at READ COMMITTED; an update of a row that is gone changes  *)
(* nothing.  Who may call is checked before; titles, priorities and tags   *)
(* of todos, PROJECT.md and the events to clients are not modelled.        *)
(***************************************************************************)
EXTENDS FiniteSets

CONSTANTS
    Conversations,  \* conversation ids
    Projects,       \* project ids; an id is used once
    Names,          \* names of projects
    Ids,            \* todo ids; an id is used once
    Callers,        \* runs that call a tool and connections
    Backend         \* "fs" or "db"

None == "none"
Idle == [pc |-> "idle"]
Owners == Conversations \cup Projects

VARIABLES
    alive,     \* the conversations and projects in the store
    usedIds,   \* project ids that were ever used
    name,      \* the name of a project
    renamed,   \* ghost: the name that was last asked for and answered
    todo,      \* the record of a todo, with "unused" or "gone" for its status
    call       \* a caller: where it is, and what it has read

vars == <<alive, usedIds, name, renamed, todo, call>>

Unused == [status |-> "unused", completedAt |-> FALSE, owner |-> None]
Stored == {t \in Ids : todo[t].status \in {"open", "done"}}

Init ==
    /\ alive = Conversations
    /\ usedIds = {}
    /\ name = [p \in Projects |-> None] /\ renamed = [p \in Projects |-> None]
    /\ todo = [t \in Ids |-> Unused]
    /\ call = [c \in Callers |-> Idle]

-----------------------------------------------------------------------------
(* The todos of fsstore and dbstore. *)

Put(t, record) == todo' = [todo EXCEPT ![t] = record]
Gone(ts) == todo' = [t \in Ids |-> IF t \in ts THEN [Unused EXCEPT !.status = "gone"] ELSE todo[t]]

(* CreateTodo of fsstore: resolveTodoFilePath looks for the conversation;   *)
(* a directory is made for a project, whether or not there is one.          *)
CanCreateFile(owner) == owner \in alive \cup Projects

(* Mutant of CanCreateRow: no foreign key. *)
CanCreateAny(owner) == owner \in Owners

(* CreateTodo of dbstore: the foreign keys. *)
CanCreateRow(owner) == owner \in alive

CanCreate(owner) == IF Backend = "fs" THEN CanCreateFile(owner) ELSE CanCreateRow(owner)

(* ListTodos: nothing for a conversation that is gone. *)
ListTodosFile(owner) == {t \in Stored : todo[t].owner = owner /\ owner \in alive \cup Projects}
ListTodosRow(owner) == {t \in Stored : todo[t].owner = owner}
ListTodos(owner) == IF Backend = "fs" THEN ListTodosFile(owner) ELSE ListTodosRow(owner)

(* ModifyTodo of fsstore finds the file, changes and writes it. *)
ModifyTodoFile(t, record) == IF t \in Stored THEN Put(t, record) ELSE UNCHANGED todo

(* Mutant of ModifyTodoRow: an upsert. *)
SaveTodoRow(t, record) == Put(t, record)

(* ModifyTodo of dbstore, its update. *)
ModifyTodoRow(t, record) == todo' = [u \in Ids |-> IF u = t /\ t \in Stored THEN record ELSE todo[u]]

(* DeleteTodo: into the trash; a DELETE. *)
DeleteTodoFile(t) == IF t \in Stored THEN Gone({t}) ELSE UNCHANGED todo
DeleteTodoRow(t) == Gone({t} \cap Stored)
DeleteTodo(t) == IF Backend = "fs" THEN DeleteTodoFile(t) ELSE DeleteTodoRow(t)

-----------------------------------------------------------------------------
(* The batches.  Bound: a batch has one item. *)

(* The schema of conversation_todo and of project_todo. *)
BatchOps == {"add", "update", "complete", "reopen", "delete"}
ProjectBatchOps == BatchOps

Answered(c) == call' = [call EXCEPT ![c] = Idle]
Enter(c, state) == call' = [call EXCEPT ![c] = state]
Touch(c, owner) == Enter(c, [pc |-> "touch", owner |-> owner])

(* The modifiers of batchUpdate, batchComplete and batchReopen. *)
Modified(op, record) ==
    CASE op = "complete" -> [record EXCEPT !.status = "done", !.completedAt = TRUE]
      [] op = "reopen" -> [record EXCEPT !.status = "open", !.completedAt = FALSE]
      [] op = "update" -> record

BatchAdd(c, owner, t) ==
    /\ todo[t] = Unused
    /\ IF CanCreate(owner)
       THEN /\ Put(t, [status |-> "open", completedAt |-> FALSE, owner |-> owner])
            /\ Touch(c, owner)
       ELSE Answered(c) /\ UNCHANGED todo

(* batchUpdate, batchComplete, batchReopen: by the id of the todo alone; an *)
(* item that is not found is an error of its own.                           *)
BatchModify(c, owner, op, t) ==
    /\ todo[t] # Unused
    /\ IF t \notin Stored THEN Answered(c) /\ UNCHANGED todo
       ELSE \/ Backend = "fs" /\ ModifyTodoFile(t, Modified(op, todo[t])) /\ Touch(c, owner)
            \/ /\ Backend = "db"
               /\ Enter(c, [pc |-> "write", owner |-> owner, id |-> t, record |-> Modified(op, todo[t])])
               /\ UNCHANGED todo

BatchDelete(c, owner, t) ==
    /\ todo[t] # Unused
    /\ DeleteTodo(t)
    /\ IF t \in Stored THEN Touch(c, owner) ELSE Answered(c)

(* executeBatchItem. *)
ExecuteBatchItem(c, owner, op, t) ==
    \/ op = "add" /\ BatchAdd(c, owner, t)
    \/ op \in {"update", "complete", "reopen"} /\ BatchModify(c, owner, op, t)
    \/ op = "delete" /\ BatchDelete(c, owner, t)

(* Execute of conversation_todo, after it has found the conversation in a   *)
(* transaction of its own; the batch may find it gone.                      *)
ExecuteConversationTodo(c, owner) ==
    /\ call[c] = Idle /\ owner \in Conversations \cap alive
    /\ Enter(c, [pc |-> "batch", owner |-> owner])
    /\ UNCHANGED <<alive, usedIds, name, renamed, todo>>

ExecuteBatch(c, op, t) ==
    /\ call[c].pc = "batch" /\ op \in BatchOps
    /\ ExecuteBatchItem(c, call[c].owner, op, t)
    /\ UNCHANGED <<alive, usedIds, name, renamed>>

(* Execute and executeBatch of project_todo: nobody looks for the project   *)
(* of a projectId.                                                          *)
ExecuteProjectBatch(c, owner, op, t) ==
    /\ call[c] = Idle /\ owner \in usedIds /\ op \in ProjectBatchOps
    /\ ExecuteBatchItem(c, owner, op, t)
    /\ UNCHANGED <<alive, usedIds, name, renamed>>

(* handleConversationsTodosBatch, after verifyConversationAccess. *)
HandleConversationsTodosBatch(c, op, t) ==
    /\ call[c].pc = "batch" /\ op \in BatchOps
    /\ ExecuteBatchItem(c, call[c].owner, op, t)
    /\ UNCHANGED <<alive, usedIds, name, renamed>>

(* dbstore: the update of ModifyTodo, and the row it then reads. *)
BatchModifyWrites(c) ==
    /\ call[c].pc = "write"
    /\ ModifyTodoRow(call[c].id, call[c].record)
    /\ IF call[c].id \in Stored THEN Touch(c, call[c].owner) ELSE Answered(c)
    /\ UNCHANGED <<alive, usedIds, name, renamed>>

-----------------------------------------------------------------------------
(* Prune. *)

Done(ts) == {t \in ts : todo[t].status = "done"}

(* executePrune of either tool lists the todos and deletes the done ones;   *)
(* in dbstore there is time between the two.                                *)
Prune(c, owner) ==
    LET done == Done(ListTodos(owner)) IN
    \/ /\ Backend = "fs"
       /\ Gone(done)
       /\ IF done = {} THEN Answered(c) ELSE Touch(c, owner)
    \/ /\ Backend = "db"
       /\ Enter(c, [pc |-> "prune", owner |-> owner, ids |-> done])
       /\ UNCHANGED todo

ExecutePrune(c) ==
    /\ call[c].pc = "batch"
    /\ Prune(c, call[c].owner)
    /\ UNCHANGED <<alive, usedIds, name, renamed>>

ExecuteProjectPrune(c, owner) ==
    /\ call[c] = Idle /\ owner \in usedIds
    /\ Prune(c, owner)
    /\ UNCHANGED <<alive, usedIds, name, renamed>>

(* One that is gone already is an error, and everything is rolled back. *)
PruneDeletes(c) ==
    /\ call[c].pc = "prune"
    /\ IF call[c].ids # {} /\ call[c].ids \subseteq Stored
       THEN Gone(call[c].ids) /\ Touch(c, call[c].owner)
       ELSE Answered(c) /\ UNCHANGED todo
    /\ UNCHANGED <<alive, usedIds, name, renamed>>

-----------------------------------------------------------------------------
(* ModifyProject and ModifyConversation. *)

(* modifyProject of fsstore, of which the modifier sets the name. *)
ModifyProjectFile(p, n) == p \in alive /\ name' = [name EXCEPT ![p] = n]

(* ModifyProject of dbstore writes the name that was read or set. *)
ModifyProjectRow(p, n) == name' = [name EXCEPT ![p] = IF p \in alive THEN n ELSE @]

(* afterMutateConversation and afterMutateProject: only the time is set;    *)
(* errors are dropped.                                                      *)
AfterMutateConversation(c) ==
    /\ call[c].pc = "touch" /\ call[c].owner \in Conversations
    /\ Answered(c)
    /\ UNCHANGED <<alive, usedIds, name, renamed, todo>>

AfterMutateProject(c) ==
    /\ call[c].pc = "touch" /\ call[c].owner \in Projects
    /\ LET p == call[c].owner IN
       IF p \notin alive \/ Backend = "fs" THEN Answered(c)
       ELSE Enter(c, [pc |-> "row", project |-> p, name |-> name[p], by |-> "touch"])
    /\ UNCHANGED <<alive, usedIds, name, renamed, todo>>

(* renameProject, handleProjectsRename. *)
Rename(c, p, n) ==
    /\ call[c] = Idle
    /\ p \in alive \cap Projects
    /\ \/ /\ Backend = "fs" /\ ModifyProjectFile(p, n)
          /\ renamed' = [renamed EXCEPT ![p] = n]
          /\ UNCHANGED call
       \/ /\ Backend = "db"
          /\ Enter(c, [pc |-> "row", project |-> p, name |-> n, by |-> "rename"])
          /\ UNCHANGED <<name, renamed>>
    /\ UNCHANGED <<alive, usedIds, todo>>

RenameProject(c) == \E p \in Projects, n \in Names : Rename(c, p, n)
HandleProjectsRename(c) == \E p \in Projects, n \in Names : Rename(c, p, n)

RowWrites(c) ==
    /\ call[c].pc = "row"
    /\ ModifyProjectRow(call[c].project, call[c].name)
    /\ renamed' = [p \in Projects |->
                      IF p = call[c].project /\ call[c].by = "rename" /\ p \in alive
                      THEN call[c].name ELSE renamed[p]]
    /\ Answered(c)
    /\ UNCHANGED <<alive, usedIds, todo>>

-----------------------------------------------------------------------------
(* Projects and conversations come and go. *)

Create(p, n) ==
    /\ p \in Projects \ usedIds
    /\ alive' = alive \cup {p} /\ usedIds' = usedIds \cup {p}
    /\ name' = [name EXCEPT ![p] = n] /\ renamed' = [renamed EXCEPT ![p] = n]
    /\ UNCHANGED <<todo, call>>

(* createProject of fsstore, CreateProject of dbstore. *)
CreateProjectFile(p, n) == Backend = "fs" /\ Create(p, n)
CreateProjectRow(p, n) == Backend = "db" /\ Create(p, n)

(* handleProjectsCreate, createProject of the tool. *)
HandleProjectsCreate == \E p \in Projects, n \in Names : CreateProjectFile(p, n) \/ CreateProjectRow(p, n)
CreateProject == HandleProjectsCreate

(* deleteProject of fsstore: the directory with its todos to the trash.     *)
(* It may be a directory that only a todo has made.                         *)
DeleteProjectFile(p) ==
    /\ Backend = "fs" /\ p \in usedIds
    /\ p \in alive \/ ListTodosFile(p) # {}
    /\ Gone(ListTodosFile(p))

(* DeleteProject of dbstore cascades to the todos. *)
DeleteProjectRow(p) == Backend = "db" /\ p \in alive /\ Gone(ListTodosRow(p))

(* projects.delete and the action "delete" of the tool. *)
HandleProjectsDelete ==
    /\ \E p \in Projects :
        /\ DeleteProjectFile(p) \/ DeleteProjectRow(p)
        /\ alive' = alive \ {p}
    /\ UNCHANGED <<usedIds, name, renamed, call>>

ExecuteProjects == CreateProject \/ HandleProjectsDelete

(* A conversation is deleted; fsstore leaves the directory of its todos. *)
ConversationDeleted(o) ==
    /\ o \in Conversations \cap alive
    /\ alive' = alive \ {o}
    /\ IF Backend = "fs" THEN UNCHANGED todo ELSE Gone(ListTodosRow(o))
    /\ UNCHANGED <<usedIds, name, renamed, call>>

-----------------------------------------------------------------------------
(* buildTodoOverlay, executeList, conversations.todos.list and              *)
(* projects.todos.list: the open todos, and how many are done.              *)
BuildTodoOverlay(owner) ==
    [open |-> ListTodos(owner) \ Done(ListTodos(owner)),
     doneCount |-> Cardinality(Done(ListTodos(owner)))]

-----------------------------------------------------------------------------
Next ==
    \/ \E c \in Callers :
        \/ \E o \in Owners : ExecuteConversationTodo(c, o) \/ ExecuteProjectPrune(c, o)
        \/ \E op \in BatchOps, t \in Ids :
            \/ ExecuteBatch(c, op, t) \/ HandleConversationsTodosBatch(c, op, t)
            \/ \E o \in Owners : ExecuteProjectBatch(c, o, op, t)
        \/ BatchModifyWrites(c) \/ ExecutePrune(c) \/ PruneDeletes(c)
        \/ AfterMutateConversation(c) \/ AfterMutateProject(c)
        \/ RenameProject(c) \/ HandleProjectsRename(c) \/ RowWrites(c)
    \/ HandleProjectsCreate \/ ExecuteProjects \/ HandleProjectsDelete
    \/ \E o \in Conversations : ConversationDeleted(o)

Spec == Init /\ [][Next]_vars

-----------------------------------------------------------------------------
(* Properties. *)

TypeOK ==
    /\ alive \subseteq Owners /\ usedIds \subseteq Projects
    /\ {name, renamed} \subseteq [Projects -> Names \cup {None}]
    /\ todo \in [Ids -> [status : {"unused", "open", "done", "gone"}, completedAt : BOOLEAN,
                         owner : Owners \cup {None}]]
    /\ \A c \in Callers : call[c].pc \in {"idle", "batch", "write", "prune", "touch", "row"}

(* DeleteTodo, executePrune, DeleteProject: a todo that is gone stays so,   *)
(* whatever update of it is under way.                                      *)
TodoStaysGone == \A t \in Ids : todo[t].status = "gone" => todo'[t].status = "gone"

(* The foreign keys, against a batch whose conversation is deleted after it *)
(* was looked for: a todo has an owner.                                     *)
TodoHasOwner == \A t \in Stored : todo[t].owner \in alive

(* ModifyProject: a project has the name that was last asked for.           *)
NameAsAsked == \A p \in alive \cap Projects : name[p] = renamed[p]
=============================================================================
