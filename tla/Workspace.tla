----------------------------- MODULE Workspace -----------------------------
(***************************************************************************)
(* The files of one workspace (an agent's, a user's or a project's): the   *)
(* actions of the workspace tools over either store, and fsstore's trash.  *)
(*                                                                         *)
(* In fsstore a tool call is one transaction under the store's mutex, each *)
(* file operation of which may fail; nothing is undone.  In dbstore what a *)
(* call has read may have changed when it writes (READ COMMITTED), and its *)
(* writes take effect together.  The content of a file is the set of the   *)
(* pieces that were written or appended to it.                             *)
(***************************************************************************)
EXTENDS FiniteSets

CONSTANTS
    Paths,     \* normalized relative paths
    Pieces,    \* what is written and appended; a piece is used once
    Callers,   \* runs that use a workspace tool
    Backend,   \* "fs" or "db"
    MayFail    \* whether a file operation of fsstore may fail

VARIABLES
    file,      \* the pieces of a file, or Missing
    trashed,   \* fs: the pieces of files that were moved to .trash
    caller,    \* a caller: where it is, and what it has read
    answered,  \* pieces whose write or append was answered with success
    replaced   \* ghost: pieces a later write, move or deletion took away

vars == <<file, trashed, caller, answered, replaced>>

Missing == {"missing"}
Idle == [pc |-> "idle"]
Content(p) == IF file[p] = Missing THEN {} ELSE file[p]
Used == answered \cup trashed \cup replaced \cup UNION {Content(p) : p \in Paths}
New == Pieces \ (Used \cup {caller[c].piece : c \in {d \in Callers : caller[d].pc = "append"}})

(* The workspace is seeded with an empty document. *)
Init ==
    /\ file \in {f \in [Paths -> {{}, Missing}] : \E p \in Paths : f[p] = {}}
    /\ trashed = {} /\ answered = {} /\ replaced = {}
    /\ caller = [c \in Callers |-> Idle]

-----------------------------------------------------------------------------
(* The stores. *)

(* createWorkspaceFile of fsstore: the file has this content, whatever was  *)
(* there.                                                                   *)
CreateWorkspaceFile(p, content) ==
    /\ file' = [file EXCEPT ![p] = content]
    /\ replaced' = replaced \cup (Content(p) \ content)

(* CreateWorkspaceFile of dbstore: INSERT ... ON CONFLICT DO UPDATE. *)
CreateWorkspaceRow(p, content) ==
    /\ file' = [q \in Paths |-> IF q = p THEN content ELSE file[q]]
    /\ replaced' = replaced \cup (Content(p) \ content)

(* Mutant of DeleteWorkspaceFile: the file is removed. *)
RemoveWorkspaceFile(p) ==
    /\ file' = [file EXCEPT ![p] = Missing]
    /\ UNCHANGED <<trashed, replaced>>

(* trash.Move, to a name of its own: nothing in the trash is overwritten. *)
MoveToTrash(p) == trashed' = trashed \cup Content(p)

(* deleteWorkspaceFile of fsstore. *)
DeleteWorkspaceFile(p) ==
    /\ file' = [file EXCEPT ![p] = Missing]
    /\ MoveToTrash(p)
    /\ UNCHANGED replaced

(* DeleteWorkspaceFileByPath of dbstore. *)
DeleteWorkspaceRow(p) ==
    /\ file' = [file EXCEPT ![p] = Missing]
    /\ replaced' = replaced \cup Content(p)
    /\ UNCHANGED trashed

-----------------------------------------------------------------------------
(* The tool. *)

(* executeWrite: modify the file, or create it; the content is the same. *)
ExecuteWrite(c, p, x) ==
    /\ caller[c] = Idle /\ x \in New
    /\ IF Backend = "fs" THEN CreateWorkspaceFile(p, {x}) ELSE CreateWorkspaceRow(p, {x})
    /\ answered' = answered \cup {x}
    /\ UNCHANGED <<trashed, caller>>

(* executeAppend reads the file... *)
ExecuteAppend(c, p, x) ==
    /\ caller[c] = Idle /\ x \in New
    /\ \/ /\ Backend = "fs"
          /\ CreateWorkspaceFile(p, Content(p) \cup {x})
          /\ answered' = answered \cup {x}
          /\ UNCHANGED caller
       \/ /\ Backend = "db"
          /\ caller' = [caller EXCEPT ![c] =
                            [pc |-> "append", path |-> p, piece |-> x, read |-> Content(p)]]
          /\ UNCHANGED <<file, answered, replaced>>
    /\ UNCHANGED trashed

(* ... and writes what it has read and one piece more. *)
ExecuteAppendWrites(c) ==
    /\ caller[c].pc = "append"
    /\ file' = [file EXCEPT ![caller[c].path] = caller[c].read \cup {caller[c].piece}]
    /\ answered' = answered \cup {caller[c].piece}
    /\ caller' = [caller EXCEPT ![c] = Idle]
    /\ UNCHANGED <<trashed, replaced>>

(* A read of a file that is not there is an error, of move as of read. *)
ExecuteDelete(c, p) ==
    /\ caller[c] = Idle /\ file[p] # Missing
    /\ IF Backend = "fs" THEN DeleteWorkspaceFile(p) ELSE DeleteWorkspaceRow(p)
    /\ UNCHANGED <<caller, answered>>

(* executeMove reads the source and creates the destination... *)
ExecuteMove(c, p, q) ==
    /\ caller[c] = Idle /\ p # q /\ file[p] # Missing
    /\ \A d \in Callers : Backend = "fs" => caller[d] = Idle
    /\ caller' = [caller EXCEPT ![c] = [pc |-> "move", from |-> p, to |-> q, read |-> file[p]]]
    /\ IF Backend = "fs" THEN CreateWorkspaceFile(q, file[p]) ELSE UNCHANGED <<file, replaced>>
    /\ UNCHANGED <<trashed, answered>>

(* ... and deletes the source, or fails to: then both are there. *)
ExecuteMoveDeletes(c) ==
    /\ Backend = "fs" /\ caller[c].pc = "move"
    /\ \/ DeleteWorkspaceFile(caller[c].from)
       \/ MayFail /\ UNCHANGED <<file, trashed, replaced>>
    /\ caller' = [caller EXCEPT ![c] = Idle]
    /\ UNCHANGED answered

(* In dbstore the two take effect at the commit. *)
ExecuteMoveCommits(c) ==
    /\ Backend = "db" /\ caller[c].pc = "move"
    /\ file' = [file EXCEPT ![caller[c].to] = caller[c].read, ![caller[c].from] = Missing]
    /\ replaced' = replaced \cup (Content(caller[c].to) \ caller[c].read)
    /\ caller' = [caller EXCEPT ![c] = Idle]
    /\ UNCHANGED <<trashed, answered>>

-----------------------------------------------------------------------------
(* fsstore.Transaction: nobody else runs while a move is under way. *)
Free == Backend = "fs" => \A c \in Callers : caller[c] = Idle

Next ==
    \E c \in Callers :
        \/ \E p \in Paths :
            \/ \E x \in Pieces : Free /\ (ExecuteWrite(c, p, x) \/ ExecuteAppend(c, p, x))
            \/ Free /\ ExecuteDelete(c, p)
            \/ \E q \in Paths : ExecuteMove(c, p, q)
        \/ ExecuteAppendWrites(c) \/ ExecuteMoveDeletes(c) \/ ExecuteMoveCommits(c)

Spec == Init /\ [][Next]_vars

-----------------------------------------------------------------------------
(* Properties. *)

TypeOK ==
    /\ file \in [Paths -> (SUBSET Pieces) \cup {Missing}]
    /\ {trashed, answered, replaced} \subseteq SUBSET Pieces
    /\ \A c \in Callers : caller[c].pc \in {"idle", "append", "move"}

(* executeAppend, executeMove, executeDelete: what a tool call has stored   *)
(* is in a file or in the trash until a later write replaces it; not even a *)
(* move that fails half way loses it.                                       *)
StoredIsKept ==
    answered \subseteq replaced \cup trashed \cup UNION {Content(p) : p \in Paths}
=============================================================================
