------------------------------- MODULE Agents -------------------------------
(***************************************************************************)
(* The agents: agents.* of one user's connections, the agent tools, and    *)
(* the runs that agents start for each other, over either store.           *)
(*                                                                         *)
(* In fsstore a transaction is one step under the store's mutex, and what  *)
(* it wrote before it fails stays.  In dbstore a transaction that fails is *)
(* undone, and ModifyAgent reads a row and writes all of its columns in    *)
(* two statements, at READ COMMITTED.  Of an agent the name, the avatar    *)
(* and the seeded workspace files are kept; the rights of the caller are   *)
(* checked before.                                                         *)
(***************************************************************************)
EXTENDS Naturals, Sequences, SequencesExt

CONSTANTS
    Ids,         \* ids of agents
    First,       \* the agent there is at first, the user's default
    Avatars,     \* ids of media
    Callers,     \* connections of the user and runs that call a tool
    Backend,     \* "fs" or "db"
    MayFail,     \* whether writing a seeded file may fail
    MaxDepth,    \* DefaultMaxSpawnDepth
    MaxChain     \* bound: runs that wait for each other

None == "none"
Keep == "keep"     \* of an avatar that a request does not speak of
Idle == [pc |-> "idle"]
Absent == [exists |-> FALSE, avatar |-> None, seeded |-> FALSE]

VARIABLES
    agent,      \* the record of an agent
    default,    \* DefaultAgentID of the user
    seen,       \* the default in the context of a connection: as it was when it connected
    caller,     \* a caller: where it is, and what it has read
    asked,      \* ghost: the avatar last asked for and answered
    chain       \* the runs that wait, each for the next: their agent, and the spawn depth in their context

vars == <<agent, default, seen, caller, asked, chain>>

Existing == {a \in Ids : agent[a].exists}

Init ==
    /\ agent = [a \in Ids |-> IF a = First THEN [exists |-> TRUE, avatar |-> None, seeded |-> TRUE] ELSE Absent]
    /\ default = First
    /\ seen = [c \in Callers |-> First]
    /\ caller = [c \in Callers |-> Idle]
    /\ asked = [a \in Ids |-> None]
    /\ chain = <<[agent |-> First, depth |-> 0, spawned |-> FALSE]>>

Enter(c, state) == caller' = [caller EXCEPT ![c] = state]
Put(a, record) == agent' = [agent EXCEPT ![a] = record]
(* The ghost of an answered request: what it said of the avatar, if it did. *)
Ask(a, wish) == asked' = [asked EXCEPT ![a] = IF wish = Keep THEN @ ELSE wish]

-----------------------------------------------------------------------------
(* The agents of fsstore. *)

(* createAgent: the record, then the files; what is written stays. *)
CreateAgentFile(a, avatar) ==
    /\ Backend = "fs" /\ a \notin Existing
    /\ \E ok \in {TRUE, ~MayFail} :
         /\ Put(a, [exists |-> TRUE, avatar |-> avatar, seeded |-> ok])
         /\ Ask(a, avatar)

(* modifyAgent. *)
ModifyAgentFile(a, avatar, wish) ==
    /\ Backend = "fs" /\ a \in Existing
    /\ Put(a, [agent[a] EXCEPT !.avatar = avatar])
    /\ Ask(a, wish)

(* deleteAgentDirectories: the user's DefaultAgentID is left as it is. *)
DeleteAgentFile(a) ==
    /\ Backend = "fs" /\ a \in Existing
    /\ Put(a, Absent)
    /\ Ask(a, None)
    /\ UNCHANGED default

(* Mutant of ModifyDefaultRow: the column has no foreign key. *)
ModifyDefaultAny(a) == default' = a

(* ModifyUser of agents.setDefault on dbstore: its foreign key. *)
ModifyDefaultRow(a) == default' = IF a \in Existing THEN a ELSE default

(* ModifyUser of agents.setDefault. *)
ModifyDefault(a) == IF Backend = "fs" THEN default' = a ELSE ModifyDefaultRow(a)

-----------------------------------------------------------------------------
(* The agents of dbstore. *)

(* CreateAgent: a duplicate key, or a file that fails, undoes all of it. *)
CreateAgentRow(a, avatar) ==
    /\ Backend = "db" /\ a \notin Existing
    /\ Put(a, [exists |-> TRUE, avatar |-> avatar, seeded |-> TRUE])
    /\ Ask(a, avatar)

(* ModifyAgent, its read: all columns of the row as it is now. *)
ReadAgentRow(c, a, avatar, wish) ==
    /\ Backend = "db" /\ a \in Existing
    /\ Enter(c, [pc |-> "write", id |-> a, record |-> [agent[a] EXCEPT !.avatar = avatar], wish |-> wish])

(* ModifyAgent, its UPDATE: of no row when the agent was deleted. *)
UpdateAgentRow(c) ==
    /\ caller[c].pc = "write"
    /\ IF caller[c].id \in Existing
       THEN Put(caller[c].id, caller[c].record) /\ Ask(caller[c].id, caller[c].wish)
       ELSE UNCHANGED <<agent, asked>>
    /\ Enter(c, Idle)
    /\ UNCHANGED <<default, seen, chain>>

(* DeleteAgent: ON DELETE SET NULL for the users whose default it is. *)
DeleteAgentRow(a) ==
    /\ Backend = "db" /\ a \in Existing
    /\ Put(a, Absent)
    /\ Ask(a, None)
    /\ default' = IF default = a THEN None ELSE default

-----------------------------------------------------------------------------
(* agents.* *)

(* A connection carries the user as it was when it connected. *)
Connect(c) ==
    /\ caller[c].pc = "idle"
    /\ seen' = [seen EXCEPT ![c] = default]
    /\ UNCHANGED <<agent, default, caller, asked, chain>>

(* Create or modify, as the agent is found. *)
Save(c, a, avatar, wish) ==
    \/ (CreateAgentFile(a, avatar) \/ CreateAgentRow(a, avatar) \/ ModifyAgentFile(a, avatar, wish)) /\ UNCHANGED caller
    \/ ReadAgentRow(c, a, avatar, wish) /\ UNCHANGED <<agent, asked>>

(* Mutant of SavedAvatar: what the request leaves out is cleared. *)
SavedAvatarCleared(a, avatar) == avatar

(* agents.config.save keeps the avatar when the request has none. *)
SavedAvatar(a, avatar) == IF avatar = None /\ a \in Existing THEN agent[a].avatar ELSE avatar

HandleAgentsConfigSave(c) ==
    /\ caller[c].pc = "idle"
    /\ \E a \in Ids, avatar \in Avatars \cup {None} : Save(c, a, SavedAvatar(a, avatar), IF avatar = None THEN Keep ELSE avatar)
    /\ UNCHANGED <<default, seen, chain>>

HandleAgentsAvatarSet(c) ==
    /\ caller[c].pc = "idle"
    /\ \E a \in Existing, avatar \in Avatars : Save(c, a, avatar, avatar)
    /\ UNCHANGED <<default, seen, chain>>

HandleAgentsAvatarRemove(c) ==
    /\ caller[c].pc = "idle"
    /\ \E a \in Existing : Save(c, a, None, None)
    /\ UNCHANGED <<default, seen, chain>>

(* agent_create: an agent that exists is an error. *)
ExecuteAgentCreate(c) ==
    /\ caller[c].pc = "idle"
    /\ \E a \in Ids : CreateAgentFile(a, None) \/ CreateAgentRow(a, None)
    /\ UNCHANGED <<default, seen, caller, chain>>

(* agents.config.delete: not the default agent that the connection knows. *)
HandleAgentsConfigDelete(c) ==
    /\ caller[c].pc = "idle"
    /\ \E a \in Ids \ {seen[c]} : DeleteAgentFile(a) \/ DeleteAgentRow(a)
    /\ UNCHANGED <<seen, caller, chain>>

(* agents.setDefault: the agent is looked up in a transaction of its own. *)
HandleAgentsSetDefault(c) ==
    /\ caller[c].pc = "idle"
    /\ \E a \in Existing : Enter(c, [pc |-> "default", id |-> a])
    /\ UNCHANGED <<agent, default, seen, asked, chain>>

SetDefaultWrites(c) ==
    /\ caller[c].pc = "default"
    /\ ModifyDefault(caller[c].id)
    /\ Enter(c, Idle)
    /\ UNCHANGED <<agent, seen, asked, chain>>

-----------------------------------------------------------------------------
(* Runs that agents start, and wait for. *)

(* The context of the run: the coordinator builds it from its own context,  *)
(* and carries over the user, not the spawn depth.                          *)
RunContextDepth(depth) == 0

Start(a, depth, spawned) ==
    /\ Len(chain) < MaxChain
    /\ chain' = Append(chain, [agent |-> a, depth |-> RunContextDepth(depth), spawned |-> spawned])
    /\ UNCHANGED <<agent, default, seen, caller, asked>>

(* agent_message. *)
ExecuteAgentMessage == \E a \in Existing : Start(a, Last(chain).depth, FALSE)

(* subagent_spawn: an error at the maximal depth. *)
ExecuteSubagentSpawn ==
    /\ Last(chain).depth < MaxDepth
    /\ \E a \in Existing : Start(a, Last(chain).depth + 1, TRUE)

(* The last run completes, and the one that waits for it goes on. *)
RunCompletes ==
    /\ Len(chain) > 1
    /\ chain' = Front(chain)
    /\ UNCHANGED <<agent, default, seen, caller, asked>>

-----------------------------------------------------------------------------
Next ==
    \/ \E c \in Callers :
         \/ Connect(c)
         \/ HandleAgentsConfigSave(c) \/ HandleAgentsAvatarSet(c) \/ HandleAgentsAvatarRemove(c)
         \/ ExecuteAgentCreate(c) \/ HandleAgentsConfigDelete(c)
         \/ HandleAgentsSetDefault(c) \/ SetDefaultWrites(c)
         \/ UpdateAgentRow(c)
    \/ ExecuteAgentMessage \/ ExecuteSubagentSpawn \/ RunCompletes

Spec == Init /\ [][Next]_vars

-----------------------------------------------------------------------------
Records == [exists : BOOLEAN, avatar : Avatars \cup {None}, seeded : BOOLEAN]

TypeOK ==
    /\ agent \in [Ids -> Records]
    /\ default \in Ids \cup {None} /\ seen \in [Callers -> Ids \cup {None}]
    /\ caller \in [Callers -> {Idle} \cup [pc : {"default"}, id : Ids] \cup [pc : {"write"}, id : Ids, record : Records, wish : Avatars \cup {None, Keep}]]
    /\ asked \in [Ids -> Avatars \cup {None}]
    /\ Len(chain) \in 1..MaxChain
    /\ \A i \in DOMAIN chain : chain[i].agent \in Ids /\ chain[i].depth \in 0..MaxDepth

(* The default agent of a user is an agent: none that was deleted between   *)
(* the look-up and the update of agents.setDefault, or by a connection that *)
(* does not know that it became the default.                                *)
DefaultExists == default \in Existing \cup {None}

(* The avatar that an administrator last set or removed is the one stored,  *)
(* through saves of the other fields of the agent meanwhile.                *)
AvatarKept == \A a \in Existing : agent[a].avatar = asked[a]

(* Every agent has its AGENT.md, MEMORY.md and SKILLS.md. *)
SeededAgent == \A a \in Existing : agent[a].seeded

(* Subagents are nested at most DefaultMaxSpawnDepth deep. *)
SpawnDepthBounded == Len(SelectSeq(chain, LAMBDA run : run.spawned)) <= MaxDepth
=============================================================================
