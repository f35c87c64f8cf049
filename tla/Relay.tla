------------------------------- MODULE Relay -------------------------------
(***************************************************************************)
(* The two relays that send commands of tools to a client over its         *)
(* WebSocket and wait for the answer: terminals.Relay (the terminal        *)
(* clients of one user and one name, where a new connection replaces the   *)
(* old one) and relaybrowser.Relay (the browser extensions, each with one  *)
(* tab, where every connection has an id of its own).  Both match answers  *)
(* to commands with pending.Requests.                                      *)
(*                                                                         *)
(* Goroutines: readLoop per connection (reader), one per command (command),*)
(* pingLoop per connection.  A step is one mutex hold, one socket          *)
(* operation or one channel operation.  A connection is named once and     *)
(* never comes back; a client that reconnects is a new connection.         *)
(***************************************************************************)
EXTENDS Integers, Sequences, FiniteSets

CONSTANTS
    Terminals,   \* connections of terminal clients, all with one connectionKey
    Extensions,  \* connections of browser extensions
    Commands,    \* calls of SendCommandForUser and SendCDPCommand
    EventField,  \* the name under which an extension sends an event's body
    MayPing,     \* whether pingLoop is followed
    MaxWire      \* bound: frames under way from a client

Connections == Terminals \cup Extensions
NoFrame == [kind |-> "none"]
Pinger == "pingLoop"

VARIABLES
    registered, \* the connections that are in Relay.connections
    socket,     \* state of the WebSocket of a connection
    targets,    \* extensions whose tab is in relayConnection.targets
    machine,    \* whose attach frame a terminalConnection's machine is from
    channels,   \* pending.Requests.channels: the commands under their ids
    nextId,     \* pending.Requests.nextId
    reader,     \* readLoop: where it is, the frame it holds, the entry it has found
    command,    \* a command: where it is, its connection and id
    box,        \* what was ever sent on a command's result channel
    writers,    \* who is inside connection.WriteMessage
    toClient,   \* commands the client has received and not answered
    toServer    \* frames the client has sent

serverVars == <<registered, targets, machine, channels, nextId>>
wireVars == <<socket, writers, toClient, toServer>>
vars == <<serverVars, wireVars, reader, command, box>>

Init ==
    /\ registered = {} /\ targets = {}
    /\ machine = [c \in Connections |-> {}]
    /\ socket = [c \in Connections |-> "none"]
    /\ channels = [c \in Connections |-> {}]
    /\ nextId = [c \in Connections |-> 0]
    /\ reader = [c \in Connections |-> [pc |-> "off", frame |-> NoFrame, entry |-> c]]
    /\ command = [k \in Commands |-> [pc |-> "idle", conn |-> {}, id |-> 0]]
    /\ box = [k \in Commands |-> <<>>]
    /\ writers = [c \in Connections |-> {}]
    /\ toClient = [c \in Connections |-> {}]
    /\ toServer = [c \in Connections |-> <<>>]

-----------------------------------------------------------------------------
(* pending.Requests. *)

(* The commands that RejectAll answers with an error. *)
Waiting(cs) == UNION {{p[2] : p \in channels[c]} : c \in cs}

(* Mutant of RejectAll: the map is cleared and nobody is told. *)
ClearAll(cs) ==
    /\ channels' = [c \in Connections |-> IF c \in cs THEN {} ELSE channels[c]]
    /\ UNCHANGED box

(* RejectAll sends while it holds the mutex, then clears the map. *)
RejectAll(cs) ==
    /\ channels' = [c \in Connections |-> IF c \in cs THEN {} ELSE channels[c]]
    /\ box' = [k \in Commands |->
                   IF k \in Waiting(cs) THEN Append(box[k], "rejected") ELSE box[k]]

(* Mutant of Taken: the channel stays in the map. *)
LeftInPlace(e, found) == UNCHANGED channels

(* Resolve deletes what it has found, under the mutex. *)
Taken(e, found) == channels' = [channels EXCEPT ![e] = @ \ found]

(* Cancel. *)
Forget(k) ==
    channels' = [c \in Connections |->
                    IF c \in command[k].conn THEN channels[c] \ {<<command[k].id, k>>}
                    ELSE channels[c]]

-----------------------------------------------------------------------------
(* HandleWebSocket. *)

(* sendMachineInfo: the first frame of a terminal client. *)
MachineInfo == [kind |-> "attach"]

(* A terminal replaces the connection registered under the same key: that   *)
(* one's socket is closed and its commands are rejected, under the mutex.   *)
HandleTerminalSocket(c) ==
    /\ c \in Terminals /\ socket[c] = "none"
    /\ LET existing == registered \cap Terminals IN
       /\ RejectAll(existing)
       /\ socket' = [d \in Connections |->
                        IF d = c THEN "open" ELSE IF d \in existing THEN "closed" ELSE socket[d]]
       /\ registered' = (registered \ existing) \cup {c}
    /\ reader' = [reader EXCEPT ![c].pc = "read"]
    /\ toServer' = [toServer EXCEPT ![c] = <<MachineInfo>>]
    /\ UNCHANGED <<targets, machine, nextId, command, writers, toClient>>

HandleExtensionSocket(c) ==
    /\ c \in Extensions /\ socket[c] = "none"
    /\ socket' = [socket EXCEPT ![c] = "open"]
    /\ registered' = registered \cup {c}
    /\ reader' = [reader EXCEPT ![c].pc = "read"]
    /\ UNCHANGED <<targets, machine, channels, nextId, command, box, writers, toClient, toServer>>

-----------------------------------------------------------------------------
(* SendCommandForUser and SendCDPCommand. *)

(* pending.Allocate, still under the relay's mutex. *)
Allocate(k, c) ==
    /\ channels' = [channels EXCEPT ![c] = @ \cup {<<nextId[c], k>>}]
    /\ nextId' = [nextId EXCEPT ![c] = @ + 1]
    /\ command' = [command EXCEPT ![k] = [pc |-> "write", conn |-> {c}, id |-> nextId[c]]]

SendCommandForUser(k) ==
    /\ command[k].pc = "idle"
    /\ \E c \in registered \cap Terminals : Allocate(k, c)
    /\ UNCHANGED <<registered, targets, machine, wireVars, reader, box>>

(* findConnectionForSession goes by the targets of the connections. *)
SendCDPCommand(k) ==
    /\ command[k].pc = "idle"
    /\ \E c \in registered \cap targets : Allocate(k, c)
    /\ UNCHANGED <<registered, targets, machine, wireVars, reader, box>>

(* connection.WriteMessage begins.  No lock of the relay is held. *)
BeginWrite(k) ==
    /\ command[k].pc = "write"
    /\ command' = [command EXCEPT ![k].pc = "writing"]
    /\ writers' = [c \in Connections |->
                      IF c \in command[k].conn THEN writers[c] \cup {k} ELSE writers[c]]
    /\ UNCHANGED <<serverVars, socket, toClient, toServer, reader, box>>

(* It ends: on an open socket the client has the command.  On a closed one  *)
(* the write fails, and the command is cancelled, or is lost on the way.    *)
EndWrite(k) ==
    /\ command[k].pc = "writing"
    /\ \E c \in command[k].conn :
        /\ writers' = [writers EXCEPT ![c] = @ \ {k}]
        /\ \/ /\ socket[c] = "open"
              /\ toClient' = [toClient EXCEPT ![c] = @ \cup {<<command[k].id, k>>}]
              /\ command' = [command EXCEPT ![k].pc = "wait"]
              /\ UNCHANGED channels
           \/ /\ socket[c] = "closed"
              /\ command' = [command EXCEPT ![k].pc = "wait"]
              /\ UNCHANGED <<toClient, channels>>
           \/ /\ socket[c] = "closed"
              /\ Forget(k)
              /\ command' = [command EXCEPT ![k].pc = "failed"]
              /\ UNCHANGED toClient
    /\ UNCHANGED <<registered, targets, machine, nextId, socket, toServer, reader, box>>

(* The two branches of the select. *)
ReceiveResult(k) ==
    /\ command[k].pc = "wait" /\ box[k] # <<>>
    /\ command' = [command EXCEPT ![k].pc = "answered"]
    /\ UNCHANGED <<serverVars, wireVars, reader, box>>

ContextDone(k) ==
    /\ command[k].pc = "wait"
    /\ Forget(k)
    /\ command' = [command EXCEPT ![k].pc = "failed"]
    /\ UNCHANGED <<registered, targets, machine, nextId, wireVars, reader, box>>

-----------------------------------------------------------------------------
(* readLoop. *)

ReadMessage(c) ==
    /\ reader[c].pc = "read" /\ socket[c] = "open" /\ toServer[c] # <<>>
    /\ reader' = [reader EXCEPT ![c].pc = "frame", ![c].frame = Head(toServer[c])]
    /\ toServer' = [toServer EXCEPT ![c] = Tail(@)]
    /\ UNCHANGED <<serverVars, socket, writers, toClient, command, box>>

(* self.connections[connectionKey]: whatever is registered under the key of *)
(* the terminal by now.                                                     *)
TerminalEntry(c) == registered \cap Terminals

(* Mutant of ExtensionEntry: the answer goes to any connection. *)
AnyEntry(c) == registered \cap Extensions

(* self.connections[connectionId]: the extension's own entry. *)
ExtensionEntry(c) == registered \cap {c}

Entry(c) == IF c \in Terminals THEN TerminalEntry(c) ELSE ExtensionEntry(c)

(* Nothing to do, or nobody to do it to: the loop reads on. *)
ReadOn(c) == reader' = [reader EXCEPT ![c].pc = "read", ![c].frame = NoFrame]

(* An answer: find the connection, then resolve in its pending.Requests. *)
FindEntry(c) ==
    /\ reader[c].pc = "frame" /\ reader[c].frame.kind = "answer"
    /\ \/ /\ Entry(c) = {}
          /\ ReadOn(c)
       \/ \E e \in Entry(c) :
            reader' = [reader EXCEPT ![c].pc = "resolve", ![c].entry = e]
    /\ UNCHANGED <<serverVars, wireVars, command, box>>

(* Resolve takes the channel out of the map under the mutex... *)
Resolve(c) ==
    /\ reader[c].pc = "resolve"
    /\ LET e == reader[c].entry
           found == {p \in channels[e] : p[1] = reader[c].frame.id} IN
       /\ Taken(e, found)
       /\ \/ /\ found = {}
             /\ ReadOn(c)
          \/ \E p \in found :
               reader' = [reader EXCEPT ![c].pc = "send",
                                        ![c].frame = [kind |-> "deliver", to |-> p[2],
                                                      answers |-> reader[c].frame.answers]]
    /\ UNCHANGED <<registered, targets, machine, nextId, wireVars, command, box>>

(* ... and sends after it. *)
SendResult(c) ==
    /\ reader[c].pc = "send"
    /\ box' = [box EXCEPT ![reader[c].frame.to] = Append(@, reader[c].frame.answers)]
    /\ ReadOn(c)
    /\ UNCHANGED <<serverVars, wireVars, command>>

(* A terminal's attach frame fills in the machine of the registered entry. *)
HandleAttach(c) ==
    /\ reader[c].pc = "frame" /\ reader[c].frame.kind = "attach"
    /\ machine' = [e \in Connections |-> IF e \in Entry(c) THEN {c} ELSE machine[e]]
    /\ ReadOn(c)
    /\ UNCHANGED <<registered, targets, channels, nextId, wireVars, command, box>>

(* handleCdpEvent: the tab is attached to, or detached from, the extension. *)
(* An event whose body does not come under "parameters" is dropped.         *)
HandleCdpEvent(c) ==
    /\ reader[c].pc = "frame" /\ reader[c].frame.kind = "event"
    /\ targets' = IF reader[c].frame.field # "parameters" THEN targets
                  ELSE IF reader[c].frame.attached THEN targets \cup Entry(c)
                  ELSE targets \ Entry(c)
    /\ ReadOn(c)
    /\ UNCHANGED <<registered, machine, channels, nextId, wireVars, command, box>>

(* The read fails: onDisconnect, which leaves a replaced terminal alone. *)
TerminalDisconnect(c) ==
    /\ c \in Terminals /\ reader[c].pc = "read" /\ socket[c] = "closed"
    /\ reader' = [reader EXCEPT ![c].pc = "off"]
    /\ RejectAll(registered \cap {c})
    /\ registered' = registered \ {c}
    /\ UNCHANGED <<targets, machine, nextId, wireVars, command>>

(* Mutant of TargetsLeft: the tab outlives its connection. *)
TargetsKept(c) == targets

(* The targets go with the connection. *)
TargetsLeft(c) == targets \ {c}

ExtensionDisconnect(c) ==
    /\ c \in Extensions /\ reader[c].pc = "read" /\ socket[c] = "closed"
    /\ reader' = [reader EXCEPT ![c].pc = "off"]
    /\ RejectAll({c})
    /\ registered' = registered \ {c} /\ targets' = TargetsLeft(c)
    /\ UNCHANGED <<machine, nextId, wireVars, command>>

(* pingLoop writes without a lock, until readLoop is over. *)
Ping(c) ==
    /\ MayPing /\ reader[c].pc # "off"
    /\ writers' = [writers EXCEPT ![c] = IF Pinger \in @ THEN @ \ {Pinger} ELSE @ \cup {Pinger}]
    /\ UNCHANGED <<serverVars, socket, toClient, toServer, reader, command, box>>

-----------------------------------------------------------------------------
(* The clients. *)

(* A client carries out a command and answers it; an extension may have     *)
(* several under way and answers them in any order.                         *)
ClientAnswer(c) ==
    /\ socket[c] = "open" /\ Len(toServer[c]) < MaxWire
    /\ \E p \in toClient[c] :
        /\ toClient' = [toClient EXCEPT ![c] = @ \ {p}]
        /\ toServer' = [toServer EXCEPT ![c] =
                            Append(@, [kind |-> "answer", id |-> p[1], answers |-> p[2]])]
    /\ UNCHANGED <<serverVars, socket, writers, reader, command, box>>

(* attachTab and detachTab of the extension report the tab as an event.     *)
(* Bound: the next one is sent when the server has dealt with the last.     *)
TabEvent(c, attached) ==
    /\ c \in Extensions /\ socket[c] = "open" /\ Len(toServer[c]) < MaxWire
    /\ (c \in targets) # attached
    /\ ~ \E i \in DOMAIN toServer[c] : toServer[c][i].kind = "event"
    /\ reader[c].frame.kind # "event"
    /\ toServer' = [toServer EXCEPT ![c] =
                        Append(@, [kind |-> "event", field |-> EventField, attached |-> attached])]
    /\ UNCHANGED <<serverVars, socket, writers, toClient, reader, command, box>>

AttachTab(c) == TabEvent(c, TRUE)
DetachTab(c) == TabEvent(c, FALSE)

(* The connection goes away. *)
ConnectionLost(c) ==
    /\ socket[c] = "open"
    /\ socket' = [socket EXCEPT ![c] = "closed"]
    /\ UNCHANGED <<serverVars, writers, toClient, toServer, reader, command, box>>

-----------------------------------------------------------------------------
ServerStep(c) ==
    \/ ReadMessage(c) \/ FindEntry(c) \/ Resolve(c) \/ SendResult(c)
    \/ HandleAttach(c) \/ HandleCdpEvent(c)
    \/ TerminalDisconnect(c) \/ ExtensionDisconnect(c)

CommandStep(k) == BeginWrite(k) \/ EndWrite(k) \/ ReceiveResult(k)

ClientStep(c) ==
    \/ HandleTerminalSocket(c) \/ HandleExtensionSocket(c)
    \/ ClientAnswer(c) \/ AttachTab(c) \/ DetachTab(c)
    \/ ConnectionLost(c)

Next ==
    \/ \E c \in Connections : ServerStep(c) \/ ClientStep(c) \/ Ping(c)
    \/ \E k \in Commands :
        CommandStep(k) \/ SendCommandForUser(k) \/ SendCDPCommand(k) \/ ContextDone(k)

Fairness ==
    /\ \A c \in Connections : WF_vars(ServerStep(c))
    /\ \A k \in Commands : WF_vars(CommandStep(k))

Spec == Init /\ [][Next]_vars
FairSpec == Spec /\ Fairness

-----------------------------------------------------------------------------
(* Properties. *)

Frames ==
    {NoFrame, MachineInfo}
    \cup [kind : {"answer"}, id : Nat, answers : Commands]
    \cup [kind : {"deliver"}, to : Commands, answers : Commands]
    \cup [kind : {"event"}, field : {EventField}, attached : BOOLEAN]

TypeOK ==
    /\ registered \subseteq Connections /\ targets \subseteq registered \cap Extensions
    /\ machine \in [Connections -> SUBSET Terminals]
    /\ socket \in [Connections -> {"none", "open", "closed"}]
    /\ \A c \in Connections :
        /\ channels[c] \subseteq Nat \X Commands /\ toClient[c] \subseteq Nat \X Commands
        /\ nextId[c] \in Nat
        /\ reader[c].pc \in {"off", "read", "frame", "resolve", "send"}
        /\ reader[c].frame \in Frames /\ reader[c].entry \in Connections
        /\ \A i \in DOMAIN toServer[c] : toServer[c][i] \in Frames
        /\ writers[c] \subseteq Commands \cup {Pinger}
    /\ \A k \in Commands :
        /\ command[k].pc \in {"idle", "write", "writing", "wait", "answered", "failed"}
        /\ command[k].conn \subseteq Connections /\ command[k].id \in Nat
        /\ \A i \in DOMAIN box[k] : box[k][i] \in Commands \cup {"rejected"}

(* The form of the state that the proofs rest on: every step keeps it. *)
RelayInv ==
    /\ registered \subseteq Connections
    /\ socket \in [Connections -> {"none", "open", "closed"}]
    /\ channels \in [Connections -> SUBSET (Nat \X Commands)]
    /\ nextId \in [Connections -> Nat]
    /\ reader \in [Connections -> [pc : {"off", "read", "frame", "resolve", "send"},
                                   frame : Frames, entry : Connections]]
    /\ command \in [Commands -> [pc : {"idle", "write", "writing", "wait", "answered", "failed"},
                                 conn : SUBSET Connections, id : Nat]]
    /\ box \in [Commands -> Seq(Commands \cup {"rejected"})]
    /\ toClient \in [Connections -> SUBSET (Nat \X Commands)]
    /\ toServer \in [Connections -> Seq(Frames)]
    /\ \A c \in Connections :
        /\ socket[c] = "none" => reader[c].pc = "off"
        /\ reader[c].pc = "resolve" => reader[c].frame.kind = "answer"
        /\ reader[c].pc = "send" => reader[c].frame.kind = "deliver"

(* A command has at most one connection, and no other command has its id    *)
(* there, then or later.                                                    *)
IdInv ==
    \A k \in Commands :
        /\ command[k].pc = "idle" => command[k].conn = {}
        /\ \A c \in command[k].conn :
            /\ command[k].conn = {c} /\ command[k].id < nextId[c]
            /\ \A l \in Commands : c \in command[l].conn /\ command[l].id = command[k].id => k = l

(* A pending entry is of a command that waits, under its id, with a         *)
(* connection that is registered.                                           *)
EntryInv ==
    \A c \in Connections : \A p \in channels[c] :
        /\ c \in registered
        /\ command[p[2]].conn = {c} /\ command[p[2]].id = p[1]
        /\ command[p[2]].pc \in {"write", "writing", "wait"}

(* A command is about to be answered, or can be. *)
Sending(k) == {c \in Connections : reader[c].pc = "send" /\ reader[c].frame.to = k}
Pending(k) == {c \in Connections : <<command[k].id, k>> \in channels[c]}

(* The result of a command is in one place: pending, with one reader that   *)
(* has taken it, or sent; and while the command waits it is in one.         *)
Place(k) ==
    /\ command[k].pc = "idle" => box[k] = <<>> /\ Sending(k) = {}
    /\ Pending(k) # {} => Sending(k) = {} /\ box[k] = <<>>
    /\ Sending(k) # {} => box[k] = <<>>
    /\ \A c, d \in Sending(k) : c = d
    /\ Len(box[k]) <= 1
    /\ command[k].pc \in {"write", "writing", "wait"} =>
          box[k] # <<>> \/ Sending(k) # {} \/ Pending(k) # {}

PlaceInv == \A k \in Commands : Place(k)

(* What a client is asked and answers on a connection is a command of that  *)
(* connection, under its id; a reader that has found one has its own.       *)
Own(c, id, k) == command[k].conn = {c} /\ command[k].id = id

AnswerInv ==
    \A c \in Connections :
        /\ \A p \in toClient[c] : Own(c, p[1], p[2])
        /\ \A i \in DOMAIN toServer[c] :
            toServer[c][i].kind = "answer" => Own(c, toServer[c][i].id, toServer[c][i].answers)
        /\ reader[c].frame.kind = "answer" => Own(c, reader[c].frame.id, reader[c].frame.answers)
        /\ reader[c].pc = "resolve" => reader[c].entry = c
        /\ reader[c].pc = "send" => reader[c].frame.answers = reader[c].frame.to

(* relay.go, relaybrowser.go: whatever replaces or ends a connection, a     *)
(* command that still waits can be answered: its result is there or about   *)
(* to be sent, or it is pending with a connection that is registered, whose *)
(* end will reject it.  No command outlives its connection unanswered.      *)
NoStrandedCommand ==
    \A k \in Commands : command[k].pc \in {"write", "writing", "wait"} =>
        \/ box[k] # <<>>
        \/ \E c \in Connections : reader[c].pc = "send" /\ reader[c].frame.to = k
        \/ \E c \in command[k].conn \cap registered : <<command[k].id, k>> \in channels[c]

(* pending.go: a result channel holds one result and RejectAll sends with   *)
(* the mutex held, so a second result would block the relay for good.       *)
ResultOnce == \A k \in Commands : Len(box[k]) <= 1

(* Whatever races for a command (its answer, the end or the replacement of  *)
(* its connection, its own timeout), it has one result, on its way or to    *)
(* come, and never two.                                                     *)
OneResultEach == NoStrandedCommand /\ ResultOnce

(* pending.go: requests and responses are correlated, so what a command     *)
(* gets is its own answer.                                                  *)
AnswersOwnCommand ==
    \A k \in Commands : \A i \in DOMAIN box[k] : box[k][i] \in {k, "rejected"}

(* onDisconnect: a command whose connection is gone does not wait on.       *)
LostConnectionEndsCommand ==
    \A k \in Commands :
        (command[k].pc = "wait" /\ \A c \in command[k].conn : socket[c] = "closed")
            ~> command[k].pc # "wait"

(* headlessbrowser.go, of the same library: gorilla/websocket does not      *)
(* support concurrent writers.                                              *)
SingleWriter == \A c \in Connections : Cardinality(writers[c]) <= 1

(* cdpRelay.ts: a tab that the extension has attached becomes a target of   *)
(* the relay, or its connection ends.                                       *)
AttachedTabIsTarget ==
    \A c \in Extensions :
        (\E i \in DOMAIN toServer[c] : toServer[c][i].kind = "event" /\ toServer[c][i].attached)
            ~> (c \in targets \/ socket[c] = "closed")
=============================================================================
