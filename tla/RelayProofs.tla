---------------------------- MODULE RelayProofs ----------------------------
(* Proofs about the relays, for any number of connections and commands.     *)
(*                                                                          *)
(* The result of a command is a token: Allocate makes it, Resolve hands it  *)
(* to one reader, SendResult and RejectAll put it into the command's        *)
(* channel, Cancel takes it away.  The proof sorts the steps by what they   *)
(* do to the tokens.                                                        *)
EXTENDS Relay, SequenceTheorems, TLAPS

USE DEF serverVars, wireVars

Live == {"write", "writing", "wait"}

(* What the frames of each kind have.                                       *)
LEMMA FrameFields ==
  ASSUME NEW f \in Frames
  PROVE  /\ f.kind = "answer" => f.id \in Nat /\ f.answers \in Commands
         /\ f.kind = "deliver" => f.to \in Commands /\ f.answers \in Commands
<1>1. CASE f = NoFrame
  BY <1>1 DEF NoFrame
<1>2. CASE f = MachineInfo
  BY <1>2 DEF MachineInfo
<1>3. CASE f \in [kind : {"answer"}, id : Nat, answers : Commands]
  BY <1>3
<1>4. CASE f \in [kind : {"deliver"}, to : Commands, answers : Commands]
  BY <1>4
<1>5. CASE f \in [kind : {"event"}, field : {EventField}, attached : BOOLEAN]
  BY <1>5
<1>. QED BY <1>1, <1>2, <1>3, <1>4, <1>5 DEF Frames

LEMMA FramesHave ==
  /\ NoFrame \in Frames /\ MachineInfo \in Frames
  /\ \A i \in Nat, k \in Commands : [kind |-> "answer", id |-> i, answers |-> k] \in Frames
  /\ \A k, l \in Commands : [kind |-> "deliver", to |-> k, answers |-> l] \in Frames
  /\ \A a \in BOOLEAN : [kind |-> "event", field |-> EventField, attached |-> a] \in Frames
<1>1. NoFrame \in Frames /\ MachineInfo \in Frames
  BY DEF Frames
<1>2. \A i \in Nat, k \in Commands : [kind |-> "answer", id |-> i, answers |-> k] \in Frames
  BY DEF Frames
<1>3. \A k, l \in Commands : [kind |-> "deliver", to |-> k, answers |-> l] \in Frames
  BY DEF Frames
<1>4. \A a \in BOOLEAN : [kind |-> "event", field |-> EventField, attached |-> a] \in Frames
  BY DEF Frames
<1>. QED BY <1>1, <1>2, <1>3, <1>4

(* An entry is a pair.                                                      *)
LEMMA EntryIsPair ==
  ASSUME RelayInv, NEW c \in Connections, NEW p \in channels[c]
  PROVE  p[1] \in Nat /\ p[2] \in Commands /\ p = <<p[1], p[2]>>
<1>1. p \in Nat \X Commands
  BY DEF RelayInv
<1>. QED BY <1>1

(* A record of reader or command with one field replaced.                   *)
LEMMA ReaderFields ==
  ASSUME RelayInv, NEW c \in Connections
  PROVE  /\ reader[c] \in [pc : {"off", "read", "frame", "resolve", "send"},
                           frame : Frames, entry : Connections]
         /\ reader[c].frame \in Frames /\ reader[c].entry \in Connections
         /\ reader[c].pc = "send" => reader[c].frame.to \in Commands
         /\ reader[c].pc = "resolve" => reader[c].frame.id \in Nat
                                        /\ reader[c].frame.answers \in Commands
<1>1. /\ reader[c] \in [pc : {"off", "read", "frame", "resolve", "send"},
                        frame : Frames, entry : Connections]
      /\ reader[c].pc = "resolve" => reader[c].frame.kind = "answer"
      /\ reader[c].pc = "send" => reader[c].frame.kind = "deliver"
  BY DEF RelayInv
<1>2. reader[c].frame \in Frames /\ reader[c].entry \in Connections
  BY <1>1
<1>. QED BY <1>1, <1>2, FrameFields

LEMMA CommandFields ==
  ASSUME RelayInv, NEW k \in Commands
  PROVE  /\ command[k] \in [pc : {"idle", "write", "writing", "wait", "answered", "failed"},
                            conn : SUBSET Connections, id : Nat]
         /\ command[k].conn \subseteq Connections /\ command[k].id \in Nat
         /\ command[k].pc \in {"idle", "write", "writing", "wait", "answered", "failed"}
<1>1. command[k] \in [pc : {"idle", "write", "writing", "wait", "answered", "failed"},
                      conn : SUBSET Connections, id : Nat]
  BY DEF RelayInv
<1>. QED BY <1>1

-----------------------------------------------------------------------------
(* What a step does to the readers and the commands.                        *)

(* The reader of c moves to pc with frame f and entry e; the others stay.   *)
ReaderMoves(c, pc, f, e) ==
    reader' = [reader EXCEPT ![c] = [pc |-> pc, frame |-> f, entry |-> e]]

(* Command k moves to pc.                                                   *)
CommandMoves(k, pc) ==
    command' = [command EXCEPT ![k] = [pc |-> pc, conn |-> command[k].conn, id |-> command[k].id]]

LEMMA Moves ==
  ASSUME RelayInv
  PROVE  /\ \A c \in Connections : \A pc : reader' = [reader EXCEPT ![c].pc = pc]
                => ReaderMoves(c, pc, reader[c].frame, reader[c].entry)
         /\ \A c \in Connections : \A pc, f : reader' = [reader EXCEPT ![c].pc = pc, ![c].frame = f]
                => ReaderMoves(c, pc, f, reader[c].entry)
         /\ \A c \in Connections : \A pc, e : reader' = [reader EXCEPT ![c].pc = pc, ![c].entry = e]
                => ReaderMoves(c, pc, reader[c].frame, e)
         /\ \A k \in Commands : \A pc : command' = [command EXCEPT ![k].pc = pc] => CommandMoves(k, pc)
<1>0. reader = [c \in Connections |-> reader[c]]
  BY DEF RelayInv
<1>1. ASSUME NEW c \in Connections, NEW pc, reader' = [reader EXCEPT ![c].pc = pc]
      PROVE  ReaderMoves(c, pc, reader[c].frame, reader[c].entry)
  <2>1. [reader[c] EXCEPT !.pc = pc] = [pc |-> pc, frame |-> reader[c].frame, entry |-> reader[c].entry]
    BY ReaderFields
  <2>. QED BY <1>1, <2>1 DEF ReaderMoves
<1>2. ASSUME NEW c \in Connections, NEW pc, NEW f, reader' = [reader EXCEPT ![c].pc = pc, ![c].frame = f]
      PROVE  ReaderMoves(c, pc, f, reader[c].entry)
  <2>1. reader[c] = [pc |-> reader[c].pc, frame |-> reader[c].frame, entry |-> reader[c].entry]
    BY ReaderFields
  <2>2. reader'[c] = [pc |-> pc, frame |-> f, entry |-> reader[c].entry]
    BY <1>0, <1>2, <2>1
  <2>3. /\ reader' = [d \in Connections |-> reader'[d]]
        /\ \A d \in Connections : d # c => reader'[d] = reader[d]
    BY <1>0, <1>2
  <2>. QED BY <1>0, <2>2, <2>3 DEF ReaderMoves
<1>3. ASSUME NEW c \in Connections, NEW pc, NEW e, reader' = [reader EXCEPT ![c].pc = pc, ![c].entry = e]
      PROVE  ReaderMoves(c, pc, reader[c].frame, e)
  <2>1. reader[c] = [pc |-> reader[c].pc, frame |-> reader[c].frame, entry |-> reader[c].entry]
    BY ReaderFields
  <2>2. reader'[c] = [pc |-> pc, frame |-> reader[c].frame, entry |-> e]
    BY <1>0, <1>3, <2>1
  <2>3. /\ reader' = [d \in Connections |-> reader'[d]]
        /\ \A d \in Connections : d # c => reader'[d] = reader[d]
    BY <1>0, <1>3
  <2>. QED BY <1>0, <2>2, <2>3 DEF ReaderMoves
<1>4. ASSUME NEW k \in Commands, NEW pc, command' = [command EXCEPT ![k].pc = pc]
      PROVE  CommandMoves(k, pc)
  <2>1. [command[k] EXCEPT !.pc = pc] = [pc |-> pc, conn |-> command[k].conn, id |-> command[k].id]
    BY CommandFields
  <2>. QED BY <1>4, <2>1 DEF CommandMoves
<1>. QED BY <1>1, <1>2, <1>3, <1>4

LEMMA ReaderMoved ==
  ASSUME RelayInv, NEW c \in Connections, NEW f \in Frames, NEW e \in Connections,
         NEW pc \in {"off", "read", "frame", "resolve", "send"}, ReaderMoves(c, pc, f, e),
         pc = "resolve" => f.kind = "answer", pc = "send" => f.kind = "deliver",
         socket' \in [Connections -> {"none", "open", "closed"}],
         socket'[c] = "none" => pc = "off",
         \A d \in Connections : socket'[d] = "none" => socket[d] = "none"
  PROVE  /\ reader' \in [Connections -> [pc : {"off", "read", "frame", "resolve", "send"},
                                        frame : Frames, entry : Connections]]
         /\ \A d \in Connections :
              /\ socket'[d] = "none" => reader'[d].pc = "off"
              /\ reader'[d].pc = "resolve" => reader'[d].frame.kind = "answer"
              /\ reader'[d].pc = "send" => reader'[d].frame.kind = "deliver"
         /\ reader'[c].pc = pc /\ reader'[c].frame = f /\ reader'[c].entry = e
         /\ \A d \in Connections : d # c => reader'[d] = reader[d]
<1> DEFINE new == [pc |-> pc, frame |-> f, entry |-> e]
<1>1. /\ new \in [pc : {"off", "read", "frame", "resolve", "send"}, frame : Frames, entry : Connections]
      /\ new.pc = pc /\ new.frame = f /\ new.entry = e
  OBVIOUS
<1>2. reader' = [reader EXCEPT ![c] = new]
  BY DEF ReaderMoves
<1> HIDE DEF new
<1>3. reader \in [Connections -> [pc : {"off", "read", "frame", "resolve", "send"},
                                 frame : Frames, entry : Connections]]
  BY DEF RelayInv
<1>4. reader'[c] = new /\ \A d \in Connections : d # c => reader'[d] = reader[d]
  BY <1>2, <1>3
<1>5. reader' \in [Connections -> [pc : {"off", "read", "frame", "resolve", "send"},
                                  frame : Frames, entry : Connections]]
  BY <1>1, <1>2, <1>3
<1>6. ASSUME NEW d \in Connections
      PROVE  /\ socket'[d] = "none" => reader'[d].pc = "off"
             /\ reader'[d].pc = "resolve" => reader'[d].frame.kind = "answer"
             /\ reader'[d].pc = "send" => reader'[d].frame.kind = "deliver"
  <2>1. CASE d = c
    BY <1>1, <1>4, <2>1
  <2>2. CASE d # c
    <3>1. /\ socket[d] = "none" => reader[d].pc = "off"
          /\ reader[d].pc = "resolve" => reader[d].frame.kind = "answer"
          /\ reader[d].pc = "send" => reader[d].frame.kind = "deliver"
      BY DEF RelayInv
    <3>. QED BY <1>4, <2>2, <3>1
  <2>. QED BY <2>1, <2>2
<1>. QED BY <1>1, <1>4, <1>5, <1>6

LEMMA CommandMoved ==
  ASSUME RelayInv, NEW k \in Commands,
         NEW pc \in {"idle", "write", "writing", "wait", "answered", "failed"}, CommandMoves(k, pc)
  PROVE  /\ command' \in [Commands -> [pc : {"idle", "write", "writing", "wait", "answered", "failed"},
                                       conn : SUBSET Connections, id : Nat]]
         /\ command'[k].pc = pc /\ command'[k].conn = command[k].conn /\ command'[k].id = command[k].id
         /\ \A l \in Commands : l # k => command'[l] = command[l]
<1> DEFINE new == [pc |-> pc, conn |-> command[k].conn, id |-> command[k].id]
<1>1. /\ new \in [pc : {"idle", "write", "writing", "wait", "answered", "failed"},
                   conn : SUBSET Connections, id : Nat]
      /\ new.pc = pc /\ new.conn = command[k].conn /\ new.id = command[k].id
  BY CommandFields
<1>2. command' = [command EXCEPT ![k] = new]
  BY DEF CommandMoves
<1> HIDE DEF new
<1>. QED BY <1>1, <1>2 DEF RelayInv

(* RejectAll: the entries of the connections go, each command with one of   *)
(* them gets an error.                                                      *)
LEMMA Rejected ==
  ASSUME RelayInv, NEW cs \in SUBSET Connections, RejectAll(cs)
  PROVE  /\ channels' \in [Connections -> SUBSET (Nat \X Commands)]
         /\ box' \in [Commands -> Seq(Commands \cup {"rejected"})]
         /\ \A c \in Connections : channels'[c] = IF c \in cs THEN {} ELSE channels[c]
         /\ \A k \in Commands : box'[k] = IF \E c \in cs : \E p \in channels[c] : p[2] = k
                                          THEN Append(box[k], "rejected") ELSE box[k]
<1>1. /\ channels' = [c \in Connections |-> IF c \in cs THEN {} ELSE channels[c]]
      /\ box' = [k \in Commands |-> IF k \in Waiting(cs) THEN Append(box[k], "rejected") ELSE box[k]]
  BY DEF RejectAll
<1>2. channels' \in [Connections -> SUBSET (Nat \X Commands)]
  BY <1>1 DEF RelayInv
<1>3. \A k \in Commands : k \in Waiting(cs) <=> \E c \in cs : \E p \in channels[c] : p[2] = k
  BY DEF Waiting
<1>4. \A k \in Commands : box[k] \in Seq(Commands \cup {"rejected"})
                        /\ Append(box[k], "rejected") \in Seq(Commands \cup {"rejected"})
  BY DEF RelayInv
<1>. QED BY <1>1, <1>2, <1>3, <1>4

-----------------------------------------------------------------------------
(* Every step keeps the form of the state.                                  *)
LEMMA RelayNext == RelayInv /\ [Next]_vars => RelayInv'
<1> SUFFICES ASSUME RelayInv, [Next]_vars
             PROVE  RelayInv'
  OBVIOUS
<1>1. ASSUME NEW c \in Connections, HandleTerminalSocket(c)
      PROVE  RelayInv'
  <2> DEFINE existing == registered \cap Terminals
  <2>1. /\ channels' \in [Connections -> SUBSET (Nat \X Commands)]
        /\ box' \in [Commands -> Seq(Commands \cup {"rejected"})]
    BY <1>1, Rejected DEF HandleTerminalSocket, RelayInv
  <2>2. /\ socket' \in [Connections -> {"none", "open", "closed"}] /\ socket'[c] = "open"
        /\ \A d \in Connections : socket'[d] = "none" => socket[d] = "none"
        /\ registered' \subseteq Connections
    BY <1>1 DEF HandleTerminalSocket, RelayInv
  <2>3. ReaderMoves(c, "read", reader[c].frame, reader[c].entry)
    BY <1>1, Moves DEF HandleTerminalSocket
  <2>4. toServer' \in [Connections -> Seq(Frames)]
    <3>1. <<MachineInfo>> \in Seq(Frames)
      BY FramesHave
    <3>2. toServer' = [toServer EXCEPT ![c] = <<MachineInfo>>]
      BY <1>1 DEF HandleTerminalSocket
    <3>. QED BY <3>1, <3>2 DEF RelayInv
  <2>5. UNCHANGED <<nextId, command, toClient>>
    BY <1>1 DEF HandleTerminalSocket
  <2>. QED BY <2>1, <2>2, <2>3, <2>4, <2>5, ReaderMoved, ReaderFields DEF RelayInv
<1>2. ASSUME NEW c \in Connections, HandleExtensionSocket(c)
      PROVE  RelayInv'
  <2>1. /\ socket' \in [Connections -> {"none", "open", "closed"}] /\ socket'[c] = "open"
        /\ \A d \in Connections : socket'[d] = "none" => socket[d] = "none"
        /\ registered' \subseteq Connections
    BY <1>2 DEF HandleExtensionSocket, RelayInv
  <2>2. ReaderMoves(c, "read", reader[c].frame, reader[c].entry)
    BY <1>2, Moves DEF HandleExtensionSocket
  <2>3. UNCHANGED <<channels, nextId, command, box, toClient, toServer>>
    BY <1>2 DEF HandleExtensionSocket
  <2>. QED BY <2>1, <2>2, <2>3, ReaderMoved, ReaderFields DEF RelayInv
<1>3. ASSUME NEW k \in Commands, NEW c \in Connections, Allocate(k, c),
             UNCHANGED <<registered, socket, reader, box, toClient, toServer>>
      PROVE  RelayInv'
  <2>1. nextId[c] \in Nat /\ <<nextId[c], k>> \in Nat \X Commands
    BY DEF RelayInv
  <2>2. channels' \in [Connections -> SUBSET (Nat \X Commands)]
    BY <1>3, <2>1 DEF Allocate, RelayInv
  <2>3. nextId' \in [Connections -> Nat]
    BY <1>3, <2>1 DEF Allocate, RelayInv
  <2>4. command' \in [Commands -> [pc : {"idle", "write", "writing", "wait", "answered", "failed"},
                                  conn : SUBSET Connections, id : Nat]]
    <3> DEFINE new == [pc |-> "write", conn |-> {c}, id |-> nextId[c]]
    <3>1. new \in [pc : {"idle", "write", "writing", "wait", "answered", "failed"},
                   conn : SUBSET Connections, id : Nat]
      BY <2>1
    <3>2. command' = [command EXCEPT ![k] = new]
      BY <1>3 DEF Allocate
    <3> HIDE DEF new
    <3>. QED BY <3>1, <3>2 DEF RelayInv
  <2>. QED BY <1>3, <2>2, <2>3, <2>4 DEF RelayInv
<1>4. ASSUME NEW k \in Commands, SendCommandForUser(k) \/ SendCDPCommand(k)
      PROVE  RelayInv'
  <2>1. PICK c \in registered : Allocate(k, c)
    BY <1>4 DEF SendCommandForUser, SendCDPCommand
  <2>2. UNCHANGED <<registered, socket, reader, box, toClient, toServer>>
    BY <1>4 DEF SendCommandForUser, SendCDPCommand
  <2>3. c \in Connections
    BY DEF RelayInv
  <2>. QED BY <1>3, <2>1, <2>2, <2>3
<1>5. ASSUME NEW k \in Commands, BeginWrite(k) \/ ReceiveResult(k)
      PROVE  RelayInv'
  <2>1. PICK pc \in {"writing", "answered"} : CommandMoves(k, pc)
    BY <1>5, Moves DEF BeginWrite, ReceiveResult
  <2>2. UNCHANGED <<registered, channels, nextId, socket, reader, box, toClient, toServer>>
    BY <1>5 DEF BeginWrite, ReceiveResult
  <2>. QED BY <2>1, <2>2, CommandMoved DEF RelayInv
<1>6. ASSUME NEW k \in Commands, Forget(k)
      PROVE  channels' \in [Connections -> SUBSET (Nat \X Commands)]
  BY <1>6 DEF Forget, RelayInv
<1>7. ASSUME NEW k \in Commands, EndWrite(k)
      PROVE  RelayInv'
  <2>1. PICK pc \in {"wait", "failed"} : CommandMoves(k, pc)
    BY <1>7, Moves DEF EndWrite
  <2>2. channels' \in [Connections -> SUBSET (Nat \X Commands)]
    BY <1>6, <1>7 DEF EndWrite, RelayInv
  <2>3. toClient' \in [Connections -> SUBSET (Nat \X Commands)]
    <3>1. <<command[k].id, k>> \in Nat \X Commands /\ command[k].conn \subseteq Connections
      BY CommandFields
    <3>2. UNCHANGED toClient \/ \E c \in command[k].conn :
              toClient' = [toClient EXCEPT ![c] = @ \cup {<<command[k].id, k>>}]
      BY <1>7 DEF EndWrite
    <3>3. toClient \in [Connections -> SUBSET (Nat \X Commands)]
      BY DEF RelayInv
    <3>4. ASSUME NEW c \in Connections, toClient' = [toClient EXCEPT ![c] = @ \cup {<<command[k].id, k>>}]
          PROVE  toClient' \in [Connections -> SUBSET (Nat \X Commands)]
      BY <3>1, <3>3, <3>4
    <3>. QED BY <3>1, <3>2, <3>3, <3>4
  <2>4. UNCHANGED <<registered, nextId, socket, toServer, reader, box>>
    BY <1>7 DEF EndWrite
  <2>. QED BY <2>1, <2>2, <2>3, <2>4, CommandMoved DEF RelayInv
<1>8. ASSUME NEW k \in Commands, ContextDone(k)
      PROVE  RelayInv'
  <2>1. CommandMoves(k, "failed")
    BY <1>8, Moves DEF ContextDone
  <2>2. channels' \in [Connections -> SUBSET (Nat \X Commands)]
    BY <1>6, <1>8 DEF ContextDone
  <2>3. UNCHANGED <<registered, nextId, socket, reader, box, toClient, toServer>>
    BY <1>8 DEF ContextDone
  <2>. QED BY <2>1, <2>2, <2>3, CommandMoved DEF RelayInv
<1>9. ASSUME NEW c \in Connections, ReadMessage(c)
      PROVE  RelayInv'
  <2>1. toServer[c] \in Seq(Frames) /\ toServer[c] # <<>>
    BY <1>9 DEF ReadMessage, RelayInv
  <2>2. Head(toServer[c]) \in Frames /\ Tail(toServer[c]) \in Seq(Frames)
    BY <2>1
  <2>3. toServer' \in [Connections -> Seq(Frames)]
    BY <1>9, <2>2 DEF ReadMessage, RelayInv
  <2>4. ReaderMoves(c, "frame", Head(toServer[c]), reader[c].entry)
    BY <1>9, Moves DEF ReadMessage
  <2>5. UNCHANGED <<registered, channels, nextId, socket, toClient, command, box>> /\ socket[c] = "open"
    BY <1>9 DEF ReadMessage
  <2>. QED BY <2>2, <2>3, <2>4, <2>5, ReaderMoved, ReaderFields DEF RelayInv
<1>10. ASSUME NEW c \in Connections, ReadOn(c), reader[c].pc # "off",
              UNCHANGED <<registered, nextId, socket, toClient, toServer, command>>,
              channels' \in [Connections -> SUBSET (Nat \X Commands)],
              box' \in [Commands -> Seq(Commands \cup {"rejected"})]
      PROVE  RelayInv'
  <2>1. ReaderMoves(c, "read", NoFrame, reader[c].entry)
    BY <1>10, Moves DEF ReadOn
  <2>2. socket'[c] # "none" /\ socket' = socket
    BY <1>10 DEF RelayInv
  <2>3. NoFrame \in Frames
    BY FramesHave
  <2>. QED BY <1>10, <2>1, <2>2, <2>3, ReaderMoved, ReaderFields DEF RelayInv
<1>11. ASSUME NEW c \in Connections, FindEntry(c)
      PROVE  RelayInv'
  <2>0. /\ UNCHANGED <<registered, channels, nextId, socket, toClient, toServer, command, box>>
        /\ reader[c].pc = "frame" /\ reader[c].frame.kind = "answer"
    BY <1>11 DEF FindEntry
  <2>1. CASE ReadOn(c)
    BY <1>10, <2>0, <2>1 DEF RelayInv
  <2>2. ASSUME NEW e \in Entry(c), reader' = [reader EXCEPT ![c].pc = "resolve", ![c].entry = e]
        PROVE  RelayInv'
    <3>1. ReaderMoves(c, "resolve", reader[c].frame, e)
      BY <2>2, Moves
    <3>2. e \in Connections
      BY DEF Entry, TerminalEntry, ExtensionEntry, RelayInv
    <3>3. socket[c] # "none"
      BY <2>0 DEF RelayInv
    <3>. QED BY <2>0, <3>1, <3>2, <3>3, ReaderMoved, ReaderFields DEF RelayInv
  <2>. QED BY <1>11, <2>1, <2>2 DEF FindEntry
<1>12. ASSUME NEW c \in Connections, Resolve(c)
      PROVE  RelayInv'
  <2> DEFINE found == {p \in channels[reader[c].entry] : p[1] = reader[c].frame.id}
  <2>0. /\ UNCHANGED <<registered, nextId, socket, toClient, toServer, command, box>>
        /\ reader[c].pc = "resolve" /\ Taken(reader[c].entry, found)
    BY <1>12 DEF Resolve
  <2>1. channels' \in [Connections -> SUBSET (Nat \X Commands)]
    BY <2>0, ReaderFields DEF Taken, RelayInv
  <2>2. CASE ReadOn(c)
    BY <1>10, <2>0, <2>1, <2>2 DEF RelayInv
  <2>3. ASSUME NEW p \in found,
               reader' = [reader EXCEPT ![c].pc = "send",
                                        ![c].frame = [kind |-> "deliver", to |-> p[2],
                                                      answers |-> reader[c].frame.answers]]
        PROVE  RelayInv'
    <3> DEFINE f == [kind |-> "deliver", to |-> p[2], answers |-> reader[c].frame.answers]
    <3>1. p[2] \in Commands
      BY ReaderFields, EntryIsPair
    <3>2. f \in Frames /\ f.kind = "deliver"
      BY <2>0, <3>1, ReaderFields, FramesHave
    <3>3. ReaderMoves(c, "send", f, reader[c].entry)
      BY <2>3, Moves
    <3> HIDE DEF f
    <3>4. socket[c] # "none"
      BY <2>0 DEF RelayInv
    <3>. QED BY <2>0, <2>1, <3>2, <3>3, <3>4, ReaderMoved, ReaderFields DEF RelayInv
  <2>. QED BY <1>12, <2>2, <2>3 DEF Resolve
<1>13. ASSUME NEW c \in Connections, SendResult(c)
      PROVE  RelayInv'
  <2>1. /\ UNCHANGED <<registered, channels, nextId, socket, toClient, toServer, command>>
        /\ reader[c].pc = "send" /\ ReadOn(c)
        /\ box' = [box EXCEPT ![reader[c].frame.to] = Append(@, reader[c].frame.answers)]
    BY <1>13 DEF SendResult
  <2>2. reader[c].frame.to \in Commands /\ reader[c].frame.answers \in Commands
    BY <2>1, ReaderFields, FrameFields DEF RelayInv
  <2>3. box' \in [Commands -> Seq(Commands \cup {"rejected"})]
    <3>1. box[reader[c].frame.to] \in Seq(Commands \cup {"rejected"})
      BY <2>2 DEF RelayInv
    <3>2. Append(box[reader[c].frame.to], reader[c].frame.answers) \in Seq(Commands \cup {"rejected"})
      BY <2>2, <3>1
    <3>. QED BY <2>1, <2>2, <3>2 DEF RelayInv
  <2>. QED BY <1>10, <2>1, <2>3 DEF RelayInv
<1>14. ASSUME NEW c \in Connections, HandleAttach(c) \/ HandleCdpEvent(c)
      PROVE  RelayInv'
  BY <1>10, <1>14 DEF HandleAttach, HandleCdpEvent, RelayInv
<1>15. ASSUME NEW c \in Connections, TerminalDisconnect(c) \/ ExtensionDisconnect(c)
      PROVE  RelayInv'
  <2>1. /\ channels' \in [Connections -> SUBSET (Nat \X Commands)]
        /\ box' \in [Commands -> Seq(Commands \cup {"rejected"})]
    BY <1>15, Rejected DEF TerminalDisconnect, ExtensionDisconnect
  <2>2. ReaderMoves(c, "off", reader[c].frame, reader[c].entry)
    BY <1>15, Moves DEF TerminalDisconnect, ExtensionDisconnect
  <2>3. UNCHANGED <<nextId, socket, toClient, toServer, command>> /\ registered' \subseteq registered
    BY <1>15 DEF TerminalDisconnect, ExtensionDisconnect
  <2>. QED BY <2>1, <2>2, <2>3, ReaderMoved, ReaderFields DEF RelayInv
<1>16. ASSUME NEW c \in Connections, Ping(c)
      PROVE  RelayInv'
  BY <1>16 DEF Ping, RelayInv
<1>17. ASSUME NEW c \in Connections, ClientAnswer(c)
      PROVE  RelayInv'
  <2>1. PICK p \in toClient[c] :
           /\ toClient' = [toClient EXCEPT ![c] = @ \ {p}]
           /\ toServer' = [toServer EXCEPT ![c] =
                               Append(@, [kind |-> "answer", id |-> p[1], answers |-> p[2]])]
    BY <1>17 DEF ClientAnswer
  <2>2. p \in Nat \X Commands
    BY DEF RelayInv
  <2> DEFINE f == [kind |-> "answer", id |-> p[1], answers |-> p[2]]
  <2>3. f \in Frames
    BY <2>2, FramesHave
  <2>4. toServer' = [toServer EXCEPT ![c] = Append(@, f)]
    BY <2>1
  <2> HIDE DEF f
  <2>5. toServer' \in [Connections -> Seq(Frames)] /\ toClient' \in [Connections -> SUBSET (Nat \X Commands)]
    BY <2>1, <2>3, <2>4 DEF RelayInv
  <2>6. UNCHANGED <<registered, channels, nextId, socket, reader, command, box>>
    BY <1>17 DEF ClientAnswer
  <2>. QED BY <2>5, <2>6 DEF RelayInv
<1>18. ASSUME NEW c \in Connections, NEW a \in BOOLEAN, TabEvent(c, a)
      PROVE  RelayInv'
  <2> DEFINE f == [kind |-> "event", field |-> EventField, attached |-> a]
  <2>1. f \in Frames
    BY FramesHave
  <2>2. toServer' = [toServer EXCEPT ![c] = Append(@, f)]
    BY <1>18 DEF TabEvent
  <2> HIDE DEF f
  <2>3. toServer' \in [Connections -> Seq(Frames)]
    BY <2>1, <2>2 DEF RelayInv
  <2>4. UNCHANGED <<registered, channels, nextId, socket, reader, command, box, toClient>>
    BY <1>18 DEF TabEvent
  <2>. QED BY <2>3, <2>4 DEF RelayInv
<1>19. ASSUME NEW c \in Connections, ConnectionLost(c)
      PROVE  RelayInv'
  <2>1. /\ socket' \in [Connections -> {"none", "open", "closed"}]
        /\ \A d \in Connections : socket'[d] = "none" => socket[d] = "none"
    BY <1>19 DEF ConnectionLost, RelayInv
  <2>2. UNCHANGED <<registered, channels, nextId, reader, command, box, toClient, toServer>>
    BY <1>19 DEF ConnectionLost
  <2>. QED BY <2>1, <2>2 DEF RelayInv
<1>20. CASE UNCHANGED vars
  BY <1>20 DEF vars, RelayInv
<1>. QED
  BY <1>1, <1>2, <1>4, <1>5, <1>7, <1>8, <1>9, <1>11, <1>12, <1>13, <1>14, <1>15, <1>16, <1>17,
     <1>18, <1>19, <1>20
     DEF Next, ServerStep, ClientStep, CommandStep, AttachTab, DetachTab

-----------------------------------------------------------------------------
(* The steps, sorted by what they do to the tokens.                         *)

SameCommand(k) ==
    /\ command'[k].conn = command[k].conn /\ command'[k].id = command[k].id
    /\ command'[k].pc = "idle" <=> command[k].pc = "idle"
    /\ command'[k].pc \in Live => command[k].pc \in Live

SameReader(c) ==
    /\ reader'[c].pc = "send" <=> reader[c].pc = "send"
    /\ reader[c].pc = "send" => reader'[c].frame = reader[c].frame

(* No token moves; a command stops waiting only with its result there.      *)
Quiet ==
    /\ UNCHANGED <<channels, nextId, box>>
    /\ registered \subseteq registered'
    /\ \A c \in Connections : SameReader(c)
    /\ \A k \in Commands :
        /\ SameCommand(k)
        /\ command[k].pc \in Live /\ box[k] = <<>> => command'[k].pc \in Live

(* Cancel: the command gives up its token.                                  *)
Forgets(k) ==
    /\ Forget(k) /\ command[k].pc \in Live
    /\ command'[k].pc = "failed"
    /\ command'[k].conn = command[k].conn /\ command'[k].id = command[k].id
    /\ \A l \in Commands : l # k => command'[l] = command[l]
    /\ UNCHANGED <<registered, nextId, box, reader>>

Allocates(k, c) ==
    /\ command[k].pc = "idle" /\ c \in registered /\ Allocate(k, c)
    /\ UNCHANGED <<registered, reader, box>>

(* Resolve finds the command p[2].                                          *)
Takes(c, p) ==
    /\ reader[c].pc = "resolve"
    /\ p \in channels[reader[c].entry] /\ p[1] = reader[c].frame.id
    /\ Taken(reader[c].entry, {q \in channels[reader[c].entry] : q[1] = reader[c].frame.id})
    /\ reader'[c].pc = "send" /\ reader'[c].frame.to = p[2]
    /\ \A d \in Connections : d # c => reader'[d] = reader[d]
    /\ UNCHANGED <<registered, nextId, box, command>>

Sends(c) ==
    /\ reader[c].pc = "send" /\ reader'[c].pc = "read"
    /\ \A d \in Connections : d # c => reader'[d] = reader[d]
    /\ box' = [box EXCEPT ![reader[c].frame.to] = Append(@, reader[c].frame.answers)]
    /\ UNCHANGED <<registered, channels, nextId, command>>

Rejects(cs) ==
    /\ RejectAll(cs)
    /\ registered \ cs \subseteq registered'
    /\ \A c \in Connections : SameReader(c)
    /\ UNCHANGED <<nextId, command>>

TokenStep ==
    \/ Quiet
    \/ \E k \in Commands : Forgets(k) \/ \E c \in Connections : Allocates(k, c)
    \/ \E c \in Connections : Sends(c) \/ \E p \in channels[reader[c].entry] : Takes(c, p)
    \/ \E cs \in SUBSET Connections : Rejects(cs)

LEMMA StepIs ==
  ASSUME RelayInv, [Next]_vars
  PROVE  TokenStep
<1>r. ASSUME NEW c \in Connections, NEW pc, NEW f, NEW e, ReaderMoves(c, pc, f, e)
      PROVE  /\ reader'[c].pc = pc /\ reader'[c].frame = f
             /\ \A d \in Connections : d # c => reader'[d] = reader[d]
  BY <1>r DEF ReaderMoves, RelayInv
<1>c. ASSUME NEW k \in Commands, NEW pc, CommandMoves(k, pc)
      PROVE  /\ command'[k].pc = pc /\ command'[k].conn = command[k].conn /\ command'[k].id = command[k].id
             /\ \A l \in Commands : l # k => command'[l] = command[l]
  BY <1>c DEF CommandMoves, RelayInv
<1>1. ASSUME NEW c \in Connections, HandleTerminalSocket(c)
      PROVE  TokenStep
  <2>1. ReaderMoves(c, "read", reader[c].frame, reader[c].entry) /\ reader[c].pc # "send"
    BY <1>1, Moves DEF HandleTerminalSocket, RelayInv
  <2>2. \A d \in Connections : SameReader(d)
    BY <1>r, <2>1 DEF SameReader
  <2>3. Rejects(registered \cap Terminals)
    BY <1>1, <2>2 DEF HandleTerminalSocket, Rejects
  <2>. QED BY <2>3 DEF TokenStep, Connections
<1>2. ASSUME NEW c \in Connections, HandleExtensionSocket(c)
      PROVE  TokenStep
  <2>1. ReaderMoves(c, "read", reader[c].frame, reader[c].entry) /\ reader[c].pc # "send"
    BY <1>2, Moves DEF HandleExtensionSocket, RelayInv
  <2>2. \A d \in Connections : SameReader(d)
    BY <1>r, <2>1 DEF SameReader
  <2>3. Quiet
    BY <1>2, <2>2 DEF HandleExtensionSocket, Quiet, SameCommand
  <2>. QED BY <2>3 DEF TokenStep
<1>3. ASSUME NEW k \in Commands, SendCommandForUser(k) \/ SendCDPCommand(k)
      PROVE  TokenStep
  <2>1. PICK c \in registered : Allocates(k, c)
    BY <1>3 DEF SendCommandForUser, SendCDPCommand, Allocates
  <2>2. c \in Connections
    BY DEF RelayInv
  <2>. QED BY <2>1, <2>2 DEF TokenStep
<1>4. ASSUME NEW k \in Commands, UNCHANGED <<channels, nextId, box, registered, reader>>,
             NEW pc \in {"writing", "wait", "answered"}, CommandMoves(k, pc),
             command[k].pc \in Live, pc = "answered" => box[k] # <<>>
      PROVE  TokenStep
  <2>1. \A c \in Connections : SameReader(c)
    BY <1>4 DEF SameReader
  <2>2. Quiet
    BY <1>4, <1>c, <2>1 DEF Quiet, SameCommand, Live
  <2>. QED BY <2>2 DEF TokenStep
<1>5. ASSUME NEW k \in Commands, BeginWrite(k) \/ ReceiveResult(k)
      PROVE  TokenStep
  <2>1. CASE BeginWrite(k)
    <3>1. CommandMoves(k, "writing")
      BY <2>1, Moves DEF BeginWrite
    <3>. QED BY <1>4, <2>1, <3>1 DEF BeginWrite, Live
  <2>2. CASE ReceiveResult(k)
    <3>1. CommandMoves(k, "answered")
      BY <2>2, Moves DEF ReceiveResult
    <3>. QED BY <1>4, <2>2, <3>1 DEF ReceiveResult, Live
  <2>. QED BY <1>5, <2>1, <2>2
<1>6. ASSUME NEW k \in Commands, Forget(k), command[k].pc \in Live, CommandMoves(k, "failed"),
             UNCHANGED <<registered, nextId, box, reader>>
      PROVE  TokenStep
  <2>1. Forgets(k)
    BY <1>6, <1>c DEF Forgets
  <2>. QED BY <2>1 DEF TokenStep
<1>7. ASSUME NEW k \in Commands, EndWrite(k)
      PROVE  TokenStep
  <2>1. command[k].pc \in Live /\ UNCHANGED <<registered, nextId, box, reader>>
    BY <1>7 DEF EndWrite, Live
  <2>2. CASE command' = [command EXCEPT ![k].pc = "wait"] /\ UNCHANGED channels
    <3>1. CommandMoves(k, "wait")
      BY <2>2, Moves
    <3>. QED BY <1>4, <2>1, <2>2, <3>1
  <2>3. CASE command' = [command EXCEPT ![k].pc = "failed"] /\ Forget(k)
    <3>1. CommandMoves(k, "failed")
      BY <2>3, Moves
    <3>. QED BY <1>6, <2>1, <2>3, <3>1
  <2>. QED BY <1>7, <2>2, <2>3 DEF EndWrite
<1>8. ASSUME NEW k \in Commands, ContextDone(k)
      PROVE  TokenStep
  <2>1. CommandMoves(k, "failed") /\ Forget(k) /\ command[k].pc \in Live
        /\ UNCHANGED <<registered, nextId, box, reader>>
    BY <1>8, Moves DEF ContextDone, Live
  <2>. QED BY <1>6, <2>1
<1>9. ASSUME NEW c \in Connections, UNCHANGED <<registered, channels, nextId, box, command>>,
             NEW pc, NEW f, NEW e, pc # "send", reader[c].pc # "send", ReaderMoves(c, pc, f, e)
      PROVE  TokenStep
  <2>1. \A d \in Connections : SameReader(d)
    BY <1>9, <1>r DEF SameReader
  <2>2. Quiet
    BY <1>9, <2>1 DEF Quiet, SameCommand
  <2>. QED BY <2>2 DEF TokenStep
<1>10. ASSUME NEW c \in Connections, ReadMessage(c) \/ FindEntry(c) \/ HandleAttach(c) \/ HandleCdpEvent(c)
      PROVE  TokenStep
  <2>1. /\ UNCHANGED <<registered, channels, nextId, box, command>>
        /\ reader[c].pc # "send"
    BY <1>10 DEF ReadMessage, FindEntry, HandleAttach, HandleCdpEvent
  <2>2. CASE ReadMessage(c)
    <3>1. ReaderMoves(c, "frame", Head(toServer[c]), reader[c].entry)
      BY <2>2, Moves DEF ReadMessage
    <3>. QED BY <1>9, <2>1, <3>1
  <2>3. CASE ReadOn(c)
    <3>1. ReaderMoves(c, "read", NoFrame, reader[c].entry)
      BY <2>3, Moves DEF ReadOn
    <3>. QED BY <1>9, <2>1, <3>1
  <2>4. ASSUME NEW e \in Entry(c), reader' = [reader EXCEPT ![c].pc = "resolve", ![c].entry = e]
        PROVE  TokenStep
    <3>1. ReaderMoves(c, "resolve", reader[c].frame, e)
      BY <2>4, Moves
    <3>. QED BY <1>9, <2>1, <3>1
  <2>. QED BY <1>10, <2>2, <2>3, <2>4 DEF FindEntry, HandleAttach, HandleCdpEvent
<1>11. ASSUME NEW c \in Connections, Resolve(c)
      PROVE  TokenStep
  <2> DEFINE found == {p \in channels[reader[c].entry] : p[1] = reader[c].frame.id}
  <2>0. /\ UNCHANGED <<registered, nextId, box, command>>
        /\ reader[c].pc = "resolve" /\ Taken(reader[c].entry, found)
    BY <1>11 DEF Resolve
  <2>1. CASE found = {} /\ ReadOn(c)
    <3>1. channels' = channels
      BY <2>0, <2>1, ReaderFields DEF Taken, RelayInv
    <3>2. ReaderMoves(c, "read", NoFrame, reader[c].entry)
      BY <2>1, Moves DEF ReadOn
    <3>. QED BY <1>9, <2>0, <3>1, <3>2
  <2>2. ASSUME NEW p \in found,
               reader' = [reader EXCEPT ![c].pc = "send",
                                        ![c].frame = [kind |-> "deliver", to |-> p[2],
                                                      answers |-> reader[c].frame.answers]]
        PROVE  TokenStep
    <3> DEFINE f == [kind |-> "deliver", to |-> p[2], answers |-> reader[c].frame.answers]
    <3>1. ReaderMoves(c, "send", f, reader[c].entry)
      BY <2>2, Moves
    <3>2. f.to = p[2]
      OBVIOUS
    <3> HIDE DEF f
    <3>3. /\ reader'[c].pc = "send" /\ reader'[c].frame.to = p[2]
          /\ \A d \in Connections : d # c => reader'[d] = reader[d]
      BY <1>r, <3>1, <3>2
    <3>4. p \in channels[reader[c].entry] /\ p[1] = reader[c].frame.id
      OBVIOUS
    <3>5. Takes(c, p)
      BY <2>0, <3>3, <3>4 DEF Takes
    <3>. QED BY <3>4, <3>5 DEF TokenStep
  <2>. QED BY <1>11, <2>1, <2>2 DEF Resolve
<1>12. ASSUME NEW c \in Connections, SendResult(c)
      PROVE  TokenStep
  <2>1. ReaderMoves(c, "read", NoFrame, reader[c].entry)
    BY <1>12, Moves DEF SendResult, ReadOn
  <2>2. Sends(c)
    BY <1>12, <1>r, <2>1 DEF SendResult, Sends
  <2>. QED BY <2>2 DEF TokenStep
<1>13. ASSUME NEW c \in Connections, TerminalDisconnect(c) \/ ExtensionDisconnect(c)
      PROVE  TokenStep
  <2>1. ReaderMoves(c, "off", reader[c].frame, reader[c].entry) /\ reader[c].pc # "send"
    BY <1>13, Moves DEF TerminalDisconnect, ExtensionDisconnect
  <2>2. \A d \in Connections : SameReader(d)
    BY <1>r, <2>1 DEF SameReader
  <2>3. CASE TerminalDisconnect(c)
    <3>1. Rejects(registered \cap {c})
      BY <2>2, <2>3 DEF TerminalDisconnect, Rejects
    <3>. QED BY <3>1 DEF TokenStep
  <2>4. CASE ExtensionDisconnect(c)
    <3>1. Rejects({c})
      BY <2>2, <2>4 DEF ExtensionDisconnect, Rejects
    <3>. QED BY <3>1 DEF TokenStep
  <2>. QED BY <1>13, <2>3, <2>4
<1>14. ASSUME UNCHANGED <<registered, channels, nextId, reader, command, box>>
      PROVE  TokenStep
  BY <1>14 DEF TokenStep, Quiet, SameReader, SameCommand
<1>15. ASSUME NEW c \in Connections,
              Ping(c) \/ ClientAnswer(c) \/ AttachTab(c) \/ DetachTab(c) \/ ConnectionLost(c)
      PROVE  TokenStep
  BY <1>14, <1>15 DEF Ping, ClientAnswer, AttachTab, DetachTab, TabEvent, ConnectionLost
<1>16. CASE UNCHANGED vars
  BY <1>14, <1>16 DEF vars
<1>. QED
  BY <1>1, <1>2, <1>3, <1>5, <1>7, <1>8, <1>10, <1>11, <1>12, <1>13, <1>15, <1>16
     DEF Next, ServerStep, ClientStep, CommandStep

-----------------------------------------------------------------------------
(* The ids.                                                                 *)
LEMMA IdNext ==
  ASSUME RelayInv, IdInv, TokenStep
  PROVE  IdInv'
<1>1. ASSUME nextId' = nextId,
             \A k \in Commands : /\ command'[k].conn = command[k].conn
                                 /\ command'[k].id = command[k].id
                                 /\ command'[k].pc = "idle" => command[k].pc = "idle"
      PROVE  IdInv'
  BY <1>1 DEF IdInv
<1>2. CASE Quiet
  BY <1>1, <1>2 DEF Quiet, SameCommand
<1>3. ASSUME NEW k \in Commands, Forgets(k)
      PROVE  IdInv'
  <2>1. \A l \in Commands : /\ command'[l].conn = command[l].conn
                            /\ command'[l].id = command[l].id
                            /\ command'[l].pc = "idle" => command[l].pc = "idle"
    BY <1>3 DEF Forgets
  <2>. QED BY <1>1, <1>3, <2>1 DEF Forgets
<1>4. ASSUME NEW k \in Commands, NEW c \in Connections, Allocates(k, c)
      PROVE  IdInv'
  <2>1. /\ command'[k].pc = "write" /\ command'[k].conn = {c} /\ command'[k].id = nextId[c]
        /\ \A l \in Commands : l # k => command'[l] = command[l]
    BY <1>4 DEF Allocates, Allocate, RelayInv
  <2>2. /\ nextId'[c] = nextId[c] + 1 /\ nextId[c] \in Nat
        /\ \A d \in Connections : d # c => nextId'[d] = nextId[d]
    BY <1>4 DEF Allocates, Allocate, RelayInv
  <2>3. \A l \in Commands : command[l].conn \subseteq Connections /\ command[l].id \in Nat
    BY CommandFields
  <2>4. ASSUME NEW l \in Commands, l # k, NEW d \in command'[l].conn
        PROVE  /\ command'[l].conn = {d} /\ command'[l].id < nextId'[d]
               /\ d = c => command'[l].id # nextId[c]
               /\ \A m \in Commands : m # k /\ d \in command'[m].conn /\ command'[m].id = command'[l].id => l = m
    <3>1. d \in command[l].conn /\ command'[l] = command[l] /\ d \in Connections
      BY <2>1, <2>3, <2>4
    <3>2. /\ command[l].conn = {d} /\ command[l].id < nextId[d]
          /\ \A m \in Commands : d \in command[m].conn /\ command[m].id = command[l].id => l = m
      BY <3>1 DEF IdInv
    <3>3. nextId[d] \in Nat /\ nextId[d] <= nextId'[d]
      <4>1. nextId[d] \in Nat
        BY <3>1 DEF RelayInv
      <4>. QED BY <2>2, <3>1, <4>1
    <3>4. command[l].id < nextId'[d] /\ (d = c => command[l].id # nextId[c])
      BY <2>3, <3>2, <3>3, <2>2
    <3>. QED BY <2>1, <3>1, <3>2, <3>4
  <2>5. ASSUME NEW d \in command'[k].conn
        PROVE  /\ command'[k].conn = {d} /\ command'[k].id < nextId'[d]
               /\ \A m \in Commands : d \in command'[m].conn /\ command'[m].id = command'[k].id => k = m
    <3>1. d = c
      BY <2>1
    <3>. QED BY <2>1, <2>2, <2>4, <3>1
  <2>6. \A l \in Commands : command'[l].pc = "idle" => command'[l].conn = {}
    BY <2>1 DEF IdInv
  <2>7. ASSUME NEW l \in Commands, NEW d \in command'[l].conn
        PROVE  /\ command'[l].conn = {d} /\ command'[l].id < nextId'[d]
               /\ \A m \in Commands : d \in command'[m].conn /\ command'[m].id = command'[l].id => l = m
    <3>1. CASE l = k
      BY <2>5, <3>1
    <3>2. CASE l # k
      <4>1. ASSUME NEW m \in Commands, d \in command'[m].conn, command'[m].id = command'[l].id
            PROVE  l = m
        <5>1. CASE m = k
          BY <2>1, <2>4, <3>2, <4>1, <5>1
        <5>2. CASE m # k
          BY <2>4, <3>2, <4>1, <5>2
        <5>. QED BY <5>1, <5>2
      <4>. QED BY <2>4, <3>2, <4>1
    <3>. QED BY <3>1, <3>2
  <2>. QED BY <2>6, <2>7 DEF IdInv
<1>5. ASSUME NEW c \in Connections, NEW p, Takes(c, p)
      PROVE  IdInv'
  BY <1>1, <1>5 DEF Takes
<1>6. ASSUME NEW c \in Connections, Sends(c)
      PROVE  IdInv'
  BY <1>1, <1>6 DEF Sends
<1>7. ASSUME NEW cs, Rejects(cs)
      PROVE  IdInv'
  BY <1>1, <1>7 DEF Rejects
<1>. QED BY <1>2, <1>3, <1>4, <1>5, <1>6, <1>7 DEF TokenStep

-----------------------------------------------------------------------------
(* The pending entries.                                                     *)

(* An entry is where its command is pending, and nowhere else is.           *)
LEMMA EntryOf ==
  ASSUME RelayInv, EntryInv, NEW c \in Connections, NEW p \in channels[c]
  PROVE  /\ p[2] \in Commands /\ p = <<command[p[2]].id, p[2]>> /\ c \in Pending(p[2])
         /\ c \in registered /\ command[p[2]].conn = {c} /\ command[p[2]].pc \in Live
<1>1. /\ c \in registered /\ command[p[2]].conn = {c} /\ command[p[2]].id = p[1]
      /\ command[p[2]].pc \in Live
  BY DEF EntryInv, Live
<1>2. p[2] \in Commands /\ p = <<p[1], p[2]>>
  BY EntryIsPair
<1>. QED BY <1>1, <1>2 DEF Pending

LEMMA PendingAt ==
  ASSUME RelayInv, EntryInv, NEW k \in Commands, NEW c \in Pending(k)
  PROVE  /\ c \in Connections /\ <<command[k].id, k>> \in channels[c]
         /\ c \in registered /\ command[k].conn = {c} /\ command[k].pc \in Live
         /\ Pending(k) = {c}
<1>1. ASSUME NEW d \in Pending(k)
      PROVE  /\ d \in Connections /\ <<command[k].id, k>> \in channels[d]
             /\ d \in registered /\ command[k].conn = {d} /\ command[k].pc \in Live
  <2>1. d \in Connections /\ <<command[k].id, k>> \in channels[d]
    BY <1>1 DEF Pending
  <2> DEFINE p == <<command[k].id, k>>
  <2>3. p \in channels[d] /\ p[2] = k
    BY <2>1
  <2> HIDE DEF p
  <2>4. d \in registered /\ command[p[2]].conn = {d} /\ command[p[2]].pc \in Live
    BY <2>1, <2>3, EntryOf
  <2>. QED BY <2>1, <2>3, <2>4
<1>2. \A d \in Pending(k) : d = c
  BY <1>1
<1>. QED BY <1>1, <1>2

LEMMA EntryNext ==
  ASSUME RelayInv, IdInv, EntryInv, PlaceInv, TokenStep
  PROVE  EntryInv'
<1> DEFINE Good(c, p) == /\ c \in registered'
                         /\ command'[p[2]].conn = {c} /\ command'[p[2]].id = p[1]
                         /\ command'[p[2]].pc \in Live
<1>0. SUFFICES \A c \in Connections : \A p \in channels'[c] : Good(c, p)
  BY DEF EntryInv, Live
<1>o. ASSUME NEW c \in Connections, NEW p \in channels[c]
      PROVE  /\ p[2] \in Commands /\ c \in registered
             /\ command[p[2]].conn = {c} /\ command[p[2]].id = p[1] /\ command[p[2]].pc \in Live
  BY EntryOf DEF EntryInv
<1>1. ASSUME \A c \in Connections : \A p \in channels'[c] :
                p \in channels[c] /\ c \in registered' /\ command'[p[2]] = command[p[2]]
      PROVE  \A c \in Connections : \A p \in channels'[c] : Good(c, p)
  BY <1>o, <1>1
<1>2. CASE Quiet
  <2>1. ASSUME NEW c \in Connections, NEW p \in channels'[c]
        PROVE  Good(c, p)
    <3>1. p \in channels[c] /\ c \in registered'
      BY <1>2, <1>o DEF Quiet
    <3>2. p[2] \in Commands /\ c \in Pending(p[2])
      BY <3>1, EntryOf
    <3>3. box[p[2]] = <<>>
      BY <3>2 DEF PlaceInv, Place
    <3>. QED BY <1>2, <1>o, <3>1, <3>2, <3>3 DEF Quiet, SameCommand
  <2>. QED BY <2>1
<1>3. ASSUME NEW k \in Commands, Forgets(k)
      PROVE  \A c \in Connections : \A p \in channels'[c] : Good(c, p)
  <2>1. ASSUME NEW c \in Connections, NEW p \in channels'[c]
        PROVE  p \in channels[c] /\ c \in registered' /\ command'[p[2]] = command[p[2]]
    <3>1. p \in channels[c] /\ (c \in command[k].conn => p # <<command[k].id, k>>)
      BY <1>3 DEF Forgets, Forget
    <3>2. p[2] \in Commands /\ p = <<command[p[2]].id, p[2]>> /\ command[p[2]].conn = {c}
      BY <3>1, EntryOf
    <3>3. p[2] # k
      BY <3>1, <3>2
    <3>. QED BY <1>3, <1>o, <3>1, <3>2, <3>3 DEF Forgets
  <2>. QED BY <1>1, <2>1
<1>4. ASSUME NEW k \in Commands, NEW c \in Connections, Allocates(k, c)
      PROVE  \A d \in Connections : \A p \in channels'[d] : Good(d, p)
  <2>1. /\ command'[k].pc = "write" /\ command'[k].conn = {c} /\ command'[k].id = nextId[c]
        /\ \A l \in Commands : l # k => command'[l] = command[l]
    BY <1>4 DEF Allocates, Allocate, RelayInv
  <2>2. /\ channels'[c] = channels[c] \cup {<<nextId[c], k>>}
        /\ \A d \in Connections : d # c => channels'[d] = channels[d]
    BY <1>4 DEF Allocates, Allocate, RelayInv
  <2>3. ASSUME NEW d \in Connections, NEW p \in channels[d]
        PROVE  Good(d, p)
    <3>1. p[2] # k
      BY <1>4, <1>o DEF Allocates, Live
    <3>. QED BY <1>4, <1>o, <2>1, <3>1 DEF Allocates
  <2>4. Good(c, <<nextId[c], k>>)
    BY <1>4, <2>1 DEF Allocates, Live
  <2>. QED BY <2>2, <2>3, <2>4
<1>5. ASSUME NEW c \in Connections, NEW p, Takes(c, p)
      PROVE  \A d \in Connections : \A q \in channels'[d] : Good(d, q)
  <2>1. \A d \in Connections : channels'[d] \subseteq channels[d]
    BY <1>5 DEF Takes, Taken, RelayInv
  <2>. QED BY <1>1, <1>5, <1>o, <2>1 DEF Takes
<1>6. ASSUME NEW c \in Connections, Sends(c)
      PROVE  \A d \in Connections : \A p \in channels'[d] : Good(d, p)
  BY <1>1, <1>6, <1>o DEF Sends
<1>7. ASSUME NEW cs, Rejects(cs)
      PROVE  \A d \in Connections : \A p \in channels'[d] : Good(d, p)
  <2>1. \A d \in Connections : \A p \in channels'[d] : p \in channels[d] /\ d \notin cs
    BY <1>7 DEF Rejects, RejectAll
  <2>. QED BY <1>1, <1>7, <1>o, <2>1 DEF Rejects
<1>. QED BY <1>2, <1>3, <1>4, <1>5, <1>6, <1>7 DEF TokenStep

-----------------------------------------------------------------------------
(* The places.                                                              *)

LEMMA PlaceNext ==
  ASSUME RelayInv, IdInv, EntryInv, PlaceInv, TokenStep
  PROVE  PlaceInv'
<1>0. SUFFICES ASSUME NEW k \in Commands
               PROVE  Place(k)'
  BY DEF PlaceInv
<1>p. Place(k)
  BY DEF PlaceInv
<1>b. box \in [Commands -> Seq(Commands \cup {"rejected"})]
  BY DEF RelayInv
(* Nothing that concerns k moves.                                           *)
<1>1. ASSUME Sending(k)' = Sending(k), Pending(k)' = Pending(k), box'[k] = box[k],
             command'[k].pc = "idle" => command[k].pc = "idle",
             command'[k].pc \in Live => command[k].pc \in Live
      PROVE  Place(k)'
  BY <1>1, <1>p DEF Place, Live
(* Its result arrives.                                                      *)
<1>2. ASSUME NEW x, box[k] = <<>>, box'[k] = Append(box[k], x), Sending(k)' = {}, Pending(k)' = {},
             command'[k] = command[k], command[k].pc # "idle"
      PROVE  Place(k)'
  <2>1. box'[k] = <<x>>
    BY <1>2
  <2>2. Len(box'[k]) = 1 /\ box'[k] # <<>>
    BY <2>1
  <2>. QED BY <1>2, <2>2 DEF Place
<1>3. CASE Quiet
  <2>1. Sending(k)' = Sending(k)
    BY <1>3 DEF Quiet, SameReader, Sending
  <2>2. Pending(k)' = Pending(k)
    BY <1>3 DEF Quiet, SameCommand, Pending
  <2>. QED BY <1>1, <1>3, <2>1, <2>2 DEF Quiet, SameCommand
<1>4. ASSUME NEW l \in Commands, Forgets(l)
      PROVE  Place(k)'
  <2>1. Sending(k)' = Sending(k) /\ box'[k] = box[k]
    BY <1>4 DEF Forgets, Sending
  <2>2. \A c \in Connections : channels'[c] \subseteq channels[c]
                               /\ channels[c] \subseteq channels'[c] \cup {<<command[l].id, l>>}
    BY <1>4 DEF Forgets, Forget
  <2>3. CASE k = l
    <3>1. command'[k].pc = "failed" /\ command'[k].id = command[k].id
      BY <1>4, <2>3 DEF Forgets
    <3>2. Pending(k)' \subseteq Pending(k)
      BY <2>2, <3>1 DEF Pending
    <3>. QED BY <1>p, <2>1, <3>1, <3>2 DEF Place
  <2>4. CASE k # l
    <3>1. command'[k] = command[k]
      BY <1>4, <2>4 DEF Forgets
    <3>2. <<command[k].id, k>> # <<command[l].id, l>>
      BY <2>4
    <3>3. Pending(k)' = Pending(k)
      BY <2>2, <3>1, <3>2 DEF Pending
    <3>. QED BY <1>1, <2>1, <3>1, <3>3
  <2>. QED BY <2>3, <2>4
<1>5. ASSUME NEW l \in Commands, NEW c \in Connections, Allocates(l, c)
      PROVE  Place(k)'
  <2>1. Sending(k)' = Sending(k) /\ box'[k] = box[k]
    BY <1>5 DEF Allocates, Sending
  <2>2. /\ command'[l].pc = "write" /\ command'[l].id = nextId[c]
        /\ \A m \in Commands : m # l => command'[m] = command[m]
    BY <1>5 DEF Allocates, Allocate, RelayInv
  <2>3. /\ channels'[c] = channels[c] \cup {<<nextId[c], l>>}
        /\ \A d \in Connections : d # c => channels'[d] = channels[d]
    BY <1>5 DEF Allocates, Allocate, RelayInv
  <2>4. CASE k = l
    <3>1. box[k] = <<>> /\ Sending(k) = {}
      BY <1>5, <1>p, <2>4 DEF Allocates, Place
    <3>2. c \in Pending(k)'
      BY <2>2, <2>3, <2>4 DEF Pending
    <3>3. Len(box'[k]) <= 1
      BY <2>1, <3>1
    <3>. QED BY <2>1, <2>2, <2>4, <3>1, <3>2, <3>3 DEF Place
  <2>5. CASE k # l
    <3>1. command'[k] = command[k]
      BY <2>2, <2>5
    <3>2. <<command[k].id, k>> # <<nextId[c], l>>
      BY <2>5
    <3>3. Pending(k)' = Pending(k)
      BY <2>3, <3>1, <3>2 DEF Pending
    <3>. QED BY <1>1, <2>1, <3>1, <3>3
  <2>. QED BY <2>4, <2>5
<1>6. ASSUME NEW c \in Connections, NEW p \in channels[reader[c].entry], Takes(c, p)
      PROVE  Place(k)'
  <2> DEFINE e == reader[c].entry
  <2>0. e \in Connections
    BY ReaderFields
  <2>1. /\ box'[k] = box[k] /\ command' = command
        /\ reader[c].pc = "resolve" /\ reader'[c].pc = "send" /\ reader'[c].frame.to = p[2]
        /\ \A d \in Connections : d # c => reader'[d] = reader[d]
    BY <1>6 DEF Takes
  <2>2. /\ channels'[e] = channels[e] \ {q \in channels[e] : q[1] = p[1]}
        /\ \A d \in Connections : d # e => channels'[d] = channels[d]
    BY <1>6, <2>0 DEF Takes, Taken, RelayInv
  <2> HIDE DEF e
  <2>3. p \in channels[e]
    BY DEF e
  <2>4. p[2] \in Commands /\ p = <<command[p[2]].id, p[2]>> /\ e \in Pending(p[2])
        /\ command[p[2]].conn = {e} /\ p[1] = command[p[2]].id
    BY <2>0, <2>3, EntryOf DEF EntryInv
  <2>5. CASE k = p[2]
    <3>1. Sending(k) = {} /\ box[k] = <<>> /\ command[k].pc # "idle"
      <4>1. command[k].pc \in Live
        BY <2>4, <2>5, PendingAt
      <4>. QED BY <1>p, <2>4, <2>5, <4>1 DEF Place, Live
    <3>2. Pending(k) = {e} /\ command[k].id = p[1]
      BY <2>4, <2>5, PendingAt
    <3>3. Pending(k)' = {}
      <4>1. SUFFICES ASSUME NEW d \in Connections, <<command[k].id, k>> \in channels'[d]
                     PROVE  FALSE
        BY <2>1 DEF Pending
      <4>2. d \in Pending(k)
        BY <2>2, <4>1 DEF Pending
      <4>3. d = e
        BY <3>2, <4>2
      <4>. QED BY <2>2, <3>2, <4>1, <4>3
    <3>4. Sending(k)' = {c}
      <4>1. c \in Sending(k)'
        BY <2>1, <2>5 DEF Sending
      <4>2. \A d \in Connections : d # c => d \notin Sending(k)'
        BY <2>1, <3>1 DEF Sending
      <4>. QED BY <4>1, <4>2 DEF Sending
    <3>5. Len(box'[k]) <= 1 /\ box'[k] = <<>>
      BY <2>1, <3>1
    <3>. QED BY <2>1, <3>1, <3>3, <3>4, <3>5 DEF Place
  <2>6. CASE k # p[2]
    <3>1. Sending(k)' = Sending(k)
      BY <2>1, <2>6 DEF Sending
    <3>2. Pending(k)' = Pending(k)
      <4>1. ASSUME NEW d \in Connections, <<command[k].id, k>> \in channels[d]
            PROVE  <<command[k].id, k>> \in channels'[d]
        <5>1. CASE d # e
          BY <2>2, <4>1, <5>1
        <5>2. CASE d = e
          <6>1. d \in Pending(k)
            BY <4>1 DEF Pending
          <6>2. e \in command[k].conn /\ e \in command[p[2]].conn
            BY <2>4, <5>2, <6>1, PendingAt
          <6>3. command[k].id # command[p[2]].id
            BY <2>4, <2>6, <6>2 DEF IdInv
          <6>. QED BY <2>2, <2>4, <4>1, <5>2, <6>3
        <5>. QED BY <5>1, <5>2
      <4>2. \A d \in Connections : channels'[d] \subseteq channels[d]
        BY <2>2
      <4>. QED BY <2>1, <4>1, <4>2 DEF Pending
    <3>. QED BY <1>1, <2>1, <3>1, <3>2
  <2>. QED BY <2>5, <2>6
<1>7. ASSUME NEW c \in Connections, Sends(c)
      PROVE  Place(k)'
  <2>0. reader[c].frame.to \in Commands
    BY <1>7, ReaderFields DEF Sends
  <2>1. /\ command' = command /\ channels' = channels
        /\ reader[c].pc = "send" /\ reader'[c].pc = "read"
        /\ \A d \in Connections : d # c => reader'[d] = reader[d]
    BY <1>7 DEF Sends
  <2>2. Pending(k)' = Pending(k)
    BY <2>1 DEF Pending
  <2>3. CASE k = reader[c].frame.to
    <3>1. c \in Sending(k)
      BY <2>1, <2>3 DEF Sending
    <3>2. box[k] = <<>> /\ Pending(k) = {} /\ command[k].pc # "idle" /\ \A d \in Sending(k) : d = c
      BY <1>p, <3>1 DEF Place
    <3>3. Sending(k)' = {}
      BY <2>1, <3>2 DEF Sending
    <3>4. box'[k] = Append(box[k], reader[c].frame.answers)
      BY <1>7, <1>b, <2>3 DEF Sends
    <3>. QED BY <1>2, <2>1, <2>2, <3>2, <3>3, <3>4
  <2>4. CASE k # reader[c].frame.to
    <3>1. Sending(k)' = Sending(k)
      BY <2>1, <2>4 DEF Sending
    <3>2. box'[k] = box[k]
      BY <1>7, <1>b, <2>4 DEF Sends
    <3>. QED BY <1>1, <2>1, <2>2, <3>1, <3>2
  <2>. QED BY <2>3, <2>4
<1>8. ASSUME NEW cs \in SUBSET Connections, Rejects(cs)
      PROVE  Place(k)'
  <2>1. command' = command /\ Sending(k)' = Sending(k)
    BY <1>8 DEF Rejects, SameReader, Sending
  <2>2. \A d \in Connections : channels'[d] = IF d \in cs THEN {} ELSE channels[d]
    BY <1>8 DEF Rejects, RejectAll
  <2>3. box'[k] = IF k \in Waiting(cs) THEN Append(box[k], "rejected") ELSE box[k]
    BY <1>8 DEF Rejects, RejectAll
  <2>4. Pending(k)' = Pending(k) \ cs
    BY <2>1, <2>2 DEF Pending
  <2>5. CASE k \in Waiting(cs)
    <3>1. PICK c \in cs : \E p \in channels[c] : p[2] = k
      BY <2>5 DEF Waiting
    <3>2. c \in Connections
      OBVIOUS
    <3>3. c \in Pending(k)
      BY <3>1, <3>2, EntryOf
    <3>4. Pending(k) = {c} /\ command[k].pc \in Live
      BY <3>3, PendingAt
    <3>5. Sending(k) = {} /\ box[k] = <<>>
      BY <1>p, <3>3 DEF Place
    <3>. QED BY <1>2, <2>1, <2>3, <2>4, <2>5, <3>4, <3>5 DEF Live
  <2>6. CASE k \notin Waiting(cs)
    <3>1. ASSUME NEW c \in Pending(k), c \in cs
          PROVE  FALSE
      <4>1. c \in Connections /\ <<command[k].id, k>> \in channels[c]
        BY <3>1 DEF Pending
      <4>2. k \in {p[2] : p \in channels[c]}
        BY <4>1
      <4>. QED BY <2>6, <3>1, <4>2 DEF Waiting
    <3>2. Pending(k)' = Pending(k)
      BY <2>4, <3>1
    <3>. QED BY <1>1, <2>1, <2>3, <2>6, <3>2
  <2>. QED BY <2>5, <2>6
<1>. QED BY <1>3, <1>4, <1>5, <1>6, <1>7, <1>8 DEF TokenStep

-----------------------------------------------------------------------------
(* Whose answer a command gets.                                             *)

(* What a command is asked under stays its own.                             *)
LEMMA OwnStays ==
  ASSUME RelayInv, IdInv, TokenStep, NEW c, NEW i, NEW k \in Commands, Own(c, i, k)
  PROVE  Own(c, i, k)'
<1>1. command[k].pc # "idle"
  BY DEF Own, IdInv
<1>2. command'[k].conn = command[k].conn /\ command'[k].id = command[k].id
  <2>1. ASSUME NEW l \in Commands, NEW d \in Connections, Allocates(l, d)
        PROVE  command'[k] = command[k]
    BY <1>1, <2>1 DEF Allocates, Allocate
  <2>2. ASSUME NEW l \in Commands, Forgets(l)
        PROVE  command'[k].conn = command[k].conn /\ command'[k].id = command[k].id
    BY <2>2 DEF Forgets
  <2>. QED BY <2>1, <2>2 DEF TokenStep, Quiet, SameCommand, Takes, Sends, Rejects
<1>. QED BY <1>2 DEF Own

LEMMA AnswerNext ==
  ASSUME Terminals = {}, RelayInv, IdInv, EntryInv, AnswerInv, [Next]_vars
  PROVE  AnswerInv'
<1> DEFINE Owns(c, i, k) == command'[k].conn = {c} /\ command'[k].id = i
           T == \A c \in Connections : \A p \in toClient'[c] : Owns(c, p[1], p[2])
           S == \A c \in Connections : \A i \in DOMAIN toServer'[c] :
                   toServer'[c][i].kind = "answer" =>
                       Owns(c, toServer'[c][i].id, toServer'[c][i].answers)
           R(c) == /\ reader'[c].frame.kind = "answer" =>
                          Owns(c, reader'[c].frame.id, reader'[c].frame.answers)
                   /\ reader'[c].pc = "resolve" => reader'[c].entry = c
                   /\ reader'[c].pc = "send" => reader'[c].frame.answers = reader'[c].frame.to
<1>0. SUFFICES T /\ S /\ \A c \in Connections : R(c)
  BY DEF AnswerInv, Own
<1>o. ASSUME NEW c \in Connections, NEW i, NEW k \in Commands, Own(c, i, k)
      PROVE  Owns(c, i, k)
  <2>1. TokenStep
    BY StepIs
  <2>2. Own(c, i, k)'
    BY <1>o, <2>1, OwnStays
  <2>. QED BY <2>2 DEF Own
<1> HIDE DEF Owns
<1>t. ASSUME NEW c \in Connections, NEW p \in toClient[c]
      PROVE  p[1] \in Nat /\ p[2] \in Commands /\ Owns(c, p[1], p[2])
  <2>1. p \in Nat \X Commands
    BY DEF RelayInv
  <2>. QED BY <1>o, <2>1 DEF AnswerInv
<1>s. ASSUME NEW c \in Connections, NEW i \in DOMAIN toServer[c], toServer[c][i].kind = "answer"
      PROVE  Owns(c, toServer[c][i].id, toServer[c][i].answers)
  <2>1. toServer[c] \in Seq(Frames)
    BY DEF RelayInv
  <2>2. toServer[c][i] \in Frames
    BY <2>1
  <2>3. toServer[c][i].answers \in Commands
    BY <1>s, <2>2, FrameFields
  <2>. QED BY <1>o, <1>s, <2>3 DEF AnswerInv
<1>f. ASSUME NEW c \in Connections, reader[c].frame.kind = "answer"
      PROVE  Owns(c, reader[c].frame.id, reader[c].frame.answers)
  <2>1. reader[c].frame.answers \in Commands
    BY <1>f, ReaderFields, FrameFields
  <2>. QED BY <1>f, <1>o, <2>1 DEF AnswerInv
<1>r. ASSUME NEW c \in Connections, reader'[c] = reader[c]
      PROVE  R(c)
  BY <1>f, <1>r DEF AnswerInv
<1>m. ASSUME NEW c \in Connections, NEW pc, NEW f, NEW e, ReaderMoves(c, pc, f, e)
      PROVE  /\ reader'[c].pc = pc /\ reader'[c].frame = f /\ reader'[c].entry = e
             /\ \A d \in Connections : d # c => reader'[d] = reader[d]
  BY <1>m DEF ReaderMoves, RelayInv
(* A reader keeps its frame, drops it, or stops.                            *)
<1>k. ASSUME NEW c \in Connections, NEW pc \in {"off", "read"}, NEW f \in {reader[c].frame, NoFrame},
             NEW e, ReaderMoves(c, pc, f, e)
      PROVE  \A d \in Connections : R(d)
  <2>1. NoFrame.kind # "answer"
    BY DEF NoFrame
  <2>2. R(c)
    BY <1>f, <1>k, <1>m, <2>1
  <2>. QED BY <1>k, <1>m, <1>r, <2>2
<1> HIDE DEF R
<1>1. ASSUME NEW c \in Connections, HandleExtensionSocket(c)
      PROVE  T /\ S /\ \A d \in Connections : R(d)
  <2>1. ReaderMoves(c, "read", reader[c].frame, reader[c].entry)
    BY <1>1, Moves DEF HandleExtensionSocket
  <2>2. \A d \in Connections : R(d)
    BY <1>k, <2>1
  <2>. QED BY <1>1, <1>s, <1>t, <2>2 DEF HandleExtensionSocket
<1>2. ASSUME UNCHANGED <<toClient, toServer, reader>>
      PROVE  T /\ S /\ \A d \in Connections : R(d)
  BY <1>2, <1>s, <1>t, <1>r
<1>3. ASSUME NEW k \in Commands, EndWrite(k)
      PROVE  T /\ S /\ \A d \in Connections : R(d)
  <2>1. PICK c \in command[k].conn :
           toClient' = toClient \/ toClient' = [toClient EXCEPT ![c] = @ \cup {<<command[k].id, k>>}]
    BY <1>3 DEF EndWrite
  <2>2. c \in Connections
    BY CommandFields
  <2>3. Owns(c, command[k].id, k)
    BY <1>o, <2>2 DEF IdInv, Own
  <2>4. T
    <3>1. ASSUME NEW d \in Connections, NEW p \in toClient'[d]
          PROVE  Owns(d, p[1], p[2])
      <4>1. CASE p \in toClient[d]
        BY <1>t, <4>1
      <4>2. CASE p \notin toClient[d]
        <5>1. d = c /\ p = <<command[k].id, k>>
          BY <2>1, <2>2, <4>2 DEF RelayInv
        <5>2. p[1] = command[k].id /\ p[2] = k
          BY <5>1
        <5>. QED BY <2>3, <5>1, <5>2
      <4>. QED BY <4>1, <4>2
    <3>. QED BY <3>1
  <2>5. UNCHANGED <<toServer, reader>>
    BY <1>3 DEF EndWrite
  <2>. QED BY <1>s, <1>r, <2>4, <2>5
<1>4. ASSUME NEW c \in Connections, ReadMessage(c)
      PROVE  T /\ S /\ \A d \in Connections : R(d)
  <2>1. /\ toServer[c] # <<>> /\ toServer' = [toServer EXCEPT ![c] = Tail(@)]
        /\ toClient' = toClient
    BY <1>4 DEF ReadMessage
  <2>2. ReaderMoves(c, "frame", Head(toServer[c]), reader[c].entry)
    BY <1>4, Moves DEF ReadMessage
  <2>3. toServer[c] \in Seq(Frames)
    BY DEF RelayInv
  <2>4. 1 \in DOMAIN toServer[c] /\ Head(toServer[c]) = toServer[c][1]
    BY <2>1, <2>3
  <2>5. \A i \in DOMAIN Tail(toServer[c]) :
           i + 1 \in DOMAIN toServer[c] /\ Tail(toServer[c])[i] = toServer[c][i + 1]
    BY <2>1, <2>3
  <2>6. R(c)
    BY <1>m, <1>s, <2>2, <2>4 DEF R
  <2>7. S
    <3>1. ASSUME NEW d \in Connections, NEW i \in DOMAIN toServer'[d], toServer'[d][i].kind = "answer"
          PROVE  Owns(d, toServer'[d][i].id, toServer'[d][i].answers)
      <4>1. CASE d = c
        <5>1. toServer'[c] = Tail(toServer[c])
          BY <2>1 DEF RelayInv
        <5>2. i + 1 \in DOMAIN toServer[c] /\ toServer'[c][i] = toServer[c][i + 1]
          BY <2>5, <4>1, <5>1
        <5>. QED BY <1>s, <3>1, <4>1, <5>2
      <4>2. CASE d # c
        <5>1. toServer'[d] = toServer[d]
          BY <2>1, <4>2 DEF RelayInv
        <5>. QED BY <1>s, <3>1, <5>1
      <4>. QED BY <4>1, <4>2
    <3>. QED BY <3>1
  <2>8. \A d \in Connections : R(d)
    BY <1>m, <1>r, <2>2, <2>6
  <2>. QED BY <1>t, <2>1, <2>7, <2>8
<1>5. ASSUME NEW c \in Connections, ReadOn(c), UNCHANGED <<toClient, toServer>>
      PROVE  T /\ S /\ \A d \in Connections : R(d)
  <2>1. ReaderMoves(c, "read", NoFrame, reader[c].entry)
    BY <1>5, Moves DEF ReadOn
  <2>2. \A d \in Connections : R(d)
    BY <1>k, <2>1
  <2>. QED BY <1>5, <1>s, <1>t, <2>2
<1>6. ASSUME NEW c \in Connections, FindEntry(c)
      PROVE  T /\ S /\ \A d \in Connections : R(d)
  <2>1. UNCHANGED <<toClient, toServer>>
    BY <1>6 DEF FindEntry
  <2>2. ASSUME NEW e \in Entry(c), reader' = [reader EXCEPT ![c].pc = "resolve", ![c].entry = e]
        PROVE  T /\ S /\ \A d \in Connections : R(d)
    <3>1. e = c
      BY DEF Entry, ExtensionEntry
    <3>2. ReaderMoves(c, "resolve", reader[c].frame, c)
      BY <2>2, <3>1, Moves
    <3>3. R(c)
      BY <1>f, <1>m, <3>2 DEF R
    <3>4. \A d \in Connections : R(d)
      BY <1>m, <1>r, <3>2, <3>3
    <3>. QED BY <1>s, <1>t, <2>1, <3>4
  <2>. QED BY <1>5, <1>6, <2>1, <2>2 DEF FindEntry
<1>7. ASSUME NEW c \in Connections, Resolve(c)
      PROVE  T /\ S /\ \A d \in Connections : R(d)
  <2> DEFINE found == {p \in channels[reader[c].entry] : p[1] = reader[c].frame.id}
  <2>1. UNCHANGED <<toClient, toServer>> /\ reader[c].pc = "resolve"
    BY <1>7 DEF Resolve
  <2>2. ASSUME NEW p \in found,
               reader' = [reader EXCEPT ![c].pc = "send",
                                        ![c].frame = [kind |-> "deliver", to |-> p[2],
                                                      answers |-> reader[c].frame.answers]]
        PROVE  T /\ S /\ \A d \in Connections : R(d)
    <3> DEFINE f == [kind |-> "deliver", to |-> p[2], answers |-> reader[c].frame.answers]
               k == reader[c].frame.answers
    <3>1. ReaderMoves(c, "send", f, reader[c].entry)
      BY <2>2, Moves
    <3>2. f.to = p[2] /\ f.answers = k /\ f.kind # "answer"
      OBVIOUS
    <3>3. reader[c].frame.kind = "answer" /\ k \in Commands /\ reader[c].entry = c
      BY <2>1, ReaderFields DEF AnswerInv, RelayInv
    <3>4. Own(c, reader[c].frame.id, k)
      BY <3>3 DEF AnswerInv
    <3>5. p \in channels[c] /\ p[1] = reader[c].frame.id
      BY <3>3
    <3> HIDE DEF f, k
    <3>6. p[2] \in Commands /\ command[p[2]].conn = {c} /\ command[p[2]].id = p[1]
      BY <3>5, EntryOf DEF EntryInv
    <3>7. p[2] = k
      BY <3>3, <3>4, <3>5, <3>6 DEF IdInv, Own
    <3>8. R(c)
      BY <1>m, <3>1, <3>2, <3>7 DEF R
    <3>9. \A d \in Connections : R(d)
      BY <1>m, <1>r, <3>1, <3>8
    <3>. QED BY <1>s, <1>t, <2>1, <3>9
  <2>. QED BY <1>5, <1>7, <2>1, <2>2 DEF Resolve
<1>8. ASSUME NEW c \in Connections, SendResult(c) \/ HandleAttach(c) \/ HandleCdpEvent(c)
      PROVE  T /\ S /\ \A d \in Connections : R(d)
  BY <1>5, <1>8 DEF SendResult, HandleAttach, HandleCdpEvent
<1>9. ASSUME NEW c \in Connections, ExtensionDisconnect(c)
      PROVE  T /\ S /\ \A d \in Connections : R(d)
  <2>1. ReaderMoves(c, "off", reader[c].frame, reader[c].entry)
    BY <1>9, Moves DEF ExtensionDisconnect
  <2>2. \A d \in Connections : R(d)
    BY <1>k, <2>1
  <2>. QED BY <1>9, <1>s, <1>t, <2>2 DEF ExtensionDisconnect
(* A client adds a frame to those it has sent.                              *)
<1>10. ASSUME NEW c \in Connections, NEW f, toServer' = [toServer EXCEPT ![c] = Append(@, f)],
              f.kind = "answer" => Owns(c, f.id, f.answers)
       PROVE  S
  <2>1. toServer[c] \in Seq(Frames)
    BY DEF RelayInv
  <2>2. toServer'[c] = Append(toServer[c], f) /\ \A d \in Connections : d # c => toServer'[d] = toServer[d]
    BY <1>10 DEF RelayInv
  <2>3. \A i \in DOMAIN toServer'[c] :
           toServer'[c][i] = f \/ (i \in DOMAIN toServer[c] /\ toServer'[c][i] = toServer[c][i])
    BY <2>1, <2>2
  <2>. QED BY <1>10, <1>s, <2>2, <2>3
<1>11. ASSUME NEW c \in Connections, ClientAnswer(c)
       PROVE  T /\ S /\ \A d \in Connections : R(d)
  <2>1. PICK p \in toClient[c] :
           /\ toClient' = [toClient EXCEPT ![c] = @ \ {p}]
           /\ toServer' = [toServer EXCEPT ![c] =
                               Append(@, [kind |-> "answer", id |-> p[1], answers |-> p[2]])]
    BY <1>11 DEF ClientAnswer
  <2>2. Owns(c, p[1], p[2])
    BY <1>t
  <2> DEFINE f == [kind |-> "answer", id |-> p[1], answers |-> p[2]]
  <2>3. f.id = p[1] /\ f.answers = p[2]
    OBVIOUS
  <2>4. toServer' = [toServer EXCEPT ![c] = Append(@, f)]
    BY <2>1
  <2> HIDE DEF f
  <2>5. S
    BY <1>10, <2>2, <2>3, <2>4
  <2>6. T
    BY <1>t, <2>1 DEF RelayInv
  <2>7. reader' = reader
    BY <1>11 DEF ClientAnswer
  <2>. QED BY <1>r, <2>5, <2>6, <2>7
<1>12. ASSUME NEW c \in Connections, NEW a \in BOOLEAN, TabEvent(c, a)
       PROVE  T /\ S /\ \A d \in Connections : R(d)
  <2> DEFINE f == [kind |-> "event", field |-> EventField, attached |-> a]
  <2>1. toServer' = [toServer EXCEPT ![c] = Append(@, f)] /\ f.kind # "answer"
    BY <1>12 DEF TabEvent
  <2> HIDE DEF f
  <2>2. S
    BY <1>10, <2>1
  <2>. QED BY <1>12, <1>r, <1>t, <2>2 DEF TabEvent
<1> HIDE DEF T, S
<1>13. ASSUME NEW c \in Connections, HandleTerminalSocket(c) \/ TerminalDisconnect(c)
       PROVE  FALSE
  BY <1>13 DEF HandleTerminalSocket, TerminalDisconnect
<1>14. ASSUME NEW k \in Commands, BeginWrite(k) \/ ReceiveResult(k) \/ SendCommandForUser(k)
                                   \/ SendCDPCommand(k) \/ ContextDone(k)
       PROVE  T /\ S /\ \A d \in Connections : R(d)
  BY <1>2, <1>14 DEF BeginWrite, ReceiveResult, SendCommandForUser, SendCDPCommand, ContextDone
<1>15. ASSUME NEW c \in Connections, Ping(c) \/ ConnectionLost(c)
       PROVE  T /\ S /\ \A d \in Connections : R(d)
  BY <1>2, <1>15 DEF Ping, ConnectionLost
<1>16. CASE UNCHANGED vars
  BY <1>2, <1>16 DEF vars
<1>. QED
  BY <1>1, <1>3, <1>4, <1>6, <1>7, <1>8, <1>9, <1>11, <1>12, <1>13, <1>14, <1>15, <1>16
     DEF Next, ServerStep, ClientStep, CommandStep, AttachTab, DetachTab

(* What a command gets is its own answer or the error of RejectAll.         *)
LEMMA AnswersNext ==
  ASSUME RelayInv, AnswerInv, AnswersOwnCommand, [Next]_vars
  PROVE  AnswersOwnCommand'
<1>1. ASSUME NEW k \in Commands, NEW x \in {k, "rejected"}, box'[k] = Append(box[k], x)
      PROVE  \A i \in DOMAIN box'[k] : box'[k][i] \in {k, "rejected"}
  <2>1. box[k] \in Seq(Commands \cup {"rejected"})
    BY DEF RelayInv
  <2>2. \A i \in DOMAIN box'[k] : box'[k][i] = x \/ (i \in DOMAIN box[k] /\ box'[k][i] = box[k][i])
    BY <1>1, <2>1
  <2>. QED BY <2>2 DEF AnswersOwnCommand
<1>2. ASSUME NEW k \in Commands, box'[k] = box[k]
      PROVE  \A i \in DOMAIN box'[k] : box'[k][i] \in {k, "rejected"}
  BY <1>2 DEF AnswersOwnCommand
<1>3. ASSUME NEW cs, RejectAll(cs)
      PROVE  AnswersOwnCommand'
  <2>1. \A k \in Commands : box'[k] = Append(box[k], "rejected") \/ box'[k] = box[k]
    BY <1>3 DEF RejectAll
  <2>. QED BY <1>1, <1>2, <2>1 DEF AnswersOwnCommand
<1>4. ASSUME NEW c \in Connections, SendResult(c)
      PROVE  AnswersOwnCommand'
  <2>1. reader[c].frame.answers = reader[c].frame.to /\ reader[c].frame.to \in Commands
    BY <1>4, ReaderFields DEF SendResult, AnswerInv
  <2>2. \A k \in Commands : IF k = reader[c].frame.to THEN box'[k] = Append(box[k], k)
                            ELSE box'[k] = box[k]
    BY <1>4, <2>1 DEF SendResult, RelayInv
  <2>. QED BY <1>1, <1>2, <2>2 DEF AnswersOwnCommand
<1>5. CASE UNCHANGED box
  BY <1>2, <1>5 DEF AnswersOwnCommand
<1>6. \/ \E cs : RejectAll(cs)
      \/ \E c \in Connections : SendResult(c)
      \/ UNCHANGED box
  BY DEF Next, vars, ServerStep, ClientStep, CommandStep, HandleTerminalSocket, HandleExtensionSocket,
         SendCommandForUser, SendCDPCommand, BeginWrite, EndWrite, ReceiveResult, ContextDone,
         ReadMessage, FindEntry, Resolve, HandleAttach, HandleCdpEvent, TerminalDisconnect,
         ExtensionDisconnect, Ping, ClientAnswer, AttachTab, DetachTab, TabEvent, ConnectionLost
<1>. QED BY <1>3, <1>4, <1>5, <1>6

-----------------------------------------------------------------------------
(* The theorems.                                                            *)

LEMMA InitHolds ==
  ASSUME Init
  PROVE  RelayInv /\ IdInv /\ EntryInv /\ PlaceInv /\ AnswerInv /\ AnswersOwnCommand
<1>1. RelayInv
  <2>1. [c \in Connections |-> [pc |-> "off", frame |-> NoFrame, entry |-> c]]
           \in [Connections -> [pc : {"off", "read", "frame", "resolve", "send"},
                                frame : Frames, entry : Connections]]
    BY FramesHave
  <2>2. \A c \in Connections : reader[c].pc = "off"
    BY DEF Init
  <2>3. <<>> \in Seq(Frames) /\ <<>> \in Seq(Commands \cup {"rejected"})
    OBVIOUS
  <2>. QED BY <2>1, <2>2, <2>3 DEF Init, RelayInv
<1>2. IdInv /\ EntryInv
  BY DEF Init, IdInv, EntryInv
<1>3. PlaceInv
  <2>1. \A k \in Commands : Sending(k) = {} /\ Pending(k) = {} /\ box[k] = <<>>
                            /\ command[k].pc = "idle"
    BY DEF Init, Sending, Pending
  <2>2. Len(<<>>) <= 1
    OBVIOUS
  <2>. QED BY <2>1, <2>2 DEF PlaceInv, Place
<1>4. AnswerInv
  <2>1. NoFrame.kind = "none"
    BY DEF NoFrame
  <2>. QED BY <2>1 DEF Init, AnswerInv
<1>5. AnswersOwnCommand
  BY DEF Init, AnswersOwnCommand
<1>. QED BY <1>1, <1>2, <1>3, <1>4, <1>5

(* The invariant of the tokens.                                             *)
TokenInv == RelayInv /\ IdInv /\ EntryInv /\ PlaceInv

LEMMA TokenNext ==
  ASSUME TokenInv, [Next]_vars
  PROVE  TokenInv'
<1>1. TokenStep
  BY StepIs DEF TokenInv
<1>2. RelayInv'
  BY RelayNext DEF TokenInv
<1>3. IdInv'
  BY <1>1, IdNext DEF TokenInv
<1>4. EntryInv'
  BY <1>1, EntryNext DEF TokenInv
<1>5. PlaceInv'
  BY <1>1, PlaceNext DEF TokenInv
<1>. QED BY <1>2, <1>3, <1>4, <1>5 DEF TokenInv

LEMMA TokenCorrect == Spec => []TokenInv
<1>1. Init => TokenInv
  BY InitHolds DEF TokenInv
<1>2. TokenInv /\ [Next]_vars => TokenInv'
  BY TokenNext
<1>. QED BY <1>1, <1>2, PTL DEF Spec

(* relay.go, relaybrowser.go: whatever replaces or ends a connection, a     *)
(* command that still waits has its result, is about to get it, or is       *)
(* pending with a registered connection, whose end will reject it.          *)
THEOREM NoStrandedCorrect == Spec => []NoStrandedCommand
<1>1. TokenInv => NoStrandedCommand
  <2>1. SUFFICES ASSUME RelayInv, EntryInv, PlaceInv, NEW k \in Commands, command[k].pc \in Live,
                        box[k] = <<>>, Sending(k) = {}
                 PROVE  \E c \in command[k].conn \cap registered : <<command[k].id, k>> \in channels[c]
    BY DEF TokenInv, NoStrandedCommand, Live, Sending
  <2>2. PICK c : c \in Pending(k)
    BY <2>1 DEF PlaceInv, Place, Live
  <2>. QED BY <2>1, <2>2, PendingAt
<1>. QED BY <1>1, TokenCorrect, PTL

(* pending.go: a result channel holds one result, and RejectAll sends with  *)
(* the mutex held; no command is ever sent a second one.                    *)
THEOREM ResultOnceCorrect == Spec => []ResultOnce
<1>1. TokenInv => ResultOnce
  BY DEF TokenInv, ResultOnce, PlaceInv, Place
<1>. QED BY <1>1, TokenCorrect, PTL

(* relay.go, relaybrowser.go: whatever races for a command, it has one      *)
(* result, on its way or to come, and never two.                            *)
THEOREM OneResultEachCorrect == Spec => []OneResultEach
<1>1. NoStrandedCommand /\ ResultOnce => OneResultEach
  BY DEF OneResultEach
<1>. QED BY <1>1, NoStrandedCorrect, ResultOnceCorrect, PTL

(* pending.go: with browser extensions, each connection of which has an     *)
(* entry of its own, a command gets the answer to itself or an error.       *)
(* Terminals share an entry, so the readLoop of a replaced one resolves in  *)
(* the pending.Requests of the other.                                       *)
THEOREM AnswersOwnCorrect ==
  ASSUME Terminals = {}
  PROVE  Spec => []AnswersOwnCommand
<1> DEFINE Inv == TokenInv /\ AnswerInv /\ AnswersOwnCommand
<1>1. Init => Inv
  BY InitHolds DEF TokenInv
<1>2. Inv /\ [Next]_vars => Inv'
  <2>1. SUFFICES ASSUME Inv, [Next]_vars
                 PROVE  Inv'
    OBVIOUS
  <2>2. TokenInv'
    BY <2>1, TokenNext
  <2>3. AnswerInv'
    BY <2>1, AnswerNext DEF TokenInv
  <2>4. AnswersOwnCommand'
    BY <2>1, AnswersNext DEF TokenInv
  <2>. QED BY <2>2, <2>3, <2>4
<1>. QED BY <1>1, <1>2, PTL DEF Spec
=============================================================================
