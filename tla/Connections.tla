---------------------------- MODULE Connections -----------------------------
(***************************************************************************)
(* The connections of clients and the events broadcast to them: the serve  *)
(* loop of a connection, pubsub.Broadcast, which calls each subscriber in  *)
(* turn and waits for it, the two transports below it, and the client of   *)
(* the cloud that brings connections as streams of one session.            *)
(*                                                                         *)
(* A frame that fits into what a peer has not read yet is written at once; *)
(* otherwise the writer waits, holding the transport's mutex.  On a        *)
(* WebSocket a write has a deadline, and after a write that failed every   *)
(* later one fails.  A write to a stream has none; it fails when the       *)
(* session ends.                                                           *)
(***************************************************************************)
EXTENDS Naturals, Sequences, SequencesExt, FiniteSets

CONSTANTS
    Sockets,     \* clients with a WebSocket of their own
    Streams,     \* clients that come through the cloud
    Casters,     \* goroutines that broadcast events
    UserOf,      \* the user of a client, and of the events of a caster ("" for everyone's)
    Requests,    \* requests a client may send
    Buffer,      \* frames a peer that does not read may be behind
    MaxEvents,   \* bound: events of a caster
    MaxSends,    \* bound: requests a client sends
    MaxSessions  \* bound: sessions with the cloud

Clients == Sockets \cup Streams
Writers == Casters \cup Clients
None == "none"

VARIABLES
    server,      \* the serve goroutine of a client
    subscribed,  \* the subscribers of the pubsub
    inbox,       \* what a client has sent
    sends,       \* how much it has
    seen,        \* the deduplication map of a connection
    lock,        \* writeMutex: its holder
    wire,        \* what was written to a client and it has not read
    received,    \* what it has read
    peer,        \* "reads", "stalls" or "lost"
    broken,      \* the WebSockets on which a write has failed
    writer,      \* a goroutine that writes: the frame, the clients left, and the one it is at
    count,       \* the events of a caster so far
    cloud        \* the client of the cloud

vars == <<server, subscribed, inbox, sends, seen, lock, wire, received, peer, broken, writer, count, cloud>>

Free == [pc |-> "free"]

Init ==
    /\ server = [c \in Clients |-> "new"]
    /\ subscribed = {}
    /\ inbox = [c \in Clients |-> <<>>] /\ sends = [c \in Clients |-> 0]
    /\ seen = [c \in Clients |-> {}]
    /\ lock = [c \in Clients |-> None]
    /\ wire = [c \in Clients |-> <<>>] /\ received = [c \in Clients |-> <<>>]
    /\ peer = [c \in Clients |-> "reads"] /\ broken = {}
    /\ writer = [w \in Writers |-> Free]
    /\ count = [b \in Casters |-> 0]
    /\ cloud = [pc |-> "dial", session |-> FALSE, closed |-> FALSE, sessions |-> 0]

Connecting == <<inbox, sends, seen, received>>
Writing == <<lock, wire, broken, writer, count>>

Turn(w, state) == writer' = [writer EXCEPT ![w] = state]
Serve(c, pc) == server' = [server EXCEPT ![c] = pc]

-----------------------------------------------------------------------------
(* The peers. *)

PeerSends(c, r) ==
    /\ peer[c] # "lost" /\ server[c] # "new" /\ sends[c] < MaxSends
    /\ inbox' = [inbox EXCEPT ![c] = Append(@, r)]
    /\ sends' = [sends EXCEPT ![c] = @ + 1]
    /\ UNCHANGED <<server, subscribed, seen, received, Writing, peer, cloud>>

PeerReads(c) ==
    /\ peer[c] = "reads" /\ wire[c] # <<>>
    /\ received' = [received EXCEPT ![c] = Append(@, Head(wire[c]))]
    /\ wire' = [wire EXCEPT ![c] = Tail(@)]
    /\ UNCHANGED <<server, subscribed, inbox, sends, seen, lock, peer, broken, writer, count, cloud>>

(* A peer stops to read for good, or goes. *)
PeerFails(c) ==
    /\ server[c] # "new" /\ peer[c] # "lost"
    /\ \E how \in {"stalls", "lost"} : how # peer[c] /\ peer' = [peer EXCEPT ![c] = how]
    /\ UNCHANGED <<server, subscribed, Connecting, Writing, cloud>>

-----------------------------------------------------------------------------
(* serve. *)

(* The connection is subscribed before its first frame is read. *)
Subscribe(c) ==
    /\ server[c] = "new" /\ (c \in Streams => cloud.session)
    /\ subscribed' = subscribed \cup {c}
    /\ Serve(c, "read")
    /\ UNCHANGED <<Connecting, Writing, peer, cloud>>

(* handleStream: what comes before the messages is unreadable or of another *)
(* kind, and the stream is closed.                                          *)
HandleStreamFails(c) ==
    /\ server[c] = "new" /\ c \in Streams /\ cloud.session
    /\ Serve(c, "gone")
    /\ UNCHANGED <<subscribed, Connecting, Writing, peer, cloud>>

(* A frame whose method and id were seen within 15 minutes is skipped.      *)
ReadMessage(c) ==
    /\ server[c] = "read" /\ inbox[c] # <<>> /\ peer[c] # "lost"
    /\ inbox' = [inbox EXCEPT ![c] = Tail(@)]
    /\ IF Head(inbox[c]) \in seen[c] THEN UNCHANGED <<seen, server>>
       ELSE /\ seen' = [seen EXCEPT ![c] = @ \cup {Head(inbox[c])}]
            /\ Serve(c, "handle")
    /\ UNCHANGED <<subscribed, sends, received, Writing, peer, cloud>>

(* dispatch: the handler, and the response, which waits for the transport.  *)
Dispatch(c) ==
    /\ server[c] = "handle" /\ writer[c] = Free
    /\ Turn(c, [pc |-> "wait", frame |-> [from |-> c, n |-> 0], todo |-> {}, to |-> c])
    /\ Serve(c, "respond")
    /\ UNCHANGED <<subscribed, Connecting, lock, wire, peer, broken, count, cloud>>

Responded(c) ==
    /\ server[c] = "respond" /\ writer[c] = Free
    /\ Serve(c, "read")
    /\ UNCHANGED <<subscribed, Connecting, Writing, peer, cloud>>

(* ReadMessage fails: the deferred calls unsubscribe and close.             *)
Unsubscribe(c) ==
    /\ server[c] = "read" /\ peer[c] = "lost"
    /\ subscribed' = subscribed \ {c}
    /\ Serve(c, "gone")
    /\ UNCHANGED <<Connecting, Writing, peer, cloud>>

-----------------------------------------------------------------------------
(* Broadcast. *)

(* Mutant of ShouldDeliverEvent: a connection that is being written to is   *)
(* passed over.                                                             *)
ShouldDeliverEventIfIdle(b, c) == UserOf[b] \in {"", UserOf[c]} /\ lock[c] = None

(* shouldDeliverEvent. *)
ShouldDeliverEvent(b, c) == UserOf[b] \in {"", UserOf[c]}

(* The subscribers are copied under the read lock.                          *)
Broadcast(b) ==
    /\ writer[b] = Free /\ count[b] < MaxEvents
    /\ count' = [count EXCEPT ![b] = @ + 1]
    /\ Turn(b, [pc |-> "next", frame |-> [from |-> b, n |-> count[b] + 1], todo |-> subscribed, to |-> None])
    /\ UNCHANGED <<server, subscribed, Connecting, lock, wire, peer, broken, cloud>>

(* OnEvent of the next one, in any order.                                   *)
OnEvent(b) ==
    /\ writer[b].pc = "next"
    /\ \/ /\ writer[b].todo = {}
          /\ Turn(b, Free)
       \/ \E c \in writer[b].todo :
            Turn(b, [writer[b] EXCEPT !.todo = @ \ {c}, !.to = c,
                                      !.pc = IF ShouldDeliverEvent(b, c) THEN "wait" ELSE "next"])
    /\ UNCHANGED <<server, subscribed, Connecting, lock, wire, peer, broken, count, cloud>>

-----------------------------------------------------------------------------
(* The transports. *)

Done(w) == Turn(w, IF w \in Casters THEN [writer[w] EXCEPT !.pc = "next", !.to = None] ELSE Free)

Acquire(w) ==
    /\ writer[w].pc = "wait" /\ lock[writer[w].to] = None
    /\ lock' = [lock EXCEPT ![writer[w].to] = w]
    /\ Turn(w, [writer[w] EXCEPT !.pc = "write"])
    /\ UNCHANGED <<server, subscribed, Connecting, wire, peer, broken, count, cloud>>

Usable(c) == peer[c] # "lost" /\ c \notin broken /\ server[c] # "gone"

Release(w) == lock' = [lock EXCEPT ![writer[w].to] = None] /\ Done(w)

(* WriteTextMessage of either transport: there is room, or the connection   *)
(* is of no use any more.                                                   *)
WriteTextMessage(w) ==
    /\ writer[w].pc = "write"
    /\ LET c == writer[w].to IN
       \/ /\ Usable(c) /\ Len(wire[c]) < Buffer
          /\ wire' = [wire EXCEPT ![c] = Append(@, writer[w].frame)]
       \/ /\ ~Usable(c)
          /\ UNCHANGED wire
    /\ Release(w)
    /\ UNCHANGED <<server, subscribed, Connecting, peer, broken, count, cloud>>

(* Mutant of HasDeadline: a WebSocket has none either. *)
HasDeadlineNever(c) == c \notin Clients

(* SetWriteDeadline is called by webSocketTransport only. *)
HasDeadline(c) == c \in Sockets

(* The ten seconds are over.                                                *)
WriteTimesOut(w) ==
    /\ writer[w].pc = "write" /\ HasDeadline(writer[w].to)
    /\ Usable(writer[w].to) /\ Len(wire[writer[w].to]) = Buffer
    /\ broken' = broken \cup {writer[w].to}
    /\ Release(w)
    /\ UNCHANGED <<server, subscribed, Connecting, wire, peer, count, cloud>>

-----------------------------------------------------------------------------
(* The client of the cloud. *)

CloudSteps == <<server, subscribed, Connecting, Writing>>
StreamsLost == peer' = [c \in Clients |-> IF c \in Streams /\ server[c] # "new" THEN "lost" ELSE peer[c]]

(* connectLoop: it is checked whether the client was closed, then the       *)
(* server is called, and greeted; either may fail.                          *)
ConnectLoop ==
    /\ cloud.pc = "dial"
    /\ \/ cloud.closed /\ cloud' = [cloud EXCEPT !.pc = "ended"]
       \/ /\ ~cloud.closed /\ cloud.sessions < MaxSessions
          /\ cloud' = [cloud EXCEPT !.pc = "handshake", !.sessions = @ + 1]
    /\ UNCHANGED <<CloudSteps, peer>>

ReceiveHandshake ==
    /\ cloud.pc = "handshake"
    /\ \E pc \in {"mux", "dial"} : cloud' = [cloud EXCEPT !.pc = pc]
    /\ UNCHANGED <<CloudSteps, peer>>

(* Mutant of MayKeep: closed was checked before the server was called. *)
MayKeepUnchecked == TRUE

(* The session is kept, under the mutex, unless the client was closed.      *)
MayKeep == ~cloud.closed

Connect ==
    /\ cloud.pc = "mux"
    /\ cloud' = IF MayKeep THEN [cloud EXCEPT !.pc = "session", !.session = TRUE]
                ELSE [cloud EXCEPT !.pc = "dial"]
    /\ UNCHANGED <<CloudSteps, peer>>

(* AcceptStream fails.                                                      *)
Disconnected ==
    /\ cloud.pc = "session"
    /\ cloud' = [cloud EXCEPT !.pc = "dial", !.session = FALSE]
    /\ StreamsLost
    /\ UNCHANGED CloudSteps

Close ==
    /\ ~cloud.closed
    /\ cloud' = [cloud EXCEPT !.closed = TRUE, !.session = FALSE]
    /\ IF cloud.session THEN StreamsLost ELSE UNCHANGED peer
    /\ UNCHANGED CloudSteps

-----------------------------------------------------------------------------
ServeSteps(c) == Subscribe(c) \/ HandleStreamFails(c) \/ ReadMessage(c) \/ Dispatch(c) \/ Responded(c) \/ Unsubscribe(c)
WriteSteps(w) == Acquire(w) \/ WriteTextMessage(w) \/ WriteTimesOut(w)
CastSteps(b) == Broadcast(b) \/ OnEvent(b)
Cloud == ConnectLoop \/ ReceiveHandshake \/ Connect \/ Disconnected \/ Close

Next ==
    \/ \E c \in Clients : ServeSteps(c) \/ PeerReads(c) \/ PeerFails(c) \/ \E r \in Requests : PeerSends(c, r)
    \/ \E w \in Writers : WriteSteps(w)
    \/ \E b \in Casters : CastSteps(b)
    \/ Cloud

Spec == Init /\ [][Next]_vars

(* Goroutines go on; peers need not read.                                   *)
Fairness ==
    /\ \A w \in Writers : WF_vars(WriteSteps(w))
    /\ \A b \in Casters : WF_vars(OnEvent(b))

FairSpec == Spec /\ Fairness

-----------------------------------------------------------------------------
TypeOK ==
    /\ \A c \in Clients : server[c] \in {"new", "read", "handle", "respond", "gone"}
    /\ subscribed \subseteq Clients
    /\ \A c \in Clients : Len(inbox[c]) <= MaxSends /\ Len(wire[c]) <= Buffer /\ seen[c] \subseteq Requests
    /\ \A c \in Clients : lock[c] \in Writers \cup {None} /\ peer[c] \in {"reads", "stalls", "lost"}
    /\ broken \subseteq Sockets
    /\ \A w \in Writers : writer[w].pc \in {"free", "next", "wait", "write"}
    /\ \A b \in Casters : count[b] \in 0..MaxEvents
    /\ cloud.pc \in {"dial", "handshake", "mux", "session", "ended"}

Delivered(c, b) == SelectSeq(received[c] \o wire[c], LAMBDA frame : frame.from = b)

Unanswered(c) == server[c] = "handle" \/ (server[c] = "respond" /\ writer[c] # Free)

(* A client gets the events of a goroutine in their order and without a     *)
(* gap, from the first one broadcast after it was subscribed; when the      *)
(* goroutine is done, to the latest one, as long as the connection is of    *)
(* use.  Every request that was read is answered once, in order.            *)
EventsComplete ==
    \A c \in Clients :
        /\ \A b \in Casters :
             LET events == Delivered(c, b) IN
             /\ \A i \in 1..(Len(events) - 1) : events[i + 1].n = events[i].n + 1
             /\ events # <<>> /\ Usable(c) /\ writer[b] = Free => Last(events).n = count[b]
        /\ Usable(c) => Len(Delivered(c, c)) + (IF Unanswered(c) THEN 1 ELSE 0) = Cardinality(seen[c])

(* Once the client of the cloud is closed it has no session, also when it   *)
(* was closed while it called the server; and no stream is left in use.     *)
ClosedHasNoSession ==
    cloud.closed => ~cloud.session /\ \A c \in Streams : server[c] \in {"new", "gone"} \/ peer[c] = "lost"

(* A broadcast, and the response to a request, come to an end, whatever the *)
(* peers do.                                                                *)
DeliveryGoesOn == \A w \in Writers : writer[w] # Free ~> writer[w] = Free
=============================================================================
