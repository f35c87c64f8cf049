-------------------------------- MODULE Tabs --------------------------------
(***************************************************************************)
(* The tab tool: browser tabs that overlays attach to a conversation over  *)
(* their WebSocket connections, the broker of attachments and pending tool *)
(* calls, the calls of runs, and the connections themselves with the       *)
(* session tracker and their subscription to events.  One user.            *)
(*                                                                         *)
(* The requests of one connection are handled one after the other; those   *)
(* of several connections, and the calls, interleave.  The broker's mutex  *)
(* makes each of its methods a step.                                       *)
(***************************************************************************)
EXTENDS Integers, FiniteSets, Sequences, FiniteSetsExt

CONSTANTS
    Connections,  \* WebSocket connections; one is opened once
    Keys,         \* agent and conversation, for which a tab can be attached
    Calls,        \* calls of the tab tool
    Sessions      \* sessions the connections are of

None == "none"

VARIABLES
    state,       \* a connection: "new", "open", "closed"
    sessionOf,   \* the session a connection was opened with
    count,       \* SessionTracker.sessions
    subscribed,  \* PubSub.subscribers
    attachment,  \* TabBroker.attachments: the connection, for each key
    pending,     \* TabBroker.pending: the calls
    handler,     \* what a connection's handler still has to do
    call,        \* a call: where it is, its key and the attachment it was for
    channel,     \* what was ever sent on a call's resultChan
    received     \* the connections that were sent a call's command and did not answer

vars == <<state, sessionOf, count, subscribed, attachment, pending, handler, call, channel, received>>

connections == <<state, sessionOf, count, subscribed>>
Idle == [pc |-> "idle"]

Init ==
    /\ state = [c \in Connections |-> "new"]
    /\ sessionOf \in [Connections -> Sessions]
    /\ count = [s \in Sessions |-> 0]
    /\ subscribed = {}
    /\ attachment = [k \in Keys |-> None]
    /\ pending = {}
    /\ handler = [c \in Connections |-> Idle]
    /\ call = [i \in Calls |-> [pc |-> "new", key |-> None, for |-> None]]
    /\ channel = [i \in Calls |-> <<>>]
    /\ received = [i \in Calls |-> {}]

-----------------------------------------------------------------------------
(* Connections: serve and what it defers. *)

MarkConnected(s) == count' = [count EXCEPT ![s] = @ + 1]
MarkDisconnected(s) == count' = [count EXCEPT ![s] = IF @ > 0 THEN @ - 1 ELSE @]

Serve(c) ==
    /\ state[c] = "new"
    /\ state' = [state EXCEPT ![c] = "open"]
    /\ MarkConnected(sessionOf[c])
    /\ subscribed' = subscribed \cup {c}
    /\ UNCHANGED <<sessionOf, attachment, pending, handler, call, channel, received>>

Send(i, value) == channel' = [channel EXCEPT ![i] = Append(@, value)]
SendAll(is, value) == channel' = [i \in Calls |-> IF i \in is THEN Append(channel[i], value) ELSE channel[i]]
PendingOf(ks) == {i \in pending : call[i].key \in ks}

(* Mutant of DetachAllForConnection: the attachments stay. *)
CancelAllForConnection(c) ==
    LET ks == {k \in Keys : attachment[k] = c} IN
    /\ pending' = pending \ PendingOf(ks)
    /\ SendAll(PendingOf(ks), "extension disconnected")
    /\ UNCHANGED attachment

(* DetachAllForConnection: the attachments of the connection, and the       *)
(* pending calls for them.                                                  *)
DetachAllForConnection(c) ==
    LET ks == {k \in Keys : attachment[k] = c} IN
    /\ attachment' = [k \in Keys |-> IF k \in ks THEN None ELSE attachment[k]]
    /\ pending' = pending \ PendingOf(ks)
    /\ SendAll(PendingOf(ks), "extension disconnected")

(* ReadMessage fails: the deferred functions, last one first. *)
ServeEnds(c) ==
    /\ state[c] = "open" /\ handler[c] = Idle
    /\ DetachAllForConnection(c)
    /\ handler' = [handler EXCEPT ![c] = [pc |-> "unsubscribe"]]
    /\ state' = [state EXCEPT ![c] = "closed"]
    /\ UNCHANGED <<sessionOf, count, subscribed, call, received>>

Unsubscribe(c) ==
    /\ handler[c].pc = "unsubscribe"
    /\ handler' = [handler EXCEPT ![c] = Idle]
    /\ subscribed' = subscribed \ {c}
    /\ MarkDisconnected(sessionOf[c])
    /\ UNCHANGED <<state, sessionOf, attachment, pending, call, channel, received>>

-----------------------------------------------------------------------------
(* Requests of an overlay. *)

(* handleTabAttach.  Who is displaced is told so by an event.  A connection *)
(* that attaches another tab of its own displaces itself.                   *)
HandleTabAttach(c, k) ==
    /\ state[c] = "open" /\ handler[c] = Idle
    /\ attachment' = [attachment EXCEPT ![k] = c]
    /\ \/ /\ attachment[k] # None
          /\ handler' = [handler EXCEPT ![c] = [pc |-> "cancel", key |-> k]]
       \/ /\ attachment[k] \in {None, c}
          /\ UNCHANGED handler
    /\ UNCHANGED <<connections, pending, call, channel, received>>

(* handleTabDetach: only the owner of the attachment removes it. *)
HandleTabDetach(c, k) ==
    /\ state[c] = "open" /\ handler[c] = Idle
    /\ attachment[k] = c
    /\ attachment' = [attachment EXCEPT ![k] = None]
    /\ handler' = [handler EXCEPT ![c] = [pc |-> "cancel", key |-> k]]
    /\ UNCHANGED <<connections, pending, call, channel, received>>

(* CancelPendingForAttachment, a second step of either handler. *)
CancelPendingForAttachment(c) ==
    /\ handler[c].pc = "cancel"
    /\ pending' = pending \ PendingOf({handler[c].key})
    /\ SendAll(PendingOf({handler[c].key}), "tab detached")
    /\ handler' = [handler EXCEPT ![c] = Idle]
    /\ UNCHANGED <<connections, attachment, call, received>>

(* Mutant of Resolve: the entry stays for a second answer. *)
ResolveKeeps(i) ==
    IF i \in pending THEN Send(i, "result") /\ UNCHANGED pending ELSE UNCHANGED <<pending, channel>>

(* Resolve: an answer to a call that is not pending is an error. *)
Resolve(i) ==
    IF i \in pending THEN pending' = pending \ {i} /\ Send(i, "result")
    ELSE UNCHANGED <<pending, channel>>

(* handleTabCommandResult: an overlay that has the tab answers. *)
HandleTabCommandResult(c, i) ==
    /\ state[c] = "open" /\ handler[c] = Idle
    /\ c \in received[i]
    /\ received' = [received EXCEPT ![i] = @ \ {c}]
    /\ Resolve(i)
    /\ UNCHANGED <<connections, attachment, handler, call>>

-----------------------------------------------------------------------------
(* A call of the tool. *)

Move(i, pc) == call' = [call EXCEPT ![i].pc = pc]

(* Execute looks for the attachment; without one it ends. *)
GetAttachment(i, k) ==
    /\ call[i].pc = "new"
    /\ call' = [call EXCEPT ![i] =
          [pc |-> IF attachment[k] = None THEN "done" ELSE "checked", key |-> k, for |-> attachment[k]]]
    /\ UNCHANGED <<connections, attachment, pending, handler, channel, received>>

(* Arguments that do not fit the action end it too. *)
InvalidArguments(i) ==
    /\ call[i].pc = "checked"
    /\ Move(i, "done")
    /\ UNCHANGED <<connections, attachment, pending, handler, channel, received>>

RegisterPending(i) ==
    /\ call[i].pc = "checked"
    /\ pending' = pending \cup {i}
    /\ Move(i, "registered")
    /\ UNCHANGED <<connections, attachment, handler, channel, received>>

(* Broadcast takes the subscribers of now; the overlay without the tab does *)
(* not answer.                                                              *)
BroadcastCommand(i) ==
    /\ call[i].pc = "registered"
    /\ received' = [received EXCEPT ![i] = subscribed]
    /\ Move(i, "waiting")
    /\ UNCHANGED <<connections, attachment, pending, handler, channel>>

ResultArrives(i) ==
    /\ call[i].pc = "waiting" /\ channel[i] # <<>>
    /\ Move(i, "done")
    /\ UNCHANGED <<connections, attachment, pending, handler, channel, received>>

(* The run's context is done, then CancelPending. *)
ContextDone(i) ==
    /\ call[i].pc = "waiting"
    /\ Move(i, "cancelling")
    /\ UNCHANGED <<connections, attachment, pending, handler, channel, received>>

CancelPending(i) ==
    /\ call[i].pc = "cancelling"
    /\ IF i \in pending THEN pending' = pending \ {i} /\ Send(i, "closed")
       ELSE UNCHANGED <<pending, channel>>
    /\ Move(i, "done")
    /\ UNCHANGED <<connections, attachment, handler, received>>

(* An overlay goes away from the page, or its tab is not the one that was   *)
(* asked: it never answers.                                                 *)
NeverAnswers(c, i) ==
    /\ c \in received[i]
    /\ received' = [received EXCEPT ![i] = @ \ {c}]
    /\ UNCHANGED <<connections, attachment, pending, handler, call, channel>>

-----------------------------------------------------------------------------
ConnectionStep(c) == CancelPendingForAttachment(c) \/ Unsubscribe(c)
CallStep(i) == InvalidArguments(i) \/ RegisterPending(i) \/ BroadcastCommand(i) \/ ResultArrives(i) \/ CancelPending(i)

Next ==
    \/ \E c \in Connections :
        \/ Serve(c) \/ ServeEnds(c) \/ ConnectionStep(c)
        \/ \E k \in Keys : HandleTabAttach(c, k) \/ HandleTabDetach(c, k)
        \/ \E i \in Calls : HandleTabCommandResult(c, i) \/ NeverAnswers(c, i)
    \/ \E i \in Calls :
        \/ \E k \in Keys : GetAttachment(i, k)
        \/ CallStep(i) \/ ContextDone(i)

Spec == Init /\ [][Next]_vars

(* Goroutines that are not waiting go on.  Users need not abort a run, nor  *)
(* overlays answer.                                                         *)
FairSpec ==
    /\ Spec
    /\ \A c \in Connections : WF_vars(ConnectionStep(c))
    /\ \A i \in Calls : WF_vars(CallStep(i))

-----------------------------------------------------------------------------
(* Properties. *)

TypeOK ==
    /\ state \in [Connections -> {"new", "open", "closed"}]
    /\ sessionOf \in [Connections -> Sessions]
    /\ count \in [Sessions -> 0..Cardinality(Connections)]
    /\ subscribed \subseteq Connections
    /\ attachment \in [Keys -> Connections \cup {None}]
    /\ pending \subseteq Calls
    /\ \A c \in Connections : handler[c].pc \in {"idle", "cancel", "unsubscribe"}
    /\ \A i \in Calls : call[i].pc \in {"new", "checked", "registered", "waiting", "cancelling", "done"}

(* Resolve, CancelPending, DetachAllForConnection and                       *)
(* CancelPendingForAttachment race: exactly one of them answers a call.  A  *)
(* second answer would block in DetachAllForConnection with the broker's    *)
(* mutex held, or panic on a closed channel.                                *)
AnsweredOnce ==
    \A i \in Calls :
        /\ Len(channel[i]) <= 1
        /\ i \in pending => channel[i] = <<>> /\ call[i].pc \in {"registered", "waiting", "cancelling"}

(* serve's deferred functions, in their order: nothing is attached to a     *)
(* connection that is gone, and its session counts the connections it has.  *)
GoneLeavesNothing ==
    /\ \A k \in Keys : attachment[k] # None => state[attachment[k]] = "open"
    /\ \A s \in Sessions : count[s] = Cardinality({c \in subscribed : sessionOf[c] = s})

(* web/src/extension/overlay/Overlay.tsx:440-443, "If nobody responds, the  *)
(* server-side context timeout cancels the pending call."                   *)
CallEnds == \A i \in Calls : call[i].pc = "waiting" ~> call[i].pc = "done"

(* rpc_tab.go:91-93, "This prevents a stale connection's cleanup from       *)
(* disrupting a newer attachment": what a detach cancels was for it.        *)
CancelsItsOwn ==
    [][\A c \in Connections : CancelPendingForAttachment(c) =>
        \A i \in pending \ pending' : call[i].for = c \/ attachment[call[i].key] \in {None, c}]_vars
=============================================================================
