----------------------------- MODULE McpClient ------------------------------
(***************************************************************************)
(* The MCP client: one operation at a time, either the discovery of a      *)
(* server's tools by the manager (cached, retried) or the call of a remote *)
(* tool, each with a client of its own.  Over stdio the client talks to a  *)
(* subprocess it starts: the requests and the responses travel through two *)
(* pipes, a reader goroutine hands the responses over one at a time, and   *)
(* close ends the process.  The command may be a wrapper (npx, sh) whose    *)
(* descendants inherit its pipes and outlive it.  Over HTTP every request   *)
(* is a POST of its own.                                                   *)
(*                                                                         *)
(* A response carries the id of its request, which the transport does not  *)
(* look at: it delivers responses in the order they arrive.                *)
(***************************************************************************)
EXTENDS Integers, Sequences

CONSTANTS
    Transports, \* "stdio" and "http", of the configured servers
    Attempts,   \* Manager.attempts
    MaxPages,   \* pages of a server's list of tools
    PipeSize,   \* messages that stdin holds before the server reads
    MaxNotes    \* messages of its own a server sends

VARIABLES
    op,        \* the operation: its kind, where it is, what it waits for
    cache,     \* whether Manager.cache has a fresh entry
    process,   \* "none", "running", "left": a descendant holds its pipes, "exited"
    stdin,     \* ids of requests written and not read (0: a notification)
    stdout,    \* ids of responses written and not read (0: no response)
    unread,    \* ids of requests the server read and did not answer
    reader,    \* the reader goroutine: "none", "reading", "sending", "done"
    responses, \* the response the reader is sending, 0: none, -1: channel closed
    notes      \* messages of its own the server sent

vars == <<op, cache, process, stdin, stdout, unread, reader, responses, notes>>
pipes == <<process, stdin, stdout, unread, reader, responses, notes>>

NoOp == [kind |-> "none", transport |-> "none", pc |-> "idle", attempt |-> 0,
         id |-> 0, page |-> 0, asked |-> 0, got |-> 0, outcome |-> "none"]

(* NewClient: nothing is started. *)
NewTransport ==
    /\ process' = "none"
    /\ stdin' = [open |-> TRUE, lines |-> <<>>]
    /\ stdout' = [open |-> TRUE, lines |-> <<>>]
    /\ unread' = {}
    /\ reader' = "none"
    /\ responses' = 0
    /\ notes' = 0

Init ==
    /\ op = NoOp
    /\ cache = FALSE
    /\ process = "none"
    /\ stdin = [open |-> TRUE, lines |-> <<>>]
    /\ stdout = [open |-> TRUE, lines |-> <<>>]
    /\ unread = {}
    /\ reader = "none"
    /\ responses = 0
    /\ notes = 0

-----------------------------------------------------------------------------
(* Operations. *)

(* discover and probe: a fresh entry is used, else the server is asked. *)
Discover ==
    /\ op.pc = "idle"
    /\ ~cache
    /\ \E t \in Transports :
        op' = [NoOp EXCEPT !.kind = "probe", !.transport = t, !.pc = "initialize", !.attempt = 1]
    /\ NewTransport
    /\ UNCHANGED cache

(* The entry outlives its time, or belongs to another signature. *)
CacheExpires ==
    /\ cache
    /\ cache' = FALSE
    /\ UNCHANGED <<op, pipes>>

(* toolAdapter.Execute. *)
Execute ==
    /\ op.pc = "idle"
    /\ \E t \in Transports : op' = [NoOp EXCEPT !.kind = "call", !.transport = t, !.pc = "initialize"]
    /\ NewTransport
    /\ UNCHANGED cache

(* The requests of an operation in their order, each sent when the one      *)
(* before has succeeded: Connect, then ListTools or CallTool.  A page of    *)
(* the list names the next one, if there are more.                          *)
AfterOk(more) ==
    CASE op.pc = "await initialize" -> "notify"
      [] op.pc = "notify" -> IF op.kind = "probe" THEN "list" ELSE "call"
      [] op.pc = "await list" -> IF more THEN "list" ELSE "close"
      [] op.pc = "await call" -> "close"

Awaiting(pc) ==
    CASE pc = "initialize" -> "await initialize"
      [] pc = "list" -> "await list"
      [] pc = "call" -> "await call"

(* Mutant of AfterError: Connect goes on after a failed initialize. *)
AfterErrorGoesOn(kind) ==
    IF op.pc = "await initialize" THEN [op EXCEPT !.pc = "notify"]
    ELSE [op EXCEPT !.pc = "close", !.outcome = kind]

(* An error ends the session: every caller returns it, and closes. *)
AfterError(kind) == [op EXCEPT !.pc = "close", !.outcome = kind]

(* ensureStarted: the first request starts the process and the reader. *)
EnsureStarted ==
    /\ process = "none" /\ reader = "none"
    /\ op.pc \in {"initialize", "notify", "list", "call"}
    /\ op.transport = "stdio"
    /\ \/ /\ process' = "running"
          /\ reader' = "reading"
          /\ UNCHANGED op
       \/ /\ op' = AfterError("transient")
          /\ UNCHANGED <<process, reader>>
    /\ UNCHANGED <<cache, stdin, stdout, unread, responses, notes>>

(* write, with the mutex held and no deadline: it waits while the pipe is   *)
(* full, and fails once nobody can read.                                    *)
Blocked == process # "exited" /\ Len(stdin.lines) = PipeSize

Write ==
    /\ op.pc \in {"initialize", "list", "call"}
    /\ reader # "none" /\ ~Blocked
    /\ \/ /\ process # "exited"
          /\ stdin' = [stdin EXCEPT !.lines = Append(@, op.id + 1)]
          /\ op' = [op EXCEPT !.pc = Awaiting(op.pc), !.id = @ + 1]
       \/ /\ process = "exited"
          /\ op' = AfterError("transient")
          /\ UNCHANGED stdin
    /\ UNCHANGED <<cache, process, stdout, unread, reader, responses, notes>>

Notify ==
    /\ op.pc = "notify"
    /\ reader # "none" /\ ~Blocked
    /\ \/ /\ process # "exited"
          /\ stdin' = [stdin EXCEPT !.lines = Append(@, 0)]
          /\ op' = [op EXCEPT !.pc = AfterOk(FALSE)]
       \/ /\ process = "exited"
          /\ op' = AfterError("transient")
          /\ UNCHANGED stdin
    /\ UNCHANGED <<cache, process, stdout, unread, reader, responses, notes>>

(* call: what a response means to the caller. *)
Answered(id) ==
    \/ \E more \in BOOLEAN :
        /\ more => op.pc = "await list" /\ op.page + 1 < MaxPages
        /\ op' = [op EXCEPT !.pc = AfterOk(more), !.asked = op.id, !.got = id,
                            !.page = IF op.pc = "await list" THEN @ + 1 ELSE @,
                            !.outcome = IF AfterOk(more) = "close" THEN "ok" ELSE @]
    \/ op' = [AfterError("permanent") EXCEPT !.asked = op.id, !.got = id]

(* roundTrip: a response from the reader, the end of the responses, or the  *)
(* end of the context, by the server's timeout or the run's.                *)
Receive ==
    /\ op.pc \in {"await initialize", "await list", "await call"}
    /\ reader = "sending" /\ responses > 0
    /\ Answered(responses)
    /\ reader' = "reading" /\ responses' = 0
    /\ UNCHANGED <<cache, process, stdin, stdout, unread, notes>>

ExitError ==
    /\ op.pc \in {"await initialize", "await list", "await call"}
    /\ responses = -1
    /\ op' = AfterError("transient")
    /\ UNCHANGED <<cache, pipes>>

ContextDone ==
    /\ op.pc \in {"await initialize", "await list", "await call"}
    /\ op' = AfterError("permanent")
    /\ UNCHANGED <<cache, pipes>>

(* roundTrip and notify look at the context once, before they start the     *)
(* process and before the write, which no context ends.                     *)
ContextEnded ==
    /\ op.pc \in {"notify", "list", "call"} \/ (op.pc = "initialize" /\ reader = "none")
    /\ op' = AfterError("permanent")
    /\ UNCHANGED <<cache, pipes>>

(* A POST: the response, a status or a broken connection.  isRetryableError *)
(* tells the errors apart.                                                  *)
HttpRoundTrip ==
    /\ op.transport = "http"
    /\ \/ /\ op.pc \in {"initialize", "list", "call"}
          /\ op' = [op EXCEPT !.pc = Awaiting(op.pc), !.id = @ + 1]
       \/ op.pc \in {"await initialize", "await list", "await call"} /\ Answered(op.id)
       \/ op.pc \in {"await initialize", "await list", "await call", "notify"} /\ op' = AfterError("transient")
       \/ op.pc = "notify" /\ op' = [op EXCEPT !.pc = AfterOk(FALSE)]
    /\ UNCHANGED <<cache, pipes>>

-----------------------------------------------------------------------------
(* close. *)

Close ==
    /\ op.pc = "close"
    /\ \/ /\ op.transport = "http" \/ reader = "none"
          /\ op' = [op EXCEPT !.pc = "closed"]
          /\ UNCHANGED stdin
       \/ /\ op.transport = "stdio" /\ reader # "none"
          /\ op' = [op EXCEPT !.pc = "drain"]
          /\ stdin' = [stdin EXCEPT !.open = FALSE]
    /\ UNCHANGED <<cache, process, stdout, unread, reader, responses, notes>>

(* The child ends; what remains are its descendants, or nobody. *)
Exit(remains) ==
    /\ process = "running"
    /\ process' \in remains
    /\ stdout' = [stdout EXCEPT !.open = @ /\ process' = "left"]
    /\ UNCHANGED <<op, cache, stdin, unread, reader, responses, notes>>

(* The waits for the reader and for the process, each with a grace period   *)
(* after which the process is killed.                                       *)
Drained ==
    /\ op.pc = "drain" /\ reader = "done"
    /\ op' = [op EXCEPT !.pc = "reap"]
    /\ UNCHANGED <<cache, pipes>>

Reaped ==
    /\ op.pc = "reap" /\ process = "exited"
    /\ op' = [op EXCEPT !.pc = "closed"]
    /\ process' = "none"
    /\ UNCHANGED <<cache, stdin, stdout, unread, reader, responses, notes>>

(* Mutant of KillAfterGrace: only the first wait is bounded. *)
KillBeforeDrain == op.pc = "drain" /\ Exit({"left", "exited"})

(* The kill reaches the child only.  Its output, and the log writer that    *)
(* command.Wait joins, end when the last holder of the pipes has gone.      *)
KillAfterGrace == op.pc \in {"drain", "reap"} /\ Exit({"left", "exited"})

(* The operation returns; a probe is repeated after a transient error.      *)
Return ==
    /\ op.pc = "closed"
    /\ \/ /\ op.kind = "probe" /\ op.outcome = "transient" /\ op.attempt < Attempts
          /\ op' = [NoOp EXCEPT !.kind = "probe", !.transport = op.transport, !.pc = "initialize",
                                !.attempt = op.attempt + 1]
          /\ NewTransport
          /\ UNCHANGED cache
       \/ /\ op.kind = "call" \/ op.outcome # "transient" \/ op.attempt = Attempts
          /\ op' = NoOp
          /\ cache' = (cache \/ (op.kind = "probe" /\ op.outcome = "ok"))
          /\ UNCHANGED pipes

(* The context ends during the back-off. *)
BackoffInterrupted ==
    /\ op.pc = "closed" /\ op.kind = "probe" /\ op.outcome = "transient" /\ op.attempt < Attempts
    /\ op' = NoOp
    /\ UNCHANGED <<cache, pipes>>

-----------------------------------------------------------------------------
(* readLoop. *)

ReadLine ==
    /\ reader = "reading" /\ stdout.lines # <<>>
    /\ stdout' = [stdout EXCEPT !.lines = Tail(@)]
    /\ IF Head(stdout.lines) = 0
       THEN UNCHANGED <<reader, responses>>
       ELSE reader' = "sending" /\ responses' = Head(stdout.lines)
    /\ UNCHANGED <<op, cache, process, stdin, unread, notes>>

ReadEof ==
    /\ reader = "reading" /\ stdout.lines = <<>> /\ ~stdout.open
    /\ reader' = "done"
    /\ responses' = -1
    /\ UNCHANGED <<op, cache, process, stdin, stdout, unread, notes>>

(* Nobody takes the response any more: done is closed by close. *)
ReaderReleased ==
    /\ reader = "sending" /\ op.pc = "drain"
    /\ reader' = "done"
    /\ responses' = 0
    /\ UNCHANGED <<op, cache, process, stdin, stdout, unread, notes>>

-----------------------------------------------------------------------------
(* The server, external, the child or a descendant of it: it reads and      *)
(* answers when it likes, sends messages of its own, closes its output, or  *)
(* exits.                                                                   *)
Serving == process \in {"running", "left"}

ServerReads ==
    /\ Serving /\ stdin.lines # <<>>
    /\ stdin' = [stdin EXCEPT !.lines = Tail(@)]
    /\ unread' = unread \cup ({Head(stdin.lines)} \ {0})
    /\ UNCHANGED <<op, cache, process, stdout, reader, responses, notes>>

ServerAnswers ==
    /\ Serving /\ stdout.open
    /\ \E id \in unread :
        /\ unread' = unread \ {id}
        /\ stdout' = [stdout EXCEPT !.lines = Append(@, id)]
    /\ UNCHANGED <<op, cache, process, stdin, reader, responses, notes>>

ServerSends ==
    /\ Serving /\ stdout.open /\ notes < MaxNotes
    /\ notes' = notes + 1
    /\ stdout' = [stdout EXCEPT !.lines = Append(@, 0)]
    /\ UNCHANGED <<op, cache, process, stdin, unread, reader, responses>>

ServerStops ==
    \/ Exit({"left", "exited"})
    \/ /\ Serving
       /\ stdout' = [stdout EXCEPT !.open = FALSE]
       /\ process' \in {process} \cup (IF process = "left" THEN {"exited"} ELSE {})
       /\ UNCHANGED <<op, cache, stdin, unread, reader, responses, notes>>

-----------------------------------------------------------------------------
ClientStep ==
    \/ EnsureStarted \/ Write \/ Notify \/ Receive \/ ExitError \/ ContextDone
    \/ HttpRoundTrip \/ Close \/ Drained \/ Reaped \/ KillAfterGrace
    \/ Return \/ BackoffInterrupted
    \/ ReadLine \/ ReadEof \/ ReaderReleased

Next ==
    \/ ClientStep
    \/ Discover \/ Execute \/ CacheExpires \/ ContextEnded
    \/ ServerReads \/ ServerAnswers \/ ServerSends \/ ServerStops

Spec == Init /\ [][Next]_vars

(* The goroutines of the client run and its timers fire; the server owes    *)
(* nothing.                                                                 *)
FairSpec == Spec /\ WF_vars(ClientStep)

-----------------------------------------------------------------------------
TypeOK ==
    /\ op.kind \in {"none", "probe", "call"}
    /\ op.attempt \in 0..Attempts /\ op.page \in 0..MaxPages
    /\ op.outcome \in {"none", "ok", "transient", "permanent"}
    /\ cache \in BOOLEAN
    /\ process \in {"none", "running", "left", "exited"}
    /\ Len(stdin.lines) <= PipeSize /\ unread \subseteq 1..(MaxPages + 2)
    /\ reader \in {"none", "reading", "sending", "done"}
    /\ responses \in -1..(MaxPages + 2)
    /\ notes \in 0..MaxNotes

(* The response an operation takes is the one to the request it waits for,  *)
(* although the stdio transport matches no ids and the server may answer    *)
(* after the timeout: client.go call and transport_stdio.go roundTrip.      *)
OwnResponse == op.got = op.asked

(* Operations keep returning, with no subprocess left behind, unless one    *)
(* waits for ever in one of the two waits that no timeout bounds: a write   *)
(* to a pipe that a living server does not empty, or, after the kill, for   *)
(* descendants that keep the pipes.  A server that hangs in any other way,  *)
(* floods its output or stays after closing it is given up on (roundTrip    *)
(* and close of transport_stdio.go).                                        *)
WriteBlocked == op.pc \in {"initialize", "notify", "list", "call"} /\ Blocked
Orphaned == op.pc \in {"drain", "reap"} /\ process = "left"
OperationEnds ==
    \/ []<>(op.kind = "none" /\ process = "none")
    \/ <>[]WriteBlocked
    \/ <>[]Orphaned

-----------------------------------------------------------------------------
(* What a comment, a document or a test says and the code does not do.      *)

(* transport_stdio.go, close: the process is killed when it has not exited, *)
(* so Close never blocks indefinitely.                                      *)
CloseReturns == op.pc = "close" ~> op.pc = "closed"
=============================================================================
