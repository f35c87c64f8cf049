----------------------------- MODULE MCProgress -----------------------------
(***************************************************************************)
(* What has to come to an end: commands of the relay, operations of MCP    *)
(* clients, the close of a voice session, the writes of a broadcast, the   *)
(* wait for a certificate, the stream of a model provider, and the runs of *)
(* a conversation.  A behaviour is one of a single part.  The terminals    *)
(* are those of the module it extends, the others are instances.           *)
(***************************************************************************)
EXTENDS Relay

CONSTANTS
    Parts,  \* the parts to explore
    Nil     \* None of module Coordinator

VARIABLES
    part,
    op, cache, process, stdin, stdout, unread, mcpReader, responses, notes,
    mode, turn, audio, captured, gen, fired, barge, currentRun, response, canceled, pending, inflight,
    committed, run, events, fwd, tts, synth, session,
    domain, stored, served, challenge, client, loop, authority, keys, changes,
    server, subscribed, inbox, sends, seen, lock, wire, received, peer, broken, writer, count, cloud,
    name, dialog, request, reply, body, sse, stream, runner, ctx, said,
    pc, inst, target, results, handle, latestRun, activeRunners, tracked, activeRun, previousRunId,
    runnerOf, queue, processing, aborted, runContext, wpc, current, outcome, midRunMessages, transcript,
    pendingAction, lifecycleChan, apc, atarget

mcpVars == <<op, cache, process, stdin, stdout, unread, mcpReader, responses, notes>>
voiceVars == <<mode, turn, audio, captured, gen, fired, barge, currentRun, response, canceled, pending, inflight,
               committed, run, events, fwd, tts, synth, session>>
certificateVars == <<domain, stored, served, challenge, client, loop, authority, keys, changes>>
connectionVars == <<server, subscribed, inbox, sends, seen, lock, wire, received, peer, broken, writer, count,
                    cloud>>
providerVars == <<name, dialog, request, reply, body, sse, stream, runner, ctx, said>>
coordinatorVars == <<pc, inst, target, results, handle, latestRun, activeRunners, tracked, activeRun,
                     previousRunId, runnerOf, queue, processing, aborted, runContext, wpc, current, outcome,
                     midRunMessages, transcript, pendingAction, lifecycleChan, apc, atarget>>
allVars == <<part, vars, mcpVars, voiceVars, certificateVars, connectionVars, providerVars, coordinatorVars>>

-----------------------------------------------------------------------------
(* The parts, with their bounds. *)

McpServer == INSTANCE McpClient
    WITH reader <- mcpReader,
         Transports <- {"stdio", "http"}, Attempts <- 2, MaxPages <- 2, PipeSize <- 1, MaxNotes <- 1

VoiceSession == INSTANCE Voice
    WITH Utterances <- {1}, MaxPending <- 1, QueueSize <- 1, EventSize <- 2, Cancels <- {"vad", "push"}

CertificateManager == INSTANCE Certificates WITH Domains <- {"d", "e"}, MaxKeys <- 5, MaxChanges <- 2

(* WebSocket connections, which write under a deadline. *)
ClientConnections == INSTANCE Connections
    WITH Sockets <- {"c"}, Streams <- {}, Casters <- {"b"}, UserOf <- [c |-> "u", b |-> ""],
         Requests <- {"q"}, Buffer <- 1, MaxEvents <- 2, MaxSends <- 1, MaxSessions <- 0

(* A question, and answers of which one has more events than the channel    *)
(* holds.                                                                   *)
Words == [type |-> "text", id |-> <<>>, name |-> "", data |-> <<<<"a">>, <<"b">>>>]
ToolCall == [type |-> "call", id |-> <<"c1">>, name |-> "look", data |-> <<<<"x">>, <<"y">>>>]
ModelProviders == INSTANCE Providers
    WITH Names <- {"anthropic", "gemini", "openai"}, Overlays <- <<>>,
         Conversations <- {<<[role |-> "user", parts |-> <<[Words EXCEPT !.data = <<"question">>]>>, calls |-> <<>>,
                              id |-> <<>>, name |-> ""]>>},
         Replies <- {[blocks |-> <<>>, stop |-> "end"], [blocks |-> <<Words, ToolCall>>, stop |-> "calls"]},
         Capacity <- 1, MaxRounds <- 1

(* Two messages and an abort, with a store that may fail. *)
RunCoordinator == INSTANCE Coordinator
    WITH runner <- runnerOf,
         Runs <- {"a", "b"}, Compacts <- {}, Aborters <- {"x"}, None <- Nil,
         MayPanic <- FALSE, StoreMayFail <- TRUE, MaySchedule <- TRUE

-----------------------------------------------------------------------------
(* A part that is not explored stays in one initial state. *)
AllInit ==
    /\ part \in Parts
    /\ Init /\ McpServer!Init /\ VoiceSession!Init
    /\ CertificateManager!Init /\ ClientConnections!Init /\ ModelProviders!Init
    /\ RunCoordinator!Init
    /\ part # "voice" => mode = "vad"
    /\ part # "providers" => name = "openai"

(* Terminals, commands and runs are interchangeable: what acts first is     *)
(* named first.                                                             *)
NamedInOrder ==
    /\ socket["t2"] # "none" => socket["t1"] # "none"
    /\ command["k2"].pc # "idle" => command["k1"].pc # "idle"
    /\ pc["b"] # "idle" => pc["a"] # "idle"

AllNext ==
    /\ UNCHANGED part
    /\ IF part = "terminals" THEN Next ELSE UNCHANGED vars
    /\ IF part = "mcp" THEN McpServer!Next ELSE UNCHANGED mcpVars
    /\ IF part = "voice" THEN VoiceSession!Next ELSE UNCHANGED voiceVars
    /\ IF part = "certificates" THEN CertificateManager!Next ELSE UNCHANGED certificateVars
    /\ IF part = "connections" THEN ClientConnections!Next ELSE UNCHANGED connectionVars
    /\ IF part = "providers" THEN ModelProviders!Next ELSE UNCHANGED providerVars
    /\ IF part = "coordinator" THEN RunCoordinator!Next ELSE UNCHANGED coordinatorVars
    /\ NamedInOrder'

(* The fairness each module states for its goroutines, asked of the part    *)
(* that is explored.                                                        *)
RelayIsFair ==
    /\ \A c \in Connections : WF_vars(part = "terminals" /\ ServerStep(c))
    /\ \A k \in Commands : WF_vars(part = "terminals" /\ CommandStep(k))

VoiceIsFair ==
    /\ \A c \in VoiceSession!Callers : WF_voiceVars(part = "voice" /\ VoiceSession!BargeIn(c))
    /\ WF_voiceVars(part = "voice" /\ VoiceSession!TurnSteps(1))
    /\ WF_voiceVars(part = "voice" /\ VoiceSession!StoreFired)
    /\ WF_voiceVars(part = "voice" /\ VoiceSession!LlmEventForwarder)
    /\ WF_voiceVars(part = "voice" /\ VoiceSession!SynthesizeEnds)
    /\ SF_voiceVars(part = "voice" /\ VoiceSession!LoopEnds)
    /\ WF_voiceVars(part = "voice" /\ VoiceSession!CloseReturns)

ServicesAreFair ==
    /\ WF_mcpVars(part = "mcp" /\ McpServer!ClientStep)
    /\ WF_certificateVars(part = "certificates" /\ CertificateManager!Loop)
    /\ WF_certificateVars(part = "certificates" /\ CertificateManager!GetChallengeCertificate)
    /\ \A w \in ClientConnections!Writers :
        WF_connectionVars(part = "connections" /\ ClientConnections!WriteSteps(w))
    /\ WF_connectionVars(part = "connections" /\ ClientConnections!OnEvent("b"))
    /\ WF_providerVars(part = "providers" /\ ModelProviders!ReaderStep)
    /\ WF_providerVars(part = "providers" /\ ModelProviders!RunnerStep)

CoordinatorIsFair ==
    /\ \A r \in RunCoordinator!Requests :
        /\ WF_coordinatorVars(part = "coordinator" /\ RunCoordinator!RequestStep(r))
        /\ WF_coordinatorVars(part = "coordinator" /\ RunCoordinator!Cleanup(r))
        /\ WF_coordinatorVars(part = "coordinator" /\ RunCoordinator!WorkerStep(r))
    /\ WF_coordinatorVars(part = "coordinator" /\ RunCoordinator!AbortLocked("x"))

AllFairSpec ==
    /\ AllInit /\ [][AllNext]_allVars
    /\ RelayIsFair /\ VoiceIsFair /\ ServicesAreFair /\ CoordinatorIsFair

-----------------------------------------------------------------------------
(* Nobody waits for ever: neither a command whose terminal is gone, nor     *)
(* Close of a voice session, nor a broadcast to clients that stopped        *)
(* reading, nor an aborted run or the reader of its stream on a provider    *)
(* that is silent.  Nor an operation on an MCP server that hangs, but for   *)
(* the two waits the transport does not bound: its write to a full pipe,    *)
(* and, after the kill, for descendants of the child that hold its pipes.   *)
WaitsEnd ==
    /\ LostConnectionEndsCommand
    /\ McpServer!OperationEnds
    /\ VoiceSession!CloseEnds
    /\ ClientConnections!DeliveryGoesOn
    /\ part = "providers" => ModelProviders!StreamEnds

(* Every run of a conversation is answered, whatever is injected, aborted   *)
(* or failed to be saved, and a restart that a run schedules is delivered.  *)
RunsSettle == part = "coordinator" => RunCoordinator!RunsSettle

(* When the domain is left alone, a certificate of it comes to be served.   *)
CertificateComes == part = "certificates" => CertificateManager!CertificateComes
=============================================================================
