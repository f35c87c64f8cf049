--------------------------- MODULE MCIntegrations ---------------------------
(***************************************************************************)
(* What the node talks to: clients, browsers, tabs, MCP servers, chats,    *)
(* voice, the steps of a workflow, the update server, the certificate      *)
(* authority, the model providers.  A behaviour is one of a single part:   *)
(* the parts share no state.  The workflow, the updater and the            *)
(* certificates are those of the modules it extends, the others are        *)
(* instances.                                                              *)
(***************************************************************************)
EXTENDS Workflow, Disk

CONSTANT Parts   \* the parts to explore

VARIABLES
    part,
    registered, socket, targets, machine, channels, nextId, reader, command, box, writers, toClient, toServer,
    state, sessionOf, sessions, tabSubscribers, attachment, tabPending, handler, call, channel, tabReceived,
    op, cache, process, stdin, stdout, unread, mcpReader, responses, notes,
    service, origin, chatRun, active, followed, linked, connected, preview, goroutine, chat, limits,
    mode, turn, audio, captured, gen, fired, barge, currentRun, response, canceled, turnQueue, inflight,
    committed, voiceRun, events, fwd, tts, synth, session,
    server, subscribed, inbox, sends, seen, lock, wire, received, peer, broken, writer, count, cloud,
    name, dialog, request, reply, body, sse, stream, runner, ctx, said

relayVars == <<registered, socket, targets, machine, channels, nextId, reader, command, box, writers, toClient,
               toServer>>
tabVars == <<state, sessionOf, sessions, tabSubscribers, attachment, tabPending, handler, call, channel,
             tabReceived>>
mcpVars == <<op, cache, process, stdin, stdout, unread, mcpReader, responses, notes>>
chatVars == <<service, origin, chatRun, active, followed, linked, connected, preview, goroutine, chat, limits>>
voiceVars == <<mode, turn, audio, captured, gen, fired, barge, currentRun, response, canceled, turnQueue, inflight,
               committed, voiceRun, events, fwd, tts, synth, session>>
connectionVars == <<server, subscribed, inbox, sends, seen, lock, wire, received, peer, broken, writer, count,
                    cloud>>
providerVars == <<name, dialog, request, reply, body, sse, stream, runner, ctx, said>>
allVars == <<part, vars, relayVars, tabVars, mcpVars, chatVars, voiceVars, updateVars, certificateVars,
          connectionVars, providerVars>>

-----------------------------------------------------------------------------
(* The parts, with their bounds. *)

(* Loops that share a variable, a switch with a case and a default, one     *)
(* whose case has no steps, a retry, errors that are contained and errors   *)
(* that are not.                                                            *)
Http == [type |-> "http", onError |-> "fail", retries |-> 0, conditional |-> FALSE, as |-> "item",
         steps |-> <<>>, cases |-> {}, default |-> <<>>]
Steps ==
    [loop |-> [Http EXCEPT !.type = "forEach", !.onError = "continue", !.steps = <<"choose">>],
     choose |-> [Http EXCEPT !.type = "switch", !.cases = {<<"get">>}, !.default = <<"inner">>],
     inner |-> [Http EXCEPT !.type = "forEach", !.steps = <<"run">>],
     pick |-> [Http EXCEPT !.type = "switch", !.onError = "continue", !.cases = {<<>>}, !.default = <<"run">>],
     get |-> [Http EXCEPT !.onError = "continue", !.retries = 1],
     run |-> [Http EXCEPT !.type = "shell", !.conditional = TRUE],
     clean |-> Http]
MainSteps == <<"loop", "pick", "run">>
FinallySteps == <<"clean">>

(* The hypothesis of WorkflowProofs. *)
ASSUME WorkflowAssumption == WellFormed

BrowserRelay == INSTANCE Relay
    WITH Terminals <- {}, Extensions <- {"x1", "x2"}, Commands <- {"k1", "k2"},
         EventField <- "parameters", MayPing <- FALSE, MaxWire <- 1

TabBroker == INSTANCE Tabs
    WITH count <- sessions, subscribed <- tabSubscribers, pending <- tabPending, received <- tabReceived,
         Connections <- {"c1", "c2"}, Keys <- {"k1"}, Calls <- {"i1", "i2"}, Sessions <- {"s1"}

McpServer == INSTANCE McpClient
    WITH reader <- mcpReader,
         Transports <- {"stdio", "http"}, Attempts <- 2, MaxPages <- 2, PipeSize <- 1, MaxNotes <- 1

ChatBots == INSTANCE Channels
    WITH channel <- service, run <- chatRun, subscribed <- followed,
         Messages <- {"m1"}, Others <- {"r1"}, MaxDeltas <- 1, MaxLimits <- 1

VoiceSession == INSTANCE Voice
    WITH pending <- turnQueue, run <- voiceRun,
         Utterances <- 1..2, MaxPending <- 1, QueueSize <- 1, EventSize <- 2, Cancels <- {"push"}

Version(number, ahead, pre) == [number |-> number, ahead |-> ahead, pre |-> pre]

(* The node was built from a commit after release 1; release 2 follows its  *)
(* own prerelease.                                                          *)
PublishedVersions == <<Version(1, 0, 0), Version(2, 0, 1), Version(2, 0, 0)>>
BuiltVersion == Version(1, 1, 0)

ClientConnections == INSTANCE Connections
    WITH Sockets <- {}, Streams <- {"s"}, Casters <- {"b", "e"}, UserOf <- [s |-> "u", b |-> "", e |-> "u"],
         Requests <- {"q"}, Buffer <- 1, MaxEvents <- 2, MaxSends <- 2, MaxSessions <- 1

(* A conversation with an image, a call and its result; answers with calls  *)
(* between texts, with two calls of one tool, without arguments, with       *)
(* nothing.                                                                 *)
Part(type, by, data) == [type |-> type, id |-> <<>>, name |-> by, data |-> data]
ChatMessage(role, parts, calls) == [role |-> role, parts |-> parts, calls |-> calls, id |-> <<>>, name |-> ""]
Says(role, data) == ChatMessage(role, <<Part("text", "", data)>>, <<>>)
ToolCall(id, data) == [type |-> "call", id |-> <<id>>, name |-> "look", data |-> data]
Words == Part("text", "", <<<<"a">>, <<"b">>>>)
Dialog ==
    <<ChatMessage("user", <<Part("text", "", <<"question">>), Part("image", "data", <<"picture">>)>>, <<>>),
      [Says("assistant", <<"looking">>) EXCEPT !.calls = <<ToolCall("c0", <<>>)>>],
      [Says("tool", <<"found">>) EXCEPT !.id = <<"c0">>, !.name = "look"],
      Says("assistant", <<"answer">>),
      Says("user", <<"more">>)>>

ModelProviders == INSTANCE Providers
    WITH Names <- {"anthropic", "gemini", "openai"}, Conversations <- {Dialog},
         Overlays <- <<Says("system", <<"overlay">>)>>,
         Replies <- {[blocks |-> <<Words>>, stop |-> "end"],
                     [blocks |-> <<>>, stop |-> "refused"],
                     [blocks |-> <<Words, ToolCall("c1", <<<<"x">>, <<"y">>>>)>>, stop |-> "calls"],
                     [blocks |-> <<ToolCall("c1", <<>>), Words, ToolCall("c2", <<<<"y">>>>)>>, stop |-> "length"]},
         Capacity <- 1, MaxRounds <- 2

-----------------------------------------------------------------------------
(* A part that is not explored stays in one initial state. *)
AllInit ==
    /\ part \in Parts
    /\ Init /\ BrowserRelay!Init /\ TabBroker!Init /\ McpServer!Init /\ ChatBots!Init /\ VoiceSession!Init
    /\ NodeUpdater!Init /\ CertificateManager!Init /\ ClientConnections!Init /\ ModelProviders!Init
    /\ part # "chats" => service = "telegram" /\ origin = [r1 |-> ""]
    /\ part # "voice" => mode = "vad"
    /\ part # "workflow" => kind = "shell"
    /\ part # "updater" => policy = "disabled"
    /\ part # "providers" => name = "openai"

AllNext ==
    /\ UNCHANGED part
    /\ IF part = "workflow" THEN Next ELSE UNCHANGED vars
    /\ IF part = "browsers" THEN BrowserRelay!Next ELSE UNCHANGED relayVars
    /\ IF part = "tabs" THEN TabBroker!Next ELSE UNCHANGED tabVars
    /\ IF part = "mcp" THEN McpServer!Next ELSE UNCHANGED mcpVars
    /\ IF part = "chats" THEN ChatBots!Next ELSE UNCHANGED chatVars
    /\ IF part = "voice" THEN VoiceSession!Next ELSE UNCHANGED voiceVars
    /\ IF part = "updater" THEN NodeUpdater!Next ELSE UNCHANGED updateVars
    /\ IF part = "certificates" THEN CertificateManager!Next ELSE UNCHANGED certificateVars
    /\ IF part = "connections" THEN ClientConnections!Next ELSE UNCHANGED connectionVars
    /\ IF part = "providers" THEN ModelProviders!Next ELSE UNCHANGED providerVars

AllSpec == AllInit /\ [][AllNext]_allVars

-----------------------------------------------------------------------------
(* The values of all state. *)
WellTyped ==
    CASE part = "workflow" -> TypeOK
      [] part = "browsers" -> BrowserRelay!TypeOK
      [] part = "tabs" -> TabBroker!TypeOK
      [] part = "mcp" -> McpServer!TypeOK
      [] part = "chats" -> ChatBots!TypeOK
      [] part = "voice" -> VoiceSession!TypeOK
      [] part = "updater" -> NodeUpdater!TypeOK
      [] part = "certificates" -> CertificateManager!TypeOK
      [] part = "connections" -> ClientConnections!TypeOK
      [] part = "providers" -> ModelProviders!TypeOK

(* What ends leaves nothing behind: no command of a browser that nobody     *)
(* will answer, no tab attached to and no session counted for a connection  *)
(* that is gone, no session with the cloud and no stream of it after Close, *)
(* no reader of a stream after its round.                                   *)
NothingStranded ==
    /\ part = "browsers" => BrowserRelay!NoStrandedCommand
    /\ part = "tabs" => TabBroker!GoneLeavesNothing
    /\ part = "connections" => ClientConnections!ClosedHasNoSession
    /\ part = "providers" => ModelProviders!OneReader

(* Whoever waits for an answer gets one at most, and its own: a command to  *)
(* a browser, a call of the tab tool, an operation of an MCP client, and a  *)
(* chat, which shows the end of a run once; so does a call of the model in  *)
(* the request that follows it, which alternates between the two sides.     *)
AnsweredOnce ==
    /\ part = "browsers" => BrowserRelay!ResultOnce /\ BrowserRelay!AnswersOwnCommand
    /\ part = "tabs" => TabBroker!AnsweredOnce
    /\ part = "mcp" => McpServer!OwnResponse
    /\ part = "chats" => ChatBots!ShownOnce
    /\ part = "providers" => ModelProviders!RequestAccepted

(* Nothing is passed over: no event of a broadcast on a connection that is  *)
(* of use, no answer to a request, no turn of a speaker between the queue   *)
(* and the run it starts, nothing of what a model streams between the       *)
(* provider and the provider's next request, and nothing of a conversation  *)
(* in a request; nor is an answer that failed taken for one.                *)
NothingSkipped ==
    /\ part = "connections" => ClientConnections!EventsComplete
    /\ part = "voice" => VoiceSession!TurnsAccounted
    /\ part = "providers" =>
        /\ ModelProviders!StreamedAsAnswered /\ ModelProviders!CallsReturned
        /\ ModelProviders!RequestComplete /\ ModelProviders!BrokenNotSaved
=============================================================================
