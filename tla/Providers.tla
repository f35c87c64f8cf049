----------------------------- MODULE Providers ------------------------------
(***************************************************************************)
(* The model providers, as the runner uses them: a round translates the    *)
(* prompt to the provider's format, opens a stream, and assembles the      *)
(* message from the events that a reader goroutine sends it over a bounded *)
(* channel.  The message joins the conversation, and so goes back to the   *)
(* provider in the next round's request.                                   *)
(*                                                                         *)
(* A text is a sequence of tokens.  What a server answers is a sequence of *)
(* blocks, each a text or a call in pieces; how it is cut into lines is    *)
(* the provider's.  A line stands for an "event:" line with its "data:"    *)
(* line; lines that are neither are left out, for they are skipped.        *)
(***************************************************************************)
EXTENDS Integers, Sequences, SequencesExt, TLC

CONSTANTS
    Names,         \* of the providers: "anthropic", "gemini", "openai"
    Conversations, \* transcripts that runs start from
    Overlays,      \* system messages that end every prompt
    Replies,       \* what a server may answer: [blocks, stop]
    Capacity,      \* of the channel of events (32)
    MaxRounds      \* requests of a run

VARIABLES
    name,      \* the provider
    dialog,    \* the transcript
    request,   \* the request of the round: [system, turns]
    reply,     \* the server's answer to it
    body,      \* the response body: [lines, end]
    sse,       \* the reader goroutine
    stream,    \* the channel: [events, closed]
    runner,    \* the round in executeRun
    ctx,       \* "live" or "canceled"
    said       \* replies that were received whole, for the properties

vars == <<name, dialog, request, reply, body, sse, stream, runner, ctx, said>>

-----------------------------------------------------------------------------
(* Messages and their translation. *)

NoId == <<>>
Text(data) == [type |-> "text", id |-> NoId, name |-> "", data |-> data]
Message(role, parts, calls) == [role |-> role, parts |-> parts, calls |-> calls, id |-> NoId, name |-> ""]
Say(role, data) == Message(role, <<Text(data)>>, <<>>)
Result(call, data) == [Say("tool", data) EXCEPT !.id = call.id, !.name = call.name]

Datas(blocks) == [i \in DOMAIN blocks |-> blocks[i].data]
OfType(blocks, type) == SelectSeq(blocks, LAMBDA b : b.type = type)

ContentText(message) == FlattenSeq(Datas(OfType(message.parts, "text")))

(* An image that is a data URI goes inline, any other by its address.       *)
TranslateImagePart(part) ==
    IF part.name = "data" THEN [part EXCEPT !.type = "inline"] ELSE [part EXCEPT !.type = "linked"]

OrEmpty(blocks) == IF blocks = <<>> THEN <<Text(<<>>)>> ELSE blocks

UserBlocks(message) ==
    OrEmpty([i \in DOMAIN message.parts |->
                IF message.parts[i].type = "image" THEN TranslateImagePart(message.parts[i]) ELSE message.parts[i]])

Input(call) == IF call.data = <<>> THEN <<"{}">> ELSE call.data

(* Mutant of AssistantBlocks: a message with calls leaves out its text. *)
AssistantBlocksCallsOnly(message, keyed) ==
    IF message.calls # <<>>
    THEN [i \in DOMAIN message.calls |->
            [type |-> "call", id |-> IF keyed THEN message.calls[i].id ELSE NoId,
             name |-> message.calls[i].name, data |-> Input(message.calls[i])]]
    ELSE OrEmpty(<<Text(ContentText(message))>>)

(* translateAssistantMessage, translateAssistantParts: the text comes       *)
(* first, if there is one; Gemini's calls have no id.                       *)
AssistantBlocks(message, keyed) ==
    OrEmpty(
        (IF ContentText(message) = <<>> THEN <<>> ELSE <<Text(ContentText(message))>>)
        \o [i \in DOMAIN message.calls |->
              [type |-> "call", id |-> IF keyed THEN message.calls[i].id ELSE NoId,
               name |-> message.calls[i].name, data |-> Input(message.calls[i])]])

ResultBlocks(message, keyed) ==
    <<[type |-> "result", id |-> IF keyed THEN message.id ELSE NoId,
       name |-> IF keyed THEN "" ELSE message.name, data |-> ContentText(message)]>>

TranslateMessage(message, keyed) ==
    CASE message.role = "assistant" -> [role |-> "assistant", blocks |-> AssistantBlocks(message, keyed)]
      [] message.role = "tool" -> [role |-> "user", blocks |-> ResultBlocks(message, keyed)]
      [] OTHER -> [role |-> "user", blocks |-> UserBlocks(message)]

(* Mutant of MergeTurn: every message is a turn of its own. *)
MergeTurnNever(turns, turn) == Append(turns, turn)

(* mergeMessages: turns of one role that follow each other become one. *)
MergeTurn(turns, turn) ==
    IF turns # <<>> /\ Last(turns).role = turn.role
    THEN [turns EXCEPT ![Len(turns)].blocks = @ \o turn.blocks]
    ELSE Append(turns, turn)

Turns(messages, keyed) ==
    FoldLeft(LAMBDA turns, m : MergeTurn(turns, TranslateMessage(m, keyed)), <<>>, messages)

IsSystem(message) == message.role = "system"
NotSystem(message) == ~IsSystem(message)

(* extractSystemAndMessages: the leading system messages are the request's  *)
(* system blocks, later ones become messages of the user.                   *)
AnthropicRequest(messages) ==
    LET first == SelectInSeq(messages, NotSystem)
        leading == IF first = 0 THEN Len(messages) ELSE first - 1
        Demoted(m) == IF IsSystem(m) THEN Say("user", <<"[System]">> \o ContentText(m)) ELSE m
        rest == SubSeq(messages, leading + 1, Len(messages))
    IN [system |-> [i \in 1..leading |-> Text(ContentText(messages[i]))],
        turns |-> Turns([i \in DOMAIN rest |-> Demoted(rest[i])], TRUE)]

(* translateMessages: every system message is part of the instruction. *)
GeminiRequest(messages) ==
    LET system == SelectSeq(messages, IsSystem)
    IN [system |-> [i \in DOMAIN system |-> Text(ContentText(system[i]))],
        turns |-> Turns(SelectSeq(messages, NotSystem), FALSE)]

(* ChatMessage.MarshalJSON: the messages themselves are the request. *)
OpenAIRequest(messages) ==
    LET Calls(m) == [i \in DOMAIN m.calls |-> [m.calls[i] EXCEPT !.type = "call"]]
        Content(m) == IF m.role = "tool" THEN ResultBlocks(m, TRUE) ELSE m.parts
    IN [system |-> <<>>,
        turns |-> [i \in DOMAIN messages |->
                     [role |-> messages[i].role, blocks |-> Content(messages[i]) \o Calls(messages[i])]]]

TranslateRequest(messages) ==
    CASE name = "anthropic" -> AnthropicRequest(messages)
      [] name = "gemini" -> GeminiRequest(messages)
      [] name = "openai" -> OpenAIRequest(messages)

(* What buildLLMMessages makes of the transcript. *)
PromptOf(transcript) == <<Say("system", <<"prompt">>)>> \o transcript \o Overlays

-----------------------------------------------------------------------------
(* Responses. *)

Call(id, tool, data) == [type |-> "call", id |-> id, name |-> tool, data |-> data]

(* What a server calls the reason to stop. *)
WireStop ==
    [anthropic |-> [end |-> "end_turn", calls |-> "tool_use", length |-> "max_tokens", refused |-> "refusal"],
     gemini |-> [end |-> "STOP", calls |-> "STOP", length |-> "MAX_TOKENS", refused |-> "SAFETY"],
     openai |-> [end |-> "stop", calls |-> "tool_calls", length |-> "length", refused |-> "content_filter"]]
StopOf(answer) == WireStop[name][answer.stop]

TranslateStopReason(reason) ==
    CASE reason = "end_turn" -> "stop"
      [] reason = "tool_use" -> "tool_calls"
      [] reason = "max_tokens" -> "length"
      [] OTHER -> reason

TranslateFinishReason(reason) ==
    CASE reason = "MAX_TOKENS" -> "length"
      [] reason = "SAFETY" -> "content_filter"
      [] OTHER -> "stop"

Usage(answer) == [prompt |-> 2, completion |-> Len(answer.blocks) + 1]

(* Gemini gives its calls no id; they get one from the name of the tool. *)
CallId(block) == <<"call", block.name>>

(* The message of an answer that comes in one piece: ChatCompletion, with   *)
(* translateResponse of the provider.                                       *)
Whole(answer, keyed, reason) ==
    LET calls == OfType(answer.blocks, "call")
        Joined(block) == Call(IF keyed THEN block.id ELSE CallId(block), block.name,
                              Input([block EXCEPT !.data = FlattenSeq(@)]))
    IN [text |-> FlattenSeq(FlattenSeq(Datas(OfType(answer.blocks, "text")))),
        calls |-> [i \in DOMAIN calls |-> Joined(calls[i])],
        stop |-> reason,
        usage |-> Usage(answer)]

AnthropicResponse(answer) == Whole(answer, TRUE, TranslateStopReason(StopOf(answer)))
GeminiResponse(answer) == Whole(answer, FALSE, TranslateFinishReason(StopOf(answer)))
OpenAIResponse(answer) == Whole(answer, TRUE, StopOf(answer))

TranslateResponse(answer) ==
    CASE name = "anthropic" -> AnthropicResponse(answer)
      [] name = "gemini" -> GeminiResponse(answer)
      [] name = "openai" -> OpenAIResponse(answer)

(* An event of the stream: a chunk with what it adds, an error, the end.    *)
NoCall == [index |-> -1, id |-> NoId, name |-> "", data |-> <<>>]
NoUsage == [prompt |-> 0, completion |-> 0]
Chunk == [kind |-> "chunk", text |-> <<>>, call |-> NoCall, stop |-> "", usage |-> NoUsage]
Done == [Chunk EXCEPT !.kind = "done"]
Failed == [Chunk EXCEPT !.kind = "error"]
Delta(index, id, tool, data) == [index |-> index, id |-> id, name |-> tool, data |-> data]

-----------------------------------------------------------------------------
(* How a server cuts its answer into lines. *)

Line == [event |-> "", index |-> -1, block |-> "", id |-> NoId, name |-> "", parts |-> <<>>, stop |-> "",
         usage |-> NoUsage]

(* message_start, the blocks one after the other, message_delta,            *)
(* message_stop.                                                            *)
AnthropicLines(answer) ==
    LET OfBlock(i) ==
            LET block == answer.blocks[i]
                Piece(k) == [Line EXCEPT !.event = "content_block_delta", !.index = i - 1, !.parts = block.data[k]]
            IN <<[Line EXCEPT !.event = "content_block_start", !.index = i - 1, !.block = block.type,
                              !.id = block.id, !.name = block.name]>>
               \o [k \in DOMAIN block.data |-> Piece(k)]
    IN <<[Line EXCEPT !.event = "message_start", !.usage.prompt = Usage(answer).prompt]>>
       \o FlattenSeq([i \in DOMAIN answer.blocks |-> OfBlock(i)])
       \o <<[Line EXCEPT !.event = "message_delta", !.stop = StopOf(answer),
                         !.usage.completion = Usage(answer).completion],
            [Line EXCEPT !.event = "message_stop"]>>

(* A chunk for every block, the pieces of a text as parts of it, and one    *)
(* with the reason to stop.  All of them have the usage so far.             *)
GeminiLines(answer) ==
    LET PartsOf(block) ==
            IF block.type = "text" THEN [k \in DOMAIN block.data |-> Text(block.data[k])]
            ELSE <<Call(NoId, block.name, FlattenSeq(block.data))>>
        last == Len(answer.blocks) + 1
    IN [i \in 1..last |->
          [Line EXCEPT !.parts = IF i = last THEN <<>> ELSE PartsOf(answer.blocks[i]),
                       !.stop = IF i = last THEN StopOf(answer) ELSE "",
                       !.usage = [prompt |-> Usage(answer).prompt, completion |-> i]]]

(* Deltas, where a call has its number among the calls, the usage, [DONE].  *)
OpenAILines(answer) ==
    LET Number(i) == Len(OfType(SubSeq(answer.blocks, 1, i - 1), "call"))
        OfBlock(i) ==
            LET block == answer.blocks[i]
            IN IF block.type = "text"
               THEN [k \in DOMAIN block.data |-> [Line EXCEPT !.parts = block.data[k]]]
               ELSE <<[Line EXCEPT !.block = "call", !.index = Number(i), !.id = block.id, !.name = block.name]>>
                    \o [k \in DOMAIN block.data |->
                          [Line EXCEPT !.block = "call", !.index = Number(i), !.parts = block.data[k]]]
    IN FlattenSeq([i \in DOMAIN answer.blocks |-> OfBlock(i)])
       \o <<[Line EXCEPT !.stop = StopOf(answer)], [Line EXCEPT !.usage = Usage(answer)],
            [Line EXCEPT !.event = "[DONE]"]>>

Lines(answer) ==
    CASE name = "anthropic" -> AnthropicLines(answer)
      [] name = "gemini" -> GeminiLines(answer)
      [] name = "openai" -> OpenAILines(answer)

-----------------------------------------------------------------------------
(* The reader goroutine: readSse. *)

NewReader == [pc |-> "reading", outbox |-> <<>>, blocks |-> <<>>, calls |-> 0, usage |-> NoUsage]

Emit(events) == [sse EXCEPT !.outbox = events]
Return(events) == [sse EXCEPT !.outbox = events, !.pc = "returning"]

(* The lines of one event; the kind of every block is kept for its deltas.  *)
AnthropicLine(line) ==
    CASE line.event = "message_start" ->
            Emit(IF line.usage.prompt > 0 THEN <<[Chunk EXCEPT !.usage = line.usage]>> ELSE <<>>)
      [] line.event = "content_block_start" ->
            [Emit(IF line.block = "call"
                  THEN <<[Chunk EXCEPT !.call = Delta(line.index, line.id, line.name, <<>>)]>>
                  ELSE <<>>) EXCEPT !.blocks = (line.index :> line.block) @@ @]
      [] line.event = "content_block_delta" ->
            Emit(CASE line.index \notin DOMAIN sse.blocks -> <<>>
                   [] sse.blocks[line.index] = "text" -> <<[Chunk EXCEPT !.text = line.parts]>>
                   [] sse.blocks[line.index] = "call" ->
                        <<[Chunk EXCEPT !.call = Delta(line.index, NoId, "", line.parts)]>>)
      [] line.event = "message_delta" ->
            Emit(<<[Chunk EXCEPT !.stop = TranslateStopReason(line.stop), !.usage = line.usage]>>)
      [] line.event = "message_stop" -> Return(<<Done>>)

(* The events of the parts, and of the reason to stop.  A call has the      *)
(* number of calls before it; of the usage, the last one is kept.           *)
GeminiLine(line) ==
    LET Before(i) == Len(OfType(SubSeq(line.parts, 1, i - 1), "call"))
        OfPart(i) ==
            LET part == line.parts[i]
            IN CASE part.type = "call" ->
                        <<[Chunk EXCEPT !.call = Delta(sse.calls + Before(i), CallId(part), part.name, Input(part))]>>
                 [] part.data # <<>> -> <<[Chunk EXCEPT !.text = part.data]>>
                 [] OTHER -> <<>>
    IN [Emit(FlattenSeq([i \in DOMAIN line.parts |-> OfPart(i)])
             \o (IF line.stop = "" THEN <<>> ELSE <<[Chunk EXCEPT !.stop = TranslateFinishReason(line.stop)]>>))
          EXCEPT !.calls = @ + Before(Len(line.parts) + 1), !.usage = line.usage]

(* The chunks are the server's. *)
OpenAILine(line) ==
    IF line.event = "[DONE]" THEN Return(<<Done>>)
    ELSE Emit(<<[Chunk EXCEPT !.text = IF line.block = "" THEN line.parts ELSE <<>>,
                              !.call = IF line.block = "call"
                                       THEN Delta(line.index, line.id, line.name, line.parts) ELSE NoCall,
                              !.stop = line.stop, !.usage = line.usage]>>)

(* A line that does not parse ends the stream. *)
ReadLine ==
    /\ sse.pc = "reading" /\ sse.outbox = <<>>
    /\ body.lines # <<>> /\ ctx = "live"
    /\ LET line == Head(body.lines)
       IN sse' = CASE line.event = "garbled" -> Return(<<Failed>>)
                   [] line.event # "garbled" /\ name = "anthropic" -> AnthropicLine(line)
                   [] line.event # "garbled" /\ name = "gemini" -> GeminiLine(line)
                   [] line.event # "garbled" /\ name = "openai" -> OpenAILine(line)
    /\ body' = [body EXCEPT !.lines = Tail(@)]
    /\ UNCHANGED <<name, dialog, request, reply, stream, runner, ctx, said>>

(* What is sent after the last line.  Gemini's stream has no last event: it *)
(* is done when it ends, however it ends.                                   *)
EndEvents(fails) ==
    (IF name = "gemini"
     THEN (IF sse.usage # NoUsage THEN <<[Chunk EXCEPT !.usage = sse.usage]>> ELSE <<>>) \o <<Done>>
     ELSE <<>>)
    \o (IF fails THEN <<Failed>> ELSE <<>>)

EndOfBody ==
    /\ sse.pc = "reading" /\ sse.outbox = <<>>
    /\ body.lines = <<>>
    /\ sse' = Return(EndEvents(body.fails))
    /\ UNCHANGED <<name, dialog, request, reply, body, stream, runner, ctx, said>>

(* Once the context is canceled a line that was read is not looked at, and  *)
(* another cannot be read.                                                  *)
ReadCanceled ==
    /\ sse.pc = "reading" /\ sse.outbox = <<>>
    /\ ctx = "canceled"
    /\ sse' \in {Return(<<>>), Return(EndEvents(TRUE))}
    /\ UNCHANGED <<name, dialog, request, reply, body, stream, runner, ctx, said>>

(* Sending waits for room in the channel, and for nothing else. *)
SendEvent ==
    /\ sse.outbox # <<>>
    /\ Len(stream.events) < Capacity
    /\ stream' = [stream EXCEPT !.events = Append(@, Head(sse.outbox))]
    /\ sse' = [sse EXCEPT !.outbox = Tail(@)]
    /\ UNCHANGED <<name, dialog, request, reply, body, runner, ctx, said>>

CloseStream ==
    /\ sse.pc = "returning" /\ sse.outbox = <<>>
    /\ sse' = [sse EXCEPT !.pc = "closed"]
    /\ stream' = [stream EXCEPT !.closed = TRUE]
    /\ UNCHANGED <<name, dialog, request, reply, body, runner, ctx, said>>

-----------------------------------------------------------------------------
(* The server, and whoever aborts the run. *)

(* The answer breaks off, with or without an error, or has a bad line. *)
ServerFails ==
    /\ sse.pc = "reading" /\ body.lines # <<>>
    /\ body' \in {[lines |-> <<>>, fails |-> fails, cut |-> TRUE] : fails \in BOOLEAN}
                 \cup {[lines |-> <<[Line EXCEPT !.event = "garbled"]>>, fails |-> FALSE, cut |-> TRUE]}
    /\ UNCHANGED <<name, dialog, request, reply, sse, stream, runner, ctx, said>>

Cancel ==
    /\ ctx = "live" /\ runner.pc # "done"
    /\ ctx' = "canceled"
    /\ UNCHANGED <<name, dialog, request, reply, body, sse, stream, runner, said>>

-----------------------------------------------------------------------------
(* The runner. *)

NewRound(round, stop) ==
    [pc |-> "request", round |-> round, text |-> <<>>, calls |-> <<>>, usage |-> NoUsage, stop |-> stop,
     outcome |-> "none"]

(* ChatCompletionStream: an error, or a stream and its reader. *)
Open ==
    /\ runner.pc = "request"
    /\ request' = TranslateRequest(PromptOf(dialog))
    /\ \/ /\ runner' = [runner EXCEPT !.pc = "done", !.outcome = "failed"]
          /\ UNCHANGED <<reply, body, sse, stream>>
       \/ /\ ctx = "live"
          /\ \E answer \in Replies :
                /\ reply' = answer
                /\ body' = [lines |-> Lines(answer), fails |-> FALSE, cut |-> FALSE]
          /\ sse' = NewReader
          /\ stream' = [events |-> <<>>, closed |-> FALSE]
          /\ runner' = [runner EXCEPT !.pc = "collect"]
    /\ UNCHANGED <<name, dialog, ctx, said>>

(* Mutant of WithDelta: a delta replaces what the call had. *)
WithDeltaReplaces(calls, delta) == (delta.index :> [id |-> delta.id, name |-> delta.name, data |-> delta.data]) @@ calls

(* toolCallMap: deltas of a call are put together by its index.  The name   *)
(* comes in one delta.                                                      *)
WithDelta(calls, delta) ==
    LET old == IF delta.index \in DOMAIN calls THEN calls[delta.index] ELSE [id |-> NoId, name |-> "", data |-> <<>>]
    IN (delta.index :> [id |-> IF delta.id = NoId THEN old.id ELSE delta.id,
                        name |-> IF delta.name = "" THEN old.name ELSE delta.name,
                        data |-> old.data \o delta.data]) @@ calls

Accumulate(chunk) ==
    [runner EXCEPT !.text = @ \o chunk.text,
                   !.calls = IF chunk.call = NoCall THEN @ ELSE WithDelta(@, chunk.call),
                   !.stop = IF chunk.stop = "" THEN @ ELSE chunk.stop,
                   !.usage = [prompt |-> @.prompt + chunk.usage.prompt,
                              completion |-> @.completion + chunk.usage.completion]]

(* The loop over the stream; it is left early by an abort, an error, the    *)
(* last event.                                                              *)
Collect ==
    /\ runner.pc = "collect" /\ stream.events # <<>>
    /\ LET event == Head(stream.events)
       IN runner' = CASE ctx = "canceled" \/ event.kind = "done" -> [runner EXCEPT !.pc = "drain"]
                      [] ctx = "live" /\ event.kind = "error" ->
                            [runner EXCEPT !.pc = "drain", !.outcome = "failed"]
                      [] ctx = "live" /\ event.kind = "chunk" -> Accumulate(event)
    /\ stream' = [stream EXCEPT !.events = Tail(@)]
    /\ UNCHANGED <<name, dialog, request, reply, body, sse, ctx, said>>

CollectClosed ==
    /\ runner.pc = "collect" /\ stream.events = <<>> /\ stream.closed
    /\ runner' = [runner EXCEPT !.pc = "drain"]
    /\ UNCHANGED <<name, dialog, request, reply, body, sse, stream, ctx, said>>

Drain ==
    /\ runner.pc = "drain" /\ stream.events # <<>>
    /\ stream' = [stream EXCEPT !.events = Tail(@)]
    /\ UNCHANGED <<name, dialog, request, reply, body, sse, runner, ctx, said>>

(* Mutant of Drained: the runner does not wait for the channel to close. *)
DrainedAtOnce == runner.pc = "drain"

Drained == runner.pc = "drain" /\ stream.events = <<>> /\ stream.closed

GivesUp ==
    /\ Drained
    /\ runner.outcome = "failed" \/ ctx = "canceled"
    /\ runner' = [runner EXCEPT !.pc = "done", !.outcome = "failed"]
    /\ UNCHANGED <<name, dialog, request, reply, body, sse, stream, ctx, said>>

(* The calls in the order of their indices. *)
Flattened(calls) ==
    LET indices == SetToSortSeq(DOMAIN calls, LAMBDA i, j : i < j)
    IN [k \in DOMAIN indices |->
          Call(calls[indices[k]].id, calls[indices[k]].name, calls[indices[k]].data)]

(* The message is saved.  Calls are answered, a message of the user may     *)
(* come in between, and the next round starts.                              *)
SavesMessage ==
    /\ Drained
    /\ runner.outcome = "none" /\ ctx = "live"
    /\ LET calls == Flattened(runner.calls)
           message == Message("assistant", <<Text(runner.text)>>, calls)
           results == [i \in DOMAIN calls |-> Result(calls[i], <<"result">>)]
       IN \E injected \in {<<>>, <<Say("user", <<"injected">>)>>} :
            /\ injected # <<>> => calls # <<>>
            /\ dialog' = dialog \o <<message>> \o results \o injected
            /\ runner' = IF calls # <<>> /\ runner.round < MaxRounds
                         THEN NewRound(runner.round + 1, runner.stop)
                         ELSE [runner EXCEPT !.pc = "done", !.outcome = "saved"]
    /\ said' = Append(said, [reply |-> reply, whole |-> ~body.cut, broken |-> body.fails,
                             stop |-> runner.stop, usage |-> runner.usage])
    /\ UNCHANGED <<name, request, reply, body, sse, stream, ctx>>

-----------------------------------------------------------------------------
Init ==
    /\ name \in Names
    /\ dialog \in Conversations
    /\ request = [system |-> <<>>, turns |-> <<>>]
    /\ reply = [blocks |-> <<>>, stop |-> "end"]
    /\ body = [lines |-> <<>>, fails |-> FALSE, cut |-> FALSE]
    /\ sse = [NewReader EXCEPT !.pc = "closed"]
    /\ stream = [events |-> <<>>, closed |-> TRUE]
    /\ runner = NewRound(1, "")
    /\ ctx = "live"
    /\ said = <<>>

(* What goes on without the server: the server may be silent for ever, as   *)
(* the client that streams has no time limit.                               *)
ReaderStep == EndOfBody \/ ReadCanceled \/ SendEvent \/ CloseStream
RunnerStep == Collect \/ CollectClosed \/ Drain \/ GivesUp \/ SavesMessage \/ (ctx = "canceled" /\ Open)

Next == ReadLine \/ ReaderStep \/ ServerFails \/ Cancel \/ Open \/ RunnerStep

Spec == Init /\ [][Next]_vars
FairSpec == Spec /\ WF_vars(ReaderStep) /\ WF_vars(RunnerStep)

-----------------------------------------------------------------------------
(* The values of all state. *)
TypeOK ==
    /\ name \in Names
    /\ reply \in Replies \cup {[blocks |-> <<>>, stop |-> "end"]}
    /\ body.fails \in BOOLEAN /\ body.cut \in BOOLEAN
    /\ sse.pc \in {"reading", "returning", "closed"} /\ sse.calls \in Nat
    /\ Len(stream.events) <= Capacity /\ stream.closed \in BOOLEAN
    /\ runner.pc \in {"request", "collect", "drain", "done"}
    /\ runner.round \in 1..MaxRounds /\ runner.outcome \in {"none", "failed", "saved"}
    /\ ctx \in {"live", "canceled"}
    /\ Len(said) <= MaxRounds

Calls(blocks) == OfType(blocks, "call")
Translated == runner.pc = "collect" /\ name # "openai"

(* A request is one the provider accepts: the turns of the two sides        *)
(* alternate, and a turn with calls is followed by one that starts with     *)
(* their results, in order, whatever else was merged into it.               *)
RequestAccepted ==
    Translated =>
    \A i \in DOMAIN request.turns :
        LET turn == request.turns[i]
            calls == Calls(turn.blocks)
        IN /\ turn.blocks # <<>>
           /\ i > 1 => turn.role # request.turns[i - 1].role
           /\ calls # <<>> =>
                /\ i < Len(request.turns)
                /\ Len(request.turns[i + 1].blocks) >= Len(calls)
                /\ \A k \in DOMAIN calls :
                    LET result == request.turns[i + 1].blocks[k]
                    IN /\ result.type = "result"
                       /\ IF name = "gemini" THEN result.name = calls[k].name ELSE result.id = calls[k].id

AllOf(turns) == FlattenSeq([i \in DOMAIN turns |-> turns[i].blocks])
Tokens(blocks) == ToSet(FlattenSeq(Datas(blocks)))

(* Nothing the conversation says is missing from a request, images and      *)
(* late system messages included.                                           *)
RequestComplete ==
    runner.pc = "collect" =>
        Tokens(FlattenSeq([i \in DOMAIN PromptOf(dialog) |-> PromptOf(dialog)[i].parts]))
            \subseteq Tokens(request.system) \cup Tokens(AllOf(request.turns))

(* The messages the run has added, which are the last of the assistant's.   *)
Added ==
    LET spoken == SelectSeq(dialog, LAMBDA m : m.role = "assistant")
    IN SubSeq(spoken, Len(spoken) - Len(said) + 1, Len(spoken))

(* A message that was streamed to its end is the one that would have been   *)
(* received in one piece: text, calls, reason to stop, usage.               *)
StreamedAsAnswered ==
    \A k \in DOMAIN said :
        said[k].whole =>
        LET whole == TranslateResponse(said[k].reply)
            message == Added[k]
        IN /\ ContentText(message) = whole.text
           /\ [i \in DOMAIN message.calls |-> [message.calls[i] EXCEPT !.data = Input(message.calls[i])]] = whole.calls
           /\ said[k].stop = whole.stop
           /\ said[k].usage = whole.usage

(* What the model called for goes back to it as it was: by name and         *)
(* arguments, in order, in the requests that follow.                        *)
CallsReturned ==
    runner.pc = "collect" /\ (\A k \in DOMAIN said : said[k].whole) =>
        LET Shape(calls) == [i \in DOMAIN calls |-> <<calls[i].name, Input(calls[i])>>]
            sent == Shape(Calls(AllOf(request.turns)))
            made == FlattenSeq([k \in DOMAIN said |-> Shape(TranslateResponse(said[k].reply).calls)])
        IN Len(made) <= Len(sent) /\ SubSeq(sent, Len(sent) - Len(made) + 1, Len(sent)) = made

(* A stream that broke off with an error leaves no message.  (Gemini's      *)
(* reader says that it is done before it says that it failed.)              *)
BrokenNotSaved == name # "gemini" => \A k \in DOMAIN said : ~said[k].broken

(* One reader at a time: a round starts after the last one's reader ended.  *)
OneReader == runner.pc \in {"request", "done"} => sse.pc = "closed"

(* An abort ends the round and its reader, whatever the server does, and    *)
(* the end of the response ends the reader.                                 *)
StreamEnds ==
    /\ ctx = "canceled" ~> runner.pc = "done" /\ sse.pc = "closed"
    /\ body.lines = <<>> ~> sse.pc = "closed"
=============================================================================
