------------------------------- MODULE Prompt -------------------------------
(***************************************************************************)
(* The transcript of one conversation, the prompt runners.Runner builds    *)
(* from it before every request to the model, and compaction, which puts a *)
(* summary in the place of old messages (internal/runners).                *)
(*                                                                         *)
(* The store only ever appends messages; a run works on the history it     *)
(* loaded when it started and appends to its own copy what it saves.       *)
(* What the model keeps of a message is its role, the tool calls it makes  *)
(* or answers and its identifier; texts and token counts are left out, so  *)
(* whether a prompt is too long is a nondeterministic choice, and so is    *)
(* how far a minimum number of tokens widens the kept tail.                *)
(***************************************************************************)
EXTENDS Integers, Sequences, FiniteSets, SequencesExt

CONSTANTS
    StoreKeepsIds,  \* does the store keep the id of a message (dbstore) or make one (fsstore)?
    StoreKeepsMetadata, \* does a summary's metadata survive a load (dbstore) or not (fsstore)?
    MayDegrade,     \* may the summarizer fall back to a few recent turns?
    MidRun,         \* may user messages arrive during a run?
    Overlays,       \* number of system messages appended to every prompt
    KeepRound,      \* messages kept by the compression of a round (10 in the code)
    KeepRetry,      \* messages kept by the retry of a too long request (6)
    KeepTool,       \* messages kept by CompactConversation (2)
    FallbackTurns,  \* messages whose text a degraded summary holds (8)
    MaxRetries,     \* maxContextRetries
    MaxCalls,       \* bound: tool calls of one assistant message
    MaxRows         \* bound: messages in the conversation

ASSUME PromptAssumption ==
    /\ StoreKeepsIds \in BOOLEAN /\ StoreKeepsMetadata \in BOOLEAN
    /\ MayDegrade \in BOOLEAN /\ MidRun \in BOOLEAN
    /\ Overlays \in Nat /\ KeepTool \in Nat \ {0} /\ FallbackTurns \in Nat
    /\ KeepRetry \in Nat /\ KeepRound \in Nat
    /\ Overlays < KeepRetry /\ KeepRetry <= KeepRound
    /\ MaxRetries \in Nat /\ MaxCalls \in Nat \ {0} /\ MaxRows \in Nat \ {0}

VARIABLES
    conversation, \* the stored messages, in order
    history,      \* the run's own copy: loaded at its start, then appended to
    prompt,       \* the messages of the request that is outstanding
    phase,        \* where the run is
    pending,      \* tool calls of the round without a result
    retries,      \* contextRetries
    failed        \* the request a compaction was to shorten (history variable)

vars == <<conversation, history, prompt, phase, pending, retries, failed>>

NoId == 0
NoCall == <<0, 0>>

(* A message.  row is its position in the conversation, 0 for one that is   *)
(* in a prompt only; id is the identifier the program sees, which for a     *)
(* stored message is its row.  resume and recorded are the metadata of a    *)
(* summary; covers, for the properties, the rows the summarizer has read.   *)
Message(role) ==
    [role |-> role, calls |-> 0, call |-> NoCall, stop |-> "", resume |-> NoId,
     recorded |-> FALSE, covers |-> {}, row |-> 0, id |-> NoId]

IsSummary(m) == m.role = "system" /\ m.stop = "context_summary"
CallIds(m) == {<<m.row, k>> : k \in 1..m.calls}

(* The elements of s at the given indices, in their order.                  *)
Kept(s, indices) == FlattenSeq([j \in DOMAIN s |-> IF j \in indices THEN <<s[j]>> ELSE <<>>])

-----------------------------------------------------------------------------
(* Where the verbatim transcript resumes.                                   *)

findLastSummaryIndex(h) == Max({0} \cup {i \in DOMAIN h : IsSummary(h[i])})

(* The indices of h at which the resume point recorded on summary s lies;   *)
(* none when nothing was recorded or the message it names is not there.     *)
recordedResumeIndex(h, s) ==
    IF ~h[s].recorded THEN {}
    ELSE IF h[s].resume = NoId THEN {s + 1}
    ELSE {i \in DOMAIN h : h[i].id = h[s].resume}

(* The walk past fragments of a turn that died: to the next user message,   *)
(* or behind the next message with a terminal stop reason.                  *)
skipOrphanedTurnFragments(h, start) ==
    LET IsUser(i) == h[i].role = "user"
        Terminal(i) == h[i].stop \notin {"", "tool_calls", "context_summary"}
        ends == {i \in start..Len(h) : IsUser(i) \/ Terminal(i)}
    IN  IF ends = {} THEN start
        ELSE IF IsUser(Min(ends)) THEN Min(ends)
        ELSE Min(ends) + 1

latestUserMessageIndex(h) ==
    LET users == {i \in DOMAIN h : h[i].role = "user"}
    IN  IF users = {} THEN Len(h) + 1 ELSE Max(users)

(* Mutant: the whole history is replayed, summary or not.                   *)
replayedStartIndex(h) == 1

(* The index the transcript resumes at: recorded, or guessed from where the *)
(* summary stands and then pulled back to the latest user message.          *)
summaryStartIndex(h) ==
    LET s == findLastSummaryIndex(h)
        recorded == recordedResumeIndex(h, s)
    IN  IF s = 0 THEN 1
        ELSE IF recorded # {} THEN Min(recorded)
        ELSE Min({skipOrphanedTurnFragments(h, s + 1), latestUserMessageIndex(h)})

-----------------------------------------------------------------------------
(* The prompt.                                                              *)

(* Mutant: interrupted tool calls stay unanswered.                          *)
unfixedToolCalls(ms) == ms

(* The calls of assistant message ms[i] that no result in its turn answers. *)
unanswered(ms, i) ==
    LET turn == i+1..Min({j \in i+1..Len(ms) : ms[j].role \in {"assistant", "user"}}
                           \cup {Len(ms) + 1}) - 1
        answered == {ms[j].call : j \in {k \in turn : ms[k].role = "tool"}}
        calls == [k \in 1..ms[i].calls |-> <<ms[i].row, k>>]
    IN  Kept(calls, {k \in DOMAIN calls : calls[k] \notin answered})

(* A synthetic result for each, where the results behind ms[i] end.         *)
synthetic(ms, i) ==
    [n \in DOMAIN unanswered(ms, i) |-> [Message("tool") EXCEPT !.call = unanswered(ms, i)[n]]]

insertAt(ms, i) == Min({j \in i+1..Len(ms) : ms[j].role # "tool"} \cup {Len(ms) + 1})

fixInterruptedToolCalls(ms) ==
    LET before(j) == {i \in 1..j : ms[i].role = "assistant" /\ insertAt(ms, i) = j + 1}
    IN  FlattenSeq([j \in DOMAIN ms |->
            <<ms[j]>> \o (IF before(j) = {} THEN <<>> ELSE synthetic(ms, Max(before(j))))])

(* Tool results go when no message before them announced their call.        *)
dropUnpairedToolResults(ms) ==
    LET announced(j) == UNION {CallIds(ms[i]) : i \in 1..j}
    IN  Kept(ms, {j \in DOMAIN ms : ms[j].role = "tool" => ms[j].call \in announced(j)})

(* System prompt, the summary as a header, the transcript from start on     *)
(* without summary messages, then the two repairs.                          *)
assembleMessages(h, start) ==
    LET s == findLastSummaryIndex(h)
        header == IF s = 0 THEN <<>> ELSE <<[h[s] EXCEPT !.id = NoId]>>
        rest == SubSeq(h, start, Len(h))
        transcript == Kept(rest, {j \in DOMAIN rest : ~IsSummary(rest[j])})
    IN  dropUnpairedToolResults(fixInterruptedToolCalls(
            <<Message("system")>> \o header \o transcript))

hasTranscript(ms) == \E i \in DOMAIN ms : ms[i].role # "system"

(* The whole history again when the cut leaves nothing to answer.           *)
buildMessages(h) ==
    LET messages == assembleMessages(h, summaryStartIndex(h))
    IN  (IF hasTranscript(messages) THEN messages ELSE assembleMessages(h, 1))
        \o [n \in 1..Overlays |-> Message("system")]

-----------------------------------------------------------------------------
(* Compaction.                                                              *)

(* Mutant: the split ignores tool call pairs.                               *)
unsafeKeepBoundary(ms, minKeep) == IF Len(ms) <= minKeep THEN 0 ELSE Len(ms) - minKeep

(* How many messages go, at least minKeep staying: the largest number that  *)
(* splits neither between two results nor between a call and its results.   *)
findKeepBoundary(ms, minKeep) ==
    IF Len(ms) <= minKeep THEN 0
    ELSE Max({0} \cup {i \in 1..Len(ms) - minKeep :
                          /\ ms[i + 1].role # "tool"
                          /\ ~(ms[i].role = "assistant" /\ ms[i].calls > 0)})

(* The possible lengths of the prefix to cut, system prompt included: the   *)
(* safe boundary, with widen moved by any number of messages to keep enough *)
(* tokens, and made safe again.                                             *)
computeKeepBoundary(ms, minKeep, widen) ==
    LET first == findKeepBoundary(Tail(ms), minKeep) + 1
        expanded == IF widen THEN 1..first ELSE {first}
    IN  {findKeepBoundary(Tail(ms), Len(ms) - k) + 1 : k \in expanded}

(* Mutant: the newest kept message instead of the oldest.                   *)
findNewestKeptId(h, kept) ==
    LET hits == {i \in DOMAIN h : h[i].id # NoId /\ \E m \in ToSet(kept) : m.id = h[i].id}
    IN  IF hits = {} THEN NoId ELSE h[Max(hits)].id

findResumeFromMessageId(h, kept) ==
    LET hits == {i \in DOMAIN h : h[i].id # NoId /\ \E m \in ToSet(kept) : m.id = h[i].id}
    IN  IF hits = {} THEN NoId ELSE h[Min(hits)].id

(* What a summary of prefix has read: all of it and what summaries in it    *)
(* have, or, when it degraded, the last turns.                              *)
Read(prefix, degraded) ==
    (IF degraded
       THEN {m.row : m \in ToSet(SubSeq(prefix, Max({1, Len(prefix) - FallbackTurns + 1}),
                                        Len(prefix)))}
       ELSE UNION {{m.row} \cup m.covers : m \in ToSet(prefix)}) \ {0}

(* The summary message of prefix that summarizeAndPersist appends; one that *)
(* degraded records no coverage.                                            *)
summaryMessage(h, prefix, kept, degraded) ==
    [Message("system") EXCEPT
        !.stop = "context_summary",
        !.resume = findResumeFromMessageId(h, kept),
        !.recorded = ~degraded,
        !.covers = Read(prefix, degraded)]

(* appendConversationMessage: the store's copy, as a load returns it.  It   *)
(* carries the store's id; the file store takes the metadata of a message   *)
(* without tool calls and usage, which is what a summary is, for an old     *)
(* envelope of other fields, and drops it.                                  *)
Stored(m) ==
    [m EXCEPT !.row = Len(conversation) + 1, !.id = Len(conversation) + 1,
              !.resume = IF StoreKeepsMetadata THEN m.resume ELSE NoId,
              !.recorded = StoreKeepsMetadata /\ m.recorded]

HasRoom == Len(conversation) < MaxRows

(* compressContext of the prompt ms past the threshold: ms is cut at k, the *)
(* summary is saved and takes the place of what was cut.                    *)
compressContext(ms, k, degraded) ==
    LET kept == SubSeq(ms, k + 1, Len(ms))
        summary == Stored(summaryMessage(history, SubSeq(ms, 2, k), kept, degraded))
    IN  [saved |-> summary,
         messages |-> dropUnpairedToolResults(
                          <<ms[1], [summary EXCEPT !.id = NoId]>> \o kept)]

Degradations == IF MayDegrade THEN BOOLEAN ELSE {FALSE}

-----------------------------------------------------------------------------
(* A run.                                                                   *)

Init ==
    /\ conversation = <<>>
    /\ history = <<>>
    /\ prompt = <<>>
    /\ phase = "idle"
    /\ pending = {}
    /\ retries = 0
    /\ failed = <<>>

(* executeRun saves the user's message and loads the conversation.          *)
StartRun ==
    /\ phase = "idle"
    /\ HasRoom
    /\ conversation' = Append(conversation, Stored(Message("user")))
    /\ history' = conversation'
    /\ phase' = "top"
    /\ retries' = 0
    /\ UNCHANGED <<prompt, pending, failed>>

(* A mid-run message is saved at the top of a round, or behind an answer    *)
(* without tool calls.  appendConversationMessage gives an id to its copy   *)
(* only, so the one in the history has none.                                *)
MidRunMessage ==
    /\ MidRun
    /\ phase \in {"top", "last"}
    /\ HasRoom
    /\ conversation' = Append(conversation, Stored(Message("user")))
    /\ history' = Append(history, [Stored(Message("user")) EXCEPT !.id = NoId])
    /\ phase' = "top"
    /\ UNCHANGED <<prompt, pending, retries, failed>>

(* The prompt of a round: short enough, or compaction failed ...            *)
BuildPrompt ==
    /\ phase = "top"
    /\ phase' = "sent"
    /\ prompt' = buildMessages(history)
    /\ UNCHANGED <<conversation, history, pending, retries, failed>>

(* ... or compressed; the summary is saved, the history stays as it is.     *)
BuildCompressedPrompt ==
    /\ phase = "top"
    /\ HasRoom
    /\ LET ms == buildMessages(history) IN
       \E k \in computeKeepBoundary(ms, KeepRound, TRUE), degraded \in Degradations :
          LET result == compressContext(ms, k, degraded) IN
          /\ k > 1
          /\ conversation' = Append(conversation, result.saved)
          /\ prompt' = result.messages
    /\ phase' = "sent"
    /\ UNCHANGED <<history, pending, retries, failed>>

(* Mutant: every rejected request is retried.                               *)
RetryAlways == TRUE

RetryAllowed == retries < MaxRetries

(* The provider rejects the request as too long: it is compressed again,    *)
(* and the loop goes on with the next round, which builds its own prompt.   *)
ContextLengthError ==
    /\ phase = "sent"
    /\ RetryAllowed
    /\ retries' = retries + 1
    /\ phase' = "top"
    /\ prompt' = <<>>
    /\ \/ /\ failed' = <<>>
          /\ UNCHANGED conversation
       \/ /\ HasRoom
          /\ \E k \in computeKeepBoundary(prompt, KeepRetry, TRUE), degraded \in Degradations :
                /\ k > 1
                /\ conversation' = Append(conversation,
                                          compressContext(prompt, k, degraded).saved)
          /\ failed' = prompt
    /\ UNCHANGED <<history, pending>>

(* The model answers with calls tool calls; the assistant message is saved  *)
(* under the id it has in the history, which only one of the stores keeps.  *)
(* The provider's stop reason is independent of the calls: "stop" is any    *)
(* that ends a turn, "tool_calls" the one that does not, or none at all.    *)
(* The identifiers of tool calls, the provider's, are taken to be distinct. *)
Respond(calls, stop) ==
    LET answer == [Message("assistant") EXCEPT !.calls = calls, !.stop = stop]
        stored == Stored(answer)
    IN
    /\ phase = "sent"
    /\ HasRoom
    /\ conversation' = Append(conversation, stored)
    /\ history' = Append(history, IF StoreKeepsIds THEN stored
                                  ELSE [stored EXCEPT !.id = -stored.row])
    /\ pending' = CallIds(stored)
    /\ phase' = IF calls = 0 THEN "last" ELSE "tools"
    /\ retries' = 0
    /\ failed' = <<>>
    /\ prompt' = <<>>

(* The result of a tool call, refused, denied or executed, is saved.        *)
ToolResult(c) ==
    LET result == [Message("tool") EXCEPT !.call = c] IN
    /\ phase = "tools"
    /\ HasRoom
    /\ conversation' = Append(conversation, Stored(result))
    /\ history' = Append(history, [Stored(result) EXCEPT !.id = NoId])
    /\ pending' = pending \ {c}
    /\ UNCHANGED <<prompt, phase, retries, failed>>

(* The round is over: calls of unknown tools, and those behind one whose    *)
(* approval was interrupted, stay without a result.                         *)
EndRound ==
    /\ phase = "tools"
    /\ phase' = "top"
    /\ pending' = {}
    /\ UNCHANGED <<conversation, history, prompt, retries, failed>>

(* The run returns: finished, failed, aborted, or gone with its process.    *)
EndRun ==
    /\ phase # "idle"
    /\ phase' = "idle"
    /\ history' = <<>>
    /\ prompt' = <<>>
    /\ pending' = {}
    /\ failed' = <<>>
    /\ UNCHANGED <<conversation, retries>>

(* CompactConversation, as a tool of the running round or between two runs: *)
(* it works on the stored messages.                                         *)
CompactConversation ==
    /\ phase = "idle" \/ (phase = "tools" /\ pending # {})
    /\ conversation # <<>> /\ HasRoom
    /\ LET ms == buildMessages(conversation) IN
       \E k \in computeKeepBoundary(ms, KeepTool, FALSE), degraded \in Degradations :
          /\ k > 1
          /\ conversation' = Append(conversation,
                Stored(summaryMessage(conversation, SubSeq(ms, 2, k),
                                      SubSeq(ms, k + 1, Len(ms)), degraded)))
    /\ UNCHANGED <<history, prompt, phase, pending, retries, failed>>

(* The bound on the conversation is reached.                                *)
AtBound ==
    /\ phase = "idle"
    /\ ~HasRoom
    /\ UNCHANGED vars

Next ==
    \/ StartRun
    \/ MidRunMessage
    \/ BuildPrompt
    \/ BuildCompressedPrompt
    \/ ContextLengthError
    \/ \E calls \in 0..MaxCalls, stop \in {"tool_calls", "stop"} : Respond(calls, stop)
    \/ \E c \in pending : ToolResult(c)
    \/ EndRound
    \/ EndRun
    \/ CompactConversation
    \/ AtBound

Spec == Init /\ [][Next]_vars

-----------------------------------------------------------------------------
(* What the prompt must be, whatever was interrupted, cut or compacted.     *)

MessageType ==
    [role : {"user", "assistant", "tool", "system"}, calls : 0..MaxCalls,
     call : (0..MaxRows) \X (0..MaxCalls),
     stop : {"", "stop", "tool_calls", "context_summary"},
     resume : -MaxRows..MaxRows, recorded : BOOLEAN, covers : SUBSET (1..MaxRows),
     row : 0..MaxRows, id : -MaxRows..MaxRows]

(* The variables keep their types, a stored message sits at its own row,    *)
(* and a run has saved everything its history holds.                        *)
TypeOK ==
    /\ \A n \in DOMAIN conversation : conversation[n] \in MessageType
                                      /\ conversation[n].row = n /\ conversation[n].id = n
    /\ \A n \in DOMAIN history : [history[n] EXCEPT !.id = history[n].row]
                                    = conversation[history[n].row]
    /\ \A n \in DOMAIN prompt : prompt[n] \in MessageType
    /\ phase \in {"idle", "top", "sent", "tools", "last"}
    /\ pending \subseteq (1..MaxRows) \X (1..MaxCalls)
    /\ retries \in 0..MaxRetries

(* Providers reject anything else: in every request, behind an assistant    *)
(* message with tool calls comes exactly one result for each of them, and a *)
(* tool result is nowhere else.                                             *)
PromptPaired ==
    LET Block(i) == {j \in i+1..Len(prompt) : \A k \in i+1..j : prompt[k].role = "tool"} IN
    /\ \A i \in DOMAIN prompt : prompt[i].role = "assistant" =>
          /\ {prompt[j].call : j \in Block(i)} = CallIds(prompt[i])
          /\ Cardinality(Block(i)) = prompt[i].calls
    /\ \A j \in DOMAIN prompt : prompt[j].role = "tool" =>
          \E i \in 1..j-1 : prompt[i].role = "assistant" /\ j \in Block(i)

(* Every request carries something to answer: without it the model replies  *)
(* with a tool call and the run spins to its last round.                    *)
PromptAnswerable == phase = "sent" => hasTranscript(prompt)

Header == {m \in ToSet(prompt) : IsSummary(m)}
InPrompt == {m.row : m \in ToSet(prompt)}
Summarized == UNION {m.covers : m \in Header}

(* The rows of the conversation that the model is neither shown nor told of.*)
Lost(role) ==
    {m.row : m \in {x \in ToSet(history) : x.role = role}} \ (InPrompt \cup Summarized)

(* Compaction never loses a message: what the run's history holds is in the *)
(* request, verbatim or in a summary that read it.                          *)
NothingLost ==
    phase = "sent" => \A role \in {"user", "assistant", "tool"} : Lost(role) = {}

(* Nor does it repeat one: what the summary stands for is not replayed.     *)
NoReplay == phase = "sent" => InPrompt \cap Summarized \subseteq {0}

-----------------------------------------------------------------------------
(* What a comment, a document or a test says and the code does not do.      *)

(* CHANGELOG.md: a conversation no longer loses the user's question when    *)
(* its context is compacted mid-turn.                                       *)
QuestionsSurvive == phase = "sent" => Lost("user") = {}

(* compact_summary_cut_test.go: the verbatim tail includes the assistant's  *)
(* own final answer, which the summary does not hold.                       *)
AnswersSurvive == phase = "sent" => Lost("assistant") = {}

(* compact.go: compaction by the tool never keeps zero messages, the        *)
(* calling turn needs one for its own tool result to pair against.          *)
ResultsSurvive == phase = "sent" => Lost("tool") = {}

(* compact.go: the resume point is exactly what the next round needs to     *)
(* know, so the next round works with it.                                   *)
NextRoundResumes ==
    phase = "sent" =>
        \A s \in ToSet(conversation) : IsSummary(s) /\ s.recorded =>
            \E m \in Header : m.row >= s.row

(* runner.go: context length exceeded, compacting and retrying: the request *)
(* that follows is not the one that was too long.                           *)
RetryIsCompacted == phase = "sent" /\ failed # <<>> => prompt # failed
=============================================================================
