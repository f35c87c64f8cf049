------------------------------- MODULE Voice -------------------------------
(***************************************************************************)
(* A voice session: what a user says becomes a turn, a turn a run of the   *)
(* agent, and the text of the run speech; new speech interrupts the one    *)
(* that is playing (barge-in).                                             *)
(*                                                                         *)
(* The processes are the loop over the user's audio, a goroutine for each  *)
(* transcription, the forwarder of the run's events, the synthesizer, and  *)
(* the client's requests.  They share the fields under stateMutex, each    *)
(* method of which is a step, two atomic counters and three channels.      *)
(* Runs, transcription and synthesis are external.                         *)
(***************************************************************************)
EXTENDS Integers, Sequences, FiniteSets

CONSTANTS
    Utterances,  \* what the user says, 1..n, spoken in this order
    MaxPending,  \* maxPendingTurns
    QueueSize,   \* of ttsInChannel
    EventSize,   \* of the forwarder's eventChannel
    Cancels      \* the modes in which the client cancels responses: a bound

VARIABLES
    mode,        \* "vad" (serverVad) or "push" to talk
    turn,        \* where each utterance is
    audio,       \* the audio loop: "idle", "store", "speaking", "gone"
    captured,    \* pendingCommitTurnId, or 0
    gen, fired,  \* bargeInGen and bargeInFired
    barge,       \* a call of triggerBargeIn by each caller
    currentRun,  \* currentRunId, a run being named by its utterance, or 0
    response,    \* whether currentResponseId is set
    canceled,    \* canceledRuns
    pending,     \* pendingTurns
    inflight,    \* transcribeInFlight
    committed,   \* committedTurns
    run,         \* of each utterance: "none", "running", "talked", "over"
    events,      \* eventChannel
    fwd,         \* the forwarder
    tts,         \* ttsInChannel: utterances, and 0 for the end of a response
    synth,       \* the synthesizer: "idle", "wait", "synth", "gone"
    session      \* "open", "closing", "closed"

audioVars == <<audio, captured, gen, fired>>
bargeVars == <<barge, canceled>>
runVars == <<run, events>>
playVars == <<tts, synth, response>>
turnVars == <<pending, inflight, committed>>
vars == <<mode, turn, audioVars, bargeVars, currentRun, turnVars, runVars, fwd, playVars, session>>

AudioLoop == 0
Client == -1
Callers == Utterances \cup {AudioLoop, Client}
NoCall == [pc |-> "none", gen |-> 0]
NoEvent == [kind |-> "none", run |-> 0]

Init ==
    /\ mode \in {"vad", "push"}
    /\ turn = [u \in Utterances |-> "new"]
    /\ audio = "idle" /\ captured = 0
    /\ gen = 1 /\ fired = 0
    /\ barge = [c \in Callers |-> NoCall]
    /\ currentRun = 0 /\ response = FALSE
    /\ canceled = {} /\ pending = <<>> /\ inflight = {} /\ committed = {}
    /\ run = [u \in Utterances |-> "none"]
    /\ events = <<>>
    /\ fwd = [pc |-> "idle", event |-> NoEvent, turn |-> 0]
    /\ tts = <<>> /\ synth = "idle"
    /\ session = "open"

(* Push-to-talk never begins a second turn: the id of the first stays. *)
TurnId(u) == IF mode = "push" THEN 1 ELSE u
Goto(u, pc) == turn' = [turn EXCEPT ![u] = pc]
RunIsActive == currentRun # 0
ResponseIsActive == response
BargeInIsArmed == RunIsActive \/ ResponseIsActive
UserSpeaking == audio \in {"store", "speaking"}
NextUtterance(u) == turn[u] = "new" /\ \A v \in Utterances : v < u => turn[v] # "new"

-----------------------------------------------------------------------------
(* Barge-in. *)

Caller(c, pc) == barge' = [barge EXCEPT ![c] = [pc |-> pc, gen |-> 0]]

TriggerBargeIn(c) == barge' = [barge EXCEPT ![c] = [pc |-> "cas", gen |-> gen]]

CompareAndSwap(c) ==
    /\ barge[c].pc = "cas"
    /\ IF fired = barge[c].gen - 1
       THEN /\ fired' = barge[c].gen
            /\ Caller(c, "mark")
       ELSE Caller(c, "none") /\ UNCHANGED fired
    /\ UNCHANGED <<mode, turn, audio, captured, gen, canceled, currentRun, turnVars, runVars, fwd, playVars, session>>

MarkRunCanceled(c) ==
    /\ barge[c].pc = "mark"
    /\ canceled' = canceled \cup ({currentRun} \ {0})
    /\ Caller(c, "clear")
    /\ UNCHANGED <<mode, turn, audioVars, currentRun, turnVars, runVars, fwd, playVars, session>>

(* The queues are drained and the run is aborted; its end comes with its    *)
(* events.  Run and response are cleared whatever they have become.         *)
ClearCurrent(c) ==
    /\ barge[c].pc = "clear"
    /\ tts' = <<>>
    /\ currentRun' = 0 /\ response' = FALSE
    /\ Caller(c, "none")
    /\ UNCHANGED <<mode, turn, audioVars, canceled, turnVars, runVars, fwd, synth, session>>

CancelResponse ==
    /\ session = "open" /\ mode \in Cancels
    /\ barge[Client].pc = "none"
    /\ TriggerBargeIn(Client)
    /\ UNCHANGED <<mode, turn, audioVars, canceled, currentRun, turnVars, runVars, fwd, playVars, session>>

-----------------------------------------------------------------------------
(* The audio loop. *)

Busy(c) == barge[c].pc # "none"

(* startNewTurn adds to one counter and stores the other in two steps. *)
StartNewTurn(u) ==
    /\ mode # "push" /\ audio = "idle" /\ session = "open"
    /\ NextUtterance(u)
    /\ Goto(u, "speaking")
    /\ gen' = gen + 1
    /\ audio' = "store"
    /\ UNCHANGED <<mode, captured, fired, bargeVars, currentRun, turnVars, runVars, fwd, playVars, session>>

StoreFired ==
    /\ audio = "store"
    /\ fired' = gen - 1
    /\ audio' = "speaking"
    /\ UNCHANGED <<mode, turn, captured, gen, bargeVars, currentRun, turnVars, runVars, fwd, playVars, session>>

EvaluateBargeIn ==
    /\ audio = "speaking" /\ ~Busy(AudioLoop)
    /\ BargeInIsArmed
    /\ TriggerBargeIn(AudioLoop)
    /\ UNCHANGED <<mode, turn, audioVars, canceled, currentRun, turnVars, runVars, fwd, playVars, session>>

TryStartTurnTranscription(u) == TurnId(u) \notin committed \cup inflight

(* commitCapturedTurn and the end of InputCommit. *)
CommitCapturedTurn(u) ==
    IF TryStartTurnTranscription(u)
    THEN Goto(u, "transcribing") /\ inflight' = inflight \cup {TurnId(u)}
    ELSE Goto(u, "ignored") /\ UNCHANGED inflight

(* The end of speech; the balanced strategy may wait for more silence, and  *)
(* then has room for one turn.                                              *)
SpeechEnded(u) ==
    /\ audio = "speaking" /\ ~Busy(AudioLoop) /\ turn[u] = "speaking"
    /\ audio' = "idle"
    /\ \/ Goto(u, "dropped") /\ UNCHANGED <<captured, inflight>>
       \/ CommitCapturedTurn(u) /\ UNCHANGED captured
       \/ /\ captured' = u
          /\ turn' = [v \in Utterances |->
                        IF v = u THEN "captured" ELSE IF v = captured THEN "overwritten" ELSE turn[v]]
          /\ UNCHANGED inflight
    /\ UNCHANGED <<mode, gen, fired, bargeVars, currentRun, pending, committed, runVars, fwd, playVars, session>>

ShouldCommitTurn ==
    /\ captured # 0 /\ audio \in {"idle", "speaking"} /\ ~Busy(AudioLoop)
    /\ CommitCapturedTurn(captured)
    /\ captured' = 0
    /\ UNCHANGED <<mode, audio, gen, fired, bargeVars, currentRun, pending, committed, runVars, fwd, playVars, session>>

(* Push-to-talk: too little audio is dropped. *)
InputCommit(u) ==
    /\ mode = "push" /\ session = "open"
    /\ NextUtterance(u)
    /\ \/ Goto(u, "dropped") /\ UNCHANGED inflight
       \/ CommitCapturedTurn(u)
    /\ UNCHANGED <<mode, audioVars, bargeVars, currentRun, pending, committed, runVars, fwd, playVars, session>>

-----------------------------------------------------------------------------
(* A transcription and what becomes of its text. *)

FinishTurnTranscription(u) == inflight' = inflight \ {TurnId(u)}

(* The transcriber fails, hears nothing, or gives a text. *)
Transcribe(u) ==
    /\ turn[u] = "transcribing"
    /\ \/ \E end \in {"failed", "dropped"} :
            Goto(u, end) /\ FinishTurnTranscription(u) /\ UNCHANGED barge
       \/ /\ IF ResponseIsActive THEN TriggerBargeIn(u) ELSE UNCHANGED barge
          /\ Goto(u, "text")
          /\ UNCHANGED inflight
    /\ UNCHANGED <<mode, audioVars, canceled, currentRun, pending, committed, runVars, fwd, playVars, session>>

TranscribeTextAndSend(u) ==
    /\ turn[u] = "text" /\ ~Busy(u)
    /\ IF RunIsActive
       THEN Goto(u, "enqueue") /\ UNCHANGED inflight
       ELSE IF TurnId(u) \in committed
       THEN Goto(u, "ignored") /\ FinishTurnTranscription(u)
       ELSE Goto(u, "commit") /\ UNCHANGED inflight
    /\ UNCHANGED <<mode, audioVars, bargeVars, currentRun, pending, committed, runVars, fwd, playVars, session>>

EnqueuePendingTurn(u) ==
    /\ turn[u] = "enqueue"
    /\ LET full == Len(pending) >= MaxPending
           kept == IF full THEN Tail(pending) ELSE pending IN
       /\ pending' = Append(kept, u)
       /\ turn' = [v \in Utterances |->
                     IF v = u THEN "queued" ELSE IF full /\ v = Head(pending) THEN "dropped" ELSE turn[v]]
    /\ FinishTurnTranscription(u)
    /\ UNCHANGED <<mode, audioVars, bargeVars, currentRun, committed, runVars, fwd, playVars, session>>

(* The transcription of a turn is finished by its own goroutine; the        *)
(* forwarder goes on with its events.                                       *)
CommitReturns(u) ==
    IF fwd.turn = u
    THEN fwd' = [pc |-> "idle", event |-> NoEvent, turn |-> 0] /\ UNCHANGED inflight
    ELSE FinishTurnTranscription(u) /\ UNCHANGED fwd

(* dispatcher.Run, external: it starts a run, or returns an error. *)
CommitVoiceTurn(u) ==
    /\ turn[u] = "commit"
    /\ \/ /\ run' = [run EXCEPT ![u] = "running"]
          /\ Goto(u, "mark")
          /\ UNCHANGED <<fwd, inflight>>
       \/ /\ Goto(u, "refused")
          /\ CommitReturns(u)
          /\ UNCHANGED run
    /\ UNCHANGED <<mode, audioVars, bargeVars, currentRun, pending, committed, events, playVars, session>>

MarkTurnCommitted(u) ==
    /\ turn[u] = "mark"
    /\ committed' = committed \cup {TurnId(u)}
    /\ currentRun' = u
    /\ Goto(u, "ran")
    /\ CommitReturns(u)
    /\ UNCHANGED <<mode, audioVars, bargeVars, pending, runVars, playVars, session>>

-----------------------------------------------------------------------------
(* Runs, external, and OnEvent of the forwarder's subscriber: an event that *)
(* finds the channel full is dropped, the end of a run takes the place of   *)
(* the oldest.                                                              *)
OnEvent(event) ==
    events' = IF Len(events) < EventSize THEN Append(events, event)
              ELSE IF event.kind = "delta" THEN events
              ELSE Append(Tail(events), event)

RunDelta(u) ==
    /\ run[u] = "running"
    /\ run' = [run EXCEPT ![u] = "talked"]
    /\ OnEvent([kind |-> "delta", run |-> u])
    /\ UNCHANGED <<mode, turn, audioVars, bargeVars, currentRun, turnVars, fwd, playVars, session>>

RunEnds(u) ==
    /\ run[u] \in {"running", "talked"}
    /\ run' = [run EXCEPT ![u] = "over"]
    /\ OnEvent([kind |-> "end", run |-> u])
    /\ UNCHANGED <<mode, turn, audioVars, bargeVars, currentRun, turnVars, fwd, playVars, session>>

(* A message put into another run has an event the forwarder ignores. *)
RunInjected(u) ==
    /\ run[u] = "running"
    /\ \E v \in Utterances \ {u} : run[v] \in {"running", "talked"}
    /\ run' = [run EXCEPT ![u] = "over"]
    /\ UNCHANGED <<mode, turn, audioVars, bargeVars, currentRun, turnVars, events, fwd, playVars, session>>

-----------------------------------------------------------------------------
(* llmEventForwarder. *)

Forward(pc) == fwd' = [fwd EXCEPT !.pc = pc]

TakeEvent ==
    /\ fwd.pc = "idle" /\ events # <<>>
    /\ events' = Tail(events)
    /\ LET event == Head(events) IN
       IF event.run \in canceled
       THEN /\ canceled' = IF event.kind = "end" THEN canceled \ {event.run} ELSE canceled
            /\ UNCHANGED fwd
       ELSE /\ fwd' = [fwd EXCEPT !.pc = "checked", !.event = event]
            /\ UNCHANGED canceled
    /\ UNCHANGED <<mode, turn, audioVars, barge, currentRun, turnVars, run, playVars, session>>

(* A delta names the current run, and may complete a sentence; the end of a *)
(* run leaves a last one or none.                                           *)
Checked ==
    /\ fwd.pc = "checked"
    /\ IF fwd.event.kind = "delta"
       THEN /\ currentRun' = fwd.event.run
            /\ Forward("push") \/ Forward("idle")
       ELSE /\ Forward("push") \/ Forward("end")
            /\ UNCHANGED currentRun
    /\ UNCHANGED <<mode, turn, audioVars, bargeVars, turnVars, runVars, playVars, session>>

(* A full channel makes the forwarder wait. *)
PushSentence ==
    /\ fwd.pc \in {"push", "end"}
    /\ Len(tts) < QueueSize
    /\ tts' = Append(tts, IF fwd.pc = "push" THEN fwd.event.run ELSE 0)
    /\ Forward(IF fwd.pc = "end" THEN "clear" ELSE IF fwd.event.kind = "end" THEN "end" ELSE "idle")
    /\ UNCHANGED <<mode, turn, audioVars, bargeVars, currentRun, turnVars, runVars, synth, response, session>>

ClearCurrentRun ==
    /\ fwd.pc = "clear"
    /\ currentRun' = 0
    /\ canceled' = canceled \ {fwd.event.run}
    /\ Forward("drain")
    /\ UNCHANGED <<mode, turn, audioVars, barge, turnVars, runVars, playVars, session>>

(* Mutant of CommitNextPendingTurn: the turn is taken before the run is     *)
(* looked at.                                                               *)
DequeueFirst ==
    /\ fwd.pc = "drain"
    /\ IF pending = <<>> \/ RunIsActive
       THEN /\ fwd' = [fwd EXCEPT !.pc = "idle", !.event = NoEvent]
            /\ pending' = IF pending = <<>> THEN pending ELSE Tail(pending)
            /\ UNCHANGED turn
       ELSE /\ pending' = Tail(pending)
            /\ Goto(Head(pending), "commit")
            /\ fwd' = [pc |-> "committing", event |-> NoEvent, turn |-> Head(pending)]
    /\ UNCHANGED <<mode, audioVars, bargeVars, currentRun, inflight, committed, runVars, playVars, session>>

CommitNextPendingTurn ==
    /\ fwd.pc = "drain"
    /\ IF RunIsActive \/ pending = <<>>
       THEN fwd' = [fwd EXCEPT !.pc = "idle", !.event = NoEvent] /\ UNCHANGED <<turn, pending>>
       ELSE LET u == Head(pending) IN
            /\ pending' = Tail(pending)
            /\ IF TurnId(u) \in committed
               THEN Goto(u, "ignored") /\ fwd' = [fwd EXCEPT !.pc = "idle", !.event = NoEvent]
               ELSE Goto(u, "commit") /\ fwd' = [pc |-> "committing", event |-> NoEvent, turn |-> u]
    /\ UNCHANGED <<mode, audioVars, bargeVars, currentRun, inflight, committed, runVars, playVars, session>>

-----------------------------------------------------------------------------
(* ttsSynthLoop: a sentence waits, in the hand of the loop, until the user  *)
(* is silent; its first sound begins a response.                            *)
TakeSentence ==
    /\ synth = "idle" /\ tts # <<>>
    /\ tts' = Tail(tts)
    /\ IF Head(tts) = 0
       THEN response' = FALSE /\ UNCHANGED synth
       ELSE synth' = "wait" /\ UNCHANGED response
    /\ UNCHANGED <<mode, turn, audioVars, bargeVars, currentRun, turnVars, runVars, fwd, session>>

Synthesize ==
    /\ synth = "wait" /\ ~UserSpeaking
    /\ synth' = "synth"
    /\ UNCHANGED <<mode, turn, audioVars, bargeVars, currentRun, turnVars, runVars, fwd, tts, response, session>>

(* It ends after its chunks, or before the first if it fails or is canceled. *)
SynthesizeEnds ==
    /\ synth = "synth"
    /\ synth' = "idle"
    /\ response' \in {response, TRUE}
    /\ UNCHANGED <<mode, turn, audioVars, bargeVars, currentRun, turnVars, runVars, fwd, tts, session>>

-----------------------------------------------------------------------------
(* Close: the loops see the closed doneChannel where they wait, and only    *)
(* there; Close returns after them and after the transcriptions.            *)
Close ==
    /\ session = "open"
    /\ session' = "closing"
    /\ UNCHANGED <<mode, turn, audioVars, bargeVars, currentRun, turnVars, runVars, fwd, playVars>>

AudioLoopEnds ==
    /\ session = "closing" /\ audio \in {"idle", "speaking"} /\ ~Busy(AudioLoop)
    /\ audio' = "gone"
    /\ UNCHANGED <<mode, turn, captured, gen, fired, bargeVars, currentRun, turnVars, runVars, fwd, playVars, session>>

(* Mutant of ForwarderWaits: a full channel is waited for without an eye on *)
(* doneChannel.                                                             *)
ForwarderWaitsIdle == fwd.pc = "idle"

ForwarderWaits == fwd.pc \in {"idle", "push", "end"}

ForwarderEnds ==
    /\ session = "closing" /\ ForwarderWaits
    /\ Forward("gone")
    /\ UNCHANGED <<mode, turn, audioVars, bargeVars, currentRun, turnVars, runVars, playVars, session>>

SynthEnds ==
    /\ session = "closing" /\ synth \in {"idle", "wait"}
    /\ synth' = "gone"
    /\ UNCHANGED <<mode, turn, audioVars, bargeVars, currentRun, turnVars, runVars, fwd, tts, response, session>>

Transcribing(u) == turn[u] \in {"transcribing", "text", "enqueue", "commit", "mark"} /\ fwd.turn # u

CloseReturns ==
    /\ session = "closing"
    /\ audio = "gone" /\ fwd.pc = "gone" /\ synth = "gone"
    /\ \A u \in Utterances : ~Transcribing(u)
    /\ session' = "closed"
    /\ UNCHANGED <<mode, turn, audioVars, bargeVars, currentRun, turnVars, runVars, fwd, playVars>>

-----------------------------------------------------------------------------
BargeIn(c) == CompareAndSwap(c) \/ MarkRunCanceled(c) \/ ClearCurrent(c)

AudioInputLoop ==
    \/ \E u \in Utterances : StartNewTurn(u) \/ SpeechEnded(u)
    \/ StoreFired \/ EvaluateBargeIn \/ ShouldCommitTurn

TurnSteps(u) ==
    \/ Transcribe(u) \/ TranscribeTextAndSend(u) \/ EnqueuePendingTurn(u)
    \/ CommitVoiceTurn(u) \/ MarkTurnCommitted(u)

LlmEventForwarder == TakeEvent \/ Checked \/ PushSentence \/ ClearCurrentRun \/ CommitNextPendingTurn
LoopEnds == AudioLoopEnds \/ ForwarderEnds \/ SynthEnds
TtsSynthLoop == TakeSentence \/ Synthesize \/ SynthesizeEnds
Next ==
    \/ \E c \in Callers : BargeIn(c)
    \/ AudioInputLoop \/ LlmEventForwarder \/ TtsSynthLoop
    \/ \E u \in Utterances : TurnSteps(u) \/ InputCommit(u) \/ RunDelta(u) \/ RunEnds(u) \/ RunInjected(u)
    \/ CancelResponse \/ Close \/ LoopEnds \/ CloseReturns

(* A goroutine that can go on does; a select that finds doneChannel closed  *)
(* whenever it looks takes it in the end (Go chooses among the ready cases  *)
(* at random); transcription and synthesis return.  As a loop ends once,    *)
(* fairness of the disjunction is that of each loop.                        *)
Fairness ==
    /\ \A c \in Callers : WF_vars(BargeIn(c))
    /\ \A u \in Utterances : WF_vars(TurnSteps(u))
    /\ WF_vars(StoreFired) /\ WF_vars(LlmEventForwarder) /\ WF_vars(SynthesizeEnds)
    /\ SF_vars(LoopEnds)
    /\ WF_vars(CloseReturns)

Spec == Init /\ [][Next]_vars
FairSpec == Spec /\ Fairness

-----------------------------------------------------------------------------
TypeOK ==
    /\ turn \in [Utterances -> {"new", "speaking", "captured", "overwritten", "transcribing", "text", "enqueue",
                                "queued", "commit", "mark", "ran", "dropped", "failed", "ignored", "refused"}]
    /\ currentRun \in Utterances \cup {0} /\ captured \in Utterances \cup {0}
    /\ canceled \subseteq Utterances /\ committed \subseteq Utterances /\ inflight \subseteq Utterances
    /\ fired \in 0..gen
    /\ Len(pending) <= MaxPending /\ Len(tts) <= QueueSize /\ Len(events) <= EventSize

(* What was transcribed is not lost between the queue, the forwarder that   *)
(* drains it and the goroutines that fill it: a queued turn is in           *)
(* pendingTurns once, a turn the forwarder has taken is committed by it,    *)
(* and a turn has a run exactly if its commit went through.                 *)
TurnsAccounted ==
    \A u \in Utterances :
        /\ Cardinality({i \in 1..Len(pending) : pending[i] = u}) = IF turn[u] = "queued" THEN 1 ELSE 0
        /\ fwd.turn = u => turn[u] \in {"commit", "mark"}
        /\ run[u] # "none" <=> turn[u] \in {"mark", "ran"}

(* Close returns: no loop waits for another that has ended, whatever the    *)
(* queues hold at that moment.                                              *)
CloseEnds == session = "closing" ~> session = "closed"

(* A barge-in fires at most once in a generation, as the comment on         *)
(* bargeInGen says: bargeInFired, from which the next call decides, does    *)
(* not go back.  The code does not satisfy it: startNewTurn stores it after *)
(* a caller may have fired for the new generation.                          *)
BargeInOnce == [][fired' >= fired]_vars

(* What the user said is transcribed or reported as dropped.  Not           *)
(* satisfied: the balanced strategy overwrites a captured turn, and a       *)
(* second push-to-talk input has the committed turn's id.                   *)
SpeechHeard == \A u \in Utterances : turn[u] \notin {"overwritten", "ignored"}

(* The current run is one that has not ended, once all its events are       *)
(* handled.  Not satisfied: SetCurrentRunID may come after the events.      *)
CurrentRunLives ==
    (events = <<>> /\ fwd.pc = "idle" /\ currentRun # 0) => run[currentRun] # "over"
=============================================================================
