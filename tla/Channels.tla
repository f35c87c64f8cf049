------------------------------ MODULE Channels ------------------------------
(***************************************************************************)
(* A chat bot (Telegram or Discord) and one user's default conversation.   *)
(* Messages of the chat become runs whose text is streamed into a preview  *)
(* message; runs that others start are followed through events, scheduled  *)
(* ones with a preview too, those of the web only to tell a user who left. *)
(*                                                                         *)
(* A run has one process at a time: the bot's goroutine for a message of   *)
(* the chat, the goroutine of the run, which delivers its events, for the  *)
(* others.  The preview has a goroutine of its own, and a mutex that makes *)
(* its methods steps, the call of the chat's API included.                 *)
(***************************************************************************)
EXTENDS Integers, FiniteSets

CONSTANTS
    Messages,   \* messages of the chat
    Others,     \* runs of the conversation that the bot did not start
    MaxDeltas,  \* pieces of text a run streams
    MaxLimits   \* times the chat answers with a rate limit

Runs == Messages \cup Others

VARIABLES
    channel,     \* "telegram" or "discord"
    origin,      \* of the others: "" (scheduled) or "web"
    run,         \* where a run and its process are, and how it ended
    active,      \* whether activeConversations has the conversation
    subscribed,  \* subscribedRuns
    linked,      \* whether the bot knows the user's chat
    connected,   \* whether the web session is connected
    preview,     \* the previews
    goroutine,   \* those of the previews: "none", "on", "limited", "off"
    chat,        \* the messages of the bot in the chat, numbered by run
    limits       \* rate limits so far

vars == <<channel, origin, run, active, subscribed, linked, connected, preview, goroutine, chat, limits>>

Jobs == {r \in Others : origin[r] = ""}

NoPreview == [text |-> 0, sent |-> 0, message |-> 0, stopped |-> FALSE, done |-> FALSE]

(* A user's account has the Telegram chat; the Discord channel is learnt. *)
TelegramChatIdForUser == channel = "telegram"
SetChannelForUser == linked' = TRUE

Init ==
    /\ channel \in {"telegram", "discord"}
    /\ origin \in [Others -> {"", "web"}]
    /\ run = [r \in Runs |-> [pc |-> "new", outcome |-> "none", deltas |-> 0]]
    /\ active = FALSE /\ subscribed = {}
    /\ linked = TelegramChatIdForUser
    /\ connected = TRUE
    /\ preview = [r \in Runs |-> NoPreview]
    /\ goroutine = [r \in Runs |-> "none"]
    /\ chat = {} /\ limits = 0

Number(r) == 1 + Cardinality({message \in chat : message.of = r})
Message(r, text) == [number |-> Number(r), of |-> r, text |-> text]
Post(r, text) == chat' = chat \cup {Message(r, text)}
Shown(r) == {message \in chat : message.of = r /\ message.text # "deleted"}
Replace(r, n, text) ==
    {IF message.of = r /\ message.number = n THEN [message EXCEPT !.text = text] ELSE message : message \in chat}
Goto(r, pc) == run' = [run EXCEPT ![r].pc = pc]
Ends(r, pc, outcome) == run' = [run EXCEPT ![r].pc = pc, ![r].outcome = outcome]
NewPreview(r) == goroutine' = [goroutine EXCEPT ![r] = "on"]

-----------------------------------------------------------------------------
(* The preview. *)

(* flush of Telegram: nothing is remembered of a message that was not sent; *)
(* the result tells the preview's goroutine that the chat asked to wait.    *)
FlushTelegram(r, ticking) ==
    \/ /\ preview' = [preview EXCEPT ![r].sent = preview[r].text,
                                     ![r].message = IF @ = 0 THEN Number(r) ELSE @]
       /\ IF preview[r].message = 0 THEN Post(r, "partial") ELSE UNCHANGED chat
       /\ UNCHANGED <<goroutine, limits>>
    \/ UNCHANGED <<preview, chat, goroutine, limits>>
    \/ /\ limits < MaxLimits
       /\ limits' = limits + 1
       /\ goroutine' = [goroutine EXCEPT ![r] = IF ticking THEN "limited" ELSE @]
       /\ UNCHANGED <<preview, chat>>

(* flush of Discord: the text counts as sent whatever the answer. *)
FlushDiscord(r) ==
    /\ \/ /\ preview' = [preview EXCEPT ![r].sent = preview[r].text,
                                        ![r].message = IF @ = 0 THEN Number(r) ELSE @]
          /\ IF preview[r].message = 0 THEN Post(r, "partial") ELSE UNCHANGED chat
       \/ /\ preview' = [preview EXCEPT ![r].sent = preview[r].text]
          /\ UNCHANGED chat
    /\ UNCHANGED <<goroutine, limits>>

HasNews(r) == preview[r].text \notin {0, preview[r].sent} /\ ~preview[r].stopped

Flush(r, ticking) ==
    IF ~HasNews(r) THEN UNCHANGED <<preview, chat, goroutine, limits>>
    ELSE IF channel = "telegram" THEN FlushTelegram(r, ticking) ELSE FlushDiscord(r)

(* run: a tick, even one that came together with the end. *)
Tick(r) ==
    /\ goroutine[r] = "on"
    /\ HasNews(r)
    /\ Flush(r, TRUE)
    /\ UNCHANGED <<run, active, subscribed, linked, connected>>

RunEnds(r) ==
    /\ goroutine[r] = "on" /\ preview[r].done
    /\ goroutine' = [goroutine EXCEPT ![r] = "off"]
    /\ UNCHANGED <<run, active, subscribed, linked, connected, preview, chat, limits>>

(* Mutant of MayRecover: the end is not looked at. *)
MayAlwaysRecover(r) == TRUE

MayRecover(r) == ~preview[r].stopped

(* recoverMessage, after the wait the chat asked for: the old message is    *)
(* replaced by a new one.                                                   *)
RecoverMessage(r) ==
    /\ goroutine[r] = "limited"
    /\ goroutine' = [goroutine EXCEPT ![r] = "on"]
    /\ \/ /\ MayRecover(r)
          /\ LET kept == Replace(r, preview[r].message, "deleted") IN
             \/ /\ preview[r].text # 0
                /\ chat' = kept \cup {Message(r, "partial")}
                /\ preview' = [preview EXCEPT ![r].message = Number(r), ![r].sent = preview[r].text]
             \/ /\ chat' = kept
                /\ preview' = [preview EXCEPT ![r].message = 0]
       \/ /\ ~MayRecover(r)
          /\ UNCHANGED <<chat, preview>>
    /\ UNCHANGED <<run, active, subscribed, linked, connected, limits>>

Update(r) == preview' = [preview EXCEPT ![r].text = IF preview[r].stopped THEN @ ELSE @ + 1]
Reset(r) == preview' = [preview EXCEPT ![r].text = 0, ![r].sent = 0]

(* Stop, in three steps: the end of the goroutine, the last flush, and the  *)
(* mark after which nothing is sent.                                        *)
StopDone(r) ==
    /\ run[r].pc = "stop"
    /\ preview' = [preview EXCEPT ![r].done = TRUE]
    /\ Goto(r, "flush")
    /\ UNCHANGED <<active, subscribed, linked, connected, goroutine, chat, limits>>

StopFlush(r) ==
    /\ run[r].pc = "flush"
    /\ Flush(r, FALSE)
    /\ Goto(r, "mark")
    /\ UNCHANGED <<active, subscribed, linked, connected>>

StopMark(r) ==
    /\ run[r].pc = "mark"
    /\ preview' = [preview EXCEPT ![r].stopped = TRUE]
    /\ Goto(r, "post")
    /\ UNCHANGED <<active, subscribed, linked, connected, goroutine, chat, limits>>

-----------------------------------------------------------------------------
(* Messages of the chat. *)

Running == {r \in Runs : run[r].pc = "running"}

(* A conversation with an active run is not given another one. *)
Admit(r) ==
    /\ run[r].pc = "new"
    /\ IF Running # {} THEN Ends(r, "done", "refused") ELSE Goto(r, "checked")
    /\ UNCHANGED <<active, subscribed, connected, preview, goroutine, chat, limits>>

OnMessage(r) == channel = "telegram" /\ Admit(r) /\ UNCHANGED linked

OnMessageCreate(r) == channel = "discord" /\ Admit(r) /\ SetChannelForUser

HandleMessage(r) ==
    /\ run[r].pc = "checked"
    /\ active' = TRUE
    /\ NewPreview(r)
    /\ Goto(r, "marked")
    /\ UNCHANGED <<subscribed, linked, connected, preview, chat, limits>>

(* coordinator.Run, external; an error ends as a failed run does. *)
CoordinatorRun(r) ==
    /\ run[r].pc = "marked"
    /\ \/ Goto(r, "running")
       \/ Ends(r, "stop", "error")
    /\ UNCHANGED <<active, subscribed, linked, connected, preview, goroutine, chat, limits>>

(* What is posted once the preview has stopped: the final text in the       *)
(* preview's message or in a new one, or an error after the preview is      *)
(* deleted.  An injected message has no result, and its goroutine panics.   *)
Settle(r) ==
    LET n == preview[r].message IN
    CASE run[r].outcome = "final" /\ n # 0 -> chat' = Replace(r, n, "final")
      [] run[r].outcome = "final" /\ n = 0 -> Post(r, "final")
      [] run[r].outcome = "error" \/ (run[r].outcome = "aborted" /\ r \in Messages) ->
            chat' = Replace(r, n, "deleted") \cup {Message(r, "error")}
      [] run[r].outcome = "aborted" /\ r \notin Messages -> chat' = Replace(r, n, "deleted")
      [] run[r].outcome = "injected" -> UNCHANGED chat

PostMessage(r) ==
    /\ run[r].pc = "post"
    /\ Settle(r)
    /\ preview' = [preview EXCEPT ![r].message = IF run[r].outcome \in {"error", "aborted"} THEN 0 ELSE @]
    /\ active' = (active /\ r \notin Messages)
    /\ Goto(r, "done")
    /\ UNCHANGED <<subscribed, linked, connected, goroutine, limits>>

-----------------------------------------------------------------------------
(* Runs of others: OnEvent, called by the goroutine of the run. *)

Follows(r) == ~active /\ linked /\ r \in subscribed
Previewed(r) == r \in Messages \/ (r \in Jobs /\ Follows(r))

(* "user_message": scheduled runs and those of the web, for the default     *)
(* conversation.                                                            *)
OnUserMessage(r) ==
    /\ r \notin Messages
    /\ run[r].pc = "new"
    /\ Goto(r, "running")
    /\ IF active \/ ~linked
       THEN UNCHANGED <<subscribed, goroutine>>
       ELSE /\ subscribed' = subscribed \cup {r}
            /\ IF r \in Jobs THEN NewPreview(r) ELSE UNCHANGED goroutine
    /\ UNCHANGED <<active, linked, connected, preview, chat, limits>>

(* "delta" and "tool_call", and the callbacks of the bot's own runs; where  *)
(* no preview follows the run they do nothing.                              *)
OnDelta(r) ==
    /\ run[r].pc = "running" /\ run[r].deltas < MaxDeltas
    /\ Previewed(r)
    /\ run' = [run EXCEPT ![r].deltas = @ + 1]
    /\ Update(r)
    /\ UNCHANGED <<active, subscribed, linked, connected, goroutine, chat, limits>>

OnToolCall(r) ==
    /\ run[r].pc = "running"
    /\ Previewed(r)
    /\ Reset(r)
    /\ UNCHANGED <<run, active, subscribed, linked, connected, goroutine, chat, limits>>

(* Only a run that has not begun its own turn is injected into another. *)
Outcomes(r) ==
    {"final", "error", "aborted"}
        \cup (IF run[r].deltas = 0 /\ Running # {r} THEN {"injected"} ELSE {})

(* "final", "error" and "aborted"; "injected" is no event the bot knows.    *)
(* The bot's goroutine learns the outcome from the handle.                  *)
OnEnd(r, outcome) ==
    /\ run[r].pc = "running"
    /\ outcome \in Outcomes(r)
    /\ IF r \in Messages
       THEN Ends(r, "stop", outcome) /\ UNCHANGED subscribed
       ELSE IF Follows(r) /\ outcome # "injected"
       THEN /\ subscribed' = subscribed \ {r}
            /\ Ends(r, IF r \in Jobs THEN "stop" ELSE "notify", outcome)
       ELSE Ends(r, "missed", outcome) /\ UNCHANGED subscribed
    /\ UNCHANGED <<active, linked, connected, preview, goroutine, chat, limits>>

(* A run of the web is told of only if its session has gone. *)
Notify(r) ==
    /\ run[r].pc = "notify"
    /\ IF ~connected /\ run[r].outcome # "aborted" THEN Post(r, run[r].outcome) ELSE UNCHANGED chat
    /\ Goto(r, "done")
    /\ UNCHANGED <<active, subscribed, linked, connected, preview, goroutine, limits>>

Disconnect ==
    /\ connected
    /\ connected' = FALSE
    /\ UNCHANGED <<run, active, subscribed, linked, preview, goroutine, chat, limits>>

-----------------------------------------------------------------------------
PreviewSteps(r) == Tick(r) \/ RunEnds(r) \/ RecoverMessage(r)

MessageSteps(r) ==
    \/ OnMessage(r) \/ OnMessageCreate(r)
    \/ HandleMessage(r) \/ CoordinatorRun(r)

OnEvent(r) ==
    \/ OnUserMessage(r) \/ OnDelta(r) \/ OnToolCall(r) \/ Notify(r)
    \/ \E outcome \in {"final", "error", "aborted", "injected"} : OnEnd(r, outcome)

Ending(r) == StopDone(r) \/ StopFlush(r) \/ StopMark(r) \/ PostMessage(r)

Next ==
    /\ UNCHANGED <<channel, origin>>
    /\ \/ \E r \in Messages : MessageSteps(r)
       \/ \E r \in Runs : PreviewSteps(r) \/ OnEvent(r) \/ Ending(r)
       \/ Disconnect

Spec == Init /\ [][Next]_vars

-----------------------------------------------------------------------------
TypeOK ==
    /\ \A r \in Runs : run[r].pc \in {"new", "checked", "marked", "running", "stop", "flush", "mark", "post", "notify", "done", "missed"}
    /\ channel \in {"telegram", "discord"} /\ origin \in [Others -> {"", "web"}]
    /\ active \in BOOLEAN /\ linked \in BOOLEAN /\ connected \in BOOLEAN
    /\ subscribed \subseteq Others
    /\ goroutine \in [Runs -> {"none", "on", "limited", "off"}]
    /\ \A r \in Runs : preview[r].message \in 0..Cardinality(chat) /\ preview[r].text \in 0..MaxDeltas
    /\ \A message \in chat : message.of \in Runs /\ message.text \in {"partial", "final", "error", "deleted"}

(* The chat shows the end of a run the bot saw end once: one message with   *)
(* the final text or the error and no preview beside it, also when the      *)
(* preview's goroutine comes out of a rate limit while the run ends, and    *)
(* however the bot's own goroutine and the events of the run interleave.    *)
ShownOnce ==
    \A r \in Runs :
        run[r].pc = "done" =>
            /\ \A message \in Shown(r) : message.text = IF run[r].outcome = "aborted" THEN "error" ELSE run[r].outcome
            /\ Cardinality(Shown(r)) <= 1
            /\ (r \in Messages /\ run[r].outcome \in {"final", "error", "aborted"}) => Shown(r) # {}

(* A scheduled run that the bot follows has its end posted, which the       *)
(* comment of OnEvent promises.  The code does not satisfy it: events are   *)
(* skipped while the bot handles a message of the same conversation, and    *)
(* "injected" is not handled.                                               *)
AlwaysPosted ==
    \A r \in Jobs :
        (run[r].pc \in {"done", "missed"} /\ goroutine[r] # "none" /\ run[r].outcome \in {"final", "error"}) =>
            \E message \in Shown(r) : message.text # "partial"

(* An entry of subscribedRuns is of a run that has not ended.  Not          *)
(* satisfied either: entries of skipped ends stay for good.                 *)
NoLeftover == \A r \in subscribed : run[r].pc \notin {"done", "missed"}
=============================================================================
