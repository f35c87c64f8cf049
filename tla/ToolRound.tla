----------------------------- MODULE ToolRound -----------------------------
(***************************************************************************)
(* The rounds of the tool loop of runners.Runner.executeRun, for one run,  *)
(* with what happens to it from outside: verdicts through the approval     *)
(* broker, answers through the question broker, mid-run messages, and the  *)
(* cancellation of the run's context by an abort.                          *)
(*                                                                         *)
(* The goroutines are the run itself (pc), one per executing tool (call),  *)
(* one per sender of a mid-run message (spc), and whoever calls the        *)
(* brokers.  A step is what happens under one mutex hold, or one channel   *)
(* operation.                                                              *)
(***************************************************************************)
EXTENDS Integers, FiniteSets

CONSTANTS
    NCalls,     \* tool calls the model makes in a round, in order
    Kinds,      \* the kinds of tool calls it makes, see AllKinds
    Senders,    \* goroutines that signal a mid-run message
    MaxRounds   \* bound: rounds of the loop (250 in the code)

(* How Phase 1 of a round treats a call: no such tool; refused with an      *)
(* error as its result (definition not loaded, denied by policy, approval   *)
(* not possible from this origin); executed; executed and then asking the   *)
(* user; executed after an approval.                                        *)
AllKinds == {"unknown", "refused", "allowed", "ask", "approval"}

ASSUME RoundAssumption ==
    /\ NCalls \in Nat \ {0} /\ MaxRounds \in Nat \ {0}
    /\ Kinds \subseteq AllKinds

Calls == 1..NCalls
Rounds == 1..MaxRounds
Approvals == Rounds \X Calls

VARIABLES
    pc,             \* where executeRun is
    round,          \* the number of the round
    kind,           \* the kind of each call of the round
    at,             \* the call Phase 1 has come to
    call,           \* what became of each call of the round
    cancelled,      \* the run's context is cancelled
    roundCancelled, \* rounds whose own context (roundCtx) is cancelled
    midRunCancel,   \* the round whose cancel function Runner.midRunCancel is, or 0
    midRunMessages, \* senders whose message waits in Runner.midRunMessages
    spc,            \* program counter of each sender
    held,           \* the cancel function a sender has read
    pending,        \* approvals in the ApprovalBroker's map
    verdict,        \* what an approval's channel holds
    approvalCloses, \* how often it was closed (history variable)
    question        \* the state of each call's question

runVars == <<pc, round, kind, at, call>>
contextVars == <<cancelled, roundCancelled, midRunCancel>>
senderVars == <<midRunMessages, spc, held>>
brokerVars == <<pending, verdict, approvalCloses>>
vars == <<runVars, contextVars, senderVars, brokerVars, question>>

Init ==
    /\ pc = "top"
    /\ round = 0
    /\ kind = [c \in Calls |-> "unknown"]
    /\ at = 1
    /\ call = [c \in Calls |-> "new"]
    /\ cancelled = FALSE
    /\ roundCancelled = {}
    /\ midRunCancel = 0
    /\ midRunMessages = {}
    /\ spc = [s \in Senders |-> "idle"]
    /\ held = [s \in Senders |-> 0]
    /\ pending = {}
    /\ verdict = [a \in Approvals |-> "none"]
    /\ approvalCloses = [a \in Approvals |-> 0]
    /\ question = [c \in Calls |-> "none"]

This == <<round, at>>
RoundDone == cancelled \/ round \in roundCancelled
Work == {c \in Calls : call[c] \in {"queued", "running", "ran"}}
Denied == \E c \in Calls : call[c] = "refused"

-----------------------------------------------------------------------------
(* The run.                                                                 *)

(* The top of a round: a cancelled run ends, else mid-run messages are      *)
(* drained and saved (which may fail), and the request is sent.  The        *)
(* variables of the loop's body start afresh.                               *)
Top ==
    /\ pc = "top"
    /\ ~cancelled
    /\ pc' \in IF midRunMessages = {} THEN {"stream"} ELSE {"stream", "done"}
    /\ round' = round + 1
    /\ midRunMessages' = {}
    /\ at' = 1
    /\ call' = [c \in Calls |-> "new"]
    /\ question' = [c \in Calls |-> "none"]
    /\ UNCHANGED <<kind, contextVars, spc, held, brokerVars>>

TopCancelled ==
    /\ pc = "top"
    /\ cancelled
    /\ pc' = "done"
    /\ UNCHANGED <<round, kind, at, call, contextVars, senderVars, brokerVars, question>>

(* The stream ends with tool calls: the round gets a context of its own,    *)
(* which a mid-run message can cancel.  An abort may come just too late to  *)
(* stop the stream.                                                         *)
RespondWithCalls ==
    /\ pc = "stream"
    /\ pc' = "calls"
    /\ kind' \in [Calls -> Kinds]
    /\ midRunCancel' = round
    /\ UNCHANGED <<round, at, call, cancelled, roundCancelled, senderVars, brokerVars,
                   question>>

(* Mutant: one round too many.                                              *)
NextRoundOffByOne == pc' = IF round <= MaxRounds THEN "top" ELSE "done"

NextRound == pc' = IF round < MaxRounds THEN "top" ELSE "done"

EndRun == pc' = "done"

(* The stream ends without tool calls: pending mid-run messages are drained *)
(* and saved and the loop goes on (or saving fails), else the run is over.  *)
RespondWithoutCalls ==
    /\ pc = "stream"
    /\ IF midRunMessages = {} THEN EndRun ELSE NextRound \/ EndRun
    /\ midRunMessages' = {}
    /\ UNCHANGED <<round, kind, at, call, contextVars, spc, held, brokerVars, question>>

(* The stream fails, or saving the assistant message does.                  *)
StreamFails ==
    /\ pc = "stream"
    /\ EndRun
    /\ UNCHANGED <<round, kind, at, call, contextVars, senderVars, brokerVars, question>>

(* Phase 1 for a call that needs no waiting.                                *)
ResolveTool ==
    /\ pc = "calls"
    /\ at <= NCalls
    /\ kind[at] # "approval"
    /\ call' = [call EXCEPT ![at] = CASE kind[at] = "unknown" -> "skipped"
                                      [] kind[at] = "refused" -> "refused"
                                      [] OTHER -> "queued"]
    /\ at' = at + 1
    /\ UNCHANGED <<pc, round, kind, contextVars, senderVars, brokerVars, question>>

(* waitForApproval registers the approval with a fresh channel.             *)
RegisterApproval ==
    /\ pc = "calls"
    /\ at <= NCalls
    /\ kind[at] = "approval"
    /\ pending' = pending \cup {This}
    /\ verdict' = [verdict EXCEPT ![This] = "open"]
    /\ pc' = "wait"
    /\ UNCHANGED <<round, kind, at, call, contextVars, senderVars, approvalCloses, question>>

(* Mutant: any verdict will do.                                             *)
AnyVerdict(v) == TRUE

Approved(v) == v = "approved"

(* The channel delivers a verdict.                                          *)
ReceiveVerdict ==
    /\ pc = "wait"
    /\ verdict[This] \in {"approved", "rejected"}
    /\ call' = [call EXCEPT ![at] = IF Approved(verdict[This]) THEN "queued" ELSE "refused"]
    /\ at' = at + 1
    /\ pc' = "calls"
    /\ UNCHANGED <<round, kind, contextVars, senderVars, brokerVars, question>>

(* Mutants: the wait ends only with the run, or only with the round.        *)
RunDone == cancelled
Detached == round \in roundCancelled

WaitOver == RoundDone

(* Mutant: the approval stays in the broker's map.                          *)
LeftPending(a) == pending

Deleted(a) == pending \ {a}

(* Or the round's context ends first: Cancel takes the approval out of the  *)
(* map, under the broker's mutex ...                                        *)
CancelApproval ==
    /\ pc = "wait"
    /\ WaitOver
    /\ pc' = IF This \in pending THEN "closing" ELSE "waited"
    /\ pending' = Deleted(This)
    /\ UNCHANGED <<round, kind, at, call, contextVars, senderVars, verdict, approvalCloses,
                   question>>

(* ... and closes its channel after releasing it.                           *)
CloseApproval ==
    /\ pc = "closing"
    /\ approvalCloses' = [approvalCloses EXCEPT ![This] = @ + 1]
    /\ pc' = "waited"
    /\ UNCHANGED <<round, kind, at, call, contextVars, senderVars, pending, verdict, question>>

(* cleanupRound: forget the round's cancel function, and call it.           *)
CleanupRound ==
    /\ midRunCancel' = 0
    /\ roundCancelled' = roundCancelled \cup {round}
    /\ UNCHANGED cancelled

(* The wait failed.  With the run's context alive it was a mid-run message: *)
(* the round is given up, with the calls already approved.                  *)
Interrupted ==
    /\ pc = "waited"
    /\ ~cancelled
    /\ CleanupRound
    /\ NextRound
    /\ UNCHANGED <<round, kind, at, call, senderVars, brokerVars, question>>

(* With the run cancelled it counts as a denial, and Phase 1 goes on.       *)
DeniedByAbort ==
    /\ pc = "waited"
    /\ cancelled
    /\ call' = [call EXCEPT ![at] = "refused"]
    /\ at' = at + 1
    /\ pc' = "calls"
    /\ UNCHANGED <<round, kind, contextVars, senderVars, brokerVars, question>>

(* Phase 1 is over and nothing is to be executed.                           *)
NothingToExecute ==
    /\ pc = "calls"
    /\ at > NCalls
    /\ Work = {}
    /\ CleanupRound
    /\ IF Denied THEN NextRound ELSE EndRun
    /\ UNCHANGED <<round, kind, at, call, senderVars, brokerVars, question>>

(* Phase 2: a goroutine per tool.                                           *)
Execute ==
    /\ pc = "calls"
    /\ at > NCalls
    /\ Work # {}
    /\ pc' = "execute"
    /\ call' = [c \in Calls |-> IF c \in Work THEN "running" ELSE call[c]]
    /\ UNCHANGED <<round, kind, at, contextVars, senderVars, brokerVars, question>>

(* Mutant: the first tool to return ends the phase.                         *)
AnyReturned == \E c \in Work : call[c] = "ran"

AllReturned == \A c \in Work : call[c] = "ran"

(* All tools have returned; a run cancelled meanwhile ends here, without    *)
(* saving their results.                                                    *)
Collect ==
    /\ pc = "execute"
    /\ AllReturned
    /\ CleanupRound
    /\ pc' = IF cancelled THEN "done" ELSE "persist"
    /\ UNCHANGED <<round, kind, at, call, senderVars, brokerVars, question>>

(* Phase 3: results are saved in the order of the calls.                    *)
Persist ==
    /\ pc = "persist"
    /\ IF Work = {}
         THEN NextRound /\ UNCHANGED call
         ELSE /\ \E c \in Work : /\ \A d \in Work : c <= d
                                 /\ call' = [call EXCEPT ![c] = "saved"]
              /\ UNCHANGED pc
    /\ UNCHANGED <<round, kind, at, contextVars, senderVars, brokerVars, question>>

(* Saving a result fails and the run ends: of the call just refused in      *)
(* Phase 1 (and then without cleanupRound), or of an executed one.          *)
SaveFails ==
    /\ \/ pc = "calls" /\ at > 1 /\ call[at - 1] = "refused"
       \/ pc = "persist" /\ Work # {}
    /\ pc' = "done"
    /\ UNCHANGED <<round, kind, at, call, contextVars, senderVars, brokerVars, question>>

-----------------------------------------------------------------------------
(* Executing tools, and the question broker.                                *)

ToolReturns(c) ==
    /\ call[c] = "running"
    /\ kind[c] # "ask" \/ question[c] \in {"received", "cancelled"}
    /\ call' = [call EXCEPT ![c] = "ran"]
    /\ UNCHANGED <<pc, round, kind, at, contextVars, senderVars, brokerVars, question>>

Asked(c, from, to) ==
    /\ call[c] = "running"
    /\ kind[c] = "ask"
    /\ question[c] = from
    /\ question' = [question EXCEPT ![c] = to]
    /\ UNCHANGED <<runVars, contextVars, senderVars, brokerVars>>

(* ask_user registers its question and waits for the answer or its context, *)
(* which is the run's and not the round's.                                  *)
RegisterQuestion(c) == Asked(c, "none", "pending")
ReceiveAnswer(c) == Asked(c, "answered", "received")
CancelQuestion(c) == cancelled /\ \E q \in {"pending", "taken", "answered"} : Asked(c, q, "cancelled")

(* Answer: out of the map under the mutex, then delivered; a question that  *)
(* is no longer pending is an error for the caller.  AnswerBatch does both  *)
(* under the mutex.                                                         *)
TakeQuestion(c) == Asked(c, "pending", "taken")
DeliverAnswer(c) == Asked(c, "taken", "answered")
AnswerBatch(c) == Asked(c, "pending", "answered")

-----------------------------------------------------------------------------
(* Everybody else.                                                          *)

(* ResolveBatch: validated, taken out of the map, sent and closed under the *)
(* mutex.                                                                   *)
ResolveBatch(a, v) ==
    /\ a \in pending
    /\ pending' = pending \ {a}
    /\ verdict' = [verdict EXCEPT ![a] = v]
    /\ approvalCloses' = [approvalCloses EXCEPT ![a] = @ + 1]
    /\ UNCHANGED <<runVars, contextVars, senderVars, question>>

(* SignalMidRunMessage appends the message and reads the cancel function    *)
(* under the runner's mutex, and calls it afterwards.                       *)
SignalMidRunMessage(s) ==
    /\ spc[s] = "idle"
    /\ pc # "done"
    /\ midRunMessages' = midRunMessages \cup {s}
    /\ held' = [held EXCEPT ![s] = midRunCancel]
    /\ spc' = [spc EXCEPT ![s] = IF midRunCancel = 0 THEN "done" ELSE "cancel"]
    /\ UNCHANGED <<runVars, contextVars, brokerVars, question>>

CallCancel(s) ==
    /\ spc[s] = "cancel"
    /\ spc' = [spc EXCEPT ![s] = "done"]
    /\ roundCancelled' = roundCancelled \cup {held[s]}
    /\ UNCHANGED <<runVars, cancelled, midRunCancel, midRunMessages, held, brokerVars,
                   question>>

(* The coordinator cancels the run's context.                               *)
Abort ==
    /\ pc # "done"
    /\ ~cancelled
    /\ cancelled' = TRUE
    /\ UNCHANGED <<runVars, roundCancelled, midRunCancel, senderVars, brokerVars, question>>

Finished ==
    /\ pc = "done"
    /\ \A s \in Senders : spc[s] # "cancel"
    /\ UNCHANGED vars

RunStep ==
    \/ Top \/ TopCancelled \/ RespondWithCalls \/ RespondWithoutCalls \/ StreamFails
    \/ ResolveTool \/ RegisterApproval \/ ReceiveVerdict \/ CancelApproval \/ CloseApproval
    \/ Interrupted \/ DeniedByAbort \/ NothingToExecute
    \/ Execute \/ Collect \/ Persist \/ SaveFails

ToolStep(c) == ToolReturns(c) \/ RegisterQuestion(c) \/ ReceiveAnswer(c) \/ CancelQuestion(c)

Next ==
    \/ RunStep
    \/ \E c \in Calls : ToolStep(c) \/ TakeQuestion(c) \/ DeliverAnswer(c) \/ AnswerBatch(c)
    \/ \E a \in Approvals, v \in {"approved", "rejected"} : ResolveBatch(a, v)
    \/ \E s \in Senders : SignalMidRunMessage(s) \/ CallCancel(s)
    \/ Abort
    \/ Finished

Spec == Init /\ [][Next]_vars

(* Goroutines are scheduled, the provider's stream ends and a tool that     *)
(* does not ask the user returns.  Nobody has to approve, answer, send or   *)
(* abort anything.                                                          *)
Fairness ==
    /\ WF_vars(RunStep)
    /\ \A c \in Calls : WF_vars(ToolStep(c)) /\ WF_vars(DeliverAnswer(c))
    /\ \A s \in Senders : WF_vars(CallCancel(s))

FairSpec == Spec /\ Fairness

-----------------------------------------------------------------------------
(* Types: every wait has its approval, every held function its round.       *)
TypeOK ==
    /\ pc \in {"top", "stream", "calls", "wait", "closing", "waited", "execute", "persist",
               "done"}
    /\ round \in Rounds \cup {0}
    /\ pc \notin {"top", "done"} => round # 0
    /\ pc = "top" => round < MaxRounds
    /\ kind \in [Calls -> AllKinds]
    /\ at \in 1..(NCalls + 1)
    /\ pc \in {"wait", "closing", "waited"} => at \in Calls
    /\ call \in [Calls -> {"new", "skipped", "refused", "queued", "running", "ran", "saved"}]
    /\ cancelled \in BOOLEAN
    /\ roundCancelled \subseteq Rounds
    /\ midRunCancel \in Rounds \cup {0}
    /\ midRunMessages \subseteq Senders
    /\ spc \in [Senders -> {"idle", "cancel", "done"}]
    /\ held \in [Senders -> Rounds \cup {0}]
    /\ \A s \in Senders : spc[s] = "cancel" => held[s] \in Rounds
    /\ pending \subseteq Approvals
    /\ verdict \in [Approvals -> {"none", "open", "approved", "rejected"}]
    /\ approvalCloses \in [Approvals -> Nat]
    /\ question \in [Calls -> {"none", "pending", "taken", "answered", "received", "cancelled"}]

Accepted == {"queued", "running", "ran", "saved"}

(* A call whose policy requires approval goes to execution only with an     *)
(* approved verdict of its own round, whatever mid-run messages and aborts  *)
(* end its wait (runner.go 745-790).                                        *)
ApprovedOnly ==
    \A c \in Calls :
        kind[c] = "approval" /\ call[c] \in Accepted => verdict[<<round, c>>] = "approved"

(* The broker holds no approval but the one the run is waiting for: nothing *)
(* is left for the user to resolve after an interrupted or aborted wait     *)
(* (waitForApproval with Cancel, runner.go 980-987).                        *)
NoOrphanApproval == pending \subseteq IF pc = "wait" THEN {This} ELSE {}

(* An approval's channel is closed at most once, by the resolver or by the  *)
(* cancelled wait: a second close panics (broker.go 66-72 and 80-86).       *)
ClosedOnce == \A a \in Approvals : approvalCloses[a] <= 1

(* Whoever is first of a verdict and a cancelled wait settles the approval, *)
(* alone and completely.                                                    *)
ApprovalsSettled == NoOrphanApproval /\ ClosedOnce

(* No tool of a round is still executing when the round is over, and a new  *)
(* round starts with the results of the previous one saved: the history the *)
(* next request is built from is complete (runner.go 844-905).              *)
RoundIsClosed ==
    /\ pc # "execute" => \A c \in Calls : call[c] # "running"
    /\ pc = "top" => \A c \in Calls : call[c] # "ran"

(* An aborted run ends, whatever it was waiting for: a verdict, an answer,  *)
(* its tools.                                                               *)
AbortEndsRun == cancelled ~> pc = "done"

(* A message sent while the calls of a round are resolved is taken up       *)
(* without anybody's verdict, if no call of the round asks the user         *)
(* (SignalMidRunMessage, runner.go 276-295).                                *)
MessageInterruptsApproval ==
    \A s \in Senders :
        (spc[s] = "cancel" /\ pc \in {"calls", "wait"} /\ \A c \in Calls : kind[c] # "ask")
            ~> (s \notin midRunMessages \/ pc = "done")

-----------------------------------------------------------------------------
(* What a comment says and the code does not do.                            *)

(* runner.go 276-278: if the runner is blocked on an approval or question   *)
(* wait, that wait is cancelled so the messages can be processed sooner.    *)
(* The tools run with the run's context, which a message does not cancel.   *)
MessageInterruptsQuestion ==
    \A s \in Senders :
        (spc[s] = "cancel" /\ pc = "execute") ~> (s \notin midRunMessages \/ pc = "done")
=============================================================================
