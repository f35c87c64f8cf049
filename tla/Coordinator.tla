---------------------------- MODULE Coordinator ----------------------------
(***************************************************************************)
(* The run coordinator of internal/coordinators, for ONE conversation: the *)
(* maps of a Coordinator are keyed by conversation, so two conversations   *)
(* share nothing but the lifecycle manager.                                *)
(*                                                                         *)
(* Three kinds of goroutines interleave.                                   *)
(*   - Request goroutines: the body of Run (a user message) and            *)
(*     CompactConversation, followed in pc.                                *)
(*   - processQueue goroutines, one per conversationRunner that processes, *)
(*     followed in wpc.  The agent run inside (runners.Runner.executeRun)  *)
(*     appears as the operations the coordinator can see: it persists its  *)
(*     user message, drains mid-run messages between rounds, and returns.  *)
(*   - Callers of AbortRun / AbortConversationRun, followed in apc.        *)
(* A step is what the code does under one mutex hold or one sync.Map call. *)
(*                                                                         *)
(* A conversationRunner, and a runners.Runner, is named by the request     *)
(* that allocated it: a request allocates at most one of each.             *)
(***************************************************************************)
EXTENDS Integers, Sequences, FiniteSets

CONSTANTS
    Runs,          \* calls of Run: one user message each
    Compacts,      \* calls of CompactConversation
    Aborters,      \* calls of AbortRun or AbortConversationRun
    None,          \* nil
    MayPanic,      \* may the code under processQueue panic (deferutil.Recover)?
    StoreMayFail,  \* may persisting a mid-run message fail?
    MaySchedule    \* may a tool call ScheduleLifecycle?

Requests == Runs \cup Compacts

(* A queuedMessage: the request's own, or a mid-run message re-queued by    *)
(* processQueue under a result channel nobody reads.                        *)
Entry == [request : Requests, spilled : BOOLEAN]

ASSUME ConstantsAssumption ==
    /\ Runs \cap Compacts = {}
    /\ None \notin Requests /\ None \notin Entry
    /\ MayPanic \in BOOLEAN /\ StoreMayFail \in BOOLEAN /\ MaySchedule \in BOOLEAN

VARIABLES
    pc,             \* program counter of each request goroutine
    inst,           \* the conversationRunner the request got from LoadOrStore
    target,         \* the Runner read under the mutex by the injection path
    results,        \* everything ever sent on the request's resultChan
    handle,         \* what the RunHandle was resolved with
    latestRun,      \* the last run to enter the index (history)
    activeRunners,  \* the map entry: a conversationRunner or None
    tracked,        \* keys of activeRunIdConversationIds
    activeRun,      \* the entry of activeConversationIdRunIds
    previousRunId,  \* what Swap returned to each run
    runner,         \* conversationRunner.runner
    queue,          \* conversationRunner.queue
    processing,     \* conversationRunner.processing
    aborted,        \* conversationRunner.aborted
    runContext,     \* the context conversationRunner.cancel would cancel
    wpc,            \* program counter of each processQueue goroutine
    current,        \* the queuedMessage that goroutine executes
    outcome,        \* its messageResult, before it is sent
    midRunMessages, \* Runner.midRunMessages
    transcript,     \* user messages persisted in the conversation, in order
    pendingAction,  \* lifecycle.manager.pendingAction: the run that scheduled it
    lifecycleChan,  \* lifecycle.manager.channel, capacity 1, not yet read
    apc,            \* program counter of each abort call
    atarget         \* the conversationRunner an abort call has loaded

requestVars == <<pc, inst, target, results, handle, latestRun>>
indexVars == <<tracked, activeRun, previousRunId>>
instanceVars == <<runner, queue, processing, aborted, runContext>>
workerVars == <<wpc, current, outcome>>
runnerVars == <<midRunMessages, transcript>>
lifecycleVars == <<pendingAction, lifecycleChan>>
abortVars == <<apc, atarget>>
vars == <<requestVars, activeRunners, indexVars, instanceVars, workerVars,
          runnerVars, lifecycleVars, abortVars>>

(* The two kinds of queue entries for request r.                            *)
Own(r) == [request |-> r, spilled |-> FALSE]
Spilled(r) == [request |-> r, spilled |-> TRUE]

(* messageResult, by the branch of Run's goroutine that it selects.         *)
Result == {"injected", "canceled", "aborted", "error", "ok"}

InQueue(e, i) == \E n \in DOMAIN queue[i] : queue[i][n] = e
Elements(s) == {s[n] : n \in DOMAIN s}
Compact(e) == e # None /\ e.request \in Compacts

Init ==
    /\ pc = [r \in Requests |-> "idle"]
    /\ inst = [r \in Requests |-> None]
    /\ target = [r \in Requests |-> None]
    /\ results = [r \in Requests |-> <<>>]
    /\ handle = [r \in Runs |-> None]
    /\ latestRun = None
    /\ activeRunners = None
    /\ tracked = {}
    /\ activeRun = None
    /\ previousRunId = [r \in Runs |-> None]
    /\ runner = [i \in Requests |-> None]
    /\ queue = [i \in Requests |-> <<>>]
    /\ processing = [i \in Requests |-> FALSE]
    /\ aborted = [i \in Requests |-> FALSE]
    /\ runContext = [i \in Requests |-> "none"]
    /\ wpc = [i \in Requests |-> "none"]
    /\ current = [i \in Requests |-> None]
    /\ outcome = [i \in Requests |-> "ok"]
    /\ midRunMessages = [q \in Requests |-> <<>>]
    /\ transcript = <<>>
    /\ pendingAction = None
    /\ lifecycleChan = None
    /\ apc = [a \in Aborters |-> "idle"]
    /\ atarget = [a \in Aborters |-> None]

-----------------------------------------------------------------------------
(* Request goroutines: Run, CompactConversation, enqueueMessage.            *)

(* Run up to the start of its goroutine, after the validations that return  *)
(* early without touching the coordinator: the run enters both indexes.     *)
Run(r) ==
    /\ pc[r] = "idle"
    /\ pc' = [pc EXCEPT ![r] = "load"]
    /\ tracked' = tracked \cup {r}
    /\ previousRunId' = [previousRunId EXCEPT ![r] = activeRun]
    /\ activeRun' = r
    /\ latestRun' = r
    /\ UNCHANGED <<inst, target, results, handle, activeRunners, instanceVars,
                   workerVars, runnerVars, lifecycleVars, abortVars>>

CompactConversation(r) ==
    /\ pc[r] = "idle"
    /\ pc' = [pc EXCEPT ![r] = "load"]
    /\ UNCHANGED <<inst, target, results, handle, latestRun, activeRunners, indexVars,
                   instanceVars, workerVars, runnerVars, lifecycleVars, abortVars>>

(* enqueueMessage, first statement: LoadOrStore happens before, and outside, *)
(* the conversationRunner's mutex.                                           *)
LoadOrStore(r) ==
    /\ pc[r] = "load"
    /\ pc' = [pc EXCEPT ![r] = "enqueue"]
    /\ inst' = [inst EXCEPT ![r] = IF activeRunners = None THEN r ELSE activeRunners]
    /\ activeRunners' = inst'[r]
    /\ UNCHANGED <<target, results, handle, latestRun, indexVars, instanceVars,
                   workerVars, runnerVars, lifecycleVars, abortVars>>

(* enqueueMessage under the mutex: an aborted conversationRunner refuses.   *)
EnqueueRefused(r) ==
    /\ pc[r] = "enqueue"
    /\ aborted[inst[r]]
    /\ pc' = [pc EXCEPT ![r] = "wait"]
    /\ results' = [results EXCEPT ![r] = Append(@, "canceled")]
    /\ UNCHANGED <<inst, target, handle, latestRun, activeRunners, indexVars, instanceVars,
                   workerVars, runnerVars, lifecycleVars, abortVars>>

(* Mutant: the nil check on the runner is missing.                          *)
InjectableNilUnchecked(r) == processing[inst[r]] /\ r \notin Compacts

(* The condition of the mid-run injection path.                             *)
Injectable(r) ==
    processing[inst[r]] /\ runner[inst[r]] # None /\ r \notin Compacts

(* The injection path reads the runner and releases the mutex ...           *)
EnqueueInject(r) ==
    /\ pc[r] = "enqueue"
    /\ ~aborted[inst[r]]
    /\ Injectable(r)
    /\ pc' = [pc EXCEPT ![r] = "signal"]
    /\ target' = [target EXCEPT ![r] = runner[inst[r]]]
    /\ UNCHANGED <<inst, results, handle, latestRun, activeRunners, indexVars, instanceVars,
                   workerVars, runnerVars, lifecycleVars, abortVars>>

(* ... and only then signals it, and reports the message as injected.       *)
SignalMidRunMessage(r) ==
    /\ pc[r] = "signal"
    /\ midRunMessages' = [midRunMessages EXCEPT ![target[r]] = Append(@, r)]
    /\ results' = [results EXCEPT ![r] = Append(@, "injected")]
    /\ pc' = [pc EXCEPT ![r] = "wait"]
    /\ UNCHANGED <<inst, target, handle, latestRun, activeRunners, indexVars, instanceVars,
                   workerVars, transcript, lifecycleVars, abortVars>>

(* Otherwise the message joins the queue; the first one of an idle          *)
(* conversationRunner creates the runner (nil when the agent cannot be      *)
(* read) and starts processQueue.                                           *)
EnqueueAppend(r) ==
    LET i == inst[r] IN
    /\ pc[r] = "enqueue"
    /\ ~aborted[i]
    /\ ~Injectable(r)
    /\ pc' = [pc EXCEPT ![r] = "wait"]
    /\ queue' = [queue EXCEPT ![i] = Append(@, Own(r))]
    /\ IF processing[i]
         THEN UNCHANGED <<processing, runner, wpc>>
         ELSE /\ processing' = [processing EXCEPT ![i] = TRUE]
              /\ \E created \in {r, None} : runner' = [runner EXCEPT ![i] = created]
              /\ wpc' = [wpc EXCEPT ![i] = "next"]
    /\ UNCHANGED <<inst, target, results, handle, latestRun, activeRunners, indexVars,
                   aborted, runContext, current, outcome, runnerVars, lifecycleVars,
                   abortVars>>

(* dispatchMessage returns; Run's goroutine broadcasts the matching event   *)
(* and resolves the handle.  CompactConversation returns to its caller.     *)
ReceiveResult(r) ==
    /\ pc[r] = "wait"
    /\ results[r] # <<>>
    /\ IF r \in Runs
         THEN /\ pc' = [pc EXCEPT ![r] = "cleanup"]
              /\ handle' = [handle EXCEPT ![r] = IF @ = None THEN Head(results[r]) ELSE @]
         ELSE pc' = [pc EXCEPT ![r] = "done"] /\ UNCHANGED handle
    /\ UNCHANGED <<inst, target, results, latestRun, activeRunners, indexVars, instanceVars,
                   workerVars, runnerVars, lifecycleVars, abortVars>>

(* The caller of CompactConversation gives up (ctx.Done()).                 *)
CompactGivesUp(r) ==
    /\ pc[r] = "wait"
    /\ pc' = [pc EXCEPT ![r] = "done"]
    /\ UNCHANGED <<inst, target, results, handle, latestRun, activeRunners, indexVars,
                   instanceVars, workerVars, runnerVars, lifecycleVars, abortVars>>

(* Mutant: the entry is restored or deleted without comparing it first.     *)
ReleasedUncompared(r) ==
    IF handle[r] = "injected" THEN previousRunId[r] ELSE None

(* The index entry a finished run leaves: an injected one restores what its *)
(* Swap displaced (CompareAndSwap), any other removes itself                *)
(* (CompareAndDelete); both only if the entry is still its own.             *)
ReleasedIndex(r) ==
    IF activeRun # r THEN activeRun
    ELSE IF handle[r] = "injected" THEN previousRunId[r]
    ELSE None

(* Mutant: the action is cleared and not delivered.                         *)
ClearPendingLifecycle == pendingAction' = None /\ UNCHANGED lifecycleChan

(* FirePendingLifecycle: deliver the pending action, dropped when the       *)
(* channel of capacity 1 is full, and clear it.                             *)
FirePendingLifecycle ==
    /\ pendingAction' = None
    /\ lifecycleChan' = IF lifecycleChan = None THEN pendingAction ELSE lifecycleChan

(* The deferred cleanup of Run's goroutine, after the handle was resolved.  *)
Cleanup(r) ==
    /\ pc[r] = "cleanup"
    /\ pc' = [pc EXCEPT ![r] = "done"]
    /\ tracked' = tracked \ {r}
    /\ activeRun' = ReleasedIndex(r)
    /\ FirePendingLifecycle
    /\ UNCHANGED <<inst, target, results, handle, latestRun, activeRunners, previousRunId,
                   instanceVars, workerVars, runnerVars, abortVars>>

-----------------------------------------------------------------------------
(* processQueue goroutines.                                                 *)

(* Mutant: the length of the queue is not looked at under the mutex.        *)
UncheckedQueue(i) == TRUE

QueueDone(i) == queue[i] = <<>>

(* Mutant: the map entry is left behind.                                    *)
KeptEntry == activeRunners

(* activeRunners.Delete(conversationId), which does not look at the value.  *)
DeletedEntry == None

(* The top of the loop, queue empty: the goroutine ends, and the map entry  *)
(* of the conversation is deleted, whatever it holds.                       *)
ProcessExit(i) ==
    /\ wpc[i] = "next"
    /\ QueueDone(i)
    /\ wpc' = [wpc EXCEPT ![i] = "none"]
    /\ processing' = [processing EXCEPT ![i] = FALSE]
    /\ runner' = [runner EXCEPT ![i] = None]
    /\ activeRunners' = DeletedEntry
    /\ UNCHANGED <<requestVars, indexVars, queue, aborted, runContext, current, outcome,
                   runnerVars, lifecycleVars, abortVars>>

(* The top of the loop, queue not empty: dequeue.  Only a message gets a    *)
(* context that conversationRunner.cancel reaches; without a runner the     *)
(* result is an error at once.                                              *)
ProcessDequeue(i) ==
    /\ wpc[i] = "next"
    /\ queue[i] # <<>>
    /\ current' = [current EXCEPT ![i] = Head(queue[i])]
    /\ queue' = [queue EXCEPT ![i] = Tail(@)]
    /\ runContext' = [runContext EXCEPT ![i] = IF Compact(Head(queue[i])) THEN @ ELSE "live"]
    /\ wpc' = [wpc EXCEPT ![i] = IF runner[i] = None THEN "returned" ELSE "run"]
    /\ outcome' = [outcome EXCEPT ![i] = IF runner[i] = None THEN "error" ELSE "ok"]
    /\ UNCHANGED <<requestVars, activeRunners, indexVars, runner, processing, aborted,
                   runnerVars, lifecycleVars, abortVars>>

(* executeRun appends the run's user message and enters the tool loop.      *)
RunnerBegin(i) ==
    /\ wpc[i] = "run"
    /\ ~Compact(current[i])
    /\ transcript' = Append(transcript, current[i].request)
    /\ wpc' = [wpc EXCEPT ![i] = "rounds"]
    /\ UNCHANGED <<requestVars, activeRunners, indexVars, instanceVars, current, outcome,
                   midRunMessages, lifecycleVars, abortVars>>

(* Before a request, and again after the stream, the loop checks ctx.Err(). *)
RunnerCheck(i) ==
    /\ wpc[i] = "rounds"
    /\ runContext[i] = "live"
    /\ wpc' = [wpc EXCEPT ![i] = "checked"]
    /\ UNCHANGED <<requestVars, activeRunners, indexVars, instanceVars, current, outcome,
                   runnerVars, lifecycleVars, abortVars>>

(* Mutant: the messages are read as PendingMidRunMessages does.             *)
CopyMidRunMessages(q) == midRunMessages

(* DrainMidRunMessages empties the list it returns.                         *)
DrainMidRunMessages(q) == [midRunMessages EXCEPT ![q] = <<>>]

(* Past the check it takes the pending mid-run messages and persists them.  *)
(* When the store fails, the run ends with an error and the rest is dropped.*)
RunnerDrain(i) ==
    LET pending == midRunMessages[runner[i]] IN
    /\ wpc[i] = "checked"
    /\ pending # <<>>
    /\ midRunMessages' = DrainMidRunMessages(runner[i])
    /\ \/ /\ transcript' = transcript \o pending
          /\ wpc' = [wpc EXCEPT ![i] = "rounds"]
          /\ UNCHANGED outcome
       \/ /\ StoreMayFail
          /\ \E n \in 0..(Len(pending) - 1) :
                transcript' = transcript \o SubSeq(pending, 1, n)
          /\ wpc' = [wpc EXCEPT ![i] = "returned"]
          /\ outcome' = [outcome EXCEPT ![i] = "error"]
    /\ UNCHANGED <<requestVars, activeRunners, indexVars, instanceVars, current,
                   lifecycleVars, abortVars>>

(* A tool of the run (node_restart, node_shutdown) schedules a lifecycle    *)
(* action that overwrites any earlier one.                                  *)
ScheduleLifecycle(i) ==
    /\ MaySchedule
    /\ wpc[i] = "rounds"
    /\ pendingAction # current[i].request
    /\ pendingAction' = current[i].request
    /\ UNCHANGED <<requestVars, activeRunners, indexVars, instanceVars, workerVars,
                   runnerVars, lifecycleChan, abortVars>>

(* executeRun returns a result.  Behind an answer without tool calls it has *)
(* drained and found nothing; a round in which no call names a known tool,  *)
(* and the last of the rounds, end the loop without looking for messages.   *)
(* The runner's CompactConversation never drains.                           *)
RunnerFinish(i) ==
    /\ \/ wpc[i] = "checked"
       \/ wpc[i] = "run" /\ Compact(current[i])
    /\ wpc' = [wpc EXCEPT ![i] = "returned"]
    /\ UNCHANGED <<requestVars, activeRunners, indexVars, instanceVars, current, outcome,
                   runnerVars, lifecycleVars, abortVars>>

(* The run or compaction ends with an error at any point: no provider, a    *)
(* store or stream error, a cancelled context.                              *)
RunnerFail(i) ==
    /\ wpc[i] \in {"run", "rounds"}
    /\ wpc' = [wpc EXCEPT ![i] = "returned"]
    /\ outcome' = [outcome EXCEPT ![i] = "error"]
    /\ UNCHANGED <<requestVars, activeRunners, indexVars, instanceVars, current,
                   runnerVars, lifecycleVars, abortVars>>

(* A panic below processQueue: Recover logs it and the goroutine is gone.   *)
RunnerPanic(i) ==
    /\ MayPanic
    /\ wpc[i] \in {"run", "rounds"}
    /\ wpc' = [wpc EXCEPT ![i] = "dead"]
    /\ UNCHANGED <<requestVars, activeRunners, indexVars, instanceVars, current, outcome,
                   runnerVars, lifecycleVars, abortVars>>

(* The result is tagged when the conversationRunner was aborted, and sent.  *)
SendResult(i) ==
    LET result == IF aborted[i] THEN "aborted" ELSE outcome[i] IN
    /\ wpc[i] = "returned"
    /\ wpc' = [wpc EXCEPT ![i] = "spill"]
    /\ results' = IF current[i].spilled THEN results
                  ELSE [results EXCEPT ![current[i].request] = Append(@, result)]
    /\ runContext' = [runContext EXCEPT ![i] = "none"]
    /\ UNCHANGED <<pc, inst, target, handle, latestRun, activeRunners, indexVars, runner, queue,
                   processing, aborted, current, outcome, runnerVars, lifecycleVars,
                   abortVars>>

(* Mutant: no safety net.                                                   *)
RequeuedNothing(i) == queue[i]

(* The queue with the messages the runner did not take added at the end.    *)
Requeued(i) ==
    LET left == midRunMessages[runner[i]] IN
    queue[i] \o [n \in 1..Len(left) |-> Spilled(left[n])]

(* Mid-run messages the runner did not take are re-queued.                  *)
SpillMidRunMessages(i) ==
    /\ wpc[i] = "spill"
    /\ wpc' = [wpc EXCEPT ![i] = "next"]
    /\ current' = [current EXCEPT ![i] = None]
    /\ IF runner[i] = None
         THEN UNCHANGED <<queue, midRunMessages>>
         ELSE /\ queue' = [queue EXCEPT ![i] = Requeued(i)]
              /\ midRunMessages' = DrainMidRunMessages(runner[i])
    /\ UNCHANGED <<requestVars, activeRunners, indexVars, runner, processing, aborted,
                   runContext, outcome, transcript, lifecycleVars, abortVars>>

-----------------------------------------------------------------------------
(* AbortRun, AbortConversationRun.                                          *)

(* The lookup in activeRunners, outside the mutex; no entry, nothing to do. *)
AbortConversationRun(a) ==
    /\ apc[a] = "idle"
    /\ atarget' = [atarget EXCEPT ![a] = activeRunners]
    /\ apc' = [apc EXCEPT ![a] = IF activeRunners = None THEN "done" ELSE "loaded"]
    /\ UNCHANGED <<requestVars, activeRunners, indexVars, instanceVars, workerVars,
                   runnerVars, lifecycleVars>>

AbortRun(a, r) ==
    /\ r \in tracked
    /\ AbortConversationRun(a)

(* Mutant: the queued messages are discarded without an answer.             *)
DiscardedResults(i) == results

(* What the drain of the queue leaves on the result channels.               *)
DrainedResults(i) ==
    [r \in Requests |-> IF InQueue(Own(r), i) THEN Append(results[r], "canceled")
                        ELSE results[r]]

(* Mutant: the queue is answered but not cleared.                           *)
UnclearedQueue(i) == queue

ClearedQueue(i) == [queue EXCEPT ![i] = <<>>]

(* Under the mutex: mark, cancel the running context, reject the queue.     *)
AbortLocked(a) ==
    LET i == atarget[a] IN
    /\ apc[a] = "loaded"
    /\ apc' = [apc EXCEPT ![a] = "done"]
    /\ aborted' = [aborted EXCEPT ![i] = TRUE]
    /\ runContext' = [runContext EXCEPT ![i] = IF @ = "live" THEN "cancelled" ELSE @]
    /\ results' = DrainedResults(i)
    /\ queue' = ClearedQueue(i)
    /\ UNCHANGED <<pc, inst, target, handle, latestRun, activeRunners, indexVars, runner,
                   processing, workerVars, runnerVars, lifecycleVars, atarget>>

-----------------------------------------------------------------------------
(* Nothing is left to do: every call returned, every goroutine ended.       *)
Finished ==
    /\ \A r \in Requests : pc[r] \in {"idle", "done"}
    /\ \A i \in Requests : wpc[i] = "none"
    /\ \A a \in Aborters : apc[a] \in {"idle", "done"}
    /\ UNCHANGED vars

RequestStep(r) ==
    \/ LoadOrStore(r)
    \/ EnqueueRefused(r)
    \/ EnqueueInject(r)
    \/ SignalMidRunMessage(r)
    \/ EnqueueAppend(r)
    \/ ReceiveResult(r)

WorkerStep(i) ==
    \/ ProcessExit(i)
    \/ ProcessDequeue(i)
    \/ RunnerBegin(i)
    \/ RunnerCheck(i)
    \/ RunnerDrain(i)
    \/ RunnerFinish(i)
    \/ RunnerFail(i)
    \/ SendResult(i)
    \/ SpillMidRunMessages(i)

Next ==
    \/ \E r \in Runs : Run(r) \/ Cleanup(r)
    \/ \E r \in Compacts : CompactConversation(r) \/ CompactGivesUp(r)
    \/ \E r \in Requests : RequestStep(r)
    \/ \E i \in Requests : WorkerStep(i) \/ ScheduleLifecycle(i) \/ RunnerPanic(i)
    \/ \E a \in Aborters : AbortConversationRun(a) \/ AbortLocked(a)
    \/ \E a \in Aborters, r \in Runs : AbortRun(a, r)
    \/ Finished

Spec == Init /\ [][Next]_vars

(* Goroutines that were started keep being scheduled, and an agent run      *)
(* returns (250 rounds at most).  Nobody has to call anything.              *)
Fairness ==
    /\ \A r \in Requests : WF_vars(RequestStep(r))
    /\ \A r \in Runs : WF_vars(Cleanup(r))
    /\ \A i \in Requests : WF_vars(WorkerStep(i))
    /\ \A a \in Aborters : WF_vars(AbortLocked(a))

FairSpec == Spec /\ Fairness

-----------------------------------------------------------------------------
(* What the coordinator guarantees.                                         *)

RequestTypes ==
    /\ pc \in [Requests -> {"idle", "load", "enqueue", "signal", "wait", "cleanup", "done"}]
    /\ inst \in [Requests -> Requests \cup {None}]
    /\ target \in [Requests -> Requests \cup {None}]
    /\ results \in [Requests -> Seq(Result)]
    /\ handle \in [Runs -> Result \cup {None}]
    /\ latestRun \in Runs \cup {None}

MapTypes ==
    /\ activeRunners \in Requests \cup {None}
    /\ tracked \subseteq Runs
    /\ activeRun \in Runs \cup {None}
    /\ previousRunId \in [Runs -> Runs \cup {None}]

InstanceTypes ==
    /\ runner \in [Requests -> Requests \cup {None}]
    /\ queue \in [Requests -> Seq(Entry)]
    /\ processing \in [Requests -> BOOLEAN]
    /\ aborted \in [Requests -> BOOLEAN]
    /\ runContext \in [Requests -> {"none", "live", "cancelled"}]

WorkerTypes ==
    /\ wpc \in [Requests -> {"none", "next", "run", "rounds", "checked", "returned",
                             "spill", "dead"}]
    /\ current \in [Requests -> Entry \cup {None}]
    /\ outcome \in [Requests -> {"error", "ok"}]

RunnerTypes ==
    /\ midRunMessages \in [Requests -> Seq(Runs)]
    /\ transcript \in Seq(Runs)

OtherTypes ==
    /\ pendingAction \in Runs \cup {None}
    /\ lifecycleChan \in Runs \cup {None}
    /\ apc \in [Aborters -> {"idle", "loaded", "done"}]
    /\ atarget \in [Aborters -> Requests \cup {None}]

(* No nil pointer where the code dereferences one: the conversationRunner   *)
(* an enqueue or an abort locks, the runner a mid-run message is signalled  *)
(* to, the runner and the message being executed.                           *)
NilFree ==
    /\ \A r \in Requests : pc[r] = "enqueue" => inst[r] # None
    /\ \A r \in Requests : pc[r] = "signal" => target[r] # None /\ r \in Runs
    /\ \A i \in Requests : wpc[i] \in {"run", "rounds", "checked"} => runner[i] # None
    /\ \A i \in Requests : wpc[i] \in {"run", "rounds", "checked", "returned"} =>
                              current[i] # None
    /\ \A i \in Requests : wpc[i] \in {"rounds", "checked"} => current[i].request \in Runs
    /\ \A a \in Aborters : apc[a] = "loaded" => atarget[a] # None

(* Every variable keeps its type and no nil pointer is dereferenced.        *)
TypeOK ==
    /\ RequestTypes /\ MapTypes /\ InstanceTypes /\ WorkerTypes /\ RunnerTypes /\ OtherTypes
    /\ NilFree

(* The processing flag, which decides whether enqueueMessage starts a       *)
(* processQueue goroutine, is set exactly while one exists (a panicked one  *)
(* included), so no conversationRunner ever has a queue nobody serves.      *)
ProcessorMatchesFlag ==
    \A i \in Requests :
        /\ processing[i] <=> wpc[i] # "none"
        /\ queue[i] # <<>> => processing[i]

(* No request is sent a second result.  resultChan has capacity 1 and one   *)
(* reader, so a second send would block its sender for ever: processQueue,  *)
(* or AbortConversationRun with the mutex held.                             *)
OneResult == \A r \in Requests : Len(results[r]) <= 1

(* The strengthening that makes OneResult inductive: a queuedMessage of r   *)
(* is in one queue position or with one processQueue goroutine, never in    *)
(* both, only after enqueueMessage and only while r has no result.          *)
HoldsOwn(i, r) ==
    wpc[i] \in {"run", "rounds", "checked", "returned", "dead"} /\ current[i] = Own(r)

NoOwnEntry(r) == \A i \in Requests : ~InQueue(Own(r), i) /\ ~HoldsOwn(i, r)

OwnEntryUnique(r) ==
    /\ \A i, j \in Requests : \A m \in DOMAIN queue[i], n \in DOMAIN queue[j] :
          queue[i][m] = Own(r) /\ queue[j][n] = Own(r) => i = j /\ m = n
    /\ \A i, j \in Requests : HoldsOwn(i, r) => ~InQueue(Own(r), j)
    /\ \A i, j \in Requests : HoldsOwn(i, r) /\ HoldsOwn(j, r) => i = j

ResultInv ==
    \A r \in Requests :
        /\ Len(results[r]) <= 1
        /\ pc[r] \in {"idle", "load", "enqueue", "signal"} =>
              results[r] = <<>> /\ NoOwnEntry(r)
        /\ results[r] # <<>> => NoOwnEntry(r)
        /\ OwnEntryUnique(r)

(* What a conversationRunner in the map waits for, unless it was aborted:   *)
(* its processQueue goroutine, or a request that is about to start one.     *)
EntryInv ==
    activeRunners # None =>
        \/ aborted[activeRunners]
        \/ wpc[activeRunners] # "none"
        \/ \E r \in Requests : pc[r] = "enqueue" /\ inst[r] = activeRunners

(* A Runner belongs to the conversationRunner of the request that made it,  *)
(* so two conversationRunners never share one.                              *)
RunnerInv ==
    \A i \in Requests : runner[i] # None =>
        inst[runner[i]] = i /\ pc[runner[i]] \notin {"idle", "load", "enqueue"}

(* Every place that holds message r: a queue, a processQueue goroutine that *)
(* has not begun it, the mid-run list of a runner, the transcript.          *)
Queued(r) ==
    UNION { {<<"queue", i, n>> : n \in {m \in DOMAIN queue[i] : queue[i][m].request = r}}
              : i \in Requests }
Taken(r) ==
    {<<"begin", i, 0>> : i \in {j \in Requests : wpc[j] = "run" /\ current[j].request = r}}
Pending(r) ==
    UNION { {<<"midrun", q, n>> : n \in {m \in DOMAIN midRunMessages[q] :
                                              midRunMessages[q][m] = r}} : q \in Requests }
Saved(r) ==
    {<<"saved", None, n>> : n \in {m \in DOMAIN transcript : transcript[m] = r}}

Places(r) == Queued(r) \cup Taken(r) \cup Pending(r) \cup Saved(r)

(* A message is in one place at most, through injection, draining, spilling *)
(* and aborting, whatever overlaps: it is never persisted or run twice.     *)
SinglePlace == \A r \in Runs : \A p, q \in Places(r) : p = q

(* The strengthening that makes SinglePlace inductive: before its request   *)
(* enqueues or signals it, a message is nowhere.                            *)
PlaceInv ==
    /\ SinglePlace
    /\ \A r \in Runs : pc[r] \in {"idle", "load", "enqueue", "signal"} => Places(r) = {}

(* A message whose sender was told "canceled" (rejected by an abort, or     *)
(* refused by an aborted conversationRunner) is nowhere and never will be:  *)
(* it was not and will not be run.                                          *)
RejectedNeverRuns ==
    \A r \in Runs : results[r] # <<>> /\ Head(results[r]) = "canceled" => Places(r) = {}

(* The last run to start stays the conversation's active run until its own  *)
(* cleanup: an older run that finishes late does not clobber the entry.     *)
LatestRunVisible ==
    latestRun # None /\ pc[latestRun] # "done" => activeRun = latestRun

(* A mid-run message that reached a runner whose processQueue goroutine is  *)
(* alive is never dropped by a step: it stays pending, is persisted or is   *)
(* re-queued.  (With a store that does not fail.)                           *)
PendingNeverDropped ==
    [][\A i \in Requests : runner[i] # None /\ wpc[i] # "none" =>
         \A r \in Elements(midRunMessages[runner[i]]) :
            \/ r \in Elements(midRunMessages'[runner[i]])
            \/ r \in Elements(transcript')
            \/ Spilled(r) \in Elements(queue'[i])]_vars

(* Every run that is started has its handle resolved: RunHandle.Wait        *)
(* returns, whatever is queued, injected or aborted meanwhile.              *)
EveryRunResolves == \A r \in Runs : pc[r] = "load" ~> handle[r] # None

(* A restart or shutdown that a run schedules before its handle is resolved *)
(* is delivered, whichever run's end delivers it (coordinator.go 235).      *)
ScheduledFires ==
    \A r \in Runs : pendingAction = r /\ handle[r] = None ~> lifecycleChan # None

(* What a run owes to others comes: its answer and the action it scheduled. *)
RunsSettle == EveryRunResolves /\ ScheduledFires

AtRest ==
    /\ \A r \in Requests : pc[r] \in {"idle", "done"}
    /\ \A i \in Requests : wpc[i] = "none"

(* When all work is over the conversation has no entry in activeRunners,    *)
(* however requests and exits overlapped; only an abort can leave one.      *)
RestIsClean ==
    AtRest => activeRunners = None \/ aborted[activeRunners]

-----------------------------------------------------------------------------
(* What a comment, a document or a test says and the code does not do.      *)

Executing(i) == wpc[i] \in {"run", "rounds", "checked"}

(* docs/architecture.md: the runner has per-conversation serialization.     *)
Serialized == \A i, j \in Requests : Executing(i) /\ Executing(j) => i = j

(* coordinator.go, the safety net of processQueue: a mid-run message that   *)
(* arrives after the last drain is re-queued, so what was reported as       *)
(* injected is in the hands of a live goroutine.                            *)
InjectedIsServed ==
    \A r \in Runs, q \in Requests : r \in Elements(midRunMessages[q]) =>
        \E i \in Requests : runner[i] = q /\ wpc[i] # "none"

(* coordinator.go: AbortConversationRun cancels the current run and rejects *)
(* all queued messages, so an aborted conversationRunner starts nothing.    *)
NothingStartsAfterAbort == \A i \in Requests : aborted[i] => runContext[i] # "live"

(* docs/api.md: conversations.abort cancels an in-progress run.  It should  *)
(* not outlive the run: when all work is over, no conversationRunner marked *)
(* as aborted is left in the map, where it would refuse every later message.*)
AbortedIsRetired ==
    AtRest /\ activeRunners # None => ~aborted[activeRunners]

(* coordinator_test.go: activeRunId should be empty after completion.       *)
IndexEmptyAfterCompletion ==
    (\A r \in Runs : pc[r] \in {"idle", "done"}) => activeRun = None

(* lifecycle.go: a scheduled action fires after the current agent run       *)
(* completes.                                                               *)
FiresAfterRun ==
    \A i \in Requests : lifecycleChan # None /\ wpc[i] \in {"rounds", "checked"} =>
        current[i].request # lifecycleChan
=============================================================================
