------------------------- MODULE CoordinatorProofs -------------------------
(* Proofs about the coordinator, for every set of requests and abort calls. *)
EXTENDS Coordinator, TLAPS

USE DEF requestVars, indexVars, instanceVars, workerVars, runnerVars, lifecycleVars, abortVars

(* The initial state is well-typed.                                         *)
LEMMA TypeInit == Init => TypeOK
  BY ConstantsAssumption DEF Init, TypeOK, RequestTypes, MapTypes, InstanceTypes, WorkerTypes,
     RunnerTypes, OtherTypes, NilFree, Requests, Result, Entry

(* A step of a request goroutine (enqueueMessage, Run) keeps the types.     *)
LEMMA TypeRequest ==
  ASSUME TypeOK, NEW r \in Requests, RequestStep(r)
  PROVE  TypeOK'
<1>1. CASE LoadOrStore(r)
  <2>1. (RequestTypes /\ MapTypes)'
    BY <1>1 DEF LoadOrStore, TypeOK, RequestTypes, MapTypes
  <2>2. (InstanceTypes /\ WorkerTypes /\ RunnerTypes /\ OtherTypes)'
    BY <1>1 DEF LoadOrStore, TypeOK, InstanceTypes, WorkerTypes, RunnerTypes, OtherTypes
  <2>3. NilFree'
    BY <1>1, ConstantsAssumption DEF LoadOrStore, TypeOK, RequestTypes, MapTypes, NilFree
  <2>. QED BY <2>1, <2>2, <2>3 DEF TypeOK
<1>2. CASE EnqueueRefused(r)
  <2>1. (RequestTypes /\ MapTypes)'
    BY <1>2 DEF EnqueueRefused, TypeOK, RequestTypes, MapTypes, Result
  <2>2. (InstanceTypes /\ WorkerTypes /\ RunnerTypes /\ OtherTypes)'
    BY <1>2 DEF EnqueueRefused, TypeOK, InstanceTypes, WorkerTypes, RunnerTypes, OtherTypes
  <2>3. NilFree'
    BY <1>2 DEF EnqueueRefused, TypeOK, RequestTypes, NilFree
  <2>. QED BY <2>1, <2>2, <2>3 DEF TypeOK
<1>3. CASE EnqueueInject(r)
  <2>1. (RequestTypes /\ MapTypes)'
    BY <1>3 DEF EnqueueInject, TypeOK, RequestTypes, MapTypes, InstanceTypes, NilFree
  <2>2. (InstanceTypes /\ WorkerTypes /\ RunnerTypes /\ OtherTypes)'
    BY <1>3 DEF EnqueueInject, TypeOK, InstanceTypes, WorkerTypes, RunnerTypes, OtherTypes
  <2>3. NilFree'
    BY <1>3 DEF EnqueueInject, Injectable, Requests, TypeOK, RequestTypes, InstanceTypes, NilFree
  <2>. QED BY <2>1, <2>2, <2>3 DEF TypeOK
<1>4. CASE SignalMidRunMessage(r)
  <2>1. (RequestTypes /\ MapTypes)'
    BY <1>4 DEF SignalMidRunMessage, TypeOK, RequestTypes, MapTypes, Result
  <2>2. (InstanceTypes /\ WorkerTypes /\ RunnerTypes /\ OtherTypes)'
    BY <1>4 DEF SignalMidRunMessage, TypeOK, RequestTypes, InstanceTypes, WorkerTypes,
       RunnerTypes, OtherTypes, NilFree
  <2>3. NilFree'
    BY <1>4 DEF SignalMidRunMessage, TypeOK, RequestTypes, NilFree
  <2>. QED BY <2>1, <2>2, <2>3 DEF TypeOK
<1>5. CASE EnqueueAppend(r)
  <2>1. (RequestTypes /\ MapTypes /\ RunnerTypes /\ OtherTypes)'
    BY <1>5 DEF EnqueueAppend, TypeOK, RequestTypes, MapTypes, RunnerTypes, OtherTypes
  <2> DEFINE i == inst[r]
  <2>i. i \in Requests /\ Own(r) \in Entry
    BY <1>5 DEF EnqueueAppend, TypeOK, RequestTypes, NilFree, Entry, Own
  <2>q. queue' \in [Requests -> Seq(Entry)]
    BY <1>5, <2>i DEF EnqueueAppend, TypeOK, InstanceTypes
  <2>2. (InstanceTypes /\ WorkerTypes)'
    <3>1. CASE processing[i]
      BY <1>5, <3>1, <2>q DEF EnqueueAppend, TypeOK, InstanceTypes, WorkerTypes
    <3>2. CASE ~processing[i]
      <4>1. PICK created \in {r, None} : runner' = [runner EXCEPT ![i] = created]
        BY <1>5, <3>2 DEF EnqueueAppend
      <4>2. runner' \in [Requests -> Requests \cup {None}]
        BY <4>1, <2>i DEF TypeOK, InstanceTypes
      <4>3. /\ processing' = [processing EXCEPT ![i] = TRUE]
            /\ wpc' = [wpc EXCEPT ![i] = "next"]
            /\ UNCHANGED <<aborted, runContext, current, outcome>>
        BY <1>5, <3>2 DEF EnqueueAppend
      <4>. HIDE DEF i
      <4>. QED BY <4>2, <4>3, <2>q DEF TypeOK, InstanceTypes, WorkerTypes
    <3>. QED BY <3>1, <3>2
  <2>3. NilFree'
    <3>1. /\ \A s \in Requests : pc'[s] \in {"enqueue", "signal"} => pc'[s] = pc[s]
          /\ UNCHANGED <<inst, target, current, apc, atarget>>
      BY <1>5 DEF EnqueueAppend, abortVars, TypeOK, RequestTypes
    <3>2. \A j \in Requests : wpc'[j] \in {"run", "rounds", "checked", "returned"} =>
             wpc'[j] = wpc[j] /\ runner'[j] = runner[j]
      <4>1. CASE processing[i]
        BY <1>5, <4>1 DEF EnqueueAppend
      <4>2. CASE ~processing[i]
        <5>1. /\ wpc' = [wpc EXCEPT ![i] = "next"]
              /\ \E created \in {r, None} : runner' = [runner EXCEPT ![i] = created]
          BY <1>5, <4>2 DEF EnqueueAppend
        <5>. QED BY <2>i, <5>1 DEF TypeOK, InstanceTypes, WorkerTypes
      <4>. QED BY <4>1, <4>2
    <3>. QED BY <3>1, <3>2 DEF TypeOK, NilFree
  <2>. QED BY <2>1, <2>2, <2>3 DEF TypeOK
<1>6. CASE ReceiveResult(r)
  <2>h. Head(results[r]) \in Result
    BY <1>6 DEF ReceiveResult, TypeOK, RequestTypes
  <2>1. (RequestTypes /\ MapTypes)'
    BY <1>6, <2>h DEF ReceiveResult, TypeOK, RequestTypes, MapTypes
  <2>2. (InstanceTypes /\ WorkerTypes /\ RunnerTypes /\ OtherTypes)'
    BY <1>6 DEF ReceiveResult, TypeOK, InstanceTypes, WorkerTypes, RunnerTypes, OtherTypes
  <2>3. NilFree'
    BY <1>6 DEF ReceiveResult, TypeOK, RequestTypes, NilFree
  <2>. QED BY <2>1, <2>2, <2>3 DEF TypeOK
<1>. QED BY <1>1, <1>2, <1>3, <1>4, <1>5, <1>6 DEF RequestStep

(* A step of a processQueue goroutine keeps the types.                      *)
LEMMA TypeWorker ==
  ASSUME TypeOK, NEW i \in Requests,
         WorkerStep(i) \/ ScheduleLifecycle(i) \/ RunnerPanic(i)
  PROVE  TypeOK'
<1>1. CASE ProcessExit(i)
  <2>1. (RequestTypes /\ MapTypes)'
    BY <1>1 DEF ProcessExit, DeletedEntry, TypeOK, RequestTypes, MapTypes
  <2>2. (InstanceTypes /\ WorkerTypes)'
    BY <1>1 DEF ProcessExit, DeletedEntry, TypeOK, InstanceTypes, WorkerTypes
  <2>3. (RunnerTypes /\ OtherTypes)'
    BY <1>1 DEF ProcessExit, DeletedEntry, TypeOK, InstanceTypes, RunnerTypes, OtherTypes, NilFree
  <2>4. NilFree'
    BY <1>1 DEF ProcessExit, DeletedEntry, TypeOK, InstanceTypes, WorkerTypes, NilFree
  <2>. QED BY <2>1, <2>2, <2>3, <2>4 DEF TypeOK
<1>2. CASE ProcessDequeue(i)
  <2>1. (RequestTypes /\ MapTypes)'
    BY <1>2 DEF ProcessDequeue, TypeOK, RequestTypes, MapTypes
  <2>2. (InstanceTypes /\ WorkerTypes)'
    BY <1>2 DEF ProcessDequeue, TypeOK, InstanceTypes, WorkerTypes
  <2>3. (RunnerTypes /\ OtherTypes)'
    BY <1>2 DEF ProcessDequeue, TypeOK, InstanceTypes, RunnerTypes, OtherTypes, NilFree
  <2>4. NilFree'
    <3>1. Head(queue[i]) \in Entry /\ Head(queue[i]) # None
      BY <1>2, ConstantsAssumption DEF ProcessDequeue, TypeOK, InstanceTypes
    <3>. QED BY <1>2, <3>1 DEF ProcessDequeue, TypeOK, InstanceTypes, WorkerTypes, NilFree
  <2>. QED BY <2>1, <2>2, <2>3, <2>4 DEF TypeOK
<1>3. CASE RunnerBegin(i)
  <2>0. current[i].request \in Runs
    BY <1>3 DEF RunnerBegin, Compact, TypeOK, WorkerTypes, NilFree, Entry, Requests
  <2>1. (RequestTypes /\ MapTypes)'
    BY <1>3 DEF RunnerBegin, TypeOK, RequestTypes, MapTypes
  <2>2. (InstanceTypes /\ WorkerTypes)'
    BY <1>3 DEF RunnerBegin, TypeOK, InstanceTypes, WorkerTypes
  <2>3. (RunnerTypes /\ OtherTypes)'
    BY <1>3, <2>0 DEF RunnerBegin, TypeOK, InstanceTypes, RunnerTypes, OtherTypes, NilFree
  <2>4. NilFree'
    BY <1>3, <2>0 DEF RunnerBegin, TypeOK, InstanceTypes, WorkerTypes, NilFree
  <2>. QED BY <2>1, <2>2, <2>3, <2>4 DEF TypeOK
<1>4. CASE RunnerCheck(i)
  <2>1. (RequestTypes /\ MapTypes)'
    BY <1>4 DEF RunnerCheck, TypeOK, RequestTypes, MapTypes
  <2>2. (InstanceTypes /\ WorkerTypes)'
    BY <1>4 DEF RunnerCheck, TypeOK, InstanceTypes, WorkerTypes
  <2>3. (RunnerTypes /\ OtherTypes)'
    BY <1>4 DEF RunnerCheck, TypeOK, InstanceTypes, RunnerTypes, OtherTypes, NilFree
  <2>4. NilFree'
    BY <1>4 DEF RunnerCheck, TypeOK, InstanceTypes, WorkerTypes, NilFree
  <2>. QED BY <2>1, <2>2, <2>3, <2>4 DEF TypeOK
<1>5. CASE RunnerDrain(i)
  <2>1. (RequestTypes /\ MapTypes)'
    BY <1>5 DEF RunnerDrain, DrainMidRunMessages, TypeOK, RequestTypes, MapTypes
  <2>2. (InstanceTypes /\ WorkerTypes)'
    BY <1>5 DEF RunnerDrain, DrainMidRunMessages, TypeOK, InstanceTypes, WorkerTypes
  <2>3. (RunnerTypes /\ OtherTypes)'
    <3>1. runner[i] \in Requests /\ midRunMessages[runner[i]] \in Seq(Runs)
      BY <1>5 DEF RunnerDrain, TypeOK, InstanceTypes, RunnerTypes, NilFree
    <3>2. \A n \in 0..(Len(midRunMessages[runner[i]]) - 1) :
             SubSeq(midRunMessages[runner[i]], 1, n) \in Seq(Runs)
      BY <3>1
    <3>3. transcript' \in Seq(Runs)
      <4>1. \A s \in Seq(Runs) : transcript \o s \in Seq(Runs)
        BY DEF TypeOK, RunnerTypes
      <4>2. \/ transcript' = transcript \o midRunMessages[runner[i]]
            \/ \E n \in 0..(Len(midRunMessages[runner[i]]) - 1) :
                  transcript' = transcript \o SubSeq(midRunMessages[runner[i]], 1, n)
        BY <1>5 DEF RunnerDrain
      <4>. QED BY <3>1, <3>2, <4>1, <4>2
    <3>4. midRunMessages' \in [Requests -> Seq(Runs)]
      BY <1>5, <3>1 DEF RunnerDrain, DrainMidRunMessages, TypeOK, RunnerTypes
    <3>. QED BY <1>5, <3>3, <3>4 DEF RunnerDrain, TypeOK, RunnerTypes, OtherTypes
  <2>4. NilFree'
    BY <1>5 DEF RunnerDrain, DrainMidRunMessages, TypeOK, InstanceTypes, WorkerTypes, NilFree
  <2>. QED BY <2>1, <2>2, <2>3, <2>4 DEF TypeOK
<1>6. CASE RunnerFinish(i)
  <2>1. (RequestTypes /\ MapTypes)'
    BY <1>6 DEF RunnerFinish, TypeOK, RequestTypes, MapTypes
  <2>2. (InstanceTypes /\ WorkerTypes)'
    BY <1>6 DEF RunnerFinish, TypeOK, InstanceTypes, WorkerTypes
  <2>3. (RunnerTypes /\ OtherTypes)'
    BY <1>6 DEF RunnerFinish, TypeOK, InstanceTypes, RunnerTypes, OtherTypes, NilFree
  <2>4. NilFree'
    BY <1>6 DEF RunnerFinish, TypeOK, InstanceTypes, WorkerTypes, NilFree
  <2>. QED BY <2>1, <2>2, <2>3, <2>4 DEF TypeOK
<1>7. CASE RunnerFail(i)
  <2>1. (RequestTypes /\ MapTypes)'
    BY <1>7 DEF RunnerFail, TypeOK, RequestTypes, MapTypes
  <2>2. (InstanceTypes /\ WorkerTypes)'
    BY <1>7 DEF RunnerFail, TypeOK, InstanceTypes, WorkerTypes
  <2>3. (RunnerTypes /\ OtherTypes)'
    BY <1>7 DEF RunnerFail, TypeOK, InstanceTypes, RunnerTypes, OtherTypes, NilFree
  <2>4. NilFree'
    BY <1>7 DEF RunnerFail, TypeOK, InstanceTypes, WorkerTypes, NilFree
  <2>. QED BY <2>1, <2>2, <2>3, <2>4 DEF TypeOK
<1>8. CASE SendResult(i)
  <2>1. (RequestTypes /\ MapTypes)'
    <3>1. current[i] \in Entry /\ outcome[i] \in Result
      BY <1>8 DEF SendResult, TypeOK, WorkerTypes, NilFree, Result
    <3>2. results' \in [Requests -> Seq(Result)]
      BY <1>8, <3>1 DEF SendResult, TypeOK, RequestTypes, Entry, Result
    <3>. QED BY <1>8, <3>2 DEF SendResult, TypeOK, RequestTypes, MapTypes
  <2>2. (InstanceTypes /\ WorkerTypes)'
    BY <1>8 DEF SendResult, TypeOK, InstanceTypes, WorkerTypes
  <2>3. (RunnerTypes /\ OtherTypes)'
    BY <1>8 DEF SendResult, TypeOK, InstanceTypes, RunnerTypes, OtherTypes, NilFree
  <2>4. NilFree'
    BY <1>8 DEF SendResult, TypeOK, InstanceTypes, WorkerTypes, NilFree
  <2>. QED BY <2>1, <2>2, <2>3, <2>4 DEF TypeOK
<1>9. CASE SpillMidRunMessages(i)
  <2>1. (RequestTypes /\ MapTypes)'
    BY <1>9 DEF SpillMidRunMessages, TypeOK, RequestTypes, MapTypes
  <2>0. ASSUME runner[i] # None
        PROVE  Requeued(i) \in Seq(Entry)
    <3>1. midRunMessages[runner[i]] \in Seq(Runs)
      BY <2>0 DEF TypeOK, InstanceTypes, RunnerTypes
    <3>2. \A n \in 1..Len(midRunMessages[runner[i]]) :
             Spilled(midRunMessages[runner[i]][n]) \in Entry
      BY <3>1 DEF Spilled, Entry, Requests
    <3>3. [n \in 1..Len(midRunMessages[runner[i]]) |->
             Spilled(midRunMessages[runner[i]][n])] \in Seq(Entry)
      BY <3>1, <3>2
    <3>. QED BY <3>3 DEF Requeued, TypeOK, InstanceTypes
  <2>2. (InstanceTypes /\ WorkerTypes)'
    <3>1. queue' \in [Requests -> Seq(Entry)]
      BY <1>9, <2>0 DEF SpillMidRunMessages, TypeOK, InstanceTypes
    <3>. QED BY <1>9, <3>1 DEF SpillMidRunMessages, TypeOK, InstanceTypes, WorkerTypes
  <2>3. (RunnerTypes /\ OtherTypes)'
    <3>1. midRunMessages' \in [Requests -> Seq(Runs)]
      <4>1. CASE runner[i] = None
        BY <1>9, <4>1 DEF SpillMidRunMessages, TypeOK, RunnerTypes
      <4>2. CASE runner[i] # None
        <5>1. midRunMessages' = [midRunMessages EXCEPT ![runner[i]] = <<>>]
          BY <1>9, <4>2 DEF SpillMidRunMessages, DrainMidRunMessages
        <5>2. midRunMessages \in [Requests -> Seq(Runs)] /\ <<>> \in Seq(Runs)
          BY DEF TypeOK, RunnerTypes
        <5>. QED BY <5>1, <5>2
      <4>. QED BY <4>1, <4>2
    <3>. QED BY <1>9, <3>1 DEF SpillMidRunMessages, TypeOK, RunnerTypes, OtherTypes
  <2>4. NilFree'
    BY <1>9 DEF SpillMidRunMessages, TypeOK, InstanceTypes, WorkerTypes, NilFree
  <2>. QED BY <2>1, <2>2, <2>3, <2>4 DEF TypeOK
<1>10. CASE ScheduleLifecycle(i)
  <2>1. (RequestTypes /\ MapTypes)'
    BY <1>10 DEF ScheduleLifecycle, TypeOK, RequestTypes, MapTypes
  <2>2. (InstanceTypes /\ WorkerTypes)'
    BY <1>10 DEF ScheduleLifecycle, TypeOK, InstanceTypes, WorkerTypes
  <2>3. (RunnerTypes /\ OtherTypes)'
    BY <1>10 DEF ScheduleLifecycle, TypeOK, InstanceTypes, RunnerTypes, OtherTypes, NilFree
  <2>4. NilFree'
    BY <1>10 DEF ScheduleLifecycle, TypeOK, InstanceTypes, WorkerTypes, NilFree
  <2>. QED BY <2>1, <2>2, <2>3, <2>4 DEF TypeOK
<1>11. CASE RunnerPanic(i)
  <2>1. (RequestTypes /\ MapTypes)'
    BY <1>11 DEF RunnerPanic, TypeOK, RequestTypes, MapTypes
  <2>2. (InstanceTypes /\ WorkerTypes)'
    BY <1>11 DEF RunnerPanic, TypeOK, InstanceTypes, WorkerTypes
  <2>3. (RunnerTypes /\ OtherTypes)'
    BY <1>11 DEF RunnerPanic, TypeOK, InstanceTypes, RunnerTypes, OtherTypes, NilFree
  <2>4. NilFree'
    BY <1>11 DEF RunnerPanic, TypeOK, InstanceTypes, WorkerTypes, NilFree
  <2>. QED BY <2>1, <2>2, <2>3, <2>4 DEF TypeOK
<1>. QED BY <1>1, <1>2, <1>3, <1>4, <1>5, <1>6, <1>7, <1>8, <1>9, <1>10, <1>11 DEF WorkerStep

(* The calls that start a request or end a run keep the types.              *)
LEMMA TypeCall ==
  ASSUME TypeOK, NEW r \in Runs, Run(r) \/ Cleanup(r)
  PROVE  TypeOK'
<1>1. CASE Run(r)
  <2>1. (RequestTypes /\ MapTypes)'
    BY <1>1 DEF Run, TypeOK, RequestTypes, MapTypes
  <2>2. (InstanceTypes /\ WorkerTypes /\ RunnerTypes /\ OtherTypes)'
    BY <1>1 DEF Run, TypeOK, InstanceTypes, WorkerTypes, RunnerTypes, OtherTypes
  <2>3. NilFree'
    BY <1>1 DEF Run, TypeOK, RequestTypes, NilFree
  <2>. QED BY <2>1, <2>2, <2>3 DEF TypeOK
<1>2. CASE Cleanup(r)
  <2>1. (RequestTypes /\ MapTypes)'
    BY <1>2 DEF Cleanup, ReleasedIndex, TypeOK, RequestTypes, MapTypes
  <2>2. (InstanceTypes /\ WorkerTypes /\ RunnerTypes /\ OtherTypes)'
    BY <1>2 DEF Cleanup, FirePendingLifecycle, TypeOK, InstanceTypes, WorkerTypes, RunnerTypes,
       OtherTypes
  <2>3. NilFree'
    BY <1>2 DEF Cleanup, TypeOK, RequestTypes, NilFree
  <2>. QED BY <2>1, <2>2, <2>3 DEF TypeOK
<1>. QED BY <1>1, <1>2

(* So do the calls of CompactConversation.                                  *)
LEMMA TypeCompact ==
  ASSUME TypeOK, NEW r \in Compacts, CompactConversation(r) \/ CompactGivesUp(r)
  PROVE  TypeOK'
<1>1. (RequestTypes /\ MapTypes)'
  BY DEF CompactConversation, CompactGivesUp, TypeOK, RequestTypes, MapTypes
<1>2. (InstanceTypes /\ WorkerTypes /\ RunnerTypes /\ OtherTypes)'
  BY DEF CompactConversation, CompactGivesUp, TypeOK, InstanceTypes, WorkerTypes, RunnerTypes,
     OtherTypes
<1>3. NilFree'
  BY DEF CompactConversation, CompactGivesUp, TypeOK, RequestTypes, NilFree
<1>. QED BY <1>1, <1>2, <1>3 DEF TypeOK

(* A step of AbortRun or AbortConversationRun keeps the types.              *)
LEMMA TypeAbort ==
  ASSUME TypeOK, NEW a \in Aborters, AbortConversationRun(a) \/ AbortLocked(a)
  PROVE  TypeOK'
<1>1. CASE AbortConversationRun(a)
  <2>1. (RequestTypes /\ MapTypes /\ InstanceTypes /\ WorkerTypes /\ RunnerTypes)'
    BY <1>1 DEF AbortConversationRun, TypeOK, RequestTypes, MapTypes, InstanceTypes, WorkerTypes,
       RunnerTypes
  <2>2. OtherTypes' /\ NilFree'
    BY <1>1 DEF AbortConversationRun, TypeOK, MapTypes, OtherTypes, NilFree
  <2>. QED BY <2>1, <2>2 DEF TypeOK
<1>2. CASE AbortLocked(a)
  <2>0. atarget[a] \in Requests
    BY <1>2 DEF AbortLocked, TypeOK, OtherTypes, NilFree
  <2>1. (RequestTypes /\ MapTypes)'
    BY <1>2 DEF AbortLocked, DrainedResults, Result, TypeOK, RequestTypes, MapTypes
  <2>2. queue' \in [Requests -> Seq(Entry)]
    BY <1>2, <2>0 DEF AbortLocked, ClearedQueue, TypeOK, InstanceTypes
  <2>3. InstanceTypes'
    BY <1>2, <2>0, <2>2 DEF AbortLocked, TypeOK, InstanceTypes
  <2>4. (WorkerTypes /\ RunnerTypes /\ OtherTypes)'
    BY <1>2 DEF AbortLocked, TypeOK, WorkerTypes, RunnerTypes, OtherTypes
  <2>5. NilFree'
    BY <1>2 DEF AbortLocked, TypeOK, OtherTypes, NilFree
  <2>. QED BY <2>1, <2>3, <2>4, <2>5 DEF TypeOK
<1>. QED BY <1>1, <1>2

(* So does a step that changes nothing.                                     *)
LEMMA TypeStutter == TypeOK /\ UNCHANGED vars => TypeOK'
  BY DEF vars, TypeOK, RequestTypes, MapTypes, InstanceTypes, WorkerTypes, RunnerTypes,
     OtherTypes, NilFree

(* Every step keeps the types.                                              *)
LEMMA TypeNext == TypeOK /\ [Next]_vars => TypeOK'
<1> SUFFICES ASSUME TypeOK, Next PROVE TypeOK'
  BY TypeStutter
<1>1. CASE \E r \in Runs : Run(r) \/ Cleanup(r)
  BY <1>1, TypeCall
<1>2. CASE \E r \in Compacts : CompactConversation(r) \/ CompactGivesUp(r)
  BY <1>2, TypeCompact
<1>3. CASE \E r \in Requests : RequestStep(r)
  BY <1>3, TypeRequest
<1>4. CASE \E i \in Requests : WorkerStep(i) \/ ScheduleLifecycle(i) \/ RunnerPanic(i)
  BY <1>4, TypeWorker
<1>5. CASE \E a \in Aborters : AbortConversationRun(a) \/ AbortLocked(a)
  BY <1>5, TypeAbort
<1>6. CASE \E a \in Aborters, r \in Runs : AbortRun(a, r)
  BY <1>6, TypeAbort DEF AbortRun
<1>7. CASE Finished
  BY <1>7, TypeStutter DEF Finished
<1>. QED BY <1>1, <1>2, <1>3, <1>4, <1>5, <1>6, <1>7 DEF Next

(* Whatever runs, compactions and aborts overlap, every variable of the     *)
(* coordinator keeps its type and none of the pointers that enqueueMessage, *)
(* processQueue and AbortConversationRun dereference is nil.                *)
THEOREM TypeCorrect == Spec => []TypeOK
<1>. QED BY TypeInit, TypeNext, PTL DEF Spec

-----------------------------------------------------------------------------
(* Every step keeps the flag and the goroutine of a queue in agreement.     *)
LEMMA FlagNext == TypeOK /\ ProcessorMatchesFlag /\ [Next]_vars => ProcessorMatchesFlag'
<1> SUFFICES ASSUME TypeOK, ProcessorMatchesFlag, [Next]_vars
             PROVE  ProcessorMatchesFlag'
  OBVIOUS
<1> USE DEF ProcessorMatchesFlag
<1>1. ASSUME NEW r \in Requests, EnqueueAppend(r)
      PROVE  ProcessorMatchesFlag'
  <2>1. inst[r] \in Requests /\ Own(r) \in Entry
    BY <1>1 DEF EnqueueAppend, TypeOK, RequestTypes, NilFree, Entry, Own
  <2>2. CASE processing[inst[r]]
    BY <1>1, <2>1, <2>2 DEF EnqueueAppend, TypeOK, InstanceTypes, WorkerTypes
  <2>3. CASE ~processing[inst[r]]
    <3> DEFINE k == inst[r]
    <3>1. /\ processing' = [processing EXCEPT ![k] = TRUE]
          /\ wpc' = [wpc EXCEPT ![k] = "next"]
          /\ queue' = [queue EXCEPT ![k] = Append(@, Own(r))]
      BY <1>1, <2>3 DEF EnqueueAppend
    <3>2. k \in Requests
      BY <2>1
    <3> HIDE DEF k
    <3>. QED BY <3>1, <3>2 DEF TypeOK, InstanceTypes, WorkerTypes
  <2>. QED BY <2>2, <2>3
<1>2. ASSUME NEW r \in Requests, RequestStep(r), ~EnqueueAppend(r)
      PROVE  ProcessorMatchesFlag'
  BY <1>2 DEF RequestStep, LoadOrStore, EnqueueRefused, EnqueueInject, SignalMidRunMessage,
     ReceiveResult
<1>3. ASSUME NEW i \in Requests, ProcessExit(i)
      PROVE  ProcessorMatchesFlag'
  BY <1>3 DEF ProcessExit, QueueDone, TypeOK, InstanceTypes, WorkerTypes
<1>4. ASSUME NEW i \in Requests, ProcessDequeue(i)
      PROVE  ProcessorMatchesFlag'
  BY <1>4 DEF ProcessDequeue, TypeOK, InstanceTypes, WorkerTypes
<1>5. ASSUME NEW i \in Requests, SpillMidRunMessages(i)
      PROVE  ProcessorMatchesFlag'
  BY <1>5 DEF SpillMidRunMessages, TypeOK, InstanceTypes, WorkerTypes
<1>6. ASSUME NEW i \in Requests, \/ RunnerBegin(i) \/ RunnerCheck(i) \/ RunnerDrain(i)
                                 \/ RunnerFinish(i) \/ RunnerFail(i) \/ SendResult(i)
                                 \/ ScheduleLifecycle(i) \/ RunnerPanic(i)
      PROVE  ProcessorMatchesFlag'
  BY <1>6 DEF RunnerBegin, RunnerCheck, RunnerDrain, RunnerFinish, RunnerFail, SendResult,
     ScheduleLifecycle, RunnerPanic, TypeOK, WorkerTypes
<1>7. ASSUME NEW a \in Aborters, AbortLocked(a)
      PROVE  ProcessorMatchesFlag'
  BY <1>7 DEF AbortLocked, ClearedQueue, TypeOK, InstanceTypes
<1>8. CASE UNCHANGED <<processing, wpc, queue>>
  BY <1>8
<1>. QED
  BY <1>1, <1>2, <1>3, <1>4, <1>5, <1>6, <1>7, <1>8
  DEF Next, vars, Run, Cleanup, CompactConversation, CompactGivesUp, WorkerStep, Finished,
      AbortRun, AbortConversationRun

(* A conversationRunner is marked as processing exactly while it has a      *)
(* processQueue goroutine, and its queue is empty otherwise, for any number *)
(* of requests: enqueueMessage never leaves a message that nobody serves    *)
(* and never starts a second goroutine on the same conversationRunner.      *)
THEOREM FlagCorrect == Spec => []ProcessorMatchesFlag
<1>1. Init => ProcessorMatchesFlag
  BY DEF Init, ProcessorMatchesFlag
<1>. QED BY <1>1, TypeCorrect, FlagNext, PTL DEF Spec

-----------------------------------------------------------------------------
(* ResultInv is about queue, current, wpc, pc and results only.             *)
LEMMA ResultFrame ==
  ASSUME TypeOK, ResultInv, UNCHANGED <<pc, results, queue, wpc, current>>
  PROVE  ResultInv'
  BY DEF ResultInv, NoOwnEntry, OwnEntryUnique, HoldsOwn, InQueue

(* Nor does it depend on which step of an execution a goroutine is at.      *)
LEMMA ResultExecution ==
  ASSUME TypeOK, ResultInv, NEW i \in Requests,
         NEW s \in {"run", "rounds", "checked", "returned", "dead"},
         wpc[i] \in {"run", "rounds", "checked", "returned", "dead"},
         wpc' = [wpc EXCEPT ![i] = s], UNCHANGED <<pc, results, queue, current>>
  PROVE  ResultInv'
<1>1. \A j, r \in Requests : HoldsOwn(j, r)' <=> HoldsOwn(j, r)
  BY DEF TypeOK, WorkerTypes, HoldsOwn
<1>2. \A j, r \in Requests : InQueue(Own(r), j)' <=> InQueue(Own(r), j)
  BY DEF InQueue
<1>. QED BY <1>1, <1>2 DEF ResultInv, NoOwnEntry, OwnEntryUnique

(* A request that was still enqueueing gets its result there and then.      *)
LEMMA ResultDirect ==
  ASSUME TypeOK, ResultInv, NEW r \in Requests, NEW x \in Result,
         pc[r] \in {"enqueue", "signal"}, pc' = [pc EXCEPT ![r] = "wait"],
         results' = [results EXCEPT ![r] = Append(@, x)],
         UNCHANGED <<queue, wpc, current>>
  PROVE  ResultInv'
<1>1. ASSUME NEW q \in Requests
      PROVE  OwnEntryUnique(q)' /\ (NoOwnEntry(q) => NoOwnEntry(q)')
  <2>1. OwnEntryUnique(q)
    BY DEF ResultInv
  <2>. QED BY <2>1 DEF OwnEntryUnique, NoOwnEntry, HoldsOwn, InQueue
<1>3. results[r] = <<>> /\ Len(results'[r]) <= 1
  BY DEF ResultInv, TypeOK, RequestTypes
<1>4. \A q \in Requests : q # r => results'[q] = results[q] /\ pc'[q] = pc[q]
  BY DEF TypeOK, RequestTypes
<1>5. pc'[r] = "wait" /\ NoOwnEntry(r)
  BY DEF ResultInv, TypeOK, RequestTypes
<1>. QED BY <1>1, <1>3, <1>4, <1>5 DEF ResultInv

(* Queueing a request: its entry is the only one that owes it a result.     *)
LEMMA ResultEnqueue ==
  ASSUME TypeOK, ResultInv, NEW r \in Requests, EnqueueAppend(r)
  PROVE  ResultInv'
<1> DEFINE k == inst[r]
<1>1. k \in Requests /\ Own(r) \in Entry
  BY DEF EnqueueAppend, TypeOK, RequestTypes, NilFree, Entry, Own
<1>2. /\ pc[r] = "enqueue" /\ pc' = [pc EXCEPT ![r] = "wait"]
      /\ queue' = [queue EXCEPT ![k] = Append(@, Own(r))]
      /\ UNCHANGED <<results, current>>
      /\ wpc' = wpc \/ wpc' = [wpc EXCEPT ![k] = "next"]
  BY DEF EnqueueAppend
<1>3. results[r] = <<>> /\ NoOwnEntry(r)
  BY <1>2 DEF ResultInv
<1> HIDE DEF k
<1>4. \A j, q \in Requests : HoldsOwn(j, q)' => HoldsOwn(j, q)
  BY <1>1, <1>2 DEF HoldsOwn, TypeOK, WorkerTypes
<1>5. \A q \in Requests : q # r => Own(q) # Own(r)
  BY DEF Own
<1>6. /\ queue'[k] = Append(queue[k], Own(r)) /\ queue[k] \in Seq(Entry)
      /\ \A j \in Requests : j # k => queue'[j] = queue[j]
  BY <1>1, <1>2 DEF TypeOK, InstanceTypes
<1>7. \A j \in Requests : \A n \in DOMAIN queue'[j] :
         \/ n \in DOMAIN queue[j] /\ queue'[j][n] = queue[j][n]
         \/ j = k /\ n = Len(queue[k]) + 1 /\ queue'[j][n] = Own(r)
  <2>1. ASSUME NEW n \in DOMAIN queue'[k]
        PROVE  \/ n \in DOMAIN queue[k] /\ queue'[k][n] = queue[k][n]
               \/ n = Len(queue[k]) + 1 /\ queue'[k][n] = Own(r)
    BY <1>6
  <2>. QED BY <1>6, <2>1
<1>8. \A j, q \in Requests : q # r /\ InQueue(Own(q), j)' => InQueue(Own(q), j)
  BY <1>5, <1>7 DEF InQueue
<1>9. \A q \in Requests : q # r => OwnEntryUnique(q)' /\ (NoOwnEntry(q) => NoOwnEntry(q)')
  BY <1>4, <1>5, <1>7, <1>8 DEF ResultInv, NoOwnEntry, OwnEntryUnique
<1>10. OwnEntryUnique(r)'
  BY <1>3, <1>4, <1>7 DEF NoOwnEntry, OwnEntryUnique, InQueue
<1>11. \A q \in Requests : q # r => pc'[q] = pc[q]
  BY <1>2 DEF TypeOK, RequestTypes
<1>12. pc'[r] = "wait"
  BY <1>2 DEF TypeOK, RequestTypes
<1>. QED BY <1>2, <1>3, <1>9, <1>10, <1>11, <1>12 DEF ResultInv

(* processQueue takes an entry: the debt moves from queue to current.       *)
LEMMA ResultDequeue ==
  ASSUME TypeOK, ResultInv, NEW i \in Requests, ProcessDequeue(i)
  PROVE  ResultInv'
<1>1. /\ queue[i] \in Seq(Entry) /\ queue[i] # <<>> /\ queue'[i] = Tail(queue[i])
      /\ \A j \in Requests : j # i => queue'[j] = queue[j]
      /\ current'[i] = queue[i][1] /\ 1 \in DOMAIN queue[i]
      /\ \A j \in Requests : j # i => current'[j] = current[j] /\ wpc'[j] = wpc[j]
      /\ UNCHANGED <<pc, results>>
  BY DEF ProcessDequeue, TypeOK, InstanceTypes, WorkerTypes
<1>2. \A n \in DOMAIN queue'[i] :
         n \in Nat /\ n + 1 \in DOMAIN queue[i] /\ n + 1 # 1 /\ queue'[i][n] = queue[i][n + 1]
  BY <1>1
<1>3. ASSUME NEW q \in Requests, NoOwnEntry(q)
      PROVE  NoOwnEntry(q)'
  <2>1. \A j \in Requests : ~InQueue(Own(q), j)'
    <3>1. TAKE j \in Requests
    <3>2. \A n \in DOMAIN queue[j] : queue[j][n] # Own(q)
      BY <1>3 DEF NoOwnEntry, InQueue
    <3>3. \A n \in DOMAIN queue'[j] : queue'[j][n] # Own(q)
      <4>1. CASE j = i
        BY <1>2, <3>2, <4>1
      <4>2. CASE j # i
        BY <1>1, <3>2, <4>2
      <4>. QED BY <4>1, <4>2
    <3>. QED BY <3>3 DEF InQueue
  <2>2. \A j \in Requests : ~HoldsOwn(j, q)'
    BY <1>1, <1>3 DEF NoOwnEntry, InQueue, HoldsOwn
  <2>. QED BY <2>1, <2>2 DEF NoOwnEntry
<1>4. ASSUME NEW q \in Requests, OwnEntryUnique(q)
      PROVE  OwnEntryUnique(q)'
  <2>1. \A j, l \in Requests : \A m \in DOMAIN queue'[j], n \in DOMAIN queue'[l] :
           queue'[j][m] = Own(q) /\ queue'[l][n] = Own(q) => j = l /\ m = n
    <3>1. SUFFICES ASSUME NEW j \in Requests, NEW l \in Requests,
                          NEW m \in DOMAIN queue'[j], NEW n \in DOMAIN queue'[l],
                          queue'[j][m] = Own(q), queue'[l][n] = Own(q)
                   PROVE  j = l /\ m = n
      OBVIOUS
    <3>2. PICK m0 \in DOMAIN queue[j] :
             queue[j][m0] = Own(q) /\ m0 = (IF j = i THEN m + 1 ELSE m)
      BY <1>1, <1>2, <3>1
    <3>3. PICK n0 \in DOMAIN queue[l] :
             queue[l][n0] = Own(q) /\ n0 = (IF l = i THEN n + 1 ELSE n)
      BY <1>1, <1>2, <3>1
    <3>4. j = l /\ m0 = n0
      BY <1>4, <3>2, <3>3 DEF OwnEntryUnique
    <3>5. CASE j = i
      BY <1>2, <3>2, <3>3, <3>4, <3>5
    <3>. QED BY <3>2, <3>3, <3>4, <3>5
  <2>2. ASSUME NEW j \in Requests, NEW l \in Requests, HoldsOwn(j, q)'
        PROVE  ~InQueue(Own(q), l)'
    <3>1. SUFFICES ASSUME NEW n \in DOMAIN queue'[l], queue'[l][n] = Own(q)
                   PROVE  FALSE
      BY DEF InQueue
    <3>2. PICK n0 \in DOMAIN queue[l] :
             queue[l][n0] = Own(q) /\ (l = i => n0 # 1)
      <4>1. CASE l = i
        BY <1>2, <3>1, <4>1
      <4>2. CASE l # i
        BY <1>1, <3>1, <4>2
      <4>. QED BY <4>1, <4>2
    <3>3. CASE j = i
      BY <1>1, <1>4, <2>2, <3>2, <3>3 DEF OwnEntryUnique, HoldsOwn
    <3>4. CASE j # i
      BY <1>1, <1>4, <2>2, <3>2, <3>4 DEF OwnEntryUnique, HoldsOwn, InQueue
    <3>. QED BY <3>3, <3>4
  <2>3. ASSUME NEW j \in Requests, NEW l \in Requests, HoldsOwn(j, q)', HoldsOwn(l, q)'
        PROVE  j = l
    BY <1>1, <1>4, <2>3 DEF OwnEntryUnique, InQueue, HoldsOwn
  <2>. QED BY <2>1, <2>2, <2>3 DEF OwnEntryUnique
<1>. QED BY <1>1, <1>3, <1>4 DEF ResultInv

(* processQueue sends the result of the entry it executed.                  *)
LEMMA ResultSend ==
  ASSUME TypeOK, ResultInv, NEW i \in Requests, SendResult(i)
  PROVE  ResultInv'
<1>1. /\ current[i] \in Entry /\ wpc[i] = "returned" /\ wpc'[i] = "spill"
      /\ \A j \in Requests : j # i => wpc'[j] = wpc[j]
      /\ UNCHANGED <<pc, queue, current>>
  BY DEF SendResult, TypeOK, WorkerTypes, NilFree
<1>3. ASSUME NEW q \in Requests
      PROVE  OwnEntryUnique(q)' /\ (NoOwnEntry(q) => NoOwnEntry(q)')
  <2>1. OwnEntryUnique(q)
    BY DEF ResultInv
  <2>. QED BY <1>1, <2>1 DEF OwnEntryUnique, NoOwnEntry, HoldsOwn, InQueue
<1>4. CASE current[i].spilled
  <2>1. UNCHANGED results
    BY <1>4 DEF SendResult
  <2>. QED BY <1>1, <1>3, <2>1 DEF ResultInv
<1>5. CASE ~current[i].spilled
  <2>1. PICK r \in Requests : current[i] = Own(r) /\ current[i].request = r
    BY <1>1, <1>5 DEF Entry, Own
  <2>2. PICK x \in Result : results' = [results EXCEPT ![r] = Append(@, x)]
    BY <1>5, <2>1 DEF SendResult, TypeOK, WorkerTypes, Result
  <2>3. HoldsOwn(i, r)
    BY <1>1, <2>1 DEF HoldsOwn
  <2>4. results[r] = <<>> /\ ~NoOwnEntry(r)
    BY <2>1, <2>3 DEF ResultInv, NoOwnEntry
  <2>5. NoOwnEntry(r)'
    <3>1. OwnEntryUnique(r)
      BY <2>1 DEF ResultInv
    <3>2. \A j \in Requests : ~InQueue(Own(r), j)
      BY <2>3, <3>1 DEF OwnEntryUnique
    <3>3. \A j \in Requests : j # i => ~HoldsOwn(j, r)
      BY <2>3, <3>1 DEF OwnEntryUnique
    <3>. QED BY <1>1, <3>2, <3>3 DEF NoOwnEntry, HoldsOwn, InQueue
  <2>6. Len(results'[r]) <= 1 /\ \A q \in Requests : q # r => results'[q] = results[q]
    BY <2>1, <2>2, <2>4 DEF TypeOK, RequestTypes
  <2>7. pc[r] \notin {"idle", "load", "enqueue", "signal"}
    BY <2>1, <2>4 DEF ResultInv
  <2>8. ASSUME NEW q \in Requests
        PROVE  /\ Len(results'[q]) <= 1
               /\ pc'[q] \in {"idle", "load", "enqueue", "signal"} =>
                     results'[q] = <<>> /\ NoOwnEntry(q)'
               /\ results'[q] # <<>> => NoOwnEntry(q)'
               /\ OwnEntryUnique(q)'
    <3>1. CASE q = r
      BY <1>1, <1>3, <2>1, <2>5, <2>6, <2>7, <3>1
    <3>2. CASE q # r
      BY <1>1, <1>3, <2>6, <3>2 DEF ResultInv
    <3>. QED BY <3>1, <3>2
  <2>. QED BY <2>8 DEF ResultInv
<1>. QED BY <1>4, <1>5

(* Re-queued mid-run messages owe nobody a result.                          *)
LEMMA ResultSpill ==
  ASSUME TypeOK, ResultInv, NEW i \in Requests, SpillMidRunMessages(i)
  PROVE  ResultInv'
<1>1. /\ wpc'[i] = "next" /\ UNCHANGED <<pc, results>> /\ queue[i] \in Seq(Entry)
      /\ \A j \in Requests : j # i => /\ wpc'[j] = wpc[j] /\ current'[j] = current[j]
                                     /\ queue'[j] = queue[j]
  BY DEF SpillMidRunMessages, TypeOK, InstanceTypes, WorkerTypes
<1>2. \A n \in DOMAIN queue'[i] :
         \/ n \in DOMAIN queue[i] /\ queue'[i][n] = queue[i][n]
         \/ queue'[i][n].spilled = TRUE
  <2>1. CASE runner[i] = None
    BY <2>1 DEF SpillMidRunMessages
  <2>2. CASE runner[i] # None
    <3> DEFINE left == midRunMessages[runner[i]]
               tail == [n \in 1..Len(left) |-> Spilled(left[n])]
    <3>1. left \in Seq(Runs)
      BY <2>2 DEF TypeOK, InstanceTypes, RunnerTypes
    <3>2. /\ Len(left) \in Nat /\ Len(tail) = Len(left)
          /\ \A n \in 1..Len(left) : tail[n] = Spilled(left[n])
      BY <3>1
    <3>3. queue'[i] = queue[i] \o tail
      BY <2>2 DEF SpillMidRunMessages, Requeued, TypeOK, InstanceTypes
    <3>4. tail \in Seq(Entry)
      <4>1. \A n \in 1..Len(left) : Spilled(left[n]) \in Entry
        BY <3>1 DEF Spilled, Entry, Requests
      <4>. QED BY <3>1, <4>1
    <3> HIDE DEF left, tail
    <3>5. \A n \in DOMAIN queue'[i] :
             \/ n \in DOMAIN queue[i] /\ queue'[i][n] = queue[i][n]
             \/ \E m \in 1..Len(tail) : queue'[i][n] = tail[m]
      BY <1>1, <3>3, <3>4
    <3>6. \A m \in 1..Len(tail) : tail[m].spilled = TRUE
      <4>1. ASSUME NEW m \in 1..Len(tail)
            PROVE  tail[m].spilled = TRUE
        <5>1. tail[m] = Spilled(left[m])
          BY <3>2
        <5>2. Spilled(left[m]).spilled = TRUE
          BY DEF Spilled
        <5>. QED BY <5>1, <5>2
      <4>. QED BY <4>1
    <3>. QED BY <3>5, <3>6
  <2>. QED BY <2>1, <2>2
<1>3. \A q \in Requests : Own(q).spilled = FALSE
  BY DEF Own
<1>4. \A j, q \in Requests : \A n \in DOMAIN queue'[j] :
         queue'[j][n] = Own(q) => n \in DOMAIN queue[j] /\ queue[j][n] = Own(q)
  BY <1>1, <1>2, <1>3
<1>5. ASSUME NEW q \in Requests
      PROVE  OwnEntryUnique(q)' /\ (NoOwnEntry(q) => NoOwnEntry(q)')
  <2>1. OwnEntryUnique(q)
    BY DEF ResultInv
  <2>. QED BY <1>1, <1>4, <2>1 DEF OwnEntryUnique, NoOwnEntry, HoldsOwn, InQueue
<1>. QED BY <1>1, <1>5 DEF ResultInv

(* AbortConversationRun answers every queued entry and empties the queue.   *)
LEMMA ResultAbort ==
  ASSUME TypeOK, ResultInv, NEW a \in Aborters, AbortLocked(a)
  PROVE  ResultInv'
<1> DEFINE i == atarget[a]
<1>1. /\ i \in Requests /\ UNCHANGED <<pc, wpc, current>> /\ queue'[i] = <<>>
      /\ \A j \in Requests : j # i => queue'[j] = queue[j]
      /\ results' = DrainedResults(i)
  BY DEF AbortLocked, ClearedQueue, TypeOK, OtherTypes, InstanceTypes, NilFree
<1> HIDE DEF i
<1>2. \A j, q \in Requests : \A n \in DOMAIN queue'[j] :
         j # i /\ n \in DOMAIN queue[j] /\ queue'[j][n] = queue[j][n]
  BY <1>1
<1>3. ASSUME NEW q \in Requests
      PROVE  OwnEntryUnique(q)' /\ (NoOwnEntry(q) => NoOwnEntry(q)')
  <2>1. OwnEntryUnique(q)
    BY DEF ResultInv
  <2>. QED BY <1>1, <1>2, <2>1 DEF OwnEntryUnique, NoOwnEntry, HoldsOwn, InQueue
<1>4. ASSUME NEW q \in Requests, InQueue(Own(q), i)
      PROVE  /\ results[q] = <<>> /\ Len(results'[q]) <= 1 /\ NoOwnEntry(q)'
             /\ pc[q] \notin {"idle", "load", "enqueue", "signal"}
  <2>1. ~NoOwnEntry(q) /\ OwnEntryUnique(q)
    BY <1>1, <1>4 DEF ResultInv, NoOwnEntry
  <2>2. results[q] = <<>> /\ pc[q] \notin {"idle", "load", "enqueue", "signal"}
    BY <2>1 DEF ResultInv
  <2>3. results'[q] = Append(<<>>, "canceled")
    BY <1>1, <1>4, <2>2 DEF DrainedResults
  <2>4. NoOwnEntry(q)'
    BY <1>1, <1>2, <1>4, <2>1 DEF NoOwnEntry, OwnEntryUnique, HoldsOwn, InQueue
  <2>. QED BY <2>2, <2>3, <2>4
<1>5. ASSUME NEW q \in Requests, ~InQueue(Own(q), i)
      PROVE  results'[q] = results[q]
  BY <1>1, <1>5 DEF DrainedResults
<1>. QED BY <1>1, <1>3, <1>4, <1>5 DEF ResultInv

(* A request that moves on without a result and without an entry: nothing   *)
(* ResultInv relates to it changes.                                         *)
LEMMA ResultMove ==
  ASSUME TypeOK, ResultInv, NEW r \in Requests,
         NEW s \in {"load", "enqueue", "signal", "cleanup", "done"},
         pc' = [pc EXCEPT ![r] = s],
         \/ pc[r] \in {"idle", "load", "enqueue"}
         \/ s \in {"cleanup", "done"},
         UNCHANGED <<results, queue, wpc, current>>
  PROVE  ResultInv'
<1>1. ASSUME NEW q \in Requests
      PROVE  OwnEntryUnique(q)' /\ (NoOwnEntry(q) => NoOwnEntry(q)')
  <2>1. OwnEntryUnique(q)
    BY DEF ResultInv
  <2>. QED BY <2>1 DEF OwnEntryUnique, NoOwnEntry, HoldsOwn, InQueue
<1>2. ASSUME NEW q \in Requests, pc'[q] \in {"idle", "load", "enqueue", "signal"}
      PROVE  pc[q] \in {"idle", "load", "enqueue", "signal"}
  BY <1>2 DEF TypeOK, RequestTypes
<1>. QED BY <1>1, <1>2 DEF ResultInv

(* Every step keeps at most one result sent or owed.                        *)
LEMMA ResultNext == TypeOK /\ ResultInv /\ [Next]_vars => ResultInv'
<1> SUFFICES ASSUME TypeOK, ResultInv, [Next]_vars
             PROVE  ResultInv'
  OBVIOUS
<1>1. ASSUME NEW r \in Runs, Run(r) \/ Cleanup(r)
      PROVE  ResultInv'
  BY <1>1, ResultMove DEF Run, Cleanup, Requests
<1>2. ASSUME NEW r \in Compacts, CompactConversation(r) \/ CompactGivesUp(r)
      PROVE  ResultInv'
  BY <1>2, ResultMove DEF CompactConversation, CompactGivesUp, Requests
<1>3. ASSUME NEW r \in Requests, RequestStep(r)
      PROVE  ResultInv'
  <2>1. CASE LoadOrStore(r) \/ EnqueueInject(r)
    BY <2>1, ResultMove DEF LoadOrStore, EnqueueInject
  <2>2. CASE ReceiveResult(r)
    <3>1. pc' = [pc EXCEPT ![r] = "cleanup"] \/ pc' = [pc EXCEPT ![r] = "done"]
      BY <2>2 DEF ReceiveResult
    <3>. QED BY <2>2, <3>1, ResultMove DEF ReceiveResult
  <2>3. CASE EnqueueRefused(r)
    BY <2>3, ResultDirect DEF EnqueueRefused, Result
  <2>4. CASE SignalMidRunMessage(r)
    BY <2>4, ResultDirect DEF SignalMidRunMessage, Result
  <2>5. CASE EnqueueAppend(r)
    BY <2>5, ResultEnqueue
  <2>. QED BY <1>3, <2>1, <2>2, <2>3, <2>4, <2>5 DEF RequestStep
<1>4. ASSUME NEW i \in Requests, WorkerStep(i) \/ ScheduleLifecycle(i) \/ RunnerPanic(i)
      PROVE  ResultInv'
  <2>1. CASE ProcessExit(i)
    <3>1. \A q \in Requests : OwnEntryUnique(q)
      BY DEF ResultInv
    <3>2. UNCHANGED <<pc, results, queue, current>> /\ wpc' = [wpc EXCEPT ![i] = "none"]
      BY <2>1 DEF ProcessExit
    <3>3. ASSUME NEW q \in Requests
          PROVE  OwnEntryUnique(q)' /\ (NoOwnEntry(q) => NoOwnEntry(q)')
      BY <3>1, <3>2 DEF OwnEntryUnique, NoOwnEntry, HoldsOwn, InQueue, TypeOK, WorkerTypes
    <3>. QED BY <3>2, <3>3 DEF ResultInv
  <2>2. CASE ProcessDequeue(i)
    BY <2>2, ResultDequeue
  <2>3. CASE RunnerBegin(i) \/ RunnerCheck(i)
    BY <2>3, ResultExecution DEF RunnerBegin, RunnerCheck
  <2>4. CASE RunnerDrain(i)
    <3>1. wpc' = [wpc EXCEPT ![i] = "rounds"] \/ wpc' = [wpc EXCEPT ![i] = "returned"]
      BY <2>4 DEF RunnerDrain
    <3>. QED BY <2>4, <3>1, ResultExecution DEF RunnerDrain
  <2>5. CASE RunnerFinish(i) \/ RunnerFail(i) \/ RunnerPanic(i)
    BY <2>5, ResultExecution DEF RunnerFinish, RunnerFail, RunnerPanic
  <2>6. CASE SendResult(i)
    BY <2>6, ResultSend
  <2>7. CASE SpillMidRunMessages(i)
    BY <2>7, ResultSpill
  <2>8. CASE ScheduleLifecycle(i)
    BY <2>8, ResultFrame DEF ScheduleLifecycle
  <2>. QED BY <1>4, <2>1, <2>2, <2>3, <2>4, <2>5, <2>6, <2>7, <2>8 DEF WorkerStep
<1>5. ASSUME NEW a \in Aborters, AbortConversationRun(a) \/ AbortLocked(a)
      PROVE  ResultInv'
  BY <1>5, ResultFrame, ResultAbort DEF AbortConversationRun
<1>6. CASE UNCHANGED vars
  BY <1>6, ResultFrame DEF vars
<1>. QED
  BY <1>1, <1>2, <1>3, <1>4, <1>5, <1>6 DEF Next, AbortRun, Finished

(* For any number of runs, compactions and aborts, and even when runs       *)
(* panic or the store fails, no request is ever sent two results: neither   *)
(* processQueue nor AbortConversationRun, which sends with the mutex held,  *)
(* can block for ever on a result channel of capacity 1.                    *)
THEOREM OneResultCorrect == Spec => []OneResult
<1>1. Init => ResultInv
  BY DEF Init, ResultInv, NoOwnEntry, OwnEntryUnique, HoldsOwn, InQueue
<1>2. ResultInv => OneResult
  BY DEF ResultInv, OneResult
<1>. QED BY <1>1, <1>2, TypeCorrect, ResultNext, PTL DEF Spec

-----------------------------------------------------------------------------
(* A cleanup leaves the entry of a newer run alone.                         *)
LEMMA LatestNext == TypeOK /\ LatestRunVisible /\ [Next]_vars => LatestRunVisible'
<1> SUFFICES ASSUME TypeOK, LatestRunVisible, [Next]_vars
             PROVE  LatestRunVisible'
  OBVIOUS
<1> USE DEF LatestRunVisible, TypeOK, RequestTypes, MapTypes
<1>1. ASSUME NEW r \in Runs, Run(r)
      PROVE  LatestRunVisible'
  BY <1>1 DEF Run
<1>2. ASSUME NEW r \in Runs, Cleanup(r)
      PROVE  LatestRunVisible'
  BY <1>2 DEF Cleanup, ReleasedIndex, Requests
<1>3. ASSUME NEW r \in Compacts, CompactConversation(r) \/ CompactGivesUp(r)
      PROVE  LatestRunVisible'
  BY <1>3, ConstantsAssumption DEF CompactConversation, CompactGivesUp, Requests
<1>4. ASSUME NEW r \in Requests, RequestStep(r)
      PROVE  LatestRunVisible'
  <2>1. UNCHANGED <<latestRun, activeRun>> /\ pc[r] # "done"
        /\ \A q \in Requests : q # r => pc'[q] = pc[q]
    BY <1>4 DEF RequestStep, LoadOrStore, EnqueueRefused, EnqueueInject, SignalMidRunMessage,
       EnqueueAppend, ReceiveResult
  <2>. QED BY <2>1, ConstantsAssumption DEF Requests
<1>5. CASE UNCHANGED <<latestRun, activeRun, pc>>
  BY <1>5
<1>6. ASSUME NEW i \in Requests, WorkerStep(i) \/ ScheduleLifecycle(i) \/ RunnerPanic(i)
      PROVE  LatestRunVisible'
  BY <1>5, <1>6 DEF WorkerStep, ProcessExit, ProcessDequeue, RunnerBegin, RunnerCheck,
     RunnerDrain, RunnerFinish, RunnerFail, SendResult, SpillMidRunMessages,
     ScheduleLifecycle, RunnerPanic
<1>7. ASSUME NEW a \in Aborters, AbortConversationRun(a) \/ AbortLocked(a)
      PROVE  LatestRunVisible'
  BY <1>5, <1>7 DEF AbortConversationRun, AbortLocked
<1>8. CASE UNCHANGED vars
  BY <1>5, <1>8 DEF vars
<1>. QED
  BY <1>1, <1>2, <1>3, <1>4, <1>6, <1>7, <1>8 DEF Next, AbortRun, Finished

(* However many runs of a conversation overlap, the one that started last   *)
(* is its active run until its own cleanup.                                 *)
THEOREM LatestRunCorrect == Spec => []LatestRunVisible
<1>1. Init => LatestRunVisible
  BY DEF Init, LatestRunVisible
<1>. QED BY <1>1, TypeCorrect, LatestNext, PTL DEF Spec

-----------------------------------------------------------------------------
(* Every step leaves the map's entry with somebody who will delete it.      *)
LEMMA EntryNext ==
  TypeOK /\ ProcessorMatchesFlag /\ EntryInv /\ [Next]_vars => EntryInv'
<1> SUFFICES ASSUME TypeOK, ProcessorMatchesFlag, EntryInv, [Next]_vars
             PROVE  EntryInv'
  OBVIOUS
<1> USE DEF EntryInv, TypeOK, RequestTypes, MapTypes, InstanceTypes, WorkerTypes
<1>1. ASSUME NEW r \in Requests, LoadOrStore(r)
      PROVE  EntryInv'
  BY <1>1 DEF LoadOrStore
<1>2. ASSUME NEW r \in Requests, EnqueueRefused(r)
      PROVE  EntryInv'
  BY <1>2 DEF EnqueueRefused
<1>3. ASSUME NEW r \in Requests, EnqueueInject(r)
      PROVE  EntryInv'
  BY <1>3 DEF EnqueueInject, Injectable, ProcessorMatchesFlag
<1>4. ASSUME NEW r \in Requests, EnqueueAppend(r)
      PROVE  EntryInv'
  <2>1. /\ wpc'[inst[r]] # "none"
        /\ \A i \in Requests : wpc[i] # "none" => wpc'[i] # "none"
    <3>1. CASE processing[inst[r]]
      BY <1>4, <3>1 DEF EnqueueAppend, ProcessorMatchesFlag, NilFree
    <3>2. CASE ~processing[inst[r]]
      BY <1>4, <3>2 DEF EnqueueAppend, NilFree
    <3>. QED BY <3>1, <3>2
  <2>2. /\ UNCHANGED <<activeRunners, aborted, inst>>
        /\ \A q \in Requests : q # r => pc'[q] = pc[q]
    BY <1>4 DEF EnqueueAppend
  <2>. QED BY <2>1, <2>2
<1>5. ASSUME NEW r \in Requests, SignalMidRunMessage(r) \/ ReceiveResult(r)
      PROVE  EntryInv'
  BY <1>5 DEF SignalMidRunMessage, ReceiveResult
<1>6. ASSUME NEW r \in Requests,
             \/ r \in Runs /\ (Run(r) \/ Cleanup(r))
             \/ r \in Compacts /\ (CompactConversation(r) \/ CompactGivesUp(r))
      PROVE  EntryInv'
  BY <1>6 DEF Run, Cleanup, CompactConversation, CompactGivesUp
<1>7. ASSUME NEW i \in Requests, ProcessExit(i)
      PROVE  EntryInv'
  BY <1>7 DEF ProcessExit, DeletedEntry
<1>8. ASSUME NEW i \in Requests,
             \/ WorkerStep(i) /\ ~ProcessExit(i)
             \/ ScheduleLifecycle(i) \/ RunnerPanic(i)
      PROVE  EntryInv'
  <2>1. /\ UNCHANGED <<activeRunners, aborted, inst, pc>>
        /\ \A j \in Requests : wpc[j] # "none" => wpc'[j] # "none"
    BY <1>8 DEF WorkerStep, ProcessDequeue, RunnerBegin, RunnerCheck, RunnerDrain,
       RunnerFinish, RunnerFail, SendResult, SpillMidRunMessages, ScheduleLifecycle, RunnerPanic
  <2>. QED BY <2>1
<1>9. ASSUME NEW a \in Aborters, AbortConversationRun(a) \/ AbortLocked(a)
      PROVE  EntryInv'
  <2>1. /\ UNCHANGED <<activeRunners, wpc, inst, pc>>
        /\ \A j \in Requests : aborted[j] => aborted'[j]
    BY <1>9 DEF AbortConversationRun, AbortLocked
  <2>. QED BY <2>1
<1>10. CASE UNCHANGED vars
  BY <1>10 DEF vars
<1>. QED
  BY <1>1, <1>2, <1>3, <1>4, <1>5, <1>6, <1>7, <1>8, <1>9, <1>10
     DEF Next, RequestStep, AbortRun, Finished, Requests

(* A conversation at rest has no conversationRunner in the map but one that *)
(* was aborted.                                                             *)
THEOREM RestIsCleanCorrect == Spec => []RestIsClean
<1>1. Init => EntryInv
  BY DEF Init, EntryInv
<1>2. TypeOK /\ EntryInv => RestIsClean
  BY DEF TypeOK, MapTypes, EntryInv, RestIsClean, AtRest
<1>. QED BY <1>1, <1>2, TypeCorrect, FlagCorrect, EntryNext, PTL DEF Spec

-----------------------------------------------------------------------------
(* Where a user message is, for every set of requests and abort calls: it   *)
(* is in one place at most, a rejected one is nowhere, and a pending one is *)
(* not dropped.                                                             *)

(* A Runner is made by the request whose name it has, for one               *)
(* conversationRunner.                                                      *)
LEMMA RunnerNext == TypeOK /\ RunnerInv /\ [Next]_vars => RunnerInv'
<1> SUFFICES ASSUME TypeOK, RunnerInv, [Next]_vars
             PROVE  RunnerInv'
  OBVIOUS
<1> USE DEF RunnerInv, TypeOK, RequestTypes, InstanceTypes
<1>1. ASSUME NEW r \in Requests, LoadOrStore(r)
      PROVE  RunnerInv'
  BY <1>1 DEF LoadOrStore
<1>2. ASSUME NEW r \in Requests, EnqueueAppend(r)
      PROVE  RunnerInv'
  <2>1. CASE processing[inst[r]]
    BY <1>2, <2>1 DEF EnqueueAppend
  <2>2. CASE ~processing[inst[r]]
    <3>1. PICK created \in {r, None} : runner' = [runner EXCEPT ![inst[r]] = created]
      BY <1>2, <2>2 DEF EnqueueAppend
    <3>2. /\ pc' = [pc EXCEPT ![r] = "wait"] /\ UNCHANGED inst
          /\ inst[r] \in Requests
      BY <1>2 DEF EnqueueAppend, NilFree
    <3>. QED BY <3>1, <3>2
  <2>. QED BY <2>1, <2>2
<1>3. ASSUME NEW r \in Requests, NEW s \in {"signal", "wait", "cleanup", "done"},
             pc' = [pc EXCEPT ![r] = s], UNCHANGED <<inst, runner>>
      PROVE  RunnerInv'
  BY <1>3
<1>4. ASSUME NEW r \in Requests,
             RequestStep(r) /\ ~LoadOrStore(r) /\ ~EnqueueAppend(r)
      PROVE  RunnerInv'
  BY <1>3, <1>4 DEF RequestStep, EnqueueRefused, EnqueueInject, SignalMidRunMessage,
     ReceiveResult
<1>5. ASSUME NEW r \in Requests,
             \/ r \in Runs /\ (Run(r) \/ Cleanup(r))
             \/ r \in Compacts /\ (CompactConversation(r) \/ CompactGivesUp(r))
      PROVE  RunnerInv'
  <2>1. CASE (r \in Runs /\ Run(r)) \/ (r \in Compacts /\ CompactConversation(r))
    BY <2>1 DEF Run, CompactConversation
  <2>2. CASE (r \in Runs /\ Cleanup(r)) \/ (r \in Compacts /\ CompactGivesUp(r))
    BY <1>3, <2>2 DEF Cleanup, CompactGivesUp
  <2>. QED BY <1>5, <2>1, <2>2
<1>6. ASSUME NEW i \in Requests, ProcessExit(i)
      PROVE  RunnerInv'
  BY <1>6 DEF ProcessExit
<1>7. CASE UNCHANGED <<runner, inst, pc>>
  BY <1>7
<1>8. ASSUME NEW i \in Requests,
             \/ WorkerStep(i) /\ ~ProcessExit(i)
             \/ ScheduleLifecycle(i) \/ RunnerPanic(i)
      PROVE  RunnerInv'
  BY <1>7, <1>8 DEF WorkerStep, ProcessDequeue, RunnerBegin, RunnerCheck, RunnerDrain,
     RunnerFinish, RunnerFail, SendResult, SpillMidRunMessages, ScheduleLifecycle, RunnerPanic
<1>9. ASSUME NEW a \in Aborters, AbortConversationRun(a) \/ AbortLocked(a)
      PROVE  RunnerInv'
  BY <1>7, <1>9 DEF AbortConversationRun, AbortLocked
<1>10. CASE UNCHANGED vars
  BY <1>7, <1>10 DEF vars
<1>. QED
  BY <1>1, <1>2, <1>4, <1>5, <1>6, <1>8, <1>9, <1>10 DEF Next, RequestStep, AbortRun, Finished,
     Requests

LEMMA RunnerInvariant == Spec => []RunnerInv
<1>1. Init => RunnerInv
  BY DEF Init, RunnerInv
<1>. QED BY <1>1, TypeCorrect, RunnerNext, PTL DEF Spec

-----------------------------------------------------------------------------
(* What PendingNeverDropped says of a step.                                 *)
PendingKept ==
    \A i \in Requests : runner[i] # None /\ wpc[i] # "none" =>
        \A r \in Elements(midRunMessages[runner[i]]) :
            \/ r \in Elements(midRunMessages'[runner[i]])
            \/ r \in Elements(transcript')
            \/ Spilled(r) \in Elements(queue'[i])

(* Appending to a sequence keeps its elements and adds the new ones.        *)
LEMMA ElementsAppend ==
  ASSUME NEW S, NEW s \in Seq(S), NEW x \in S
  PROVE  Elements(s) \subseteq Elements(Append(s, x))
BY DEF Elements

LEMMA ElementsConcat ==
  ASSUME NEW S, NEW s \in Seq(S), NEW t \in Seq(S)
  PROVE  Elements(t) \subseteq Elements(s \o t)
<1> SUFFICES ASSUME NEW n \in DOMAIN t
             PROVE  \E m \in DOMAIN (s \o t) : (s \o t)[m] = t[n]
  BY DEF Elements
<1>1. /\ Len(s) + n \in DOMAIN (s \o t)
      /\ (s \o t)[Len(s) + n] = t[n]
  OBVIOUS
<1>. QED BY <1>1

(* Every step keeps the pending messages of a live runner: it leaves them,  *)
(* saves them or puts them back into the queue.                             *)
LEMMA PendingNext ==
  ASSUME TypeOK, RunnerInv, ~StoreMayFail, [Next]_vars
  PROVE  PendingKept
<1>1. CASE UNCHANGED midRunMessages
  BY <1>1 DEF PendingKept
<1>2. ASSUME NEW r \in Requests, SignalMidRunMessage(r)
      PROVE  PendingKept
  <2>1. /\ target[r] \in Requests /\ r \in Runs
        /\ midRunMessages' = [midRunMessages EXCEPT ![target[r]] = Append(@, r)]
    BY <1>2 DEF SignalMidRunMessage, TypeOK, RequestTypes, NilFree
  <2>2. \A q \in Requests : Elements(midRunMessages[q]) \subseteq Elements(midRunMessages'[q])
    BY <2>1, ElementsAppend DEF TypeOK, RunnerTypes
  <2>. QED BY <2>2 DEF PendingKept, TypeOK, InstanceTypes
<1>3. ASSUME NEW j \in Requests, RunnerDrain(j)
      PROVE  PendingKept
  <2> DEFINE q == runner[j]
  <2>1. /\ q \in Requests
        /\ midRunMessages[q] \in Seq(Runs) /\ transcript \in Seq(Runs)
    BY <1>3 DEF RunnerDrain, TypeOK, NilFree, InstanceTypes, RunnerTypes
  <2>2. /\ midRunMessages' = [midRunMessages EXCEPT ![q] = <<>>]
        /\ transcript' = transcript \o midRunMessages[q]
    BY <1>3 DEF RunnerDrain, DrainMidRunMessages
  <2>3. Elements(midRunMessages[q]) \subseteq Elements(transcript')
    BY <2>1, <2>2, ElementsConcat
  <2>4. \A p \in Requests : p # q => midRunMessages'[p] = midRunMessages[p]
    BY <2>2 DEF TypeOK, RunnerTypes
  <2>. HIDE DEF q
  <2>. QED BY <2>3, <2>4 DEF PendingKept, TypeOK, InstanceTypes
<1>4. ASSUME NEW j \in Requests, SpillMidRunMessages(j)
      PROVE  PendingKept
  <2>1. CASE runner[j] = None
    BY <1>1, <1>4, <2>1 DEF SpillMidRunMessages
  <2>2. CASE runner[j] # None
    <3> DEFINE left == midRunMessages[runner[j]]
               tail == [n \in 1..Len(left) |-> Spilled(left[n])]
    <3>1. /\ left \in Seq(Runs) /\ queue[j] \in Seq(Entry)
          /\ \A r \in Runs : Spilled(r) \in Entry
      BY <2>2 DEF TypeOK, InstanceTypes, RunnerTypes, Spilled, Entry, Requests
    <3>2. /\ tail \in Seq(Entry) /\ DOMAIN tail = DOMAIN left
          /\ \A n \in DOMAIN left : tail[n] = Spilled(left[n])
      BY <3>1
    <3>3. queue'[j] = queue[j] \o tail
      BY <1>4, <2>2 DEF SpillMidRunMessages, Requeued, TypeOK, InstanceTypes
    <3>4. \A p \in Requests : p # runner[j] => midRunMessages'[p] = midRunMessages[p]
      BY <1>4, <2>2 DEF SpillMidRunMessages, DrainMidRunMessages, TypeOK, RunnerTypes
    <3>5. \A r \in Elements(left) : Spilled(r) \in Elements(queue'[j])
      <4> HIDE DEF left, tail
      <4>1. Elements(tail) \subseteq Elements(queue'[j])
        BY <3>1, <3>2, <3>3, ElementsConcat
      <4>2. \A r \in Elements(left) : Spilled(r) \in Elements(tail)
        BY <3>2 DEF Elements
      <4>. QED BY <4>1, <4>2
    <3>6. \A i \in Requests : runner[i] # None /\ i # j => runner[i] # runner[j]
      BY <2>2 DEF RunnerInv
    <3>. QED BY <3>4, <3>5, <3>6 DEF PendingKept, TypeOK, InstanceTypes
  <2>. QED BY <2>1, <2>2
<1>5. ASSUME NEW r \in Requests, RequestStep(r)
      PROVE  PendingKept
  BY <1>1, <1>2, <1>5 DEF RequestStep, LoadOrStore, EnqueueRefused, EnqueueInject,
     EnqueueAppend, ReceiveResult
<1>6. ASSUME NEW i \in Requests, WorkerStep(i) \/ ScheduleLifecycle(i) \/ RunnerPanic(i)
      PROVE  PendingKept
  BY <1>1, <1>3, <1>4, <1>6 DEF WorkerStep, ProcessExit, ProcessDequeue, RunnerBegin,
     RunnerCheck, RunnerFinish, RunnerFail, SendResult, ScheduleLifecycle, RunnerPanic
<1>7. ASSUME NEW r \in Requests,
             Run(r) \/ Cleanup(r) \/ CompactConversation(r) \/ CompactGivesUp(r)
      PROVE  PendingKept
  BY <1>1, <1>7 DEF Run, Cleanup, CompactConversation, CompactGivesUp
<1>8. ASSUME NEW a \in Aborters, AbortConversationRun(a) \/ AbortLocked(a)
      PROVE  PendingKept
  BY <1>1, <1>8 DEF AbortConversationRun, AbortLocked
<1>9. CASE UNCHANGED vars
  BY <1>1, <1>9 DEF vars
<1>. QED BY <1>5, <1>6, <1>7, <1>8, <1>9 DEF Next, AbortRun, Finished, Requests

(* While the store does not fail, no step drops a mid-run message of a      *)
(* runner whose processQueue goroutine is alive, however requests, spills   *)
(* and aborts of any number overlap.                                        *)
THEOREM PendingCorrect == ASSUME ~StoreMayFail PROVE Spec => PendingNeverDropped
<1>1. TypeOK /\ RunnerInv /\ [Next]_vars => [PendingKept]_vars
  BY PendingNext
<1>2. PendingNeverDropped <=> [][PendingKept]_vars
  BY PTL DEF PendingNeverDropped, PendingKept
<1>. QED BY <1>1, <1>2, TypeCorrect, RunnerInvariant, PTL DEF Spec

-----------------------------------------------------------------------------
(* Membership in Places, as a predicate of the place.                       *)
IsPlace(p, r) ==
    \/ \E i \in Requests : \E n \in DOMAIN queue[i] :
          queue[i][n].request = r /\ p = <<"queue", i, n>>
    \/ \E i \in Requests : wpc[i] = "run" /\ current[i].request = r /\ p = <<"begin", i, 0>>
    \/ \E q \in Requests : \E n \in DOMAIN midRunMessages[q] :
          midRunMessages[q][n] = r /\ p = <<"midrun", q, n>>
    \/ \E n \in DOMAIN transcript : transcript[n] = r /\ p = <<"saved", None, n>>

(* Places(r) is the set of what IsPlace describes, before and after a step. *)
LEMMA PlacesAre ==
  ASSUME NEW r, NEW p
  PROVE  (p \in Places(r) <=> IsPlace(p, r)) /\ (p \in Places(r)' <=> IsPlace(p, r)')
<1>1. /\ p \in Queued(r) <=> \E i \in Requests : \E n \in DOMAIN queue[i] :
                                queue[i][n].request = r /\ p = <<"queue", i, n>>
      /\ p \in Queued(r)' <=> \E i \in Requests : \E n \in DOMAIN queue'[i] :
                                 queue'[i][n].request = r /\ p = <<"queue", i, n>>
  BY DEF Queued
<1>2. /\ p \in Taken(r) <=> \E i \in Requests :
                wpc[i] = "run" /\ current[i].request = r /\ p = <<"begin", i, 0>>
      /\ p \in Taken(r)' <=> \E i \in Requests :
                wpc'[i] = "run" /\ current'[i].request = r /\ p = <<"begin", i, 0>>
  BY DEF Taken
<1>3. /\ p \in Pending(r) <=> \E q \in Requests : \E n \in DOMAIN midRunMessages[q] :
                                 midRunMessages[q][n] = r /\ p = <<"midrun", q, n>>
      /\ p \in Pending(r)' <=> \E q \in Requests : \E n \in DOMAIN midRunMessages'[q] :
                                  midRunMessages'[q][n] = r /\ p = <<"midrun", q, n>>
  BY DEF Pending
<1>4. /\ p \in Saved(r) <=> \E n \in DOMAIN transcript :
                               transcript[n] = r /\ p = <<"saved", None, n>>
      /\ p \in Saved(r)' <=> \E n \in DOMAIN transcript' :
                                transcript'[n] = r /\ p = <<"saved", None, n>>
  BY DEF Saved
<1>. QED BY <1>1, <1>2, <1>3, <1>4 DEF Places, IsPlace

(* After the step every place of r comes from a place it had before, no two *)
(* from the same one.                                                       *)
Inherits(r) ==
    \E f : /\ \A p \in Places(r)' : f[p] \in Places(r)
           /\ \A p, q \in Places(r)' : f[p] = f[q] => p = q

AtMostOne(r) == \A p, q \in Places(r) : p = q

(* Such a step makes no second place, and none out of nothing.              *)
LEMMA InheritsOne ==
  ASSUME NEW r, Inherits(r)
  PROVE  (AtMostOne(r) => AtMostOne(r)') /\ (Places(r) = {} => Places(r)' = {})
BY DEF Inherits, AtMostOne

LEMMA InheritsSubset ==
  ASSUME NEW r, Places(r)' \subseteq Places(r)
  PROVE  Inherits(r)
<1> DEFINE f == [p \in Places(r)' |-> p]
<1>1. /\ \A p \in Places(r)' : f[p] \in Places(r)
      /\ \A p, q \in Places(r)' : f[p] = f[q] => p = q
  OBVIOUS
<1>. QED BY <1>1 DEF Inherits

(* A step that leaves the lists alone, and begins no message.               *)
LEMMA InheritsFrame ==
  ASSUME NEW r, UNCHANGED <<queue, midRunMessages, transcript>>,
         \A i \in Requests : wpc'[i] = "run" => wpc[i] = "run" /\ current'[i] = current[i]
  PROVE  Inherits(r)
<1>1. \A p : IsPlace(p, r)' => IsPlace(p, r)
  BY DEF IsPlace
<1>. QED BY <1>1, PlacesAre, InheritsSubset

(* An abort empties a queue.                                                *)
LEMMA InheritsAbort ==
  ASSUME TypeOK, NEW a \in Aborters, AbortLocked(a), NEW r
  PROVE  Inherits(r)
<1>1. \A i \in Requests : queue'[i] = <<>> \/ queue'[i] = queue[i]
  BY DEF AbortLocked, ClearedQueue, TypeOK, InstanceTypes
<1>2. UNCHANGED <<midRunMessages, transcript, wpc, current>>
  BY DEF AbortLocked
<1>3. \A p : IsPlace(p, r)' => IsPlace(p, r)
  BY <1>1, <1>2 DEF IsPlace
<1>. QED BY <1>3, PlacesAre, InheritsSubset

(* The head of the queue goes to the goroutine, the others move up.         *)
LEMMA InheritsDequeue ==
  ASSUME TypeOK, NEW i \in Requests, ProcessDequeue(i), NEW r
  PROVE  Inherits(r)
<1>1. /\ queue[i] \in Seq(Entry) /\ queue[i] # <<>> /\ queue'[i] = Tail(queue[i])
      /\ \A j \in Requests : j # i => queue'[j] = queue[j]
      /\ current'[i] = queue[i][1] /\ 1 \in DOMAIN queue[i]
      /\ \A j \in Requests : j # i => current'[j] = current[j] /\ wpc'[j] = wpc[j]
      /\ wpc[i] = "next"
      /\ UNCHANGED <<midRunMessages, transcript>>
  BY DEF ProcessDequeue, TypeOK, InstanceTypes, WorkerTypes
<1>2. \A n \in DOMAIN queue'[i] :
         n \in Nat /\ n + 1 \in DOMAIN queue[i] /\ n + 1 # 1 /\ queue'[i][n] = queue[i][n + 1]
  BY <1>1
<1> DEFINE From(p) == IF p[1] = "begin" /\ p[2] = i THEN <<"queue", i, 1>>
                      ELSE IF p[1] = "queue" /\ p[2] = i THEN <<"queue", i, p[3] + 1>>
                      ELSE p
           f == [p \in Places(r)' |-> From(p)]
<1>3. ASSUME NEW p, IsPlace(p, r)'
      PROVE  IsPlace(From(p), r)
  <2>1. CASE \E j \in Requests : \E n \in DOMAIN queue'[j] :
                queue'[j][n].request = r /\ p = <<"queue", j, n>>
    <3>0. PICK j \in Requests : \E n \in DOMAIN queue'[j] :
                queue'[j][n].request = r /\ p = <<"queue", j, n>>
      BY <2>1
    <3>1. PICK n \in DOMAIN queue'[j] : queue'[j][n].request = r /\ p = <<"queue", j, n>>
      BY <3>0
    <3>2. CASE j = i
      BY <1>2, <3>1, <3>2 DEF IsPlace
    <3>3. CASE j # i
      BY <1>1, <3>1, <3>3 DEF IsPlace
    <3>. QED BY <3>2, <3>3
  <2>2. CASE \E j \in Requests : wpc'[j] = "run" /\ current'[j].request = r
                                 /\ p = <<"begin", j, 0>>
    BY <1>1, <2>2 DEF IsPlace
  <2>3. CASE \/ \E q \in Requests : \E n \in DOMAIN midRunMessages[q] :
                   midRunMessages[q][n] = r /\ p = <<"midrun", q, n>>
             \/ \E n \in DOMAIN transcript : transcript[n] = r /\ p = <<"saved", None, n>>
    BY <2>3 DEF IsPlace
  <2>. QED BY <1>1, <1>3, <2>1, <2>2, <2>3 DEF IsPlace
<1>4. ASSUME NEW p, NEW q, IsPlace(p, r)', IsPlace(q, r)', From(p) = From(q)
      PROVE  p = q
  <2>1. ASSUME NEW x, IsPlace(x, r)'
        PROVE  \/ x[1] = "begin" /\ x[2] = i /\ x = <<"begin", i, 0>>
               \/ x[1] = "queue" /\ x[2] = i /\ x[3] \in Nat \ {0} /\ x = <<"queue", i, x[3]>>
               \/ ~(x[1] \in {"begin", "queue"} /\ x[2] = i)
    <3>1. ASSUME NEW j \in Requests, NEW n \in DOMAIN queue'[j], x = <<"queue", j, n>>
          PROVE  j = i => n \in Nat \ {0}
      BY <1>2, <3>1
    <3>. QED BY <2>1, <3>1 DEF IsPlace
  <2>2. CASE p[1] = "begin" /\ p[2] = i
    BY <1>4, <2>1, <2>2
  <2>3. CASE p[1] = "queue" /\ p[2] = i
    BY <1>4, <2>1, <2>3
  <2>4. CASE ~(p[1] \in {"begin", "queue"} /\ p[2] = i)
    BY <1>4, <2>1, <2>4
  <2>. QED BY <2>2, <2>3, <2>4
<1>5. \A p \in Places(r)' : f[p] = From(p)
  OBVIOUS
<1> HIDE DEF From, f
<1>6. \A p \in Places(r)' : f[p] \in Places(r)
  BY <1>3, <1>5, PlacesAre
<1>7. \A p, q \in Places(r)' : f[p] = f[q] => p = q
  BY <1>4, <1>5, PlacesAre
<1>. QED BY <1>6, <1>7 DEF Inherits

(* The run's message goes from the goroutine to the end of the transcript.  *)
LEMMA InheritsBegin ==
  ASSUME TypeOK, NEW i \in Requests, RunnerBegin(i), NEW r
  PROVE  Inherits(r)
<1> DEFINE L == Len(transcript)
<1>1. /\ transcript \in Seq(Runs) /\ current[i].request \in Runs
      /\ transcript' = Append(transcript, current[i].request)
      /\ wpc[i] = "run" /\ wpc'[i] = "rounds"
      /\ \A j \in Requests : j # i => wpc'[j] = wpc[j]
      /\ UNCHANGED <<queue, midRunMessages, current>>
  BY DEF RunnerBegin, Compact, TypeOK, RunnerTypes, WorkerTypes, NilFree, Entry, Requests
<1>2. /\ L \in Nat
      /\ \A n \in DOMAIN transcript' :
            \/ n \in DOMAIN transcript /\ n # L + 1 /\ transcript'[n] = transcript[n]
            \/ n = L + 1 /\ transcript'[n] = current[i].request
  BY <1>1
<1> HIDE DEF L
<1> DEFINE From(p) == IF p[1] = "saved" /\ p[3] = L + 1 THEN <<"begin", i, 0>> ELSE p
           f == [p \in Places(r)' |-> From(p)]
<1>3. ASSUME NEW p, IsPlace(p, r)'
      PROVE  IsPlace(From(p), r)
  <2>1. CASE \E n \in DOMAIN transcript' : transcript'[n] = r /\ p = <<"saved", None, n>>
    BY <1>1, <1>2, <2>1 DEF IsPlace
  <2>2. CASE \E j \in Requests : wpc'[j] = "run" /\ current'[j].request = r
                                 /\ p = <<"begin", j, 0>>
    BY <1>1, <2>2 DEF IsPlace
  <2>3. CASE \/ \E q \in Requests : \E n \in DOMAIN midRunMessages[q] :
                   midRunMessages[q][n] = r /\ p = <<"midrun", q, n>>
             \/ \E j \in Requests : \E n \in DOMAIN queue[j] :
                   queue[j][n].request = r /\ p = <<"queue", j, n>>
    BY <2>3 DEF IsPlace
  <2>. QED BY <1>1, <1>3, <2>1, <2>2, <2>3 DEF IsPlace
<1>4. ASSUME NEW p, NEW q, IsPlace(p, r)', IsPlace(q, r)', From(p) = From(q)
      PROVE  p = q
  <2>1. ASSUME NEW x, IsPlace(x, r)'
        PROVE  (x[1] = "saved" => x = <<"saved", None, x[3]>>) /\ x # <<"begin", i, 0>>
    BY <1>1, <2>1 DEF IsPlace
  <2>. QED BY <1>4, <2>1
<1>5. \A p \in Places(r)' : f[p] = From(p)
  OBVIOUS
<1> HIDE DEF From, f
<1>6. \A p \in Places(r)' : f[p] \in Places(r)
  BY <1>3, <1>5, PlacesAre
<1>7. \A p, q \in Places(r)' : f[p] = f[q] => p = q
  BY <1>4, <1>5, PlacesAre
<1>. QED BY <1>6, <1>7 DEF Inherits

(* The pending messages, or the first of them when the store fails, go to   *)
(* the end of the transcript.                                               *)
LEMMA InheritsDrain ==
  ASSUME TypeOK, NEW i \in Requests, RunnerDrain(i), NEW r
  PROVE  Inherits(r)
<1> DEFINE L == Len(transcript)
           k == runner[i]
           left == midRunMessages[k]
<1>1. /\ k \in Requests /\ transcript \in Seq(Runs) /\ left \in Seq(Runs)
      /\ midRunMessages' = [midRunMessages EXCEPT ![k] = <<>>]
      /\ \A j \in Requests : wpc'[j] = "run" => wpc[j] = "run"
      /\ UNCHANGED <<queue, current>>
  BY DEF RunnerDrain, DrainMidRunMessages, TypeOK, RunnerTypes, InstanceTypes, WorkerTypes,
     NilFree
<1>2. midRunMessages'[k] = <<>> /\ \A q \in Requests : q # k => midRunMessages'[q] = midRunMessages[q]
  BY <1>1 DEF TypeOK, RunnerTypes
<1>3. PICK n \in 0..Len(left) : transcript' = transcript \o SubSeq(left, 1, n)
  <2>1. CASE transcript' = transcript \o left
    <3>1. left = SubSeq(left, 1, Len(left)) /\ Len(left) \in 0..Len(left)
      BY <1>1
    <3>. QED BY <2>1, <3>1
  <2>2. CASE \E n \in 0..(Len(left) - 1) : transcript' = transcript \o SubSeq(left, 1, n)
    <3>1. Len(left) \in Nat
      BY <1>1
    <3>2. \A n \in 0..(Len(left) - 1) : n \in 0..Len(left)
      BY <3>1
    <3>. QED BY <2>2, <3>2
  <2>. QED BY <2>1, <2>2 DEF RunnerDrain
<1>4. /\ L \in Nat
      /\ \A m \in DOMAIN transcript' :
            \/ m \in DOMAIN transcript /\ m <= L /\ transcript'[m] = transcript[m]
            \/ m > L /\ m - L \in DOMAIN left /\ transcript'[m] = left[m - L]
      /\ DOMAIN transcript' \subseteq Nat
  <2> DEFINE first == SubSeq(left, 1, n)
  <2>1. /\ first \in Seq(Runs) /\ Len(first) = n /\ n \in Nat
        /\ \A m \in 1..n : first[m] = left[m] /\ m \in DOMAIN left
    BY <1>1
  <2>2. transcript' = transcript \o first
    BY <1>3
  <2> HIDE DEF first
  <2>. QED BY <1>1, <2>1, <2>2
<1> HIDE DEF L, k, left
<1> DEFINE From(p) == IF p[1] = "saved" /\ p[3] > L THEN <<"midrun", k, p[3] - L>> ELSE p
           f == [p \in Places(r)' |-> From(p)]
<1>5. ASSUME NEW p, IsPlace(p, r)'
      PROVE  IsPlace(From(p), r)
  <2>1. CASE \E m \in DOMAIN transcript' : transcript'[m] = r /\ p = <<"saved", None, m>>
    <3>1. PICK m \in DOMAIN transcript' : transcript'[m] = r /\ p = <<"saved", None, m>>
      BY <2>1
    <3>2. CASE m \in DOMAIN transcript /\ m <= L /\ transcript'[m] = transcript[m]
      BY <1>4, <3>1, <3>2 DEF IsPlace
    <3>3. CASE m > L /\ m - L \in DOMAIN left /\ transcript'[m] = left[m - L]
      BY <1>1, <1>4, <3>1, <3>3 DEF IsPlace, left
    <3>. QED BY <1>4, <3>2, <3>3
  <2>2. CASE \E q \in Requests : \E m \in DOMAIN midRunMessages'[q] :
                midRunMessages'[q][m] = r /\ p = <<"midrun", q, m>>
    BY <1>2, <2>2 DEF IsPlace
  <2>3. CASE \/ \E j \in Requests : \E m \in DOMAIN queue[j] :
                   queue[j][m].request = r /\ p = <<"queue", j, m>>
             \/ \E j \in Requests : wpc[j] = "run" /\ current[j].request = r
                                    /\ p = <<"begin", j, 0>>
    BY <2>3 DEF IsPlace
  <2>. QED BY <1>1, <1>5, <2>1, <2>2, <2>3 DEF IsPlace
<1>6. ASSUME NEW p, NEW q, IsPlace(p, r)', IsPlace(q, r)', From(p) = From(q)
      PROVE  p = q
  <2>1. ASSUME NEW x, IsPlace(x, r)'
        PROVE  /\ x[1] = "saved" => x = <<"saved", None, x[3]>> /\ x[3] \in Nat
               /\ ~(x[1] = "midrun" /\ x[2] = k)
    BY <1>2, <1>4, <2>1 DEF IsPlace
  <2>2. CASE p[1] = "saved" /\ p[3] > L
    BY <1>4, <1>6, <2>1, <2>2
  <2>3. CASE ~(p[1] = "saved" /\ p[3] > L)
    BY <1>4, <1>6, <2>1, <2>3
  <2>. QED BY <2>2, <2>3
<1>7. \A p \in Places(r)' : f[p] = From(p)
  OBVIOUS
<1> HIDE DEF From, f
<1>8. \A p \in Places(r)' : f[p] \in Places(r)
  BY <1>5, <1>7, PlacesAre
<1>9. \A p, q \in Places(r)' : f[p] = f[q] => p = q
  BY <1>6, <1>7, PlacesAre
<1>. QED BY <1>8, <1>9 DEF Inherits

(* What is left pending goes to the end of the queue.                       *)
LEMMA InheritsSpill ==
  ASSUME TypeOK, NEW i \in Requests, SpillMidRunMessages(i), runner[i] # None, NEW r
  PROVE  Inherits(r)
<1> DEFINE L == Len(queue[i])
           k == runner[i]
           left == midRunMessages[k]
           tail == [n \in 1..Len(left) |-> Spilled(left[n])]
<1>1. /\ k \in Requests /\ queue[i] \in Seq(Entry) /\ left \in Seq(Runs)
      /\ midRunMessages' = [midRunMessages EXCEPT ![k] = <<>>]
      /\ wpc[i] = "spill" /\ wpc'[i] = "next"
      /\ \A j \in Requests : j # i => /\ wpc'[j] = wpc[j] /\ current'[j] = current[j]
                                     /\ queue'[j] = queue[j]
      /\ queue'[i] = queue[i] \o tail
      /\ UNCHANGED transcript
  BY DEF SpillMidRunMessages, Requeued, DrainMidRunMessages, TypeOK, RunnerTypes,
     InstanceTypes, WorkerTypes
<1>2. midRunMessages'[k] = <<>> /\ \A q \in Requests : q # k => midRunMessages'[q] = midRunMessages[q]
  BY <1>1 DEF TypeOK, RunnerTypes
<1>3. /\ tail \in Seq(Entry) /\ DOMAIN tail = DOMAIN left
      /\ \A n \in DOMAIN left : tail[n] = Spilled(left[n])
  <2>1. \A n \in DOMAIN left : Spilled(left[n]) \in Entry
    BY <1>1 DEF Spilled, Entry, Requests
  <2>. QED BY <1>1, <2>1
<1>4. \A n \in DOMAIN left : tail[n].request = left[n]
  <2>1. \A x : Spilled(x).request = x
    BY DEF Spilled
  <2>. QED BY <1>3, <2>1
<1> HIDE DEF tail, k, left
<1>5. /\ L \in Nat
      /\ \A m \in DOMAIN queue'[i] :
            \/ m \in DOMAIN queue[i] /\ m <= L /\ queue'[i][m] = queue[i][m]
            \/ m > L /\ m - L \in DOMAIN left /\ queue'[i][m] = tail[m - L]
      /\ DOMAIN queue'[i] \subseteq Nat
  BY <1>1, <1>3
<1> HIDE DEF L
<1> DEFINE From(p) == IF p[1] = "queue" /\ p[2] = i /\ p[3] > L
                      THEN <<"midrun", k, p[3] - L>> ELSE p
           f == [p \in Places(r)' |-> From(p)]
<1>6. ASSUME NEW p, IsPlace(p, r)'
      PROVE  IsPlace(From(p), r)
  <2>1. CASE \E m \in DOMAIN queue'[i] : queue'[i][m].request = r /\ p = <<"queue", i, m>>
    <3>1. PICK m \in DOMAIN queue'[i] : queue'[i][m].request = r /\ p = <<"queue", i, m>>
      BY <2>1
    <3>2. CASE m \in DOMAIN queue[i] /\ m <= L /\ queue'[i][m] = queue[i][m]
      BY <1>5, <3>1, <3>2 DEF IsPlace
    <3>3. CASE m > L /\ m - L \in DOMAIN left /\ queue'[i][m] = tail[m - L]
      BY <1>1, <1>4, <1>5, <3>1, <3>3 DEF IsPlace, left
    <3>. QED BY <1>5, <3>2, <3>3
  <2>2. CASE \E j \in Requests \ {i} : \E m \in DOMAIN queue'[j] :
                queue'[j][m].request = r /\ p = <<"queue", j, m>>
    BY <1>1, <2>2 DEF IsPlace
  <2>3. CASE \E q \in Requests : \E m \in DOMAIN midRunMessages'[q] :
                midRunMessages'[q][m] = r /\ p = <<"midrun", q, m>>
    BY <1>2, <2>3 DEF IsPlace
  <2>4. CASE \/ \E m \in DOMAIN transcript : transcript[m] = r /\ p = <<"saved", None, m>>
             \/ \E j \in Requests : wpc'[j] = "run" /\ current'[j].request = r
                                    /\ p = <<"begin", j, 0>>
    BY <1>1, <2>4 DEF IsPlace
  <2>. QED BY <1>1, <1>6, <2>1, <2>2, <2>3, <2>4 DEF IsPlace
<1>7. ASSUME NEW p, NEW q, IsPlace(p, r)', IsPlace(q, r)', From(p) = From(q)
      PROVE  p = q
  <2>1. ASSUME NEW x, IsPlace(x, r)'
        PROVE  /\ x[1] = "queue" /\ x[2] = i => x = <<"queue", i, x[3]>> /\ x[3] \in Nat
               /\ ~(x[1] = "midrun" /\ x[2] = k)
    <3>1. \A j \in Requests : \A m \in DOMAIN queue'[j] : j = i => m \in Nat
      BY <1>5
    <3>. QED BY <1>2, <2>1, <3>1 DEF IsPlace
  <2>2. CASE p[1] = "queue" /\ p[2] = i /\ p[3] > L
    BY <1>5, <1>7, <2>1, <2>2
  <2>3. CASE ~(p[1] = "queue" /\ p[2] = i /\ p[3] > L)
    BY <1>5, <1>7, <2>1, <2>3
  <2>. QED BY <2>2, <2>3
<1>8. \A p \in Places(r)' : f[p] = From(p)
  OBVIOUS
<1> HIDE DEF From, f
<1>9. \A p \in Places(r)' : f[p] \in Places(r)
  BY <1>6, <1>8, PlacesAre
<1>10. \A p, q \in Places(r)' : f[p] = f[q] => p = q
  BY <1>7, <1>8, PlacesAre
<1>. QED BY <1>9, <1>10 DEF Inherits

(* Every step but those that bring message q in moves it at most.           *)
LEMMA PlaceStep ==
  ASSUME TypeOK, [Next]_vars, NEW q \in Runs
  PROVE  \/ Inherits(q)
         \/ EnqueueAppend(q)
         \/ SignalMidRunMessage(q)
<1>1. ASSUME NEW r \in Requests, EnqueueAppend(r), r # q
      PROVE  Inherits(q)
  <2> DEFINE i == inst[r]
  <2>1. /\ i \in Requests /\ queue[i] \in Seq(Entry) /\ Own(r) \in Entry
        /\ queue'[i] = Append(queue[i], Own(r))
        /\ \A j \in Requests : j # i => queue'[j] = queue[j]
        /\ \A j \in Requests : wpc'[j] = "run" => wpc[j] = "run"
        /\ UNCHANGED <<midRunMessages, transcript, current>>
    <3>1. i \in Requests /\ Own(r) \in Entry /\ queue \in [Requests -> Seq(Entry)]
      BY <1>1 DEF EnqueueAppend, TypeOK, RequestTypes, InstanceTypes, NilFree, Entry, Own
    <3>2. queue' = [queue EXCEPT ![i] = Append(queue[i], Own(r))]
      BY <1>1 DEF EnqueueAppend
    <3>3. \A j \in Requests : wpc'[j] = "run" => wpc[j] = "run"
      BY <1>1 DEF EnqueueAppend, TypeOK, WorkerTypes
    <3>4. UNCHANGED <<midRunMessages, transcript, current>>
      BY <1>1 DEF EnqueueAppend, runnerVars
    <3>. QED BY <3>1, <3>2, <3>3, <3>4
  <2>2. Own(r).request # q
    BY <1>1 DEF Own
  <2> HIDE DEF i
  <2>3. \A j \in Requests : \A n \in DOMAIN queue'[j] : queue'[j][n].request = q =>
           n \in DOMAIN queue[j] /\ queue[j][n] = queue'[j][n]
    <3>1. ASSUME NEW n \in DOMAIN queue'[i], queue'[i][n].request = q
          PROVE  n \in DOMAIN queue[i] /\ queue[i][n] = queue'[i][n]
      BY <2>1, <2>2, <3>1
    <3>. QED BY <2>1, <3>1
  <2>4. \A p : IsPlace(p, q)' => IsPlace(p, q)
    BY <2>1, <2>3 DEF IsPlace
  <2>. QED BY <2>4, PlacesAre, InheritsSubset
<1>2. ASSUME NEW r \in Requests, SignalMidRunMessage(r), r # q
      PROVE  Inherits(q)
  <2>1. /\ target[r] \in Requests /\ r \in Runs
        /\ midRunMessages' = [midRunMessages EXCEPT ![target[r]] = Append(@, r)]
        /\ UNCHANGED <<queue, transcript, wpc, current>>
    BY <1>2 DEF SignalMidRunMessage, TypeOK, RequestTypes, NilFree
  <2>2. \A k \in Requests : \A n \in DOMAIN midRunMessages'[k] : midRunMessages'[k][n] = q =>
           n \in DOMAIN midRunMessages[k] /\ midRunMessages[k][n] = q
    BY <1>2, <2>1 DEF TypeOK, RunnerTypes
  <2>3. \A p : IsPlace(p, q)' => IsPlace(p, q)
    BY <2>1, <2>2 DEF IsPlace
  <2>. QED BY <2>3, PlacesAre, InheritsSubset
<1>3. ASSUME NEW r \in Requests, RequestStep(r), ~EnqueueAppend(r), ~SignalMidRunMessage(r)
      PROVE  Inherits(q)
  BY <1>3, InheritsFrame DEF RequestStep, LoadOrStore, EnqueueRefused, EnqueueInject,
     ReceiveResult
<1>4. ASSUME NEW r \in Requests,
             Run(r) \/ Cleanup(r) \/ CompactConversation(r) \/ CompactGivesUp(r)
      PROVE  Inherits(q)
  BY <1>4, InheritsFrame DEF Run, Cleanup, CompactConversation, CompactGivesUp
<1>5. ASSUME NEW i \in Requests, WorkerStep(i) \/ ScheduleLifecycle(i) \/ RunnerPanic(i)
      PROVE  Inherits(q)
  <2>1. CASE ProcessDequeue(i)
    BY <2>1, InheritsDequeue
  <2>2. CASE RunnerBegin(i)
    BY <2>2, InheritsBegin
  <2>3. CASE RunnerDrain(i)
    BY <2>3, InheritsDrain
  <2>4. CASE SpillMidRunMessages(i) /\ runner[i] # None
    BY <2>4, InheritsSpill
  <2>5. ASSUME NEW s \in {"none", "next", "checked", "returned", "spill", "dead"},
               wpc' = [wpc EXCEPT ![i] = s],
               current' = current \/ current' = [current EXCEPT ![i] = None],
               UNCHANGED <<queue, midRunMessages, transcript>>
        PROVE  Inherits(q)
    <3>1. \A j \in Requests : wpc'[j] = "run" => wpc[j] = "run" /\ current'[j] = current[j]
      BY <2>5 DEF TypeOK, WorkerTypes
    <3>. QED BY <2>5, <3>1, InheritsFrame
  <2>6. CASE SpillMidRunMessages(i) /\ runner[i] = None
    BY <2>5, <2>6 DEF SpillMidRunMessages
  <2>7. CASE ProcessExit(i) \/ RunnerCheck(i) \/ RunnerFinish(i) \/ RunnerFail(i)
             \/ SendResult(i) \/ RunnerPanic(i)
    BY <2>5, <2>7 DEF ProcessExit, RunnerCheck, RunnerFinish, RunnerFail, SendResult, RunnerPanic
  <2>8. CASE ScheduleLifecycle(i)
    BY <2>8, InheritsFrame DEF ScheduleLifecycle
  <2>. QED BY <1>5, <2>1, <2>2, <2>3, <2>4, <2>6, <2>7, <2>8 DEF WorkerStep
<1>6. ASSUME NEW a \in Aborters, AbortConversationRun(a) \/ AbortLocked(a)
      PROVE  Inherits(q)
  BY <1>6, InheritsFrame, InheritsAbort DEF AbortConversationRun
<1>7. CASE UNCHANGED vars
  BY <1>7, InheritsFrame DEF vars
<1>. QED
  BY <1>1, <1>2, <1>3, <1>4, <1>5, <1>6, <1>7 DEF Next, AbortRun, Finished, Requests

(* A message that comes in was nowhere, and is in one place after it.       *)
LEMMA PlaceEnters ==
  ASSUME TypeOK, NEW r \in Runs, Places(r) = {},
         EnqueueAppend(r) \/ SignalMidRunMessage(r)
  PROVE  AtMostOne(r)'
<1>1. r \in Requests /\ \A p : ~IsPlace(p, r)
  BY PlacesAre DEF Requests
<1>2. CASE EnqueueAppend(r)
  <2> DEFINE i == inst[r]
             L == Len(queue[i])
  <2>1. /\ i \in Requests /\ queue[i] \in Seq(Entry) /\ Own(r) \in Entry
        /\ queue'[i] = Append(queue[i], Own(r))
        /\ \A j \in Requests : j # i => queue'[j] = queue[j]
        /\ \A j \in Requests : wpc'[j] = "run" => wpc[j] = "run"
        /\ UNCHANGED <<midRunMessages, transcript, current>>
    BY <1>1, <1>2 DEF EnqueueAppend, TypeOK, RequestTypes, InstanceTypes, WorkerTypes, NilFree,
       Entry, Own
  <2> HIDE DEF i
  <2>2. \A j \in Requests : \A n \in DOMAIN queue'[j] :
           \/ n \in DOMAIN queue[j] /\ queue[j][n] = queue'[j][n]
           \/ j = i /\ n = L + 1
    BY <2>1
  <2> HIDE DEF L
  <2>3. \A p : IsPlace(p, r)' => p = <<"queue", i, L + 1>>
    BY <1>1, <2>1, <2>2 DEF IsPlace
  <2>. QED BY <2>3, PlacesAre DEF AtMostOne
<1>3. CASE SignalMidRunMessage(r)
  <2> DEFINE k == target[r]
             L == Len(midRunMessages[k])
  <2>1. /\ k \in Requests
        /\ midRunMessages' = [midRunMessages EXCEPT ![k] = Append(@, r)]
        /\ UNCHANGED <<queue, transcript, wpc, current>>
    BY <1>1, <1>3 DEF SignalMidRunMessage, TypeOK, RequestTypes, NilFree
  <2> HIDE DEF k
  <2>2. \A j \in Requests : \A n \in DOMAIN midRunMessages'[j] :
           \/ n \in DOMAIN midRunMessages[j] /\ midRunMessages[j][n] = midRunMessages'[j][n]
           \/ j = k /\ n = L + 1
    BY <2>1 DEF TypeOK, RunnerTypes
  <2> HIDE DEF L
  <2>3. \A p : IsPlace(p, r)' => p = <<"midrun", k, L + 1>>
    BY <1>1, <2>1, <2>2 DEF IsPlace
  <2>. QED BY <2>3, PlacesAre DEF AtMostOne
<1>. QED BY <1>2, <1>3

Early == {"idle", "load", "enqueue", "signal"}

(* A request that has enqueued or signalled its message does not go back.   *)
LEMMA EarlyStep ==
  ASSUME TypeOK, [Next]_vars, NEW q \in Requests, pc'[q] \in Early
  PROVE  pc[q] \in Early
<1> USE DEF Early, TypeOK, RequestTypes
<1>1. ASSUME NEW r \in Requests,
             RequestStep(r) \/ Run(r) \/ Cleanup(r) \/ CompactConversation(r) \/ CompactGivesUp(r)
      PROVE  pc[q] \in Early
  BY <1>1 DEF RequestStep, LoadOrStore, EnqueueRefused, EnqueueInject, SignalMidRunMessage,
     EnqueueAppend, ReceiveResult, Run, Cleanup, CompactConversation, CompactGivesUp
<1>2. CASE UNCHANGED pc
  BY <1>2
<1>3. ASSUME NEW i \in Requests, WorkerStep(i) \/ ScheduleLifecycle(i) \/ RunnerPanic(i)
      PROVE  pc[q] \in Early
  BY <1>2, <1>3 DEF WorkerStep, ProcessExit, ProcessDequeue, RunnerBegin, RunnerCheck,
     RunnerDrain, RunnerFinish, RunnerFail, SendResult, SpillMidRunMessages,
     ScheduleLifecycle, RunnerPanic
<1>4. ASSUME NEW a \in Aborters, AbortConversationRun(a) \/ AbortLocked(a)
      PROVE  pc[q] \in Early
  BY <1>2, <1>4 DEF AbortConversationRun, AbortLocked
<1>5. CASE UNCHANGED vars
  BY <1>2, <1>5 DEF vars
<1>. QED BY <1>1, <1>3, <1>4, <1>5 DEF Next, AbortRun, Finished, Requests

(* Every step keeps a message in one place at most.                         *)
LEMMA PlaceNext == TypeOK /\ PlaceInv /\ [Next]_vars => PlaceInv'
<1> SUFFICES ASSUME TypeOK, PlaceInv, [Next]_vars, NEW q \in Runs
             PROVE  AtMostOne(q)' /\ (pc'[q] \in Early => Places(q)' = {})
  BY DEF PlaceInv, SinglePlace, AtMostOne, Early
<1>1. q \in Requests /\ AtMostOne(q) /\ (pc[q] \in Early => Places(q) = {})
  BY DEF PlaceInv, SinglePlace, AtMostOne, Early, Requests
<1>2. CASE Inherits(q)
  BY <1>1, <1>2, InheritsOne, EarlyStep
<1>3. CASE EnqueueAppend(q) \/ SignalMidRunMessage(q)
  <2>1. pc[q] \in Early /\ pc'[q] = "wait"
    BY <1>1, <1>3 DEF EnqueueAppend, SignalMidRunMessage, Early, TypeOK, RequestTypes
  <2>. QED BY <1>1, <1>3, <2>1, PlaceEnters DEF Early
<1>. QED BY <1>2, <1>3, PlaceStep

LEMMA PlaceInvariant == Spec => []PlaceInv
<1>1. Init => PlaceInv
  <2> SUFFICES ASSUME Init, NEW r \in Runs PROVE Places(r) = {}
    BY DEF PlaceInv, SinglePlace
  <2>1. \A p : ~IsPlace(p, r)
    BY DEF Init, IsPlace
  <2>. QED BY <2>1, PlacesAre
<1>. QED BY <1>1, TypeCorrect, PlaceNext, PTL DEF Spec

(* For any number of requests and aborts, and whatever fails, no user       *)
(* message is ever in two places: two queues, a queue and a mid-run list,   *)
(* the transcript and anywhere else.  It is not persisted or run twice.     *)
THEOREM SinglePlaceCorrect == Spec => []SinglePlace
<1>1. PlaceInv => SinglePlace
  BY DEF PlaceInv
<1>. QED BY <1>1, PlaceInvariant, PTL

-----------------------------------------------------------------------------
(* What a step sends to request q: "canceled" only by a refusal or an abort *)
(* that finds its message in the queue.                                     *)
Told(q) ==
    \/ results'[q] = results[q]
    \/ \E x \in Result \ {"canceled"} : results'[q] = Append(results[q], x)
    \/ EnqueueRefused(q)
    \/ \E a \in Aborters : AbortLocked(a) /\ InQueue(Own(q), atarget[a])

LEMMA CanceledBy ==
  ASSUME TypeOK, [Next]_vars, NEW q \in Requests
  PROVE  Told(q)
<1> USE DEF TypeOK, RequestTypes
<1>1. CASE UNCHANGED results
  BY <1>1 DEF Told
<1>2. ASSUME NEW r \in Requests, NEW x \in Result \ {"canceled"},
             results' = [results EXCEPT ![r] = Append(@, x)]
      PROVE  Told(q)
  BY <1>2 DEF Told
<1>3. ASSUME NEW r \in Requests, RequestStep(r)
      PROVE  Told(q)
  <2>1. CASE EnqueueRefused(r)
    BY <2>1 DEF EnqueueRefused, Told
  <2>2. CASE SignalMidRunMessage(r)
    BY <1>2, <2>2 DEF SignalMidRunMessage, Result
  <2>. QED BY <1>1, <1>3, <2>1, <2>2 DEF RequestStep, LoadOrStore, EnqueueInject,
          EnqueueAppend, ReceiveResult, Told
<1>4. ASSUME NEW i \in Requests, SendResult(i)
      PROVE  Told(q)
  <2> DEFINE x == IF aborted[i] THEN "aborted" ELSE outcome[i]
  <2>1. x \in Result \ {"canceled"}
    BY DEF Result, WorkerTypes
  <2>2. CASE current[i].spilled
    BY <1>1, <1>4, <2>2 DEF SendResult, Told
  <2>3. CASE ~current[i].spilled
    <3>1. results' = [results EXCEPT ![current[i].request] = Append(@, x)]
      BY <1>4, <2>3 DEF SendResult
    <3>2. current[i].request \in Requests
      BY <1>4 DEF SendResult, WorkerTypes, NilFree, Entry
    <3> HIDE DEF x
    <3>. QED BY <1>2, <2>1, <3>1, <3>2
  <2>. QED BY <2>2, <2>3
<1>5. ASSUME NEW a \in Aborters, AbortLocked(a)
      PROVE  Told(q)
  BY <1>5 DEF AbortLocked, DrainedResults, Told
<1>6. ASSUME NEW i \in Requests, WorkerStep(i) \/ ScheduleLifecycle(i) \/ RunnerPanic(i)
      PROVE  Told(q)
  BY <1>1, <1>4, <1>6 DEF WorkerStep, ProcessExit, ProcessDequeue, RunnerBegin, RunnerCheck,
     RunnerDrain, RunnerFinish, RunnerFail, SpillMidRunMessages, ScheduleLifecycle,
     RunnerPanic, Told
<1>7. ASSUME NEW r \in Requests,
             Run(r) \/ Cleanup(r) \/ CompactConversation(r) \/ CompactGivesUp(r)
      PROVE  Told(q)
  BY <1>1, <1>7 DEF Run, Cleanup, CompactConversation, CompactGivesUp, Told
<1>8. ASSUME NEW a \in Aborters, AbortConversationRun(a)
      PROVE  Told(q)
  BY <1>1, <1>8 DEF AbortConversationRun, Told
<1>9. CASE UNCHANGED vars
  BY <1>1, <1>9 DEF vars, Told
<1> HIDE DEF TypeOK, RequestTypes
<1>. QED
  BY <1>3, <1>5, <1>6, <1>7, <1>8, <1>9 DEF Next, AbortRun, Finished, Requests

Canceled(r) == results[r] # <<>> /\ Head(results[r]) = "canceled"

(* Nothing brings a rejected message back, and a rejection takes it away.   *)
LEMMA RejectedNext ==
  TypeOK /\ PlaceInv /\ ResultInv /\ RejectedNeverRuns /\ [Next]_vars => RejectedNeverRuns'
<1> SUFFICES ASSUME TypeOK, PlaceInv, ResultInv, RejectedNeverRuns, [Next]_vars,
                    NEW q \in Runs, Canceled(q)'
             PROVE  Places(q)' = {}
  BY DEF RejectedNeverRuns, Canceled
<1>1. /\ q \in Requests /\ AtMostOne(q) /\ (pc[q] \in Early => Places(q) = {})
      /\ results[q] \in Seq(Result)
  BY DEF PlaceInv, SinglePlace, AtMostOne, Early, Requests, TypeOK, RequestTypes
<1>2. CASE Canceled(q)
  <2>1. Places(q) = {}
    BY <1>2 DEF RejectedNeverRuns, Canceled
  <2>2. pc[q] \notin Early
    BY <1>1, <1>2 DEF ResultInv, Canceled, Early
  <2>3. Inherits(q)
    BY <1>1, <2>2, PlaceStep DEF EnqueueAppend, SignalMidRunMessage, Early
  <2>. QED BY <2>1, <2>3, InheritsOne
<1>3. CASE ~Canceled(q)
  <2>1. CASE EnqueueRefused(q)
    <3>1. Places(q) = {}
      BY <1>1, <2>1 DEF EnqueueRefused, Early
    <3>2. Inherits(q)
      BY <2>1, InheritsFrame DEF EnqueueRefused
    <3>. QED BY <3>1, <3>2, InheritsOne
  <2>2. ASSUME NEW a \in Aborters, AbortLocked(a), InQueue(Own(q), atarget[a])
        PROVE  Places(q)' = {}
    <3> DEFINE i == atarget[a]
    <3>1. PICK n \in DOMAIN queue[i] : queue[i][n] = Own(q)
      BY <2>2 DEF InQueue
    <3>2. i \in Requests /\ queue'[i] = <<>> /\ \A j \in Requests : j # i => queue'[j] = queue[j]
      BY <2>2 DEF AbortLocked, ClearedQueue, TypeOK, OtherTypes, InstanceTypes, NilFree
    <3>3. UNCHANGED <<midRunMessages, transcript, wpc, current>>
      BY <2>2 DEF AbortLocked
    <3>4. Own(q).request = q
      BY DEF Own
    <3> HIDE DEF i
    <3>5. <<"queue", i, n>> \in Places(q)
      BY <3>1, <3>2, <3>4, PlacesAre DEF IsPlace
    <3>6. \A p \in Places(q) : p = <<"queue", i, n>>
      BY <1>1, <3>5 DEF AtMostOne
    <3>7. \A p : IsPlace(p, q)' => IsPlace(p, q) /\ ~(p[1] = "queue" /\ p[2] = i)
      BY <3>2, <3>3 DEF IsPlace
    <3>. QED BY <3>6, <3>7, PlacesAre
  <2>3. CASE results'[q] = results[q]
    BY <1>3, <2>3 DEF Canceled
  <2>4. ASSUME NEW x \in Result \ {"canceled"}, results'[q] = Append(results[q], x)
        PROVE  FALSE
    BY <1>1, <1>3, <2>4 DEF Canceled, Result
  <2>. QED BY <1>1, <2>1, <2>2, <2>3, <2>4, CanceledBy DEF Told
<1>. QED BY <1>2, <1>3

(* A message whose sender was told "canceled" is never run, whatever        *)
(* queues, injections, spills and panics overlap with the abort.            *)
THEOREM RejectedCorrect == Spec => []RejectedNeverRuns
<1>1. Init => RejectedNeverRuns
  BY DEF Init, RejectedNeverRuns, Requests
<1>2. Init => ResultInv
  BY DEF Init, ResultInv, NoOwnEntry, OwnEntryUnique, HoldsOwn, InQueue
<1>. QED BY <1>1, <1>2, TypeCorrect, ResultNext, PlaceInvariant, RejectedNext, PTL DEF Spec
=============================================================================
