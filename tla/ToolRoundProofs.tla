-------------------------- MODULE ToolRoundProofs --------------------------
(***************************************************************************)
(* What the approval protocol of a run guarantees, for any number of tool  *)
(* calls, rounds and senders of mid-run messages.                          *)
(***************************************************************************)
EXTENDS ToolRound, TLAPS

(* The calls Phase 1 has not come to are untouched.                         *)
Untouched ==
    /\ pc \in {"stream", "calls", "wait", "closing", "waited"} =>
            \A c \in Calls : c >= at => call[c] = "new"
    /\ pc = "stream" => at = 1

(* A pending approval has no verdict yet.                                   *)
PendingOpen == \A a \in pending : verdict[a] = "open"

(* The approval is still to be registered.                                  *)
Fresh(a) ==
    \/ a[1] > round
    \/ a[1] = round /\ a[2] > at
    \/ a[1] = round /\ a[2] = at /\ pc \in {"stream", "calls"}

(* Who may still close a channel: it has not been closed.                   *)
Open(a) == Fresh(a) \/ a \in pending \/ (pc = "closing" /\ a = This)

CloseInv ==
    /\ \A a \in Approvals : approvalCloses[a] <= 1
    /\ \A a \in Approvals : Open(a) => approvalCloses[a] = 0

(* What the approvals and the calls of the round have to do with each other *)
(* between the registration of an approval and the execution of the call.   *)
CallInv == ApprovedOnly /\ NoOrphanApproval /\ Untouched /\ PendingOpen

(* The inductive invariant: an approval is pending only while the run waits *)
(* for it, so a verdict reaches the call it was given for and the channel   *)
(* has one owner at a time.                                                 *)
ApprovalInv == TypeOK /\ CallInv /\ CloseInv

-----------------------------------------------------------------------------
(* Every step keeps the types.                                              *)
LEMMA TypeStep ==
    TypeOK /\ [Next]_vars => TypeOK'
<1> SUFFICES ASSUME TypeOK, [Next]_vars
             PROVE  TypeOK'
    OBVIOUS
<1> USE RoundAssumption DEF TypeOK, This, Calls, Rounds, Approvals, AllKinds, runVars,
        contextVars, senderVars, brokerVars
<1>1. CASE Top
    BY <1>1 DEF Top
<1>2. CASE TopCancelled
    BY <1>2 DEF TopCancelled
<1>3. CASE RespondWithCalls
    BY <1>3 DEF RespondWithCalls
<1>4. CASE RespondWithoutCalls
    BY <1>4 DEF RespondWithoutCalls, NextRound, EndRun
<1>5. CASE StreamFails
    BY <1>5 DEF StreamFails, EndRun
<1>6. CASE ResolveTool
  <2>1. /\ at \in Calls /\ at' = at + 1 /\ pc' = "calls"
        /\ UNCHANGED <<pc, round, kind, contextVars, senderVars, brokerVars, question>>
    BY <1>6 DEF ResolveTool
  <2>2. \E v \in {"skipped", "refused", "queued"} : call' = [call EXCEPT ![at] = v]
    BY <1>6 DEF ResolveTool
  <2>. QED BY <2>1, <2>2
<1>7. CASE RegisterApproval
    BY <1>7 DEF RegisterApproval
<1>8. CASE ReceiveVerdict
    BY <1>8 DEF ReceiveVerdict, Approved
<1>9. CASE CancelApproval
    BY <1>9 DEF CancelApproval, Deleted
<1>10. CASE CloseApproval
  <2>1. This \in Approvals /\ approvalCloses \in [Approvals -> Nat]
    BY <1>10 DEF CloseApproval
  <2>2. approvalCloses' = [approvalCloses EXCEPT ![This] = @ + 1]
    BY <1>10 DEF CloseApproval
  <2>3. approvalCloses' \in [Approvals -> Nat]
    BY ONLY <2>1, <2>2
  <2>. QED BY <1>10, <2>3 DEF CloseApproval
<1>11. CASE Interrupted
    BY <1>11 DEF Interrupted, CleanupRound, NextRound
<1>12. CASE DeniedByAbort
    BY <1>12 DEF DeniedByAbort
<1>13. CASE NothingToExecute
    BY <1>13 DEF NothingToExecute, CleanupRound, NextRound, EndRun, Work
<1>14. CASE Execute
    BY <1>14 DEF Execute, Work
<1>15. CASE Collect
    BY <1>15 DEF Collect, CleanupRound
<1>16. CASE Persist
    BY <1>16 DEF Persist, NextRound, Work
<1>17. CASE SaveFails
    BY <1>17 DEF SaveFails, Work
<1>18. ASSUME NEW c \in Calls, ToolReturns(c) PROVE TypeOK'
    BY <1>18 DEF ToolReturns
<1>19. ASSUME NEW c \in Calls, NEW p,
              NEW q \in {"pending", "taken", "answered", "received", "cancelled"},
              Asked(c, p, q)
       PROVE  TypeOK'
    BY <1>19 DEF Asked
<1>20. ASSUME NEW a \in Approvals, NEW v \in {"approved", "rejected"}, ResolveBatch(a, v)
       PROVE  TypeOK'
    BY <1>20 DEF ResolveBatch
<1>21. ASSUME NEW s \in Senders, SignalMidRunMessage(s) PROVE TypeOK'
    BY <1>21 DEF SignalMidRunMessage
<1>22. ASSUME NEW s \in Senders, CallCancel(s) PROVE TypeOK'
    BY <1>22 DEF CallCancel
<1>23. CASE Abort
    BY <1>23 DEF Abort
<1>24. CASE UNCHANGED vars
    BY <1>24 DEF vars
<1> HIDE DEF TypeOK, This
<1>25. ASSUME NEW c \in Calls,
              ToolStep(c) \/ TakeQuestion(c) \/ DeliverAnswer(c) \/ AnswerBatch(c)
       PROVE  TypeOK'
    BY <1>18, <1>19, <1>25 DEF ToolStep, RegisterQuestion, ReceiveAnswer, CancelQuestion,
        TakeQuestion, DeliverAnswer, AnswerBatch
<1>26. QED
    BY <1>1, <1>2, <1>3, <1>4, <1>5, <1>6, <1>7, <1>8, <1>9, <1>10, <1>11, <1>12, <1>13,
        <1>14, <1>15, <1>16, <1>17, <1>20, <1>21, <1>22, <1>23, <1>24, <1>25
        DEF Next, RunStep, Finished

(* Every step keeps the approvals and the calls they were given for in      *)
(* step.                                                                    *)
LEMMA CallStep ==
    ApprovalInv /\ TypeOK' /\ [Next]_vars => CallInv'
<1> SUFFICES ASSUME ApprovalInv /\ TypeOK', [Next]_vars
             PROVE  CallInv'
    OBVIOUS
<1> USE RoundAssumption DEF TypeOK, ApprovalInv, CallInv, ApprovedOnly, NoOrphanApproval,
        Untouched, PendingOpen, Accepted, This, Calls, Rounds, Approvals, AllKinds, runVars,
        contextVars, senderVars, brokerVars
<1>1. CASE Top
    BY <1>1 DEF Top
<1>2. CASE TopCancelled
    BY <1>2 DEF TopCancelled
<1>3. CASE RespondWithCalls
    BY <1>3 DEF RespondWithCalls
<1>4. CASE RespondWithoutCalls
    BY <1>4 DEF RespondWithoutCalls, NextRound, EndRun
<1>5. CASE StreamFails
    BY <1>5 DEF StreamFails, EndRun
<1>6. CASE ResolveTool
    BY <1>6 DEF ResolveTool
<1>7. CASE RegisterApproval
    BY <1>7 DEF RegisterApproval
<1>8. CASE ReceiveVerdict
  <2>1. /\ pc = "wait" /\ pc' = "calls" /\ at' = at + 1
        /\ call' = [call EXCEPT ![at] = IF verdict[This] = "approved" THEN "queued" ELSE "refused"]
        /\ UNCHANGED <<round, kind, pending, verdict>>
    BY <1>8 DEF ReceiveVerdict, Approved
  <2>2. at \in Calls /\ pending = {}
    <3>1. at \in Calls /\ pending \subseteq {This}
      BY <2>1
    <3>2. This \notin pending
      BY <1>8 DEF ReceiveVerdict
    <3> HIDE DEF This
    <3>3. QED
      BY <3>1, <3>2
  <2>3. ApprovedOnly'
    <3> SUFFICES ASSUME NEW c \in Calls, kind[c] = "approval", call'[c] \in Accepted
                 PROVE  verdict[<<round, c>>] = "approved"
      BY <2>1
    <3>1. CASE c = at
      BY <2>1, <2>2, <3>1
    <3>2. CASE c # at
      BY <2>1, <2>2, <3>2
    <3>3. QED
      BY <3>1, <3>2
  <2>4. (NoOrphanApproval /\ PendingOpen)'
    BY <2>1, <2>2
  <2>5. Untouched'
    BY <2>1, <2>2
  <2>6. QED
    BY <2>3, <2>4, <2>5
<1>9. CASE CancelApproval
    BY <1>9 DEF CancelApproval, Deleted
<1>10. CASE CloseApproval
    BY <1>10 DEF CloseApproval
<1>11. CASE Interrupted
    BY <1>11 DEF Interrupted, CleanupRound, NextRound
<1>12. CASE DeniedByAbort
    BY <1>12 DEF DeniedByAbort
<1>13. CASE NothingToExecute
    BY <1>13 DEF NothingToExecute, CleanupRound, NextRound, EndRun, Work
<1>14. CASE Execute
    BY <1>14 DEF Execute, Work
<1>15. CASE Collect
    BY <1>15 DEF Collect, CleanupRound
<1>16. CASE Persist
    BY <1>16 DEF Persist, NextRound, Work
<1>17. CASE SaveFails
    BY <1>17 DEF SaveFails, Work
<1>18. ASSUME NEW c \in Calls, ToolReturns(c) PROVE CallInv'
    BY <1>18 DEF ToolReturns
<1>19. ASSUME NEW c \in Calls, NEW p,
              NEW q \in {"pending", "taken", "answered", "received", "cancelled"},
              Asked(c, p, q)
       PROVE  CallInv'
    BY <1>19 DEF Asked
<1>20. ASSUME NEW a \in Approvals, NEW v \in {"approved", "rejected"}, ResolveBatch(a, v)
       PROVE  CallInv'
    BY <1>20 DEF ResolveBatch
<1>21. ASSUME NEW s \in Senders, SignalMidRunMessage(s) PROVE CallInv'
    BY <1>21 DEF SignalMidRunMessage
<1>22. ASSUME NEW s \in Senders, CallCancel(s) PROVE CallInv'
    BY <1>22 DEF CallCancel
<1>23. CASE Abort
    BY <1>23 DEF Abort
<1>24. CASE UNCHANGED vars
    BY <1>24 DEF vars
<1> HIDE DEF TypeOK, ApprovalInv, CallInv, ApprovedOnly, NoOrphanApproval, Untouched,
        PendingOpen, Accepted, This
<1>25. ASSUME NEW c \in Calls,
              ToolStep(c) \/ TakeQuestion(c) \/ DeliverAnswer(c) \/ AnswerBatch(c)
       PROVE  CallInv'
    BY <1>18, <1>19, <1>25 DEF ToolStep, RegisterQuestion, ReceiveAnswer, CancelQuestion,
        TakeQuestion, DeliverAnswer, AnswerBatch
<1>26. QED
    BY <1>1, <1>2, <1>3, <1>4, <1>5, <1>6, <1>7, <1>8, <1>9, <1>10, <1>11, <1>12, <1>13,
        <1>14, <1>15, <1>16, <1>17, <1>20, <1>21, <1>22, <1>23, <1>24, <1>25
        DEF Next, RunStep, Finished

(* Every step keeps the channels in order.                                  *)
LEMMA CloseStep ==
    ApprovalInv /\ TypeOK' /\ CallInv' /\ [Next]_vars => CloseInv'
<1> SUFFICES ASSUME ApprovalInv /\ TypeOK' /\ CallInv', [Next]_vars
             PROVE  CloseInv'
    OBVIOUS
<1> USE RoundAssumption DEF TypeOK, ApprovalInv, CallInv, NoOrphanApproval, PendingOpen,
        CloseInv, Open, Fresh, This, Calls, Rounds, Approvals, AllKinds, runVars,
        contextVars, senderVars, brokerVars
<1>1. CASE Top
    BY <1>1 DEF Top
<1>2. CASE TopCancelled
    BY <1>2 DEF TopCancelled
<1>3. CASE RespondWithCalls
    BY <1>3 DEF RespondWithCalls
<1>4. CASE RespondWithoutCalls
    BY <1>4 DEF RespondWithoutCalls, NextRound, EndRun
<1>5. CASE StreamFails
    BY <1>5 DEF StreamFails, EndRun
<1>6. CASE ResolveTool
    BY <1>6 DEF ResolveTool
<1>7. CASE RegisterApproval
    BY <1>7 DEF RegisterApproval
<1>8. CASE ReceiveVerdict
    BY <1>8 DEF ReceiveVerdict, Approved
<1>9. CASE CancelApproval
  <2>1. /\ pc = "wait" /\ pending' = pending \ {This}
        /\ pc' = IF This \in pending THEN "closing" ELSE "waited"
        /\ UNCHANGED <<round, at, approvalCloses>>
    BY <1>9 DEF CancelApproval, Deleted
  <2>2. This' = This
    BY <2>1
  <2>3. \A a \in Approvals : Fresh(a)' => Fresh(a)
    BY <2>1
  <2>4. \A a \in Approvals : a \in pending' \/ (pc' = "closing" /\ a = This) => a \in pending
    <3> HIDE DEF This
    <3>1. CASE This \in pending
      BY <2>1, <3>1
    <3>2. CASE This \notin pending
      BY <2>1, <3>2
    <3>3. QED
      BY <3>1, <3>2
  <2> HIDE DEF Fresh, This
  <2>5. QED
    BY <2>1, <2>2, <2>3, <2>4
<1>10. CASE CloseApproval
    BY <1>10 DEF CloseApproval
<1>11. CASE Interrupted
    BY <1>11 DEF Interrupted, CleanupRound, NextRound
<1>12. CASE DeniedByAbort
    BY <1>12 DEF DeniedByAbort
<1>13. CASE NothingToExecute
    BY <1>13 DEF NothingToExecute, CleanupRound, NextRound, EndRun, Work
<1>14. CASE Execute
    BY <1>14 DEF Execute, Work
<1>15. CASE Collect
    BY <1>15 DEF Collect, CleanupRound
<1>16. CASE Persist
    BY <1>16 DEF Persist, NextRound, Work
<1>17. CASE SaveFails
    BY <1>17 DEF SaveFails, Work
<1>18. ASSUME NEW c \in Calls, ToolReturns(c) PROVE CloseInv'
    BY <1>18 DEF ToolReturns
<1>19. ASSUME NEW c \in Calls, NEW p,
              NEW q \in {"pending", "taken", "answered", "received", "cancelled"},
              Asked(c, p, q)
       PROVE  CloseInv'
    BY <1>19 DEF Asked
<1>20. ASSUME NEW a \in Approvals, NEW v \in {"approved", "rejected"}, ResolveBatch(a, v)
       PROVE  CloseInv'
    BY <1>20 DEF ResolveBatch
<1>21. ASSUME NEW s \in Senders, SignalMidRunMessage(s) PROVE CloseInv'
    BY <1>21 DEF SignalMidRunMessage
<1>22. ASSUME NEW s \in Senders, CallCancel(s) PROVE CloseInv'
    BY <1>22 DEF CallCancel
<1>23. CASE Abort
    BY <1>23 DEF Abort
<1>24. CASE UNCHANGED vars
    BY <1>24 DEF vars
<1> HIDE DEF TypeOK, ApprovalInv, CallInv, NoOrphanApproval, PendingOpen, CloseInv, Open,
        Fresh, This
<1>25. ASSUME NEW c \in Calls,
              ToolStep(c) \/ TakeQuestion(c) \/ DeliverAnswer(c) \/ AnswerBatch(c)
       PROVE  CloseInv'
    BY <1>18, <1>19, <1>25 DEF ToolStep, RegisterQuestion, ReceiveAnswer, CancelQuestion,
        TakeQuestion, DeliverAnswer, AnswerBatch
<1>26. QED
    BY <1>1, <1>2, <1>3, <1>4, <1>5, <1>6, <1>7, <1>8, <1>9, <1>10, <1>11, <1>12, <1>13,
        <1>14, <1>15, <1>16, <1>17, <1>20, <1>21, <1>22, <1>23, <1>24, <1>25
        DEF Next, RunStep, Finished

-----------------------------------------------------------------------------
(* The inductive invariant holds in every reachable state.                  *)
THEOREM ApprovalInvariant == Spec => []ApprovalInv
<1>1. Init => ApprovalInv
  <2> SUFFICES ASSUME Init PROVE ApprovalInv
    OBVIOUS
  <2> USE RoundAssumption DEF Init, Calls, Rounds, Approvals
  <2>1. /\ at \in 1..(NCalls + 1) /\ round < MaxRounds
        /\ kind \in [Calls -> AllKinds]
        /\ verdict \in [Approvals -> {"none", "open", "approved", "rejected"}]
        /\ approvalCloses \in [Approvals -> Nat]
    BY DEF AllKinds
  <2>2. TypeOK
    BY <2>1 DEF TypeOK
  <2>3. CallInv
    BY DEF CallInv, ApprovedOnly, NoOrphanApproval, Untouched, PendingOpen, Accepted
  <2>4. CloseInv
    BY DEF CloseInv
  <2>5. QED
    BY <2>2, <2>3, <2>4 DEF ApprovalInv
<1>2. ApprovalInv /\ [Next]_vars => ApprovalInv'
    BY TypeStep, CallStep, CloseStep DEF ApprovalInv
<1>3. QED
    BY <1>1, <1>2, PTL DEF Spec

(* The state of the loop, the brokers and the senders is well-typed: no     *)
(* wait without a call, no round beyond the bound, no nil cancel function   *)
(* called (executeRun, SignalMidRunMessage).                                *)
THEOREM RoundTypeCorrect == Spec => []TypeOK
<1>1. ApprovalInv => TypeOK
    BY DEF ApprovalInv
<1>2. QED
    BY <1>1, ApprovalInvariant, PTL

(* No tool that needs approval is executed without one (executeRun,         *)
(* waitForApproval and ResolveBatch).                                       *)
THEOREM ApprovedOnlyCorrect == Spec => []ApprovedOnly
<1>1. ApprovalInv => ApprovedOnly
    BY DEF ApprovalInv, CallInv
<1>2. QED
    BY <1>1, ApprovalInvariant, PTL

(* The broker holds no approval the run does not wait for (waitForApproval  *)
(* and Cancel).                                                             *)
THEOREM NoOrphanApprovalCorrect == Spec => []NoOrphanApproval
<1>1. ApprovalInv => NoOrphanApproval
    BY DEF ApprovalInv, CallInv
<1>2. QED
    BY <1>1, ApprovalInvariant, PTL

(* ResolveBatch and Cancel never close a channel twice between them.        *)
THEOREM ClosedOnceCorrect == Spec => []ClosedOnce
<1>1. ApprovalInv => ClosedOnce
    BY DEF ApprovalInv, CloseInv, ClosedOnce
<1>2. QED
    BY <1>1, ApprovalInvariant, PTL

(* A verdict and a cancelled wait settle an approval once between them, and *)
(* leave nothing of it in the broker (ResolveBatch, Cancel).                *)
THEOREM ApprovalsSettledCorrect == Spec => []ApprovalsSettled
<1>1. NoOrphanApproval /\ ClosedOnce => ApprovalsSettled
    BY DEF ApprovalsSettled
<1>2. QED
    BY <1>1, NoOrphanApprovalCorrect, ClosedOnceCorrect, PTL
-----------------------------------------------------------------------------
(* Tools run in Phase 2 only, and have no results before it.                *)
PhaseInv ==
    /\ RoundIsClosed
    /\ pc \in {"stream", "calls", "wait", "closing", "waited"} =>
            \A c \in Calls : call[c] # "ran"

(* Every step keeps the phases apart.                                       *)
LEMMA PhaseStep ==
    TypeOK /\ PhaseInv /\ [Next]_vars => PhaseInv'
<1> SUFFICES ASSUME TypeOK /\ PhaseInv, [Next]_vars
             PROVE  PhaseInv'
    OBVIOUS
<1> USE RoundAssumption DEF TypeOK, PhaseInv, RoundIsClosed, This, Calls, Rounds, Approvals,
        AllKinds, runVars, contextVars, senderVars, brokerVars
<1>1. CASE Top
    BY <1>1 DEF Top
<1>2. CASE TopCancelled
    BY <1>2 DEF TopCancelled
<1>3. CASE RespondWithCalls
    BY <1>3 DEF RespondWithCalls
<1>4. CASE RespondWithoutCalls
    BY <1>4 DEF RespondWithoutCalls, NextRound, EndRun
<1>5. CASE StreamFails
    BY <1>5 DEF StreamFails, EndRun
<1>6. CASE ResolveTool
    BY <1>6 DEF ResolveTool
<1>7. CASE RegisterApproval
    BY <1>7 DEF RegisterApproval
<1>8. CASE ReceiveVerdict
    BY <1>8 DEF ReceiveVerdict, Approved
<1>9. CASE CancelApproval
    BY <1>9 DEF CancelApproval, Deleted
<1>10. CASE CloseApproval
    BY <1>10 DEF CloseApproval
<1>11. CASE Interrupted
    BY <1>11 DEF Interrupted, CleanupRound, NextRound
<1>12. CASE DeniedByAbort
    BY <1>12 DEF DeniedByAbort
<1>13. CASE NothingToExecute
    BY <1>13 DEF NothingToExecute, CleanupRound, NextRound, EndRun, Work
<1>14. CASE Execute
    BY <1>14 DEF Execute, Work
<1>15. CASE Collect
    BY <1>15 DEF Collect, CleanupRound, AllReturned, Work
<1>16. CASE Persist
    BY <1>16 DEF Persist, NextRound, Work
<1>17. CASE SaveFails
    BY <1>17 DEF SaveFails, Work
<1>18. ASSUME NEW c \in Calls, ToolReturns(c) PROVE PhaseInv'
    BY <1>18 DEF ToolReturns
<1>19. ASSUME NEW c \in Calls, NEW p,
              NEW q \in {"pending", "taken", "answered", "received", "cancelled"},
              Asked(c, p, q)
       PROVE  PhaseInv'
    BY <1>19 DEF Asked
<1>20. ASSUME NEW a \in Approvals, NEW v \in {"approved", "rejected"}, ResolveBatch(a, v)
       PROVE  PhaseInv'
    BY <1>20 DEF ResolveBatch
<1>21. ASSUME NEW s \in Senders, SignalMidRunMessage(s) PROVE PhaseInv'
    BY <1>21 DEF SignalMidRunMessage
<1>22. ASSUME NEW s \in Senders, CallCancel(s) PROVE PhaseInv'
    BY <1>22 DEF CallCancel
<1>23. CASE Abort
    BY <1>23 DEF Abort
<1>24. CASE UNCHANGED vars
    BY <1>24 DEF vars
<1> HIDE DEF TypeOK, PhaseInv, RoundIsClosed, This
<1>25. ASSUME NEW c \in Calls,
              ToolStep(c) \/ TakeQuestion(c) \/ DeliverAnswer(c) \/ AnswerBatch(c)
       PROVE  PhaseInv'
    BY <1>18, <1>19, <1>25 DEF ToolStep, RegisterQuestion, ReceiveAnswer, CancelQuestion,
        TakeQuestion, DeliverAnswer, AnswerBatch
<1>26. QED
    BY <1>1, <1>2, <1>3, <1>4, <1>5, <1>6, <1>7, <1>8, <1>9, <1>10, <1>11, <1>12, <1>13,
        <1>14, <1>15, <1>16, <1>17, <1>20, <1>21, <1>22, <1>23, <1>24, <1>25
        DEF Next, RunStep, Finished

(* No tool outlives its round and no executed result is missing from the    *)
(* history of the next one (executeRun, Phases 2 and 3).                    *)
THEOREM RoundIsClosedCorrect == Spec => []RoundIsClosed
<1>1. Init => PhaseInv
    BY DEF Init, PhaseInv, RoundIsClosed
<1>2. TypeOK /\ PhaseInv /\ [Next]_vars => PhaseInv'
    BY PhaseStep
<1>3. PhaseInv => RoundIsClosed
    BY DEF PhaseInv
<1>4. QED
    BY <1>1, <1>2, <1>3, RoundTypeCorrect, PTL DEF Spec
=============================================================================
