------------------------------ MODULE Workflow ------------------------------
(***************************************************************************)
(* One call of a tool that a skill defines: a shell command, an HTTP       *)
(* request, or a workflow, whose steps are actions, loops (forEach) and    *)
(* switches, with steps that are run finally.                              *)
(*                                                                         *)
(* The calls of executeWorkflowSteps that are open are a stack of frames.  *)
(* What conditions, templates and paths evaluate to, what a command or a   *)
(* server answers and whether an output fits its schema are free choices;  *)
(* of the data of the workflow only the loop variables are kept.           *)
(***************************************************************************)
EXTENDS Naturals, Sequences, SequencesExt

CONSTANTS
    Kinds,      \* the types of the tool: "shell", "http", "workflow"
    Step,       \* the steps of the workflow, by their names
    Main,       \* the names of its main steps, in order
    Finally,    \* the names of the steps of finally
    Aliases,    \* names of loop variables
    MaxItems,   \* bound: items of a forEach
    Admin       \* whether the user is an administrator

(* A step is [type, onError, retries, conditional, as, steps, cases,       *)
(* default]: steps (of a loop), default and each of the cases (of a        *)
(* switch) are sequences of names, and "as" is a loop variable.  A case    *)
(* whose steps are absent (nil) counts as none; one with no steps does not.*)
Continues(s) == Step[s].onError = "continue"

NoAttempt == [step |-> "none", number |-> 0, decision |-> "allow"]
Decisions == {"allow", "approve", "deny"}     \* of commandpolicy

VARIABLES
    kind,       \* the type of the tool that is called
    phase,      \* "called", "main", "finally", "checked", "answered"
    stack,      \* the open frames: [of, steps, at, item, items, saved]
    attempt,    \* the action step that is being tried
    raising,    \* whether an error is being returned
    alias,      \* contextData of the loop variables: 0 for not set, else an item
    failed,     \* the phases that ended with an error
    results,    \* the results that are reported: name, status, attempts
    answer,     \* "none", "ok" or "error"
    ran,        \* ghost: the decisions on the commands that were run
    faults,     \* ghost: the phases of the errors that no enclosing step contains
    approved    \* whether the call was approved by a user

vars == <<kind, phase, stack, attempt, raising, alias, failed, results, answer, ran, faults, approved>>

Init ==
    /\ kind \in Kinds
    /\ phase = "called" /\ stack = <<>> /\ attempt = NoAttempt /\ raising = FALSE
    /\ alias = [a \in Aliases |-> 0]
    /\ failed = {} /\ results = <<>> /\ answer = "none"
    /\ ran = {} /\ faults = {} /\ approved = FALSE

Top == Last(stack)
Pop == Front(stack)
SetTop(frame) == Append(Pop, frame)
Frame(of, steps, item, items, saved) ==
    [of |-> of, steps |-> steps, at |-> 1, item |-> item, items |-> items, saved |-> saved]
Current == Top.steps[Top.at]

(* The step s of the top frame is done; the frame goes on with the next. *)
Advance(frames) == Append(Front(frames), [Last(frames) EXCEPT !.at = @ + 1])

(* An enclosing step, of the frames above that of the phase, goes on. *)
Contained == \E i \in DOMAIN stack : i > 1 /\ Continues(stack[i].of)

(* A step returns an error. *)
Raise ==
    /\ raising' = TRUE
    /\ faults' = faults \cup (IF Contained THEN {} ELSE {phase})

Report(s, status, attempts) == results' = Append(results, [name |-> s, status |-> status, attempts |-> attempts])

InSteps(p) == phase = p /\ stack # <<>> /\ ~raising /\ attempt = NoAttempt
AtStep == phase \in {"main", "finally"} /\ InSteps(phase) /\ Top.at <= Len(Top.steps)

-----------------------------------------------------------------------------
(* The tools of one action. *)

(* ArgumentPolicy and Execute of ShellTool: the tool loop asks a user when  *)
(* the policy says so; only a denied command is refused here.               *)
ShellToolExecute ==
    /\ kind = "shell" /\ phase = "called"
    /\ \E decision \in Decisions, allowed \in BOOLEAN, ok \in BOOLEAN :
         /\ approved' = (decision = "approve" /\ allowed)
         /\ LET runs == Admin /\ decision # "deny" /\ (decision = "approve" => allowed)
            IN  /\ ran' = IF runs THEN {decision} ELSE {}
                /\ answer' = IF runs /\ ok THEN "ok" ELSE "error"
    /\ phase' = "answered"
    /\ UNCHANGED <<kind, stack, attempt, raising, alias, failed, results, faults>>

(* Execute of HTTPTool. *)
HTTPToolExecute ==
    /\ kind = "http" /\ phase = "called"
    /\ phase' = "answered" /\ answer' \in {"ok", "error"}
    /\ UNCHANGED <<kind, stack, attempt, raising, alias, failed, results, ran, faults, approved>>

-----------------------------------------------------------------------------
(* Execute of WorkflowTool. *)

(* Required arguments, and the steps of the selected action. *)
WorkflowBegins ==
    /\ kind = "workflow" /\ phase = "called"
    /\ \/ /\ phase' = "main" /\ stack' = <<Frame("main", Main, 0, 0, 0)>>
          /\ UNCHANGED answer
       \/ /\ phase' = "answered" /\ answer' = "error"
          /\ UNCHANGED stack
    /\ UNCHANGED <<kind, attempt, raising, alias, failed, results, ran, faults, approved>>

(* Mutant of AfterMain: an error of the main steps is returned at once. *)
AfterMainReturns(error) ==
    IF error THEN phase' = "answered" /\ answer' = "error" /\ stack' = <<>>
    ELSE phase' = "finally" /\ stack' = <<Frame("finally", Finally, 0, 0, 0)>> /\ UNCHANGED answer

(* The main steps have returned, with an error or not. *)
AfterMain(error) ==
    /\ phase' = "finally" /\ stack' = <<Frame("finally", Finally, 0, 0, 0)>>
    /\ UNCHANGED answer

(* A call of executeWorkflowSteps from Execute returns. *)
PhaseReturns ==
    /\ phase \in {"main", "finally"} /\ Len(stack) = 1
    /\ raising \/ (Top.at > Len(Top.steps) /\ attempt = NoAttempt)
    /\ failed' = failed \cup (IF raising THEN {phase} ELSE {})
    /\ raising' = FALSE
    /\ \/ phase = "main" /\ AfterMain(raising)
       \/ phase = "finally" /\ phase' = "checked" /\ stack' = <<>> /\ UNCHANGED answer
    /\ UNCHANGED <<kind, attempt, alias, results, ran, faults, approved>>

(* The error of the main steps, else the one of finally, else of the output *)
(* schema.                                                                  *)
WorkflowAnswers ==
    /\ phase = "checked"
    /\ phase' = "answered"
    /\ answer' \in IF failed # {} THEN {"error"} ELSE {"ok", "error"}
    /\ UNCHANGED <<kind, stack, attempt, raising, alias, failed, results, ran, faults, approved>>

-----------------------------------------------------------------------------
(* executeWorkflowSteps and executeWorkflowStep. *)

(* shouldRunStep is false. *)
StepSkipped ==
    /\ AtStep /\ Step[Current].conditional
    /\ Report(Current, "skipped", 0)
    /\ stack' = Advance(stack)
    /\ UNCHANGED <<kind, phase, attempt, raising, alias, failed, answer, ran, faults, approved>>

(* executeActionStep: its first attempt. *)
ActionBegins ==
    /\ AtStep /\ Step[Current].type \in {"shell", "http"}
    /\ \E decision \in IF Step[Current].type = "shell" THEN Decisions ELSE {"allow"} :
         attempt' = [step |-> Current, number |-> 1, decision |-> decision]
    /\ UNCHANGED <<kind, phase, stack, raising, alias, failed, results, answer, ran, faults, approved>>

Shell == Step[attempt.step].type = "shell"

(* Mutant of Permitted: only the blocklist, as for a tool of one command. *)
PermittedUnlessDenied == Admin /\ attempt.decision # "deny"

(* An administrator, and enforceWorkflowSkillShellActionPolicy. *)
Permitted == Admin /\ attempt.decision = "allow"

(* A shell action that is refused fails the step, whatever its onError. *)
ActionRefused ==
    /\ attempt # NoAttempt /\ Shell /\ ~Permitted
    /\ attempt' = NoAttempt /\ Raise
    /\ UNCHANGED <<kind, phase, stack, alias, failed, results, answer, ran, approved>>

(* The command is run; its error and its exit code are an outcome below. *)
ExecuteShellAction == Shell /\ Permitted /\ ran' = ran \cup {attempt.decision}

(* The request is made, with the headers of its authentication profile; a   *)
(* status other than 2xx and a profile that is missing are errors.          *)
ExecuteHttpAction == ~Shell /\ UNCHANGED ran

Runs == attempt # NoAttempt /\ (ExecuteShellAction \/ ExecuteHttpAction)

(* No error: the output is processed; when it cannot be, the step fails,    *)
(* whatever its onError.                                                    *)
ActionSucceeds ==
    /\ Runs
    /\ attempt' = NoAttempt
    /\ \/ /\ Report(attempt.step, "ok", attempt.number)
          /\ stack' = Advance(stack)
          /\ UNCHANGED <<raising, faults>>
       \/ /\ Raise
          /\ UNCHANGED <<results, stack>>
    /\ UNCHANGED <<kind, phase, alias, failed, answer, approved>>

MoreAttempts == attempt.number <= Step[attempt.step].retries

(* An error, and the next attempt. *)
ActionRetried ==
    /\ Runs /\ MoreAttempts
    /\ attempt' = [attempt EXCEPT !.number = @ + 1]
    /\ UNCHANGED <<kind, phase, stack, raising, alias, failed, results, answer, faults, approved>>

(* The last attempt fails: the loop has counted one more. *)
ActionFails ==
    /\ Runs /\ ~MoreAttempts
    /\ attempt' = NoAttempt
    /\ IF Continues(attempt.step)
       THEN /\ Report(attempt.step, "error", attempt.number + 1)
            /\ stack' = Advance(stack)
            /\ UNCHANGED <<raising, faults>>
       ELSE Raise /\ UNCHANGED <<results, stack>>
    /\ UNCHANGED <<kind, phase, alias, failed, answer, approved>>

-----------------------------------------------------------------------------
(* executeForEachStep. *)

(* The source is missing or no array. *)
ForEachFails ==
    /\ AtStep /\ Step[Current].type = "forEach"
    /\ Raise
    /\ UNCHANGED <<kind, phase, stack, attempt, alias, failed, results, answer, ran, approved>>

SetAlias(s, value) == alias' = [alias EXCEPT ![Step[s].as] = value]

(* No items: the step is done.  Else the first one. *)
ForEachBegins ==
    /\ AtStep /\ Step[Current].type = "forEach"
    /\ \E n \in 0..MaxItems :
         IF n = 0
         THEN Report(Current, "ok", 1) /\ stack' = Advance(stack) /\ UNCHANGED alias
         ELSE /\ stack' = Append(stack, Frame(Current, Step[Current].steps, 1, n, alias[Step[Current].as]))
              /\ SetAlias(Current, 1)
              /\ UNCHANGED results
    /\ UNCHANGED <<kind, phase, attempt, raising, failed, answer, ran, faults, approved>>

(* Mutant of Restored: the variable is removed at the end of the loop. *)
RestoredNone(frame) == 0

(* The deferred function: what the variable was before the loop. *)
Restored(frame) == frame.saved

InLoop == Len(stack) > 1 /\ Step[Top.of].type = "forEach"
ItemDone == ~raising /\ attempt = NoAttempt /\ Top.at > Len(Top.steps)

(* An item is done, or its error is collected: the next one, or the end. *)
ForEachNext ==
    /\ InLoop /\ (ItemDone \/ (raising /\ Continues(Top.of)))
    /\ raising' = FALSE
    /\ IF Top.item < Top.items
       THEN /\ stack' = SetTop([Top EXCEPT !.at = 1, !.item = @ + 1])
            /\ SetAlias(Top.of, Top.item + 1)
            /\ UNCHANGED results
       ELSE /\ stack' = Advance(Pop)
            /\ SetAlias(Top.of, Restored(Top))
            /\ Report(Top.of, "ok", 1)
    /\ UNCHANGED <<kind, phase, attempt, failed, answer, ran, faults, approved>>

(* The error of an item is the error of the loop. *)
ForEachReturnsError ==
    /\ InLoop /\ raising /\ ~Continues(Top.of)
    /\ stack' = Pop
    /\ SetAlias(Top.of, Restored(Top))
    /\ UNCHANGED <<kind, phase, attempt, raising, failed, results, answer, ran, faults, approved>>

-----------------------------------------------------------------------------
(* executeSwitchStep. *)

(* The steps of the case that matches, else of the default.                 *)
Selectable(s) == Step[s].cases \cup {Step[s].default}

SwitchBegins ==
    /\ AtStep /\ Step[Current].type = "switch"
    /\ \E selected \in Selectable(Current) :
         stack' = Append(stack, Frame(Current, selected, 0, 0, 0))
    /\ UNCHANGED <<kind, phase, attempt, raising, alias, failed, results, answer, ran, faults, approved>>

InSwitch == Len(stack) > 1 /\ Step[Top.of].type = "switch"

(* Mutant of SwitchContains: an error is always returned. *)
SwitchContainsNone(s) == FALSE

SwitchContains(s) == Continues(s)

SwitchReturns ==
    /\ InSwitch
    /\ \/ /\ ItemDone
          /\ Report(Top.of, "ok", 1)
          /\ stack' = Advance(Pop)
          /\ UNCHANGED raising
       \/ /\ raising /\ SwitchContains(Top.of)
          /\ Report(Top.of, "error", 1)
          /\ stack' = Advance(Pop)
          /\ raising' = FALSE
       \/ /\ raising /\ ~SwitchContains(Top.of)
          /\ stack' = Pop
          /\ UNCHANGED <<raising, results>>
    /\ UNCHANGED <<kind, phase, attempt, alias, failed, answer, ran, faults, approved>>

-----------------------------------------------------------------------------
Next ==
    \/ ShellToolExecute \/ HTTPToolExecute
    \/ WorkflowBegins \/ PhaseReturns \/ WorkflowAnswers
    \/ StepSkipped
    \/ ActionBegins \/ ActionRefused \/ ActionSucceeds \/ ActionRetried \/ ActionFails
    \/ ForEachFails \/ ForEachBegins \/ ForEachNext \/ ForEachReturnsError
    \/ SwitchBegins \/ SwitchReturns

Spec == Init /\ [][Next]_vars

-----------------------------------------------------------------------------
StepNames == DOMAIN Step

TypeOK ==
    /\ kind \in Kinds
    /\ phase \in {"called", "main", "finally", "checked", "answered"}
    /\ \A i \in DOMAIN stack :
         /\ stack[i].of \in StepNames \cup {"main", "finally"}
         /\ stack[i].at \in 1..(Len(stack[i].steps) + 1)
         /\ stack[i].item \in 0..stack[i].items
    /\ attempt \in [step : StepNames \cup {"none"}, number : Nat, decision : Decisions]
    /\ raising \in BOOLEAN
    /\ alias \in [Aliases -> 0..MaxItems]
    /\ failed \subseteq {"main", "finally"}
    /\ \A i \in DOMAIN results : results[i].name \in StepNames /\ results[i].status \in {"ok", "error", "skipped"}
    /\ answer \in {"none", "ok", "error"}
    /\ ran \subseteq Decisions /\ faults \subseteq {"main", "finally"}
    /\ approved \in BOOLEAN

-----------------------------------------------------------------------------
(* The invariants that the proofs rest on. *)

(* What a workflow is: lists of steps, and a loop has a variable, item when *)
(* it names none (executeForEachStep).                                      *)
WellFormed ==
    /\ MaxItems \in Nat
    /\ Main \in Seq(StepNames) /\ Finally \in Seq(StepNames)
    /\ \A s \in StepNames :
         /\ Step[s].steps \in Seq(StepNames) /\ Step[s].default \in Seq(StepNames)
         /\ Step[s].cases \subseteq Seq(StepNames)
         /\ Step[s].type = "forEach" => Step[s].as \in Aliases

Frames ==
    [of : StepNames \cup {"main", "finally"}, steps : Seq(StepNames), at : Nat \ {0},
     item : Nat, items : Nat, saved : Nat]

(* The form of the state: a frame above the first is of the step that the   *)
(* frame below it is at, a loop is at an item, and an action is tried where *)
(* the top frame is.                                                        *)
FrameInv ==
    /\ stack \in Seq(Frames)
    /\ results \in Seq([name : StepNames, status : {"ok", "error", "skipped"}, attempts : Nat])
    /\ attempt \in [step : StepNames \cup {"none"}, number : Nat, decision : Decisions]
    /\ raising \in BOOLEAN /\ alias \in [Aliases -> Nat]
    /\ stack # <<>> <=> phase \in {"main", "finally"}
    /\ phase = "called" => results = <<>>
    /\ raising => stack # <<>> /\ attempt = NoAttempt
    /\ attempt # NoAttempt =>
          /\ stack # <<>> /\ Top.at <= Len(Top.steps)
          /\ attempt.step = Current
    /\ \A i \in DOMAIN stack :
         /\ stack[i].at <= Len(stack[i].steps) + 1
         /\ stack[i].item > 0 <=> i > 1 /\ Step[stack[i].of].type = "forEach"
         /\ i > 1 => /\ stack[i - 1].at <= Len(stack[i - 1].steps)
                     /\ stack[i].of = stack[i - 1].steps[stack[i - 1].at]

(* The errors that nothing contains are those of the phases that failed,    *)
(* and the one that is on its way out.                                      *)
FaultInv ==
    /\ faults = failed \cup (IF raising /\ ~Contained THEN {phase} ELSE {})
    /\ phase = "called" => failed = {}
    /\ phase = "answered" /\ failed # {} => answer = "error"

(* Every step of finally before the one it is at is reported. *)
Reported(s) == \E i \in DOMAIN results : results[i].name = s

FinallyInv ==
    /\ phase = "finally" =>
          stack[1].steps = Finally /\ \A j \in 1..(stack[1].at - 1) : Reported(Finally[j])
    /\ phase \in {"checked", "answered"} /\ results # <<>> /\ Finally # <<>> =>
          "finally" \in failed \/ Reported(Last(Finally))

(* Frame i is a loop over a; v is the item of the innermost such loop among *)
(* the first n frames, or 0.                                                *)
Loops(s, i, a) == s[i].item > 0 /\ Step[s[i].of].as = a

Innermost(s, a, n, v) ==
    \/ v = 0 /\ \A i \in 1..n : ~Loops(s, i, a)
    \/ \E i \in 1..n : Loops(s, i, a) /\ v = s[i].item /\ \A j \in (i + 1)..n : ~Loops(s, j, a)

(* A loop variable, and what a loop has saved of it, is that item. *)
ScopeInv ==
    /\ \A a \in Aliases : Innermost(stack, a, Len(stack), alias[a])
    /\ \A i \in DOMAIN stack :
         stack[i].item > 0 => Innermost(stack, Step[stack[i].of].as, i - 1, stack[i].saved)

-----------------------------------------------------------------------------
(* Properties. *)

(* A loop variable has the item of the innermost open loop over it, and     *)
(* nothing outside of such a loop: loops that share a name nest, and a loop *)
(* that an error leaves restores the variable as well.                      *)
LoopVariableScoped ==
    \A a \in Aliases :
        LET open == {i \in DOMAIN stack : stack[i].item > 0 /\ Step[stack[i].of].as = a}
        IN  IF open = {} THEN alias[a] = 0
            ELSE LET i == CHOOSE j \in open : \A k \in open : k <= j
                 IN  alias[a] = stack[i].item

(* A workflow fails by its steps exactly when an error was raised that no   *)
(* enclosing step with onError continue contains, in the main steps or in   *)
(* finally, and the steps of finally are run in either case.                *)
ErrorsContained ==
    phase \in {"checked", "answered"} /\ results # <<>> =>
        /\ failed = faults
        /\ phase = "answered" /\ faults # {} => answer = "error"
        /\ Finally # <<>> => "finally" \in faults \/ \E i \in DOMAIN results : results[i].name = Last(Finally)

(* What a step raises or sets is seen in its scope: an error up to the step *)
(* that contains it, a loop variable in its loop.                           *)
ScopesKept == ErrorsContained /\ LoopVariableScoped

(* A command that needs the approval of a user is not run without it.      *)
NoUnapprovedCommand == ran \subseteq {"allow"} \cup (IF approved THEN {"approve"} ELSE {})

(* The attempts that are reported of a step are attempts that were made. *)
AttemptsTrue == \A i \in DOMAIN results : results[i].attempts <= Step[results[i].name].retries + 1
=============================================================================
