--------------------------- MODULE WorkflowProofs ---------------------------
(* Proofs about the workflows of skills, for every workflow: any steps, any *)
(* nesting of loops and switches, any number of items and attempts.         *)
(*                                                                          *)
(* The steps of the interpreter are sorted by what they do to the stack of  *)
(* frames; each invariant is then kept by each of these shapes.             *)
EXTENDS Workflow, SequenceTheorems, TLAPS

Result == [name : StepNames, status : {"ok", "error", "skipped"}, attempts : Nat]

(* The fields of a frame.                                                   *)
LEMMA FrameFields ==
  ASSUME NEW f \in Frames
  PROVE  /\ f.of \in StepNames \cup {"main", "finally"} /\ f.steps \in Seq(StepNames)
         /\ f.at \in Nat \ {0} /\ f.item \in Nat /\ f.items \in Nat /\ f.saved \in Nat
         /\ Len(f.steps) \in Nat
         /\ f = [of |-> f.of, steps |-> f.steps, at |-> f.at, item |-> f.item,
                 items |-> f.items, saved |-> f.saved]
<1>1. /\ f.of \in StepNames \cup {"main", "finally"} /\ f.steps \in Seq(StepNames)
      /\ f.at \in Nat \ {0} /\ f.item \in Nat /\ f.items \in Nat /\ f.saved \in Nat
  BY DEF Frames
<1>2. f = [of |-> f.of, steps |-> f.steps, at |-> f.at, item |-> f.item,
           items |-> f.items, saved |-> f.saved]
  BY DEF Frames
<1>3. Len(f.steps) \in Nat
  BY <1>1
<1>. QED BY <1>1, <1>2, <1>3

LEMMA Moved ==
  ASSUME NEW f \in Frames
  PROVE  /\ [f EXCEPT !.at = @ + 1] =
              [of |-> f.of, steps |-> f.steps, at |-> f.at + 1, item |-> f.item,
               items |-> f.items, saved |-> f.saved]
         /\ [f EXCEPT !.at = 1, !.item = @ + 1] =
              [of |-> f.of, steps |-> f.steps, at |-> 1, item |-> f.item + 1,
               items |-> f.items, saved |-> f.saved]
<1>0. f = [of |-> f.of, steps |-> f.steps, at |-> f.at, item |-> f.item,
           items |-> f.items, saved |-> f.saved]
  BY FrameFields
<1>1. [f EXCEPT !.at = @ + 1] =
        [of |-> f.of, steps |-> f.steps, at |-> f.at + 1, item |-> f.item,
         items |-> f.items, saved |-> f.saved]
  BY <1>0
<1>2. ASSUME NEW x, NEW y
      PROVE  [f EXCEPT !.at = x, !.item = y] =
               [of |-> f.of, steps |-> f.steps, at |-> x, item |-> y,
                items |-> f.items, saved |-> f.saved]
  <2> DEFINE g == [f EXCEPT !.at = x, !.item = y]
  <2>1. g \in [of : {f.of}, steps : {f.steps}, at : {x}, item : {y},
               items : {f.items}, saved : {f.saved}]
    BY <1>0
  <2> HIDE DEF g
  <2>2. g = [of |-> f.of, steps |-> f.steps, at |-> x, item |-> y,
             items |-> f.items, saved |-> f.saved]
    BY <2>1
  <2>. QED BY <2>2 DEF g
<1>. QED BY <1>1, <1>2

LEMMA FrameIs ==
  ASSUME NEW of \in StepNames \cup {"main", "finally"}, NEW steps \in Seq(StepNames),
         NEW item \in Nat, NEW items \in Nat, NEW saved \in Nat
  PROVE  LET f == Frame(of, steps, item, items, saved)
         IN  /\ f \in Frames /\ f.of = of /\ f.steps = steps /\ f.at = 1
             /\ f.item = item /\ f.items = items /\ f.saved = saved
BY DEF Frame, Frames

(* A sequence without its last element.                                     *)
LEMMA FrontIs ==
  ASSUME NEW S, NEW s \in Seq(S), s # <<>>
  PROVE  /\ Len(s) \in Nat \ {0} /\ Last(s) \in S /\ Last(s) = s[Len(s)]
         /\ Front(s) \in Seq(S) /\ Len(Front(s)) = Len(s) - 1
         /\ \A i \in 1..(Len(s) - 1) : Front(s)[i] = s[i]
<1>1. Len(s) \in Nat \ {0}
  OBVIOUS
<1>2. Last(s) \in S /\ Last(s) = s[Len(s)]
  BY <1>1 DEF Last
<1>3. Front(s) = [i \in 1..(Len(s) - 1) |-> s[i]]
  BY <1>1 DEF Front
<1>4. \A i \in 1..(Len(s) - 1) : s[i] \in S
  BY <1>1
<1>5. Front(s) \in Seq(S) /\ Len(Front(s)) = Len(s) - 1
  BY <1>1, <1>3, <1>4
<1>. QED BY <1>1, <1>2, <1>3, <1>5

LEMMA AppendIs ==
  ASSUME NEW S, NEW s \in Seq(S), NEW x \in S
  PROVE  /\ Append(s, x) \in Seq(S) /\ Len(Append(s, x)) = Len(s) + 1
         /\ Len(s) \in Nat /\ Append(s, x)[Len(s) + 1] = x
         /\ \A i \in 1..Len(s) : Append(s, x)[i] = s[i]
OBVIOUS

(* The top frame replaced.                                                  *)
LEMMA ReplacedIs ==
  ASSUME NEW s \in Seq(Frames), s # <<>>, NEW f \in Frames
  PROVE  LET t == Append(Front(s), f)
         IN  /\ t \in Seq(Frames) /\ Len(t) = Len(s) /\ t[Len(s)] = f
             /\ \A i \in 1..(Len(s) - 1) : t[i] = s[i]
<1>1. /\ Len(s) \in Nat \ {0} /\ Front(s) \in Seq(Frames) /\ Len(Front(s)) = Len(s) - 1
      /\ \A i \in 1..(Len(s) - 1) : Front(s)[i] = s[i]
  BY FrontIs
<1>2. /\ Append(Front(s), f) \in Seq(Frames) /\ Len(Append(Front(s), f)) = Len(Front(s)) + 1
      /\ Append(Front(s), f)[Len(Front(s)) + 1] = f
      /\ \A i \in 1..Len(Front(s)) : Append(Front(s), f)[i] = Front(s)[i]
  BY <1>1, AppendIs
<1>3. Len(Front(s)) + 1 = Len(s)
  BY <1>1
<1>. QED BY <1>1, <1>2, <1>3

LEMMA AdvanceIs ==
  ASSUME NEW s \in Seq(Frames), s # <<>>
  PROVE  /\ Advance(s) \in Seq(Frames) /\ Len(Advance(s)) = Len(s) /\ Len(s) \in Nat \ {0}
         /\ \A i \in 1..(Len(s) - 1) : Advance(s)[i] = s[i]
         /\ LET f == s[Len(s)]
                g == Advance(s)[Len(s)]
            IN  /\ g.of = f.of /\ g.steps = f.steps /\ g.at = f.at + 1
                /\ g.item = f.item /\ g.items = f.items /\ g.saved = f.saved
<1> DEFINE f == s[Len(s)]
           g == [f EXCEPT !.at = @ + 1]
<1>1. Len(s) \in Nat \ {0} /\ f \in Frames /\ Last(s) = f
  BY FrontIs
<1>2. Advance(s) = Append(Front(s), g)
  BY <1>1 DEF Advance
<1> HIDE DEF f
<1>3. /\ g = [of |-> f.of, steps |-> f.steps, at |-> f.at + 1, item |-> f.item,
              items |-> f.items, saved |-> f.saved]
  BY <1>1, Moved
<1>4. /\ g.of = f.of /\ g.steps = f.steps /\ g.at = f.at + 1
      /\ g.item = f.item /\ g.items = f.items /\ g.saved = f.saved
  BY <1>3
<1>5. g \in Frames
  <2>1. /\ f.of \in StepNames \cup {"main", "finally"} /\ f.steps \in Seq(StepNames)
        /\ f.at + 1 \in Nat \ {0} /\ f.item \in Nat /\ f.items \in Nat /\ f.saved \in Nat
    BY <1>1, FrameFields
  <2>. QED BY <1>3, <2>1 DEF Frames
<1> HIDE DEF g
<1>6. /\ Advance(s) \in Seq(Frames) /\ Len(Advance(s)) = Len(s) /\ Advance(s)[Len(s)] = g
      /\ \A i \in 1..(Len(s) - 1) : Advance(s)[i] = s[i]
  BY <1>2, <1>5, ReplacedIs
<1>. QED BY <1>1, <1>4, <1>6 DEF f

-----------------------------------------------------------------------------
(* The shapes of the steps.                                                 *)

Same == <<phase, failed, answer>>

(* The stack stays; an action begins or is tried again, or an error is      *)
(* raised.                                                                  *)
Stays ==
    /\ UNCHANGED <<stack, alias, results, Same>> /\ phase \in {"main", "finally"} /\ ~raising
    /\ \/ UNCHANGED <<raising, faults>> /\ Top.at <= Len(Top.steps) /\ attempt'.step = Current
          /\ attempt' \in [step : StepNames, number : Nat, decision : Decisions]
       \/ Raise /\ attempt' = NoAttempt

(* A step is done and reported.                                             *)
Advances ==
    /\ stack # <<>> /\ Top.at <= Len(Top.steps) /\ ~raising /\ stack' = Advance(stack)
    /\ \E r \in Result : r.name = Current /\ results' = Append(results, r)
    /\ attempt' = NoAttempt /\ UNCHANGED <<alias, raising, faults, Same>>

(* A loop or a switch is entered.                                           *)
Enters ==
    /\ stack # <<>> /\ Top.at <= Len(Top.steps) /\ ~raising
    /\ \E steps \in Seq(StepNames), n \in Nat :
         \/ /\ Step[Current].type = "forEach"
            /\ stack' = Append(stack, Frame(Current, steps, 1, n, alias[Step[Current].as]))
            /\ SetAlias(Current, 1)
         \/ /\ Step[Current].type = "switch"
            /\ stack' = Append(stack, Frame(Current, steps, 0, 0, 0))
            /\ UNCHANGED alias
    /\ attempt' = NoAttempt /\ UNCHANGED <<results, raising, faults, Same>>

(* The next item of a loop.                                                 *)
NextItem ==
    /\ InLoop /\ (raising => Continues(Top.of)) /\ raising' = FALSE
    /\ stack' = SetTop([Top EXCEPT !.at = 1, !.item = @ + 1])
    /\ SetAlias(Top.of, Top.item + 1)
    /\ attempt' = NoAttempt /\ UNCHANGED <<results, faults, Same>>

RestoresAlias ==
    IF Step[Top.of].type = "forEach" THEN SetAlias(Top.of, Top.saved) ELSE UNCHANGED alias

(* A loop or a switch is done and reported.                                 *)
Leaves ==
    /\ Len(stack) > 1 /\ (raising => Continues(Top.of)) /\ raising' = FALSE
    /\ stack' = Advance(Pop) /\ RestoresAlias
    /\ \E r \in Result : r.name = Top.of /\ results' = Append(results, r)
    /\ attempt' = NoAttempt /\ UNCHANGED <<faults, Same>>

(* An error leaves a loop or a switch.                                      *)
Unwinds ==
    /\ Len(stack) > 1 /\ raising /\ ~Continues(Top.of)
    /\ stack' = Pop /\ RestoresAlias
    /\ attempt' = NoAttempt /\ UNCHANGED <<results, raising, faults, Same>>

Starts ==
    /\ phase = "called" /\ phase' = "main" /\ stack' = <<Frame("main", Main, 0, 0, 0)>>
    /\ UNCHANGED <<attempt, raising, alias, failed, results, answer, faults>>

(* A call ends before any step.                                             *)
Finishes ==
    /\ phase = "called" /\ phase' = "answered"
    /\ UNCHANGED <<stack, attempt, raising, alias, failed, results, faults>>

Shape ==
    \/ Stays \/ Advances \/ Enters \/ NextItem \/ Leaves \/ Unwinds
    \/ Starts \/ Finishes \/ PhaseReturns \/ WorkflowAnswers
    \/ UNCHANGED <<stack, attempt, alias, results, raising, faults, Same>>

(* What is at the top.                                                      *)
LEMMA TopIs ==
  ASSUME WellFormed, FrameInv, stack # <<>>
  PROVE  /\ Len(stack) \in Nat \ {0} /\ Top = stack[Len(stack)] /\ Top \in Frames
         /\ Top.at <= Len(Top.steps) => Current \in StepNames
         /\ Len(stack) > 1 => Top.of \in StepNames
<1>1. /\ Len(stack) \in Nat \ {0} /\ Top = stack[Len(stack)] /\ Top \in Frames
  BY FrontIs DEF FrameInv, Top
<1>2. \A i \in 1..Len(stack) : stack[i] \in Frames
  BY <1>1 DEF FrameInv
<1>3. ASSUME NEW f \in Frames, f.at <= Len(f.steps)
      PROVE  f.steps[f.at] \in StepNames
  <2>1. f.at \in 1..Len(f.steps) /\ f.steps \in Seq(StepNames)
    BY <1>3, FrameFields
  <2>. QED BY <2>1
<1>4. ASSUME Len(stack) > 1
      PROVE  Top.of \in StepNames
  <2>1. Len(stack) - 1 \in 1..Len(stack) /\ Len(stack) \in DOMAIN stack
    BY <1>1, <1>4 DEF FrameInv
  <2> DEFINE f == stack[Len(stack) - 1]
  <2>2. f \in Frames /\ f.at <= Len(f.steps) /\ Top.of = f.steps[f.at]
    BY <1>1, <1>2, <1>4, <2>1 DEF FrameInv
  <2>. QED BY <1>3, <2>2
<1>. QED BY <1>1, <1>3, <1>4 DEF Current

LEMMA ShapeIs ==
  ASSUME WellFormed, FrameInv, [Next]_vars
  PROVE  Shape
<1> USE DEF Same
<1>n. NoAttempt \in [step : StepNames \cup {"none"}, number : Nat, decision : Decisions]
  BY DEF NoAttempt, Decisions
<1>r. ASSUME NEW s \in StepNames, NEW x \in {"ok", "error", "skipped"}, NEW m \in Nat, Report(s, x, m)
      PROVE  \E r \in Result : r.name = s /\ results' = Append(results, r)
  <2> DEFINE r == [name |-> s, status |-> x, attempts |-> m]
  <2>1. r \in Result /\ r.name = s /\ results' = Append(results, r)
    BY <1>r DEF Report, Result
  <2>. QED BY <2>1
<1>s. ASSUME AtStep
      PROVE  /\ stack # <<>> /\ ~raising /\ attempt = NoAttempt /\ Top.at <= Len(Top.steps)
             /\ phase \in {"main", "finally"} /\ Current \in StepNames
  BY <1>s, TopIs DEF AtStep, InSteps
<1>a. ASSUME attempt # NoAttempt
      PROVE  /\ stack # <<>> /\ ~raising /\ Top.at <= Len(Top.steps) /\ attempt.step = Current
             /\ phase \in {"main", "finally"} /\ Current \in StepNames /\ attempt.number \in Nat
  BY <1>a, TopIs DEF FrameInv
<1>1. CASE ShellToolExecute \/ HTTPToolExecute
  BY <1>1 DEF ShellToolExecute, HTTPToolExecute, Shape, Finishes
<1>2. CASE WorkflowBegins
  BY <1>2 DEF WorkflowBegins, Shape, Finishes, Starts
<1>3. CASE PhaseReturns \/ WorkflowAnswers
  BY <1>3 DEF Shape
<1>4. CASE StepSkipped
  <2>1. \E r \in Result : r.name = Current /\ results' = Append(results, r)
    BY <1>4, <1>r, <1>s DEF StepSkipped
  <2>2. Advances
    BY <1>4, <1>s, <2>1 DEF StepSkipped, Advances
  <2>. QED BY <2>2 DEF Shape
<1>5. CASE ActionBegins
  <2>1. PICK d \in Decisions : attempt' = [step |-> Current, number |-> 1, decision |-> d]
    BY <1>5 DEF ActionBegins, Decisions
  <2>2. attempt' \in [step : StepNames, number : Nat, decision : Decisions] /\ attempt'.step = Current
    BY <1>5, <1>s, <2>1 DEF ActionBegins
  <2>3. Stays
    BY <1>5, <1>s, <2>2 DEF ActionBegins, Stays
  <2>. QED BY <2>3 DEF Shape
<1>6. CASE ActionRefused
  BY <1>6, <1>a DEF ActionRefused, Shape, Stays
<1>7. CASE ActionSucceeds
  <2>1. CASE Report(attempt.step, "ok", attempt.number) /\ stack' = Advance(stack)
             /\ UNCHANGED <<raising, faults>>
    <3>1. \E r \in Result : r.name = Current /\ results' = Append(results, r)
      BY <1>7, <1>r, <1>a, <2>1 DEF ActionSucceeds, Runs
    <3>2. Advances
      BY <1>7, <1>a, <2>1, <3>1 DEF ActionSucceeds, Runs, Advances
    <3>. QED BY <3>2 DEF Shape
  <2>2. CASE Raise /\ UNCHANGED <<results, stack>>
    BY <1>7, <1>a, <2>2 DEF ActionSucceeds, Runs, Shape, Stays
  <2>. QED BY <1>7, <2>1, <2>2 DEF ActionSucceeds
<1>8. CASE ActionRetried
  <2>1. /\ attempt \in [step : StepNames \cup {"none"}, number : Nat, decision : Decisions]
        /\ attempt' = [attempt EXCEPT !.number = @ + 1]
    BY <1>8 DEF ActionRetried, FrameInv
  <2>2. attempt' \in [step : StepNames, number : Nat, decision : Decisions] /\ attempt'.step = Current
    BY <1>8, <1>a, <2>1 DEF ActionRetried, Runs
  <2>3. Stays
    BY <1>8, <1>a, <2>2 DEF ActionRetried, Runs, Stays
  <2>. QED BY <2>3 DEF Shape
<1>9. CASE ActionFails
  <2>1. CASE Report(attempt.step, "error", attempt.number + 1) /\ stack' = Advance(stack)
             /\ UNCHANGED <<raising, faults>>
    <3>1. \E r \in Result : r.name = Current /\ results' = Append(results, r)
      <4>1. attempt.number + 1 \in Nat /\ attempt.step = Current /\ Current \in StepNames
        BY <1>9, <1>a DEF ActionFails, Runs
      <4>. QED BY <1>r, <2>1, <4>1
    <3>2. Advances
      BY <1>9, <1>a, <2>1, <3>1 DEF ActionFails, Runs, Advances
    <3>. QED BY <3>2 DEF Shape
  <2>2. CASE Raise /\ UNCHANGED <<results, stack>>
    BY <1>9, <1>a, <2>2 DEF ActionFails, Runs, Shape, Stays
  <2>. QED BY <1>9, <2>1, <2>2 DEF ActionFails
<1>10. CASE ForEachFails
  BY <1>10, <1>s DEF ForEachFails, Shape, Stays
<1>11. CASE ForEachBegins
  <2>0. Step[Current].steps \in Seq(StepNames)
    BY <1>11, <1>s DEF ForEachBegins, WellFormed
  <2>1. PICK n \in 0..MaxItems :
           IF n = 0
           THEN Report(Current, "ok", 1) /\ stack' = Advance(stack) /\ UNCHANGED alias
           ELSE /\ stack' = Append(stack, Frame(Current, Step[Current].steps, 1, n, alias[Step[Current].as]))
                /\ SetAlias(Current, 1)
                /\ UNCHANGED results
    BY <1>11 DEF ForEachBegins
  <2>2. CASE n = 0
    <3>1. \E r \in Result : r.name = Current /\ results' = Append(results, r)
      BY <1>11, <1>r, <1>s, <2>1, <2>2 DEF ForEachBegins
    <3>2. Advances
      BY <1>11, <1>s, <2>1, <2>2, <3>1 DEF ForEachBegins, Advances
    <3>. QED BY <3>2 DEF Shape
  <2>3. CASE n # 0
    <3>1. n \in Nat
      BY DEF WellFormed
    <3>2. Enters
      BY <1>11, <1>s, <2>0, <2>1, <2>3, <3>1 DEF ForEachBegins, Enters
    <3>. QED BY <3>2 DEF Shape
  <2>. QED BY <2>2, <2>3
<1>t. ASSUME Len(stack) > 1
      PROVE  stack # <<>> /\ Top.of \in StepNames
  <2>1. stack # <<>>
    BY <1>t
  <2>. QED BY <1>t, <2>1, TopIs
<1>12. CASE ForEachNext
  <2>1. /\ InLoop /\ (raising => Continues(Top.of)) /\ raising' = FALSE /\ Len(stack) > 1
        /\ attempt' = NoAttempt
    BY <1>12 DEF ForEachNext, InLoop, ItemDone, FrameInv
  <2>2. CASE Top.item < Top.items
    BY <1>12, <2>1, <2>2 DEF ForEachNext, NextItem, Shape
  <2>3. CASE ~(Top.item < Top.items)
    <3>1. \E r \in Result : r.name = Top.of /\ results' = Append(results, r)
      BY <1>12, <1>r, <1>t, <2>1, <2>3 DEF ForEachNext
    <3>2. Leaves
      BY <1>12, <2>1, <2>3, <3>1 DEF ForEachNext, Leaves, RestoresAlias, Restored, InLoop
    <3>. QED BY <3>2 DEF Shape
  <2>. QED BY <2>2, <2>3
<1>13. CASE ForEachReturnsError
  BY <1>13 DEF ForEachReturnsError, InLoop, Restored, Shape, Unwinds, RestoresAlias, FrameInv
<1>14. CASE SwitchBegins
  <2>1. PICK selected \in Selectable(Current) :
           stack' = Append(stack, Frame(Current, selected, 0, 0, 0))
    BY <1>14 DEF SwitchBegins
  <2>2. selected \in Seq(StepNames)
    BY <1>14, <1>s, <2>1 DEF SwitchBegins, WellFormed, Selectable
  <2>3. Enters
    BY <1>14, <1>s, <2>1, <2>2 DEF SwitchBegins, Enters
  <2>. QED BY <2>3 DEF Shape
<1>15. CASE SwitchReturns
  <2>1. /\ Len(stack) > 1 /\ Step[Top.of].type = "switch" /\ Top.of \in StepNames
        /\ UNCHANGED <<alias, faults, Same>> /\ RestoresAlias /\ (raising => attempt = NoAttempt)
    BY <1>15, <1>t DEF SwitchReturns, InSwitch, RestoresAlias, FrameInv
  <2>2. CASE raising /\ ~Continues(Top.of)
    BY <1>15, <2>1, <2>2 DEF SwitchReturns, SwitchContains, ItemDone, Unwinds, Shape
  <2>3. CASE ~(raising /\ ~Continues(Top.of))
    <3>1. \E r \in Result : r.name = Top.of /\ results' = Append(results, r)
      BY <1>15, <1>r, <2>1, <2>3 DEF SwitchReturns, SwitchContains
    <3>2. Leaves
      BY <1>15, <2>1, <2>3, <3>1 DEF SwitchReturns, SwitchContains, ItemDone, Leaves, FrameInv
    <3>. QED BY <3>2 DEF Shape
  <2>. QED BY <2>2, <2>3
<1>16. CASE UNCHANGED vars
  BY <1>16 DEF vars, Shape
<1>. QED BY <1>1, <1>2, <1>3, <1>4, <1>5, <1>6, <1>7, <1>8, <1>9, <1>10, <1>11, <1>12, <1>13,
            <1>14, <1>15, <1>16 DEF Next

-----------------------------------------------------------------------------
(* What each shape makes of the stack.                                      *)

LEMMA EntersIs ==
  ASSUME WellFormed, FrameInv, Enters
  PROVE  /\ Current \in StepNames
         /\ \E f \in Frames :
              /\ stack' = Append(stack, f) /\ f.of = Current /\ f.at = 1
              /\ \/ /\ Step[Current].type = "forEach" /\ f.item = 1 /\ Step[Current].as \in Aliases
                    /\ f.saved = alias[Step[Current].as]
                    /\ alias' = [alias EXCEPT ![Step[Current].as] = 1]
                 \/ Step[Current].type = "switch" /\ f.item = 0 /\ alias' = alias
<1>1. Current \in StepNames
  BY TopIs DEF Enters
<1>2. PICK steps \in Seq(StepNames) : \E n \in Nat :
         \/ /\ Step[Current].type = "forEach"
            /\ stack' = Append(stack, Frame(Current, steps, 1, n, alias[Step[Current].as]))
            /\ SetAlias(Current, 1)
         \/ /\ Step[Current].type = "switch"
            /\ stack' = Append(stack, Frame(Current, steps, 0, 0, 0))
            /\ UNCHANGED alias
  BY DEF Enters
<1>3. PICK n \in Nat :
         \/ /\ Step[Current].type = "forEach"
            /\ stack' = Append(stack, Frame(Current, steps, 1, n, alias[Step[Current].as]))
            /\ SetAlias(Current, 1)
         \/ /\ Step[Current].type = "switch"
            /\ stack' = Append(stack, Frame(Current, steps, 0, 0, 0))
            /\ UNCHANGED alias
  BY <1>2
<1>4. CASE /\ Step[Current].type = "forEach"
           /\ stack' = Append(stack, Frame(Current, steps, 1, n, alias[Step[Current].as]))
           /\ SetAlias(Current, 1)
  <2>1. Step[Current].as \in Aliases /\ alias[Step[Current].as] \in Nat
    BY <1>1, <1>4 DEF WellFormed, FrameInv
  <2> DEFINE f == Frame(Current, steps, 1, n, alias[Step[Current].as])
  <2>2. f \in Frames /\ f.of = Current /\ f.at = 1 /\ f.item = 1 /\ f.saved = alias[Step[Current].as]
    BY <1>1, <2>1 DEF Frame, Frames
  <2>3. stack' = Append(stack, f) /\ alias' = [alias EXCEPT ![Step[Current].as] = 1]
    BY <1>4 DEF SetAlias
  <2> HIDE DEF f
  <2>. QED BY <1>1, <1>4, <2>1, <2>2, <2>3
<1>5. CASE /\ Step[Current].type = "switch"
           /\ stack' = Append(stack, Frame(Current, steps, 0, 0, 0))
           /\ UNCHANGED alias
  <2> DEFINE f == Frame(Current, steps, 0, 0, 0)
  <2>1. f \in Frames /\ f.of = Current /\ f.at = 1 /\ f.item = 0
    BY <1>1, FrameIs
  <2>2. stack' = Append(stack, f)
    BY <1>5
  <2> HIDE DEF f
  <2>. QED BY <1>1, <1>5, <2>1, <2>2
<1>. QED BY <1>3, <1>4, <1>5

LEMMA NextItemIs ==
  ASSUME FrameInv, stack # <<>>
  PROVE  LET n == Len(stack)
             t == SetTop([Top EXCEPT !.at = 1, !.item = @ + 1])
         IN  /\ t \in Seq(Frames) /\ Len(t) = n
             /\ \A i \in 1..(n - 1) : t[i] = stack[i]
             /\ t[n].of = Top.of /\ t[n].steps = Top.steps /\ t[n].at = 1
             /\ t[n].item = Top.item + 1 /\ t[n].saved = Top.saved
<1> DEFINE g == [Top EXCEPT !.at = 1, !.item = @ + 1]
<1>1. Top \in Frames /\ stack \in Seq(Frames)
  BY FrontIs DEF FrameInv, Top
<1>2. g = [of |-> Top.of, steps |-> Top.steps, at |-> 1, item |-> Top.item + 1,
           items |-> Top.items, saved |-> Top.saved]
  BY <1>1, Moved
<1>3. /\ g.of = Top.of /\ g.steps = Top.steps /\ g.at = 1
      /\ g.item = Top.item + 1 /\ g.saved = Top.saved
  BY <1>2
<1>4. g \in Frames
  <2>1. /\ Top.of \in StepNames \cup {"main", "finally"} /\ Top.steps \in Seq(StepNames)
        /\ Top.item + 1 \in Nat /\ Top.items \in Nat /\ Top.saved \in Nat
    BY <1>1, FrameFields
  <2> HIDE DEF g
  <2>. QED BY <1>2, <2>1 DEF Frames
<1> HIDE DEF g
<1>5. LET t == Append(Front(stack), g)
      IN  /\ t \in Seq(Frames) /\ Len(t) = Len(stack) /\ t[Len(stack)] = g
          /\ \A i \in 1..(Len(stack) - 1) : t[i] = stack[i]
  BY <1>1, <1>4, ReplacedIs
<1>6. SetTop(g) = Append(Front(stack), g)
  BY DEF SetTop, Pop
<1>. QED BY <1>3, <1>5, <1>6 DEF g

LEMMA UnwindsIs ==
  ASSUME FrameInv, Len(stack) > 1
  PROVE  /\ Len(stack) \in Nat /\ Pop \in Seq(Frames) /\ Len(Pop) = Len(stack) - 1 /\ Pop # <<>>
         /\ \A i \in 1..(Len(stack) - 1) : Pop[i] = stack[i]
<1>1. stack # <<>> /\ stack \in Seq(Frames)
  BY DEF FrameInv
<1>2. /\ Len(stack) \in Nat /\ Pop \in Seq(Frames) /\ Len(Pop) = Len(stack) - 1
      /\ \A i \in 1..(Len(stack) - 1) : Pop[i] = stack[i]
  BY <1>1, FrontIs DEF Pop
<1>. QED BY <1>2

LEMMA LeavesIs ==
  ASSUME FrameInv, Len(stack) > 1
  PROVE  LET n == Len(stack)
             t == Advance(Pop)
         IN  /\ t \in Seq(Frames) /\ Len(t) = n - 1
             /\ \A i \in 1..(n - 2) : t[i] = stack[i]
             /\ LET f == stack[n - 1]
                    g == t[n - 1]
                IN  /\ g.of = f.of /\ g.steps = f.steps /\ g.at = f.at + 1
                    /\ g.item = f.item /\ g.saved = f.saved
<1>1. /\ Len(stack) \in Nat /\ Pop \in Seq(Frames) /\ Len(Pop) = Len(stack) - 1 /\ Pop # <<>>
      /\ \A i \in 1..(Len(stack) - 1) : Pop[i] = stack[i]
  BY UnwindsIs
<1>2. /\ Advance(Pop) \in Seq(Frames) /\ Len(Advance(Pop)) = Len(Pop)
      /\ \A i \in 1..(Len(Pop) - 1) : Advance(Pop)[i] = Pop[i]
      /\ LET f == Pop[Len(Pop)]
             g == Advance(Pop)[Len(Pop)]
         IN  /\ g.of = f.of /\ g.steps = f.steps /\ g.at = f.at + 1
             /\ g.item = f.item /\ g.saved = f.saved
  BY <1>1, AdvanceIs
<1>3. \A i \in 1..(Len(stack) - 2) : i \in 1..(Len(Pop) - 1) /\ i \in 1..(Len(stack) - 1)
  BY <1>1
<1>4. Pop[Len(Pop)] = stack[Len(stack) - 1]
  BY <1>1
<1>. QED BY <1>1, <1>2, <1>3, <1>4

LEMMA OneFrame ==
  ASSUME NEW p \in {"main", "finally"}, NEW steps \in Seq(StepNames)
  PROVE  LET t == <<Frame(p, steps, 0, 0, 0)>>
         IN  t \in Seq(Frames) /\ Len(t) = 1 /\ t # <<>>
             /\ t[1].steps = steps /\ t[1].at = 1 /\ t[1].item = 0
<1> DEFINE f == Frame(p, steps, 0, 0, 0)
<1>1. f \in Frames /\ f.steps = steps /\ f.at = 1 /\ f.item = 0
  BY DEF Frame, Frames
<1> HIDE DEF f
<1>2. <<f>> \in Seq(Frames) /\ Len(<<f>>) = 1 /\ <<f>>[1] = f /\ <<f>> # <<>>
  BY <1>1
<1>. QED BY <1>1, <1>2 DEF f

-----------------------------------------------------------------------------
(* The form of the state.                                                   *)

FrameOK(s, i) ==
    /\ s[i].at <= Len(s[i].steps) + 1
    /\ s[i].item > 0 <=> i > 1 /\ Step[s[i].of].type = "forEach"
    /\ i > 1 => /\ s[i - 1].at <= Len(s[i - 1].steps)
                /\ s[i].of = s[i - 1].steps[s[i - 1].at]

LEMMA StackNext ==
  ASSUME WellFormed, FrameInv, Shape
  PROVE  stack' \in Seq(Frames) /\ \A i \in 1..Len(stack') : FrameOK(stack', i)
<1> DEFINE Goal == stack' \in Seq(Frames) /\ \A i \in 1..Len(stack') : FrameOK(stack', i)
           n == Len(stack)
<1>0. /\ stack \in Seq(Frames) /\ n \in Nat
      /\ \A i \in 1..n : FrameOK(stack, i) /\ stack[i] \in Frames
  <2>1. stack \in Seq(Frames) /\ n \in Nat /\ DOMAIN stack = 1..n
    BY DEF FrameInv
  <2>2. \A i \in 1..n : stack[i] \in Frames
    BY <2>1
  <2>3. ASSUME NEW i \in DOMAIN stack
        PROVE  FrameOK(stack, i)
    BY DEF FrameInv, FrameOK
  <2>. QED BY <2>1, <2>2, <2>3
(* A frame whose neighbour below and itself are as they were.               *)
<1>k. ASSUME NEW i \in 1..n, stack'[i] = stack[i], i > 1 => stack'[i - 1] = stack[i - 1]
      PROVE  FrameOK(stack', i)
  BY <1>0, <1>k DEF FrameOK
<1>1. CASE UNCHANGED stack
  BY <1>0, <1>1
<1>2. CASE Advances
  <2>1. /\ stack # <<>> /\ stack' = Advance(stack) /\ Top = stack[n] /\ n > 0
        /\ Top.at <= Len(Top.steps)
    BY <1>2, TopIs DEF Advances
  <2>2. /\ stack' \in Seq(Frames) /\ Len(stack') = n
        /\ \A i \in 1..(n - 1) : stack'[i] = stack[i]
        /\ stack'[n].of = stack[n].of /\ stack'[n].steps = stack[n].steps
        /\ stack'[n].at = stack[n].at + 1 /\ stack'[n].item = stack[n].item
    BY <1>0, <2>1, AdvanceIs
  <2>3. \A i \in 1..(n - 1) : FrameOK(stack', i)
    BY <1>0, <1>k, <2>2
  <2>4. FrameOK(stack', n)
    <3>1. stack[n].at \in Nat /\ Len(stack[n].steps) \in Nat /\ n \in 1..n
      BY <1>0, <2>1, FrameFields
    <3>2. FrameOK(stack, n) /\ (n > 1 => stack'[n - 1] = stack[n - 1])
      BY <1>0, <2>2, <3>1
    <3>. QED BY <2>1, <2>2, <3>1, <3>2 DEF FrameOK
  <2>. QED BY <1>0, <2>2, <2>3, <2>4
<1>3. CASE Enters
  <2>1. /\ stack # <<>> /\ Top = stack[n] /\ n > 0 /\ Top.at <= Len(Top.steps)
        /\ Current = stack[n].steps[stack[n].at]
    BY <1>3, TopIs DEF Enters, Current
  <2>2. PICK f \in Frames :
          /\ stack' = Append(stack, f) /\ f.of = Current /\ f.at = 1
          /\ \/ Step[Current].type = "forEach" /\ f.item = 1
             \/ Step[Current].type = "switch" /\ f.item = 0
    BY <1>3, EntersIs
  <2>3. /\ stack' \in Seq(Frames) /\ Len(stack') = n + 1 /\ stack'[n + 1] = f
        /\ \A i \in 1..n : stack'[i] = stack[i]
    BY <1>0, <2>2, AppendIs
  <2>4. \A i \in 1..n : FrameOK(stack', i)
    BY <1>0, <1>k, <2>3
  <2>5. FrameOK(stack', n + 1)
    <3>1. stack'[n] = stack[n] /\ n + 1 > 1 /\ (n + 1) - 1 = n
      BY <1>0, <2>1, <2>3
    <3>2. f.item > 0 <=> Step[f.of].type = "forEach"
      BY <2>2
    <3>3. 1 <= Len(f.steps) + 1
      BY FrameFields
    <3>4. stack'[n].at <= Len(stack'[n].steps) /\ f.of = stack'[n].steps[stack'[n].at]
      BY <2>1, <2>2, <3>1
    <3> HIDE DEF n
    <3>. QED BY <2>2, <2>3, <3>1, <3>2, <3>3, <3>4 DEF FrameOK
  <2>. QED BY <1>0, <2>3, <2>4, <2>5
<1>4. CASE NextItem
  <2>1. /\ stack # <<>> /\ n > 1 /\ Top = stack[n] /\ Step[Top.of].type = "forEach"
        /\ stack' = SetTop([Top EXCEPT !.at = 1, !.item = @ + 1])
    <3>1. n > 1 /\ stack # <<>>
      BY <1>0, <1>4 DEF NextItem, InLoop
    <3>. QED BY <1>4, <3>1, TopIs DEF NextItem, InLoop
  <2>2. /\ stack' \in Seq(Frames) /\ Len(stack') = n
        /\ \A i \in 1..(n - 1) : stack'[i] = stack[i]
        /\ stack'[n].of = Top.of /\ stack'[n].steps = Top.steps /\ stack'[n].at = 1
        /\ stack'[n].item = Top.item + 1
    BY <2>1, NextItemIs
  <2>3. \A i \in 1..(n - 1) : FrameOK(stack', i)
    BY <1>0, <1>k, <2>2
  <2>4. FrameOK(stack', n)
    <3>1. Top.item \in Nat /\ Len(Top.steps) \in Nat /\ n \in 1..n
      BY <1>0, <2>1, FrameFields
    <3>2. FrameOK(stack, n) /\ stack'[n - 1] = stack[n - 1]
      BY <1>0, <2>1, <2>2, <3>1
    <3>3. /\ stack'[n].item > 0 /\ stack'[n].of = stack[n].of
          /\ stack'[n].at <= Len(stack'[n].steps) + 1
      BY <2>1, <2>2, <3>1
    <3>. QED BY <2>1, <3>2, <3>3 DEF FrameOK
  <2>. QED BY <1>0, <2>2, <2>3, <2>4
<1>5. CASE Leaves
  <2>1. n > 1 /\ stack' = Advance(Pop)
    BY <1>5 DEF Leaves
  <2>2. /\ stack' \in Seq(Frames) /\ Len(stack') = n - 1
        /\ \A i \in 1..(n - 2) : stack'[i] = stack[i]
        /\ LET f == stack[n - 1]
               g == stack'[n - 1]
           IN  g.of = f.of /\ g.steps = f.steps /\ g.at = f.at + 1 /\ g.item = f.item
    BY <2>1, LeavesIs
  <2>3. \A i \in 1..(n - 2) : FrameOK(stack', i)
    BY <1>0, <1>k, <2>2
  <2>4. FrameOK(stack', n - 1)
    <3>1. n - 1 \in 1..n /\ n \in 1..n
      BY <1>0, <2>1
    <3>2. stack[n - 1].at \in Nat /\ Len(stack[n - 1].steps) \in Nat
      BY <1>0, <3>1, FrameFields
    <3>3. FrameOK(stack, n - 1) /\ stack[n - 1].at <= Len(stack[n - 1].steps)
      BY <1>0, <2>1, <3>1 DEF FrameOK
    <3>4. n - 1 > 1 => stack'[(n - 1) - 1] = stack[(n - 1) - 1]
      BY <1>0, <2>2
    <3> DEFINE f == stack[n - 1]
               g == stack'[n - 1]
    <3>5. g.of = f.of /\ g.steps = f.steps /\ g.at = f.at + 1 /\ g.item = f.item
      BY <2>2
    <3>6. g.at <= Len(g.steps) + 1
      BY <3>2, <3>3, <3>5
    <3>7. g.item > 0 <=> n - 1 > 1 /\ Step[g.of].type = "forEach"
      BY <3>3, <3>5 DEF FrameOK
    <3>8. n - 1 > 1 => /\ stack'[(n - 1) - 1].at <= Len(stack'[(n - 1) - 1].steps)
                       /\ g.of = stack'[(n - 1) - 1].steps[stack'[(n - 1) - 1].at]
      BY <3>3, <3>4, <3>5 DEF FrameOK
    <3>. QED BY <3>6, <3>7, <3>8 DEF FrameOK
  <2>. QED BY <1>0, <2>1, <2>2, <2>3, <2>4
<1>6. CASE Unwinds
  <2>1. /\ n > 1 /\ stack' \in Seq(Frames) /\ Len(stack') = n - 1
        /\ \A i \in 1..(n - 1) : stack'[i] = stack[i]
    BY <1>6, UnwindsIs DEF Unwinds
  <2>2. \A i \in 1..(n - 1) : FrameOK(stack', i)
    BY <1>0, <1>k, <2>1
  <2>. QED BY <2>1, <2>2
<1>7. ASSUME NEW p \in {"main", "finally"}, NEW steps \in Seq(StepNames),
             stack' = <<Frame(p, steps, 0, 0, 0)>>
      PROVE  Goal
  <2>1. /\ stack' \in Seq(Frames) /\ Len(stack') = 1 /\ stack'[1].steps = steps
        /\ stack'[1].at = 1 /\ stack'[1].item = 0
    BY <1>7, OneFrame
  <2>2. FrameOK(stack', 1)
    BY <2>1 DEF FrameOK
  <2>. QED BY <2>1, <2>2
<1>8. CASE Starts
  BY <1>7, <1>8 DEF Starts, WellFormed
<1>9. CASE PhaseReturns
  <2>1. CASE stack' = <<>>
    BY <2>1
  <2>2. CASE stack' = <<Frame("finally", Finally, 0, 0, 0)>>
    BY <1>7, <2>2 DEF WellFormed
  <2>. QED BY <1>9, <2>1, <2>2 DEF PhaseReturns, AfterMain
<1>. QED BY <1>1, <1>2, <1>3, <1>4, <1>5, <1>6, <1>8, <1>9 DEF Shape, Stays, Finishes, WorkflowAnswers

LEMMA FrameNext ==
  ASSUME WellFormed, FrameInv, Shape
  PROVE  FrameInv'
<1> USE DEF Same
<1>1. stack' \in Seq(Frames) /\ \A i \in 1..Len(stack') : FrameOK(stack', i)
  BY StackNext
<1>2. results' \in Seq(Result)
  <2>1. results \in Seq(Result)
    BY DEF FrameInv, Result
  <2>2. results' = results \/ \E r \in Result : results' = Append(results, r)
    BY DEF Shape, Stays, Advances, Enters, NextItem, Leaves, Unwinds, Starts, Finishes,
           PhaseReturns, WorkflowAnswers
  <2>. QED BY <2>1, <2>2, AppendIs
<1>3. attempt' \in [step : StepNames \cup {"none"}, number : Nat, decision : Decisions]
  <2>1. NoAttempt \in [step : StepNames \cup {"none"}, number : Nat, decision : Decisions]
    BY DEF NoAttempt, Decisions
  <2>2. \/ attempt' = attempt \/ attempt' = NoAttempt
        \/ attempt' \in [step : StepNames, number : Nat, decision : Decisions]
    BY DEF Shape, Stays, Advances, Enters, NextItem, Leaves, Unwinds, Starts, Finishes,
           PhaseReturns, WorkflowAnswers
  <2>. QED BY <2>1, <2>2 DEF FrameInv
<1>4. raising' \in BOOLEAN
  BY DEF Shape, Stays, Raise, Advances, Enters, NextItem, Leaves, Unwinds, Starts, Finishes,
         PhaseReturns, WorkflowAnswers, FrameInv
<1>t. stack # <<>> => Top \in Frames /\ Top.item \in Nat /\ Top.saved \in Nat
  BY TopIs, FrameFields
<1>5. alias' \in [Aliases -> Nat]
  <2>1. ASSUME NEW s, NEW v \in Nat, SetAlias(s, v)
        PROVE  alias' \in [Aliases -> Nat]
    BY <2>1 DEF SetAlias, FrameInv
  <2>2. CASE Enters
    BY <2>1, <2>2, 1 \in Nat DEF Enters, FrameInv
  <2>3. CASE NextItem
    <3>1. stack # <<>>
      BY <2>3 DEF NextItem, InLoop
    <3>. QED BY <1>t, <2>1, <2>3, <3>1 DEF NextItem
  <2>4. CASE Leaves \/ Unwinds
    <3>1. stack # <<>>
      BY <2>4 DEF Leaves, Unwinds
    <3>. QED BY <1>t, <2>1, <2>4, <3>1 DEF Leaves, Unwinds, RestoresAlias, FrameInv
  <2>. QED BY <2>2, <2>3, <2>4 DEF Shape, Stays, Advances, Starts, Finishes, PhaseReturns,
                                   WorkflowAnswers, FrameInv
<1>6. stack' # <<>> <=> phase' \in {"main", "finally"}
  <2>1. CASE Advances
    <3>1. stack' # <<>>
      BY <2>1, AdvanceIs DEF Advances, FrameInv
    <3>. QED BY <2>1, <3>1 DEF Advances, FrameInv
  <2>2. CASE Enters
    <3>1. stack' # <<>>
      BY <2>2, EntersIs, AppendIs DEF FrameInv
    <3>. QED BY <2>2, <3>1 DEF Enters, FrameInv
  <2>3. CASE NextItem
    <3>0. stack # <<>>
      BY <2>3 DEF NextItem, InLoop
    <3>1. stack' # <<>>
      BY <2>3, <3>0, NextItemIs DEF NextItem, FrameInv
    <3>. QED BY <2>3, <3>0, <3>1 DEF NextItem, FrameInv
  <2>4. CASE Leaves
    <3>0. stack # <<>>
      BY <2>4 DEF Leaves
    <3>1. stack' # <<>>
      BY <2>4, LeavesIs, UnwindsIs DEF Leaves
    <3>. QED BY <2>4, <3>0, <3>1 DEF Leaves, FrameInv
  <2>5. CASE Unwinds
    <3>0. stack # <<>>
      BY <2>5 DEF Unwinds
    <3>1. stack' # <<>>
      BY <2>5, UnwindsIs DEF Unwinds
    <3>. QED BY <2>5, <3>0, <3>1 DEF Unwinds, FrameInv
  <2>6. CASE Starts
    BY <2>6 DEF Starts
  <2>7. CASE PhaseReturns
    BY <2>7 DEF PhaseReturns, AfterMain
  <2>8. CASE Finishes \/ WorkflowAnswers \/ Stays
             \/ UNCHANGED <<stack, attempt, alias, results, raising, faults, Same>>
    BY <2>8 DEF Finishes, WorkflowAnswers, Stays, FrameInv
  <2>. QED BY <2>1, <2>2, <2>3, <2>4, <2>5, <2>6, <2>7, <2>8 DEF Shape
<1>7. phase' = "called" => results' = <<>>
  BY DEF Shape, Stays, Advances, Enters, NextItem, InLoop, Leaves, Unwinds, Starts, Finishes,
         PhaseReturns, AfterMain, WorkflowAnswers, FrameInv
<1>8. raising' => stack' # <<>> /\ attempt' = NoAttempt
  <2>1. raising' => phase' \in {"main", "finally"}
    BY DEF Shape, Stays, Advances, Enters, NextItem, Leaves, Unwinds, Starts, Finishes,
           PhaseReturns, WorkflowAnswers, FrameInv
  <2>2. raising' => attempt' = NoAttempt
    BY DEF Shape, Stays, Advances, Enters, NextItem, Leaves, Unwinds, Starts, Finishes,
           PhaseReturns, WorkflowAnswers, FrameInv
  <2>. QED BY <1>6, <2>1, <2>2
<1>9. ASSUME attempt' # NoAttempt
      PROVE  /\ stack' # <<>> /\ Top'.at <= Len(Top'.steps)
             /\ attempt'.step = Current'
  <2>1. CASE Stays
    BY <1>9, <2>1 DEF Stays, FrameInv, Top, Current
  <2>2. CASE UNCHANGED <<stack, attempt>>
    BY <1>9, <2>2 DEF FrameInv, Top, Current
  <2>3. CASE PhaseReturns
    <3>1. attempt = NoAttempt /\ attempt' = attempt
      BY <2>3 DEF PhaseReturns, FrameInv
    <3>. QED BY <1>9, <3>1
  <2>4. CASE Starts
    <3>1. attempt = NoAttempt /\ attempt' = attempt
      BY <2>4 DEF Starts, FrameInv
    <3>. QED BY <1>9, <3>1
  <2>. QED BY <1>9, <2>1, <2>2, <2>3, <2>4
           DEF Shape, Advances, Enters, NextItem, Leaves, Unwinds, Finishes, WorkflowAnswers
<1>10. \A i \in DOMAIN stack' : FrameOK(stack', i)
  BY <1>1
<1>. QED BY <1>1, <1>2, <1>3, <1>4, <1>5, <1>6, <1>7, <1>8, <1>9, <1>10 DEF FrameInv, FrameOK, Result

-----------------------------------------------------------------------------
(* Errors.                                                                  *)

LEMMA FaultNext ==
  ASSUME WellFormed, FrameInv, FaultInv, Shape
  PROVE  FaultInv'
<1> USE DEF Same
<1> DEFINE n == Len(stack)
<1>0. /\ stack \in Seq(Frames) /\ n \in Nat /\ DOMAIN stack = 1..n
  BY DEF FrameInv
<1>1. CASE Stays
  <2>1. Contained' = Contained
    BY <1>1 DEF Stays, Contained
  <2>2. faults = failed
    BY <1>1 DEF Stays, FaultInv
  <2>. QED BY <1>1, <2>1, <2>2 DEF Stays, Raise, FaultInv
<1>2. CASE Advances \/ Enters
  BY <1>2 DEF Advances, Enters, FaultInv
<1>3. CASE NextItem \/ Leaves
  <2>1. /\ n > 1 /\ (raising => Continues(Top.of)) /\ raising' = FALSE
        /\ UNCHANGED <<faults, Same>>
    BY <1>3 DEF NextItem, Leaves, InLoop
  <2>2. stack # <<>> /\ Top = stack[n] /\ n \in DOMAIN stack
    <3>1. stack # <<>>
      BY <2>1
    <3>. QED BY <1>0, <2>1, <3>1, TopIs
  <2>3. raising => Contained
    BY <2>1, <2>2 DEF Contained
  <2>4. faults = failed
    BY <2>3 DEF FaultInv
  <2>. QED BY <2>1, <2>4 DEF FaultInv
<1>4. CASE Unwinds
  <2>1. /\ n > 1 /\ raising /\ ~Continues(Top.of) /\ stack' = Pop
        /\ UNCHANGED <<raising, faults, Same>>
    BY <1>4 DEF Unwinds
  <2>2. Top = stack[n]
    <3>1. stack # <<>>
      BY <2>1
    <3>. QED BY <3>1, TopIs
  <2>3. /\ DOMAIN stack' = 1..(n - 1) /\ \A i \in 1..(n - 1) : stack'[i] = stack[i]
    BY <1>0, <2>1, UnwindsIs
  <2>4. Contained' <=> Contained
    <3>1. Contained <=> \E i \in 1..n : i > 1 /\ Continues(stack[i].of)
      BY <1>0 DEF Contained
    <3>2. Contained' <=> \E i \in 1..(n - 1) : i > 1 /\ Continues(stack'[i].of)
      BY <2>3 DEF Contained, Continues
    <3> HIDE DEF n
    <3>3. \A i \in 1..n : i = n \/ i \in 1..(n - 1)
      BY <1>0
    <3>4. \A i \in 1..(n - 1) : i \in 1..n
      BY <1>0
    <3>. QED BY <2>1, <2>2, <2>3, <3>1, <3>2, <3>3, <3>4
  <2>. QED BY <2>1, <2>4 DEF FaultInv
<1>5. CASE Starts \/ Finishes
  <2>1. ~raising
    BY <1>5 DEF Starts, Finishes, FrameInv
  <2>2. failed = {}
    BY <1>5 DEF Starts, Finishes, FaultInv
  <2>3. faults = failed /\ UNCHANGED <<faults, failed, raising>>
    BY <1>5, <2>1 DEF Starts, Finishes, FaultInv
  <2>4. CASE Starts
    BY <2>1, <2>2, <2>3, <2>4 DEF Starts, FaultInv
  <2>5. CASE Finishes
    BY <2>1, <2>2, <2>3, <2>5 DEF Finishes, FaultInv
  <2>. QED BY <1>5, <2>4, <2>5
<1>6. CASE PhaseReturns
  <2>1. ~Contained
    BY <1>0, <1>6 DEF PhaseReturns, Contained
  <2>2. /\ failed' = failed \cup (IF raising THEN {phase} ELSE {}) /\ raising' = FALSE
        /\ faults' = faults /\ phase' \notin {"called", "answered"}
    BY <1>6 DEF PhaseReturns, AfterMain
  <2>. QED BY <2>1, <2>2 DEF FaultInv
<1>7. CASE WorkflowAnswers
  <2>1. ~raising
    BY <1>7 DEF WorkflowAnswers, FrameInv
  <2>2. /\ UNCHANGED <<failed, faults, raising>> /\ (failed # {} => answer' = "error")
        /\ phase' = "answered"
    BY <1>7 DEF WorkflowAnswers
  <2>. QED BY <2>1, <2>2 DEF FaultInv
<1>8. CASE UNCHANGED <<stack, attempt, alias, results, raising, faults, Same>>
  <2>1. Contained' = Contained
    BY <1>8 DEF Contained
  <2>. QED BY <1>8, <2>1 DEF FaultInv
<1>. QED BY <1>1, <1>2, <1>3, <1>4, <1>5, <1>6, <1>7, <1>8 DEF Shape

-----------------------------------------------------------------------------
(* The steps of finally.                                                    *)

NowReported(s) == \E i \in DOMAIN results' : results'[i].name = s

LEMMA ReportedNext ==
  ASSUME FrameInv, NEW r \in Result, results' = Append(results, r)
  PROVE  results' # <<>> /\ NowReported(r.name) /\ \A s : Reported(s) => NowReported(s)
<1>1. results \in Seq(Result)
  BY DEF FrameInv, Result
<1>2. /\ Len(results') = Len(results) + 1 /\ Len(results) \in Nat /\ results' \in Seq(Result)
      /\ results'[Len(results) + 1] = r /\ \A i \in 1..Len(results) : results'[i] = results[i]
  BY <1>1, AppendIs
<1>3. DOMAIN results = 1..Len(results) /\ DOMAIN results' = 1..(Len(results) + 1)
  BY <1>1, <1>2
<1>4. NowReported(r.name)
  BY <1>2, <1>3 DEF Reported, NowReported
<1>5. ASSUME NEW s, Reported(s)
      PROVE  NowReported(s)
  BY <1>2, <1>3, <1>5 DEF Reported, NowReported
<1>6. results' # <<>>
  BY <1>2
<1>. QED BY <1>4, <1>5, <1>6

LEMMA FinallyNext ==
  ASSUME WellFormed, FrameInv, FinallyInv, Shape
  PROVE  FinallyInv'
<1> USE DEF Same
<1> DEFINE n == Len(stack)
           Done == stack[1].steps = Finally /\ \A j \in 1..(stack[1].at - 1) : Reported(Finally[j])
           Kept == \A s : Reported(s) => NowReported(s)
<1>0. stack \in Seq(Frames) /\ n \in Nat /\ \A i \in 1..n : stack[i] \in Frames
  BY DEF FrameInv
<1>k. results' = results => Kept
  BY DEF Reported, NowReported
(* The first frame is as it was.                                            *)
<1>1. ASSUME phase' = phase, stack'[1].steps = stack[1].steps, stack'[1].at <= stack[1].at,
             stack'[1].at \in Nat, stack[1].at \in Nat, phase \in {"main", "finally"}, Kept
      PROVE  FinallyInv'
  <2>1. ASSUME phase' = "finally"
        PROVE  stack'[1].steps = Finally /\ \A j \in 1..(stack'[1].at - 1) : NowReported(Finally[j])
    <3>1. Done
      BY <1>1, <2>1 DEF FinallyInv
    <3>2. \A j \in 1..(stack'[1].at - 1) : j \in 1..(stack[1].at - 1)
      BY <1>1
    <3>. QED BY <1>1, <3>1, <3>2
  <2>. QED BY <1>1, <2>1 DEF FinallyInv, Reported, NowReported
(* The first frame is at its next step, and this one is reported.           *)
<1>2. ASSUME phase' = phase, stack'[1].steps = stack[1].steps, stack'[1].at = stack[1].at + 1,
             stack[1].at \in Nat, phase \in {"main", "finally"}, Kept,
             NowReported(stack[1].steps[stack[1].at])
      PROVE  FinallyInv'
  <2>1. ASSUME phase' = "finally"
        PROVE  stack'[1].steps = Finally /\ \A j \in 1..(stack'[1].at - 1) : NowReported(Finally[j])
    <3>1. Done
      BY <1>2, <2>1 DEF FinallyInv
    <3>2. \A j \in 1..(stack'[1].at - 1) : j = stack[1].at \/ j \in 1..(stack[1].at - 1)
      BY <1>2
    <3>3. NowReported(Finally[stack[1].at]) /\ \A j \in 1..(stack[1].at - 1) : NowReported(Finally[j])
      BY <1>2, <3>1
    <3>. QED BY <1>2, <3>1, <3>2, <3>3
  <2>. QED BY <1>2, <2>1 DEF FinallyInv, Reported, NowReported
<1>f. ASSUME stack # <<>>
      PROVE  /\ n > 0 /\ stack[1].at \in Nat /\ phase \in {"main", "finally"} /\ Top = stack[n]
             /\ stack[1].at >= 1
  <2>1. n > 0
    BY <1>0, <1>f
  <2>2. stack[1] \in Frames
    BY <1>0, <2>1
  <2>3. stack[1].at \in Nat /\ stack[1].at >= 1
    BY <2>2, FrameFields
  <2>4. phase \in {"main", "finally"} /\ Top = stack[n]
    BY <1>f, TopIs DEF FrameInv
  <2>. QED BY <2>1, <2>3, <2>4
<1>3. CASE Stays \/ UNCHANGED <<stack, attempt, alias, results, raising, faults, Same>>
  BY <1>3 DEF Stays, FinallyInv, Reported, NowReported
<1>4. CASE Advances
  <2>1. /\ stack # <<>> /\ stack' = Advance(stack) /\ phase' = phase
    BY <1>4 DEF Advances
  <2>2. PICK r \in Result : r.name = Current /\ results' = Append(results, r)
    BY <1>4 DEF Advances
  <2>3. Kept /\ NowReported(Current)
    <3>1. Kept /\ NowReported(r.name)
      BY <2>2, ReportedNext
    <3>. QED BY <2>2, <3>1
  <2>4. /\ \A i \in 1..(n - 1) : stack'[i] = stack[i]
        /\ stack'[n].steps = stack[n].steps /\ stack'[n].at = stack[n].at + 1
    BY <1>0, <2>1, AdvanceIs
  <2>5. CASE n = 1
    <3>1. Current = stack[1].steps[stack[1].at]
      BY <1>f, <2>1, <2>5 DEF Current
    <3>2. NowReported(stack[1].steps[stack[1].at])
      BY <2>3, <3>1
    <3>. QED BY <1>2, <1>f, <2>1, <2>3, <2>4, <2>5, <3>2
  <2>6. CASE n # 1
    <3>0. 1 \in 1..(n - 1)
      <4>1. n \in Nat /\ n > 0 /\ n # 1
        BY <1>0, <1>f, <2>1, <2>6
      <4> HIDE DEF n
      <4>. QED BY <4>1
    <3>1. stack'[1] = stack[1]
      BY <2>4, <3>0
    <3>. QED BY <1>1, <1>f, <2>1, <2>3, <3>1
  <2>. QED BY <2>5, <2>6
<1>5. CASE Enters
  <2>1. stack # <<>> /\ phase' = phase /\ results' = results
    BY <1>5 DEF Enters
  <2>2. stack'[1] = stack[1]
    BY <1>0, <1>5, <1>f, <2>1, EntersIs, AppendIs
  <2>. QED BY <1>1, <1>f, <1>k, <2>1, <2>2
<1>6. CASE NextItem
  <2>1. /\ stack # <<>> /\ n > 1 /\ phase' = phase /\ results' = results
        /\ stack' = SetTop([Top EXCEPT !.at = 1, !.item = @ + 1])
    BY <1>6 DEF NextItem, InLoop
  <2>2. \A i \in 1..(n - 1) : stack'[i] = stack[i]
    BY <2>1, NextItemIs
  <2>3. stack'[1] = stack[1]
    BY <1>0, <2>1, <2>2
  <2>. QED BY <1>1, <1>f, <1>k, <2>1, <2>3
<1>7. CASE Leaves
  <2>1. n > 1 /\ stack # <<>> /\ stack' = Advance(Pop) /\ phase' = phase
    BY <1>7 DEF Leaves
  <2>2. PICK r \in Result : r.name = Top.of /\ results' = Append(results, r)
    BY <1>7 DEF Leaves
  <2>3. Kept /\ NowReported(r.name)
    BY <2>2, ReportedNext
  <2>4. /\ \A i \in 1..(n - 2) : stack'[i] = stack[i]
        /\ stack'[n - 1].steps = stack[n - 1].steps /\ stack'[n - 1].at = stack[n - 1].at + 1
    BY <2>1, LeavesIs
  <2>5. CASE n = 2
    <3>1. Top.of = stack[1].steps[stack[1].at]
      <4>1. n \in DOMAIN stack /\ n > 1 /\ n - 1 = 1
        BY <1>0, <2>5
      <4>2. stack[n].of = stack[n - 1].steps[stack[n - 1].at]
        BY <4>1 DEF FrameInv
      <4>. QED BY <1>f, <2>1, <4>1, <4>2
    <3>2. NowReported(stack[1].steps[stack[1].at])
      BY <2>2, <2>3, <3>1
    <3>3. stack'[1].steps = stack[1].steps /\ stack'[1].at = stack[1].at + 1
      BY <2>4, <2>5
    <3>. QED BY <1>2, <1>f, <2>1, <2>3, <3>2, <3>3
  <2>6. CASE n # 2
    <3>0. 1 \in 1..(n - 2)
      <4>1. n \in Nat /\ n > 1 /\ n # 2
        BY <1>0, <2>1, <2>6
      <4> HIDE DEF n
      <4>. QED BY <4>1
    <3>1. stack'[1] = stack[1]
      BY <2>4, <3>0
    <3>. QED BY <1>1, <1>f, <2>1, <2>3, <3>1
  <2>. QED BY <2>5, <2>6
<1>8. CASE Unwinds
  <2>1. n > 1 /\ stack # <<>> /\ stack' = Pop /\ phase' = phase /\ results' = results
    BY <1>8 DEF Unwinds
  <2>2. stack'[1] = stack[1]
    BY <1>0, <2>1, UnwindsIs
  <2>. QED BY <1>1, <1>f, <1>k, <2>1, <2>2
<1>9. CASE Starts \/ Finishes
  <2>1. results' = <<>> /\ phase' # "finally" /\ phase' # "checked"
    BY <1>9 DEF Starts, Finishes, FrameInv
  <2>. QED BY <2>1 DEF FinallyInv
<1>10. CASE PhaseReturns
  <2>1. CASE phase = "main"
    <3>1. phase' = "finally" /\ stack' = <<Frame("finally", Finally, 0, 0, 0)>>
      BY <1>10, <2>1 DEF PhaseReturns, AfterMain
    <3>2. stack'[1].steps = Finally /\ stack'[1].at = 1
      BY <3>1, OneFrame DEF WellFormed
    <3>. QED BY <3>1, <3>2 DEF FinallyInv, Reported, NowReported
  <2>2. CASE phase = "finally"
    <3>1. /\ phase' = "checked" /\ results' = results /\ n = 1
          /\ failed' = failed \cup (IF raising THEN {phase} ELSE {})
          /\ raising \/ Top.at > Len(Top.steps)
      BY <1>10, <2>2 DEF PhaseReturns
    <3>2. stack # <<>>
      BY <3>1
    <3>3. ASSUME ~raising, Finally # <<>>
          PROVE  NowReported(Last(Finally))
      <4>1. stack[1].steps = Finally /\ stack[1].at > Len(Finally) /\ Done
        BY <1>f, <2>2, <3>1, <3>2, <3>3 DEF FinallyInv
      <4>2. Len(Finally) \in Nat /\ Len(Finally) >= 1
        BY <3>3 DEF WellFormed
      <4>3. Len(Finally) \in 1..(stack[1].at - 1)
        BY <1>f, <3>2, <4>1, <4>2
      <4>4. Reported(Finally[Len(Finally)])
        BY <4>1, <4>3
      <4>. QED BY <1>k, <3>1, <4>4 DEF Last
    <3>. QED BY <2>2, <3>1, <3>3 DEF FinallyInv, Reported, NowReported
  <2>. QED BY <1>10, <2>1, <2>2 DEF PhaseReturns
<1>11. CASE WorkflowAnswers
  <2>1. phase = "checked" /\ phase' = "answered" /\ UNCHANGED <<failed, results>>
    BY <1>11 DEF WorkflowAnswers
  <2>. QED BY <2>1 DEF FinallyInv, Reported, NowReported
<1>. QED BY <1>3, <1>4, <1>5, <1>6, <1>7, <1>8, <1>9, <1>10, <1>11 DEF Shape

-----------------------------------------------------------------------------
(* The loop variables.                                                      *)

(* Innermost looks only at the items and the steps of the first n frames.   *)
LEMMA InnermostSame ==
  ASSUME NEW s, NEW t, NEW a, NEW n \in Nat, NEW v, Innermost(s, a, n, v),
         \A i \in 1..n : t[i].item = s[i].item /\ t[i].of = s[i].of
  PROVE  Innermost(t, a, n, v)
<1>1. \A i \in 1..n : Loops(t, i, a) <=> Loops(s, i, a)
  BY DEF Loops
<1>2. CASE v = 0 /\ \A i \in 1..n : ~Loops(s, i, a)
  BY <1>1, <1>2 DEF Innermost
<1>3. ASSUME NEW i \in 1..n, Loops(s, i, a), v = s[i].item, \A j \in (i + 1)..n : ~Loops(s, j, a)
      PROVE  Innermost(t, a, n, v)
  <2>1. Loops(t, i, a) /\ v = t[i].item
    BY <1>1, <1>3
  <2>2. \A j \in (i + 1)..n : ~Loops(t, j, a)
    BY <1>1, <1>3
  <2>. QED BY <2>1, <2>2 DEF Innermost
<1>. QED BY <1>2, <1>3 DEF Innermost

(* A last frame that is no loop over a counts for nothing.                  *)
LEMMA InnermostLess ==
  ASSUME NEW s, NEW a, NEW n \in Nat, NEW v, ~Loops(s, n + 1, a)
  PROVE  Innermost(s, a, n + 1, v) <=> Innermost(s, a, n, v)
<1>1. \A i \in 1..(n + 1) : i \in 1..n \/ i = n + 1
  OBVIOUS
<1>2. \A i \in 1..n : i \in 1..(n + 1)
  OBVIOUS
<1>3. (\A i \in 1..(n + 1) : ~Loops(s, i, a)) <=> \A i \in 1..n : ~Loops(s, i, a)
  BY <1>1, <1>2
<1>4. ASSUME NEW i \in 1..n
      PROVE  (\A j \in (i + 1)..(n + 1) : ~Loops(s, j, a)) <=> \A j \in (i + 1)..n : ~Loops(s, j, a)
  <2>1. \A j \in (i + 1)..(n + 1) : j \in (i + 1)..n \/ j = n + 1
    OBVIOUS
  <2>2. \A j \in (i + 1)..n : j \in (i + 1)..(n + 1)
    OBVIOUS
  <2>. QED BY <2>1, <2>2
<1>. QED BY <1>1, <1>2, <1>3, <1>4 DEF Innermost

(* A last frame that is a loop over a decides.                              *)
LEMMA InnermostTop ==
  ASSUME NEW s, NEW a, NEW n \in Nat \ {0}, Loops(s, n, a)
  PROVE  Innermost(s, a, n, s[n].item)
<1>1. n \in 1..n /\ (n + 1)..n = {}
  OBVIOUS
<1>. QED BY <1>1 DEF Innermost

LEMMA ScopeNext ==
  ASSUME WellFormed, FrameInv, ScopeInv, Shape
  PROVE  ScopeInv'
<1> USE DEF Same
<1> DEFINE n == Len(stack)
           m == Len(stack')
           Saved(i) == stack'[i].item > 0 =>
                          Innermost(stack', Step[stack'[i].of].as, i - 1, stack'[i].saved)
<1>0. /\ stack \in Seq(Frames) /\ n \in Nat /\ alias \in [Aliases -> Nat]
      /\ \A i \in 1..n : stack[i] \in Frames
      /\ stack' \in Seq(Frames) /\ m \in Nat /\ DOMAIN stack' = 1..m
  BY StackNext DEF FrameInv
<1>s. SUFFICES /\ \A a \in Aliases : Innermost(stack', a, m, alias'[a])
               /\ \A i \in 1..m : Saved(i)
  BY <1>0 DEF ScopeInv
<1>a. ASSUME NEW a \in Aliases
      PROVE  Innermost(stack, a, n, alias[a])
  BY DEF ScopeInv
<1>v. ASSUME NEW i \in 1..n, stack[i].item > 0
      PROVE  Innermost(stack, Step[stack[i].of].as, i - 1, stack[i].saved)
  BY <1>0, <1>v DEF ScopeInv
(* Saved values of the frames whose items and steps below are as they were. *)
<1>k. ASSUME NEW i \in 1..n, stack'[i].item > 0 => stack[i].item > 0,
             stack'[i].of = stack[i].of, stack'[i].saved = stack[i].saved,
             \A j \in 1..(i - 1) : stack'[j].item = stack[j].item /\ stack'[j].of = stack[j].of
      PROVE  Saved(i)
  <2>1. i - 1 \in Nat
    BY <1>0
  <2>. QED BY <1>k, <1>v, <2>1, InnermostSame
<1> HIDE DEF Saved
<1>t. ASSUME stack # <<>>
      PROVE  n > 0 /\ Top = stack[n] /\ Top \in Frames
  BY <1>t, TopIs
(* The same frames, at other steps.                                         *)
<1>1. ASSUME m = n, alias' = alias,
             \A i \in 1..n : /\ stack'[i].item = stack[i].item /\ stack'[i].of = stack[i].of
                             /\ stack'[i].saved = stack[i].saved
      PROVE  /\ \A a \in Aliases : Innermost(stack', a, m, alias'[a])
             /\ \A i \in 1..m : Saved(i)
  <2>1. \A a \in Aliases : Innermost(stack', a, m, alias'[a])
    BY <1>0, <1>1, <1>a, InnermostSame
  <2>2. \A i \in 1..n : \A j \in 1..(i - 1) : j \in 1..n
    BY <1>0
  <2>3. \A i \in 1..n : Saved(i)
    BY <1>1, <1>k, <2>2
  <2>. QED BY <1>1, <2>1, <2>3
<1>2. CASE UNCHANGED <<stack, alias>>
  BY <1>1, <1>2
<1>3. CASE Advances
  <2>1. stack # <<>> /\ stack' = Advance(stack) /\ alias' = alias
    BY <1>3 DEF Advances
  <2>2. /\ m = n /\ n > 0
        /\ \A i \in 1..(n - 1) : stack'[i] = stack[i]
        /\ stack'[n].of = stack[n].of /\ stack'[n].item = stack[n].item
        /\ stack'[n].saved = stack[n].saved
    BY <1>0, <2>1, AdvanceIs
  <2>3. \A i \in 1..n : i \in 1..(n - 1) \/ i = n
    BY <1>0
  <2>. QED BY <1>1, <2>1, <2>2, <2>3
<1>4. CASE Enters
  <2>1. stack # <<>> /\ Current \in StepNames
    BY <1>4, EntersIs DEF Enters
  <2>2. PICK f \in Frames :
          /\ stack' = Append(stack, f) /\ f.of = Current
          /\ \/ /\ Step[Current].type = "forEach" /\ f.item = 1 /\ Step[Current].as \in Aliases
                /\ f.saved = alias[Step[Current].as]
                /\ alias' = [alias EXCEPT ![Step[Current].as] = 1]
             \/ Step[Current].type = "switch" /\ f.item = 0 /\ alias' = alias
    BY <1>4, EntersIs
  <2>3. m = n + 1 /\ stack'[n + 1] = f /\ \A i \in 1..n : stack'[i] = stack[i]
    BY <1>0, <2>2, AppendIs
  <2>4. ASSUME NEW a, NEW v, Innermost(stack, a, n, v)
        PROVE  Innermost(stack', a, n, v)
    BY <1>0, <2>3, <2>4, InnermostSame
  <2>5. \A i \in 1..n : Saved(i)
    <3>1. \A i \in 1..n : \A j \in 1..(i - 1) : j \in 1..n
      BY <1>0
    <3>. QED BY <1>k, <2>3, <3>1
  <2>6. CASE Step[Current].type = "switch" /\ f.item = 0 /\ alias' = alias
    <3>1. \A a : ~Loops(stack', n + 1, a)
      BY <2>3, <2>6 DEF Loops
    <3>2. \A a \in Aliases : Innermost(stack', a, n + 1, alias'[a])
      BY <1>0, <1>a, <2>4, <2>6, <3>1, InnermostLess
    <3>3. Saved(n + 1)
      BY <2>3, <2>6 DEF Saved
    <3>. QED BY <1>0, <2>3, <2>5, <3>2, <3>3
  <2>7. CASE /\ Step[Current].type = "forEach" /\ f.item = 1 /\ Step[Current].as \in Aliases
             /\ f.saved = alias[Step[Current].as]
             /\ alias' = [alias EXCEPT ![Step[Current].as] = 1]
    <3> DEFINE b == Step[Current].as
    <3>0. b \in Aliases /\ f.saved = alias[b] /\ alias' = [alias EXCEPT ![b] = 1] /\ Step[f.of].as = b
      BY <2>2, <2>7
    <3> HIDE DEF b
    <3>1. \A a : Loops(stack', n + 1, a) <=> a = b
      BY <2>3, <2>7, <3>0 DEF Loops
    <3>2. ASSUME NEW a \in Aliases
          PROVE  Innermost(stack', a, n + 1, alias'[a])
      <4>1. CASE a = b
        <5>1. alias'[a] = stack'[n + 1].item /\ n + 1 \in Nat \ {0}
          BY <1>0, <2>3, <2>7, <3>0, <4>1
        <5>. QED BY <3>1, <4>1, <5>1, InnermostTop
      <4>2. CASE a # b
        <5>1. alias'[a] = alias[a] /\ ~Loops(stack', n + 1, a)
          BY <1>0, <3>0, <3>1, <4>2
        <5>2. Innermost(stack', a, n, alias[a])
          BY <1>a, <2>4
        <5>. QED BY <1>0, <5>1, <5>2, InnermostLess
      <4>. QED BY <4>1, <4>2
    <3>3. Saved(n + 1)
      <4>1. Innermost(stack', b, n, alias[b])
        BY <1>a, <2>4, <3>0
      <4>2. (n + 1) - 1 = n
        BY <1>0
      <4>. QED BY <2>3, <3>0, <4>1, <4>2 DEF Saved
    <3>. QED BY <1>0, <2>3, <2>5, <3>2, <3>3
  <2>. QED BY <2>2, <2>6, <2>7
<1>5. CASE NextItem
  <2>1. /\ stack # <<>> /\ n > 1 /\ Step[Top.of].type = "forEach"
        /\ stack' = SetTop([Top EXCEPT !.at = 1, !.item = @ + 1])
        /\ alias' = [alias EXCEPT ![Step[Top.of].as] = Top.item + 1]
    BY <1>5 DEF NextItem, InLoop, SetAlias
  <2>2. /\ m = n /\ \A i \in 1..(n - 1) : stack'[i] = stack[i]
        /\ stack'[n].of = Top.of /\ stack'[n].item = Top.item + 1 /\ stack'[n].saved = Top.saved
    BY <2>1, NextItemIs
  <2> DEFINE b == Step[Top.of].as
  <2>3. b \in Aliases /\ Top.item \in Nat /\ Top = stack[n]
    BY <1>t, <2>1, TopIs, FrameFields DEF WellFormed
  <2>4. alias' = [alias EXCEPT ![b] = Top.item + 1] /\ Step[stack'[n].of].as = b /\ Step[stack[n].of].as = b
    BY <2>1, <2>2, <2>3
  <2>5. stack[n].item > 0
    <3>1. n \in DOMAIN stack /\ n > 1 /\ Step[stack[n].of].type = "forEach"
      BY <1>0, <2>1, <2>3
    <3>. QED BY <3>1 DEF FrameInv
  <2> HIDE DEF b
  <2>6. \A a : (Loops(stack', n, a) <=> a = b) /\ (Loops(stack, n, a) <=> a = b)
    BY <2>2, <2>3, <2>4, <2>5 DEF Loops
  <2>7. n - 1 \in Nat /\ n \in Nat \ {0} /\ (n - 1) + 1 = n
    BY <1>0, <2>1
  <2>8. ASSUME NEW a \in Aliases
        PROVE  Innermost(stack', a, n, alias'[a])
    <3>1. CASE a = b
      <4>1. alias'[a] = stack'[n].item
        BY <1>0, <2>2, <2>3, <2>4, <3>1
      <4>. QED BY <2>6, <2>7, <3>1, <4>1, InnermostTop
    <3>2. CASE a # b
      <4>0. alias'[a] = alias[a]
        <5>1. alias \in [Aliases -> Nat] /\ alias' = [alias EXCEPT ![b] = Top.item + 1]
          BY <1>0, <2>4
        <5>. QED BY <3>2, <5>1
      <4>1. alias'[a] = alias[a] /\ ~Loops(stack', n, a) /\ ~Loops(stack, n, a)
        BY <2>6, <3>2, <4>0
      <4>2. Innermost(stack, a, n - 1, alias[a])
        <5>1. ~Loops(stack, (n - 1) + 1, a) /\ Innermost(stack, a, (n - 1) + 1, alias[a])
          BY <1>a, <2>7, <4>1
        <5>. QED BY <2>7, <5>1, InnermostLess
      <4>3. Innermost(stack', a, n - 1, alias[a])
        BY <2>2, <2>7, <4>2, InnermostSame
      <4>4. ~Loops(stack', (n - 1) + 1, a)
        BY <2>7, <4>1
      <4>5. Innermost(stack', a, (n - 1) + 1, alias[a])
        BY <2>7, <4>3, <4>4, InnermostLess
      <4>. QED BY <2>7, <4>1, <4>5
    <3>. QED BY <3>1, <3>2
  <2>9. \A i \in 1..n : Saved(i)
    <3>1. ASSUME NEW i \in 1..n
          PROVE  Saved(i)
      <4>1. \A j \in 1..(i - 1) : stack'[j] = stack[j]
        BY <2>2, <2>7
      <4>2. /\ stack'[i].item > 0 => stack[i].item > 0
            /\ stack'[i].of = stack[i].of /\ stack'[i].saved = stack[i].saved
        <5>1. CASE i = n
          BY <2>2, <2>3, <2>5, <5>1
        <5>2. CASE i # n
          <6>1. i \in 1..(n - 1)
            <7>1. n \in Nat /\ i \in 1..n /\ i # n
              BY <2>7, <5>2
            <7> HIDE DEF n
            <7>. QED BY <7>1
          <6>. QED BY <2>2, <6>1
        <5>. QED BY <5>1, <5>2
      <4>. QED BY <1>k, <4>1, <4>2
    <3>. QED BY <3>1
  <2>. QED BY <2>2, <2>8, <2>9
(* A frame is left, and its loop variable restored.                         *)
<1>6. ASSUME n > 1, RestoresAlias, m = n - 1,
             \A i \in 1..(n - 1) : /\ stack'[i].item = stack[i].item /\ stack'[i].of = stack[i].of
                                   /\ stack'[i].saved = stack[i].saved
      PROVE  /\ \A a \in Aliases : Innermost(stack', a, m, alias'[a])
             /\ \A i \in 1..m : Saved(i)
  <2>1. stack # <<>> /\ Top = stack[n] /\ Top.of \in StepNames /\ Top \in Frames
    <3>1. stack # <<>>
      BY <1>6
    <3>. QED BY <1>6, <3>1, TopIs
  <2>2. n - 1 \in Nat /\ n \in 1..n /\ (n - 1) + 1 = n
    BY <1>0, <1>6
  <2>3. ASSUME NEW a, NEW v, Innermost(stack, a, n - 1, v)
        PROVE  Innermost(stack', a, n - 1, v)
    BY <1>6, <2>2, <2>3, InnermostSame
  <2>4. \A i \in 1..(n - 1) : Saved(i)
    <3>1. \A i \in 1..(n - 1) : i \in 1..n /\ \A j \in 1..(i - 1) : j \in 1..(n - 1)
      BY <1>0
    <3>. QED BY <1>6, <1>k, <3>1
  <2>5. Top.item > 0 <=> Step[Top.of].type = "forEach"
    BY <1>0, <1>6, <2>1, <2>2 DEF FrameInv
  <2>6. ASSUME NEW a \in Aliases
        PROVE  Innermost(stack', a, n - 1, alias'[a])
    <3>1. CASE Step[Top.of].type = "forEach" /\ a = Step[Top.of].as
      <4>1. alias'[a] = Top.saved
        BY <1>0, <1>6, <3>1 DEF RestoresAlias, SetAlias
      <4>2. Innermost(stack, a, n - 1, Top.saved)
        BY <1>v, <2>1, <2>2, <2>5, <3>1
      <4>. QED BY <2>3, <4>1, <4>2
    <3>2. CASE ~(Step[Top.of].type = "forEach" /\ a = Step[Top.of].as)
      <4>1. alias'[a] = alias[a]
        BY <1>0, <1>6, <3>2 DEF RestoresAlias, SetAlias
      <4>2. ~Loops(stack, n, a)
        BY <2>1, <2>5, <3>2 DEF Loops
      <4>3. Innermost(stack, a, n - 1, alias[a])
        BY <1>a, <2>2, <4>2, InnermostLess
      <4>. QED BY <2>3, <4>1, <4>3
    <3>. QED BY <3>1, <3>2
  <2>. QED BY <1>6, <2>4, <2>6
<1>7. CASE Leaves
  <2>1. n > 1 /\ RestoresAlias /\ stack' = Advance(Pop)
    BY <1>7 DEF Leaves
  <2>2. /\ m = n - 1 /\ \A i \in 1..(n - 2) : stack'[i] = stack[i]
        /\ stack'[n - 1].of = stack[n - 1].of /\ stack'[n - 1].item = stack[n - 1].item
        /\ stack'[n - 1].saved = stack[n - 1].saved
    BY <2>1, LeavesIs
  <2>3. \A i \in 1..(n - 1) : i \in 1..(n - 2) \/ i = n - 1
    BY <1>0
  <2>. QED BY <1>6, <2>1, <2>2, <2>3
<1>8. CASE Unwinds
  <2>1. n > 1 /\ RestoresAlias /\ stack' = Pop
    BY <1>8 DEF Unwinds
  <2>2. m = n - 1 /\ \A i \in 1..(n - 1) : stack'[i] = stack[i]
    BY <2>1, UnwindsIs
  <2>. QED BY <1>6, <2>1, <2>2
(* A phase begins or ends: no loop is open.                                 *)
<1>9. CASE Starts \/ PhaseReturns
  <2>1. n = 0 \/ n = 1
    BY <1>0, <1>9 DEF Starts, PhaseReturns, FrameInv
  <2>2. \A i \in 1..n : stack[i].item = 0
    <3>1. ASSUME NEW i \in 1..n
          PROVE  stack[i].item = 0
      <4>1. i = 1 /\ i \in DOMAIN stack /\ stack[i] \in Frames
        BY <1>0, <2>1
      <4>2. stack[i].item \in Nat
        BY <4>1, FrameFields
      <4>. QED BY <4>1, <4>2 DEF FrameInv
    <3>. QED BY <3>1
  <2>3. ASSUME NEW a \in Aliases
        PROVE  alias[a] = 0
    <3>1. \A i \in 1..n : ~Loops(stack, i, a)
      BY <2>2 DEF Loops
    <3>. QED BY <1>a, <3>1 DEF Innermost
  <2>4. alias' = alias
    BY <1>9 DEF Starts, PhaseReturns
  <2>5. m \in {0, 1} /\ \A i \in 1..m : stack'[i].item = 0
    <3>1. CASE stack' = <<>>
      BY <3>1
    <3>2. ASSUME NEW p \in {"main", "finally"}, NEW steps \in Seq(StepNames),
                 stack' = <<Frame(p, steps, 0, 0, 0)>>
          PROVE  m \in {0, 1} /\ \A i \in 1..m : stack'[i].item = 0
      <4>1. m = 1 /\ stack'[1].item = 0
        BY <3>2, OneFrame
      <4>. QED BY <4>1
    <3>. QED BY <1>9, <3>1, <3>2 DEF Starts, PhaseReturns, AfterMain, WellFormed
  <2>6. \A a : \A i \in 1..m : ~Loops(stack', i, a)
    BY <2>5 DEF Loops
  <2>7. \A a \in Aliases : Innermost(stack', a, m, alias'[a])
    BY <2>3, <2>4, <2>6 DEF Innermost
  <2>8. \A i \in 1..m : Saved(i)
    BY <2>5 DEF Saved
  <2>. QED BY <2>7, <2>8
<1>. QED BY <1>2, <1>3, <1>4, <1>5, <1>7, <1>8, <1>9 DEF Shape, Stays, Finishes, WorkflowAnswers

-----------------------------------------------------------------------------
(* The theorems.                                                            *)

FlowInv == FrameInv /\ FaultInv /\ FinallyInv /\ ScopeInv

LEMMA FlowInit ==
  ASSUME WellFormed, Init
  PROVE  FlowInv
<1>1. stack = <<>> /\ Len(stack) = 0 /\ DOMAIN stack = {} /\ 1..0 = {}
  BY DEF Init
<1>2. FrameInv
  <2>1. NoAttempt \in [step : StepNames \cup {"none"}, number : Nat, decision : Decisions]
    BY DEF NoAttempt, Decisions
  <2>2. <<>> \in Seq(Frames) /\ <<>> \in Seq(Result)
    OBVIOUS
  <2>. QED BY <1>1, <2>1, <2>2 DEF Init, FrameInv, Result
<1>3. FaultInv /\ FinallyInv
  BY DEF Init, FaultInv, FinallyInv
<1>4. ScopeInv
  BY <1>1 DEF Init, ScopeInv, Innermost
<1>. QED BY <1>2, <1>3, <1>4 DEF FlowInv

LEMMA FlowNext ==
  ASSUME WellFormed, FlowInv, [Next]_vars
  PROVE  FlowInv'
<1>1. Shape
  BY ShapeIs DEF FlowInv
<1>2. FrameInv'
  BY <1>1, FrameNext DEF FlowInv
<1>3. FaultInv'
  BY <1>1, FaultNext DEF FlowInv
<1>4. FinallyInv'
  BY <1>1, FinallyNext DEF FlowInv
<1>5. ScopeInv'
  BY <1>1, ScopeNext DEF FlowInv
<1>. QED BY <1>2, <1>3, <1>4, <1>5 DEF FlowInv

LEMMA FlowCorrect ==
  ASSUME WellFormed
  PROVE  Spec => []FlowInv
<1>1. Init => FlowInv
  BY FlowInit
<1>2. FlowInv /\ [Next]_vars => FlowInv'
  BY FlowNext
<1>. QED BY <1>1, <1>2, PTL DEF Spec

(* enforceWorkflowSkillShellActionPolicy, ShellTool: in no workflow, nor in *)
(* a tool of one command, is a command that needs the approval of a user    *)
(* run without it.                                                          *)
THEOREM NoUnapprovedCorrect == Spec => []NoUnapprovedCommand
<1>1. Init => NoUnapprovedCommand
  BY DEF Init, NoUnapprovedCommand
<1>2. ASSUME NoUnapprovedCommand, [Next]_vars
      PROVE  NoUnapprovedCommand'
  <2>1. CASE ShellToolExecute
    <3>1. PICK d \in Decisions : \E allowed \in BOOLEAN :
             /\ approved' = (d = "approve" /\ allowed)
             /\ ran' = IF Admin /\ d # "deny" /\ (d = "approve" => allowed) THEN {d} ELSE {}
      BY <2>1 DEF ShellToolExecute
    <3>. QED BY <3>1 DEF NoUnapprovedCommand, Decisions
  <2>2. CASE UNCHANGED approved /\ (ran' = ran \/ ran' = ran \cup {"allow"})
    BY <1>2, <2>2 DEF NoUnapprovedCommand
  <2>3. Runs => ran' = ran \/ ran' = ran \cup {"allow"}
    BY DEF Runs, ExecuteShellAction, ExecuteHttpAction, Permitted
  <2>. QED BY <1>2, <2>1, <2>2, <2>3
           DEF Next, vars, HTTPToolExecute, WorkflowBegins, PhaseReturns, WorkflowAnswers, StepSkipped,
               ActionBegins, ActionRefused, ActionSucceeds, ActionRetried, ActionFails, ForEachFails,
               ForEachBegins, ForEachNext, ForEachReturnsError, SwitchBegins, SwitchReturns
<1>. QED BY <1>1, <1>2, PTL DEF Spec

(* Execute of WorkflowTool: a workflow fails by its steps exactly when an   *)
(* error was raised that no enclosing step contains, and runs the steps of  *)
(* finally in either case.                                                  *)
THEOREM ErrorsContainedCorrect ==
  ASSUME WellFormed
  PROVE  Spec => []ErrorsContained
<1>1. FlowInv => ErrorsContained
  <2>1. SUFFICES ASSUME FrameInv, FaultInv, FinallyInv, phase \in {"checked", "answered"}, results # <<>>
                 PROVE  /\ failed = faults
                        /\ phase = "answered" /\ faults # {} => answer = "error"
                        /\ Finally # <<>> => "finally" \in faults \/ Reported(Last(Finally))
    BY DEF FlowInv, ErrorsContained, Reported
  <2>2. ~raising
    BY <2>1 DEF FrameInv
  <2>3. failed = faults
    BY <2>1, <2>2 DEF FaultInv
  <2>. QED BY <2>1, <2>3 DEF FaultInv, FinallyInv
<1>. QED BY <1>1, FlowCorrect, PTL

(* executeForEachStep: a loop variable has the item of the innermost open   *)
(* loop over it and nothing outside of one, however loops that share a name *)
(* nest and however errors leave them.                                      *)
THEOREM LoopVariableCorrect ==
  ASSUME WellFormed
  PROVE  Spec => []LoopVariableScoped
<1>1. FlowInv => LoopVariableScoped
  <2>1. SUFFICES ASSUME FrameInv, ScopeInv, NEW a \in Aliases
                 PROVE  LET open == {i \in DOMAIN stack : stack[i].item > 0 /\ Step[stack[i].of].as = a}
                        IN  IF open = {} THEN alias[a] = 0
                            ELSE LET i == CHOOSE j \in open : \A k \in open : k <= j
                                 IN  alias[a] = stack[i].item
    BY DEF FlowInv, LoopVariableScoped
  <2> DEFINE n == Len(stack)
             open == {i \in DOMAIN stack : stack[i].item > 0 /\ Step[stack[i].of].as = a}
  <2>2. n \in Nat /\ DOMAIN stack = 1..n
    BY <2>1 DEF FrameInv
  <2>3. open = {i \in 1..n : Loops(stack, i, a)}
    BY <2>2 DEF Loops
  <2>4. Innermost(stack, a, n, alias[a])
    BY <2>1 DEF ScopeInv
  <2> HIDE DEF open, n
  <2>5. CASE alias[a] = 0 /\ \A i \in 1..n : ~Loops(stack, i, a)
    <3>1. open = {}
      BY <2>3, <2>5
    <3>. QED BY <2>5, <3>1 DEF open
  <2>6. ASSUME NEW i \in 1..n, Loops(stack, i, a), alias[a] = stack[i].item,
               \A j \in (i + 1)..n : ~Loops(stack, j, a)
        PROVE  open # {} /\ alias[a] = stack[CHOOSE j \in open : \A k \in open : k <= j].item
    <3>1. i \in open
      BY <2>3, <2>6
    <3>2. \A k \in open : k <= i /\ k \in 1..n
      BY <2>2, <2>3, <2>6
    <3> DEFINE c == CHOOSE j \in open : \A k \in open : k <= j
    <3>3. c \in open /\ \A k \in open : k <= c
      BY <3>1, <3>2
    <3> HIDE DEF c
    <3>4. c = i
      BY <2>2, <3>1, <3>2, <3>3
    <3>. QED BY <2>6, <3>1, <3>4 DEF c
  <2>. QED BY <2>4, <2>5, <2>6 DEF Innermost, open
<1>. QED BY <1>1, FlowCorrect, PTL

(* Execute of WorkflowTool, with both: however loops and switches nest and  *)
(* whatever fails in them, errors and loop variables keep to their scopes.  *)
THEOREM ScopesKeptCorrect ==
  ASSUME WellFormed
  PROVE  Spec => []ScopesKept
<1>1. ErrorsContained /\ LoopVariableScoped => ScopesKept
  BY DEF ScopesKept
<1>. QED BY <1>1, ErrorsContainedCorrect, LoopVariableCorrect, PTL
=============================================================================
