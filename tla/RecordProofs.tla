---------------------------- MODULE RecordProofs ----------------------------
(* Proofs about the records, for any number of callers.                     *)
EXTENDS Records, FiniteSetTheorems, SequenceTheorems, WellFoundedInduction, TLAPS

-----------------------------------------------------------------------------
(* In the file store the configuration of the node implements               *)
(* AtomicSettings, for any number of writers and any fields.  The proof     *)
(* maps every step of the store to a step of the abstract specification, or *)
(* to none: a request asks, the rename grants, a failure refuses, and the   *)
(* lock and the read of the file are invisible.  What carries it is the     *)
(* mutex: who holds it is alone with the file, so that what it has read is  *)
(* still what is saved when it writes.                                      *)
Patches == {Patch(f, v) : f \in Fields, v \in Values \cup {Unset}}

(* The states of a writer.                                                  *)
Modifying == [pc : {"modify", "locked"}, patch : Patches]
Writing == [pc : {"write"}, patch : Patches, data : [Fields -> Values \cup {Unset}]]
States == {Idle} \cup Modifying \cup Writing

SettingsTypes ==
    /\ saved \in [Fields -> Values \cup {Unset}]
    /\ writer \in [Writers -> States]
    /\ answer \in [Writers -> {"none", "ok", "error"}]

(* Nothing is saved of a field without a place in the file.                 *)
FileFieldsOnly == \A f \in Fields \ FileFields : saved[f] = Unset

HolderIsAlone == \A w \in Writers : writer[w].pc \in {"locked", "write"} => mutex = {w}

ReadIsCurrent ==
    \A w \in Writers : writer[w].pc = "write" => writer[w].data = Patched(writer[w].patch, saved)

RefinementInv == SettingsTypes /\ FileFieldsOnly /\ HolderIsAlone /\ ReadIsCurrent

Nothing == [f \in {} |-> Unset]

LEMMA PatchedType ==
  ASSUME NEW p \in Patches, NEW s \in [Fields -> Values \cup {Unset}]
  PROVE  Patched(p, s) \in [Fields -> Values \cup {Unset}]
<1>1. PICK f \in Fields, v \in Values \cup {Unset} : p = Patch(f, v)
  BY DEF Patches
<1>2. DOMAIN p = {f} /\ p[f] = v
  BY <1>1 DEF Patch
<1>. QED BY <1>2 DEF Patched

(* The abstract specification has the same patches.                         *)
LEMMA SamePatches == \A p \in Patches : p \in Atomic!Patches
<1>1. ASSUME NEW p \in Patches
      PROVE  p \in Atomic!Patches
  <2>1. PICK f \in Fields, v \in Values \cup {Unset} : p = [x \in {f} |-> v]
    BY <1>1 DEF Patches, Patch
  <2>. QED BY <2>1 DEF Atomic!Patches, Atomic!Unset, Unset
<1>. QED BY <1>1

(* A patch is not nothing.                                                  *)
LEMMA PatchIsSomething ==
  ASSUME NEW p \in Patches
  PROVE  p # Nothing
<1>1. PICK f \in Fields, v \in Values \cup {Unset} : p = Patch(f, v)
  BY DEF Patches
<1>2. DOMAIN p = {f}
  BY <1>1 DEF Patch
<1>3. DOMAIN Nothing = {}
  BY DEF Nothing
<1>. QED BY <1>2, <1>3

(* The fields of a writer that is not idle, in the two forms it has.        *)
LEMMA WriterFields ==
  ASSUME SettingsTypes, NEW w \in Writers
  PROVE  /\ writer[w].pc \in {"idle", "modify", "locked", "write"}
         /\ writer[w].pc = "idle" <=> writer[w] = Idle
         /\ writer[w] # Idle => writer[w].patch \in Patches
         /\ writer[w].pc \in {"modify", "locked"} => writer[w] \in Modifying
         /\ writer[w].pc = "write" => writer[w].data \in [Fields -> Values \cup {Unset}]
<1>1. writer[w] \in States
  BY DEF SettingsTypes
<1>2. CASE writer[w] = Idle
  BY <1>2 DEF Idle
<1>3. CASE writer[w] \in Modifying
  BY <1>3 DEF Idle, Modifying
<1>4. CASE writer[w] \in Writing
  BY <1>4 DEF Idle, Writing
<1>. QED BY <1>1, <1>2, <1>3, <1>4 DEF States

(* The model of a file holds what is saved: what the conversion leaves out  *)
(* was never in the file.                                                   *)
LEMMA ModelIsFile ==
  ASSUME SettingsTypes, FileFieldsOnly
  PROVE  ConfigurationToModel(saved) = saved
<1>1. saved = [f \in Fields |-> saved[f]]
  BY DEF SettingsTypes
<1>. QED BY <1>1 DEF ConfigurationToModel, FileFieldsOnly

(* The file of a patched model has the patch, in the fields with a place in *)
(* it, and the rest of what was saved.                                      *)
LEMMA FileOfPatched ==
  ASSUME Backend = "fs", SettingsTypes, FileFieldsOnly, NEW p \in Patches
  PROVE  /\ ModelToConfiguration(Patched(p, saved)) = Atomic!Patched(p, saved)
         /\ \A f \in Fields \ FileFields : ModelToConfiguration(Patched(p, saved))[f] = Unset
<1>1. Kept = FileFields
  BY DEF Kept
<1>2. \A f \in Fields : ModelToConfiguration(Patched(p, saved))[f] = Atomic!Patched(p, saved)[f]
  BY <1>1 DEF ModelToConfiguration, Patched, Atomic!Patched, FileFieldsOnly
<1>. QED BY <1>2 DEF ModelToConfiguration, Atomic!Patched

-----------------------------------------------------------------------------
(* What the steps do: a step asks, answers, or is invisible.                *)

Asks(w) == \E p \in Patches : Start(w, p)
Answers(w) == WriteConfigurationFile(w) \/ ModifyFails(w)
Prepares(w) == Transaction(w) \/ ReadConfigurationFile(w)

LEMMA StepIs ==
  ASSUME Backend = "fs", Next
  PROVE  \E w \in Writers : Asks(w) \/ Answers(w) \/ Prepares(w)
<1>0. /\ \A f \in Fields, v \in Values \cup {Unset} : Patch(f, v) \in Patches
      /\ ConfigFields \subseteq Fields /\ Secrets \subseteq Fields
      /\ Policies \in Fields /\ Certificate \in Fields
      /\ Acme \in Writers
  BY DEF Patches, Fields, Writers
<1>1. ASSUME NEW w \in Writers, HandleConfigUpdate(w)
      PROVE  Asks(w)
  BY <1>0, <1>1 DEF HandleConfigUpdate, Asks
<1>2. ASSUME NEW w \in Writers, ExecuteSet(w)
      PROVE  Asks(w)
  BY <1>0, <1>2 DEF ExecuteSet, Asks
<1>3. ASSUME NEW w \in Writers, HandleToolPoliciesUpdate(w)
      PROVE  Asks(w)
  BY <1>0, <1>3 DEF HandleToolPoliciesUpdate, Asks
<1>4. ASSUME NEW w \in Writers, HandleSecretsSet(w)
      PROVE  Asks(w)
  BY <1>0, <1>4 DEF HandleSecretsSet, Asks
<1>5. ASSUME PersistCertificate
      PROVE  Asks(Acme)
  BY <1>0, <1>5 DEF PersistCertificate, Asks
<1>6. ASSUME NEW w \in Writers, Step(w)
      PROVE  Answers(w) \/ Prepares(w)
  <2>1. ~ ReadConfigurationRow(w) /\ ~ WriteConfigurationRow(w)
    BY DEF ReadConfigurationRow, WriteConfigurationRow
  <2>. QED BY <1>6, <2>1 DEF Step, Answers, Prepares
<1>. QED
  BY <1>0, <1>1, <1>2, <1>3, <1>4, <1>5, <1>6 DEF Next, Answers

(* Whoever writes or fails leaves the others as they are.                   *)
LEMMA AnswersKeep ==
  ASSUME Backend = "fs", RefinementInv, NEW w \in Writers, Answers(w)
  PROVE  RefinementInv'
<1> USE DEF RefinementInv
<1>1. /\ writer[w] # Idle
      /\ writer' = [writer EXCEPT ![w] = Idle]
      /\ mutex' = mutex \ {w}
      /\ answer' \in [Writers -> {"none", "ok", "error"}]
  BY DEF Answers, ModifyFails, WriteConfigurationFile, Answer, SettingsTypes, Idle
<1>2. writer' \in [Writers -> States] /\ writer'[w].pc = "idle"
  BY <1>1 DEF SettingsTypes, States, Idle
<1>3. \A v \in Writers : v # w => writer'[v] = writer[v]
  BY <1>1 DEF SettingsTypes
<1>4. HolderIsAlone'
  <2>1. ASSUME NEW v \in Writers, writer'[v].pc \in {"locked", "write"}
        PROVE  mutex' = {v}
    <3>1. v # w /\ mutex = {v}
      BY <1>2, <1>3, <2>1 DEF HolderIsAlone
    <3>. QED BY <1>1, <3>1
  <2>. QED BY <2>1 DEF HolderIsAlone
<1>5. CASE ModifyFails(w)
  <2>1. saved' = saved
    BY <1>5 DEF ModifyFails
  <2>2. ReadIsCurrent'
    BY <1>2, <1>3, <2>1 DEF ReadIsCurrent
  <2>. QED BY <1>1, <1>2, <1>4, <2>1, <2>2 DEF SettingsTypes, FileFieldsOnly
<1>6. CASE WriteConfigurationFile(w)
  <2>1. /\ writer[w].pc = "write" /\ mutex = {w}
        /\ saved' = ModelToConfiguration(Patched(writer[w].patch, saved))
        /\ writer[w].patch \in Patches
    BY <1>1, <1>6, WriterFields DEF WriteConfigurationFile, HolderIsAlone, ReadIsCurrent
  <2>2. saved' \in [Fields -> Values \cup {Unset}]
    BY <2>1, PatchedType DEF ModelToConfiguration, SettingsTypes
  <2>3. FileFieldsOnly'
    BY <2>1, FileOfPatched DEF FileFieldsOnly
  <2>4. \A v \in Writers : writer'[v].pc # "write"
    BY <1>2, <1>3, <2>1 DEF HolderIsAlone
  <2>. QED BY <1>1, <1>2, <1>4, <2>2, <2>3, <2>4 DEF SettingsTypes, ReadIsCurrent
<1>. QED BY <1>5, <1>6 DEF Answers

LEMMA InvNext ==
  ASSUME Backend = "fs", RefinementInv, [Next]_vars
  PROVE  RefinementInv'
<1> USE DEF RefinementInv
<1>1. ASSUME NEW w \in Writers, Asks(w)
      PROVE  RefinementInv'
  <2>1. PICK p \in Patches : Start(w, p)
    BY <1>1 DEF Asks
  <2> DEFINE new == [pc |-> "modify", patch |-> p]
  <2>2. new \in States /\ new.pc = "modify"
    BY DEF Modifying, States
  <2>3. /\ writer' = [writer EXCEPT ![w] = new]
        /\ saved' = saved /\ answer' = answer /\ mutex' = mutex
    BY <2>1 DEF Start
  <2> HIDE DEF new
  <2>. QED BY <2>2, <2>3 DEF SettingsTypes, FileFieldsOnly, HolderIsAlone, ReadIsCurrent
<1>2. ASSUME NEW w \in Writers, Transaction(w)
      PROVE  RefinementInv'
  <2> DEFINE new == [writer[w] EXCEPT !.pc = "locked"]
  <2>1. new \in States /\ new.pc = "locked"
    BY <1>2, WriterFields DEF Transaction, Modifying, States
  <2>2. /\ writer' = [writer EXCEPT ![w] = new] /\ mutex = {} /\ mutex' = {w}
        /\ saved' = saved /\ answer' = answer
    BY <1>2 DEF Transaction
  <2>3. \A v \in Writers : v # w => writer'[v] = writer[v] /\ writer[v].pc \notin {"locked", "write"}
    BY <2>2 DEF SettingsTypes, HolderIsAlone
  <2> HIDE DEF new
  <2>. QED BY <2>1, <2>2, <2>3 DEF SettingsTypes, FileFieldsOnly, HolderIsAlone, ReadIsCurrent
<1>3. ASSUME NEW w \in Writers, ReadConfigurationFile(w)
      PROVE  RefinementInv'
  <2> DEFINE new == [pc |-> "write", patch |-> writer[w].patch, data |-> Patched(writer[w].patch, saved)]
  <2>1. /\ writer[w].pc = "locked" /\ writer[w] # Idle
        /\ writer' = [writer EXCEPT ![w] = new]
        /\ saved' = saved /\ answer' = answer /\ mutex' = mutex
    BY <1>3, ModelIsFile DEF ReadConfigurationFile, Idle
  <2>2. writer[w].patch \in Patches
    BY <2>1, WriterFields
  <2>3. /\ new \in States /\ new.pc = "write"
        /\ new.data = Patched(new.patch, saved)
    BY <2>2, PatchedType DEF Writing, States, SettingsTypes
  <2>4. mutex = {w}
    BY <2>1 DEF HolderIsAlone
  <2> HIDE DEF new
  <2>. QED BY <2>1, <2>3, <2>4 DEF SettingsTypes, FileFieldsOnly, HolderIsAlone, ReadIsCurrent
<1>4. CASE UNCHANGED vars
  BY <1>4 DEF vars, SettingsTypes, FileFieldsOnly, HolderIsAlone, ReadIsCurrent
<1>. QED BY <1>1, <1>2, <1>3, <1>4, StepIs, AnswersKeep DEF Prepares

-----------------------------------------------------------------------------
(* Every step implements one of the abstract specification or none.         *)
LEMMA StepRefines ==
  ASSUME Backend = "fs", RefinementInv, [Next]_vars
  PROVE  [Atomic!Next]_(Atomic!vars)
<1> USE DEF RefinementInv
<1>0. /\ Asked = [w \in Writers |-> IF writer[w] = Idle THEN Nothing ELSE writer[w].patch]
      /\ Asked' = [w \in Writers |-> IF writer'[w] = Idle THEN Nothing ELSE writer'[w].patch]
  BY DEF Asked, Nothing
<1>1. ASSUME NEW w \in Writers, Asks(w)
      PROVE  Atomic!Next
  <2>1. PICK p \in Patches : Start(w, p)
    BY <1>1 DEF Asks
  <2> DEFINE new == [pc |-> "modify", patch |-> p]
  <2>2. new.patch = p /\ new # Idle
    BY DEF Idle
  <2>3. /\ writer[w] = Idle /\ writer' = [writer EXCEPT ![w] = new]
        /\ saved' = saved /\ answer' = answer
    BY <2>1 DEF Start
  <2> HIDE DEF new
  <2>4. Asked[w] = Nothing /\ Asked' = [Asked EXCEPT ![w] = p]
    BY <1>0, <2>2, <2>3 DEF SettingsTypes
  <2>5. Asked' # Asked
    BY <1>0, <2>4, PatchIsSomething
  <2>6. p \in Atomic!Patches
    BY SamePatches
  <2>. QED
    BY <2>3, <2>4, <2>5, <2>6 DEF Atomic!Next, Atomic!Ask, Atomic!Nothing, Atomic!Unset, Nothing, Unset
<1>2. ASSUME NEW w \in Writers, Answers(w)
      PROVE  Atomic!Next
  <2>1. writer[w] # Idle
    BY <1>2 DEF Answers, ModifyFails, WriteConfigurationFile, Idle
  <2>2. Asked[w] = writer[w].patch /\ Asked[w] # Nothing
    BY <1>0, <2>1, WriterFields, PatchIsSomething
  <2>3. writer' = [writer EXCEPT ![w] = Idle]
    BY <1>2 DEF Answers, ModifyFails, WriteConfigurationFile, Answer
  <2>4. Asked' = [Asked EXCEPT ![w] = Nothing]
    BY <1>0, <2>3 DEF SettingsTypes
  <2>5. Asked' # Asked
    BY <1>0, <2>2, <2>4
  <2>6. CASE WriteConfigurationFile(w)
    <3>1. /\ writer[w].pc = "write" /\ Answer(w, "ok")
          /\ saved' = ModelToConfiguration(Patched(writer[w].patch, saved))
      BY <2>6 DEF WriteConfigurationFile, ReadIsCurrent
    <3>2. saved' = Atomic!Patched(Asked[w], saved)
      BY <2>1, <2>2, <3>1, WriterFields, FileOfPatched
    <3>. QED
      BY <2>2, <2>4, <2>5, <3>1, <3>2
         DEF Atomic!Next, Atomic!Grant, Answer, Atomic!Nothing, Atomic!Unset, Nothing, Unset
  <2>7. CASE ModifyFails(w)
    BY <2>2, <2>4, <2>5, <2>7
       DEF Atomic!Next, Atomic!Refuse, ModifyFails, Answer, Atomic!Nothing, Atomic!Unset, Nothing, Unset
  <2>. QED BY <1>2, <2>6, <2>7 DEF Answers
<1>3. ASSUME NEW w \in Writers, Prepares(w)
      PROVE  UNCHANGED Atomic!vars
  <2>1. PICK new : /\ writer' = [writer EXCEPT ![w] = new] /\ new.patch = writer[w].patch
                   /\ new # Idle /\ writer[w] # Idle
                   /\ saved' = saved /\ answer' = answer
    <3>1. CASE Transaction(w)
      <4> DEFINE next == [writer[w] EXCEPT !.pc = "locked"]
      <4>1. writer[w] \in Modifying
        BY <3>1, WriterFields DEF Transaction
      <4>2. next.patch = writer[w].patch /\ next.pc = "locked" /\ writer[w] # Idle /\ next # Idle
        BY <4>1 DEF Modifying, Idle
      <4>. QED BY <3>1, <4>2 DEF Transaction
    <3>2. CASE ReadConfigurationFile(w)
      <4> DEFINE next == [pc |-> "write", patch |-> writer[w].patch,
                          data |-> Patched(writer[w].patch, ConfigurationToModel(saved))]
      <4>1. next.patch = writer[w].patch /\ next # Idle /\ writer[w] # Idle
        BY <3>2 DEF ReadConfigurationFile, Idle
      <4>. QED BY <3>2, <4>1 DEF ReadConfigurationFile
    <3>. QED BY <1>3, <3>1, <3>2 DEF Prepares
  <2>2. Asked' = Asked
    BY <1>0, <2>1 DEF SettingsTypes
  <2>. QED BY <2>1, <2>2 DEF Atomic!vars
<1>4. CASE UNCHANGED vars
  <2>1. Asked' = Asked
    BY <1>4 DEF Asked, vars
  <2>. QED BY <1>4, <2>1 DEF Atomic!vars, vars
<1>. QED BY <1>1, <1>2, <1>3, <1>4, StepIs

LEMMA InitRefines == Init => Atomic!Init /\ RefinementInv
<1> SUFFICES ASSUME Init PROVE Atomic!Init /\ RefinementInv
  OBVIOUS
<1>1. Asked = [w \in Writers |-> Nothing]
  BY DEF Init, Asked, Nothing
<1>2. Atomic!Init
  BY <1>1 DEF Init, Atomic!Init, Atomic!Nothing, Atomic!Unset, Nothing, Unset
<1>3. SettingsTypes
  BY DEF Init, SettingsTypes, States
<1>4. FileFieldsOnly /\ HolderIsAlone /\ ReadIsCurrent
  BY DEF Init, FileFieldsOnly, HolderIsAlone, ReadIsCurrent, Idle
<1>. QED BY <1>2, <1>3, <1>4 DEF RefinementInv

(* ModifyConfiguration of the file store is atomic, for any number of       *)
(* writers at a time and for settings with and without a place in the file: *)
(* a request that is granted changes what it names of the settings that are *)
(* kept, and nothing else, in one step, and one that fails changes nothing, *)
(* although the file is read and written in two (Transaction,               *)
(* modifyConfiguration, saveConfigurationRecord).                           *)
THEOREM UpdatesAtomicCorrect ==
  ASSUME Backend = "fs"
  PROVE  Spec => UpdatesAtomic
<1>1. Init => Atomic!Init /\ RefinementInv
  BY InitRefines
<1>2. RefinementInv /\ [Next]_vars => RefinementInv'
  BY InvNext
<1>3. RefinementInv /\ [Next]_vars => [Atomic!Next]_(Atomic!vars)
  BY StepRefines
<1>. QED BY <1>1, <1>2, <1>3, PTL DEF Spec, UpdatesAtomic, Atomic!Spec

-----------------------------------------------------------------------------
(* The summaries. *)

(* In the file store a summary that is of its source as it is looks so.     *)
SummaryInv ==
    /\ exists \subseteq Summarizer!Items
    /\ summary \in [Summarizer!Items -> BOOLEAN] /\ newer \in [Summarizer!Items -> BOOLEAN]
    /\ fresh \in [Summarizer!Items -> BOOLEAN] /\ read \in BOOLEAN
    /\ \A i \in Summarizer!Items : fresh[i] => summary[i] /\ ~ newer[i]
    /\ loop = "ask" => Head(summaryTodo) \in Summarizer!Items
    /\ Summarizer!NoIdleSynthesis

LEMMA SummaryStep ==
  ASSUME Backend = "fs", SummaryInv, [Summarizer!Next]_summaryVars
  PROVE  SummaryInv'
<1> DEFINE Items == Summarizer!Items
<1> USE DEF Summarizer!NoIdleSynthesis
<1>1. CASE Summarizer!Wake \/ Summarizer!PassEnds \/ Summarizer!Skip \/ Summarizer!Notify \/ Summarizer!Stop
  <2>1. UNCHANGED <<exists, summary, newer, fresh, read>>
    BY <1>1 DEF Summarizer!Wake, Summarizer!PassEnds, Summarizer!Skip, Summarizer!Notify, Summarizer!Stop
  <2>2. loop' # "ask" \/ UNCHANGED <<loop, summaryTodo>>
    BY <1>1 DEF Summarizer!Wake, Summarizer!PassEnds, Summarizer!Skip, Summarizer!Notify, Summarizer!Stop
  <2>. QED BY <2>1, <2>2 DEF SummaryInv
<1>2. CASE Summarizer!ReadSource
  <2>1. Head(summaryTodo) \in Items /\ Summarizer!Due(Head(summaryTodo))
    BY <1>2 DEF Summarizer!ReadSource, Summarizer!Due, SummaryInv
  <2>2. ~ fresh[Head(summaryTodo)]
    <3> DEFINE i == Head(summaryTodo)
    <3>1. newer[i] \/ ~ summary[i]
      BY <2>1 DEF Summarizer!Due, Summarizer!Items, Summarizer!ConversationDue, Summarizer!AgentDue,
         Summarizer!UserDue, Summarizer!ProjectDue
    <3>. QED BY <2>1, <3>1 DEF SummaryInv
  <2>. QED BY <1>2, <2>1, <2>2 DEF SummaryInv, Summarizer!ReadSource
<1>3. CASE Summarizer!RunSynthesisRequest
  BY <1>3 DEF SummaryInv, Summarizer!RunSynthesisRequest
<1>4. CASE Summarizer!Save
  <2>1. loop' = "pass" /\ UNCHANGED <<exists, read>>
    BY <1>4 DEF Summarizer!Save
  <2>2. CASE UNCHANGED <<summary, newer, fresh>>
    BY <2>1, <2>2 DEF SummaryInv
  <2>3. CASE /\ Head(summaryTodo) \in exists
             /\ summary' = [summary EXCEPT ![Head(summaryTodo)] = TRUE]
             /\ \E b \in Summarizer!NewerAfterSave(Head(summaryTodo)) :
                  newer' = [newer EXCEPT ![Head(summaryTodo)] = b]
             /\ fresh' = [fresh EXCEPT ![Head(summaryTodo)] = read]
    <3>1. newer' = [newer EXCEPT ![Head(summaryTodo)] = FALSE]
      BY <2>3 DEF Summarizer!NewerAfterSave, Summarizer!UpdateConversationHeader, Summarizer!ModifyProject,
         Summarizer!ModifyDescription
    <3>. QED BY <2>1, <2>3, <3>1 DEF SummaryInv
  <2>. QED BY <1>4, <2>2, <2>3 DEF Summarizer!Save
<1>5. ASSUME NEW i \in Items, Summarizer!SourceChanges(i)
      PROVE  SummaryInv'
  BY <1>5 DEF SummaryInv, Summarizer!SourceChanges
<1>6. ASSUME NEW i \in Items, Summarizer!GoesQuiet(i) \/ Summarizer!IsDeleted(i)
      PROVE  SummaryInv'
  BY <1>6 DEF SummaryInv, Summarizer!GoesQuiet, Summarizer!IsDeleted
<1>7. CASE UNCHANGED summaryVars
  BY <1>7 DEF SummaryInv, summaryVars
<1>. QED BY <1>1, <1>2, <1>3, <1>4, <1>5, <1>6, <1>7 DEF Summarizer!Next, Summarizer!LoopStep

(* In the file store the loop does not feed itself: the model is asked only *)
(* about what has changed since its summary was made.                       *)
THEOREM NoneAskedTwice ==
  ASSUME Backend = "fs"
  PROVE  Summarizer!Spec => []NoIdleSynthesis
<1>1. Summarizer!Init => SummaryInv
  BY DEF Summarizer!Init, SummaryInv, Summarizer!NoIdleSynthesis
<1>2. SummaryInv /\ [Summarizer!Next]_(Summarizer!vars) => SummaryInv'
  BY SummaryStep DEF summaryVars, Summarizer!vars
<1>3. SummaryInv => NoIdleSynthesis
  BY DEF SummaryInv, NoIdleSynthesis
<1>. QED BY <1>1, <1>2, <1>3, PTL DEF Summarizer!Spec

-----------------------------------------------------------------------------
(* The history of a conversation, in the database. *)

Alive == History!Alive
NoView == History!NoView

(* The client shows a part of a conversation that is there, or was deleted. *)
Shown(list) ==
    /\ view.oldest + Len(view.shown) <= Len(list)
    /\ view.shown = SubSeq(list, view.oldest + 1, view.oldest + Len(view.shown))

HistoryInv ==
    /\ messages \in [Alive -> Seq(Nat)]
    /\ view = [id |-> view.id, oldest |-> view.oldest, shown |-> view.shown]
    /\ view.oldest \in Nat /\ view.shown \in Seq(Nat)
    /\ view # NoView /\ view.id \notin deleted => view.id \in Alive
    /\ view.id \in Alive \ deleted => Shown(messages[view.id])

USE DEF History!Alive, Alive, History!NoView, NoView

(* A part of a list.                                                        *)
LEMMA Part ==
  ASSUME NEW list \in Seq(Nat), NEW m \in Nat, NEW n \in m..Len(list)
  PROVE  /\ SubSeq(list, m + 1, n) \in Seq(Nat) /\ Len(SubSeq(list, m + 1, n)) = n - m
         /\ \A i \in 1..(n - m) : SubSeq(list, m + 1, n)[i] = list[m + i]
<1> DEFINE a == m + 1
<1>1. a \in Int /\ n \in Int /\ n - a + 1 = n - m /\ (a <= n \/ n = m)
      /\ \A i \in a..n : i \in 1..Len(list)
  OBVIOUS
<1>2. \A i \in 1..Len(list) : list[i] \in Nat
  OBVIOUS
<1>3. \A i \in 1..(n - m) : a + i - 1 = m + i
  OBVIOUS
<1>4. n = m => n - m = 0 /\ ~ (a <= n)
  OBVIOUS
<1> HIDE DEF a
<1>5. /\ SubSeq(list, a, n) \in Seq(Nat)
      /\ Len(SubSeq(list, a, n)) = IF a <= n THEN n - a + 1 ELSE 0
      /\ \A i \in 1..(n - a + 1) : SubSeq(list, a, n)[i] = list[a + i - 1]
  BY <1>1, <1>2, SubSeqProperties
<1>6. SubSeq(list, a, n) \in Seq(Nat) /\ Len(SubSeq(list, a, n)) = n - m
  BY <1>1, <1>4, <1>5
<1>7. \A i \in 1..(n - m) : SubSeq(list, a, n)[i] = list[m + i]
  BY <1>1, <1>3, <1>5
<1>. QED BY <1>6, <1>7 DEF a

(* A list that only gets longer still has what was shown of it.             *)
LEMMA ShownStays ==
  ASSUME NEW old \in Seq(Nat), NEW new \in Seq(Nat), NEW o \in Nat, NEW l \in Nat,
         o + l <= Len(old), Len(old) <= Len(new), \A k \in 1..Len(old) : new[k] = old[k]
  PROVE  SubSeq(new, o + 1, o + l) = SubSeq(old, o + 1, o + l)
<1> DEFINE n == o + l
           s == SubSeq(new, o + 1, n)
           t == SubSeq(old, o + 1, n)
<1>1. n \in o..Len(old) /\ n \in o..Len(new) /\ n - o = l /\ \A i \in 1..l : o + i \in 1..Len(old)
  OBVIOUS
<1> HIDE DEF n
<1>2. /\ s \in Seq(Nat) /\ Len(s) = l /\ \A i \in 1..l : s[i] = new[o + i]
      /\ t \in Seq(Nat) /\ Len(t) = l /\ \A i \in 1..l : t[i] = old[o + i]
  BY <1>1, Part
<1>3. \A i \in 1..l : s[i] = t[i]
  BY <1>1, <1>2
<1> HIDE DEF s, t
<1>4. s = t
  BY <1>2, <1>3, SeqEqual
<1>. QED BY <1>4 DEF s, t, n

(* A step of the store that keeps what is in the conversations, or deletes  *)
(* them.                                                                    *)
LEMMA GrowStep ==
  ASSUME HistoryInv, messages' \in [DOMAIN agentOf' -> Seq(Nat)], deleted \subseteq deleted', view' = view,
         \A i \in DOMAIN agentOf \ deleted' :
            /\ i \in DOMAIN agentOf' /\ Len(messages[i]) <= Len(messages'[i])
            /\ \A k \in 1..Len(messages[i]) : messages'[i][k] = messages[i][k]
  PROVE  HistoryInv'
<1>1. CASE view = NoView
  <2>1. view.oldest = 0 /\ view.shown = << >> /\ Len(view.shown) = 0
    BY <1>1
  <2>2. view.id \in DOMAIN agentOf' => Shown(messages[view.id])'
    BY <2>1 DEF Shown
  <2>. QED BY <1>1, <2>1, <2>2 DEF HistoryInv
<1>2. CASE view # NoView /\ view.id \notin deleted'
  <2> DEFINE i == view.id
  <2>1. i \in DOMAIN agentOf /\ Shown(messages[i]) /\ i \in DOMAIN agentOf'
    BY <1>2 DEF HistoryInv
  <2>2. /\ messages[i] \in Seq(Nat) /\ messages'[i] \in Seq(Nat)
        /\ view.oldest \in Nat /\ Len(view.shown) \in Nat
    BY <2>1 DEF HistoryInv
  <2> DEFINE old == messages[i]
             new == messages'[i]
  <2>3. Len(old) <= Len(new) /\ \A k \in 1..Len(old) : new[k] = old[k]
    BY <1>2, <2>1
  <2>4. view.oldest + Len(view.shown) <= Len(old)
        /\ view.shown = SubSeq(old, view.oldest + 1, view.oldest + Len(view.shown))
    BY <2>1 DEF Shown
  <2>5. old \in Seq(Nat) /\ new \in Seq(Nat)
    BY <2>2
  <2>6. messages[view.id]' = new
    OBVIOUS
  <2> HIDE DEF old, new
  <2>7. SubSeq(new, view.oldest + 1, view.oldest + Len(view.shown))
          = SubSeq(old, view.oldest + 1, view.oldest + Len(view.shown))
    BY <2>2, <2>3, <2>4, <2>5, ShownStays
  <2>8. view.oldest + Len(view.shown) <= Len(new)
    BY <2>2, <2>3, <2>4, <2>5
  <2>9. Shown(messages[view.id])'
    BY <2>4, <2>6, <2>7, <2>8 DEF Shown
  <2>. QED BY <1>2, <2>1, <2>9 DEF HistoryInv
<1>3. CASE view # NoView /\ view.id \in deleted'
  BY <1>3 DEF HistoryInv
<1>. QED BY <1>1, <1>2, <1>3

(* CreateConversation of dbstore, for a row that may be there.              *)
LEMMA CreateRowStep ==
  ASSUME HistoryInv, NEW i, NEW a, History!CreateConversationRow(i, a) \/ UNCHANGED <<agentOf, messages>>,
         UNCHANGED <<deleted, view>>
  PROVE  HistoryInv'
<1>1. CASE UNCHANGED <<agentOf, messages>>
  BY <1>1 DEF HistoryInv, Shown
<1>2. CASE /\ i \notin DOMAIN agentOf
           /\ agentOf' = History!With(agentOf, i, a) /\ messages' = History!With(messages, i, << >>)
  <2>1. /\ DOMAIN agentOf' = DOMAIN agentOf \cup {i}
        /\ messages' = [j \in DOMAIN agentOf \cup {i} |-> IF j = i THEN << >> ELSE messages[j]]
    BY <1>2 DEF History!With, HistoryInv
  <2>2. messages' \in [DOMAIN agentOf' -> Seq(Nat)]
    BY <2>1 DEF HistoryInv
  <2>3. \A j \in DOMAIN agentOf : j \in DOMAIN agentOf' /\ messages'[j] = messages[j]
    BY <1>2, <2>1
  <2>4. \A j \in DOMAIN agentOf : Len(messages[j]) \in Nat
    BY DEF HistoryInv
  <2>. QED BY <2>2, <2>3, <2>4, GrowStep
<1>. QED BY <1>1, <1>2 DEF History!CreateConversationRow

(* Persisting a default that is new creates its row, or all is rolled back. *)
LEMMA CommitStep ==
  ASSUME HistoryInv, NEW p \in ConversationCallers, History!PersistRowCommits(p)
  PROVE  HistoryInv'
<1> DEFINE i == conversationCaller[p].id
           a == IF i \in DOMAIN agentOf THEN agentOf[i] ELSE conversationCaller[p].agent
<1>1. History!CreateConversationRow(i, a) \/ UNCHANGED <<agentOf, messages>>
  BY DEF History!PersistRowCommits
<1>2. UNCHANGED <<deleted, view>>
  BY DEF History!PersistRowCommits
<1>. QED BY <1>1, <1>2, CreateRowStep

(* What a page has of a list, and where it begins.                          *)
PageEnd(list, before) == IF before > 0 /\ before < Len(list) THEN before ELSE Len(list)

LEMMA PageFacts ==
  ASSUME NEW list \in Seq(Nat), NEW before \in Nat, NEW r, NEW end,
         r = History!PageConversationMessages(list, before), end = PageEnd(list, before)
  PROVE  /\ end \in 0..Len(list) /\ r.oldest \in 0..end
         /\ r.page = SubSeq(list, r.oldest + 1, end) /\ r.page \in Seq(Nat)
         /\ r.oldest + Len(r.page) = end
<1>1. end \in 0..Len(list)
  BY DEF PageEnd
<1>2. r.oldest = (IF end < PageSize THEN 0 ELSE end - PageSize) /\ r.page = SubSeq(list, r.oldest + 1, end)
  BY DEF History!PageConversationMessages, PageEnd
<1>3. r.oldest \in 0..end
  <2>1. PageSize \in Nat /\ end \in Nat
    BY <1>1, PageAssumption
  <2>2. CASE end < PageSize
    BY <1>2, <2>1, <2>2
  <2>3. CASE ~ (end < PageSize)
    BY <1>2, <2>1, <2>3
  <2>. QED BY <2>2, <2>3
<1>4. r.oldest \in Nat /\ end \in r.oldest..Len(list)
  BY <1>1, <1>3
<1>5. r.page \in Seq(Nat) /\ Len(r.page) = end - r.oldest
  <2> DEFINE o == r.oldest
  <2>1. o \in Nat /\ end \in o..Len(list) /\ r.page = SubSeq(list, o + 1, end)
    BY <1>2, <1>4
  <2> HIDE DEF o
  <2>2. SubSeq(list, o + 1, end) \in Seq(Nat) /\ Len(SubSeq(list, o + 1, end)) = end - o
    BY <2>1, Part
  <2>3. r.page \in Seq(Nat) /\ Len(r.page) = end - o
    BY <2>1, <2>2
  <2>. QED BY <2>3 DEF o
<1>6. r.oldest + Len(r.page) = end
  BY <1>1, <1>3, <1>5
<1>. QED BY <1>1, <1>2, <1>3, <1>5, <1>6

(* A client opens a conversation, loads what is older, and closes it.       *)
LEMMA ClientStep ==
  ASSUME HistoryInv,
         \/ \E i \in ConversationIds : History!OpenConversation(i)
         \/ History!LoadOlderMessages \/ History!CloseConversation
  PROVE  HistoryInv'
<1>1. UNCHANGED <<agentOf, messages, deleted>>
  BY DEF History!OpenConversation, History!LoadOlderMessages, History!CloseConversation, History!storeVars
<1>2. ASSUME NEW i \in ConversationIds, History!OpenConversation(i)
      PROVE  HistoryInv'
  <2> DEFINE list == messages[i]
             r == History!PageConversationMessages(list, 0)
             end == PageEnd(list, 0)
  <2>1. i \in DOMAIN agentOf /\ view' = [id |-> i, oldest |-> r.oldest, shown |-> r.page]
    BY <1>2 DEF History!OpenConversation
  <2>2. list \in Seq(Nat) /\ end = Len(list)
    BY <2>1 DEF HistoryInv, PageEnd
  <2>3. /\ r.oldest \in 0..end /\ r.page \in Seq(Nat) /\ r.page = SubSeq(list, r.oldest + 1, end)
        /\ r.oldest + Len(r.page) = end
    <3> HIDE DEF list
    <3>1. list \in Seq(Nat) /\ 0 \in Nat
      BY <2>2
    <3>. QED BY <3>1, PageFacts
  <2>4. view'.id = i /\ view'.oldest = r.oldest /\ view'.shown = r.page
    BY <2>1
  <2>5. messages[view.id]' = list
    BY <1>1, <2>4
  <2>6. view' = [id |-> view'.id, oldest |-> view'.oldest, shown |-> view'.shown]
    BY <2>1
  <2> HIDE DEF r, list, end
  <2>7. view'.oldest + Len(view'.shown) = Len(list)
    BY <2>2, <2>3, <2>4
  <2>8. view'.shown = SubSeq(list, view'.oldest + 1, view'.oldest + Len(view'.shown))
    BY <2>2, <2>3, <2>4, <2>7
  <2>9. Shown(messages[view.id])'
    BY <2>2, <2>5, <2>7, <2>8 DEF Shown
  <2>10. view'.oldest \in Nat /\ view'.shown \in Seq(Nat) /\ view'.id \in DOMAIN agentOf
    BY <2>1, <2>2, <2>3, <2>4
  <2>. QED BY <1>1, <2>6, <2>9, <2>10 DEF HistoryInv
<1>3. CASE History!LoadOlderMessages
  <2> DEFINE list == messages[view.id]
             before == view.oldest
             r == History!PageConversationMessages(list, before)
             end == PageEnd(list, before)
  <2>1. /\ view.id \in DOMAIN agentOf /\ before > 0
        /\ view' = [view EXCEPT !.oldest = r.oldest, !.shown = r.page \o @]
    BY <1>3 DEF History!LoadOlderMessages
  <2>2. list \in Seq(Nat) /\ before \in Nat /\ view.shown \in Seq(Nat)
    BY <2>1 DEF HistoryInv
  <2>3. /\ end \in 0..Len(list) /\ r.oldest \in 0..end /\ r.page \in Seq(Nat)
        /\ r.page = SubSeq(list, r.oldest + 1, end) /\ r.oldest + Len(r.page) = end
    <3> HIDE DEF list, before
    <3>. QED BY <2>2, PageFacts
  <2>4. /\ view' = [id |-> view'.id, oldest |-> view'.oldest, shown |-> view'.shown]
        /\ view'.id = view.id /\ view'.oldest = r.oldest /\ view'.shown = r.page \o view.shown
    BY <2>1 DEF HistoryInv
  <2>5. messages[view.id]' = list
    BY <1>1, <2>4
  <2>6. view'.shown \in Seq(Nat) /\ Len(view'.shown) = Len(r.page) + Len(view.shown)
    <3> HIDE DEF list, before, r, end
    <3>1. r.page \in Seq(Nat) /\ view.shown \in Seq(Nat) /\ view'.shown = r.page \o view.shown
      BY <2>2, <2>3, <2>4
    <3>. QED BY <3>1
  <2>7. ASSUME view.id \notin deleted
        PROVE  Shown(messages[view.id])'
    <3> DEFINE m == before + Len(view.shown)
    <3>1. m <= Len(list) /\ view.shown = SubSeq(list, before + 1, m) /\ m \in Nat /\ before <= m
      BY <2>1, <2>2, <2>7 DEF HistoryInv, Shown
    <3>2. m = before + Len(view.shown)
      OBVIOUS
    <3>3. end = (IF before > 0 /\ before < Len(list) THEN before ELSE Len(list))
      BY DEF PageEnd
    <3> HIDE DEF list, before, r, end, m
    <3>4. end = before
      BY <2>1, <2>2, <3>1, <3>3
    <3>5. /\ r.oldest + 1 \in 1..(Len(list) + 1) /\ before \in ((r.oldest + 1) - 1)..Len(list)
          /\ m \in before..Len(list)
      <4>1. Len(list) \in Nat /\ r.oldest \in 0..before /\ before \in 0..Len(list)
        BY <2>2, <2>3, <3>4
      <4>. QED BY <4>1, <3>1
    <3>6. r.page \o view.shown = SubSeq(list, r.oldest + 1, before) \o SubSeq(list, before + 1, m)
      BY <2>3, <3>1, <3>4
    <3>7. \A x \in 1..(Len(list) + 1) : \A y \in (x - 1)..Len(list) : \A z \in y..Len(list) :
            SubSeq(list, x, y) \o SubSeq(list, y + 1, z) = SubSeq(list, x, z)
      BY <2>2, ConcatAdjacentSubSeq
    <3>8. view'.shown = SubSeq(list, r.oldest + 1, m)
      <4> DEFINE x == r.oldest + 1
      <4>1. x \in 1..(Len(list) + 1) /\ before \in (x - 1)..Len(list) /\ m \in before..Len(list)
        BY <3>5
      <4>2. view'.shown = SubSeq(list, x, before) \o SubSeq(list, before + 1, m)
        BY <2>4, <3>6
      <4> HIDE DEF x
      <4>3. view'.shown = SubSeq(list, x, m)
        BY <3>7, <4>1, <4>2
      <4>. QED BY <4>3 DEF x
    <3>9. view'.oldest = r.oldest /\ view'.oldest + Len(view'.shown) = m
      <4> DEFINE p == Len(r.page)
                 q == Len(view.shown)
                 o == r.oldest
                 l == Len(view'.shown)
      <4>1. p \in Nat /\ q \in Nat /\ o \in 0..end
        <5>1. r.page \in Seq(Nat) /\ view.shown \in Seq(Nat) /\ o \in 0..end
          BY <2>2, <2>3
        <5> HIDE DEF o
        <5>. QED BY <5>1
      <4>2. o + p = end /\ l = p + q /\ m = before + q
        BY <2>3, <2>6, <3>2
      <4>3. view'.oldest = o
        BY <2>4
      <4> HIDE DEF p, q, o, l
      <4>4. o + l = m
        BY <2>2, <3>4, <4>1, <4>2
      <4>. QED BY <4>3, <4>4 DEF o, l
    <3>. QED BY <2>5, <3>1, <3>8, <3>9 DEF Shown
  <2>8. view'.oldest \in Nat
    <3> HIDE DEF list, before, r, end
    <3>1. end \in 0..Len(list) /\ Len(list) \in Nat
      BY <2>2, <2>3
    <3>. QED BY <2>3, <2>4, <3>1
  <2>. QED BY <1>1, <2>1, <2>4, <2>6, <2>7, <2>8 DEF HistoryInv
<1>4. CASE History!CloseConversation
  <2>1. view' = NoView
    BY <1>4 DEF History!CloseConversation
  <2>2. view'.oldest = 0 /\ view'.shown = << >> /\ Len(view'.shown) = 0
    BY <2>1
  <2>3. view'.id \in DOMAIN agentOf => Shown(messages[view.id])'
    BY <1>1, <2>2 DEF Shown, HistoryInv
  <2>. QED BY <1>1, <2>1, <2>2, <2>3 DEF HistoryInv
<1>. QED BY <1>2, <1>3, <1>4

(* A message is added, or a conversation deleted with its messages.         *)
LEMMA ContentStep ==
  ASSUME HistoryInv, Backend = "db",
         \/ \E i \in ConversationIds : History!CreateConversationMessage(i)
         \/ \E p \in ConversationCallers : History!DeleteConversation(p)
  PROVE  HistoryInv'
<1>1. messages \in [DOMAIN agentOf -> Seq(Nat)]
  BY DEF HistoryInv
<1>2. \A j \in DOMAIN agentOf : Len(messages[j]) \in Nat
  BY <1>1
<1>3. ASSUME NEW i \in ConversationIds, History!CreateConversationMessage(i)
      PROVE  HistoryInv'
  <2>1. /\ i \in DOMAIN agentOf /\ UNCHANGED <<agentOf, deleted, view>>
        /\ messages' = [messages EXCEPT ![i] = Append(@, Len(@) + 1)]
    BY <1>3 DEF History!CreateConversationMessage
  <2> DEFINE new == Append(messages[i], Len(messages[i]) + 1)
  <2>2. /\ new \in Seq(Nat) /\ Len(messages[i]) <= Len(new)
        /\ \A k \in 1..Len(messages[i]) : new[k] = messages[i][k]
    BY <1>1, <2>1
  <2>3. messages' = [messages EXCEPT ![i] = new]
    BY <2>1
  <2> HIDE DEF new
  <2>4. messages' \in [DOMAIN agentOf' -> Seq(Nat)]
    BY <1>1, <2>1, <2>2, <2>3
  <2>5. \A j \in DOMAIN agentOf \ deleted' :
          /\ j \in DOMAIN agentOf' /\ Len(messages[j]) <= Len(messages'[j])
          /\ \A k \in 1..Len(messages[j]) : messages'[j][k] = messages[j][k]
    <3>1. messages'[i] = new
      BY <1>1, <2>1, <2>3
    <3>2. \A j \in DOMAIN agentOf : j # i => messages'[j] = messages[j]
      BY <1>1, <2>1, <2>3
    <3>. QED BY <1>2, <2>1, <2>2, <3>1, <3>2
  <2>. QED BY <2>1, <2>4, <2>5, GrowStep
<1>4. ASSUME NEW p \in ConversationCallers, History!DeleteConversation(p)
      PROVE  HistoryInv'
  <2> DEFINE i == conversationCaller[p].id
  <2>1. view' = view
    BY <1>4 DEF History!DeleteConversation
  <2>2. CASE UNCHANGED <<agentOf, messages, deleted>>
    BY <2>1, <2>2 DEF HistoryInv, Shown
  <2>3. CASE /\ agentOf' = [j \in DOMAIN agentOf \ {i} |-> agentOf[j]]
             /\ messages' = [j \in DOMAIN messages \ {i} |-> messages[j]]
             /\ deleted' = deleted \cup {i}
    <3>1. messages' \in [DOMAIN agentOf' -> Seq(Nat)]
      BY <1>1, <2>3
    <3>2. \A j \in DOMAIN agentOf \ deleted' : j \in DOMAIN agentOf' /\ messages'[j] = messages[j]
      BY <1>1, <2>3
    <3>. QED BY <1>2, <2>1, <2>3, <3>1, <3>2, GrowStep
  <2>. QED BY <1>4, <2>2, <2>3
           DEF History!DeleteConversation, History!DeleteConversationRow, History!Without, History!storeVars
<1>. QED BY <1>3, <1>4

LEMMA HistoryStep ==
  ASSUME HistoryInv, Backend = "db", [History!Next]_(History!vars)
  PROVE  HistoryInv'
<1>1. CASE UNCHANGED <<agentOf, messages, deleted, view>>
  BY <1>1 DEF HistoryInv, Shown
<1>2. ASSUME NEW p \in ConversationCallers, NEW a \in ConversationAgents,
             \/ History!EnsureDefaultConversation(p, a) \/ History!NewDefaultConversation(p, a)
             \/ \E i \in ConversationIds :
                  \/ History!SetDefaultConversation(p, a, i) \/ History!SetDefaultConversationIfUnset(p, a, i)
                  \/ History!RunConversation(p, a, i) \/ History!HandleConversationsDelete(p, a, i)
      PROVE  HistoryInv'
  BY <1>1, <1>2 DEF History!EnsureDefaultConversation, History!NewDefaultConversation,
     History!SetDefaultConversation, History!SetDefaultConversationIfUnset, History!RunConversation,
     History!HandleConversationsDelete, History!storeVars
<1>3. ASSUME NEW p \in ConversationCallers, NEW a \in ConversationAgents, NEW i \in ConversationIds,
             History!RunNewConversation(p, a, i)
      PROVE  HistoryInv'
  <2>1. History!CreateConversationRow(i, a) /\ UNCHANGED <<deleted, view>>
    BY <1>3 DEF History!RunNewConversation
  <2>. QED BY <2>1, CreateRowStep
<1>4. ASSUME NEW p \in ConversationCallers,
             \/ History!PersistFile(p) \/ History!PersistRowBegins(p) \/ History!RunSetsDefault(p)
      PROVE  HistoryInv'
  BY <1>1, <1>4 DEF History!PersistFile, History!PersistRowBegins, History!RunSetsDefault, History!storeVars
<1>5. ASSUME NEW p \in ConversationCallers, History!CreateConversation(p)
      PROVE  HistoryInv'
  <2>1. /\ History!CreateConversationRow(conversationCaller[p].id, conversationCaller[p].agent)
        /\ UNCHANGED <<deleted, view>>
    BY <1>5 DEF History!CreateConversation
  <2>. QED BY <2>1, CreateRowStep
<1>6. ASSUME NEW i \in ConversationIds, History!RunEnds(i)
      PROVE  HistoryInv'
  BY <1>1, <1>6 DEF History!RunEnds, History!storeVars
<1>7. CASE UNCHANGED History!vars
  BY <1>1, <1>7 DEF History!vars, History!storeVars
<1>. QED BY <1>2, <1>3, <1>4, <1>5, <1>6, <1>7, CommitStep, ContentStep, ClientStep DEF History!Next

(* In the database, whatever the calls that make, default, fill and delete  *)
(* conversations do at the same time, a client that goes through a history  *)
(* page by page shows every message from the oldest it has loaded on.       *)
THEOREM HistoryShown ==
  ASSUME Backend = "db"
  PROVE  History!Spec => []HistoryComplete
<1>1. History!Init => HistoryInv
  <2>1. ASSUME History!Init
        PROVE  /\ messages \in [DOMAIN agentOf -> Seq(Nat)] /\ deleted = {}
               /\ view = [id |-> "none", oldest |-> 0, shown |-> << >>]
    BY <2>1 DEF History!Init
  <2>2. ASSUME view = [id |-> "none", oldest |-> 0, shown |-> << >>], messages \in [DOMAIN agentOf -> Seq(Nat)],
               view.id \in DOMAIN agentOf
        PROVE  Shown(messages[view.id])
    <3> DEFINE list == messages[view.id]
    <3>1. list \in Seq(Nat) /\ view.oldest = 0 /\ view.shown = << >>
      BY <2>2
    <3> HIDE DEF list
    <3>2. Shown(list)
      BY <3>1 DEF Shown
    <3>. QED BY <3>2 DEF list
  <2>3. ASSUME view = [id |-> "none", oldest |-> 0, shown |-> << >>]
        PROVE  /\ view = [id |-> view.id, oldest |-> view.oldest, shown |-> view.shown]
               /\ view.oldest \in Nat /\ view.shown \in Seq(Nat) /\ view = NoView
    BY <2>3
  <2>4. SUFFICES ASSUME History!Init PROVE HistoryInv
    OBVIOUS
  <2>5. view = [id |-> "none", oldest |-> 0, shown |-> << >>] /\ messages \in [DOMAIN agentOf -> Seq(Nat)]
    BY <2>1, <2>4
  <2>6. view.id \in DOMAIN agentOf \ deleted => Shown(messages[view.id])
    BY <2>2, <2>5
  <2>. QED BY <2>3, <2>5, <2>6 DEF HistoryInv
<1>2. HistoryInv /\ [History!Next]_(History!vars) => HistoryInv'
  BY HistoryStep
<1>3. HistoryInv => HistoryComplete
  BY DEF HistoryInv, Shown, HistoryComplete, History!HistoryComplete
<1>. QED BY <1>1, <1>2, <1>3, PTL DEF History!Spec

-----------------------------------------------------------------------------
(* The memory of an agent. *)

(* Numbers: the largest of finitely many. *)
LEMMA NatLeast ==
  ASSUME NEW T, T \subseteq Nat, T # {}
  PROVE  \E m \in T : \A n \in T : m <= n
<1> DEFINE R == OpToRel(<, Nat)
<1>1. IsWellFoundedOn(R, Nat)
  BY NatLessThanWellFounded
<1>2. \A x, y \in Nat : y < x => <<y, x>> \in R
  BY Zenon DEF OpToRel
<1> HIDE DEF R
<1>3. PICK m \in T : \A y \in T : <<y, m>> \notin R
  BY <1>1, WFMin
<1>4. ASSUME NEW n \in T
      PROVE  m <= n
  <2>1. ~(n < m)
    BY <1>2, <1>3
  <2>. QED BY <2>1
<1>. QED BY <1>4

LEMMA MaxMember ==
  ASSUME NEW n \in Nat, NEW T, T \subseteq 1..n, T # {}
  PROVE  Memory!Max(T) \in T
<1> DEFINE U == {n - m : m \in T}
<1>1. U \subseteq Nat /\ U # {}
  <2>1. \A m \in T : n - m \in Nat
    OBVIOUS
  <2>. QED BY <2>1
<1>2. PICK u \in U : \A v \in U : u <= v
  BY <1>1, NatLeast
<1>3. PICK x \in T : u = n - x
  BY <1>2
<1>4. \A m \in T : x >= m
  BY <1>2, <1>3
<1>. QED BY <1>4 DEF Memory!Max

(* The user messages of a conversation that come after its k-th message.    *)
Later(h, k) == {j \in DOMAIN h : j > k /\ h[j] = Memory!User}

HistoryMessages == [role : {"user", "tool"}, items : SUBSET MemoryIds]

LEMMA LaterFinite ==
  ASSUME NEW h \in Seq(HistoryMessages), NEW k \in Nat
  PROVE  IsFiniteSet(Later(h, k)) /\ Cardinality(Later(h, k)) \in Nat
<1>1. Later(h, k) \subseteq 1..Len(h) /\ 1 \in Int /\ Len(h) \in Int
  BY DEF Later
<1>. QED BY <1>1, FS_Interval, FS_Subset, FS_CardinalityType

LEMMA LaterAppend ==
  ASSUME NEW h \in Seq(HistoryMessages), NEW m \in HistoryMessages, NEW k \in 0..Len(h)
  PROVE  Cardinality(Later(Append(h, m), k))
           = Cardinality(Later(h, k)) + (IF m = Memory!User THEN 1 ELSE 0)
<1> DEFINE n == Len(h) + 1
           g == Append(h, m)
<1>1. /\ Len(h) \in Nat /\ n \notin 1..Len(h) /\ n > k /\ k \in Nat
      /\ DOMAIN h = 1..Len(h) /\ DOMAIN g = 1..Len(h) \cup {n}
  OBVIOUS
<1>2. g[n] = m /\ \A j \in 1..Len(h) : g[j] = h[j]
  OBVIOUS
<1> HIDE DEF n, g
<1>3. n \notin Later(h, k) /\ IsFiniteSet(Later(h, k)) /\ Cardinality(Later(h, k)) \in Nat
  BY <1>1, LaterFinite DEF Later
<1>4. CASE m = Memory!User
  <2>1. Later(g, k) = Later(h, k) \cup {n}
    BY <1>1, <1>2, <1>4 DEF Later
  <2>2. Cardinality(Later(g, k)) = Cardinality(Later(h, k)) + 1
    BY <1>3, <2>1, FS_AddElement
  <2>. QED BY <1>4, <2>2 DEF g
<1>5. CASE m # Memory!User
  <2>1. Later(g, k) = Later(h, k)
    BY <1>1, <1>2, <1>5 DEF Later
  <2>. QED BY <1>3, <1>5, <2>1 DEF g
<1>. QED BY <1>4, <1>5

(* The number of elements is the same operator in an instance.              *)
LEMMA CardinalityIs == \A S : Memory!Cardinality(S) = Cardinality(S)
BY Zenon DEF Memory!Cardinality, Cardinality

LEMMA TurnsAre ==
  /\ history \in Seq(HistoryMessages) => Memory!Turns = Cardinality(Later(history, 0))
  /\ \A k : Memory!TurnsAfter(k) = Cardinality(Later(history, k))
<1>1. ASSUME history \in Seq(HistoryMessages)
      PROVE  Memory!Turns = Cardinality(Later(history, 0))
  <2>1. \A j \in DOMAIN history : j > 0
    BY <1>1
  <2>2. {k \in DOMAIN history : history[k] = Memory!User} = Later(history, 0)
    BY <2>1 DEF Later
  <2>. QED BY <2>2, CardinalityIs DEF Memory!Turns
<1>2. \A k : Memory!TurnsAfter(k) = Cardinality(Later(history, k))
  BY CardinalityIs DEF Memory!TurnsAfter, Later
<1>. QED BY <1>1, <1>2

(* What a caller of the memory is at.                                       *)
Embedding == MemoryContents \cup {Memory!None}
ModelNames == EmbeddingModels \cup {Memory!None}
LiveRecords == {r \in Memory!Records : r.state = "live"}
MemoryRequests ==
    {Memory!Idle, [pc |-> "touch"]}
    \cup [pc : {"add", "update"}, id : MemoryIds, content : MemoryContents, vectorOf : Embedding, model : ModelNames]
    \cup [pc : {"save"}, id : MemoryIds, record : LiveRecords]
    \cup [pc : {"rank"}, items : SUBSET MemoryIds]

MemoryTypes ==
    /\ item \in [MemoryIds -> Memory!Records]
    /\ model \in ModelNames
    /\ memoryRequest \in [MemoryCallers -> MemoryRequests]
    /\ history \in Seq(HistoryMessages)
    /\ goneAt \in [MemoryIds -> Nat]

Archived(i) == item[i].state = "archived"

(* Of a result that has an item which is gone by now, no more user messages *)
(* follow than since the item went: it was there when the result was added, *)
(* or went while the search was under way, before the next user message.    *)
ResultsOld ==
    \A k \in DOMAIN history : \A i \in history[k].items :
        Archived(i) => Cardinality(Later(history, 0)) <= goneAt[i] + Cardinality(Later(history, k))

SearchesOld ==
    \A c \in MemoryCallers : memoryRequest[c].pc = "rank" =>
        \A i \in memoryRequest[c].items : Archived(i) => goneAt[i] = Cardinality(Later(history, 0))

MemoryInv == MemoryTypes /\ ResultsOld /\ SearchesOld

(* Items change, and no item is archived but one that goes with this turn.  *)
LEMMA ItemStep ==
  ASSUME MemoryInv, history' = history,
         item' \in [MemoryIds -> Memory!Records], goneAt' \in [MemoryIds -> Nat],
         memoryRequest' \in [MemoryCallers -> MemoryRequests], model' = model,
         \A i \in MemoryIds : Archived(i)' =>
            \/ Archived(i) /\ goneAt'[i] = goneAt[i]
            \/ goneAt'[i] = Cardinality(Later(history, 0)),
         \A c \in MemoryCallers : memoryRequest'[c].pc = "rank" => memoryRequest'[c] = memoryRequest[c]
  PROVE  MemoryInv'
<1> DEFINE turns == Cardinality(Later(history, 0))
<1>1. history \in Seq(HistoryMessages)
  BY DEF MemoryInv, MemoryTypes
<1>2. turns \in Nat /\ \A k \in DOMAIN history : Cardinality(Later(history, k)) \in Nat
  <2>1. DOMAIN history \subseteq Nat /\ 0 \in Nat
    BY <1>1
  <2>. QED BY <1>1, <2>1, LaterFinite
<1>3. \A k \in DOMAIN history : history[k].items \subseteq MemoryIds
  <2>1. \A m \in HistoryMessages : m.items \subseteq MemoryIds
    BY DEF HistoryMessages
  <2>2. \A k \in DOMAIN history : history[k] \in HistoryMessages
    BY <1>1
  <2>. QED BY <2>1, <2>2
<1>4. MemoryTypes'
  BY DEF MemoryInv, MemoryTypes
<1>5. ResultsOld'
  <2> SUFFICES ASSUME NEW k \in DOMAIN history, NEW i \in history[k].items, Archived(i)'
               PROVE  turns <= goneAt'[i] + Cardinality(Later(history, k))
    BY DEF ResultsOld
  <2> HIDE DEF turns
  <2>1. i \in MemoryIds /\ goneAt'[i] \in Nat /\ Cardinality(Later(history, k)) \in Nat
    BY <1>2, <1>3
  <2>2. CASE Archived(i) /\ goneAt'[i] = goneAt[i]
    BY <2>2 DEF MemoryInv, ResultsOld, turns
  <2>3. CASE goneAt'[i] = turns
    BY <1>2, <2>1, <2>3
  <2>. QED BY <2>1, <2>2, <2>3 DEF turns
<1>6. SearchesOld'
  <2> SUFFICES ASSUME NEW c \in MemoryCallers, memoryRequest'[c].pc = "rank",
                      NEW i \in memoryRequest'[c].items, Archived(i)'
               PROVE  goneAt'[i] = turns
    BY DEF SearchesOld
  <2>1. memoryRequest'[c] = memoryRequest[c]
    OBVIOUS
  <2>2. i \in MemoryIds
    <3>1. memoryRequest[c] \in MemoryRequests /\ memoryRequest[c].pc = "rank"
      BY <2>1 DEF MemoryInv, MemoryTypes
    <3>2. memoryRequest[c].items \subseteq MemoryIds
      BY <3>1 DEF MemoryRequests, Memory!Idle
    <3>. QED BY <2>1, <3>2
  <2>. QED BY <2>1, <2>2 DEF MemoryInv, SearchesOld
<1>. QED BY <1>4, <1>5, <1>6 DEF MemoryInv

(* A message is added to the conversation.                                  *)
LEMMA MessageStep ==
  ASSUME MemoryInv, NEW m \in HistoryMessages, history' = Append(history, m),
         UNCHANGED <<item, goneAt, model>>, memoryRequest' \in [MemoryCallers -> MemoryRequests],
         \A c \in MemoryCallers : memoryRequest'[c].pc = "rank" =>
            m # Memory!User /\ memoryRequest'[c] = memoryRequest[c],
         \A i \in m.items : Archived(i) => goneAt[i] = Cardinality(Later(history, 0)) /\ m # Memory!User
  PROVE  MemoryInv'
<1> DEFINE h == history
           g == Append(h, m)
           n == Len(h) + 1
           one == IF m = Memory!User THEN 1 ELSE 0
<1>1. h \in Seq(HistoryMessages) /\ Len(h) \in Nat /\ DOMAIN h = 1..Len(h)
  BY DEF MemoryInv, MemoryTypes
<1>2. /\ g \in Seq(HistoryMessages) /\ DOMAIN g = 1..Len(h) \cup {n}
      /\ g[n] = m /\ \A k \in 1..Len(h) : g[k] = h[k]
  BY <1>1
<1>3. history' = g
  OBVIOUS
<1>4. one \in {0, 1}
  OBVIOUS
<1>5. \A k \in 0..Len(h) :
        /\ Cardinality(Later(g, k)) = Cardinality(Later(h, k)) + one
        /\ Cardinality(Later(h, k)) \in Nat
  <2>1. \A k \in 0..Len(h) : k \in Nat
    BY <1>1
  <2>. QED BY <1>1, <2>1, LaterAppend, LaterFinite
<1>6. 0 \in 0..Len(h) /\ \A k \in 1..Len(h) : k \in 0..Len(h)
  BY <1>1
<1>7. Cardinality(Later(g, n)) \in Nat
  <2>1. n \in Nat
    BY <1>1
  <2> HIDE DEF n, g
  <2>. QED BY <1>2, <2>1, LaterFinite
<1>8. \A k \in 1..Len(h) : h[k].items \subseteq MemoryIds
  <2>1. \A x \in HistoryMessages : x.items \subseteq MemoryIds
    BY DEF HistoryMessages
  <2>2. \A k \in 1..Len(h) : h[k] \in HistoryMessages
    BY <1>1
  <2>. QED BY <2>1, <2>2
<1>9. m.items \subseteq MemoryIds /\ \A i \in MemoryIds : goneAt[i] \in Nat
  BY DEF HistoryMessages, MemoryInv, MemoryTypes
<1>10. MemoryTypes'
  BY <1>2, <1>3 DEF MemoryInv, MemoryTypes
<1>11. \A k \in DOMAIN h : \A i \in h[k].items :
         Archived(i) => Cardinality(Later(h, 0)) <= goneAt[i] + Cardinality(Later(h, k))
  BY DEF MemoryInv, ResultsOld
<1>12. \A i : Archived(i)' = Archived(i)
  BY DEF Archived
<1>13. \A i \in m.items : Archived(i) => goneAt[i] = Cardinality(Later(h, 0)) /\ one = 0
  OBVIOUS
<1>14. goneAt' = goneAt
  OBVIOUS
<1>15. ASSUME NEW c \in MemoryCallers, memoryRequest'[c].pc = "rank"
       PROVE  memoryRequest'[c] = memoryRequest[c] /\ one = 0
  BY <1>15
<1> HIDE DEF h, g, n, one
<1>16. ASSUME NEW k \in DOMAIN g, NEW i \in g[k].items, Archived(i)
       PROVE  Cardinality(Later(g, 0)) <= goneAt[i] + Cardinality(Later(g, k))
  <2>1. CASE k \in 1..Len(h)
    <3>1. i \in h[k].items /\ i \in MemoryIds /\ goneAt[i] \in Nat
      BY <1>2, <1>8, <1>9, <1>16, <2>1
    <3>2. Cardinality(Later(h, 0)) <= goneAt[i] + Cardinality(Later(h, k))
      BY <1>1, <1>11, <1>16, <2>1, <3>1
    <3>. QED BY <1>4, <1>5, <1>6, <2>1, <3>1, <3>2
  <2>2. CASE k = n
    <3>1. i \in m.items /\ goneAt[i] \in Nat /\ goneAt[i] = Cardinality(Later(h, 0)) /\ one = 0
      BY <1>2, <1>9, <1>13, <1>16, <2>2
    <3>. QED BY <1>5, <1>6, <1>7, <2>2, <3>1
  <2>. QED BY <1>2, <2>1, <2>2
<1>17. ResultsOld'
  <2> SUFFICES ASSUME NEW k \in DOMAIN history', NEW i \in history'[k].items, Archived(i)'
               PROVE  Cardinality(Later(history', 0)) <= goneAt'[i] + Cardinality(Later(history', k))
    BY DEF ResultsOld
  <2>1. k \in DOMAIN g /\ i \in g[k].items /\ Archived(i)
    BY <1>3, <1>12
  <2>2. Cardinality(Later(g, 0)) <= goneAt[i] + Cardinality(Later(g, k))
    BY <1>16, <2>1
  <2>. QED BY <1>3, <1>14, <2>2
<1>18. SearchesOld'
  <2> SUFFICES ASSUME NEW c \in MemoryCallers, memoryRequest'[c].pc = "rank",
                      NEW i \in memoryRequest'[c].items, Archived(i)'
               PROVE  goneAt'[i] = Cardinality(Later(history', 0))
    BY DEF SearchesOld
  <2>1. memoryRequest'[c] = memoryRequest[c] /\ one = 0 /\ Archived(i)
    BY <1>12, <1>15
  <2>2. goneAt[i] = Cardinality(Later(h, 0))
    BY <2>1 DEF MemoryInv, SearchesOld, h
  <2>3. Cardinality(Later(g, 0)) = Cardinality(Later(h, 0))
    BY <1>5, <1>6, <2>1
  <2>. QED BY <1>3, <1>14, <2>2, <2>3
<1>. QED BY <1>10, <1>17, <1>18 DEF MemoryInv

(* A caller goes on to something that is not a search.                      *)
LEMMA RequestStep ==
  ASSUME MemoryInv, NEW c \in MemoryCallers, NEW r \in MemoryRequests, r.pc # "rank",
         memoryRequest' = [memoryRequest EXCEPT ![c] = r]
  PROVE  /\ memoryRequest' \in [MemoryCallers -> MemoryRequests]
         /\ \A d \in MemoryCallers : memoryRequest'[d].pc = "rank" => memoryRequest'[d] = memoryRequest[d]
<1>1. memoryRequest \in [MemoryCallers -> MemoryRequests]
  BY DEF MemoryInv, MemoryTypes
<1> HIDE DEF MemoryRequests
<1>2. memoryRequest' \in [MemoryCallers -> MemoryRequests]
  BY <1>1
<1>3. memoryRequest'[c] = r /\ \A d \in MemoryCallers : d # c => memoryRequest'[d] = memoryRequest[d]
  BY <1>1
<1>. QED BY <1>2, <1>3

(* An item is given a record that is not archived.                          *)
LEMMA PutStep ==
  ASSUME MemoryInv, NEW i \in MemoryIds, NEW r \in LiveRecords, item' = [item EXCEPT ![i] = r]
  PROVE  /\ item' \in [MemoryIds -> Memory!Records]
         /\ \A j \in MemoryIds : Archived(j)' => Archived(j)
<1>1. item \in [MemoryIds -> Memory!Records] /\ r \in Memory!Records /\ r.state # "archived"
  BY DEF MemoryInv, MemoryTypes, LiveRecords
<1>2. item' \in [MemoryIds -> Memory!Records]
  BY <1>1
<1>3. item'[i] = r /\ \A j \in MemoryIds : j # i => item'[j] = item[j]
  BY <1>1
<1>. QED BY <1>1, <1>2, <1>3 DEF Archived

(* The requests, one shape at a time.                                       *)
LEMMA RequestShapes ==
  ASSUME NEW r \in MemoryRequests
  PROVE  /\ r.pc \in {"add", "update"} =>
              /\ r.id \in MemoryIds /\ r.content \in MemoryContents
              /\ r.vectorOf \in Embedding /\ r.model \in ModelNames
         /\ r.pc = "save" => r.id \in MemoryIds /\ r.record \in LiveRecords
         /\ r.pc = "rank" => r.items \subseteq MemoryIds
BY DEF MemoryRequests, Memory!Idle

LEMMA RequestsMade ==
  /\ Memory!Idle \in MemoryRequests /\ Memory!Idle.pc = "idle"
  /\ [pc |-> "touch"] \in MemoryRequests
  /\ \A op \in {"add", "update"}, i \in MemoryIds, t \in MemoryContents, v \in Embedding, n \in ModelNames :
        [pc |-> op, id |-> i, content |-> t, vectorOf |-> v, model |-> n] \in MemoryRequests
  /\ \A i \in MemoryIds, r \in LiveRecords : [pc |-> "save", id |-> i, record |-> r] \in MemoryRequests
  /\ \A items \in SUBSET MemoryIds : [pc |-> "rank", items |-> items] \in MemoryRequests
BY DEF MemoryRequests, Memory!Idle

LEMMA RecordsMade ==
  ASSUME NEW t \in MemoryContents, NEW v \in Embedding, NEW n \in ModelNames
  PROVE  [state |-> "live", content |-> t, vectorOf |-> v, model |-> n] \in LiveRecords
BY DEF LiveRecords, Memory!Records, Embedding, ModelNames

(* An item is deleted, if it is there: it is gone with this turn.           *)
LEMMA DeleteStep ==
  ASSUME MemoryInv, NEW i \in MemoryIds, Memory!DeleteMemoryItem(i)
  PROVE  /\ item' \in [MemoryIds -> Memory!Records] /\ goneAt' \in [MemoryIds -> Nat]
         /\ \A j \in MemoryIds : Archived(j)' =>
              \/ Archived(j) /\ goneAt'[j] = goneAt[j]
              \/ goneAt'[j] = Cardinality(Later(history, 0))
<1> DEFINE turns == Cardinality(Later(history, 0))
           gone == [item[i] EXCEPT !.state = "archived"]
<1>1. /\ item \in [MemoryIds -> Memory!Records] /\ goneAt \in [MemoryIds -> Nat]
      /\ turns \in Nat /\ Memory!Turns = turns
  <2>1. history \in Seq(HistoryMessages) /\ 0 \in Nat
    BY DEF MemoryInv, MemoryTypes
  <2>. QED BY <2>1, LaterFinite, TurnsAre DEF MemoryInv, MemoryTypes
<1>2. CASE i \notin Memory!Live
  <2>1. item' = item
    <3>1. CASE Backend = "fs"
      BY <1>2, <3>1 DEF Memory!DeleteMemoryItem, Memory!DeleteMemoryItemFile
    <3>2. CASE Backend # "fs"
      <4>1. item' = [j \in MemoryIds |-> item[j]]
        BY <1>2, <3>2 DEF Memory!DeleteMemoryItem, Memory!DeleteMemoryItemRow
      <4>. QED BY <1>1, <4>1
    <3>. QED BY <3>1, <3>2
  <2>2. goneAt' = goneAt
    BY <1>2 DEF Memory!DeleteMemoryItem
  <2>. QED BY <1>1, <2>1, <2>2 DEF Archived
<1>3. CASE i \in Memory!Live
  <2>1. item' = [item EXCEPT ![i] = gone]
    <3>1. CASE Backend = "fs"
      BY <1>3, <3>1 DEF Memory!DeleteMemoryItem, Memory!DeleteMemoryItemFile
    <3>2. CASE Backend # "fs"
      <4>1. item' = [j \in MemoryIds |-> IF j = i /\ j \in Memory!Live
                                         THEN [item[j] EXCEPT !.state = "archived"] ELSE item[j]]
        BY <3>2 DEF Memory!DeleteMemoryItem, Memory!DeleteMemoryItemRow
      <4>. QED BY <1>1, <1>3, <4>1
    <3>. QED BY <3>1, <3>2
  <2>2. goneAt' = [goneAt EXCEPT ![i] = turns]
    BY <1>1, <1>3 DEF Memory!DeleteMemoryItem
  <2>3. gone \in Memory!Records
    BY <1>1 DEF Memory!Records
  <2> HIDE DEF turns, gone
  <2>4. item' \in [MemoryIds -> Memory!Records] /\ goneAt' \in [MemoryIds -> Nat]
    BY <1>1, <2>1, <2>2, <2>3
  <2>5. goneAt'[i] = turns /\ \A j \in MemoryIds : j # i => item'[j] = item[j] /\ goneAt'[j] = goneAt[j]
    BY <1>1, <2>1, <2>2
  <2>. QED BY <2>4, <2>5 DEF Archived, turns
<1>. QED BY <1>2, <1>3

(* The tools and the handlers change items.                                 *)
LEMMA BatchStep ==
  ASSUME MemoryInv, NEW c \in MemoryCallers,
         Memory!BatchAdd(c) \/ Memory!BatchUpdate(c) \/ Memory!BatchUpdateSaves(c)
  PROVE  MemoryInv'
<1> DEFINE r == memoryRequest[c]
<1>1. r \in MemoryRequests /\ item \in [MemoryIds -> Memory!Records] /\ goneAt \in [MemoryIds -> Nat]
  BY DEF MemoryInv, MemoryTypes
<1>2. UNCHANGED <<model, history, goneAt>>
  BY DEF Memory!BatchAdd, Memory!BatchUpdate, Memory!BatchUpdateSaves
<1> HIDE DEF r
<1>3. ASSUME NEW q \in MemoryRequests, q.pc # "rank", memoryRequest' = [memoryRequest EXCEPT ![c] = q],
             \/ item' = item
             \/ \E i \in MemoryIds : \E record \in LiveRecords : item' = [item EXCEPT ![i] = record]
      PROVE  MemoryInv'
  <2>1. /\ item' \in [MemoryIds -> Memory!Records]
        /\ \A j \in MemoryIds : Archived(j)' => Archived(j)
    BY <1>1, <1>3, PutStep DEF Archived
  <2>2. /\ memoryRequest' \in [MemoryCallers -> MemoryRequests]
        /\ \A d \in MemoryCallers : memoryRequest'[d].pc = "rank" => memoryRequest'[d] = memoryRequest[d]
    BY <1>3, RequestStep
  <2>. QED BY <1>1, <1>2, <2>1, <2>2, ItemStep
<1>4. /\ Memory!Idle \in MemoryRequests /\ Memory!Idle.pc # "rank"
      /\ [pc |-> "touch"] \in MemoryRequests /\ [pc |-> "touch"].pc # "rank"
  BY RequestsMade
<1>5. CASE Memory!BatchAdd(c)
  <2> DEFINE record == [state |-> "live", content |-> r.content, vectorOf |-> r.vectorOf, model |-> r.model]
  <2>1. r.pc = "add" /\ memoryRequest' = [memoryRequest EXCEPT ![c] = [pc |-> "touch"]]
        /\ item' = [item EXCEPT ![r.id] = record]
    BY <1>5 DEF Memory!BatchAdd, Memory!CreateMemoryItem, Memory!CreateMemoryItemFile,
       Memory!CreateMemoryItemRow, Memory!Put, Memory!Touching, r
  <2>2. r.id \in MemoryIds /\ record \in LiveRecords
    BY <1>1, <2>1, RequestShapes, RecordsMade
  <2>. QED BY <1>3, <1>4, <2>1, <2>2
<1>6. CASE Memory!BatchUpdate(c)
  <2> DEFINE i == r.id
             record == Memory!Modified(r, item[i])
  <2>1. r.pc = "update"
    BY <1>6 DEF Memory!BatchUpdate, r
  <2>2. i \in MemoryIds /\ r.content \in MemoryContents /\ r.vectorOf \in Embedding /\ r.model \in ModelNames
    BY <1>1, <2>1, RequestShapes
  <2>3. item[i] \in Memory!Records /\ item[i].vectorOf \in Embedding /\ item[i].model \in ModelNames
    BY <1>1, <2>2 DEF Memory!Records, Embedding, ModelNames
  <2>4. record \in LiveRecords
    <3> DEFINE v == IF r.vectorOf = Memory!None THEN item[i].vectorOf ELSE r.vectorOf
               n == IF r.vectorOf = Memory!None THEN item[i].model ELSE r.model
    <3>1. v \in Embedding /\ n \in ModelNames
      BY <2>2, <2>3
    <3>2. record = [state |-> "live", content |-> r.content, vectorOf |-> v, model |-> n]
      BY DEF Memory!Modified
    <3> HIDE DEF v, n, record
    <3>. QED BY <2>2, <3>1, <3>2, RecordsMade
  <2>5. CASE /\ Memory!ModifyMemoryItemFile(i, record)
             /\ IF i \in Memory!Live THEN Memory!Touching(c) ELSE Memory!Answered(c)
    <3>1. i \in Memory!Live => [record EXCEPT !.state = item[i].state] = record
      <4>1. record.state = "live" /\ record = [record EXCEPT !.state = "live"]
        BY DEF Memory!Modified
      <4>2. i \in Memory!Live => item[i].state = "live"
        BY DEF Memory!Live
      <4> HIDE DEF record, i
      <4>. QED BY <4>1, <4>2
    <3>2. item' = item \/ item' = [item EXCEPT ![i] = record]
      BY <2>5, <3>1 DEF Memory!ModifyMemoryItemFile, Memory!Put
    <3>3. \/ memoryRequest' = [memoryRequest EXCEPT ![c] = Memory!Idle]
          \/ memoryRequest' = [memoryRequest EXCEPT ![c] = [pc |-> "touch"]]
      BY <2>5 DEF Memory!Touching, Memory!Answered
    <3> HIDE DEF record, i
    <3>. QED BY <1>3, <1>4, <2>2, <2>4, <3>2, <3>3
  <2>6. CASE /\ item' = item
             /\ IF i \in Memory!Live
                THEN memoryRequest' = [memoryRequest EXCEPT ![c] = [pc |-> "save", id |-> i, record |-> record]]
                ELSE Memory!Answered(c)
    <3> DEFINE q == [pc |-> "save", id |-> i, record |-> record]
    <3>1. q \in MemoryRequests /\ q.pc # "rank"
      BY <2>2, <2>4, RequestsMade
    <3>2. \/ memoryRequest' = [memoryRequest EXCEPT ![c] = Memory!Idle]
          \/ memoryRequest' = [memoryRequest EXCEPT ![c] = q]
      BY <2>6 DEF Memory!Answered
    <3> HIDE DEF q
    <3>. QED BY <1>3, <1>4, <2>6, <3>1, <3>2
  <2>. QED BY <1>6, <2>5, <2>6 DEF Memory!BatchUpdate, r
<1>7. CASE Memory!BatchUpdateSaves(c)
  <2>1. r.pc = "save" /\ memoryRequest' = [memoryRequest EXCEPT ![c] = [pc |-> "touch"]]
        /\ item' = [item EXCEPT ![r.id] = r.record]
    BY <1>7 DEF Memory!BatchUpdateSaves, Memory!SaveMemoryItemRow, Memory!Put, Memory!Touching, r
  <2>2. r.id \in MemoryIds /\ r.record \in LiveRecords
    BY <1>1, <2>1, RequestShapes
  <2>. QED BY <1>3, <1>4, <2>1, <2>2
<1>. QED BY <1>5, <1>6, <1>7

LEMMA ToolStep ==
  ASSUME MemoryInv, NEW c \in MemoryCallers, NEW i \in MemoryIds,
         \/ \E op \in {"add", "update"}, t \in MemoryContents : Memory!BatchEmbed(c, op, i, t)
         \/ Memory!ExecuteSummary(c, i) \/ Memory!ExecuteFilter(c, i)
         \/ Memory!BatchDelete(c, i) \/ Memory!HandleMemoryDelete(c, i)
  PROVE  MemoryInv'
<1>1. /\ item \in [MemoryIds -> Memory!Records] /\ goneAt \in [MemoryIds -> Nat] /\ model \in ModelNames
      /\ memoryRequest \in [MemoryCallers -> MemoryRequests]
  BY DEF MemoryInv, MemoryTypes
<1>2. /\ Memory!Idle \in MemoryRequests /\ Memory!Idle.pc # "rank"
      /\ [pc |-> "touch"] \in MemoryRequests /\ [pc |-> "touch"].pc # "rank"
  BY RequestsMade
<1>3. ASSUME NEW op \in {"add", "update"}, NEW t \in MemoryContents, Memory!BatchEmbed(c, op, i, t)
      PROVE  MemoryInv'
  <2>1. PICK v \in Memory!Embedded(t) :
          memoryRequest' = [memoryRequest EXCEPT ![c] =
             [pc |-> op, id |-> i, content |-> t, vectorOf |-> v.vectorOf, model |-> v.model]]
    BY <1>3 DEF Memory!BatchEmbed
  <2>2. v.vectorOf \in Embedding /\ v.model \in ModelNames
    BY <1>1 DEF Memory!Embedded, Embedding, ModelNames
  <2> DEFINE q == [pc |-> op, id |-> i, content |-> t, vectorOf |-> v.vectorOf, model |-> v.model]
  <2>3. q \in MemoryRequests /\ q.pc # "rank"
    BY <2>2, RequestsMade
  <2>4. memoryRequest' = [memoryRequest EXCEPT ![c] = q]
    BY <2>1
  <2> HIDE DEF q
  <2>5. /\ memoryRequest' \in [MemoryCallers -> MemoryRequests]
        /\ \A d \in MemoryCallers : memoryRequest'[d].pc = "rank" => memoryRequest'[d] = memoryRequest[d]
    BY <2>3, <2>4, RequestStep
  <2>6. UNCHANGED <<item, model, history, goneAt>>
    BY <1>3 DEF Memory!BatchEmbed
  <2>7. \A j \in MemoryIds : Archived(j)' => Archived(j) /\ goneAt'[j] = goneAt[j]
    BY <2>6 DEF Archived
  <2>. QED BY <1>1, <2>5, <2>6, <2>7, ItemStep
<1>4. ASSUME NEW t \in MemoryContents, Memory!PersistResult(c, i, t)
      PROVE  MemoryInv'
  <2> DEFINE r == [state |-> "live", content |-> t, vectorOf |-> Memory!None, model |-> Memory!None]
  <2>1. r \in LiveRecords
    <3>1. Memory!None \in Embedding /\ Memory!None \in ModelNames
      BY DEF Embedding, ModelNames
    <3>. QED BY <3>1, RecordsMade
  <2>2. /\ item' = [item EXCEPT ![i] = r] /\ memoryRequest' = [memoryRequest EXCEPT ![c] = [pc |-> "touch"]]
        /\ UNCHANGED <<model, history, goneAt>>
    BY <1>4 DEF Memory!PersistResult, Memory!CreateMemoryItem, Memory!CreateMemoryItemFile,
       Memory!CreateMemoryItemRow, Memory!Put, Memory!Touching
  <2> HIDE DEF r
  <2>3. /\ memoryRequest' \in [MemoryCallers -> MemoryRequests]
        /\ \A d \in MemoryCallers : memoryRequest'[d].pc = "rank" => memoryRequest'[d] = memoryRequest[d]
    BY <1>2, <2>2, RequestStep
  <2>4. item' \in [MemoryIds -> Memory!Records] /\ \A j \in MemoryIds : Archived(j)' => Archived(j)
    BY <2>1, <2>2, PutStep
  <2>. QED BY <1>1, <2>2, <2>3, <2>4, ItemStep
<1>5. CASE Memory!BatchDelete(c, i)
  <2>1. Memory!DeleteMemoryItem(i) /\ UNCHANGED <<model, history>>
    BY <1>5 DEF Memory!BatchDelete
  <2>2. \/ memoryRequest' = [memoryRequest EXCEPT ![c] = Memory!Idle]
        \/ memoryRequest' = [memoryRequest EXCEPT ![c] = [pc |-> "touch"]]
    BY <1>5 DEF Memory!BatchDelete, Memory!Touching, Memory!Answered
  <2>3. /\ memoryRequest' \in [MemoryCallers -> MemoryRequests]
        /\ \A d \in MemoryCallers : memoryRequest'[d].pc = "rank" => memoryRequest'[d] = memoryRequest[d]
    BY <1>2, <2>2, RequestStep
  <2>. QED BY <2>1, <2>3, DeleteStep, ItemStep
<1>6. CASE Memory!HandleMemoryDelete(c, i)
  <2>1. Memory!DeleteMemoryItem(i) /\ UNCHANGED <<model, history, memoryRequest>>
    BY <1>6 DEF Memory!HandleMemoryDelete
  <2>. QED BY <1>1, <2>1, DeleteStep, ItemStep
<1>. QED BY <1>3, <1>4, <1>5, <1>6 DEF Memory!ExecuteSummary, Memory!ExecuteFilter

(* A search is of what is there when it begins.                             *)
LEMMA SearchBegins ==
  ASSUME MemoryInv, NEW c \in MemoryCallers, Memory!ExecuteRetrieve(c)
  PROVE  MemoryInv'
<1> DEFINE r == [pc |-> "rank", items |-> Memory!ListMemoryItems]
<1>1. UNCHANGED <<item, model, history, goneAt>> /\ memoryRequest' = [memoryRequest EXCEPT ![c] = r]
  BY DEF Memory!ExecuteRetrieve
<1>2. /\ Memory!ListMemoryItems \subseteq MemoryIds
      /\ \A i \in Memory!ListMemoryItems : item[i].state # "archived"
  BY DEF Memory!ListMemoryItems, Memory!ListMemoryItemsFile, Memory!ListMemoryItemsRow
<1>3. r \in MemoryRequests /\ memoryRequest \in [MemoryCallers -> MemoryRequests]
  BY <1>2, RequestsMade DEF MemoryInv, MemoryTypes
<1>4. \A i \in r.items : ~ Archived(i)
  BY <1>2 DEF Archived
<1> HIDE DEF r
<1>5. /\ memoryRequest' \in [MemoryCallers -> MemoryRequests]
      /\ memoryRequest'[c] = r /\ \A d \in MemoryCallers : d # c => memoryRequest'[d] = memoryRequest[d]
  BY <1>1, <1>3
<1>6. MemoryTypes' /\ ResultsOld'
  BY <1>1, <1>5 DEF MemoryInv, MemoryTypes, ResultsOld, Archived
<1>7. \A i : Archived(i)' = Archived(i)
  BY <1>1 DEF Archived
<1>8. SearchesOld'
  <2> SUFFICES ASSUME NEW d \in MemoryCallers, memoryRequest'[d].pc = "rank",
                      NEW i \in memoryRequest'[d].items, Archived(i)
               PROVE  goneAt[i] = Cardinality(Later(history, 0))
    BY <1>1, <1>7 DEF SearchesOld
  <2>. QED BY <1>4, <1>5 DEF MemoryInv, SearchesOld
<1>. QED BY <1>6, <1>8 DEF MemoryInv

(* Its result has some of what it began with.                               *)
LEMMA SearchEnds ==
  ASSUME MemoryInv, NEW c \in MemoryCallers, Memory!ExecuteRetrieveAnswers(c)
  PROVE  MemoryInv'
<1> DEFINE r == memoryRequest[c]
<1>1. /\ r.pc = "rank" /\ memoryRequest' = [memoryRequest EXCEPT ![c] = Memory!Idle]
      /\ UNCHANGED <<item, model, goneAt>>
  BY DEF Memory!ExecuteRetrieveAnswers, Memory!Answered
<1>2. PICK found \in Memory!SearchMemory(r.items) :
        history' = Append(history, [role |-> "tool", items |-> found])
  BY DEF Memory!ExecuteRetrieveAnswers
<1> DEFINE m == [role |-> "tool", items |-> found]
<1>3. found \subseteq r.items
  BY DEF Memory!SearchMemory, Memory!KeywordSearchMemory, Memory!SemanticSearchMemory, Memory!Comparable
<1>4. r.items \subseteq MemoryIds
  BY <1>1, RequestShapes DEF MemoryInv, MemoryTypes
<1>5. m \in HistoryMessages /\ m # Memory!User /\ m.items = found
  <2>1. m.role = "tool" /\ Memory!User.role = "user"
    BY DEF Memory!User
  <2>. QED BY <1>3, <1>4, <2>1 DEF HistoryMessages
<1>6. \A i \in found : Archived(i) => goneAt[i] = Cardinality(Later(history, 0))
  BY <1>1, <1>3 DEF MemoryInv, SearchesOld
<1>7. /\ memoryRequest' \in [MemoryCallers -> MemoryRequests]
      /\ \A d \in MemoryCallers : memoryRequest'[d].pc = "rank" => memoryRequest'[d] = memoryRequest[d]
  BY <1>1, RequestsMade, RequestStep
<1>8. history' = Append(history, m)
  BY <1>2
<1> HIDE DEF m, r
<1>. QED BY <1>1, <1>5, <1>6, <1>7, <1>8, MessageStep

LEMMA MemoryStep ==
  ASSUME MemoryInv, [Memory!Next]_(Memory!vars)
  PROVE  MemoryInv'
<1>1. /\ item \in [MemoryIds -> Memory!Records] /\ goneAt \in [MemoryIds -> Nat] /\ model \in ModelNames
      /\ memoryRequest \in [MemoryCallers -> MemoryRequests] /\ history \in Seq(HistoryMessages)
  BY DEF MemoryInv, MemoryTypes
<1>2. ASSUME NEW c \in MemoryCallers, Memory!CallAfterMutate(c)
      PROVE  MemoryInv'
  <2>1. UNCHANGED <<item, model, history, goneAt>> /\ memoryRequest' = [memoryRequest EXCEPT ![c] = Memory!Idle]
    BY <1>2 DEF Memory!CallAfterMutate, Memory!Answered
  <2>2. /\ memoryRequest' \in [MemoryCallers -> MemoryRequests]
        /\ \A d \in MemoryCallers : memoryRequest'[d].pc = "rank" => memoryRequest'[d] = memoryRequest[d]
    BY <2>1, RequestsMade, RequestStep
  <2>3. \A j \in MemoryIds : Archived(j)' => Archived(j) /\ goneAt'[j] = goneAt[j]
    BY <2>1 DEF Archived
  <2>. QED BY <1>1, <2>1, <2>2, <2>3, ItemStep
<1>3. CASE Memory!UserMessage
  <2>1. /\ history' = Append(history, Memory!User) /\ UNCHANGED <<item, model, goneAt, memoryRequest>>
        /\ \A c \in MemoryCallers : memoryRequest[c].pc # "rank"
    BY <1>3 DEF Memory!UserMessage
  <2>2. Memory!User \in HistoryMessages /\ Memory!User.items = {}
    BY DEF HistoryMessages, Memory!User
  <2>. QED BY <1>1, <2>1, <2>2, MessageStep
<1>4. CASE Memory!ModelConfigured
  <2>1. UNCHANGED <<item, memoryRequest, history, goneAt>> /\ model' \in ModelNames
    BY <1>4 DEF Memory!ModelConfigured, ModelNames
  <2>. QED BY <2>1 DEF MemoryInv, MemoryTypes, ResultsOld, SearchesOld, Archived
<1>5. CASE UNCHANGED Memory!vars
  BY <1>5 DEF Memory!vars, MemoryInv, MemoryTypes, ResultsOld, SearchesOld, Archived
<1>. QED BY <1>2, <1>3, <1>4, <1>5, ToolStep, BatchStep, SearchBegins, SearchEnds DEF Memory!Next

(* What is deleted is out of the prompts of a conversation TurnTTL user     *)
(* messages later, by whatever caller it goes, in either store, and whatever*)
(* update or search of it is under way.                                     *)
THEOREM DeletedForgotten == Memory!Spec => []ForgottenAfterTurns
<1>1. Memory!Init => MemoryInv
  <2> SUFFICES ASSUME Memory!Init
               PROVE  MemoryInv
    OBVIOUS
  <2>1. Memory!NoItem \in Memory!Records
    BY DEF Memory!NoItem, Memory!Records
  <2>2. history = << >> /\ history \in Seq(HistoryMessages) /\ DOMAIN history = {}
    BY DEF Memory!Init
  <2>3. memoryRequest \in [MemoryCallers -> MemoryRequests] /\ \A c \in MemoryCallers : memoryRequest[c].pc = "idle"
    BY RequestsMade DEF Memory!Init
  <2>4. MemoryTypes
    BY <2>1, <2>2, <2>3 DEF Memory!Init, MemoryTypes, ModelNames
  <2>. QED BY <2>2, <2>3, <2>4 DEF MemoryInv, ResultsOld, SearchesOld
<1>2. MemoryInv /\ [Memory!Next]_(Memory!vars) => MemoryInv'
  BY MemoryStep
<1>3. MemoryInv => ForgottenAfterTurns
  <2> SUFFICES ASSUME MemoryInv, NEW i \in Memory!BuildShortTermMemoryOverlay, Archived(i)
               PROVE  Memory!Turns <= goneAt[i] + TurnTTL
    BY DEF ForgottenAfterTurns, Memory!ForgottenAfterTurns, Archived
  <2> DEFINE S == Memory!SelectRecentMemoryRetrieveResults
             k == Memory!Max(S)
  <2>1. history \in Seq(HistoryMessages) /\ goneAt \in [MemoryIds -> Nat]
    BY DEF MemoryInv, MemoryTypes
  <2>2. S # {} /\ i \in history[k].items
    BY DEF Memory!BuildShortTermMemoryOverlay
  <2>3. S \subseteq 1..Len(history) /\ Len(history) \in Nat
    BY <2>1 DEF Memory!SelectRecentMemoryRetrieveResults
  <2>4. k \in S
    <3> HIDE DEF S
    <3>. QED BY <2>2, <2>3, MaxMember
  <2>5. k \in DOMAIN history /\ k \in Nat /\ Memory!TurnsAfter(k) <= TurnTTL
    <3>1. \A x \in S : x \in DOMAIN history /\ Memory!TurnsAfter(x) <= TurnTTL
      BY DEF Memory!SelectRecentMemoryRetrieveResults
    <3> HIDE DEF S, k
    <3>. QED BY <2>1, <2>3, <2>4, <3>1
  <2> HIDE DEF k, S
  <2>6. i \in MemoryIds
    <3>1. history[k] \in HistoryMessages
      BY <2>1, <2>5
    <3>. QED BY <2>2, <3>1 DEF HistoryMessages
  <2>7. Cardinality(Later(history, 0)) <= goneAt[i] + Cardinality(Later(history, k))
    BY <2>2, <2>5 DEF MemoryInv, ResultsOld
  <2>8. /\ Cardinality(Later(history, 0)) = Memory!Turns /\ Cardinality(Later(history, k)) = Memory!TurnsAfter(k)
        /\ Cardinality(Later(history, 0)) \in Nat /\ Cardinality(Later(history, k)) \in Nat
    <3>1. 0 \in Nat
      OBVIOUS
    <3>. QED BY <2>1, <2>5, <3>1, TurnsAre, LaterFinite
  <2>9. goneAt[i] \in Nat
    BY <2>1, <2>6
  <2>. QED BY <2>5, <2>7, <2>8, <2>9, MemoryAssumption
<1>. QED BY <1>1, <1>2, <1>3, PTL DEF Memory!Spec
=============================================================================
