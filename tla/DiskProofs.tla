----------------------------- MODULE DiskProofs -----------------------------
(* What is on disk stays intact, for all published versions, callers and    *)
(* domains.                                                                 *)
EXTENDS Disk, TLAPS

-----------------------------------------------------------------------------
(* The updater. *)

Callers == NodeUpdater!Callers
Stages == NodeUpdater!InPlatformApply
NoFile == NodeUpdater!None
Older(v) == NodeUpdater!Before(v, running)

(* A whole binary, what there is of one, and the states of a caller: a      *)
(* release it has chosen, a binary it has verified.                         *)
Whole == [content : {"whole"}, version : Semver]
File == {NoFile} \cup Whole
CallerState ==
    [pc : {"idle", "begin", "chosen", "done"}]
    \cup [pc : {"check"}, next : {"apply", "download", "done"}]
    \cup [pc : {"download"}, release : 1..Len(Releases)]
    \cup [pc : {"staged"} \cup Stages, binary : Whole]

(* In platformApply, after the stale backup was removed.                    *)
Past == Stages \ {"remove"}

UpdateTypes ==
    /\ latest \in 0..Len(Releases)
    /\ status \in [available : 0..Len(Releases), checked : BOOLEAN]
    /\ current \in File /\ backup \in File
    /\ update \in [Callers -> CallerState]
    /\ running \in Semver

(* What a caller may install is not older than the process.                 *)
ChoiceNotOlder(s) ==
    /\ s.pc = "download" => ~Older(Releases[s.release])
    /\ s.pc \in {"staged"} \cup Stages => ~Older(s.binary.version)

(* Neither is the executable, nor its backup once a caller of this process  *)
(* has removed the one that it found.                                       *)
NotOlder ==
    /\ status.available # 0 => ~Older(Releases[status.available])
    /\ \A c \in Callers : ChoiceNotOlder(update[c])
    /\ current # NoFile => ~Older(current.version)
    /\ (\E c \in Callers : update[c].pc \in Past) /\ backup # NoFile => ~Older(backup.version)

(* Where the binary is at each stage of the only caller in platformApply.   *)
Remains ==
    ~overlapped =>
        /\ \A c \in Callers, d \in Callers : update[c].pc \in Stages /\ update[d].pc \in Stages => c = d
        /\ \A c \in Callers :
             /\ update[c].pc \in {"remove", "backup", "cleanup"} => current # NoFile
             /\ update[c].pc \in {"install", "copy", "move", "restore"} => backup # NoFile
        /\ current # NoFile \/ backup # NoFile
        /\ node = "up" /\ (\A c \in Callers : update[c].pc \notin Stages) => current # NoFile

UpdaterInv == UpdateTypes /\ NotOlder /\ Remains

USE DEF NodeUpdater!Callers, NodeUpdater!InPlatformApply, NodeUpdater!None, Callers, Stages, NoFile,
        NodeUpdater!Background, NodeUpdater!Idle, NodeUpdater!NoRelease

(* A version that is offered as newer is not before the one that runs.      *)
LEMMA NewerNotBefore ==
  ASSUME NEW a \in Semver, NEW b \in Semver, NodeUpdater!IsNewer(a, b)
  PROVE  ~NodeUpdater!Before(a, b)
<1> DEFINE R(v) == NodeUpdater!Rank(v)
<1>1. \A v \in Semver :
        /\ R(v)[1] = v.number
        /\ R(v)[2] = (IF v.ahead > 0 THEN 2 ELSE IF v.pre > 0 THEN 0 ELSE 1)
        /\ R(v)[3] = v.ahead + v.pre
  BY DEF NodeUpdater!Rank
<1>2. \A v \in Semver : v.number \in Nat /\ v.ahead \in Nat /\ v.pre \in Nat /\ (v.ahead = 0 \/ v.pre = 0)
  BY DEF Semver
<1> HIDE DEF R
<1>3. ~(R(a)[1] < R(b)[1])
  BY <1>1, <1>2 DEF NodeUpdater!IsNewer
<1>4. R(a)[1] = R(b)[1] => ~(R(a)[2] < R(b)[2])
  BY <1>1, <1>2 DEF NodeUpdater!IsNewer
<1>5. R(a)[1] = R(b)[1] /\ R(a)[2] = R(b)[2] => ~(R(a)[3] < R(b)[3])
  BY <1>1, <1>2 DEF NodeUpdater!IsNewer
<1>6. ASSUME NEW i \in 1..3, R(a)[i] < R(b)[i], \A j \in 1..(i - 1) : R(a)[j] = R(b)[j]
      PROVE  FALSE
  <2>1. CASE i = 1
    BY <1>3, <1>6, <2>1
  <2>2. CASE i = 2
    BY <1>4, <1>6, <2>2
  <2>3. CASE i = 3
    BY <1>5, <1>6, <2>3
  <2>. QED BY <2>1, <2>2, <2>3
<1>. QED BY <1>6 DEF NodeUpdater!Before, R

(* No version is before itself.                                             *)
LEMMA SelfNotBefore ==
  ASSUME NEW v \in Semver
  PROVE  ~NodeUpdater!Before(v, v)
  BY DEF NodeUpdater!Before, NodeUpdater!Rank, Semver

(* What a caller carries, by where it is.                                   *)
LEMMA StateFacts ==
  ASSUME NEW s \in CallerState
  PROVE  /\ s.pc = "check" => s.next \in {"apply", "download", "done"}
         /\ s.pc = "download" => s.release \in 1..Len(Releases)
         /\ s.pc \in {"staged"} \cup Stages =>
              /\ s.binary \in Whole
              /\ \A pc \in Stages : /\ [s EXCEPT !.pc = pc] \in CallerState
                                    /\ [s EXCEPT !.pc = pc].pc = pc
                                    /\ [s EXCEPT !.pc = pc].binary = s.binary
<1>1. CASE s \in [pc : {"idle", "begin", "chosen", "done"}]
  BY <1>1
<1>2. CASE s \in [pc : {"check"}, next : {"apply", "download", "done"}]
  BY <1>2
<1>3. CASE s \in [pc : {"download"}, release : 1..Len(Releases)]
  BY <1>3
<1>4. CASE s \in [pc : {"staged"} \cup Stages, binary : Whole]
  BY <1>4 DEF CallerState
<1>. QED BY <1>1, <1>2, <1>3, <1>4 DEF CallerState

(* A binary is not nothing.                                                 *)
LEMMA WholeIsFile == \A b \in Whole : b \in File /\ b # NoFile /\ b.content = "whole" /\ b.version \in Semver
  BY DEF Whole, File

LEMMA UpdaterStart == NodeUpdater!Init => UpdaterInv
<1> SUFFICES ASSUME NodeUpdater!Init
             PROVE  UpdaterInv
  OBVIOUS
<1>1. current \in Whole /\ current.version = Local /\ backup = NoFile /\ running = Local
  BY VersionsAssumption DEF NodeUpdater!Init, NodeUpdater!Binary, Whole
<1>2. \A c \in Callers : update[c] = [pc |-> "idle"]
  BY DEF NodeUpdater!Init
<1>3. [pc |-> "idle"] \in CallerState
  BY DEF CallerState
<1>4. UpdateTypes
  <2>1. update \in [Callers -> CallerState]
    BY <1>3 DEF NodeUpdater!Init
  <2>2. latest \in 0..Len(Releases)
    BY VersionsAssumption DEF NodeUpdater!Init
  <2>3. status \in [available : 0..Len(Releases), checked : BOOLEAN]
    BY VersionsAssumption DEF NodeUpdater!Init, NodeUpdater!Fresh
  <2>. QED BY <1>1, <2>1, <2>2, <2>3, VersionsAssumption DEF UpdateTypes, File
<1>5. NotOlder
  <2>1. ~Older(current.version)
    BY <1>1, SelfNotBefore, VersionsAssumption DEF Older
  <2>2. status.available = 0
    BY DEF NodeUpdater!Init, NodeUpdater!Fresh
  <2>. QED BY <1>1, <1>2, <2>1, <2>2 DEF NotOlder, ChoiceNotOlder, Past
<1>6. Remains
  BY <1>1, <1>2, WholeIsFile DEF Remains, NodeUpdater!Init
<1>. QED BY <1>4, <1>5, <1>6 DEF UpdaterInv

(* A step of a caller outside of platformApply, which may change what is    *)
(* known of the releases, but no file.                                      *)
LEMMA QuietStep ==
  ASSUME UpdaterInv, NEW c \in Callers, NEW s \in CallerState,
         update[c].pc \notin Stages, s.pc \notin Stages,
         update' = [update EXCEPT ![c] = s], ChoiceNotOlder(s),
         latest' = latest, status' \in [available : 0..Len(Releases), checked : BOOLEAN],
         status'.available # 0 => ~Older(Releases[status'.available]),
         UNCHANGED <<current, backup, running, node, overlapped>>
  PROVE  UpdaterInv'
<1>1. UpdateTypes'
  BY DEF UpdaterInv, UpdateTypes
<1>2. \A d \in Callers : update'[d] = IF d = c THEN s ELSE update[d]
  BY DEF UpdaterInv, UpdateTypes
<1>3. NotOlder'
  <2>1. ASSUME NEW d \in Callers
        PROVE  ChoiceNotOlder(update[d])'
    <3>1. ChoiceNotOlder(update'[d])
      BY <1>2 DEF UpdaterInv, NotOlder
    <3>. QED BY <3>1 DEF ChoiceNotOlder, Older
  <2>2. (current # NoFile => ~Older(current.version))'
    BY DEF UpdaterInv, NotOlder, Older
  <2>3. ((\E d \in Callers : update[d].pc \in Past) /\ backup # NoFile => ~Older(backup.version))'
    BY <1>2 DEF UpdaterInv, NotOlder, Older, Past
  <2>4. (status.available # 0 => ~Older(Releases[status.available]))'
    BY DEF Older
  <2>. QED BY <2>1, <2>2, <2>3, <2>4 DEF NotOlder
<1>4. Remains'
  <2>1. \A d \in Callers : /\ update'[d].pc \in Stages <=> update[d].pc \in Stages
                           /\ update'[d].pc \in Stages => update'[d] = update[d]
    BY <1>2
  <2>. QED BY <2>1 DEF UpdaterInv, Remains
<1>. QED BY <1>1, <1>3, <1>4 DEF UpdaterInv

USE DEF NodeUpdater!Enter, NodeUpdater!World, NodeUpdater!Files, NodeUpdater!Process

(* The states a caller goes to without a binary.                            *)
LEMMA PlainState ==
  /\ \A pc \in {"idle", "begin", "chosen", "done"} : [pc |-> pc] \in CallerState /\ ChoiceNotOlder([pc |-> pc])
  /\ \A n \in {"apply", "download", "done"} : /\ [pc |-> "check", next |-> n] \in CallerState
                                             /\ ChoiceNotOlder([pc |-> "check", next |-> n])
  BY DEF CallerState, ChoiceNotOlder

(* The steps of a caller outside of platformApply.                          *)
LEMMA QuietSteps ==
  ASSUME UpdaterInv, NEW c \in Callers,
         \/ c = "background" /\ NodeUpdater!RunCycle
         \/ NodeUpdater!HandleUpdateCheck(c) \/ NodeUpdater!HandleUpdateApply(c)
         \/ NodeUpdater!ExecuteUpdate(c) \/ NodeUpdater!Check(c) \/ NodeUpdater!ApplyBegins(c)
         \/ NodeUpdater!DownloadAndVerify(c) \/ NodeUpdater!Return(c)
  PROVE  UpdaterInv'
<1>1. /\ latest \in 0..Len(Releases) /\ status \in [available : 0..Len(Releases), checked : BOOLEAN]
      /\ status.available # 0 => ~Older(Releases[status.available])
      /\ update[c] \in CallerState /\ ChoiceNotOlder(update[c]) /\ running \in Semver
  BY DEF UpdaterInv, UpdateTypes, NotOlder
<1>2. ASSUME NEW s \in CallerState, update' = [update EXCEPT ![c] = s], update[c].pc \notin Stages,
             s.pc \notin Stages, ChoiceNotOlder(s),
             UNCHANGED <<latest, status, current, backup, running, node, overlapped>>
      PROVE  UpdaterInv'
  BY <1>1, <1>2, QuietStep
<1>3. \A n \in {"apply", "download", "done"} :
        update' = [update EXCEPT ![c] = [pc |-> "check", next |-> n]] /\ update[c].pc \notin Stages
        /\ UNCHANGED <<latest, status, current, backup, running, node, overlapped>>
          => UpdaterInv'
  BY <1>2, PlainState
<1>4. \A pc \in {"idle", "begin", "chosen", "done"} :
        update' = [update EXCEPT ![c] = [pc |-> pc]] /\ update[c].pc \notin Stages
        /\ UNCHANGED <<latest, status, current, backup, running, node, overlapped>>
          => UpdaterInv'
  BY <1>2, PlainState
<1>5. CASE c = "background" /\ NodeUpdater!RunCycle
  <2>1. PICK n \in {"apply", "done"} : update' = [update EXCEPT ![c] = [pc |-> "check", next |-> n]]
    BY <1>5 DEF NodeUpdater!RunCycle
  <2>2. update[c].pc = "idle" /\ UNCHANGED <<latest, status, current, backup, running, node, overlapped>>
    BY <1>5 DEF NodeUpdater!RunCycle
  <2>. QED BY <1>3, <2>1, <2>2
<1>6. CASE NodeUpdater!HandleUpdateCheck(c) \/ NodeUpdater!HandleUpdateApply(c)
  <2>1. update[c].pc = "idle" /\ UNCHANGED <<latest, status, current, backup, running, node, overlapped>>
    BY <1>6 DEF NodeUpdater!HandleUpdateCheck, NodeUpdater!HandleUpdateApply
  <2>2. CASE NodeUpdater!HandleUpdateCheck(c)
    BY <1>3, <2>1, <2>2 DEF NodeUpdater!HandleUpdateCheck
  <2>3. CASE NodeUpdater!HandleUpdateApply(c)
    BY <1>4, <2>1, <2>3 DEF NodeUpdater!HandleUpdateApply
  <2>. QED BY <1>6, <2>2, <2>3
<1>7. CASE NodeUpdater!ExecuteUpdate(c)
  <2>1. update[c].pc = "idle" /\ UNCHANGED <<latest, status, current, backup, running, node, overlapped>>
    BY <1>7 DEF NodeUpdater!ExecuteUpdate
  <2>2. \/ update' = [update EXCEPT ![c] = [pc |-> "check", next |-> "apply"]]
        \/ \E pc \in {"begin", "done"} : update' = [update EXCEPT ![c] = [pc |-> pc]]
    BY <1>7 DEF NodeUpdater!ExecuteUpdate
  <2>. QED BY <1>3, <1>4, <2>1, <2>2
<1>8. CASE NodeUpdater!Check(c)
  <2>1. /\ status' \in [available : 0..Len(Releases), checked : BOOLEAN]
        /\ status'.available # 0 => ~Older(Releases[status'.available])
    <3>1. CASE status' = [status EXCEPT !.checked = TRUE]
      BY <1>1, <3>1
    <3>2. CASE /\ latest > 0
               /\ status' = [checked |-> TRUE,
                             available |-> IF NodeUpdater!IsNewer(Releases[latest], running) THEN latest ELSE 0]
      <4>1. Releases[latest] \in Semver
        BY <1>1, <3>2, VersionsAssumption
      <4>. QED BY <1>1, <3>2, <4>1, NewerNotBefore DEF Older
    <3>. QED BY <1>8, <3>1, <3>2 DEF NodeUpdater!Check
  <2>2. PICK pc \in {"begin", "chosen", "done"} : update' = [update EXCEPT ![c] = [pc |-> pc]]
    BY <1>8 DEF NodeUpdater!Check
  <2>. QED BY <1>8, <2>1, <2>2, PlainState, QuietStep DEF NodeUpdater!Check
<1>9. CASE NodeUpdater!ApplyBegins(c)
  <2>1. CASE /\ status.available # 0
             /\ update' = [update EXCEPT ![c] = [pc |-> "download", release |-> status.available]]
    <3>1. [pc |-> "download", release |-> status.available] \in CallerState
      BY <1>1, <2>1 DEF CallerState
    <3>2. ChoiceNotOlder([pc |-> "download", release |-> status.available])
      BY <1>1, <2>1 DEF ChoiceNotOlder
    <3>. QED BY <1>2, <1>9, <2>1, <3>1, <3>2 DEF NodeUpdater!ApplyBegins
  <2>2. CASE update' = [update EXCEPT ![c] = [pc |-> "check", next |-> "download"]]
    BY <1>2, <1>9, <2>2, PlainState DEF NodeUpdater!ApplyBegins
  <2>3. CASE update' = [update EXCEPT ![c] = [pc |-> "done"]]
    BY <1>2, <1>9, <2>3, PlainState DEF NodeUpdater!ApplyBegins
  <2>. QED BY <1>9, <2>1, <2>2, <2>3 DEF NodeUpdater!ApplyBegins
<1>10. CASE NodeUpdater!DownloadAndVerify(c)
  <2>1. CASE update' = [update EXCEPT ![c] = [pc |-> "done"]]
    BY <1>2, <1>10, <2>1, PlainState DEF NodeUpdater!DownloadAndVerify
  <2>2. CASE update' = [update EXCEPT ![c] = [pc |-> "staged",
                          binary |-> [content |-> "whole", version |-> Releases[update[c].release]]]]
    <3>1. update[c].release \in 1..Len(Releases) /\ ~Older(Releases[update[c].release])
      BY <1>1, <1>10, StateFacts DEF NodeUpdater!DownloadAndVerify, ChoiceNotOlder
    <3>2. Releases[update[c].release] \in Semver
      BY <3>1, VersionsAssumption
    <3> DEFINE b == [content |-> "whole", version |-> Releases[update[c].release]]
    <3>3. b \in Whole /\ b.version = Releases[update[c].release]
      BY <3>2 DEF Whole
    <3> HIDE DEF b
    <3> DEFINE s == [pc |-> "staged", binary |-> b]
    <3>4. s \in CallerState /\ s.pc = "staged" /\ s.binary = b
      BY <3>3 DEF CallerState
    <3>5. update' = [update EXCEPT ![c] = s]
      BY <2>2 DEF b
    <3> HIDE DEF s
    <3>6. ChoiceNotOlder(s)
      BY <3>1, <3>3, <3>4 DEF ChoiceNotOlder
    <3>. QED BY <1>2, <1>10, <3>4, <3>5, <3>6 DEF NodeUpdater!DownloadAndVerify
  <2>. QED BY <1>10, <2>1, <2>2
       DEF NodeUpdater!DownloadAndVerify, NodeUpdater!Downloads, NodeUpdater!Verified, NodeUpdater!Extracted
<1>11. CASE NodeUpdater!Return(c)
  BY <1>2, <1>11, PlainState DEF NodeUpdater!Return
<1>. QED BY <1>5, <1>6, <1>7, <1>8, <1>9, <1>10, <1>11

USE DEF NodeUpdater!Move

(* A step of a caller that verified a binary, to the end or to another      *)
(* stage with the same binary: what it leaves to show is where files are.   *)
LEMMA StageStep ==
  ASSUME UpdaterInv, NEW c \in Callers, update[c].pc \in {"staged"} \cup Stages,
         NEW pc \in Stages \cup {"done"},
         update' = [update EXCEPT ![c] = IF pc = "done" THEN [pc |-> "done"] ELSE [update[c] EXCEPT !.pc = pc]],
         UNCHANGED <<latest, status, running>>, current' \in File, backup' \in File,
         (current # NoFile => ~Older(current.version))',
         ((\E d \in Callers : update[d].pc \in Past) /\ backup # NoFile => ~Older(backup.version))'
  PROVE  /\ UpdateTypes' /\ NotOlder'
         /\ update'[c].pc = pc
         /\ \A d \in Callers \ {c} : update'[d] = update[d]
<1> DEFINE s == IF pc = "done" THEN [pc |-> "done"] ELSE [update[c] EXCEPT !.pc = pc]
<1>1. update[c] \in CallerState /\ ChoiceNotOlder(update[c])
  BY DEF UpdaterInv, UpdateTypes, NotOlder
<1>2. s \in CallerState /\ s.pc = pc /\ ChoiceNotOlder(s)
  <2>1. CASE pc = "done"
    BY <2>1, PlainState
  <2>2. CASE pc \in Stages
    <3>1. s = [update[c] EXCEPT !.pc = pc]
      BY <2>2
    <3>2. s \in CallerState /\ s.pc = pc /\ s.binary = update[c].binary
      BY <1>1, <2>2, <3>1, StateFacts
    <3>3. ~Older(update[c].binary.version)
      BY <1>1 DEF ChoiceNotOlder
    <3>. QED BY <2>2, <3>2, <3>3 DEF ChoiceNotOlder
  <2>. QED BY <2>1, <2>2
<1>3. update' = [update EXCEPT ![c] = s]
  OBVIOUS
<1> HIDE DEF s
<1>4. UpdateTypes'
  BY <1>2, <1>3 DEF UpdaterInv, UpdateTypes
<1>5. \A d \in Callers : update'[d] = IF d = c THEN s ELSE update[d]
  BY <1>3 DEF UpdaterInv, UpdateTypes
<1>6. ASSUME NEW d \in Callers
      PROVE  ChoiceNotOlder(update[d])'
  <2>1. ChoiceNotOlder(update'[d])
    BY <1>2, <1>5 DEF UpdaterInv, NotOlder
  <2>. QED BY <2>1 DEF ChoiceNotOlder, Older
<1>7. (status.available # 0 => ~Older(Releases[status.available]))'
  BY DEF UpdaterInv, NotOlder, Older
<1>8. NotOlder'
  BY <1>6, <1>7 DEF NotOlder
<1>. QED BY <1>2, <1>4, <1>5, <1>8

(* What the invariant says of the files, for a caller in platformApply.     *)
LEMMA FileFacts ==
  ASSUME UpdaterInv, NEW c \in Callers, update[c].pc \in {"staged"} \cup Stages
  PROVE  /\ current \in File /\ backup \in File
         /\ current # NoFile => ~Older(current.version)
         /\ update[c].pc \in Past /\ backup # NoFile => ~Older(backup.version)
         /\ update[c].binary \in Whole /\ ~Older(update[c].binary.version)
         /\ (\E d \in Callers : update[d].pc \in Past) /\ backup # NoFile => ~Older(backup.version)
<1>1. update[c] \in CallerState /\ ChoiceNotOlder(update[c])
  BY DEF UpdaterInv, UpdateTypes, NotOlder
<1>2. update[c].binary \in Whole
  BY <1>1, StateFacts
<1>3. ~Older(update[c].binary.version)
  BY <1>1 DEF ChoiceNotOlder
<1>. QED BY <1>2, <1>3 DEF UpdaterInv, UpdateTypes, NotOlder

(* Apply, from the path of the executable to platformApply.                 *)
LEMMA ResolveStep ==
  ASSUME UpdaterInv, NEW c \in Callers, NodeUpdater!Resolve(c)
  PROVE  UpdaterInv'
<1> USE DEF NodeUpdater!Resolve
<1>1. PICK pc \in {"remove", "done"} :
        /\ update' = [update EXCEPT ![c] = IF pc = "done" THEN [pc |-> "done"] ELSE [update[c] EXCEPT !.pc = pc]]
        /\ pc = "remove" =>
             /\ current # NoFile
             /\ overlapped' = (overlapped \/ \E d \in Callers \ {c} : update[d].pc \in Stages)
        /\ pc = "done" => overlapped' = overlapped
  OBVIOUS
<1>2. update[c].pc = "staged" /\ UNCHANGED <<latest, status, current, backup, running, node>>
  OBVIOUS
<1>3. (current # NoFile => ~Older(current.version))'
  BY <1>2, FileFacts DEF Older
<1>4. \A d \in Callers : update'[d].pc \in Past => update[d].pc \in Past
  BY <1>1, <1>2 DEF UpdaterInv, UpdateTypes, Past
<1>5. ((\E d \in Callers : update[d].pc \in Past) /\ backup # NoFile => ~Older(backup.version))'
  BY <1>2, <1>4, FileFacts DEF Older
<1>6. /\ UpdateTypes' /\ NotOlder' /\ update'[c].pc = pc
      /\ \A d \in Callers \ {c} : update'[d] = update[d]
  BY <1>1, <1>2, <1>3, <1>5, StageStep, FileFacts
<1>7. Remains'
  <2>1. CASE pc = "done"
    BY <1>1, <1>2, <1>6, <2>1 DEF UpdaterInv, Remains
  <2>2. CASE pc = "remove"
    <3> SUFFICES ASSUME ~overlapped'
                 PROVE  Remains'
      BY DEF Remains
    <3>1. ~overlapped /\ current' # NoFile /\ \A d \in Callers \ {c} : update'[d].pc \notin Stages
      BY <1>1, <1>2, <1>6, <2>2
    <3>2. update'[c].pc = "remove"
      BY <1>6, <2>2
    <3>. QED BY <3>1, <3>2 DEF Remains
  <2>. QED BY <2>1, <2>2
<1>. QED BY <1>6, <1>7 DEF UpdaterInv
(* A step of a caller in platformApply: while it is the only one, its stage *)
(* says which of the files there are.                                       *)
LEMMA OnlyStage ==
  ASSUME UpdaterInv, NEW c \in Callers, update[c].pc \in Stages, NEW pc \in Stages \cup {"done"},
         update'[c].pc = pc, \A d \in Callers \ {c} : update'[d] = update[d],
         UNCHANGED <<overlapped, node>>,
         ~overlapped /\ pc \in {"remove", "backup", "cleanup", "done"} => current' # NoFile,
         ~overlapped /\ pc \in {"install", "copy", "move", "restore"} => backup' # NoFile
  PROVE  Remains'
<1> SUFFICES ASSUME ~overlapped'
             PROVE  Remains'
  BY DEF Remains
<1>1. \A d \in Callers \ {c} : update'[d].pc \notin Stages
  BY DEF UpdaterInv, Remains
<1>2. current' # NoFile \/ backup' # NoFile
  OBVIOUS
<1>3. pc = "done" => current' # NoFile
  OBVIOUS
<1>. QED BY <1>1, <1>2, <1>3 DEF Remains

(* What the invariant says of the files, for the only caller.               *)
LEMMA StageFiles ==
  ASSUME UpdaterInv, NEW c \in Callers, ~overlapped
  PROVE  /\ update[c].pc \in {"remove", "backup", "cleanup"} => current # NoFile
         /\ update[c].pc \in {"install", "copy", "move", "restore"} => backup # NoFile
  BY DEF UpdaterInv, Remains

LEMMA RemoveStaleStep ==
  ASSUME UpdaterInv, NEW c \in Callers, NodeUpdater!RemoveStale(c)
  PROVE  UpdaterInv'
<1> USE DEF NodeUpdater!RemoveStale
<1>1. /\ update[c].pc = "remove" /\ backup' = NoFile
      /\ update' = [update EXCEPT ![c] = [update[c] EXCEPT !.pc = "backup"]]
      /\ UNCHANGED <<latest, status, current, running, overlapped, node>>
  BY DEF UpdaterInv, UpdateTypes
<1>2. (current # NoFile => ~Older(current.version))'
  BY <1>1, FileFacts DEF Older
<1>3. current' \in File /\ backup' \in File
  BY <1>1, FileFacts DEF File
<1>4. /\ UpdateTypes' /\ NotOlder' /\ update'[c].pc = "backup"
      /\ \A d \in Callers \ {c} : update'[d] = update[d]
  BY <1>1, <1>2, <1>3, StageStep
<1>5. Remains'
  BY <1>1, <1>4, StageFiles, OnlyStage
<1>. QED BY <1>4, <1>5 DEF UpdaterInv

LEMMA BackUpStep ==
  ASSUME UpdaterInv, NEW c \in Callers, NodeUpdater!BackUp(c)
  PROVE  UpdaterInv'
<1> USE DEF NodeUpdater!BackUp
<1>1. update[c].pc = "backup" /\ UNCHANGED <<latest, status, running, overlapped, node>>
  OBVIOUS
<1>2. CASE current # NoFile
  <2>1. /\ update' = [update EXCEPT ![c] = [update[c] EXCEPT !.pc = "install"]]
        /\ backup' = current /\ current' = NoFile
    BY <1>2 DEF UpdaterInv, UpdateTypes
  <2>2. (backup # NoFile => ~Older(backup.version))'
    BY <1>1, <2>1, FileFacts DEF Older
  <2>3. current' \in File /\ backup' \in File
    BY <1>1, <2>1, FileFacts DEF File
  <2>4. /\ UpdateTypes' /\ NotOlder' /\ update'[c].pc = "install"
        /\ \A d \in Callers \ {c} : update'[d] = update[d]
    BY <1>1, <2>1, <2>2, <2>3, StageStep
  <2>5. Remains'
    BY <1>1, <1>2, <2>1, <2>4, OnlyStage
  <2>. QED BY <2>4, <2>5 DEF UpdaterInv
<1>3. CASE current = NoFile
  <2>1. update' = [update EXCEPT ![c] = [pc |-> "done"]] /\ UNCHANGED <<current, backup>>
    BY <1>3
  <2>2. (backup # NoFile => ~Older(backup.version))'
    BY <1>1, <2>1, FileFacts DEF Older, Past
  <2>3. current' \in File /\ backup' \in File
    BY <1>1, <2>1, FileFacts
  <2>4. /\ UpdateTypes' /\ NotOlder' /\ update'[c].pc = "done"
        /\ \A d \in Callers \ {c} : update'[d] = update[d]
    BY <1>1, <1>3, <2>1, <2>2, <2>3, StageStep
  <2>5. Remains'
    BY <1>1, <1>3, <2>4, StageFiles, OnlyStage
  <2>. QED BY <2>4, <2>5 DEF UpdaterInv
<1>. QED BY <1>2, <1>3

(* The three steps that put the staged binary in its place, or fail to.     *)
LEMMA InstallStep ==
  ASSUME UpdaterInv, NEW c \in Callers,
         NodeUpdater!RenameOrCopy(c) \/ NodeUpdater!CopyFile(c) \/ NodeUpdater!MoveIntoPlace(c)
  PROVE  UpdaterInv'
<1> USE DEF NodeUpdater!RenameOrCopy, NodeUpdater!CopyFile, NodeUpdater!MoveIntoPlace, NodeUpdater!CopyInto
<1>1. /\ update[c].pc \in {"install", "copy", "move"}
      /\ UNCHANGED <<latest, status, backup, running, overlapped, node>>
  OBVIOUS
<1>2. PICK pc \in {"cleanup", "copy", "move", "restore"} :
        /\ update' = [update EXCEPT ![c] = [update[c] EXCEPT !.pc = pc]]
        /\ current' = IF pc = "cleanup" THEN update[c].binary ELSE current
  OBVIOUS
<1>3. (current # NoFile => ~Older(current.version))'
  BY <1>1, <1>2, FileFacts DEF Older
<1>4. (backup # NoFile => ~Older(backup.version))'
  BY <1>1, FileFacts DEF Older, Past
<1>5. current' \in File /\ backup' \in File
  BY <1>1, <1>2, FileFacts, WholeIsFile
<1>6. /\ UpdateTypes' /\ NotOlder' /\ update'[c].pc = pc
      /\ \A d \in Callers \ {c} : update'[d] = update[d]
  BY <1>1, <1>2, <1>3, <1>4, <1>5, StageStep
<1>7. ~overlapped => backup' # NoFile
  BY <1>1, StageFiles
<1>8. pc = "cleanup" => current' # NoFile
  BY <1>1, <1>2, FileFacts, WholeIsFile
<1>9. Remains'
  BY <1>1, <1>6, <1>7, <1>8, OnlyStage
<1>. QED BY <1>6, <1>9 DEF UpdaterInv

LEMMA RestoreStep ==
  ASSUME UpdaterInv, NEW c \in Callers, NodeUpdater!Restore(c)
  PROVE  UpdaterInv'
<1> USE DEF NodeUpdater!Restore, NodeUpdater!Restored
<1>1. /\ update[c].pc = "restore" /\ update' = [update EXCEPT ![c] = [pc |-> "done"]]
      /\ UNCHANGED <<latest, status, running, overlapped, node>>
  OBVIOUS
<1>2. \/ backup # NoFile /\ current' = backup /\ backup' = NoFile
      \/ backup = NoFile /\ UNCHANGED <<current, backup>>
  OBVIOUS
<1>3. (current # NoFile => ~Older(current.version))'
  BY <1>1, <1>2, FileFacts DEF Older, Past
<1>4. backup' = NoFile
  BY <1>2
<1>5. current' \in File /\ backup' \in File
  <2>1. current \in File /\ backup \in File
    BY <1>1, FileFacts
  <2>. QED BY <1>2, <2>1 DEF File
<1>6. /\ UpdateTypes' /\ NotOlder' /\ update'[c].pc = "done"
      /\ \A d \in Callers \ {c} : update'[d] = update[d]
  BY <1>1, <1>3, <1>4, <1>5, StageStep
<1>7. ~overlapped => current' # NoFile
  BY <1>1, <1>2, StageFiles
<1>8. Remains'
  BY <1>1, <1>6, <1>7, OnlyStage
<1>. QED BY <1>6, <1>8 DEF UpdaterInv

LEMMA CleanupStep ==
  ASSUME UpdaterInv, NEW c \in Callers, NodeUpdater!Cleanup(c)
  PROVE  UpdaterInv'
<1> USE DEF NodeUpdater!Cleanup
<1>1. /\ update[c].pc = "cleanup" /\ update' = [update EXCEPT ![c] = [pc |-> "done"]]
      /\ backup' = NoFile /\ UNCHANGED <<latest, status, current, running, overlapped, node>>
  OBVIOUS
<1>2. (current # NoFile => ~Older(current.version))'
  BY <1>1, FileFacts DEF Older
<1>3. current' \in File /\ backup' \in File
  BY <1>1, FileFacts DEF File
<1>4. /\ UpdateTypes' /\ NotOlder' /\ update'[c].pc = "done"
      /\ \A d \in Callers \ {c} : update'[d] = update[d]
  BY <1>1, <1>2, <1>3, StageStep
<1>5. ~overlapped => current' # NoFile
  BY <1>1, StageFiles
<1>6. Remains'
  BY <1>1, <1>4, <1>5, OnlyStage
<1>. QED BY <1>4, <1>6 DEF UpdaterInv

(* What the world publishes and what an admin sets.                         *)
LEMMA WorldStep ==
  ASSUME UpdaterInv, latest' \in 0..Len(Releases),
         UNCHANGED <<status, current, backup, update, running, node, overlapped>>
  PROVE  UpdaterInv'
<1>1. UpdateTypes'
  BY DEF UpdaterInv, UpdateTypes
<1>2. NotOlder'
  BY DEF UpdaterInv, NotOlder, ChoiceNotOlder, Older
<1>3. Remains'
  BY DEF UpdaterInv, Remains
<1>. QED BY <1>1, <1>2, <1>3 DEF UpdaterInv

(* A restart and a death: the backup that stays is of no use to anyone.     *)
LEMMA ExecStep ==
  ASSUME UpdaterInv, NodeUpdater!Exec
  PROVE  UpdaterInv'
<1> USE DEF NodeUpdater!Exec
<1>1. /\ update' = [c \in Callers |-> [pc |-> "idle"]]
      /\ status' = [available |-> 0, checked |-> FALSE]
      /\ UNCHANGED <<latest, current, backup, overlapped>>
  BY DEF NodeUpdater!Fresh
<1>2. IF current = NoFile THEN node' = "down" /\ running' = running
      ELSE node' = node /\ running' = current.version
  OBVIOUS
<1>3. \A c \in Callers : update'[c] = [pc |-> "idle"]
  BY <1>1
<1>4. current \in File /\ running \in Semver
  BY DEF UpdaterInv, UpdateTypes
<1>5. UpdateTypes'
  <2>1. running' \in Semver
    BY <1>2, <1>4, WholeIsFile DEF File
  <2>2. update' \in [Callers -> CallerState]
    BY <1>1, PlainState
  <2>3. status' \in [available : 0..Len(Releases), checked : BOOLEAN]
    BY <1>1, VersionsAssumption
  <2>. QED BY <1>1, <2>1, <2>2, <2>3 DEF UpdaterInv, UpdateTypes
<1>6. NotOlder'
  <2>1. (current # NoFile => ~Older(current.version))'
    BY <1>1, <1>2, <1>4, SelfNotBefore, WholeIsFile DEF Older, File
  <2>2. \A c \in Callers : update'[c].pc = "idle"
    BY <1>3
  <2>3. status'.available = 0
    BY <1>1
  <2>. QED BY <2>1, <2>2, <2>3 DEF NotOlder, ChoiceNotOlder, Past
<1>7. Remains'
  <2>1. \A c \in Callers : update'[c].pc = "idle"
    BY <1>3
  <2>2. ~overlapped => current # NoFile \/ backup # NoFile
    BY DEF UpdaterInv, Remains
  <2>3. node' = "up" => current # NoFile
    BY <1>2
  <2>. QED BY <1>1, <2>1, <2>2, <2>3 DEF Remains
<1>. QED BY <1>5, <1>6, <1>7 DEF UpdaterInv

LEMMA UpdaterNext == UpdaterInv /\ [NodeUpdater!Next]_updateVars => UpdaterInv'
<1> SUFFICES ASSUME UpdaterInv, [NodeUpdater!Next]_updateVars
             PROVE  UpdaterInv'
  OBVIOUS
<1>1. latest \in 0..Len(Releases) /\ Len(Releases) \in Nat
  BY VersionsAssumption DEF UpdaterInv, UpdateTypes
<1>2. CASE NodeUpdater!Publish
  BY <1>1, <1>2, WorldStep DEF NodeUpdater!Publish
<1>3. ASSUME NEW p \in NodeUpdater!Policies, NodeUpdater!SetPolicy(p)
      PROVE  UpdaterInv'
  BY <1>1, <1>3, WorldStep DEF NodeUpdater!SetPolicy
<1>4. CASE NodeUpdater!RunCycle
  BY <1>4, QuietSteps
<1>5. ASSUME NEW c \in Callers,
             \/ NodeUpdater!HandleUpdateCheck(c) \/ NodeUpdater!HandleUpdateApply(c)
             \/ NodeUpdater!ExecuteUpdate(c) \/ NodeUpdater!Check(c) \/ NodeUpdater!ApplyBegins(c)
             \/ NodeUpdater!DownloadAndVerify(c) \/ NodeUpdater!Return(c)
      PROVE  UpdaterInv'
  BY <1>5, QuietSteps
<1>6. ASSUME NEW c \in Callers,
             \/ NodeUpdater!Resolve(c) \/ NodeUpdater!RemoveStale(c) \/ NodeUpdater!BackUp(c)
             \/ NodeUpdater!RenameOrCopy(c) \/ NodeUpdater!CopyFile(c) \/ NodeUpdater!MoveIntoPlace(c)
             \/ NodeUpdater!Restore(c) \/ NodeUpdater!Cleanup(c)
      PROVE  UpdaterInv'
  BY <1>6, ResolveStep, RemoveStaleStep, BackUpStep, InstallStep, RestoreStep, CleanupStep
<1>7. CASE NodeUpdater!Restart \/ NodeUpdater!Crash
  BY <1>7, ExecStep DEF NodeUpdater!Restart, NodeUpdater!Crash
<1>8. CASE UNCHANGED updateVars
  BY <1>1, <1>8, WorldStep DEF updateVars
<1>. QED BY <1>2, <1>3, <1>4, <1>5, <1>6, <1>7, <1>8 DEF NodeUpdater!Next
(* The executable and its backup are nothing or whole and verified, and the *)
(* executable is not older than the process.                                *)
LEMMA UpdaterIntact ==
  UpdaterInv => NodeUpdater!WholeBinary /\ NodeUpdater!DiskNotOlder /\ NodeUpdater!BinaryRemains
<1> SUFFICES ASSUME UpdaterInv
             PROVE  NodeUpdater!WholeBinary /\ NodeUpdater!DiskNotOlder /\ NodeUpdater!BinaryRemains
  OBVIOUS
<1>1. \A f \in File : f.content \in {"none", "whole"}
  BY DEF File, Whole
<1>2. NodeUpdater!WholeBinary
  BY <1>1 DEF NodeUpdater!WholeBinary, UpdaterInv, UpdateTypes
<1>3. NodeUpdater!DiskNotOlder
  BY DEF NodeUpdater!DiskNotOlder, UpdaterInv, NotOlder, Older
<1>4. NodeUpdater!BinaryRemains
  BY DEF NodeUpdater!BinaryRemains, UpdaterInv, Remains
<1>. QED BY <1>2, <1>3, <1>4

(* Whatever fails, whoever applies at once and wherever the process dies,   *)
(* the files of the executable hold whole, verified binaries, that on disk  *)
(* is not older than the process, and while no two callers overlap there is *)
(* one to start.                                                            *)
THEOREM ExecutableIntact ==
  NodeUpdater!Spec => [](NodeUpdater!WholeBinary /\ NodeUpdater!DiskNotOlder /\ NodeUpdater!BinaryRemains)
<1>1. NodeUpdater!Init => UpdaterInv
  BY UpdaterStart
<1>2. UpdaterInv /\ [NodeUpdater!Next]_(NodeUpdater!vars) => UpdaterInv'
  BY UpdaterNext DEF updateVars, NodeUpdater!vars
<1>. QED BY <1>1, <1>2, UpdaterIntact, PTL DEF NodeUpdater!Spec

-----------------------------------------------------------------------------
(* The certificate manager. *)

NoCertificate == CertificateManager!None
Certificate == CertificateManager!Certificate
Account == stored.account

(* Before the loop knows its domain, with an account in the configuration,  *)
(* and with a certificate in hand.                                          *)
Ordering == {"register", "order", "challenge", "wait", "finalize"}
LoopState ==
    [pc : {"rest", "begin"}]
    \cup [pc : {"keep"} \cup Ordering, domain : Domains, key : Nat \ {0}]
    \cup [pc : {"persist", "serve"}, certificate : Certificate]

CertificateTypes ==
    /\ domain \in Domains \cup {"none"}
    /\ loop.pc = "begin" => domain # "none"
    /\ stored \in [certificate : {NoCertificate} \cup Certificate, account : Nat]
    /\ served \in {NoCertificate} \cup Certificate
    /\ loop \in LoopState
    /\ keys \in Nat /\ client \in Nat
    /\ authority \in [accounts : SUBSET Nat, state : {"none", "pending", "valid", "invalid"}]

(* What is served is stored, or what replaces it is.                        *)
Served ==
    /\ loop.pc # "serve" /\ served # NoCertificate => served = stored.certificate
    /\ loop.pc = "serve" => stored.certificate = loop.certificate
    /\ loop.pc # "wait" => challenge = 0

(* The account that the loop and the client use is the one stored, which is *)
(* stored before it is registered.                                          *)
Registered ==
    /\ client \in {0, Account}
    /\ loop.pc \in Ordering => loop.key = Account
    /\ loop.pc = "keep" => Account = 0
    /\ authority.accounts \subseteq {Account} \ {0}

CertificateInv == CertificateTypes /\ Served /\ Registered

USE DEF CertificateManager!None, NoCertificate, CertificateManager!Certificate, Certificate,
        CertificateManager!Resting, Account

LEMMA CertificateStart == CertificateManager!Init => CertificateInv
  BY DEF CertificateManager!Init, CertificateInv, CertificateTypes, Served, Registered, Ordering, LoopState
(* What the loop carries, by where it is, and what it goes on with.         *)
LEMMA LoopFacts ==
  ASSUME CertificateInv
  PROVE  /\ loop.pc \in {"keep"} \cup Ordering =>
              /\ loop.domain \in Domains /\ loop.key \in Nat \ {0}
              /\ \A pc \in Ordering : /\ [loop EXCEPT !.pc = pc] \in LoopState
                                      /\ [loop EXCEPT !.pc = pc].pc = pc
                                      /\ [loop EXCEPT !.pc = pc].key = loop.key
         /\ loop.pc \in {"persist", "serve"} =>
              /\ loop.certificate \in Certificate
              /\ [loop EXCEPT !.pc = "serve"] \in LoopState
              /\ [loop EXCEPT !.pc = "serve"].pc = "serve"
              /\ [loop EXCEPT !.pc = "serve"].certificate = loop.certificate
<1>1. loop \in LoopState
  BY DEF CertificateInv, CertificateTypes
<1>2. CASE loop \in [pc : {"rest", "begin"}]
  BY <1>2 DEF Ordering
<1>3. CASE loop \in [pc : {"keep"} \cup Ordering, domain : Domains, key : Nat \ {0}]
  <2>1. ASSUME NEW pc \in Ordering
        PROVE  /\ [loop EXCEPT !.pc = pc] \in LoopState
               /\ [loop EXCEPT !.pc = pc].pc = pc
               /\ [loop EXCEPT !.pc = pc].key = loop.key
    BY <1>3 DEF LoopState
  <2>. QED BY <1>3, <2>1 DEF Ordering
<1>4. CASE loop \in [pc : {"persist", "serve"}, certificate : Certificate]
  <2>1. loop.pc \notin {"keep"} \cup Ordering
    BY <1>4 DEF Ordering
  <2>. QED BY <1>4, <2>1 DEF LoopState
<1>. QED BY <1>1, <1>2, <1>3, <1>4 DEF LoopState

(* The loop comes to rest, without its challenge.                           *)
LEMMA RestStep ==
  ASSUME CertificateInv, loop' = [pc |-> "rest"], challenge' = 0,
         domain' = domain, stored' = stored, keys' = keys, client' = client,
         authority' = authority, loop.pc # "serve" \/ served' = stored.certificate,
         served' \in {served, stored.certificate}
  PROVE  CertificateInv'
<1>1. loop'.pc = "rest" /\ loop' \in LoopState /\ loop'.pc \notin Ordering
  BY DEF LoopState, Ordering
<1>2. CertificateTypes'
  BY <1>1 DEF CertificateInv, CertificateTypes
<1>3. Served'
  BY <1>1 DEF CertificateInv, Served
<1>4. Registered'
  BY <1>1 DEF CertificateInv, Registered
<1>. QED BY <1>2, <1>3, <1>4 DEF CertificateInv

(* The loop goes on in the order, with the same account.                    *)
LEMMA OrderStep ==
  ASSUME CertificateInv, loop.pc \in Ordering, NEW pc \in Ordering,
         loop' = [loop EXCEPT !.pc = pc], pc # "wait" => challenge' = 0,
         UNCHANGED <<domain, stored, served, keys>>, client' \in {client, loop.key},
         authority' \in [accounts : SUBSET Nat, state : {"none", "pending", "valid", "invalid"}],
         authority'.accounts \subseteq authority.accounts \cup {loop.key}
  PROVE  CertificateInv'
<1>1. /\ loop' \in LoopState /\ loop'.pc = pc /\ loop'.key = loop.key
      /\ loop.key \in Nat \ {0} /\ loop.key = Account
  BY LoopFacts DEF CertificateInv, Registered
<1>2. pc \notin {"rest", "begin", "keep", "persist", "serve"}
      /\ loop.pc \notin {"rest", "begin", "keep", "persist", "serve"}
  BY DEF Ordering
<1>3. CertificateTypes'
  BY <1>1, <1>2 DEF CertificateInv, CertificateTypes
<1>4. Served'
  BY <1>1, <1>2 DEF CertificateInv, Served
<1>5. Registered'
  BY <1>1, <1>2 DEF CertificateInv, Registered
<1>. QED BY <1>3, <1>4, <1>5 DEF CertificateInv

LEMMA CertificateNext ==
  CertificateInv /\ [CertificateManager!Next]_certificateVars => CertificateInv'
<1> SUFFICES ASSUME CertificateInv, [CertificateManager!Next]_certificateVars
             PROVE  CertificateInv'
  OBVIOUS
<1> USE DEF CertificateManager!Kept, CertificateManager!Goes, CertificateManager!ClearChallenge
<1>1. /\ domain \in Domains \cup {"none"} /\ keys \in Nat /\ client \in Nat /\ loop \in LoopState
      /\ stored \in [certificate : {NoCertificate} \cup Certificate, account : Nat]
      /\ served \in {NoCertificate} \cup Certificate
      /\ authority \in [accounts : SUBSET Nat, state : {"none", "pending", "valid", "invalid"}]
  BY DEF CertificateInv, CertificateTypes
<1>2. CASE CertificateManager!Spin
  <2>1. loop' = [pc |-> "begin"] /\ loop.pc = "rest" /\ domain # "none"
        /\ UNCHANGED <<domain, stored, served, challenge, client, authority, keys>>
    BY <1>2 DEF CertificateManager!Spin
  <2>2. loop' \in LoopState /\ loop'.pc = "begin"
    BY <2>1 DEF LoopState
  <2>. QED BY <2>1, <2>2 DEF CertificateInv, CertificateTypes, Served, Registered, Ordering
<1>3. CASE CertificateManager!EnsureCertificate
  <2>1. PICK pc \in {"order", "register", "keep"}, k \in Nat \ {0} :
          /\ loop' = [pc |-> pc, domain |-> domain, key |-> k]
          /\ pc = "order" => k = client
          /\ pc = "register" => k = Account
          /\ pc = "keep" => Account = 0 /\ client = 0
          /\ keys' \in Nat
    BY <1>1, <1>3 DEF CertificateManager!EnsureCertificate
  <2>2. loop.pc = "begin" /\ UNCHANGED <<domain, stored, served, challenge, client, authority>>
    BY <1>3 DEF CertificateManager!EnsureCertificate
  <2>3. domain \in Domains
    BY <1>1, <2>2 DEF CertificateInv, CertificateTypes
  <2>4. loop' \in LoopState /\ loop'.pc = pc /\ loop'.key = k
    BY <2>1, <2>3 DEF LoopState, Ordering
  <2>5. CertificateTypes'
    BY <2>1, <2>2, <2>4 DEF CertificateInv, CertificateTypes
  <2>6. Served'
    BY <2>1, <2>2, <2>4 DEF CertificateInv, Served
  <2>7. Registered'
    BY <2>1, <2>2, <2>4 DEF CertificateInv, Registered, Ordering
  <2>. QED BY <2>5, <2>6, <2>7 DEF CertificateInv
<1>4. CASE CertificateManager!KeepKey
  <2>1. /\ loop.pc = "keep" /\ loop' = [loop EXCEPT !.pc = "register"]
        /\ stored' = [stored EXCEPT !.account = loop.key]
        /\ UNCHANGED <<domain, served, challenge, client, authority, keys>>
    BY <1>4 DEF CertificateManager!KeepKey, CertificateManager!PersistAccountKey
  <2>2. /\ loop' \in LoopState /\ loop'.pc = "register" /\ loop'.key = loop.key
        /\ loop.key \in Nat \ {0}
    BY <2>1, LoopFacts DEF Ordering
  <2>3. /\ stored' \in [certificate : {NoCertificate} \cup Certificate, account : Nat]
        /\ stored'.account = loop.key /\ stored'.certificate = stored.certificate
    BY <1>1, <2>1, <2>2
  <2>4. CertificateTypes'
    BY <2>1, <2>2, <2>3 DEF CertificateInv, CertificateTypes
  <2>5. Served'
    BY <2>1, <2>2, <2>3 DEF CertificateInv, Served
  <2>6. Account = 0 /\ client = 0 /\ authority.accounts = {}
    BY <2>1 DEF CertificateInv, Registered
  <2>7. Registered'
    BY <2>1, <2>2, <2>3, <2>6 DEF Registered
  <2>. QED BY <2>4, <2>5, <2>7 DEF CertificateInv
<1>5. CASE CertificateManager!Register
  BY <1>1, <1>5, LoopFacts, OrderStep DEF CertificateManager!Register, Ordering, CertificateInv, Served
<1>6. CASE CertificateManager!AuthorizeOrder
  BY <1>1, <1>6, OrderStep DEF CertificateManager!AuthorizeOrder, Ordering, CertificateInv, Served
<1>7. CASE CertificateManager!InstallChallenge
  BY <1>1, <1>7, OrderStep DEF CertificateManager!InstallChallenge, Ordering
<1>8. CASE CertificateManager!GetChallengeCertificate
  BY <1>1, <1>8 DEF CertificateManager!GetChallengeCertificate, CertificateInv, CertificateTypes, Served, Registered
<1>9. CASE CertificateManager!WaitAuthorization
  <2>1. CASE loop' = [pc |-> "rest"]
    BY <1>9, <2>1, RestStep DEF CertificateManager!WaitAuthorization
  <2>2. CASE loop' = [loop EXCEPT !.pc = "finalize"]
    BY <1>1, <1>9, <2>2, OrderStep DEF CertificateManager!WaitAuthorization, Ordering
  <2>. QED BY <1>9, <2>1, <2>2 DEF CertificateManager!WaitAuthorization
<1>10. CASE CertificateManager!Finalize
  <2>1. loop.domain \in Domains
    BY <1>10, LoopFacts DEF CertificateManager!Finalize, Ordering
  <2> DEFINE certificate == [domain |-> loop.domain, due |-> FALSE]
  <2>2. certificate \in Certificate
    BY <2>1
  <2>3. loop' = [pc |-> "persist", certificate |-> certificate]
    BY <1>10 DEF CertificateManager!Finalize
  <2> HIDE DEF certificate
  <2>4. loop' \in LoopState /\ loop'.pc = "persist"
    BY <2>2, <2>3 DEF LoopState
  <2>5. loop.pc = "finalize" /\ UNCHANGED <<domain, stored, served, challenge, client, authority, keys>>
    BY <1>10 DEF CertificateManager!Finalize
  <2>. QED BY <2>4, <2>5 DEF CertificateInv, CertificateTypes, Served, Registered, Ordering
<1>11. CASE CertificateManager!Persist
  <2>1. /\ loop.pc = "persist" /\ loop' = [loop EXCEPT !.pc = "serve"]
        /\ stored' = [stored EXCEPT !.certificate = loop.certificate]
        /\ UNCHANGED <<domain, served, challenge, client, authority, keys>>
    BY <1>11 DEF CertificateManager!Persist, CertificateManager!PersistCertificate
  <2>2. /\ loop' \in LoopState /\ loop'.pc = "serve" /\ loop'.certificate = loop.certificate
        /\ loop.certificate \in Certificate
    BY <2>1, LoopFacts
  <2>3. /\ stored' \in [certificate : {NoCertificate} \cup Certificate, account : Nat]
        /\ stored'.account = stored.account /\ stored'.certificate = loop.certificate
    BY <1>1, <2>1, <2>2
  <2>. QED BY <2>1, <2>2, <2>3 DEF CertificateInv, CertificateTypes, Served, Registered, Ordering
<1>12. CASE CertificateManager!Serve
  BY <1>12, RestStep DEF CertificateManager!Serve, CertificateInv, Served
<1>13. CASE CertificateManager!Fail
  <2>1. loop' = [pc |-> "rest"] /\ challenge' = 0 /\ loop.pc # "serve"
        /\ UNCHANGED <<domain, stored, served, client, authority, keys>>
    BY <1>13 DEF CertificateManager!Fail, CertificateManager!Abandon, CertificateInv, Served
  <2>. QED BY <2>1, RestStep
<1>14. CASE CertificateManager!Restart
  <2>1. /\ loop' = [pc |-> "rest"] /\ challenge' = 0 /\ client' = 0 /\ served' = stored.certificate
        /\ UNCHANGED <<domain, stored, authority, keys>>
    BY <1>14 DEF CertificateManager!Restart
  <2>2. loop'.pc = "rest" /\ loop' \in LoopState
    BY <2>1 DEF LoopState
  <2>. QED BY <2>1, <2>2 DEF CertificateInv, CertificateTypes, Served, Registered, Ordering
<1>15. CASE CertificateManager!Age
  <2>1. /\ loop.pc = "rest" /\ served' = CertificateManager!Aged(served)
        /\ stored' = [stored EXCEPT !.certificate = CertificateManager!Aged(@)]
        /\ UNCHANGED <<domain, challenge, client, loop, authority, keys>>
    BY <1>15 DEF CertificateManager!Age
  <2>2. \A x \in {NoCertificate} \cup Certificate :
          /\ CertificateManager!Aged(x) \in {NoCertificate} \cup Certificate
          /\ x = NoCertificate => CertificateManager!Aged(x) = NoCertificate
    BY DEF CertificateManager!Aged
  <2>3. /\ stored' \in [certificate : {NoCertificate} \cup Certificate, account : Nat]
        /\ stored'.account = stored.account
        /\ stored'.certificate = CertificateManager!Aged(stored.certificate)
    BY <1>1, <2>1, <2>2
  <2>4. served # NoCertificate => served = stored.certificate
    BY <2>1 DEF CertificateInv, Served
  <2>5. CertificateTypes'
    BY <1>1, <2>1, <2>2, <2>3 DEF CertificateInv, CertificateTypes
  <2>6. Served'
    BY <1>1, <2>1, <2>2, <2>3, <2>4 DEF CertificateInv, Served
  <2>7. Registered'
    BY <2>1, <2>3 DEF CertificateInv, Registered, Ordering
  <2>. QED BY <2>5, <2>6, <2>7 DEF CertificateInv
<1>16. ASSUME NEW d \in Domains, CertificateManager!SetDomain(d)
       PROVE  CertificateInv'
  BY <1>16, DomainsAssumption
     DEF CertificateManager!SetDomain, CertificateInv, CertificateTypes, Served, Registered
<1>17. CASE UNCHANGED certificateVars
  BY <1>17 DEF certificateVars, CertificateInv, CertificateTypes, Served, Registered
<1>. QED
  BY <1>2, <1>3, <1>4, <1>5, <1>6, <1>7, <1>8, <1>9, <1>10, <1>11, <1>12, <1>13, <1>14, <1>15, <1>16, <1>17
  DEF CertificateManager!Next, CertificateManager!Loop

LEMMA CertificateIntact ==
  CertificateInv => CertificateManager!ServedIsKept /\ CertificateManager!OneAccount
<1> SUFFICES ASSUME CertificateInv
             PROVE  CertificateManager!ServedIsKept /\ CertificateManager!OneAccount
  OBVIOUS
<1>1. loop.pc = "serve" => stored.certificate # NoCertificate
  <2>1. loop.pc = "serve" => loop.certificate \in Certificate
    BY LoopFacts
  <2>. QED BY <2>1, DomainsAssumption DEF CertificateInv, Served
<1>2. CertificateManager!ServedIsKept
  BY <1>1 DEF CertificateInv, Served, CertificateManager!ServedIsKept
<1>. QED BY <1>2 DEF CertificateInv, Registered, CertificateManager!OneAccount

(* Whatever fails and wherever the process dies, a certificate that is      *)
(* served is in the configuration, or its successor is, no challenge is     *)
(* left open by a loop at rest, and one account is registered.              *)
THEOREM CertificateKept ==
  CertificateManager!Spec => [](CertificateManager!ServedIsKept /\ CertificateManager!OneAccount)
<1>1. CertificateManager!Init => CertificateInv
  BY CertificateStart
<1>2. CertificateInv /\ [CertificateManager!Next]_(CertificateManager!vars) => CertificateInv'
  BY CertificateNext DEF certificateVars, CertificateManager!vars
<1>. QED BY <1>1, <1>2, CertificateIntact, PTL DEF CertificateManager!Spec

-----------------------------------------------------------------------------
(* What is on disk survives failures and deaths of the process.             *)
THEOREM DiskStaysIntact == DiskSpec => []DiskIntact
<1>1. NodeUpdater!WholeBinary /\ NodeUpdater!DiskNotOlder /\ NodeUpdater!BinaryRemains
      /\ CertificateManager!ServedIsKept /\ CertificateManager!OneAccount
        => DiskIntact
  BY DEF DiskIntact
<1>. QED BY <1>1, ExecutableIntact, CertificateKept, PTL DEF DiskSpec
=============================================================================
