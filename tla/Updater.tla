------------------------------ MODULE Updater -------------------------------
(***************************************************************************)
(* The self-update of the node: the background loop, update.check and      *)
(* update.apply of admins and the node tool of runs, which share a status  *)
(* under a mutex but not the executable and its backup; and the restart    *)
(* that follows.                                                           *)
(*                                                                         *)
(* A version is its number (major, minor and patch as one), the commits    *)
(* that it is ahead of a tag and its prerelease, 0 for none.  A binary is  *)
(* its version and whether its bytes are those of the release.  Time is    *)
(* left out: a cycle of the loop may come whenever the loop is idle.       *)
(***************************************************************************)
EXTENDS Naturals, Sequences

CONSTANTS
    Releases,     \* the versions published, in order
    Local,        \* the version the node starts with
    Rpc,          \* connections of admins
    Runs,         \* runs that use the node tool
    MayCrash      \* whether the process may be killed and started again

Background == "background"
Callers == Rpc \cup Runs \cup {Background}
Policies == {"disabled", "notify", "auto"}

None == [content |-> "none"]
NoRelease == 0
Idle == [pc |-> "idle"]

VARIABLES
    latest,      \* external: the index of the latest release, 0 before one
    policy,      \* the policy in the configuration
    status,      \* Updater.status: the available release, and whether it was ever checked
    current,     \* the file of the executable
    backup,      \* the file with the suffix .bak
    op,          \* a caller: where it is
    pending,     \* whether a restart is scheduled
    requested,   \* whether a restart is in the lifecycle channel
    running,     \* the version of the process
    node,        \* "up", or "down" when there was nothing to execute
    overlapped   \* ghost: two callers were in platformApply at once

vars == <<latest, policy, status, current, backup, op, pending, requested, running, node, overlapped>>

Binary(version) == [content |-> "whole", version |-> version]
Fresh == [available |-> NoRelease, checked |-> FALSE]

Init ==
    /\ latest = 0 /\ policy \in Policies
    /\ status = Fresh
    /\ current = Binary(Local) /\ backup = None
    /\ op = [c \in Callers |-> Idle]
    /\ pending = FALSE /\ requested = FALSE
    /\ running = Local /\ node = "up" /\ overlapped = FALSE

Enter(c, state) == node = "up" /\ op' = [op EXCEPT ![c] = state]
Files == <<current, backup, overlapped>>
Process == <<pending, requested, running, node>>
World == <<latest, policy>>

Publish ==
    /\ latest < Len(Releases)
    /\ latest' = latest + 1
    /\ UNCHANGED <<policy, status, op, Files, Process>>

SetPolicy(p) ==
    /\ policy' = p
    /\ UNCHANGED <<latest, status, op, Files, Process>>

-----------------------------------------------------------------------------
(* Versions. *)

(* Mutant of IsNewer: the commits ahead of the tag are not looked at. *)
IsNewerByNumber(remote, local) ==
    \/ remote.number > local.number
    \/ remote.number = local.number /\ (remote.pre = 0 \/ (local.pre # 0 /\ remote.pre > local.pre))

(* IsNewer, on parsed versions. *)
IsNewer(remote, local) ==
    IF remote.number # local.number THEN remote.number > local.number
    ELSE IF remote.ahead # local.ahead THEN remote.ahead > local.ahead
    ELSE IF remote.pre = 0 \/ local.pre = 0 THEN remote.pre = 0 /\ local.pre # 0
    ELSE remote.pre > local.pre

-----------------------------------------------------------------------------
(* Checking. *)

(* The policy that is in effect: on Unix, the one of the configuration.     *)
ApplyRuntimeConfig == policy

(* runCycle, of the background loop: the policy is read, and kept.  After   *)
(* a check an auto policy applies.                                          *)
RunCycle ==
    /\ op[Background] = Idle /\ ApplyRuntimeConfig # "disabled"
    /\ Enter(Background, [pc |-> "check", next |-> IF ApplyRuntimeConfig = "auto" THEN "apply" ELSE "done"])
    /\ UNCHANGED <<World, status, Files, Process>>

HandleUpdateCheck(c) ==
    /\ c \in Rpc /\ op[c] = Idle
    /\ Enter(c, [pc |-> "check", next |-> "done"])
    /\ UNCHANGED <<World, status, Files, Process>>

HandleUpdateApply(c) ==
    /\ c \in Rpc /\ op[c] = Idle
    /\ Enter(c, [pc |-> "begin"])
    /\ UNCHANGED <<World, status, Files, Process>>

(* update of the node tool: the status that is cached, or a check.          *)
ExecuteUpdate(c) ==
    /\ c \in Runs /\ op[c] = Idle
    /\ \/ Enter(c, [pc |-> "check", next |-> "apply"])
       \/ status.checked /\ Enter(c, [pc |-> IF status.available # NoRelease THEN "begin" ELSE "done"])
    /\ UNCHANGED <<World, status, Files, Process>>

(* check: the release is fetched, which may fail, and compared.  Then the   *)
(* caller is done, or applies what is available.                            *)
Check(c) ==
    /\ op[c].pc = "check"
    /\ \/ status' = [status EXCEPT !.checked = TRUE]
       \/ /\ latest > 0
          /\ status' = [checked |-> TRUE,
                        available |-> IF IsNewer(Releases[latest], running) THEN latest ELSE NoRelease]
    /\ Enter(c, [pc |-> IF op[c].next = "apply" /\ status'.available # NoRelease THEN "begin"
                        ELSE IF op[c].next = "download" /\ status'.available # NoRelease THEN "chosen"
                        ELSE "done"])
    /\ UNCHANGED <<World, Files, Process>>

(* Apply: the available release is read; there is a check if there is none. *)
ApplyBegins(c) ==
    /\ op[c].pc \in {"begin", "chosen"}
    /\ Enter(c, IF status.available # NoRelease THEN [pc |-> "download", release |-> status.available]
                ELSE IF op[c].pc = "begin" THEN [pc |-> "check", next |-> "download"]
                ELSE [pc |-> "done"])
    /\ UNCHANGED <<World, status, Files, Process>>

-----------------------------------------------------------------------------
(* Downloading. *)

(* What a download may bring: damaged bytes, or nothing when a request      *)
(* fails or the body is too long.                                           *)
Downloads == {"whole", "damaged", "failed"}

(* Mutant of Verified: the sums are not compared. *)
VerifiedAlways(archive) == archive \in {"whole", "damaged"}

(* The SHA256 of the archive is the one its release lists. *)
Verified(archive) == archive = "whole"

(* The binary in the archive is staged. *)
Extracted(archive, release) == [content |-> archive, version |-> Releases[release]]

(* DownloadAndVerify.  Without an asset, or without a binary in it, it      *)
(* fails as well.                                                           *)
DownloadAndVerify(c) ==
    /\ op[c].pc = "download"
    /\ \E archive \in Downloads :
         Enter(c, IF Verified(archive) THEN [pc |-> "staged", binary |-> Extracted(archive, op[c].release)]
                  ELSE [pc |-> "done"])
    /\ UNCHANGED <<World, status, Files, Process>>

-----------------------------------------------------------------------------
(* Applying. *)

InPlatformApply == {"remove", "backup", "install", "copy", "move", "restore", "cleanup"}
Move(c, pc) == Enter(c, [op[c] EXCEPT !.pc = pc])

(* Apply(stagedPath): the links of the executable's path are followed, so   *)
(* it has to be there; so has to be a directory that can be written.        *)
Resolve(c) ==
    /\ op[c].pc = "staged"
    /\ \/ /\ current # None
          /\ Move(c, "remove")
          /\ overlapped' = (overlapped \/ \E d \in Callers \ {c} : op[d].pc \in InPlatformApply)
       \/ /\ Enter(c, [pc |-> "done"])
          /\ UNCHANGED overlapped
    /\ UNCHANGED <<World, status, current, backup, Process>>

(* platformApply: a stale backup is removed, ...                            *)
RemoveStale(c) ==
    /\ op[c].pc = "remove"
    /\ backup' = None
    /\ Move(c, "backup")
    /\ UNCHANGED <<World, status, current, overlapped, Process>>

(* ... the executable becomes the backup, if it is still there, ...         *)
BackUp(c) ==
    /\ op[c].pc = "backup"
    /\ \/ /\ current # None
          /\ backup' = current /\ current' = None
          /\ Move(c, "install")
       \/ /\ current = None
          /\ Enter(c, [pc |-> "done"])
          /\ UNCHANGED <<current, backup>>
    /\ UNCHANGED <<World, status, overlapped, Process>>

(* ... and renameOrCopy puts the staged binary in its place; it is copied   *)
(* when it is on another filesystem.  Either may fail.                      *)
RenameOrCopy(c) ==
    /\ op[c].pc = "install"
    /\ \/ /\ current' = op[c].binary
          /\ Move(c, "cleanup")
       \/ /\ Move(c, "copy")
          /\ UNCHANGED current
       \/ /\ Move(c, "restore")
          /\ UNCHANGED current
    /\ UNCHANGED <<World, status, backup, overlapped, Process>>

(* Mutant of CopyInto: io.Copy writes to the destination itself. *)
CopyInPlace(binary) == current' = [binary EXCEPT !.content = "partial"]

(* io.Copy writes to a temporary file in the directory. *)
CopyInto(binary) == UNCHANGED current

(* copyFile: the bytes, ...                                                 *)
CopyFile(c) ==
    /\ op[c].pc = "copy"
    /\ \/ CopyInto(op[c].binary) /\ Move(c, "move")
       \/ Move(c, "restore") /\ UNCHANGED current
    /\ UNCHANGED <<World, status, backup, overlapped, Process>>

(* ... and the rename.                                                      *)
MoveIntoPlace(c) ==
    /\ op[c].pc = "move"
    /\ \/ current' = op[c].binary /\ Move(c, "cleanup")
       \/ Move(c, "restore") /\ UNCHANGED current
    /\ UNCHANGED <<World, status, backup, overlapped, Process>>

(* Mutant of Restored: the failed apply just returns. *)
RestoredNot == UNCHANGED <<current, backup>>

(* The backup is moved back, if it is there. *)
Restored ==
    \/ backup # None /\ current' = backup /\ backup' = None
    \/ backup = None /\ UNCHANGED <<current, backup>>

Restore(c) ==
    /\ op[c].pc = "restore"
    /\ Restored
    /\ Enter(c, [pc |-> "done"])
    /\ UNCHANGED <<World, status, overlapped, Process>>

(* The backup is removed, and the restart is scheduled; it fires at once    *)
(* but for a run, which ends first.                                         *)
Cleanup(c) ==
    /\ op[c].pc = "cleanup"
    /\ backup' = None
    /\ Enter(c, [pc |-> "done"])
    /\ IF c \in Runs THEN pending' = TRUE /\ UNCHANGED requested
       ELSE pending' = FALSE /\ requested' = TRUE
    /\ UNCHANGED <<World, status, current, overlapped, running, node>>

(* The caller returns; at the end of a run a pending action fires.          *)
Return(c) ==
    /\ op[c].pc = "done"
    /\ Enter(c, Idle)
    /\ IF c \in Runs THEN requested' = (requested \/ pending) /\ pending' = FALSE
       ELSE UNCHANGED <<pending, requested>>
    /\ UNCHANGED <<World, status, Files, running, node>>

-----------------------------------------------------------------------------
(* The process. *)

(* Everything under way ends where it is, and the executable is started, if *)
(* it is there.                                                             *)
Exec ==
    /\ node = "up"
    /\ op' = [c \in Callers |-> Idle]
    /\ status' = Fresh /\ pending' = FALSE /\ requested' = FALSE
    /\ IF current = None
       THEN node' = "down" /\ UNCHANGED running
       ELSE running' = current.version /\ UNCHANGED node
    /\ UNCHANGED <<World, Files>>

Restart == requested /\ Exec
Crash == MayCrash /\ Exec

-----------------------------------------------------------------------------
Next ==
    \/ Publish \/ \E p \in Policies : SetPolicy(p)
    \/ RunCycle
    \/ \E c \in Callers :
         \/ HandleUpdateCheck(c) \/ HandleUpdateApply(c) \/ ExecuteUpdate(c)
         \/ Check(c) \/ ApplyBegins(c) \/ DownloadAndVerify(c) \/ Resolve(c)
         \/ RemoveStale(c) \/ BackUp(c) \/ RenameOrCopy(c) \/ CopyFile(c) \/ MoveIntoPlace(c)
         \/ Restore(c) \/ Cleanup(c) \/ Return(c)
    \/ Restart \/ Crash

Spec == Init /\ [][Next]_vars

-----------------------------------------------------------------------------
Versions == {Releases[i] : i \in DOMAIN Releases} \cup {Local}
Binaries == {None} \cup [content : {"whole", "damaged", "partial"}, version : Versions]

TypeOK ==
    /\ latest \in 0..Len(Releases) /\ policy \in Policies
    /\ status \in [available : 0..Len(Releases), checked : BOOLEAN]
    /\ current \in Binaries /\ backup \in Binaries
    /\ \A c \in Callers :
         op[c].pc \in {"idle", "check", "begin", "chosen", "download", "staged", "done"} \cup InPlatformApply
    /\ pending \in BOOLEAN /\ requested \in BOOLEAN
    /\ running \in Versions /\ node \in {"up", "down"} /\ overlapped \in BOOLEAN

(* Where the executable is, and where its backup is, there is nothing or a  *)
(* whole binary of a release whose sum was checked, also when the process   *)
(* dies in the middle of a copy and when two callers apply at once.         *)
WholeBinary == \A file \in {current, backup} : file.content \in {"none", "whole"}

(* The order of versions: a prerelease before its release, and that before  *)
(* the commits after its tag.                                               *)
Rank(v) == <<v.number, IF v.ahead > 0 THEN 2 ELSE IF v.pre > 0 THEN 0 ELSE 1, v.ahead + v.pre>>
Before(a, b) ==
    \E i \in 1..3 : Rank(a)[i] < Rank(b)[i] /\ \A j \in 1..(i - 1) : Rank(a)[j] = Rank(b)[j]

(* The executable on disk is never an older version than the process that   *)
(* runs, whichever caller applied what it had chosen however long before,   *)
(* and after a failed one has moved its backup back.                        *)
DiskNotOlder == current # None => ~Before(current.version, running)

(* As long as no two callers apply at once, the executable or its backup is *)
(* there at every point where the process may die, and the executable is    *)
(* when no one applies, also after an apply that failed.                    *)
BinaryRemains ==
    ~overlapped =>
        /\ current # None \/ backup # None
        /\ node = "up" /\ (\A c \in Callers : op[c].pc \notin InPlatformApply) => current # None

(* The same without the condition. *)
BackupRestored ==
    node = "up" /\ (\A c \in Callers : op[c].pc \notin InPlatformApply) => current # None
=============================================================================
