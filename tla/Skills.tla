------------------------------- MODULE Skills -------------------------------
(***************************************************************************)
(* The installed skills: the library client, skills.* and the skills tool, *)
(* and the registration of the skills of a run, over either store.         *)
(*                                                                         *)
(* In fsstore a transaction is one step under the store's mutex, and a     *)
(* skill is two files, skill.md and manifest.json, written one after the   *)
(* other.  In dbstore a skill is one row; ModifySkill reads it and writes  *)
(* all of its columns in two statements, at READ COMMITTED.                *)
(* A version and the text published under it are one number; the tools and *)
(* the prompt of a skill are its text.  The library has one entry for each *)
(* name.  Who may call is checked before.                                  *)
(***************************************************************************)
EXTENDS Naturals

CONSTANTS
    Names,        \* names of skills, which are their ids
    Callers,      \* connections and runs that call the skills tool
    MaxVersion,   \* bound: versions of a skill that are published
    Backend,      \* "fs" or "db"
    MayFail       \* whether writing manifest.json may fail

Versions == 1..MaxVersion
Altered == MaxVersion + 1     \* a text that is not a published one
Texts == Versions \cup {Altered}
Idle == [pc |-> "idle"]

(* What is stored of a skill: the version and the text of skill.md, the     *)
(* version whose source and publisher manifest.json names, and enabled.     *)
(* A skill that is not stored has version 0.                                *)
Absent == [version |-> 0, text |-> 0, source |-> 0, enabled |-> TRUE]

VARIABLES
    published,   \* external: the version of a skill in the signed index
    skill,       \* what is stored of a skill
    caller,      \* a caller: where it is, and what it has read
    asked,       \* ghost: the enabled state last asked for and answered
    offered      \* the skills registered for the latest run: "no", or their state then

vars == <<published, skill, caller, asked, offered>>

Installed == {n \in Names : skill[n].version # 0}

Init ==
    /\ published = [n \in Names |-> 1]
    /\ skill = [n \in Names |-> Absent]
    /\ caller = [c \in Callers |-> Idle]
    /\ asked = [n \in Names |-> TRUE]
    /\ offered = [n \in Names |-> "no"]

Enter(c, state) == caller' = [caller EXCEPT ![c] = state]
Put(n, record) == skill' = [skill EXCEPT ![n] = record]

(* The publisher signs the next version of a skill. *)
Publish(n) ==
    /\ published[n] < MaxVersion
    /\ published' = [published EXCEPT ![n] = @ + 1]
    /\ UNCHANGED <<skill, caller, asked, offered>>

-----------------------------------------------------------------------------
(* The library. *)

(* FetchIndex: the entry of a skill.  The index is not signed as a whole,   *)
(* so an entry may be one that its publisher did not sign.                  *)
FetchIndex(n) ==
    {[version |-> published[n], signed |-> TRUE, sha |-> published[n]]}
        \cup [version : Versions, signed : {FALSE}, sha : {Altered}]

(* verifyEntrySignature: over the name, the version, the URL and the hash. *)
Verified(entry) == entry.signed

(* Mutant of Matches: the hash of the downloaded text is not compared. *)
MatchesAny(entry, text) == TRUE

(* Install, its check of the SHA256 of the body. *)
Matches(entry, text) == text = entry.sha

(* compareVersions(left, right) < 0. *)
Older(left, right) == left < right

(* Install is answered; Update goes on with the rest of its skills. *)
AfterInstall(c) ==
    LET rest == caller[c].rest
    IN  IF rest = {} THEN Enter(c, Idle)
        ELSE \E r \in rest : Enter(c, [pc |-> "fetch", name |-> r[1], want |-> r[2], rest |-> rest \ {r}])

(* Install up to the download: want is 0 for any version. *)
InstallFetch(c) ==
    /\ caller[c].pc = "fetch"
    /\ \/ AfterInstall(c)     \* the index cannot be read, or has no such entry
       \/ \E entry \in FetchIndex(caller[c].name) :
            /\ caller[c].want \in {0, entry.version}
            /\ Verified(entry)
            /\ Enter(c, [pc |-> "download", name |-> caller[c].name, entry |-> entry, rest |-> caller[c].rest])
    /\ UNCHANGED <<published, skill, asked, offered>>

(* downloadSkill, the SHA256 and parseFrontmatter. *)
DownloadSkill(c) ==
    /\ caller[c].pc = "download"
    /\ \/ AfterInstall(c)
       \/ \E text \in Texts :
            /\ Matches(caller[c].entry, text)
            /\ Enter(c, [pc |-> "store", name |-> caller[c].name, rest |-> caller[c].rest,
                         new |-> [version |-> caller[c].entry.version, text |-> text,
                                  source |-> caller[c].entry.version, enabled |-> TRUE]])
    /\ UNCHANGED <<published, skill, asked, offered>>

(* Mutant of Reinstalled: the skill of the library is stored as it is. *)
ReinstalledEnabled(old, new) == new

(* The modifier of Install: the enabled state is preserved. *)
Reinstalled(old, new) == [new EXCEPT !.enabled = old.enabled]

-----------------------------------------------------------------------------
(* The skills of fsstore. *)

(* writeInstalledSkillFiles: skill.md, then manifest.json.  A manifest that *)
(* is not there reads as enabled and without a source.                      *)
WriteInstalledSkillFiles(n, record, ok) ==
    Put(n, IF ok THEN record ELSE [skill[n] EXCEPT !.version = record.version, !.text = record.text])

(* The transaction of Install: getSkill, then createSkill or modifySkill. *)
InstallFile(c) ==
    /\ Backend = "fs" /\ caller[c].pc = "store"
    /\ LET n == caller[c].name
           record == IF n \in Installed THEN Reinstalled(skill[n], caller[c].new) ELSE caller[c].new
       IN  \E ok \in {TRUE, ~MayFail} : WriteInstalledSkillFiles(n, record, ok)
    /\ AfterInstall(c)
    /\ UNCHANGED <<published, asked, offered>>

(* modifySkill of skills.setEnabled: an error when the skill is not there. *)
SetEnabledFile(c, n, enabled) ==
    /\ Backend = "fs" /\ n \in Installed
    /\ \E ok \in {TRUE, ~MayFail} :
         /\ WriteInstalledSkillFiles(n, [skill[n] EXCEPT !.enabled = enabled], ok)
         /\ asked' = [asked EXCEPT ![n] = IF ok THEN enabled ELSE @]
    /\ UNCHANGED <<published, caller, offered>>

(* deleteSkill: the directory, into the trash. *)
DeleteSkillFile(n) ==
    /\ Backend = "fs" /\ n \in Installed
    /\ Put(n, Absent)

-----------------------------------------------------------------------------
(* The skills of dbstore. *)

(* The transaction of Install: whether there is a row decides. *)
GetSkillRow(c) ==
    /\ Backend = "db" /\ caller[c].pc = "store"
    /\ Enter(c, [caller[c] EXCEPT !.pc = IF caller[c].name \in Installed THEN "modify" ELSE "create"])
    /\ UNCHANGED <<published, skill, asked, offered>>

(* CreateSkill: a duplicate key is an error. *)
CreateSkillRow(c) ==
    /\ caller[c].pc = "create"
    /\ IF caller[c].name \in Installed THEN UNCHANGED skill ELSE Put(caller[c].name, caller[c].new)
    /\ AfterInstall(c)
    /\ UNCHANGED <<published, asked, offered>>

(* ModifySkill, its read and the modifier of Install. *)
InstallModifyRow(c) ==
    /\ caller[c].pc = "modify"
    /\ IF caller[c].name \in Installed
       THEN Enter(c, [caller[c] EXCEPT !.pc = "write", !.new = Reinstalled(skill[caller[c].name], @)])
       ELSE AfterInstall(c)
    /\ UNCHANGED <<published, skill, asked, offered>>

(* ModifySkill, its read and the modifier of skills.setEnabled. *)
SetEnabledRow(c, n, enabled) ==
    /\ Backend = "db" /\ caller[c].pc = "idle" /\ n \in Installed
    /\ Enter(c, [pc |-> "enable", name |-> n, rest |-> {}, new |-> [skill[n] EXCEPT !.enabled = enabled]])
    /\ UNCHANGED <<published, skill, asked, offered>>

(* ModifySkill, its UPDATE: of no row when the skill was deleted, and then  *)
(* the read after it is an error.                                           *)
UpdateSkillRow(c) ==
    /\ caller[c].pc \in {"write", "enable"}
    /\ LET n == caller[c].name
           new == caller[c].new
       IN  IF n \in Installed
           THEN /\ Put(n, new)
                /\ asked' = [asked EXCEPT ![n] = IF caller[c].pc = "enable" THEN new.enabled ELSE @]
           ELSE UNCHANGED <<skill, asked>>
    /\ AfterInstall(c)
    /\ UNCHANGED <<published, offered>>

(* DeleteSkill. *)
DeleteSkillRow(n) ==
    /\ Backend = "db" /\ n \in Installed
    /\ Put(n, Absent)

-----------------------------------------------------------------------------
(* skills.* and the actions of the skills tool. *)

BeginInstall(c, n, version) ==
    /\ caller[c].pc = "idle"
    /\ Enter(c, [pc |-> "fetch", name |-> n, want |-> version, rest |-> {}])
    /\ UNCHANGED <<published, skill, asked, offered>>

(* Update, its index: of all skills, or of the one that is named. *)
BeginUpdate(c, names) ==
    /\ caller[c].pc = "idle"
    /\ Enter(c, [pc |-> "list", index |-> [n \in names |-> published[n]]])
    /\ UNCHANGED <<published, skill, asked, offered>>

(* Update, after the index: the installed skills that are older. *)
UpdateList(c) ==
    /\ caller[c].pc = "list"
    /\ LET index == caller[c].index
           older == {<<n, index[n]>> : n \in {m \in Installed \cap DOMAIN index : Older(skill[m].version, index[m])}}
       IN  IF older = {} THEN Enter(c, Idle)
           ELSE \E r \in older : Enter(c, [pc |-> "fetch", name |-> r[1], want |-> r[2], rest |-> older \ {r}])
    /\ UNCHANGED <<published, skill, asked, offered>>

Uninstall(n) ==
    /\ DeleteSkillFile(n) \/ DeleteSkillRow(n)
    /\ asked' = [asked EXCEPT ![n] = TRUE]
    /\ UNCHANGED <<published, caller, offered>>

SetEnabled(c, n, enabled) ==
    \/ SetEnabledFile(c, n, enabled)
    \/ SetEnabledRow(c, n, enabled)

HandleSkillsInstall(c) == \E n \in Names, version \in {0} \cup Versions : BeginInstall(c, n, version)
HandleSkillsUpdate(c) == BeginUpdate(c, Names) \/ \E n \in Names : BeginUpdate(c, {n})
HandleSkillsUninstall(c) == \E n \in Names : Uninstall(n)
HandleSkillsSetEnabled(c) == \E n \in Names, enabled \in BOOLEAN : SetEnabled(c, n, enabled)

ExecuteInstallOrUpdate(c) == HandleSkillsInstall(c) \/ HandleSkillsUpdate(c)
ExecuteUninstallOrEnable(c) == HandleSkillsUninstall(c) \/ HandleSkillsSetEnabled(c)

(* RegisterSkills, when a run is prepared: of every skill in the store that *)
(* the agent's list allows, here all.                                       *)
RegisterSkills ==
    /\ offered' = [n \in Names |-> IF n \notin Installed THEN "no"
                                   ELSE IF skill[n].enabled THEN "enabled" ELSE "disabled"]
    /\ UNCHANGED <<published, skill, caller, asked>>

-----------------------------------------------------------------------------
Next ==
    \/ \E n \in Names : Publish(n)
    \/ \E c \in Callers :
         \/ HandleSkillsInstall(c) \/ HandleSkillsUpdate(c) \/ HandleSkillsUninstall(c) \/ HandleSkillsSetEnabled(c)
         \/ ExecuteInstallOrUpdate(c) \/ ExecuteUninstallOrEnable(c)
         \/ InstallFetch(c) \/ DownloadSkill(c) \/ UpdateList(c)
         \/ InstallFile(c) \/ GetSkillRow(c) \/ CreateSkillRow(c) \/ InstallModifyRow(c) \/ UpdateSkillRow(c)
    \/ RegisterSkills

Spec == Init /\ [][Next]_vars

-----------------------------------------------------------------------------
TypeOK ==
    /\ published \in [Names -> Versions]
    /\ skill \in [Names -> [version : 0..MaxVersion, text : 0..Altered, source : 0..MaxVersion, enabled : BOOLEAN]]
    /\ caller \in [Callers -> UNION {
           {Idle},
           [pc : {"fetch"}, name : Names, want : 0..MaxVersion, rest : SUBSET (Names \X Versions)],
           [pc : {"list"}, index : UNION {[S -> Versions] : S \in SUBSET Names}],
           [pc : {"download"}, name : Names, entry : [version : Versions, signed : {TRUE}, sha : Versions],
            rest : SUBSET (Names \X Versions)],
           [pc : {"store", "create", "modify", "write", "enable"}, name : Names,
            new : [version : Versions, text : Texts, source : 0..MaxVersion, enabled : BOOLEAN],
            rest : SUBSET (Names \X Versions)]}]
    /\ asked \in [Names -> BOOLEAN]
    /\ offered \in [Names -> {"no", "enabled", "disabled"}]

(* What is installed is what its publisher signed: the text that is stored  *)
(* and offered to agents is the one published under the version it is shown *)
(* with, through every order of installs, updates and changes of the index. *)
InstalledIsPublished ==
    \A n \in Installed : skill[n].text = skill[n].version /\ skill[n].version <= published[n]

(* A skill that an administrator disabled stays disabled until it is        *)
(* enabled or uninstalled: no reinstall or update in between, and no write  *)
(* that fails half way, enables it ("Preserve enabled state on reinstall"). *)
EnabledKept == \A n \in Installed : skill[n].enabled = asked[n]

(* Only enabled skills are registered for a run. *)
EnabledOnly == \A n \in Names : offered[n] # "disabled"

(* An install or an update never replaces a skill by an older version. *)
NoDowngrade == [][\A n \in Names : skill'[n].version # 0 => skill[n].version <= skill'[n].version]_vars
=============================================================================
