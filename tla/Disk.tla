-------------------------------- MODULE Disk --------------------------------
(***************************************************************************)
(* What the node keeps on disk beside its records: the executable with its *)
(* backup, which the updater replaces, and the certificate with the ACME   *)
(* account, which the certificate manager renews.  The two share no state. *)
(***************************************************************************)
EXTENDS Naturals, Sequences

CONSTANTS
    Releases,     \* the versions published, in order
    Local,        \* the version the node starts with
    Admins,       \* connections of admins
    UpdateRuns,   \* runs that use the node tool
    MayCrash,     \* whether the process may be killed and started again
    Domains,      \* domains an admin may configure
    MaxKeys,      \* bound: account keys generated
    MaxChanges    \* bound: changes of the domain, failures, deaths and expiries, each

VARIABLES
    latest, policy, status, current, backup, update, restart, requested, running, node, overlapped,
    domain, stored, served, challenge, client, loop, authority, keys, changes

updateVars == <<latest, policy, status, current, backup, update, restart, requested, running, node, overlapped>>
certificateVars == <<domain, stored, served, challenge, client, loop, authority, keys, changes>>

(* What parseSemver returns: the suffix of a version is a prerelease or the *)
(* commits since a tag, not both.                                           *)
Semver == {v \in [number : Nat, ahead : Nat, pre : Nat] : v.ahead = 0 \/ v.pre = 0}

ASSUME VersionsAssumption == Local \in Semver /\ Releases \in Seq(Semver)

(* No domain is called what stands for none.                                *)
ASSUME DomainsAssumption == "none" \notin Domains

NodeUpdater == INSTANCE Updater WITH op <- update, pending <- restart, Rpc <- Admins, Runs <- UpdateRuns

CertificateManager == INSTANCE Certificates

DiskSpec == NodeUpdater!Spec /\ CertificateManager!Spec

(* What is on disk survives failures and deaths of the process: the         *)
(* executable and its backup are whole and verified, the one on disk is no  *)
(* older than the one that runs, and as long as no two callers overlap      *)
(* there is one; a certificate that is served is stored, a resting loop has *)
(* no challenge open, and there is one ACME account.                        *)
DiskIntact ==
    /\ NodeUpdater!WholeBinary /\ NodeUpdater!DiskNotOlder /\ NodeUpdater!BinaryRemains
    /\ CertificateManager!ServedIsKept /\ CertificateManager!OneAccount
=============================================================================
