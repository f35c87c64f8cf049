------------------------------ MODULE Settings ------------------------------
(***************************************************************************)
(* The configuration of the node, in either store, and everything that     *)
(* changes it through ModifyConfiguration: the admin's requests, the       *)
(* configs tool and the certificate manager.  A field stands for a setting *)
(* that is written as a whole (a section's value, one secret).             *)
(*                                                                         *)
(* fsstore converts config.yaml to the model and back, and a field without *)
(* a place in storeConfigurationRecord is dropped; it reads and writes the *)
(* file in two steps, under the store's mutex.  dbstore keeps the whole    *)
(* configuration as one JSON value; reading it and writing it back are two *)
(* statements at READ COMMITTED, and nothing is locked.                    *)
(***************************************************************************)
CONSTANTS
    ConfigFields,  \* settings of config.update and of the configs tool
    Secrets,       \* keys of secrets.set
    FileFields,    \* the fields that storeConfigurationRecord has
    Values,        \* values a request may set
    Requests,      \* connections of admins and runs of the configs tool
    Acme,          \* the goroutine of autoacme.Manager
    Backend,       \* "fs" or "db"
    MayFail        \* whether the write may fail

Policies == "toolPolicies"
Certificate == "certificate"
Fields == ConfigFields \cup Secrets \cup {Policies, Certificate}
Writers == Requests \cup {Acme}

VARIABLES
    saved,    \* config.yaml, or the row of configurations
    writer,   \* a writer: its modifier as a patch, and the configuration it has made
    answer,   \* the answer to a writer's last request
    mutex     \* fileSystemStore.mutex: the writers that hold it

vars == <<saved, writer, answer, mutex>>

Unset == "unset"
Idle == [pc |-> "idle"]

(* No configuration: an empty file, an empty object. *)
Init ==
    /\ saved = [f \in Fields |-> Unset]
    /\ writer = [w \in Writers |-> Idle]
    /\ answer = [w \in Writers |-> "none"]
    /\ mutex = {}

-----------------------------------------------------------------------------
(* The modifiers. *)

(* A modifier that sets field f to v, and a configuration with a patch. *)
Patch(f, v) == [x \in {f} |-> v]
Patched(patch, record) == [f \in Fields |-> IF f \in DOMAIN patch THEN patch[f] ELSE record[f]]

Start(w, patch) ==
    /\ writer[w] = Idle
    /\ writer' = [writer EXCEPT ![w] = [pc |-> "modify", patch |-> patch]]
    /\ UNCHANGED <<saved, answer, mutex>>

(* The transaction ends, and with it the request. *)
Answer(w, result) ==
    /\ writer' = [writer EXCEPT ![w] = Idle]
    /\ answer' = [answer EXCEPT ![w] = result]
    /\ mutex' = mutex \ {w}

(* handleConfigUpdate: Update copies the fields that are not nil. *)
HandleConfigUpdate(w) ==
    w \in Requests /\ \E f \in ConfigFields, v \in Values : Start(w, Patch(f, v))

(* executeSet of the configs tool: a masked secret in the object it is      *)
(* given stands for the value that is there, so it is no part of the patch. *)
ExecuteSet(w) ==
    w \in Requests /\ \E f, masked \in ConfigFields, v \in Values :
        masked # f /\ Start(w, Patch(f, v))

(* handleToolPoliciesUpdate replaces the list. *)
HandleToolPoliciesUpdate(w) ==
    w \in Requests /\ \E v \in Values : Start(w, Patch(Policies, v))

(* handleSecretsSet: without a value the secret is removed. *)
HandleSecretsSet(w) ==
    w \in Requests /\ \E k \in Secrets, v \in Values \cup {Unset} : Start(w, Patch(k, v))

(* ensureACMEClient and persistCertificate. *)
PersistCertificate == \E v \in Values : Start(Acme, Patch(Certificate, v))

-----------------------------------------------------------------------------
(* fsstore. *)

(* configurationToModel. *)
ConfigurationToModel(record) ==
    [f \in Fields |-> IF f \in FileFields THEN record[f] ELSE Unset]

(* Mutant of ModelToConfiguration: the policies have no place in the file. *)
ModelToConfigurationPartly(model) ==
    [f \in Fields |-> IF f \in FileFields \ {Policies} THEN model[f] ELSE Unset]

(* modelToConfiguration. *)
ModelToConfiguration(model) ==
    [f \in Fields |-> IF f \in FileFields THEN model[f] ELSE Unset]

(* Mutant of Transaction: the mutex is taken by who already holds it only. *)
TransactionUnlocked(w) ==
    /\ Backend = "fs" /\ writer[w].pc = "modify"
    /\ mutex' = mutex \cup {w}
    /\ writer' = [writer EXCEPT ![w].pc = "locked"]
    /\ UNCHANGED <<saved, answer>>

(* Transaction waits for the mutex... *)
Transaction(w) ==
    /\ Backend = "fs" /\ writer[w].pc = "modify"
    /\ mutex = {}
    /\ mutex' = {w}
    /\ writer' = [writer EXCEPT ![w].pc = "locked"]
    /\ UNCHANGED <<saved, answer>>

(* ... modifyConfiguration loads the file and runs the modifier... *)
ReadConfigurationFile(w) ==
    /\ writer[w].pc = "locked"
    /\ writer' = [writer EXCEPT ![w] =
                      [pc |-> "write", patch |-> @.patch,
                       data |-> Patched(@.patch, ConfigurationToModel(saved))]]
    /\ UNCHANGED <<saved, answer, mutex>>

(* ... and the rename of saveConfigurationRecord replaces the file. *)
WriteConfigurationFile(w) ==
    /\ Backend = "fs" /\ writer[w].pc = "write"
    /\ saved' = ModelToConfiguration(writer[w].data)
    /\ Answer(w, "ok")

(* atomicfile.WriteFile writes another file first and renames it.  dbstore  *)
(* rolls back.                                                              *)
ModifyFails(w) ==
    /\ MayFail /\ writer[w] # Idle
    /\ Answer(w, "error")
    /\ UNCHANGED saved

-----------------------------------------------------------------------------
(* dbstore. *)

(* ModifyConfiguration reads the newest row and runs the modifier... *)
ReadConfigurationRow(w) ==
    /\ Backend = "db" /\ writer[w].pc = "modify"
    /\ writer' = [writer EXCEPT ![w] =
                      [pc |-> "write", patch |-> @.patch, data |-> Patched(@.patch, saved)]]
    /\ UNCHANGED <<saved, answer, mutex>>

(* ... and writes all of it, whatever the row holds by then. *)
WriteConfigurationRow(w) ==
    /\ Backend = "db" /\ writer[w].pc = "write"
    /\ saved' = writer[w].data
    /\ Answer(w, "ok")

-----------------------------------------------------------------------------
Step(w) ==
    \/ Transaction(w) \/ ReadConfigurationFile(w) \/ WriteConfigurationFile(w)
    \/ ReadConfigurationRow(w) \/ WriteConfigurationRow(w)

Next ==
    \/ \E w \in Writers :
        \/ HandleConfigUpdate(w) \/ ExecuteSet(w)
        \/ HandleToolPoliciesUpdate(w) \/ HandleSecretsSet(w)
        \/ Step(w) \/ ModifyFails(w)
    \/ PersistCertificate

Spec == Init /\ [][Next]_vars

(* A transaction that was begun comes to its end. *)
FairSpec == Spec /\ \A w \in Writers : WF_vars(Step(w))

-----------------------------------------------------------------------------
(* Properties. *)

TypeOK ==
    /\ saved \in [Fields -> Values \cup {Unset}]
    /\ \A w \in Writers : writer[w].pc \in {"idle", "modify", "locked", "write"}
    /\ answer \in [Writers -> {"none", "ok", "error"}]
    /\ mutex \subseteq Writers

(* What a writer has asked for and has not been answered. *)
Asked == [w \in Writers |-> IF writer[w] = Idle THEN [f \in {} |-> Unset] ELSE writer[w].patch]

(* The fields that the store has a place for. *)
Kept == IF Backend = "fs" THEN FileFields ELSE Fields

Atomic == INSTANCE AtomicSettings
    WITH settings <- saved, asked <- Asked, Fields <- Fields, Values <- Values, Writers <- Writers, Kept <- Kept

(* docs/autoacme-alpn.md, "Atomic updates are provided by the config        *)
(* store's ModifyConfiguration transaction": of two writers neither undoes  *)
(* what the other has set, and what was answered is saved, in the fields    *)
(* that are kept.  So it is in the file store, under its mutex.             *)
UpdatesAtomic == Atomic!Spec
=============================================================================
