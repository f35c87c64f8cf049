----------------------------- MODULE JobRecords -----------------------------
(***************************************************************************)
(* The stored jobs and their runs: jobs.*, the jobs tool and the webhook   *)
(* of users, against the transactions of the scheduler, over either store. *)
(* Module Scheduler has the scheduler itself.                              *)
(*                                                                         *)
(* In fsstore a transaction is one step under the store's mutex.  In       *)
(* dbstore ModifyJob reads a row and writes all of its columns in two      *)
(* statements, at READ COMMITTED; an update of a row that is gone changes  *)
(* nothing and is an error.  Of a job the owner, its trigger, whether it   *)
(* is enabled and one text (for name, prompt, model and schedule) are      *)
(* kept.  A scheduled job is one that runs once, at a time that has come;  *)
(* a webhook job has its secret.                                           *)
(***************************************************************************)
EXTENDS Naturals, FiniteSets

CONSTANTS
    Ids,       \* job ids; an id is used once
    Users,     \* users
    Texts,     \* texts of jobs
    Callers,   \* connections and runs of users: [user, ...] by UserOf
    UserOf,    \* the user of a caller
    Backend,   \* "fs" or "db"
    MaxArms,   \* bound: how often users enable a job
    MaxFires   \* bound: no tick starts with a job that was fired so often

Idle == [pc |-> "idle"]
Unused == [status |-> "unused"]
Gone == [status |-> "gone"]

VARIABLES
    job,        \* the record of a job
    scheduler,  \* the tick: where it is, what it has read, and the jobs that are left
    executing,  \* the jobs that the scheduler fired and whose run goes on
    call,       \* a caller: where it is, and what it has read
    armed,      \* ghost: how often a user created or enabled a job
    fired,      \* ghost: how often the scheduler fired it
    runs        \* the runs that are recorded for a job, by who asked for them

vars == <<job, scheduler, executing, call, armed, fired, runs>>

Stored == {j \in Ids : job[j].status = "stored"}
Owned(c) == {j \in Stored : job[j].owner = UserOf[c]}

Init ==
    /\ job = [j \in Ids |-> Unused]
    /\ scheduler = Idle /\ executing = {}
    /\ call = [c \in Callers |-> Idle]
    /\ armed = [j \in Ids |-> 0]
    /\ fired = [j \in Ids |-> 0]
    /\ runs = [j \in Ids |-> {}]

Enter(c, state) == call' = [call EXCEPT ![c] = state]
Put(j, record) == job' = [job EXCEPT ![j] = record]
Arm(j, yes) == armed' = [armed EXCEPT ![j] = IF yes THEN @ + 1 ELSE @]

-----------------------------------------------------------------------------
(* The jobs of the stores. *)

(* createJob: an id that is new. *)
CreateJobFile(j, record) == Backend = "fs" /\ job[j] = Unused /\ Put(j, record)
CreateJobRow(j, record) == Backend = "db" /\ job[j] = Unused /\ Put(j, record)

(* modifyJob: the file is read, changed and written. *)
ModifyJobFile(j, record) == Put(j, IF j \in Stored THEN record ELSE job[j])

(* Mutant of ModifyJobRow: an upsert. *)
SaveJobRow(j, record) == Put(j, record)

(* ModifyJob, its UPDATE. *)
ModifyJobRow(j, record) == Put(j, IF j \in Stored THEN record ELSE job[j])

(* deleteJob: into the trash; a DELETE.  The runs stay. *)
DeleteJobFile(j) == Backend = "fs" /\ Put(j, Gone)
DeleteJobRow(j) == Backend = "db" /\ Put(j, Gone)

(* createJobRun: without a look at the job. *)
CreateJobRunFile(j, trigger) == Backend = "fs" /\ runs' = [runs EXCEPT ![j] = @ \cup {trigger}]
CreateJobRunRow(j, trigger) == Backend = "db" /\ runs' = [runs EXCEPT ![j] = @ \cup {trigger}]
CreateJobRun(j, trigger) == CreateJobRunFile(j, trigger) \/ CreateJobRunRow(j, trigger)

-----------------------------------------------------------------------------
(* jobs.* and the jobs tool. *)

New(c, trigger, text) ==
    [status |-> "stored", owner |-> UserOf[c], trigger |-> trigger, enabled |-> TRUE, text |-> text]

Create(c, trigger, text) ==
    /\ call[c].pc = "idle"
    /\ \E j \in Ids :
         /\ CreateJobFile(j, New(c, trigger, text)) \/ CreateJobRow(j, New(c, trigger, text))
         /\ Arm(j, TRUE)
    /\ UNCHANGED <<scheduler, executing, call, fired, runs>>

HandleJobsCreate(c) == \E trigger \in {"scheduled", "webhook"}, text \in Texts : Create(c, trigger, text)
ExecuteCreate(c) == \E trigger \in {"scheduled", "webhook"}, text \in Texts : Create(c, trigger, text)

(* The fields of a patch that are not nil: the text, or enabled. *)
MergeJobUpdate(record) ==
    {[record EXCEPT !.text = text] : text \in Texts} \cup {[record EXCEPT !.enabled = enabled] : enabled \in BOOLEAN}

Enables(old, new) == new.enabled /\ ~old.enabled

(* jobs.update: one transaction. *)
HandleJobsUpdate(c) ==
    /\ call[c].pc = "idle"
    /\ \E j \in Owned(c) : \E record \in MergeJobUpdate(job[j]) :
         /\ Enables(job[j], record) => armed[j] < MaxArms
         /\ \/ /\ Backend = "fs"
               /\ ModifyJobFile(j, record) /\ Arm(j, Enables(job[j], record))
               /\ UNCHANGED call
            \/ /\ Backend = "db"
               /\ Enter(c, [pc |-> "write", id |-> j, record |-> record, arms |-> Enables(job[j], record)])
               /\ UNCHANGED <<job, armed>>
    /\ UNCHANGED <<scheduler, executing, fired, runs>>

(* update of the tool: the job is read and changed in one transaction ...   *)
ExecuteUpdate(c) ==
    /\ call[c].pc = "idle"
    /\ \E j \in Owned(c) : \E record \in MergeJobUpdate(job[j]) :
         /\ Enables(job[j], record) => armed[j] < MaxArms
         /\ Enter(c, [pc |-> "write", id |-> j, record |-> record, arms |-> Enables(job[j], record)])
    /\ UNCHANGED <<job, scheduler, executing, armed, fired, runs>>

(* ... and all of it is written in another.  Also the UPDATE of jobs.update. *)
WriteUpdate(c) ==
    /\ call[c].pc = "write"
    /\ \/ Backend = "fs" /\ ModifyJobFile(call[c].id, call[c].record)
       \/ Backend = "db" /\ ModifyJobRow(call[c].id, call[c].record)
    /\ Arm(call[c].id, call[c].arms /\ call[c].id \in Stored)
    /\ Enter(c, Idle)
    /\ UNCHANGED <<scheduler, executing, fired, runs>>

HandleJobsDelete(c) ==
    /\ call[c].pc = "idle"
    /\ \E j \in Owned(c) : DeleteJobFile(j) \/ DeleteJobRow(j)
    /\ UNCHANGED <<scheduler, executing, call, armed, fired, runs>>

ExecuteDelete(c) == HandleJobsDelete(c)

(* jobs.trigger, and trigger of the tool: the owner is checked, ...         *)
HandleJobsTrigger(c) ==
    /\ call[c].pc = "idle"
    /\ \E j \in Owned(c) : Enter(c, [pc |-> "trigger", id |-> j, by |-> "manual"])
    /\ UNCHANGED <<job, scheduler, executing, armed, fired, runs>>

ExecuteTrigger(c) == HandleJobsTrigger(c)

(* The webhook of a job that is enabled, with its secret. *)
HandleJobWebhook(c) ==
    /\ call[c].pc = "idle"
    /\ \E j \in {i \in Stored : job[i].trigger = "webhook" /\ job[i].enabled} :
         Enter(c, [pc |-> "trigger", id |-> j, by |-> "webhook"])
    /\ UNCHANGED <<job, scheduler, executing, armed, fired, runs>>

(* Mutant of TriggerJobFile: the job that was checked is not read again. *)
TriggerJobFileUnread(j, by) == CreateJobRunFile(j, by)

(* ... TriggerJobWithMetadata reads the job in the transaction of the run,  *)
TriggerJobFile(j, by) == IF j \in Stored THEN CreateJobRunFile(j, by) ELSE UNCHANGED runs

TriggerJob(c) ==
    /\ call[c].pc = "trigger"
    /\ \/ Backend = "fs" /\ TriggerJobFile(call[c].id, call[c].by) /\ Enter(c, Idle)
       \/ /\ Backend = "db"
          /\ Enter(c, IF call[c].id \in Stored THEN [call[c] EXCEPT !.pc = "create"] ELSE Idle)
          /\ UNCHANGED runs
    /\ UNCHANGED <<job, scheduler, executing, armed, fired>>

(* in dbstore in another statement than it creates the run.                 *)
TriggerJobRow(c) ==
    /\ call[c].pc = "create"
    /\ CreateJobRunRow(call[c].id, call[c].by)
    /\ Enter(c, Idle)
    /\ UNCHANGED <<job, scheduler, executing, armed, fired>>

-----------------------------------------------------------------------------
(* The transactions of the scheduler. *)

Due(j) == job[j].trigger = "scheduled" /\ job[j].enabled

(* A tick lists the jobs. *)
ListJobs ==
    /\ scheduler.pc = "idle"
    /\ \A j \in Stored : Due(j) => fired[j] < MaxFires
    /\ \E j \in Stored : Due(j)
    /\ scheduler' = [pc |-> "listed", todo |-> {j \in Stored : Due(j)}]
    /\ UNCHANGED <<job, executing, call, armed, fired, runs>>

(* The tick goes on with the jobs that are left. *)
Continue(todo) == scheduler' = IF todo = {} THEN Idle ELSE [pc |-> "listed", todo |-> todo]

(* Before a job is fired it is disabled: it is read again, which fails when *)
(* it is gone, ...                                                          *)
DisableReads ==
    /\ scheduler.pc = "listed"
    /\ \E j \in scheduler.todo :
         LET left == scheduler.todo \ {j} IN
         \/ /\ j \notin Stored
            /\ Continue(left)
            /\ UNCHANGED job
         \/ /\ j \in Stored /\ Backend = "fs"
            /\ ModifyJobFile(j, [job[j] EXCEPT !.enabled = FALSE])
            /\ scheduler' = [pc |-> "fire", id |-> j, todo |-> left]
         \/ /\ j \in Stored /\ Backend = "db"
            /\ scheduler' = [pc |-> "disable", id |-> j, todo |-> left, record |-> [job[j] EXCEPT !.enabled = FALSE]]
            /\ UNCHANGED job
    /\ UNCHANGED <<executing, call, armed, fired, runs>>

(* ... and written. *)
DisableWrites ==
    /\ scheduler.pc = "disable"
    /\ ModifyJobRow(scheduler.id, scheduler.record)
    /\ \/ /\ scheduler.id \in Stored
          /\ scheduler' = [pc |-> "fire", id |-> scheduler.id, todo |-> scheduler.todo]
       \/ /\ scheduler.id \notin Stored
          /\ Continue(scheduler.todo)
    /\ UNCHANGED <<executing, call, armed, fired, runs>>

(* The job is triggered, in dbstore without a lock on its row. *)
Fire ==
    /\ scheduler.pc = "fire"
    /\ IF scheduler.id \in Stored
       THEN /\ CreateJobRun(scheduler.id, "scheduled")
            /\ fired' = [fired EXCEPT ![scheduler.id] = @ + 1]
            /\ executing' = executing \cup {scheduler.id}
       ELSE UNCHANGED <<runs, fired, executing>>
    /\ Continue(scheduler.todo)
    /\ UNCHANGED <<job, call, armed>>

(* The run completes and its job is deleted; it is kept when the run could  *)
(* not be started.                                                          *)
RunCompletes ==
    /\ \E j \in executing :
         /\ executing' = executing \ {j}
         /\ IF j \in Stored THEN DeleteJobFile(j) \/ DeleteJobRow(j) \/ UNCHANGED job ELSE UNCHANGED job
    /\ UNCHANGED <<scheduler, call, armed, fired, runs>>

-----------------------------------------------------------------------------
Next ==
    \/ \E c \in Callers :
         \/ HandleJobsCreate(c) \/ HandleJobsUpdate(c) \/ HandleJobsDelete(c) \/ HandleJobsTrigger(c)
         \/ ExecuteCreate(c) \/ ExecuteUpdate(c) \/ ExecuteDelete(c) \/ ExecuteTrigger(c)
         \/ HandleJobWebhook(c) \/ WriteUpdate(c) \/ TriggerJob(c) \/ TriggerJobRow(c)
    \/ ListJobs \/ DisableReads \/ DisableWrites \/ Fire \/ RunCompletes

Spec == Init /\ [][Next]_vars

-----------------------------------------------------------------------------
Records == {Unused, Gone} \cup
    [status : {"stored"}, owner : Users, trigger : {"scheduled", "webhook"}, enabled : BOOLEAN, text : Texts]

TypeOK ==
    /\ job \in [Ids -> Records]
    /\ scheduler.pc \in {"idle", "listed", "disable", "fire"} /\ executing \subseteq Ids
    /\ \A c \in Callers : call[c].pc \in {"idle", "write", "trigger", "create"}
    /\ armed \in [Ids -> 0..MaxArms + Cardinality(Callers)] /\ fired \in [Ids -> 0..MaxFires]
    /\ runs \in [Ids -> SUBSET {"manual", "webhook", "scheduled"}]

(* A job that was deleted, by its owner or by the scheduler after its run,  *)
(* is not brought back by an update that has read it before, and a job      *)
(* never goes to another user.                                              *)
JobStaysGone ==
    \A j \in Ids : /\ job[j] = Gone => job'[j] = Gone
                   /\ j \in Stored /\ job'[j] # Gone => job'[j].owner = job[j].owner

(* No run is recorded for a job that was deleted, though the caller saw the *)
(* job before it was.                                                       *)
RunHasJob == \A j \in Ids : runs'[j] # runs[j] => j \in Stored

(* A job that runs once is fired once each time a user creates or enables   *)
(* it.                                                                      *)
FiresOnce == \A j \in Ids : fired[j] <= armed[j]
=============================================================================
