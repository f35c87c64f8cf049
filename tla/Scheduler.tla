----------------------------- MODULE Scheduler -----------------------------
(***************************************************************************)
(* The job scheduler (jobs.Scheduler) over the store: the tick, manual     *)
(* triggers, the goroutine that executes a job, users who edit and delete  *)
(* jobs meanwhile, transactions of the tick that fail, and crashes of the  *)
(* process, which keep the store and lose everything else.  A step is one  *)
(* transaction or one mutex hold.                                          *)
(***************************************************************************)
EXTENDS Integers, Sequences, FiniteSets

CONSTANTS
    Jobs,         \* job ids
    Matching,     \* the minutes the cron schedules match
    RollsBack,    \* a failed transaction is undone (database, not file store)
    MaxMinute,    \* bound: minutes
    MaxRuns,      \* bound: job runs
    MaxEdits,     \* bound: what users do
    MaxCrashes    \* bound: crashes

ASSUME SchedulerAssumption ==
    /\ MaxMinute \in Nat \ {0} /\ MaxRuns \in Nat /\ MaxEdits \in Nat /\ MaxCrashes \in Nat
    /\ Matching \subseteq 1..MaxMinute
    /\ RollsBack \in BOOLEAN

Minutes == 1..MaxMinute

(* A stored job fires at the minute runAt, or by its cron schedule if that  *)
(* is 0 (nil).  Webhook jobs are skipped by the tick: they are fired as the *)
(* manual ones are.                                                         *)
Job == [enabled : BOOLEAN, runAt : Minutes \cup {0}, oneShot : BOOLEAN]

(* A stored JobRun, with the goroutine that executes it.  The fields        *)
(* minute, by and epoch are history: when it was created, whether by a cron *)
(* schedule, a one-shot time or a user, and in which life of the process.   *)
JobRun == [job : Jobs, oneShot : BOOLEAN, status : {"running", "success", "error"},
           exec : {"running", "done", "lost"},
           minute : Minutes, by : {"cron", "time", "user"}, epoch : Nat]

VARIABLES
    job,          \* stored jobs, by id
    stored,       \* the ids in the store
    runs,         \* stored job runs
    now,          \* the minute
    lastCronFire, \* Scheduler.lastCronFire
    tpc,          \* where tick is
    when,         \* its time, 0 between ticks
    listed,       \* the jobs it has not yet looked at, as it has read them
    target,       \* the job it is about to trigger
    edits,        \* what users did
    crashes,      \* crashes so far: the epoch
    armed,        \* how often a user armed a job (history variable)
    withdrawn,    \* jobs a user disabled or deleted (history variable)
    missed        \* jobs whose triggering failed (history variable)

storeVars == <<job, stored, runs>>
tickVars == <<tpc, when, listed, target>>
tally == <<edits, armed, withdrawn, missed>>
vars == <<storeVars, now, lastCronFire, tickVars, tally, crashes>>

NoneListed == [j \in {} |-> job[j]]

Init ==
    /\ job \in [Jobs -> {x \in Job : x.enabled}]
    /\ stored = Jobs
    /\ runs = <<>>
    /\ now = 1
    /\ lastCronFire = [j \in Jobs |-> 0]
    /\ tpc = "idle"
    /\ when = 0
    /\ listed = NoneListed
    /\ target \in Jobs
    /\ edits = 0
    /\ crashes = 0
    /\ armed = [j \in Jobs |-> IF job[j].runAt # 0 THEN 1 ELSE 0]
    /\ withdrawn = {}
    /\ missed = {}

-----------------------------------------------------------------------------
(* The tick.                                                                *)

Minute ==
    /\ now < MaxMinute
    /\ now' = now + 1
    /\ UNCHANGED <<storeVars, lastCronFire, tickVars, tally, crashes>>

(* A tick reads all jobs in one transaction; if that fails it is over.      *)
Tick ==
    /\ tpc = "idle"
    /\ tpc' = "loop"
    /\ when' = now
    /\ listed' = [j \in stored |-> job[j]]
    /\ UNCHANGED <<storeVars, now, lastCronFire, target, tally, crashes>>

(* Mutant: only the very minute counts.                                     *)
DueExactly(x) == when = x.runAt

Due(x) == when >= x.runAt

(* Mutant: the minute is rounded instead of truncated.                      *)
RoundedMinute == when + 1

MinuteBoundary == when

AlreadyFired(j) == lastCronFire[j] = MinuteBoundary

Passed(x, j) ==
    \/ ~x.enabled
    \/ x.runAt # 0 /\ ~Due(x)
    \/ x.runAt = 0 /\ when \notin Matching
    \/ x.runAt = 0 /\ when \in Matching /\ AlreadyFired(j)

Unseen(j) == [k \in DOMAIN listed \ {j} |-> listed[k]]

(* A job that is disabled, not due, or has fired in this minute.            *)
Pass(j) ==
    /\ tpc = "loop"
    /\ j \in DOMAIN listed
    /\ Passed(listed[j], j)
    /\ listed' = Unseen(j)
    /\ UNCHANGED <<storeVars, now, lastCronFire, tpc, when, target, tally, crashes>>

(* Mutant: the job stays enabled.                                           *)
StillEnabled(x) == x

Disabled(x) == [x EXCEPT !.enabled = FALSE]

(* A one-shot time has come: the job is disabled before it is triggered.    *)
(* A job deleted since it was read is skipped.                              *)
DisableOneShot(j) ==
    /\ tpc = "loop"
    /\ j \in DOMAIN listed
    /\ listed[j].enabled /\ listed[j].runAt # 0 /\ Due(listed[j])
    /\ listed' = Unseen(j)
    /\ IF j \in stored
         THEN /\ job' = [job EXCEPT ![j] = Disabled(@)]
              /\ tpc' = "time"
              /\ target' = j
         ELSE UNCHANGED <<job, tpc, target>>
    /\ UNCHANGED <<stored, runs, now, lastCronFire, when, tally, crashes>>

(* The job cannot be disabled: it is left for the next tick.                *)
DisableFails(j) ==
    /\ tpc = "loop"
    /\ j \in DOMAIN listed
    /\ listed[j].enabled /\ listed[j].runAt # 0 /\ Due(listed[j])
    /\ listed' = Unseen(j)
    /\ UNCHANGED <<storeVars, now, lastCronFire, tpc, when, target, tally, crashes>>

(* Mutant: the firing is not remembered.                                    *)
Forgotten(j) == lastCronFire

Remembered(j) == [lastCronFire EXCEPT ![j] = MinuteBoundary]

(* A cron schedule matches and has not fired in this minute.                *)
FireCron(j) ==
    /\ tpc = "loop"
    /\ j \in DOMAIN listed
    /\ listed[j].enabled /\ listed[j].runAt = 0
    /\ when \in Matching
    /\ ~AlreadyFired(j)
    /\ lastCronFire' = Remembered(j)
    /\ listed' = Unseen(j)
    /\ tpc' = "cron"
    /\ target' = j
    /\ UNCHANGED <<storeVars, now, when, tally, crashes>>

NewRun(j, minute, by) ==
    [job |-> j, oneShot |-> job[j].oneShot, status |-> "running", exec |-> "running",
     minute |-> minute, by |-> by, epoch |-> crashes]

(* TriggerJobWithMetadata: the job is read again, its run is stored and the *)
(* goroutine started.  An error, be it that the job is gone, is logged.     *)
TriggerScheduled ==
    /\ tpc \in {"cron", "time"}
    /\ \/ /\ target \in stored /\ Len(runs) < MaxRuns
          /\ runs' = Append(runs, NewRun(target, when, tpc))
          /\ UNCHANGED missed
       \/ /\ missed' = missed \cup {target}
          /\ UNCHANGED runs
    /\ tpc' = "loop"
    /\ UNCHANGED <<job, stored, now, lastCronFire, when, listed, target, edits, armed,
                   withdrawn, crashes>>

TickDone ==
    /\ tpc = "loop"
    /\ DOMAIN listed = {}
    /\ tpc' = "idle"
    /\ when' = 0
    /\ UNCHANGED <<storeVars, now, lastCronFire, listed, target, tally, crashes>>

-----------------------------------------------------------------------------
(* executeJob, in a goroutine per run: the agent and the conversation are   *)
(* resolved and the coordinator runs the prompt, for as long as it takes.   *)

(* Mutant: the failure is logged and the run forgotten.                     *)
Abandoned(r) == [r EXCEPT !.exec = "done"]

Failed(r) == [r EXCEPT !.exec = "done", !.status = "error"]

(* They cannot be resolved: completeJobRun.                                 *)
ResolveFails(n) ==
    /\ runs[n].exec = "running"
    /\ runs' = [runs EXCEPT ![n] = Failed(@)]
    /\ UNCHANGED <<job, stored, now, lastCronFire, tickVars, tally, crashes>>

(* The run is over.  One transaction stores its outcome, and deletes a      *)
(* one-shot job or updates another; a job that is gone fails it.            *)
Complete(n) ==
    LET r == runs[n]
        kept == r.job \in stored \/ ~RollsBack
    IN /\ r.exec = "running"
       /\ \E outcome \in {"success", "error"} :
             runs' = [runs EXCEPT ![n].exec = "done",
                                  ![n].status = IF kept THEN outcome ELSE @]
       /\ stored' = IF r.oneShot THEN stored \ {r.job} ELSE stored
       /\ UNCHANGED <<job, now, lastCronFire, tickVars, tally, crashes>>

-----------------------------------------------------------------------------
(* Users, and crashes.                                                      *)

Edit == edits < MaxEdits /\ edits' = edits + 1

(* jobs.trigger, the jobs tool and the webhook.                             *)
TriggerJob(j) ==
    /\ Edit
    /\ j \in stored
    /\ Len(runs) < MaxRuns
    /\ runs' = Append(runs, NewRun(j, now, "user"))
    /\ UNCHANGED <<job, stored, now, lastCronFire, tickVars, armed, withdrawn, missed, crashes>>

(* jobs.update: a field the patch leaves nil keeps its value, so a one-shot *)
(* time can be given and moved and never be taken back.  A user arms a job  *)
(* by enabling it or giving it a time.                                      *)
UpdateJob(j, x) ==
    /\ Edit
    /\ j \in stored
    /\ job[j].runAt # 0 => x.runAt # 0
    /\ job' = [job EXCEPT ![j] = x]
    /\ armed' = [armed EXCEPT ![j] = IF x.enabled /\ x.runAt # 0
                                            /\ (job[j].enabled => job[j].runAt = 0)
                                        THEN @ + 1 ELSE @]
    /\ withdrawn' = IF x.enabled THEN withdrawn ELSE withdrawn \cup {j}
    /\ UNCHANGED <<stored, runs, now, lastCronFire, tickVars, missed, crashes>>

DeleteJob(j) ==
    /\ Edit
    /\ j \in stored
    /\ stored' = stored \ {j}
    /\ withdrawn' = withdrawn \cup {j}
    /\ UNCHANGED <<job, runs, now, lastCronFire, tickVars, armed, missed, crashes>>

(* The process dies and starts again.                                       *)
Crash ==
    /\ crashes < MaxCrashes
    /\ crashes' = crashes + 1
    /\ tpc' = "idle"
    /\ when' = 0
    /\ listed' = NoneListed
    /\ lastCronFire' = [j \in Jobs |-> 0]
    /\ runs' = [n \in DOMAIN runs |->
                   IF runs[n].exec = "done" THEN runs[n] ELSE [runs[n] EXCEPT !.exec = "lost"]]
    /\ UNCHANGED <<job, stored, now, target, tally>>

TickStep ==
    \/ Tick \/ TriggerScheduled \/ TickDone
    \/ \E j \in Jobs : Pass(j) \/ DisableOneShot(j) \/ DisableFails(j) \/ FireCron(j)

ExecStep(n) == ResolveFails(n) \/ Complete(n)

Next ==
    \/ Minute
    \/ TickStep
    \/ \E n \in DOMAIN runs : ExecStep(n)
    \/ \E j \in Jobs : TriggerJob(j) \/ DeleteJob(j)
    \/ \E j \in Jobs, x \in Job : UpdateJob(j, x)
    \/ Crash

Spec == Init /\ [][Next]_vars

(* Time passes, the scheduler's goroutine runs, and the store does not fail *)
(* for ever.                                                                *)
FairSpec ==
    /\ Spec
    /\ WF_vars(Minute) /\ WF_vars(TickStep)
    /\ \A j \in Jobs : SF_vars(DisableOneShot(j))

-----------------------------------------------------------------------------
(* Types; a minute remembered is not in the future.                         *)
TypeOK ==
    /\ job \in [Jobs -> Job]
    /\ stored \subseteq Jobs
    /\ runs \in Seq(JobRun)
    /\ now \in Minutes
    /\ lastCronFire \in [Jobs -> 0..now]
    /\ tpc \in {"idle", "loop", "cron", "time"}
    /\ when \in 0..now
    /\ when = 0 <=> tpc = "idle"
    /\ \E read \in SUBSET Jobs : listed \in [read -> Job]
    /\ target \in Jobs
    /\ edits \in 0..MaxEdits
    /\ crashes \in 0..MaxCrashes
    /\ armed \in [Jobs -> Nat]
    /\ withdrawn \subseteq Jobs
    /\ missed \subseteq Jobs

Fired(j, by) == {n \in DOMAIN runs : runs[n].job = j /\ runs[n].by = by}

(* However many ticks fall into a minute, a job's cron schedule fires it at *)
(* most once for it while the process lives, also when the job is given a   *)
(* one-shot time meanwhile (scheduler.go 180-188).                          *)
CronOncePerMinute ==
    \A j \in Jobs :
        \A m, n \in Fired(j, "cron") :
            runs[m].minute = runs[n].minute /\ runs[m].epoch = runs[n].epoch => m = n

(* A one-shot time fires a job at most once each time a user arms it,       *)
(* whatever crashes, edits, failures and late ticks come in between         *)
(* (scheduler.go 151-172).                                                  *)
OneShotOnce == \A j \in Jobs : Cardinality(Fired(j, "time")) <= armed[j]

(* No tick fires a job that an earlier one has fired for the same time.     *)
FiresOnce == CronOncePerMinute /\ OneShotOnce

(* What makes CronOncePerMinute inductive: the minute remembered for a job  *)
(* is the last one it fired in during this life of the process, and a       *)
(* firing that has been decided on is for a later one.                      *)
CronInv ==
    /\ \A j \in Jobs : tpc # "idle" => lastCronFire[j] <= when
    /\ \A n \in DOMAIN runs : runs[n].epoch <= crashes
    /\ \A j \in Jobs :
          \A n \in Fired(j, "cron") : runs[n].epoch = crashes =>
             /\ runs[n].minute <= lastCronFire[j]
             /\ tpc = "cron" /\ target = j => runs[n].minute < when
    /\ tpc = "cron" => lastCronFire[target] = when
    /\ CronOncePerMinute

(* What makes OneShotOnce inductive: beyond the firings there were, the     *)
(* times a job was armed pay for the one decided on and for the one that    *)
(* the job, or what the tick has read of it, still allows.                  *)
Decided(j) == IF tpc = "time" /\ target = j THEN 1 ELSE 0
Allowed(j) ==
    IF \/ job[j].enabled /\ job[j].runAt # 0
       \/ tpc # "idle" /\ j \in DOMAIN listed /\ listed[j].enabled /\ listed[j].runAt # 0
      THEN 1 ELSE 0

OneShotInv ==
    \A j \in Jobs : Cardinality(Fired(j, "time")) + Decided(j) + Allowed(j) <= armed[j]

(* When its goroutine is done a job run is recorded as running only if the  *)
(* job was deleted under it and the store rolls back (scheduler.go 226-306  *)
(* and 310-333).                                                            *)
JobRunSettled ==
    \A n \in DOMAIN runs :
        runs[n].exec = "done" /\ runs[n].status = "running"
            => RollsBack /\ runs[n].job \notin stored

(* A one-shot time that has come is served, however late the tick is and    *)
(* however often the job could not be disabled, unless a user withdraws the *)
(* job, it is gone, triggering it fails or the process crashes.             *)
DueIsServed ==
    \A j \in Jobs :
        (j \in stored /\ job[j].enabled /\ job[j].runAt # 0 /\ job[j].runAt <= now)
            ~> \/ Fired(j, "time") # {}
               \/ j \in withdrawn \/ j \notin stored \/ j \in missed \/ crashes > 0

-----------------------------------------------------------------------------
(* What the documentation says and the code does not do.                    *)

(* docs/jobs.md 23: "Triggers jobs once per scheduled time."  The minute of *)
(* the last firing is in memory only.                                       *)
OncePerScheduledTime ==
    \A j \in Jobs : \A m, n \in Fired(j, "cron") : runs[m].minute = runs[n].minute => m = n
=============================================================================
