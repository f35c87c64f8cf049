-------------------------- MODULE SchedulerProofs --------------------------
(* Proofs about the job scheduler, for every set of jobs, every schedule    *)
(* and any number of minutes, runs, edits, failures and crashes.            *)
EXTENDS Scheduler, FiniteSetTheorems, SequenceTheorems, TLAPS

USE SchedulerAssumption DEF storeVars, tickVars, tally, Minutes

(* Two facts about sequences.                                               *)
LEMMA AppendType ==
  ASSUME NEW S, NEW s \in Seq(S), NEW x \in S
  PROVE  /\ Append(s, x) \in Seq(S)
         /\ DOMAIN Append(s, x) = DOMAIN s \cup {Len(s) + 1}
         /\ Len(s) + 1 \notin DOMAIN s
         /\ Append(s, x)[Len(s) + 1] = x
         /\ \A n \in DOMAIN s : Append(s, x)[n] = s[n]
  OBVIOUS

LEMMA MapType ==
  ASSUME NEW S, NEW s \in Seq(S), NEW f, DOMAIN f = DOMAIN s, f = [n \in DOMAIN f |-> f[n]],
         \A n \in DOMAIN s : f[n] \in S
  PROVE  f \in Seq(S)
<1>1. f \in [1..Len(s) -> S]
  OBVIOUS
<1>. QED BY <1>1, SeqDef

(* The goroutine of run n stores nothing but its outcome.                   *)
RunStep(n) ==
    \E s \in {"running", "success", "error"} :
        runs' = [runs EXCEPT ![n] = [@ EXCEPT !.exec = "done", !.status = s]]

(* A run is an element of JobRun, with fields of these types.               *)
LEMMA RunFields ==
  ASSUME TypeOK, NEW n \in DOMAIN runs
  PROVE  /\ runs[n] \in JobRun
         /\ runs[n].job \in Jobs /\ runs[n].oneShot \in BOOLEAN
         /\ runs[n].status \in {"running", "success", "error"}
         /\ runs[n].minute \in 1..MaxMinute /\ runs[n].by \in {"cron", "time", "user"}
         /\ runs[n].epoch \in Nat
<1>1. runs[n] \in JobRun
  BY DEF TypeOK
<1>. QED BY <1>1 DEF JobRun

(* ExecStep changes runs as RunStep says and no other variable but stored.  *)
LEMMA ExecIsRunStep ==
  ASSUME TypeOK, NEW n \in DOMAIN runs, ExecStep(n)
  PROVE  /\ RunStep(n)
         /\ stored' \subseteq stored
         /\ UNCHANGED <<job, now, lastCronFire, tickVars, tally, crashes>>
<1> DEFINE r == runs[n]
<1>0. r \in JobRun /\ r.status \in {"running", "success", "error"}
  BY RunFields DEF JobRun
<1>2. CASE ResolveFails(n)
  BY <1>2 DEF ResolveFails, Failed, RunStep
<1>3. CASE Complete(n)
  <2> DEFINE kept == r.job \in stored \/ ~RollsBack
  <2>1. PICK o \in {"success", "error"} :
           runs' = [runs EXCEPT ![n].exec = "done", ![n].status = IF kept THEN o ELSE @]
    BY <1>3 DEF Complete
  <2>2. runs' = [runs EXCEPT ![n] = [r EXCEPT !.exec = "done",
                                              !.status = IF kept THEN o ELSE r.status]]
    BY <2>1, <1>0 DEF TypeOK, JobRun
  <2>3. (IF kept THEN o ELSE r.status) \in {"running", "success", "error"}
    BY <1>0
  <2>. QED BY <1>3, <2>2, <2>3 DEF Complete, RunStep
<1>. QED BY <1>2, <1>3 DEF ExecStep

(* A new run is well-typed and has the fields NewRun gives it.              *)
LEMMA NewRunType ==
  ASSUME TypeOK, NEW j \in Jobs, NEW m \in 1..MaxMinute,
         NEW s \in {"cron", "time", "user"}
  PROVE  /\ NewRun(j, m, s) \in JobRun
         /\ NewRun(j, m, s).job = j /\ NewRun(j, m, s).by = s
         /\ NewRun(j, m, s).minute = m /\ NewRun(j, m, s).epoch = crashes
         /\ NewRun(j, m, s).exec = "running"
<1>1. job[j].oneShot \in BOOLEAN /\ crashes \in Nat
  BY DEF TypeOK, Job
<1>. QED BY <1>1 DEF NewRun, JobRun

(* What a tick has not yet looked at is a part of what it has read.         *)
LEMMA UnseenType ==
  ASSUME TypeOK, NEW j \in Jobs
  PROVE  /\ \E read \in SUBSET Jobs : Unseen(j) \in [read -> Job]
         /\ DOMAIN Unseen(j) = DOMAIN listed \ {j}
         /\ \A k \in DOMAIN Unseen(j) : Unseen(j)[k] = listed[k]
<1>1. PICK read \in SUBSET Jobs : listed \in [read -> Job]
  BY DEF TypeOK
<1>2. Unseen(j) \in [read \ {j} -> Job]
  BY <1>1 DEF Unseen
<1>. QED BY <1>1, <1>2 DEF Unseen

(* Every step keeps the types.                                              *)
LEMMA TypeNext == TypeOK /\ [Next]_vars => TypeOK'
<1> SUFFICES ASSUME TypeOK, [Next]_vars
             PROVE  TypeOK'
  OBVIOUS
<1>1. CASE Minute
  BY <1>1 DEF Minute, TypeOK
<1>2. CASE Tick
  BY <1>2 DEF Tick, TypeOK
<1>3. CASE TriggerScheduled
  <2>1. CASE runs' = Append(runs, NewRun(target, when, tpc))
    <3>0. target \in Jobs /\ when \in 1..MaxMinute /\ tpc \in {"cron", "time"}
      BY <1>3 DEF TypeOK, TriggerScheduled
    <3>1. NewRun(target, when, tpc) \in JobRun
      BY <3>0, NewRunType
    <3>2. runs \in Seq(JobRun)
      BY DEF TypeOK
    <3>3. runs' \in Seq(JobRun)
      BY <2>1, <3>1, <3>2, AppendType
    <3>. QED BY <1>3, <3>3 DEF TriggerScheduled, TypeOK
  <2>2. CASE UNCHANGED runs
    BY <1>3, <2>2 DEF TriggerScheduled, TypeOK
  <2>. QED BY <1>3, <2>1, <2>2 DEF TriggerScheduled
<1>4. CASE TickDone
  BY <1>4 DEF TickDone, TypeOK
<1>5. ASSUME NEW j \in Jobs, Pass(j)
      PROVE  TypeOK'
  BY <1>5, UnseenType DEF Pass, TypeOK
<1>5a. ASSUME NEW j \in Jobs, DisableFails(j)
      PROVE  TypeOK'
  BY <1>5a, UnseenType DEF DisableFails, TypeOK
<1>6. ASSUME NEW j \in Jobs, DisableOneShot(j)
      PROVE  TypeOK'
  <2>1. Disabled(job[j]) \in Job
    <3>1. job[j] \in Job
      BY DEF TypeOK
    <3>. QED BY <3>1 DEF Disabled, Job
  <2>. QED BY <1>6, <2>1, UnseenType DEF DisableOneShot, TypeOK
<1>7. ASSUME NEW j \in Jobs, FireCron(j)
      PROVE  TypeOK'
  BY <1>7, UnseenType DEF FireCron, Remembered, MinuteBoundary, TypeOK
<1>8. ASSUME NEW n \in DOMAIN runs, ExecStep(n)
      PROVE  TypeOK'
  <2>1. /\ RunStep(n) /\ stored' \subseteq stored
        /\ UNCHANGED <<job, now, lastCronFire, tickVars, tally, crashes>>
    BY <1>8, ExecIsRunStep
  <2>2. PICK s \in {"running", "success", "error"} :
           runs' = [runs EXCEPT ![n] = [@ EXCEPT !.exec = "done", !.status = s]]
    BY <2>1 DEF RunStep
  <2>3. [runs[n] EXCEPT !.exec = "done", !.status = s] \in JobRun
    BY RunFields DEF JobRun
  <2>4. runs' \in Seq(JobRun)
    BY <2>2, <2>3 DEF TypeOK
  <2>. QED BY <2>1, <2>4 DEF TypeOK
<1>9. ASSUME NEW j \in Jobs, TriggerJob(j)
      PROVE  TypeOK'
  <2>1. NewRun(j, now, "user") \in JobRun
    BY NewRunType DEF TypeOK
  <2>2. runs \in Seq(JobRun) /\ runs' = Append(runs, NewRun(j, now, "user"))
    BY <1>9 DEF TriggerJob, TypeOK
  <2>3. runs' \in Seq(JobRun)
    BY <2>1, <2>2, AppendType
  <2>4. /\ edits' \in 0..MaxEdits
        /\ UNCHANGED <<job, stored, now, lastCronFire, tickVars, armed, withdrawn, missed, crashes>>
    BY <1>9 DEF TriggerJob, Edit, TypeOK
  <2>. QED BY <2>3, <2>4 DEF TypeOK
<1>10. ASSUME NEW j \in Jobs, DeleteJob(j)
      PROVE  TypeOK'
  BY <1>10 DEF DeleteJob, Edit, TypeOK
<1>11. ASSUME NEW j \in Jobs, NEW x \in Job, UpdateJob(j, x)
      PROVE  TypeOK'
  <2>1. job' \in [Jobs -> Job]
    BY <1>11 DEF UpdateJob, TypeOK
  <2>2. armed' \in [Jobs -> Nat]
    <3>1. armed' = [armed EXCEPT ![j] = @ + 1] \/ armed' = [armed EXCEPT ![j] = @]
      BY <1>11 DEF UpdateJob
    <3>2. armed \in [Jobs -> Nat]
      BY DEF TypeOK
    <3>. QED BY <3>1, <3>2
  <2>3. withdrawn' \subseteq Jobs
    BY <1>11 DEF UpdateJob, TypeOK
  <2>4. edits' \in 0..MaxEdits
    <3>1. edits' = edits + 1 /\ edits < MaxEdits
      BY <1>11 DEF UpdateJob, Edit
    <3>2. edits \in 0..MaxEdits
      BY DEF TypeOK
    <3>. QED BY <3>1, <3>2, SchedulerAssumption
  <2>. QED BY <1>11, <2>1, <2>2, <2>3, <2>4 DEF UpdateJob, TypeOK
<1>12. CASE Crash
  <2>1. runs' \in Seq(JobRun)
    <3> DEFINE Lost(r) == IF r.exec = "done" THEN r ELSE [r EXCEPT !.exec = "lost"]
    <3>1. \A n \in DOMAIN runs : Lost(runs[n]) \in JobRun
      BY RunFields DEF JobRun
    <3>2. runs' = [n \in DOMAIN runs |-> Lost(runs[n])]
      BY <1>12 DEF Crash
    <3> HIDE DEF Lost
    <3>3. /\ DOMAIN runs' = DOMAIN runs /\ runs' = [n \in DOMAIN runs' |-> runs'[n]]
          /\ \A n \in DOMAIN runs : runs'[n] \in JobRun
      BY <3>1, <3>2
    <3>. QED BY <3>3, MapType DEF TypeOK
  <2>2. lastCronFire' \in [Jobs -> 0..now] /\ crashes' \in 0..MaxCrashes
    BY <1>12 DEF Crash, TypeOK
  <2>3. listed' \in [{} -> Job]
    BY <1>12 DEF Crash, NoneListed
  <2>4. \E read \in SUBSET Jobs : listed' \in [read -> Job]
    BY <2>3
  <2>. QED BY <1>12, <2>1, <2>2, <2>4 DEF Crash, TypeOK
<1>13. CASE UNCHANGED vars
  BY <1>13 DEF vars, TypeOK
<1>. QED
  BY <1>1, <1>2, <1>3, <1>4, <1>5, <1>5a, <1>6, <1>7, <1>8, <1>9, <1>10, <1>11, <1>12, <1>13
     DEF Next, TickStep

(* The scheduler's state keeps its types, and neither the tick's time nor a *)
(* remembered minute is ever ahead of the clock.                            *)
THEOREM SchedulerTypeCorrect == Spec => []TypeOK
<1>1. Init => TypeOK
  <2> SUFFICES ASSUME Init
               PROVE  TypeOK
    OBVIOUS
  <2>1. listed \in [{} -> Job]
    BY DEF Init, NoneListed
  <2>2. \E read \in SUBSET Jobs : listed \in [read -> Job]
    BY <2>1
  <2>3. armed \in [Jobs -> Nat]
    BY DEF Init
  <2>. QED BY <2>2, <2>3 DEF Init, TypeOK, Job
<1>. QED BY <1>1, TypeNext, PTL DEF Spec

-----------------------------------------------------------------------------
(* What a step does to the job runs.                                        *)

(* The fields that say what was fired, when and in which life of the        *)
(* process never change.                                                    *)
SameHistory ==
    /\ DOMAIN runs' = DOMAIN runs
    /\ \A n \in DOMAIN runs :
          /\ runs'[n].job = runs[n].job /\ runs'[n].by = runs[n].by
          /\ runs'[n].minute = runs[n].minute /\ runs'[n].epoch = runs[n].epoch

LEMMA HistoryKept ==
  ASSUME SameHistory
  PROVE  \A j \in Jobs, by \in {"cron", "time"} : Fired(j, by)' = Fired(j, by)
  BY DEF SameHistory, Fired

LEMMA RunStepHistory ==
  ASSUME TypeOK, NEW n \in DOMAIN runs, RunStep(n)
  PROVE  SameHistory
<1>1. PICK s \in {"running", "success", "error"} :
         runs' = [runs EXCEPT ![n] = [@ EXCEPT !.exec = "done", !.status = s]]
  BY DEF RunStep
<1>2. runs[n] \in JobRun
  BY RunFields
<1>3. \A m \in DOMAIN runs : m # n => runs'[m] = runs[m]
  BY <1>1
<1>4. runs'[n] = [runs[n] EXCEPT !.exec = "done", !.status = s]
  BY <1>1
<1>5. DOMAIN runs' = DOMAIN runs
  BY <1>1
<1>. QED BY <1>2, <1>3, <1>4, <1>5 DEF SameHistory, JobRun

LEMMA CrashHistory ==
  ASSUME TypeOK, Crash
  PROVE  /\ SameHistory
         /\ \A n \in DOMAIN runs : runs'[n].exec = "done" => runs'[n] = runs[n]
<1> SUFFICES ASSUME NEW n \in DOMAIN runs
             PROVE  /\ DOMAIN runs' = DOMAIN runs
                    /\ runs'[n].job = runs[n].job /\ runs'[n].by = runs[n].by
                    /\ runs'[n].minute = runs[n].minute /\ runs'[n].epoch = runs[n].epoch
                    /\ runs'[n].exec = "done" => runs'[n] = runs[n]
  BY DEF SameHistory, Crash
<1>1. runs[n] \in JobRun
  BY RunFields
<1>2. DOMAIN runs' = DOMAIN runs
  BY DEF Crash
<1>3. runs'[n] = IF runs[n].exec = "done" THEN runs[n] ELSE [runs[n] EXCEPT !.exec = "lost"]
  BY DEF Crash
<1>. QED BY <1>1, <1>2, <1>3 DEF JobRun

(* A firing adds one run, at the end.                                       *)
LEMMA AppendHistory ==
  ASSUME TypeOK, NEW j \in Jobs, NEW m \in Minutes, NEW s \in {"cron", "time", "user"},
         runs' = Append(runs, NewRun(j, m, s))
  PROVE  /\ Len(runs) + 1 \notin DOMAIN runs
         /\ DOMAIN runs' = DOMAIN runs \cup {Len(runs) + 1}
         /\ \A n \in DOMAIN runs : runs'[n] = runs[n]
         /\ runs'[Len(runs) + 1] = NewRun(j, m, s)
         /\ \A k \in Jobs, by \in {"cron", "time"} :
               Fired(k, by)' = IF k = j /\ by = s THEN Fired(k, by) \cup {Len(runs) + 1}
                                                   ELSE Fired(k, by)
<1>0. /\ NewRun(j, m, s) \in JobRun
      /\ NewRun(j, m, s).job = j /\ NewRun(j, m, s).by = s
  BY NewRunType
<1>1. runs \in Seq(JobRun)
  BY DEF TypeOK
<1>2. /\ Len(runs) + 1 \notin DOMAIN runs
      /\ DOMAIN runs' = DOMAIN runs \cup {Len(runs) + 1}
      /\ \A n \in DOMAIN runs : runs'[n] = runs[n]
      /\ runs'[Len(runs) + 1] = NewRun(j, m, s)
  BY <1>0, <1>1, AppendType
<1> DEFINE l == Len(runs) + 1
<1>3. runs'[l].job = j /\ runs'[l].by = s
  BY <1>0, <1>2
<1>4. l \notin DOMAIN runs /\ DOMAIN runs' = DOMAIN runs \cup {l}
  BY <1>2
<1> HIDE DEF l
<1>5. \A k \in Jobs, by \in {"cron", "time"} :
         Fired(k, by)' = IF k = j /\ by = s THEN Fired(k, by) \cup {l} ELSE Fired(k, by)
  BY <1>2, <1>3, <1>4 DEF Fired
<1>. QED BY <1>2, <1>5 DEF l

-----------------------------------------------------------------------------
(* Settled runs.                                                            *)

LEMMA SettledNext == TypeOK /\ JobRunSettled /\ [Next]_vars => JobRunSettled'
<1> SUFFICES ASSUME TypeOK, JobRunSettled, [Next]_vars
             PROVE  JobRunSettled'
  OBVIOUS
<1>1. CASE UNCHANGED runs /\ stored' \subseteq stored
  BY <1>1 DEF JobRunSettled
<1>2. ASSUME NEW j \in Jobs, NEW m \in Minutes, NEW s \in {"cron", "time", "user"},
             runs' = Append(runs, NewRun(j, m, s)), stored' = stored
      PROVE  JobRunSettled'
  <2>1. NewRun(j, m, s).exec = "running"
    BY NewRunType
  <2>. QED BY <1>2, <2>1, AppendHistory DEF JobRunSettled
<1>3. ASSUME NEW n \in DOMAIN runs, ExecStep(n)
      PROVE  JobRunSettled'
  <2>0. runs[n] \in JobRun
    BY RunFields
  <2>1. CASE ResolveFails(n)
    <3>1. /\ DOMAIN runs' = DOMAIN runs
          /\ \A m \in DOMAIN runs : m # n => runs'[m] = runs[m]
          /\ runs'[n].status = "error"
      BY <2>0, <2>1 DEF ResolveFails, Failed, JobRun
    <3>. QED BY <2>1, <3>1 DEF JobRunSettled, ResolveFails
  <2>2. CASE Complete(n)
    <3>1. stored' \subseteq stored
      BY <2>2 DEF Complete
    <3>2. /\ DOMAIN runs' = DOMAIN runs
          /\ \A m \in DOMAIN runs : m # n => runs'[m] = runs[m]
          /\ runs'[n].job = runs[n].job
          /\ runs'[n].status = "running" => RollsBack /\ runs[n].job \notin stored
      <4>1. PICK outcome \in {"success", "error"} :
               runs' = [runs EXCEPT ![n].exec = "done",
                          ![n].status = IF runs[n].job \in stored \/ ~RollsBack THEN outcome ELSE @]
        BY <2>2 DEF Complete
      <4>. QED BY <2>0, <4>1 DEF JobRun
    <3>. QED BY <3>1, <3>2 DEF JobRunSettled
  <2>. QED BY <1>3, <2>1, <2>2 DEF ExecStep
<1>4. CASE Crash
  BY <1>4, CrashHistory DEF JobRunSettled, SameHistory, Crash
<1>5. CASE TriggerScheduled
  <2>1. target \in Jobs /\ when \in Minutes /\ tpc \in {"cron", "time"}
    BY <1>5 DEF TypeOK, TriggerScheduled
  <2>2. stored' = stored /\ (runs' = Append(runs, NewRun(target, when, tpc)) \/ UNCHANGED runs)
    BY <1>5 DEF TriggerScheduled
  <2>. QED BY <1>1, <1>2, <2>1, <2>2
<1>6. ASSUME NEW j \in Jobs, TriggerJob(j)
      PROVE  JobRunSettled'
  <2>1. now \in Minutes /\ stored' = stored /\ runs' = Append(runs, NewRun(j, now, "user"))
    BY <1>6 DEF TriggerJob, TypeOK
  <2>. QED BY <1>2, <2>1
<1>7. CASE Minute \/ Tick \/ TickDone \/ UNCHANGED vars
  BY <1>1, <1>7 DEF Minute, Tick, TickDone, vars
<1>8. ASSUME NEW j \in Jobs, Pass(j) \/ DisableOneShot(j) \/ DisableFails(j) \/ FireCron(j)
                              \/ DeleteJob(j)
      PROVE  JobRunSettled'
  BY <1>1, <1>8 DEF Pass, DisableOneShot, DisableFails, FireCron, DeleteJob
<1>9. ASSUME NEW j \in Jobs, NEW x \in Job, UpdateJob(j, x)
      PROVE  JobRunSettled'
  BY <1>1, <1>9 DEF UpdateJob
<1>. QED
  BY <1>3, <1>4, <1>5, <1>6, <1>7, <1>8, <1>9 DEF Next, TickStep

(* A job run whose goroutine is done stays recorded as running only where   *)
(* the job was deleted under it and the store undoes the failed transaction *)
(* (completeJobRun, scheduler.go 226-333).                                  *)
THEOREM JobRunSettledCorrect == Spec => []JobRunSettled
<1>1. Init => JobRunSettled
  BY DEF Init, JobRunSettled
<1>. QED BY <1>1, SettledNext, SchedulerTypeCorrect, PTL DEF Spec

-----------------------------------------------------------------------------
(* Cron schedules.                                                          *)

(* A step that decides on no firing of a cron schedule and leaves what the  *)
(* scheduler remembers alone.                                               *)
CronFrame ==
    /\ UNCHANGED <<lastCronFire, crashes>>
    /\ tpc' # "idle" => tpc # "idle" /\ when' = when
    /\ tpc' = "cron" => tpc = "cron" /\ target' = target

(* A step that creates no run for a cron schedule.                          *)
NoCronRun ==
    /\ \A j \in Jobs : Fired(j, "cron")' = Fired(j, "cron")
    /\ \A n \in DOMAIN runs : /\ n \in DOMAIN runs'
                              /\ runs'[n].minute = runs[n].minute /\ runs'[n].epoch = runs[n].epoch
    /\ \A n \in DOMAIN runs' : n \in DOMAIN runs \/ runs'[n].epoch = crashes

LEMMA CronKept ==
  ASSUME TypeOK, CronInv, CronFrame, NoCronRun
  PROVE  CronInv'
<1>1. \A j \in Jobs : Fired(j, "cron") \subseteq DOMAIN runs
  BY DEF Fired
<1>2. \A j \in Jobs : tpc' # "idle" => lastCronFire'[j] <= when'
  BY DEF CronInv, CronFrame
<1>3. \A n \in DOMAIN runs' : runs'[n].epoch <= crashes'
  BY DEF CronInv, CronFrame, NoCronRun, TypeOK
<1>4. CronOncePerMinute'
  BY <1>1 DEF CronInv, CronOncePerMinute, NoCronRun
<1>5. ASSUME NEW j \in Jobs, NEW n \in Fired(j, "cron")', runs'[n].epoch = crashes'
      PROVE  /\ runs'[n].minute <= lastCronFire'[j]
             /\ tpc' = "cron" /\ target' = j => runs'[n].minute < when'
  BY <1>1, <1>5 DEF CronInv, CronFrame, NoCronRun
<1>6. tpc' = "cron" => lastCronFire'[target'] = when'
  BY DEF CronInv, CronFrame
<1>. QED BY <1>2, <1>3, <1>4, <1>5, <1>6 DEF CronInv

LEMMA SameIsNoCronRun ==
  ASSUME SameHistory
  PROVE  NoCronRun
  BY HistoryKept DEF SameHistory, NoCronRun

LEMMA CronNext == TypeOK /\ CronInv /\ [Next]_vars => CronInv'
<1> SUFFICES ASSUME TypeOK, CronInv, [Next]_vars
             PROVE  CronInv'
  OBVIOUS
<1>0. /\ \A n \in DOMAIN runs : runs[n].minute \in Nat /\ runs[n].epoch \in Nat
      /\ \A j \in Jobs : Fired(j, "cron") \subseteq DOMAIN runs
      /\ now \in Nat /\ when \in Nat /\ crashes \in Nat
      /\ \A j \in Jobs : lastCronFire[j] \in Nat /\ lastCronFire[j] <= now
      /\ DOMAIN lastCronFire = Jobs
  BY RunFields DEF Fired, TypeOK
<1>s. UNCHANGED runs => NoCronRun
  BY SameIsNoCronRun DEF SameHistory
<1>1. CASE Minute \/ TickDone \/ UNCHANGED vars
  <2>1. CronFrame /\ UNCHANGED runs
    BY <1>1 DEF Minute, TickDone, vars, CronFrame
  <2>. QED BY <2>1, <1>s, CronKept
<1>2. ASSUME NEW j \in Jobs, Pass(j) \/ DisableOneShot(j) \/ DisableFails(j) \/ DeleteJob(j)
      PROVE  CronInv'
  <2>1. CronFrame /\ UNCHANGED runs
    BY <1>2 DEF Pass, DisableOneShot, DisableFails, DeleteJob, CronFrame
  <2>. QED BY <2>1, <1>s, CronKept
<1>3. ASSUME NEW j \in Jobs, NEW x \in Job, UpdateJob(j, x)
      PROVE  CronInv'
  <2>1. CronFrame /\ UNCHANGED runs
    BY <1>3 DEF UpdateJob, CronFrame
  <2>. QED BY <2>1, <1>s, CronKept
<1>4. ASSUME NEW n \in DOMAIN runs, ExecStep(n)
      PROVE  CronInv'
  <2>1. SameHistory /\ CronFrame
    BY <1>4, ExecIsRunStep, RunStepHistory DEF CronFrame
  <2>. QED BY <2>1, SameIsNoCronRun, CronKept
<1>5. CASE Tick
  <2>1. \A j \in Jobs : Fired(j, "cron")' = Fired(j, "cron")
    BY <1>5 DEF Tick, Fired
  <2>2. CronOncePerMinute'
    BY <1>5, <2>1 DEF Tick, CronInv, CronOncePerMinute
  <2>3. \A j \in Jobs : lastCronFire'[j] <= when'
    BY <1>0, <1>5 DEF Tick
  <2>. QED BY <1>5, <2>1, <2>2, <2>3 DEF Tick, CronInv
<1>6. ASSUME NEW j \in Jobs, FireCron(j)
      PROVE  CronInv'
  <2>1. /\ runs' = runs /\ when' = when /\ crashes' = crashes
        /\ tpc = "loop" /\ tpc' = "cron" /\ target' = j
        /\ lastCronFire[j] # when
        /\ lastCronFire' = [lastCronFire EXCEPT ![j] = when]
    BY <1>6 DEF FireCron, AlreadyFired, Remembered, MinuteBoundary
  <2>2. \A k \in Jobs : Fired(k, "cron")' = Fired(k, "cron")
    BY <2>1 DEF Fired
  <2>3. lastCronFire[j] < when
    BY <1>0, <2>1 DEF CronInv
  <2>4. CronOncePerMinute'
    BY <2>1, <2>2 DEF CronInv, CronOncePerMinute
  <2>5. /\ \A k \in Jobs : lastCronFire'[k] <= when'
        /\ lastCronFire'[j] = when /\ \A k \in Jobs : k # j => lastCronFire'[k] = lastCronFire[k]
    BY <1>0, <2>1 DEF CronInv
  <2>6. ASSUME NEW k \in Jobs, NEW n \in Fired(k, "cron")', runs'[n].epoch = crashes'
        PROVE  /\ runs'[n].minute <= lastCronFire'[k]
               /\ tpc' = "cron" /\ target' = k => runs'[n].minute < when'
    <3>1. n \in DOMAIN runs /\ runs[n].minute <= lastCronFire[k]
      BY <1>0, <2>1, <2>2, <2>6 DEF CronInv
    <3>. QED BY <1>0, <2>1, <2>3, <2>5, <3>1
  <2>. QED BY <2>1, <2>4, <2>5, <2>6 DEF CronInv
<1>7. CASE TriggerScheduled
  <2>0. target \in Jobs /\ when \in Minutes /\ tpc \in {"cron", "time"}
    BY <1>7 DEF TypeOK, TriggerScheduled
  <2>1. /\ UNCHANGED <<lastCronFire, when, crashes>>
        /\ tpc' = "loop"
        /\ runs' = Append(runs, NewRun(target, when, tpc)) \/ UNCHANGED runs
    BY <1>7 DEF TriggerScheduled
  <2>f. CronFrame
    BY <2>0, <2>1 DEF CronFrame
  <2>2. CASE UNCHANGED runs
    BY <1>s, <2>2, <2>f, CronKept
  <2>3. CASE runs' = Append(runs, NewRun(target, when, tpc))
    <3> DEFINE l == Len(runs) + 1
    <3>0. NewRun(target, when, tpc).minute = when /\ NewRun(target, when, tpc).epoch = crashes
      BY <2>0, NewRunType
    <3>1. /\ l \notin DOMAIN runs
          /\ DOMAIN runs' = DOMAIN runs \cup {l}
          /\ \A n \in DOMAIN runs : runs'[n] = runs[n]
          /\ runs'[l].minute = when /\ runs'[l].epoch = crashes
          /\ \A k \in Jobs : Fired(k, "cron")' = IF k = target /\ tpc = "cron"
                                                   THEN Fired(k, "cron") \cup {l}
                                                   ELSE Fired(k, "cron")
      BY <2>0, <2>3, <3>0, AppendHistory
    <3> HIDE DEF l
    <3>2. CASE tpc = "time"
      <4>1. NoCronRun
        BY <3>1, <3>2 DEF NoCronRun
      <4>. QED BY <4>1, <2>f, CronKept
    <3>3. CASE tpc = "cron"
      <4>1. \A n \in DOMAIN runs' : runs'[n].epoch <= crashes'
        BY <1>0, <2>1, <3>1 DEF CronInv
      <4>2. ASSUME NEW k \in Jobs, NEW n \in Fired(k, "cron")', runs'[n].epoch = crashes'
            PROVE  runs'[n].minute <= lastCronFire'[k]
        BY <1>0, <2>0, <2>1, <3>1, <3>3, <4>2 DEF CronInv
      <4>3. ASSUME NEW k \in Jobs, NEW m \in Fired(k, "cron")', NEW n \in Fired(k, "cron")',
                   runs'[m].minute = runs'[n].minute, runs'[m].epoch = runs'[n].epoch
            PROVE  m = n
        <5>1. CASE m \in Fired(k, "cron") /\ n \in Fired(k, "cron")
          BY <1>0, <3>1, <4>3, <5>1 DEF CronInv, CronOncePerMinute
        <5>2. CASE m = l /\ n \in Fired(k, "cron") /\ k = target
          BY <1>0, <2>0, <3>1, <3>3, <4>3, <5>2 DEF CronInv
        <5>3. CASE n = l /\ m \in Fired(k, "cron") /\ k = target
          BY <1>0, <2>0, <3>1, <3>3, <4>3, <5>3 DEF CronInv
        <5>. QED BY <3>1, <5>1, <5>2, <5>3
      <4>4. CronOncePerMinute'
        BY <4>3 DEF CronOncePerMinute
      <4>5. \A j \in Jobs : lastCronFire'[j] <= when'
        BY <2>1, <3>3 DEF CronInv
      <4>. QED BY <2>1, <4>1, <4>2, <4>4, <4>5 DEF CronInv
    <3>. QED BY <2>0, <3>2, <3>3
  <2>. QED BY <2>1, <2>2, <2>3
<1>8. ASSUME NEW j \in Jobs, TriggerJob(j)
      PROVE  CronInv'
  <2>1. /\ CronFrame /\ now \in Minutes
        /\ runs' = Append(runs, NewRun(j, now, "user"))
    BY <1>8 DEF TriggerJob, TypeOK, CronFrame
  <2>2. NewRun(j, now, "user").epoch = crashes
    BY <2>1, NewRunType
  <2>3. NoCronRun
    BY <2>1, <2>2, AppendHistory DEF NoCronRun
  <2>. QED BY <2>1, <2>3, CronKept
<1>9. CASE Crash
  <2>1. SameHistory /\ \A j \in Jobs : Fired(j, "cron")' = Fired(j, "cron")
    BY <1>9, CrashHistory, HistoryKept
  <2>2. crashes' = crashes + 1 /\ tpc' = "idle"
    BY <1>9 DEF Crash
  <2>3. CronOncePerMinute'
    BY <1>0, <2>1 DEF CronInv, CronOncePerMinute, SameHistory
  <2>4. \A n \in DOMAIN runs' : runs'[n].epoch <= crashes' /\ runs'[n].epoch # crashes'
    BY <1>0, <2>1, <2>2 DEF CronInv, SameHistory
  <2>5. \A j \in Jobs : Fired(j, "cron")' \subseteq DOMAIN runs'
    BY DEF Fired
  <2>. QED BY <2>2, <2>3, <2>4, <2>5 DEF CronInv
<1>. QED
  BY <1>1, <1>2, <1>3, <1>4, <1>5, <1>6, <1>7, <1>8, <1>9 DEF Next, TickStep

-----------------------------------------------------------------------------
(* One-shot times.                                                          *)

LEMMA FiredFinite ==
  ASSUME TypeOK, NEW j \in Jobs
  PROVE  IsFiniteSet(Fired(j, "time")) /\ Cardinality(Fired(j, "time")) \in Nat
<1>1. DOMAIN runs = 1..Len(runs) /\ Len(runs) \in Nat
  BY DEF TypeOK
<1>2. IsFiniteSet(1..Len(runs))
  BY <1>1, FS_Interval
<1>3. IsFiniteSet(Fired(j, "time"))
  BY <1>1, <1>2, FS_Subset DEF Fired
<1>. QED BY <1>3, FS_CardinalityType

(* The types of what OneShotInv counts for job k, before and after a step.  *)
LEMMA CountTypes ==
  ASSUME TypeOK, TypeOK', NEW k \in Jobs
  PROVE  /\ Cardinality(Fired(k, "time")) \in Nat
         /\ Decided(k) \in {0, 1} /\ Allowed(k) \in {0, 1}
         /\ Decided(k)' \in {0, 1} /\ Allowed(k)' \in {0, 1}
         /\ armed[k] \in Nat /\ armed'[k] \in Nat
  BY FiredFinite DEF Decided, Allowed, TypeOK

(* A step that leaves the jobs and what a user armed alone, and lets the    *)
(* tick do no more with one-shot times than before.                         *)
TickFrame ==
    /\ UNCHANGED <<job, armed>>
    /\ tpc' = "time" => tpc = "time" /\ target' = target
    /\ tpc' # "idle" =>
          tpc # "idle" /\ \A k \in DOMAIN listed' : k \in DOMAIN listed /\ listed'[k] = listed[k]

LEMMA OneShotKept ==
  ASSUME TypeOK, TypeOK', OneShotInv, TickFrame,
         \A j \in Jobs : Fired(j, "time")' = Fired(j, "time")
  PROVE  OneShotInv'
<1> SUFFICES ASSUME NEW k \in Jobs
             PROVE  Cardinality(Fired(k, "time")') + Decided(k)' + Allowed(k)' <= armed'[k]
  BY DEF OneShotInv
<1>1. Decided(k)' = 1 => Decided(k) = 1
  BY DEF Decided, TickFrame
<1>2. Allowed(k)' = 1 => Allowed(k) = 1
  BY DEF Allowed, TickFrame
<1>3. Cardinality(Fired(k, "time")) + Decided(k) + Allowed(k) <= armed[k] /\ armed' = armed
  BY DEF OneShotInv, TickFrame
<1>. QED BY <1>1, <1>2, <1>3, CountTypes

LEMMA OneShotNext == TypeOK /\ TypeOK' /\ OneShotInv /\ [Next]_vars => OneShotInv'
<1> SUFFICES ASSUME TypeOK, TypeOK', OneShotInv, [Next]_vars
             PROVE  OneShotInv'
  OBVIOUS
<1>s. UNCHANGED runs => \A j \in Jobs : Fired(j, "time")' = Fired(j, "time")
  BY DEF Fired
<1>i. \A k \in Jobs : Cardinality(Fired(k, "time")) + Decided(k) + Allowed(k) <= armed[k]
  BY DEF OneShotInv
<1>1. CASE Minute \/ TickDone \/ UNCHANGED vars
  <2>1. TickFrame /\ UNCHANGED runs
    BY <1>1 DEF Minute, TickDone, vars, TickFrame
  <2>. QED BY <2>1, <1>s, OneShotKept
<1>2. ASSUME NEW j \in Jobs, Pass(j) \/ DisableFails(j) \/ FireCron(j) \/ DeleteJob(j)
      PROVE  OneShotInv'
  <2>1. TickFrame /\ UNCHANGED runs
    BY <1>2, UnseenType DEF Pass, DisableFails, FireCron, DeleteJob, TickFrame
  <2>. QED BY <2>1, <1>s, OneShotKept
<1>3. ASSUME NEW j \in Jobs, NEW x \in Job, UpdateJob(j, x)
      PROVE  OneShotInv'
  <2> SUFFICES ASSUME NEW k \in Jobs
               PROVE  Cardinality(Fired(k, "time")') + Decided(k)' + Allowed(k)' <= armed'[k]
    BY DEF OneShotInv
  <2>1. /\ job \in [Jobs -> Job] /\ armed \in [Jobs -> Nat]
        /\ job' = [job EXCEPT ![j] = x]
        /\ UNCHANGED <<runs, tpc, listed, target>>
    BY <1>3 DEF UpdateJob, TypeOK
  <2>2. Decided(k)' = Decided(k) /\ Fired(k, "time")' = Fired(k, "time")
    BY <1>s, <2>1 DEF Decided
  <2> DEFINE arms == x.enabled /\ x.runAt # 0 /\ (job[j].enabled => job[j].runAt = 0)
  <2>3. /\ armed'[j] = IF arms THEN armed[j] + 1 ELSE armed[j]
        /\ k # j => armed'[k] = armed[k]
    BY <1>3, <2>1 DEF UpdateJob
  <2>4. CASE k = j /\ arms
    BY <1>i, <2>2, <2>3, <2>4, CountTypes
  <2>5. CASE k # j \/ ~arms
    <3>1. Allowed(k)' = 1 => Allowed(k) = 1
      BY <2>1, <2>5 DEF Allowed
    <3>2. armed'[k] = armed[k]
      BY <2>3, <2>5
    <3>. QED BY <1>i, <2>2, <3>1, <3>2, CountTypes
  <2>. QED BY <2>4, <2>5
<1>4. ASSUME NEW n \in DOMAIN runs, ExecStep(n)
      PROVE  OneShotInv'
  <2>1. SameHistory /\ TickFrame
    BY <1>4, ExecIsRunStep, RunStepHistory DEF TickFrame
  <2>. QED BY <2>1, HistoryKept, OneShotKept
<1>5. CASE Tick
  <2> SUFFICES ASSUME NEW k \in Jobs
               PROVE  Cardinality(Fired(k, "time")') + Decided(k)' + Allowed(k)' <= armed'[k]
    BY DEF OneShotInv
  <2>1. /\ job' = job /\ armed' = armed /\ UNCHANGED runs /\ tpc' = "loop"
        /\ listed' = [i \in stored |-> job[i]]
    BY <1>5 DEF Tick
  <2>2. Decided(k)' = 0
    BY <2>1 DEF Decided
  <2>3. Allowed(k)' = 1 => Allowed(k) = 1
    BY <2>1 DEF Allowed
  <2>. QED BY <1>i, <1>s, <2>1, <2>2, <2>3, CountTypes
<1>6. ASSUME NEW j \in Jobs, DisableOneShot(j)
      PROVE  OneShotInv'
  <2>0. /\ job \in [Jobs -> Job] /\ job[j] \in Job
        /\ armed' = armed /\ UNCHANGED runs
        /\ tpc = "loop" /\ j \in DOMAIN listed /\ listed[j].enabled /\ listed[j].runAt # 0
        /\ DOMAIN listed' = DOMAIN listed \ {j}
        /\ \A k \in DOMAIN listed' : listed'[k] = listed[k]
    BY <1>6, UnseenType DEF DisableOneShot, TypeOK
  <2>1. CASE UNCHANGED <<job, tpc, target>>
    <3>1. TickFrame
      BY <2>0, <2>1 DEF TickFrame
    <3>. QED BY <1>s, <2>0, <3>1, OneShotKept
  <2>2. CASE job' = [job EXCEPT ![j] = Disabled(@)] /\ tpc' = "time" /\ target' = j
    <3> SUFFICES ASSUME NEW k \in Jobs
                 PROVE  Cardinality(Fired(k, "time")') + Decided(k)' + Allowed(k)' <= armed'[k]
      BY DEF OneShotInv
    <3>1. ~job'[j].enabled /\ (k # j => job'[k] = job[k])
      BY <2>0, <2>2 DEF Disabled, Job
    <3>2. Decided(k) = 0
      BY <2>0 DEF Decided
    <3>3. k = j => Allowed(k) = 1 /\ Allowed(k)' = 0
      BY <2>0, <3>1 DEF Allowed
    <3>4. k # j => Decided(k)' = 0 /\ (Allowed(k)' = 1 => Allowed(k) = 1)
      BY <2>0, <2>2, <3>1 DEF Allowed, Decided
    <3>. QED BY <1>i, <1>s, <2>0, <3>2, <3>3, <3>4, CountTypes
  <2>. QED BY <1>6, <2>1, <2>2 DEF DisableOneShot
<1>7. CASE TriggerScheduled
  <2>0. target \in Jobs /\ when \in Minutes /\ tpc \in {"cron", "time"}
    BY <1>7 DEF TypeOK, TriggerScheduled
  <2>1. job' = job /\ armed' = armed /\ listed' = listed /\ tpc' = "loop"
    BY <1>7 DEF TriggerScheduled
  <2>f. TickFrame
    BY <2>0, <2>1 DEF TickFrame
  <2>2. CASE UNCHANGED runs
    BY <1>s, <2>2, <2>f, OneShotKept
  <2>3. CASE runs' = Append(runs, NewRun(target, when, tpc))
    <3>1. /\ Len(runs) + 1 \notin DOMAIN runs
          /\ \A k \in Jobs : Fired(k, "time")' = IF k = target /\ tpc = "time"
                                                   THEN Fired(k, "time") \cup {Len(runs) + 1}
                                                   ELSE Fired(k, "time")
      BY <2>0, <2>3, AppendHistory
    <3>2. CASE tpc = "cron"
      BY <2>f, <3>1, <3>2, OneShotKept
    <3>3. CASE tpc = "time"
      <4> SUFFICES ASSUME NEW k \in Jobs
                   PROVE  Cardinality(Fired(k, "time")') + Decided(k)' + Allowed(k)' <= armed'[k]
        BY DEF OneShotInv
      <4>1. /\ Decided(k)' = 0 /\ Allowed(k)' = Allowed(k)
            /\ k = target => Decided(k) = 1
        BY <2>1, <3>3 DEF Decided, Allowed
      <4>2. CASE k # target
        BY <1>i, <2>1, <3>1, <4>1, <4>2, CountTypes
      <4>3. CASE k = target
        <5>1. Len(runs) + 1 \notin Fired(k, "time")
          BY <3>1 DEF Fired
        <5>2. Cardinality(Fired(k, "time")') = Cardinality(Fired(k, "time")) + 1
          BY <3>1, <3>3, <4>3, <5>1, FiredFinite, FS_AddElement
        <5>. QED BY <1>i, <2>1, <4>1, <4>3, <5>2, CountTypes
      <4>. QED BY <4>2, <4>3
    <3>. QED BY <2>0, <3>2, <3>3
  <2>. QED BY <1>7, <2>2, <2>3 DEF TriggerScheduled
<1>8. ASSUME NEW j \in Jobs, TriggerJob(j)
      PROVE  OneShotInv'
  <2>1. TickFrame /\ now \in Minutes /\ runs' = Append(runs, NewRun(j, now, "user"))
    BY <1>8 DEF TriggerJob, TypeOK, TickFrame
  <2>2. \A k \in Jobs : Fired(k, "time")' = Fired(k, "time")
    BY <2>1, AppendHistory
  <2>. QED BY <2>1, <2>2, OneShotKept
<1>9. CASE Crash
  <2>1. \A j \in Jobs : Fired(j, "time")' = Fired(j, "time")
    BY <1>9, CrashHistory, HistoryKept
  <2>2. TickFrame
    BY <1>9 DEF Crash, TickFrame
  <2>. QED BY <2>1, <2>2, OneShotKept
<1>. QED
  BY <1>1, <1>2, <1>3, <1>4, <1>5, <1>6, <1>7, <1>8, <1>9 DEF Next, TickStep

(* A cron schedule fires its job once in a minute while the process lives,  *)
(* and a one-shot time fires it at most as often as a user armed it,        *)
(* whatever edits (a cron job that is given a time among them), deletions,  *)
(* failures, slow ticks and crashes happen meanwhile (scheduler.go          *)
(* 151-188).                                                                *)
THEOREM FiresOnceCorrect == Spec => []FiresOnce
<1>1. Init => CronInv
  BY DEF Init, CronInv, CronOncePerMinute, Fired
<1>2. Init => OneShotInv
  <2> SUFFICES ASSUME Init, NEW j \in Jobs
               PROVE  Cardinality(Fired(j, "time")) + Decided(j) + Allowed(j) <= armed[j]
    BY DEF OneShotInv
  <2>1. Fired(j, "time") = {}
    BY DEF Init, Fired
  <2>2. Cardinality(Fired(j, "time")) = 0
    BY <2>1, FS_EmptySet
  <2>3. /\ Decided(j) = 0 /\ Allowed(j) \in {0, 1} /\ armed[j] \in {0, 1}
        /\ Allowed(j) = 1 => armed[j] = 1
    BY DEF Init, Decided, Allowed
  <2>. QED BY <2>2, <2>3
<1>3. TypeOK /\ OneShotInv /\ CronInv => FiresOnce
  <2> SUFFICES ASSUME TypeOK, OneShotInv, NEW j \in Jobs
               PROVE  Cardinality(Fired(j, "time")) <= armed[j]
    BY DEF FiresOnce, OneShotOnce, CronInv
  <2>1. /\ Cardinality(Fired(j, "time")) \in Nat /\ Decided(j) \in {0, 1} /\ Allowed(j) \in {0, 1}
        /\ armed[j] \in Nat
    BY FiredFinite DEF TypeOK, Decided, Allowed
  <2>. QED BY <2>1 DEF OneShotInv
<1>. QED
  BY <1>1, <1>2, <1>3, CronNext, OneShotNext, SchedulerTypeCorrect, PTL DEF Spec
=============================================================================
