----------------------------- MODULE CronService -----------------------------
(***************************************************************************)
(* Scheduled jobs (nanobot/cron/service.py): the service of the gateway,   *)
(* which owns jobs.json while it runs, and another process on the same     *)
(* workspace, which only appends to action.jsonl.                          *)
(*                                                                         *)
(* Times are relative: a timestamp of the code is the delay until then, 0  *)
(* once it is reached, and a step of the clock moves all of them, those on *)
(* disk included.  Synchronous code is one step; jobs are awaited, so      *)
(* anything may come between the start and the end of one.  Names,         *)
(* messages, run history and a job's status are left out, and so is the    *)
(* binding of a job to its session, checked before any of this.            *)
(***************************************************************************)
EXTENDS Naturals, FiniteSets, Functions, SequencesExt

CONSTANTS
  CronJobs,      \* identifiers of jobs
  KindOf,        \* "every"; "at"; "once": "at" with delete_after_run
  SystemJobs,    \* jobs the gateway registers itself when it starts
  Period,        \* delay of an interval, and of "at" when it is added
  MaxSleep,      \* max_sleep_ms
  MaxEdits,      \* bound of the model: jobs added, removed, changed
  MaxCronFaults  \* bound of the model: stops and crashes of the gateway

ASSUME CronAssumption ==
  /\ KindOf \in [CronJobs -> {"every", "at", "once"}] /\ SystemJobs \subseteq CronJobs
  /\ \A j \in SystemJobs : KindOf[j] = "every"
  /\ IsFiniteSet(CronJobs)
  /\ Period \in Nat \ {0} /\ MaxSleep \in Nat \ {0}
  /\ MaxEdits \in Nat /\ MaxCronFaults \in Nat

Never == Period + MaxSleep + 1  \* next_run_at_ms is None

VARIABLES
  jobsFile,    \* jobs.json: the state of each stored job
  actions,     \* action.jsonl
  serving,     \* the service of the gateway was started
  jobs,        \* its _store
  tick,        \* its timer task: "none", "armed", "running", or "hung": in a
               \* job whose turn was stopped and does not report
  wake,        \* delay until an armed tick goes on
  due,         \* jobs a running tick has yet to finish, the first in progress
  manual,      \* jobs that run_job is executing
  until,       \* delay until the time of each one-time job
  view,        \* the jobs in jobs.json when the other process read it
  edits, cronFaults,
  added,       \* history: jobs that were added
  owed,        \* history: those of them neither removed nor used up
  dropped,     \* history: jobs whose action was in a log lost in a crash
  startedOnce, \* history: one-time jobs the timer started, with how often
  mayRepeat    \* history: those whose tick was cancelled, or which an action
               \* in the log was about when they started

cronDisk == <<jobsFile, actions>>
cronMemory == <<serving, jobs, tick, wake, due, manual>>
cronHistory == <<added, owed, dropped, startedOnce, mayRepeat>>
cronVars == <<cronDisk, cronMemory, until, view, edits, cronFaults, cronHistory>>

JobState == [on : BOOLEAN, next : 0..Never]
Action == [op : {"put"}, job : CronJobs, state : JobState] \cup [op : {"del"}, job : CronJobs]
Nowhere == << >>

IsStore(store) ==
  DOMAIN store \subseteq CronJobs /\ \A j \in DOMAIN store : store[j] \in JobState
Ticking == tick \in {"running", "hung"}
CronTypeOK ==
  /\ IsStore(jobsFile) /\ IsStore(jobs)
  /\ actions \in Seq(Action)
  /\ serving \in BOOLEAN /\ tick \in {"none", "armed", "running", "hung"}
  /\ serving = (tick # "none")
  /\ wake \in 0..MaxSleep
  /\ due \in Seq(CronJobs) /\ (due # <<>> <=> Ticking)
  /\ manual \subseteq CronJobs /\ view \subseteq CronJobs
  /\ until \in [CronJobs -> 0..Period]
  /\ edits \in 0..MaxEdits /\ cronFaults \in 0..MaxCronFaults
  /\ added \subseteq CronJobs /\ owed \subseteq added /\ dropped \subseteq CronJobs
  /\ startedOnce \in [CronJobs -> 0..2] /\ mayRepeat \subseteq CronJobs

CronInit ==
  /\ jobsFile = Nowhere /\ actions = <<>>
  /\ serving = FALSE /\ jobs = Nowhere /\ tick = "none" /\ wake = 0 /\ due = <<>> /\ manual = {}
  /\ until = [j \in CronJobs |-> Period]
  /\ view = {} /\ edits = 0 /\ cronFaults = 0
  /\ added = {} /\ owed = {} /\ dropped = {}
  /\ startedOnce = [j \in CronJobs |-> 0] /\ mayRepeat = {}

(* _compute_next_run, at this time.                                        *)
NextRun(j) == IF KindOf[j] = "every" THEN Period
              ELSE IF until[j] > 0 THEN until[j] ELSE Never
JobAs(j, on) == [on |-> on, next |-> IF on THEN NextRun(j) ELSE Never]

Put(store, j, state) == [i \in DOMAIN store \cup {j} |-> IF i = j THEN state ELSE store[i]]
Drop(store, j) == Restrict(store, DOMAIN store \ {j})

(* _merge_action: of the actions about a job, the last one counts.         *)
About(log) == {log[i].job : i \in DOMAIN log}
LastPuts(log) ==
  {log[i] : i \in {n \in DOMAIN log :
     log[n].op = "put" /\ \A k \in DOMAIN log : k > n => log[k].job # log[n].job}}
PutLast(log) == {a.job : a \in LastPuts(log)}
Merge(log, file) ==
  [j \in PutLast(log) \cup (DOMAIN file \ About(log)) |->
     IF j \in PutLast(log) THEN (CHOOSE a \in LastPuts(log) : a.job = j).state ELSE file[j]]
Merged(file) == Merge(actions, file)

(* _active_executions = 0: only then _load_store reads the disk, and, in   *)
(* the running service, empties the log and saves what it merged.          *)
Idle == ~Ticking /\ manual = {}
Loaded == IF Idle THEN Merged(jobsFile) ELSE jobs
\* The log is emptied although nothing was merged.
LogAfterLoadMutant == <<>>
LogAfterLoad == IF Idle THEN <<>> ELSE actions

(* _save_store.                                                            *)
Save(store) == jobs' = store /\ jobsFile' = store

DueNow(store) == {j \in DOMAIN store : store[j].on /\ store[j].next = 0}

(* _arm_timer: the tick that was there is cancelled, even in the middle of *)
(* a job, and a new one sleeps until the next job is due.                  *)
Arm(store) ==
  LET delays == {MaxSleep} \cup {store[j].next : j \in {i \in DOMAIN store : store[i].on}} IN
  /\ tick' = "armed"
  /\ wake' \in delays /\ \A d \in delays : wake' <= d
  /\ due' = <<>>

(* The end of _execute_job.                                                *)
Executed(store, j) ==
  IF j \notin DOMAIN store THEN store
  ELSE CASE KindOf[j] = "once" -> Drop(store, j)
         [] KindOf[j] = "at" -> Put(store, j, [on |-> FALSE, next |-> Never])
         [] OTHER -> Put(store, j, [store[j] EXCEPT !.next = NextRun(j)])
StillOwed(j) == IF KindOf[j] = "once" THEN owed \ {j} ELSE owed
-----------------------------------------------------------------------------
(* The service of the gateway.                                             *)

(* register_system_job, then start: what is enabled gets a new next run,   *)
(* and an "at" that has passed gets none.                                  *)
\* The next runs on file stay.
FreshMutant(store) == store
Fresh(store) == [j \in DOMAIN store |-> [store[j] EXCEPT !.next = JobAs(j, store[j].on).next]]
Registered(store) ==
  [j \in SystemJobs \cup DOMAIN store |-> IF j \in SystemJobs THEN JobAs(j, TRUE) ELSE store[j]]
Start ==
  /\ ~serving
  /\ LET store == Fresh(Merged(Registered(Merged(jobsFile)))) IN
       /\ Save(store) /\ Arm(store)
       /\ actions' = <<>>
  /\ serving' = TRUE
  /\ added' = added \cup SystemJobs /\ owed' = owed \cup SystemJobs
  /\ UNCHANGED <<manual, until, view, edits, cronFaults, dropped, startedOnce, mayRepeat>>

(* list_jobs, get_job and status load the store, and no more.              *)
ListJobs ==
  /\ serving /\ Idle /\ actions # <<>>
  /\ Save(Merged(jobsFile)) /\ actions' = <<>>
  /\ UNCHANGED <<serving, tick, wake, due, manual, until, view, edits, cronFaults, cronHistory>>

Edit(store) ==
  /\ edits < MaxEdits /\ edits' = edits + 1
  /\ Save(store) /\ Arm(store)
  /\ actions' = LogAfterLoad
  /\ mayRepeat' = mayRepeat \cup {due[i] : i \in DOMAIN due \cap {1}}
  /\ UNCHANGED <<serving, manual, until, view, cronFaults, dropped, startedOnce>>

(* Identifiers are not used again.                                         *)
New(j) ==
  /\ j \notin added \cup SystemJobs
  /\ added' = added \cup {j} /\ owed' = owed \cup {j}

AddJob(j) ==
  /\ serving /\ New(j)
  /\ Edit(Put(Loaded, j, JobAs(j, TRUE)))

RemoveJob(j) ==
  /\ serving /\ j \in DOMAIN Loaded \ SystemJobs
  /\ Edit(Drop(Loaded, j))
  /\ owed' = owed \ {j} /\ UNCHANGED added

(* enable_job; update_job is the case that keeps "on".                     *)
EnableJob(j, on) ==
  /\ serving /\ j \in DOMAIN Loaded
  /\ Edit(Put(Loaded, j, JobAs(j, on)))
  /\ UNCHANGED <<added, owed>>

(* _on_timer up to the first job.  The jobs that are due are collected     *)
(* once, and executed one after the other.                                 *)
Begun(j, log) ==
  IF KindOf[j] = "every" THEN UNCHANGED <<startedOnce, mayRepeat>>
  ELSE /\ startedOnce' = [startedOnce EXCEPT ![j] = IF @ = 2 THEN 2 ELSE @ + 1]
       /\ mayRepeat' = IF j \in About(log)
                       THEN mayRepeat \cup {j} ELSE mayRepeat
\* With nothing due, the timer is not armed again.
TimerFiresMutant ==
  /\ tick = "armed" /\ wake = 0
  /\ \/ /\ DueNow(Loaded) = {}
        /\ Save(Loaded) /\ tick' = "none" /\ due' = <<>>
        /\ UNCHANGED <<startedOnce, mayRepeat>>
     \/ \E order \in SetToSeqs(DueNow(Loaded)) :
          /\ order # <<>>
          /\ jobs' = Loaded /\ jobsFile' = IF Idle THEN Loaded ELSE jobsFile
          /\ tick' = "running" /\ due' = order
          /\ Begun(Head(order), LogAfterLoad)
  /\ actions' = LogAfterLoad
  /\ UNCHANGED <<serving, wake, manual, until, view, edits, cronFaults, added, owed, dropped>>
TimerFires ==
  /\ tick = "armed" /\ wake = 0
  /\ LET store == Loaded IN
       \/ /\ DueNow(store) = {}
          /\ Save(store) /\ Arm(store)
          /\ UNCHANGED <<startedOnce, mayRepeat>>
       \/ \E order \in SetToSeqs(DueNow(store)) :
          /\ order # <<>>
          /\ jobs' = store /\ jobsFile' = IF Idle THEN store ELSE jobsFile
          /\ tick' = "running" /\ due' = order
          /\ Begun(Head(order), LogAfterLoad)
          /\ UNCHANGED wake
  /\ actions' = LogAfterLoad
  /\ UNCHANGED <<serving, manual, until, view, edits, cronFaults, added, owed, dropped>>

(* A /stop cancels the turn of a bound job while it waits for the lock of  *)
(* its session, or the task in front of it before its first step: nobody   *)
(* resolves the future that the tick awaits, which has no timeout.  The    *)
(* two system jobs call process_direct in sessions of their own, and end.  *)
JobHangs ==
  /\ tick = "running" /\ Head(due) \notin SystemJobs
  /\ tick' = "hung"
  /\ UNCHANGED <<cronDisk, serving, jobs, wake, due, manual, until, view, edits, cronFaults, cronHistory>>

(* A job ends, well or not; after the last one the store is saved.         *)
TimerJobEnds ==
  /\ Ticking
  /\ LET store == Executed(jobs, Head(due)) IN
       \/ /\ Len(due) = 1
          /\ Save(store) /\ Arm(store)
          /\ UNCHANGED <<startedOnce, mayRepeat>>
       \/ /\ Len(due) > 1
          /\ jobs' = store /\ due' = Tail(due)
          /\ Begun(due[2], actions)
          /\ tick' = "running"
          /\ UNCHANGED <<jobsFile, wake>>
  /\ owed' = StillOwed(Head(due))
  /\ UNCHANGED <<actions, serving, manual, until, view, edits, cronFaults, added, dropped>>
JobEndsInTime == tick = "running" /\ TimerJobEnds

(* run_job, from the WebUI: a job that is there and enabled is executed.   *)
ManualStarts(j) ==
  /\ serving /\ j \notin manual
  /\ j \in DOMAIN Loaded /\ Loaded[j].on
  /\ manual' = manual \cup {j}
  /\ jobs' = Loaded /\ jobsFile' = IF Idle THEN Loaded ELSE jobsFile
  /\ actions' = LogAfterLoad
  /\ UNCHANGED <<serving, tick, wake, due, until, view, edits, cronFaults, cronHistory>>

ManualEnds(j) ==
  /\ j \in manual
  /\ LET store == Executed(jobs, j) IN
       /\ Save(store)
       /\ \/ /\ manual = {j} /\ tick = "armed" /\ Arm(store)
          \/ /\ ~(manual = {j} /\ tick = "armed")
             /\ UNCHANGED <<tick, wake, due>>
  /\ manual' = manual \ {j}
  /\ owed' = StillOwed(j)
  /\ UNCHANGED <<actions, serving, until, view, edits, cronFaults, added, dropped, startedOnce, mayRepeat>>

Gone ==
  /\ serving' = FALSE /\ jobs' = Nowhere /\ tick' = "none" /\ wake' = 0 /\ due' = <<>>
  /\ manual' = {}
  /\ cronFaults < MaxCronFaults /\ cronFaults' = cronFaults + 1

(* The gateway dies.  stop() does not save either, and the process ends.   *)
CronDies ==
  /\ serving /\ Gone
  /\ UNCHANGED <<cronDisk, until, view, edits, added, owed, dropped, startedOnce, mayRepeat>>

(* It dies while it loads: the log is empty already, and the store not yet *)
(* saved.                                                                  *)
DiesInMerge ==
  /\ Idle /\ actions # <<>> /\ Gone
  /\ actions' = <<>>
  /\ dropped' = dropped \cup About(actions)
  /\ UNCHANGED <<jobsFile, until, view, edits, added, owed, startedOnce, mayRepeat>>
-----------------------------------------------------------------------------
(* Another process: its CronService is not started.  It loads the store    *)
(* without the lock, and then appends what it wants under the lock.        *)
ReadFile ==
  /\ edits < MaxEdits /\ view # DOMAIN jobsFile
  /\ view' = DOMAIN jobsFile
  /\ UNCHANGED <<cronDisk, cronMemory, until, edits, cronFaults, cronHistory>>
Seen == DOMAIN Merged([j \in view |-> JobAs(j, FALSE)])

AppendAction(a) ==
  /\ edits < MaxEdits /\ edits' = edits + 1
  /\ actions' = Append(actions, a)
  /\ UNCHANGED <<jobsFile, cronMemory, until, view, cronFaults, dropped, startedOnce, mayRepeat>>

OtherAdds(j) ==
  /\ New(j)
  /\ AppendAction([op |-> "put", job |-> j, state |-> JobAs(j, TRUE)])

OtherRemoves(j) ==
  /\ j \in Seen \ SystemJobs
  /\ AppendAction([op |-> "del", job |-> j])
  /\ owed' = owed \ {j} /\ UNCHANGED added

(* The action carries the whole job as the process sees it.                *)
OtherEnables(j, on) ==
  /\ j \in Seen
  /\ AppendAction([op |-> "put", job |-> j, state |-> JobAs(j, on)])
  /\ UNCHANGED <<added, owed>>
-----------------------------------------------------------------------------
Sooner(t) == IF t \in {0, Never} THEN t ELSE t - 1
SoonerIn(store) == [j \in DOMAIN store |-> [store[j] EXCEPT !.next = Sooner(@)]]

(* Time passes.                                                            *)
Clock ==
  /\ jobsFile' = SoonerIn(jobsFile) /\ jobs' = SoonerIn(jobs)
  /\ actions' = [i \in DOMAIN actions |->
                   IF actions[i].op = "del" THEN actions[i]
                   ELSE [actions[i] EXCEPT !.state.next = Sooner(@)]]
  /\ wake' = Sooner(wake)
  /\ until' = [j \in CronJobs |-> Sooner(until[j])]
  /\ UNCHANGED <<serving, tick, due, manual, view, edits, cronFaults, cronHistory>>

Gateway == Start \/ TimerFires \/ JobHangs \/ TimerJobEnds \/ Clock

CronNext ==
  \/ Gateway \/ ListJobs \/ CronDies \/ DiesInMerge \/ ReadFile
  \/ \E j \in CronJobs :
       \/ AddJob(j) \/ RemoveJob(j) \/ ManualStarts(j) \/ ManualEnds(j)
       \/ OtherAdds(j) \/ OtherRemoves(j)
       \/ \E on \in BOOLEAN : EnableJob(j, on) \/ OtherEnables(j, on)

CronSpec == CronInit /\ [][CronNext]_cronVars

(* The gateway is started again, time passes, a timer that is due goes on, *)
(* and a job ends or hangs; one that hangs may do so until the timer is    *)
(* armed again or the gateway ends.                                        *)
CronFairness == /\ WF_cronVars(Start) /\ WF_cronVars(Clock)
                /\ WF_cronVars(TimerFires) /\ WF_cronVars(JobEndsInTime)
-----------------------------------------------------------------------------
(* Jobs are merged from a log two processes use, saved over by an owner    *)
(* whose copy may be old, and the owner may die at any point.  A job that  *)
(* was added, and neither removed nor used up, is on disk, unless its      *)
(* action was in the log when a merge was cut short.                       *)
JobsKept == owed \ dropped \subseteq DOMAIN Merged(jobsFile)

(* Every job that is due is run, while the gateway lives: the timer is     *)
(* cancelled and armed again by calls at any time, and merges jobs that    *)
(* other processes added when it does not know of them.  A tick that hangs *)
(* in a job keeps the others waiting.                                      *)
IsDue(j) == serving /\ j \in DueNow(Loaded)
DueRuns == \A j \in CronJobs : IsDue(j) ~> (~IsDue(j) \/ (due # <<>> /\ Head(due) = j) \/ tick = "hung")

(* "One-time - runs once at a specific time" (skills/cron/SKILL.md:16): the *)
(* timer starts a one-time job once, although the service may be stopped   *)
(* and restarted, reload its store and be edited while the job runs.  Two  *)
(* things make it start a job again: an edit that cancels its tick, and an *)
(* action about it that another process wrote before it started, and that  *)
(* is merged after it ended.                                               *)
OneTimeRunsOnce == \A j \in CronJobs : startedOnce[j] = 2 => j \in mayRepeat

(* The inductive invariant behind the two.  A service that is not there    *)
(* runs nothing, every job anywhere was added once, and nobody removes a   *)
(* system job.                                                             *)
Known ==
  /\ ~serving => manual = {} /\ jobs = Nowhere
  /\ DOMAIN jobsFile \cup DOMAIN jobs \cup view \cup About(actions) \subseteq added
  /\ About(actions) \cap SystemJobs \subseteq PutLast(actions)

(* What is owed outlives a save of either copy.                            *)
Keeps(store) == owed \ dropped \subseteq DOMAIN Merged(store)
CopiesKeep == Keeps(jobsFile) /\ (serving => Keeps(jobs))

(* A one-time job is due at its time or never, wherever it is stored.      *)
OneTime(j) == KindOf[j] # "every"
OnTime(j, next) == OneTime(j) => next \in {until[j], Never}
TimesAgree ==
  /\ \A j \in DOMAIN jobsFile : OnTime(j, jobsFile[j].next)
  /\ \A j \in DOMAIN jobs : OnTime(j, jobs[j].next)
  /\ \A i \in DOMAIN actions :
       actions[i].op = "put" => OnTime(actions[i].job, actions[i].state.next)
  /\ \A i \in DOMAIN due : OneTime(due[i]) => until[due[i]] = 0
  /\ IsInjective(due)

(* Once it was started, it is due nowhere from where the timer would take  *)
(* it: the log says never, so does the copy in memory when it has ended,   *)
(* and the file where it is what will be loaded.                           *)
Spent(j) ==
  /\ until[j] = 0
  /\ \A i \in DOMAIN actions :
       actions[i].op = "put" /\ actions[i].job = j => actions[i].state.next = Never
  /\ \A i \in DOMAIN due \ {1} : due[i] # j
  /\ serving /\ j \in DOMAIN jobs /\ jobs[j].next # Never => due # <<>> /\ due[1] = j
  /\ serving /\ Idle /\ j \in DOMAIN jobsFile => jobsFile[j].next = Never
StartedIsSpent ==
  \A j \in CronJobs : OneTime(j) /\ startedOnce[j] > 0 /\ j \notin mayRepeat => Spent(j)

(* The inductive invariant of CronService: what is owed is in the store    *)
(* merged with the log, and no copy offers a one-time job again.           *)
CronIInv ==
  /\ CronTypeOK /\ Known /\ CopiesKeep /\ TimesAgree /\ StartedIsSpent /\ OneTimeRunsOnce
=============================================================================
