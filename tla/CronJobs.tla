------------------------------- MODULE CronJobs --------------------------------
(***************************************************************************)
(* Scheduled jobs (cron/manager.py, cron/scheduler.py, cron/watch.py,      *)
(* cli/cron.py) in the instances of the bot that InstanceLock runs.        *)
(*                                                                         *)
(* Every instance holds a copy of cron.toml and writes the whole of it     *)
(* back when jobs are due; the command line does the same for each of its  *)
(* commands.  A write truncates the file and then fills it, so that the    *)
(* others may read an empty one, and a crash may leave one.                *)
(***************************************************************************)
EXTENDS InstanceLock, Integers, FiniteSetsExt

CONSTANTS
  Schedule,  \* job id -> [one_time, at] as the command line adds it
  CronTick,  \* the times a recurring job is scheduled for
  MaxClock,  \* bound: the clock stops there
  Ahead,     \* how far the scheduler's zone (Asia/Shanghai) is ahead of the zone of
             \* the command line, whose one-time jobs name no zone
  Recent,    \* a job that never ran is due for a run this long ago (24 h)
  Edit,      \* bound: the commands <<operation, job>> of the command line,
  MaxEdits,  \* and how many there are
  Never      \* no last run

JobId   == DOMAIN Schedule
Command == {"add", "remove", "enable", "disable"}

ASSUME CronAssumption ==
  /\ MaxClock \in Nat /\ Ahead \in Int /\ Recent \in Nat /\ MaxEdits \in Nat
  /\ CronTick \subseteq Nat /\ Edit \subseteq Command \X JobId
  /\ \A i \in JobId : Schedule[i].one_time \in BOOLEAN /\ Schedule[i].at \in Nat
  /\ Never \notin Nat /\ "cli" \notin Pid

VARIABLES
  clock,
  cronFile,  \* [there, torn, jobs]; torn: truncated, and not yet written
  jobs,      \* process -> CronManager.jobs
  saving,    \* process -> the due jobs while it writes the file
  arming,    \* processes that have loaded their jobs and not started their watcher
  watching,  \* processes whose watcher found the file when it started
  changed,   \* processes whose watcher has a change to report
  busy,      \* process -> CronScheduler._running_jobs
  cli,       \* the command that runs: its step, operation, job and list
  edits,     \* commands so far
  behind,    \* history: who wrote the file since each writer read it;
             \* "torn" if it read an empty one in the middle of a write
  lost,      \* history: <<a, b>> if a's write undid what b had written
  owed,      \* history: one-time jobs that were added and have not fired
  unseen,    \* history: processes whose file another wrote while they were arming
  withdrawn  \* history: process -> jobs that were due until its last reload

watchVars == <<arming, watching, changed, unseen>>
cronVars == <<clock, cronFile, jobs, saving, watchVars, busy,
              cli, edits, behind, lost, owed, withdrawn>>
vars == <<lockVars, cronVars>>

CronJob == [id : JobId, enabled : BOOLEAN, last_run : Nat \cup {Never}]
Writer  == Pid \cup {"cli"}
Kind(w) == IF w = "cli" THEN "cli" ELSE "bot"
Missed  == {"cli", "bot", "torn"}
NewJob(i) == [id |-> i, enabled |-> TRUE, last_run |-> Never]
Ids(js) == {j.id : j \in js}

CronTypeOK ==
  /\ clock \in 0..MaxClock /\ edits \in 0..MaxEdits
  /\ cronFile \in [there : BOOLEAN, torn : BOOLEAN, jobs : SUBSET CronJob]
  /\ jobs \in [Pid -> SUBSET CronJob] /\ saving \in [Pid -> SUBSET JobId]
  /\ arming \in SUBSET Pid /\ watching \in SUBSET Pid
  /\ changed \in SUBSET Pid /\ unseen \in SUBSET Pid
  /\ busy \in [Pid -> SUBSET JobId]
  /\ cli \in [pc : {"loaded", "saving"}, op : Command, id : JobId,
              jobs : SUBSET CronJob] \cup {Idle}
  /\ behind \in [Writer -> SUBSET Missed]
  /\ lost \in SUBSET ({"cli", "bot"} \X Missed)
  /\ owed \in SUBSET JobId /\ withdrawn \in [Pid -> SUBSET JobId]

TypeOK == LockTypeOK /\ CronTypeOK

------------------------------------------------------------------------------
(* The schedule.  Times that cannot be parsed are skipped by the code and  *)
(* are left out.                                                           *)

one_time(j) == Schedule[j.id].one_time

\* get_due_jobs: a one-time job is due by the scheduler's clock; a recurring job is due for the first tick after its last run;
\* one that never ran, for the last tick before now if that is recent.
IsDue(j) ==
  /\ j.enabled
  /\ IF one_time(j) THEN Schedule[j.id].at <= clock + Ahead
     ELSE IF j.last_run # Never
     THEN \E t \in CronTick : j.last_run < t /\ t <= clock
     ELSE \E t \in CronTick : t < clock /\ clock - t <= Recent

DueIds(js) == {j.id : j \in {k \in js : IsDue(k)}}

------------------------------------------------------------------------------
(* The file. *)

\* load: a missing file and an empty one hold no job.
Loaded == IF cronFile.there /\ ~cronFile.torn THEN cronFile.jobs ELSE {}

LoadedBy(w) ==
  behind' = [behind EXCEPT ![w] = IF cronFile.torn THEN {"torn"} ELSE {}]

\* Every watcher that runs will report w's write; one about to start has missed it.
WrittenBy(w) ==
  /\ changed' = changed \cup watching
  /\ unseen' = unseen \cup (arming \ {w})

\* save, its first half: the file is truncated.  It loses what was written
\* since the writer read the file.
Truncate(w) ==
  /\ cronFile' = [there |-> TRUE, torn |-> TRUE, jobs |-> {}]
  /\ WrittenBy(w)
  /\ lost' = lost \cup ({Kind(w)} \X behind[w])
                  \cup (IF cronFile.torn THEN {<<Kind(w), "torn">>} ELSE {})

\* The writers that hold a list.
HasList(w) == IF w = "cli" THEN cli # Idle ELSE phase[w] \in {"up", "stopping"}

\* ... and its second half: the writer's list is in the file.
Fill(w, js) ==
  /\ cronFile' = [there |-> TRUE, torn |-> FALSE, jobs |-> js]
  /\ WrittenBy(w)
  /\ behind' = [v \in Writer |->
                  IF v = w \/ ~HasList(v) THEN {}
                  ELSE behind[v] \cup {Kind(w)}]

------------------------------------------------------------------------------
(* The scheduler and the watcher of an instance. *)

Running(p) == phase[p] = "up" /\ saving[p] = {}

\* The main loop is entered, and the task of CronScheduler.start loads the jobs.
StartCron(p) ==
  /\ OpenSignalReceiver(p)
  /\ jobs' = [jobs EXCEPT ![p] = Loaded]
  /\ LoadedBy(p)
  /\ arming' = arming \cup {p}
  /\ UNCHANGED <<clock, cronFile, saving, watching, changed, unseen, busy,
                 cli, edits, lost, owed, withdrawn>>

\* The watcher's task: it gives up for good when there is no file, and reports
\* no write before its subscription.
WatchCron(p) ==
  /\ Running(p) /\ p \in arming
  /\ arming' = arming \ {p}
  /\ watching' = IF cronFile.there THEN watching \cup {p} ELSE watching
  /\ UNCHANGED <<lockVars, clock, cronFile, jobs, saving, changed, unseen, busy,
                 cli, edits, behind, lost, owed, withdrawn>>

\* Mutant of CheckDue: the one-time jobs stay in the list.
CheckDueKeeps(p) ==
  LET due == {j \in jobs[p] : IsDue(j)}
      ran == {[j EXCEPT !.last_run = clock] : j \in {d \in due : ~one_time(d)}}
  IN
  /\ Running(p) /\ due # {}
  /\ jobs' = [jobs EXCEPT ![p] = {j \in @ : j \notin due \/ one_time(j)} \cup ran]
  /\ saving' = [saving EXCEPT ![p] = Ids(due)]
  /\ withdrawn' = [withdrawn EXCEPT ![p] = {}]
  /\ Truncate(p)
  /\ UNCHANGED <<lockVars, clock, arming, watching, busy, cli, edits, behind, owed>>

\* A cycle of the scheduler that finds due jobs.  Its sleep of 1 to 60 s, and
\* the cycles that find none, change nothing.  get_due_jobs marks the recurring
\* jobs, takes the one-time jobs out and starts to save.
CheckDue(p) ==
  LET due == {j \in jobs[p] : IsDue(j)}
      ran == {[j EXCEPT !.last_run = clock] : j \in {d \in due : ~one_time(d)}}
  IN
  /\ Running(p) /\ due # {}
  /\ jobs' = [jobs EXCEPT ![p] = (@ \ due) \cup ran]
  /\ saving' = [saving EXCEPT ![p] = Ids(due)]
  /\ withdrawn' = [withdrawn EXCEPT ![p] = {}]
  /\ Truncate(p)
  /\ UNCHANGED <<lockVars, clock, arming, watching, busy, cli, edits, behind, owed>>

\* Mutant of DispatchDue: one lock for all jobs.
DispatchDueAlone(p) ==
  LET fresh == IF busy[p] = {} THEN saving[p] ELSE {} IN
  /\ phase[p] \in {"up", "stopping"} /\ saving[p] # {}
  /\ Fill(p, jobs[p])
  /\ saving' = [saving EXCEPT ![p] = {}]
  /\ busy' = [busy EXCEPT ![p] = @ \cup fresh]
  /\ owed' = owed \ saving[p]
  /\ UNCHANGED <<lockVars, clock, jobs, arming, watching, cli, edits, lost, withdrawn>>

\* The rest of the save, and the tasks of the due jobs: _run_job_safe skips a
\* job that still runs, without a step in between.
DispatchDue(p) ==
  LET fresh == saving[p] \ busy[p] IN
  /\ phase[p] \in {"up", "stopping"} /\ saving[p] # {}
  /\ Fill(p, jobs[p])
  /\ saving' = [saving EXCEPT ![p] = {}]
  /\ busy' = [busy EXCEPT ![p] = @ \cup fresh]
  /\ owed' = owed \ saving[p]
  /\ UNCHANGED <<lockVars, clock, jobs, arming, watching, cli, edits, lost, withdrawn>>

\* The callback has sent its header and run the job, or failed.
FinishJob(p, i) ==
  /\ Running(p) /\ i \in busy[p]
  /\ busy' = [busy EXCEPT ![p] = @ \ {i}]
  /\ UNCHANGED <<lockVars, clock, cronFile, jobs, saving, watchVars,
                 cli, edits, behind, lost, owed, withdrawn>>

\* Mutant of WatchReload: changes that come while a job runs are dropped.
WatchReloadIdle(p) ==
  /\ Running(p) /\ p \in changed
  /\ changed' = changed \ {p}
  /\ IF busy[p] # {} THEN UNCHANGED <<jobs, behind>>
     ELSE jobs' = [jobs EXCEPT ![p] = Loaded] /\ LoadedBy(p)
  /\ unseen' = unseen \ {p}
  /\ withdrawn' = [withdrawn EXCEPT ![p] = DueIds(jobs[p]) \ DueIds(Loaded)]
  /\ UNCHANGED <<lockVars, clock, cronFile, saving, arming, watching, busy,
                 cli, edits, lost, owed>>

\* The watcher reports a change and reloads the whole list.
WatchReload(p) ==
  /\ Running(p) /\ p \in changed
  /\ changed' = changed \ {p}
  /\ jobs' = [jobs EXCEPT ![p] = Loaded]
  /\ LoadedBy(p)
  /\ unseen' = unseen \ {p}
  /\ withdrawn' = [withdrawn EXCEPT ![p] = DueIds(jobs[p]) \ DueIds(Loaded)]
  /\ UNCHANGED <<lockVars, clock, cronFile, saving, arming, watching, busy,
                 cli, edits, lost, owed>>

\* An instance ends with everything in flight; between the two halves of a
\* save only a kill can end it.
CronEnds(p) ==
  /\ Ends(p) /\ (saving[p] # {} => Kill(p))
  /\ jobs' = [jobs EXCEPT ![p] = {}]
  /\ saving' = [saving EXCEPT ![p] = {}]
  /\ busy' = [busy EXCEPT ![p] = {}]
  /\ arming' = arming \ {p} /\ watching' = watching \ {p}
  /\ changed' = changed \ {p} /\ unseen' = unseen \ {p}
  /\ withdrawn' = [withdrawn EXCEPT ![p] = {}]
  /\ behind' = [behind EXCEPT ![p] = {}]
  /\ lost' = IF saving[p] # {} THEN lost \cup {<<"bot", "torn">>} ELSE lost
  /\ UNCHANGED <<clock, cronFile, cli, edits, owed>>

------------------------------------------------------------------------------
(* `yee88 cron add`, `remove`, `enable`, `disable`. *)

CliLoad ==
  /\ cli.pc = "idle" /\ edits < MaxEdits
  /\ edits' = edits + 1
  /\ \E e \in Edit :
       cli' = [pc |-> "loaded", op |-> e[1], id |-> e[2], jobs |-> Loaded]
  /\ LoadedBy("cli")
  /\ UNCHANGED <<lockVars, clock, cronFile, jobs, saving, watchVars,
                 busy, lost, owed, withdrawn>>

\* The list as the command leaves it.
Edited ==
  LET mine == {j \in cli.jobs : j.id = cli.id}
  IN
  CASE cli.op = "add"     -> cli.jobs \cup {NewJob(cli.id)}
    [] cli.op = "remove"  -> cli.jobs \ mine
    [] cli.op = "enable"  -> (cli.jobs \ mine) \cup {[j EXCEPT !.enabled = TRUE] : j \in mine}
    [] cli.op = "disable" -> (cli.jobs \ mine) \cup {[j EXCEPT !.enabled = FALSE] : j \in mine}

\* The command is refused: the id is taken, or unknown; a one-time job must lie
\* ahead.
Refused ==
  IF cli.op = "add"
  THEN \/ cli.id \in Ids(cli.jobs)
       \/ Schedule[cli.id].one_time /\ Schedule[cli.id].at < clock
  ELSE cli.id \notin Ids(cli.jobs)

CliApply ==
  /\ cli.pc = "loaded"
  /\ IF Refused
     THEN /\ cli' = Idle
          /\ UNCHANGED <<cronFile, changed, unseen, lost>>
     ELSE /\ cli' = [cli EXCEPT !.pc = "saving", !.jobs = Edited]
          /\ Truncate("cli")
  /\ UNCHANGED <<lockVars, clock, jobs, saving, arming, watching, busy,
                 edits, behind, owed, withdrawn>>

CliSave ==
  /\ cli.pc = "saving"
  /\ Fill("cli", cli.jobs)
  /\ cli' = Idle
  /\ owed' = CASE cli.op = "add" /\ Schedule[cli.id].one_time -> owed \cup {cli.id}
               [] cli.op = "remove" -> owed \ {cli.id}
               [] OTHER -> owed
  /\ UNCHANGED <<lockVars, clock, jobs, saving, arming, watching, busy,
                 edits, lost, withdrawn>>

------------------------------------------------------------------------------
Tick ==
  /\ clock < MaxClock
  /\ clock' = clock + 1
  /\ UNCHANGED <<lockVars, cronFile, jobs, saving, watchVars,
                 busy, cli, edits, behind, lost, owed, withdrawn>>

Init ==
  /\ LockInit
  /\ clock = 0 /\ edits = 0
  /\ \E b \in BOOLEAN, S \in SUBSET JobId :
       /\ S # {} => b
       /\ cronFile = [there |-> b, torn |-> FALSE, jobs |-> {NewJob(i) : i \in S}]
       /\ owed = {i \in S : Schedule[i].one_time}
  /\ jobs = [p \in Pid |-> {}] /\ saving = [p \in Pid |-> {}]
  /\ arming = {} /\ watching = {} /\ changed = {} /\ unseen = {}
  /\ withdrawn = [p \in Pid |-> {}]
  /\ busy = [p \in Pid |-> {}]
  /\ cli = Idle
  /\ behind = [w \in Writer |-> {}]
  /\ lost = {}

\* Steps of the lock that do not concern the jobs.
LockOnly ==
  /\ \/ \E p \in Pid : ReadLock(p) \/ WriteLock(p)
     \/ FindRunningInstance \/ UnlinkStale
     \/ SendHangup
  /\ UNCHANGED cronVars

CronStep(p) ==
  \/ StartCron(p) \/ WatchCron(p) \/ CheckDue(p) \/ DispatchDue(p) \/ WatchReload(p)
  \/ \E i \in JobId : FinishJob(p, i)
  \/ CronEnds(p)

Next ==
  \/ LockOnly
  \/ \E p \in Pid : CronStep(p)
  \/ CliLoad \/ CliApply \/ CliSave
  \/ Tick

Fairness ==
  /\ \A p \in Pid : WF_vars(CheckDue(p)) /\ WF_vars(DispatchDue(p)) /\ WF_vars(WatchReload(p))
  /\ WF_vars(CliSave) /\ WF_vars(Tick)

Spec == Init /\ [][Next]_vars /\ Fairness
------------------------------------------------------------------------------
(* Correctness. *)

\* A one-time job is in the file from its addition until it is dispatched or
\* removed, and no longer: no crash, restart or reload loses one or lets it
\* fire again (manager.py:139-189), unless a writer undid another's write or
\* died in the middle of its own.
LedgerKept ==
  lost = {} /\ ~cronFile.torn =>
    {i \in Ids(cronFile.jobs) : Schedule[i].one_time} = owed

\* The schedulers of two processes never undo each other's writes, through
\* restarts and crashes, as long as the lock kept the instances apart: the
\* whole-file save of manager.py:77-78 relies on lockfile.py:63-93.
BotsDoNotClobber ==
  ~raced /\ ~takenOver => <<"bot", "bot">> \notin lost

\* An instance that stays up comes to hold the jobs of the file for good, if
\* its watcher runs and missed no write before it started: also when its own
\* saves race the command line's (watch.py:25-48).
ListCatchesUp ==
  \A p \in Pid :
    <>[](phase[p] = "up" /\ p \in watching /\ p \notin unseen) => <>[](jobs[p] = Loaded)

\* A due job that does not run is started, whatever else runs and whatever
\* writes and reloads come in between, unless the instance ends first or a
\* reload brings a list in which the job is not due (scheduler.py:90-144).  Of
\* a job that still runs, _run_job_safe skips the new run.
DueJobsFire ==
  \A p \in Pid, i \in JobId :
    (phase[p] = "up" /\ i \in DueIds(jobs[p]) \ busy[p])
      ~> (phase[p] # "up" \/ i \in busy[p] \/ i \in withdrawn[p] \ DueIds(jobs[p]))
===============================================================================
