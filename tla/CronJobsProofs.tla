---------------------------- MODULE CronJobsProofs ----------------------------
(***************************************************************************)
(* Proofs about InstanceLock and CronJobs, for any processes, tokens,      *)
(* schedules and commands.  As long as every start and every reload acts   *)
(* on the lock file that it read, and no bot takes over the lock of        *)
(* another, the file names the one instance that runs; and as long as it   *)
(* does, no scheduler undoes what another has written.                     *)
(***************************************************************************)
EXTENDS CronJobs, TLAPS

----------------------------------------------------------------------------
(***************************************************************************)
(* The lock.                                                               *)
(***************************************************************************)

\* The provisos: nobody acted on a lock file that had changed, nor took one over.
Orderly == ~raced /\ ~takenOver

\* A pid that the lock file or somebody's memory of it holds was born.
NamesAreBorn ==
  /\ lockFile # NoLock => phase[lockFile.pid] # "unborn"
  /\ reloader.pc \in {"stale", "live"} => phase[reloader.pid] # "unborn"
  /\ reloader.pc = "stale" => phase[reloader.pid] = "gone"

\* A process that is cleared to write the lock of a bot has seen its last owner gone.
OwnersAreGone ==
  \A p \in Pid :
    phase[p] = "cleared" /\ saw[p] # NoLock /\ saw[p].token_fingerprint = token[p]
      => phase[saw[p].pid] = "gone"

\* The file names whoever runs.
HoldersAreNamed ==
  Orderly => \A p \in Pid : phase[p] \in Holding => lockFile # NoLock /\ lockFile.pid = p

LockInv == LockTypeOK /\ NamesAreBorn /\ OwnersAreGone /\ HoldersAreNamed

LEMMA NamesTheHolder == LockInv => OneInstance
BY DEF LockInv, HoldersAreNamed, Orderly, OneInstance

\* What is known of a process that is gone stays true, and the orderly past is a past of
\* the orderly present.
LEMMA GoneForGood ==
  ASSUME LockTypeOK, LockNext
  PROVE  /\ \A p \in Pid : phase[p] = "gone" => phase'[p] = "gone"
         /\ \A p \in Pid : phase'[p] = "unborn" => phase[p] = "unborn"
         /\ Orderly' => Orderly
BY DEF LockTypeOK, LockNext, ReadLock, WriteLock, OpenSignalReceiver, Ends, Stop, ExecRestart, Kill,
       FindRunningInstance, UnlinkStale, SendHangup, OnHangup, _pid_running, Orderly, Holding, Phase

LEMMA LockTypeStep == LockTypeOK /\ LockNext => LockTypeOK'
<1> SUFFICES ASSUME LockTypeOK, LockNext PROVE LockTypeOK'
  OBVIOUS
<1>1. ASSUME NEW p \in Pid, ReadLock(p) PROVE LockTypeOK'
  BY <1>1 DEF LockTypeOK, ReadLock, Phase
<1>2. ASSUME NEW p \in Pid, WriteLock(p) PROVE LockTypeOK'
  <2>1. [pid |-> p, token_fingerprint |-> token[p]] \in LockInfo
    BY DEF LockTypeOK, LockInfo
  <2>2. lockFile' \in LockInfo \cup {NoLock} /\ raced' \in BOOLEAN /\ takenOver' \in BOOLEAN
    BY <1>2, <2>1 DEF LockTypeOK, WriteLock
  <2> QED
    BY <1>2, <2>2 DEF LockTypeOK, WriteLock, Phase
<1>3. ASSUME NEW p \in Pid, OpenSignalReceiver(p) \/ Ends(p) PROVE LockTypeOK'
  BY <1>3, LockAssumption DEF LockTypeOK, OpenSignalReceiver, Ends, Stop, ExecRestart, Kill, Release,
                              OneMoreFault, Phase
<1>4. ASSUME FindRunningInstance PROVE LockTypeOK'
  <2>1. lockFile \in LockInfo
    BY <1>4 DEF FindRunningInstance, LockTypeOK
  <2>2. reloader' \in [pc : {"stale", "live"}, pid : Pid]
    BY <1>4, <2>1 DEF FindRunningInstance, LockInfo
  <2> QED
    BY <1>4, <2>2, LockAssumption DEF FindRunningInstance, LockTypeOK, OneMoreFault
<1>5. ASSUME UnlinkStale PROVE LockTypeOK'
  BY <1>5 DEF UnlinkStale, LockTypeOK
<1>6. ASSUME SendHangup PROVE LockTypeOK'
  <2>1. reloader.pid \in Pid
    BY <1>6 DEF SendHangup, LockTypeOK, Idle
  <2> QED
    BY <1>6, <2>1 DEF SendHangup, LockTypeOK, OnHangup, Phase
<1> QED
  BY <1>1, <1>2, <1>3, <1>4, <1>5, <1>6 DEF LockNext

LEMMA LockStep == LockInv /\ LockNext => LockInv'
<1> SUFFICES ASSUME LockInv, LockNext PROVE LockInv'
  OBVIOUS
<1>1. LockTypeOK' /\ LockTypeOK
  BY LockTypeStep DEF LockInv
<1>2. /\ \A p \in Pid : phase[p] = "gone" => phase'[p] = "gone"
      /\ \A p \in Pid : phase'[p] = "unborn" => phase[p] = "unborn"
      /\ Orderly' => Orderly
  BY <1>1, GoneForGood
<1>3. lockFile # NoLock => lockFile.pid \in Pid
  BY <1>1 DEF LockTypeOK, LockInfo
<1>4. reloader.pc \in {"stale", "live"} => reloader.pid \in Pid
  BY <1>1 DEF LockTypeOK, Idle
<1>5. \A p \in Pid : saw[p] # NoLock => saw[p].pid \in Pid
  BY <1>1 DEF LockTypeOK, LockInfo
<1>6. NamesAreBorn'
  <2>1. ASSUME NEW p \in Pid, WriteLock(p) PROVE NamesAreBorn'
    BY <1>1, <1>2, <1>4, <2>1 DEF WriteLock, LockInv, NamesAreBorn, LockTypeOK
  <2>2. CASE FindRunningInstance
    BY <1>2, <1>3, <2>2 DEF FindRunningInstance, LockInv, NamesAreBorn, _pid_running
  <2>3. CASE UnlinkStale
    BY <2>3 DEF UnlinkStale, NamesAreBorn, Idle
  <2>4. CASE SendHangup
    BY <1>1, <1>2, <1>3, <2>4 DEF SendHangup, LockInv, NamesAreBorn, Idle
  <2>5. ASSUME NEW p \in Pid, ReadLock(p) \/ OpenSignalReceiver(p) \/ Ends(p) PROVE NamesAreBorn'
    <3>1. lockFile' \in {lockFile, NoLock} /\ reloader' = reloader
      BY <2>5 DEF ReadLock, OpenSignalReceiver, Ends, Stop, ExecRestart, Kill, Release
    <3> QED
      BY <1>2, <1>3, <1>4, <3>1 DEF LockInv, NamesAreBorn
  <2> QED
    BY <2>1, <2>2, <2>3, <2>4, <2>5 DEF LockNext
<1>7. OwnersAreGone'
  <2>1. ASSUME NEW p \in Pid, ReadLock(p) PROVE OwnersAreGone'
    BY <1>1, <1>2, <1>3, <1>5, <2>1
    DEF ReadLock, AlreadyRunning, _pid_running, LockInv, NamesAreBorn, OwnersAreGone, LockTypeOK
  <2>2. ASSUME NEW p \in Pid, phase'[p] = "cleared", ~ReadLock(p)
        PROVE phase[p] = "cleared" /\ saw'[p] = saw[p] /\ token'[p] = token[p]
    BY <1>1, <2>2 DEF LockNext, LockTypeOK, ReadLock, WriteLock, OpenSignalReceiver, Ends, Stop,
                      ExecRestart, Kill, FindRunningInstance, UnlinkStale, SendHangup, OnHangup
  <2> QED
    BY <1>2, <1>5, <2>1, <2>2 DEF LockInv, OwnersAreGone
<1>8. HoldersAreNamed'
  <2> SUFFICES ASSUME Orderly' PROVE \A p \in Pid : phase'[p] \in Holding => lockFile' # NoLock /\ lockFile'.pid = p
    BY DEF HoldersAreNamed
  <2>1. \A p \in Pid : phase[p] \in Holding => lockFile # NoLock /\ lockFile.pid = p
    BY <1>2 DEF LockInv, HoldersAreNamed
  <2>2. ASSUME NEW p \in Pid, WriteLock(p) PROVE \A q \in Pid : phase'[q] \in Holding => lockFile' # NoLock /\ lockFile'.pid = q
    <3>1. lockFile = saw[p]
      BY <2>2 DEF WriteLock, Orderly
    <3>2. ASSUME NEW q \in Pid, phase[q] \in Holding PROVE FALSE
      <4>1. saw[p] # NoLock /\ saw[p].pid = q
        BY <2>1, <3>1, <3>2
      <4>2. saw[p].pid # p /\ _pid_running(saw[p].pid)
        BY <2>2, <3>2, <4>1 DEF WriteLock, Holding, _pid_running
      <4>3. saw[p].token_fingerprint = token[p]
        BY <2>2, <4>1, <4>2 DEF WriteLock, Orderly
      <4> QED
        BY <2>2, <4>1, <4>2, <4>3 DEF WriteLock, LockInv, OwnersAreGone, _pid_running
    <3>3. lockFile' \in LockInfo /\ lockFile'.pid = p
      BY <1>1, <2>2 DEF WriteLock, LockTypeOK, LockInfo
    <3> QED
      BY <1>1, <2>2, <3>2, <3>3, LockAssumption DEF WriteLock, LockTypeOK, Holding, LockInfo
  <2>3. CASE UnlinkStale
    BY <1>3, <1>4, <2>1, <2>3 DEF UnlinkStale, Orderly, LockInv, NamesAreBorn, _pid_running, Holding
  <2>4. ASSUME NEW p \in Pid, Stop(p) \/ ExecRestart(p)
        PROVE \A q \in Pid : phase'[q] \notin Holding
    BY <1>1, <2>1, <2>4 DEF Stop, ExecRestart, LockTypeOK, Holding
  <2>5. ASSUME NEW p \in Pid, ReadLock(p) \/ OpenSignalReceiver(p) \/ Kill(p)
        PROVE \A q \in Pid : phase'[q] \in Holding => phase[q] \in Holding /\ lockFile' = lockFile
    BY <1>1, <2>5 DEF ReadLock, OpenSignalReceiver, Kill, LockTypeOK, Holding
  <2>6. ASSUME FindRunningInstance \/ SendHangup
        PROVE \A q \in Pid : phase'[q] \in Holding => phase[q] \in Holding /\ lockFile' = lockFile
    BY <1>1, <2>6 DEF FindRunningInstance, SendHangup, OnHangup, LockTypeOK, Holding
  <2> QED
    BY <2>1, <2>2, <2>3, <2>4, <2>5, <2>6 DEF LockNext, Ends
<1> QED
  BY <1>1, <1>6, <1>7, <1>8 DEF LockInv

LEMMA LockStart == LockInit => LockInv
<1> SUFFICES ASSUME LockInit PROVE LockInv
  OBVIOUS
<1>1. lockFile = NoLock /\ reloader = Idle /\ reloader.pc = "idle"
  BY DEF LockInit, Idle
<1>2. \A p \in Pid : phase[p] = "unborn"
  BY DEF LockInit
<1>3. LockTypeOK
  <2>1. phase \in [Pid -> Phase] /\ token \in [Pid -> Token]
    BY DEF LockInit, Phase
  <2>2. saw \in [Pid -> LockInfo \cup {NoLock}]
    BY DEF LockInit
  <2>3. faults \in 0..MaxFaults
    BY LockAssumption DEF LockInit
  <2>4. reload_requested \in SUBSET Pid /\ raced \in BOOLEAN /\ takenOver \in BOOLEAN
    BY DEF LockInit
  <2> QED
    BY <1>1, <2>1, <2>2, <2>3, <2>4, Zenon DEF LockTypeOK
<1>4. NamesAreBorn /\ OwnersAreGone /\ HoldersAreNamed
  BY <1>1, <1>2 DEF NamesAreBorn, OwnersAreGone, HoldersAreNamed, Holding
<1> QED
  BY <1>3, <1>4 DEF LockInv

----------------------------------------------------------------------------
(***************************************************************************)
(* The jobs: their steps are steps of the lock, or leave it alone.         *)
(***************************************************************************)
LEMMA StepsOfLock == [Next]_vars => [LockNext]_lockVars
BY DEF Next, vars, LockOnly, LockNext, CronStep, StartCron, WatchCron, CheckDue, DispatchDue, WatchReload,
       FinishJob, CronEnds, CliLoad, CliApply, CliSave, Tick

LEMMA LockStutters == LockInv /\ UNCHANGED lockVars => LockInv'
BY DEF lockVars, LockInv, LockTypeOK, NamesAreBorn, OwnersAreGone, HoldersAreNamed, Orderly

\* CronJobs composes the lock with the scheduled jobs and the command line.
THEOREM CronUsesLock == Spec => LockSpec
<1>1. Init => LockInit
  BY DEF Init
<1> QED
  BY <1>1, StepsOfLock, PTL DEF Spec, LockSpec

\* A start that read the lock of a live instance of its bot gives up, and every other
\* step leaves the file naming whoever runs: no two instances run at once
\* (lockfile.py, reload.py).
THEOREM InstancesAreAlone == Spec => []OneInstance
<1>1. LockInv /\ [LockNext]_lockVars => LockInv'
  BY LockStep, LockStutters
<1> QED
  BY <1>1, LockStart, NamesTheHolder, CronUsesLock, PTL DEF LockSpec

\* The lock's variables keep their types.
THEOREM LockTypeCorrect == Spec => []LockTypeOK
<1>1. LockInv /\ [LockNext]_lockVars => LockInv'
  BY LockStep, LockStutters
<1>2. LockInv => LockTypeOK
  BY DEF LockInv
<1> QED
  BY <1>1, <1>2, LockStart, CronUsesLock, PTL DEF LockSpec

----------------------------------------------------------------------------
(***************************************************************************)
(* No scheduler has to undo what another wrote, as there is no other when  *)
(* one writes, and none of an earlier instance's when one starts.          *)
(***************************************************************************)
BehindNoBot ==
  /\ behind \in [Writer -> SUBSET Missed]
  /\ Orderly => \A p \in Pid : "bot" \notin behind[p]

JobsInv == LockInv /\ BehindNoBot /\ BotsDoNotClobber

LEMMA JobsStart == Init => JobsInv
<1>1. Init => LockInv
  BY LockStart DEF Init
<1>2. Init => BehindNoBot /\ BotsDoNotClobber
  BY CronAssumption DEF Init, BehindNoBot, BotsDoNotClobber, Writer
<1> QED
  BY <1>1, <1>2 DEF JobsInv

LEMMA FillsAlone ==
  ASSUME LockInv, BehindNoBot, NEW w \in Writer, NEW js, Fill(w, js),
         w \in Pid => phase[w] \in {"up", "stopping"}
  PROVE  /\ behind' \in [Writer -> SUBSET Missed]
         /\ Orderly => \A p \in Pid : "bot" \notin behind'[p]
<1>1. Kind(w) \in {"cli", "bot"} /\ (w \notin Pid => Kind(w) = "cli")
  BY DEF Kind, Writer
<1>2. behind' \in [Writer -> SUBSET Missed]
  BY <1>1 DEF Fill, BehindNoBot, Missed
<1>3. ASSUME Orderly, NEW p \in Pid PROVE "bot" \notin behind'[p]
  <2>1. p \in Writer /\ "bot" \notin behind[p] /\ p # "cli"
    BY <1>3, CronAssumption DEF BehindNoBot, Writer
  <2>2. CASE w \in Pid
    <3>1. HasList(p) => p = w
      BY <1>3, <2>1, <2>2, NamesTheHolder DEF HasList, OneInstance, Orderly, Holding
    <3> QED
      BY <2>1, <3>1 DEF Fill
  <2>3. CASE w \notin Pid
    BY <1>1, <2>1, <2>3 DEF Fill
  <2> QED
    BY <2>2, <2>3
<1> QED
  BY <1>2, <1>3

LEMMA LoadsAfresh ==
  ASSUME BehindNoBot, NEW w \in Writer, LoadedBy(w)
  PROVE  /\ behind' \in [Writer -> SUBSET Missed]
         /\ Orderly => \A p \in Pid : "bot" \notin behind'[p]
BY DEF LoadedBy, BehindNoBot, Missed, Writer

LEMMA TruncatesHarmlessly ==
  ASSUME BehindNoBot, BotsDoNotClobber, NEW w \in Writer, Truncate(w)
  PROVE  Orderly => <<"bot", "bot">> \notin lost'
<1> SUFFICES ASSUME Orderly, <<"bot", "bot">> \in lost' PROVE FALSE
  OBVIOUS
<1>1. <<"bot", "bot">> \notin lost
  BY DEF BotsDoNotClobber, Orderly
<1>2. <<"bot", "bot">> \in {Kind(w)} \X behind[w]
  BY <1>1 DEF Truncate
<1>3. Kind(w) = "bot" /\ "bot" \in behind[w]
  BY <1>2
<1>4. w \in Pid
  BY <1>3 DEF Kind, Writer
<1> QED
  BY <1>3, <1>4 DEF BehindNoBot

LEMMA JobsStep == JobsInv /\ [Next]_vars => JobsInv'
<1> SUFFICES ASSUME JobsInv, [Next]_vars PROVE JobsInv'
  OBVIOUS
<1>1. LockInv /\ LockInv' /\ (Orderly' => Orderly)
  BY StepsOfLock, LockStep, LockStutters, GoneForGood DEF JobsInv, LockInv, lockVars, Orderly
<1>2. BehindNoBot /\ BotsDoNotClobber /\ "cli" \in Writer /\ Pid \subseteq Writer
  BY DEF JobsInv, Writer
<1>3. BehindNoBot'
  <2> SUFFICES /\ behind' \in [Writer -> SUBSET Missed]
               /\ Orderly => \A p \in Pid : "bot" \notin behind'[p]
    BY <1>1 DEF BehindNoBot
  <2>1. ASSUME NEW p \in Pid, StartCron(p) \/ WatchReload(p) PROVE LoadedBy(p)
    BY <2>1 DEF StartCron, WatchReload
  <2>2. CliLoad => LoadedBy("cli")
    BY DEF CliLoad
  <2>3. ASSUME NEW p \in Pid, DispatchDue(p) PROVE Fill(p, jobs[p]) /\ phase[p] \in {"up", "stopping"}
    BY <2>3 DEF DispatchDue
  <2>4. CliSave => Fill("cli", cli.jobs)
    BY DEF CliSave
  <2>5. ASSUME NEW p \in Pid, CronEnds(p)
        PROVE behind' \in [Writer -> SUBSET Missed] /\ (Orderly => \A q \in Pid : "bot" \notin behind'[q])
    BY <1>2, <2>5 DEF CronEnds, BehindNoBot
  <2>6. CASE UNCHANGED behind
    BY <1>2, <2>6 DEF BehindNoBot
  <2>7. ASSUME NEW p \in Pid, WatchCron(p) \/ CheckDue(p) \/ \E i \in JobId : FinishJob(p, i)
        PROVE UNCHANGED behind
    BY <2>7 DEF WatchCron, CheckDue, FinishJob
  <2>8. LockOnly \/ CliApply \/ Tick \/ UNCHANGED vars => UNCHANGED behind
    BY DEF LockOnly, CliApply, Tick, vars, cronVars
  <2>9. ASSUME NEW p \in Pid, CronStep(p)
        PROVE behind' \in [Writer -> SUBSET Missed] /\ (Orderly => \A q \in Pid : "bot" \notin behind'[q])
    <3>1. CASE StartCron(p) \/ WatchReload(p)
      BY <1>2, <2>1, <3>1, LoadsAfresh
    <3>2. CASE DispatchDue(p)
      BY <1>1, <1>2, <2>3, <3>2, FillsAlone
    <3> QED
      BY <2>5, <2>6, <2>7, <2>9, <3>1, <3>2 DEF CronStep
  <2>10. CASE CliLoad
    BY <1>2, <2>2, <2>10, LoadsAfresh
  <2>11. CASE CliSave
    BY <1>1, <1>2, <2>4, <2>11, FillsAlone, CronAssumption
  <2> QED
    BY <2>6, <2>8, <2>9, <2>10, <2>11 DEF Next
<1>4. BotsDoNotClobber'
  <2> SUFFICES Orderly => <<"bot", "bot">> \notin lost'
    BY <1>1 DEF BotsDoNotClobber, Orderly
  <2>1. CASE \E w \in Writer : Truncate(w)
    BY <1>2, <2>1, TruncatesHarmlessly
  <2>2. CASE lost' \in {lost, lost \cup {<<"bot", "torn">>}}
    BY <1>2, <2>2 DEF BotsDoNotClobber, Orderly
  <2>3. ASSUME NEW p \in Pid, CronStep(p)
        PROVE Truncate(p) \/ lost' \in {lost, lost \cup {<<"bot", "torn">>}}
    BY <2>3 DEF CronStep, StartCron, WatchCron, CheckDue, DispatchDue, WatchReload, FinishJob, CronEnds
  <2>4. CliApply => Truncate("cli") \/ lost' = lost
    BY DEF CliApply
  <2>5. LockOnly \/ CliLoad \/ CliSave \/ Tick \/ UNCHANGED vars => lost' = lost
    BY DEF LockOnly, CliLoad, CliSave, Tick, vars, cronVars
  <2> QED
    BY <1>2, <2>1, <2>2, <2>3, <2>4, <2>5 DEF Next
<1> QED
  BY <1>1, <1>3, <1>4 DEF JobsInv

\* While the lock keeps instances apart, the save of a whole file by a scheduler never
\* undoes the save of another (manager.py, lockfile.py).
THEOREM SchedulersDoNotClobber == Spec => []BotsDoNotClobber
<1>1. JobsInv => BotsDoNotClobber
  BY DEF JobsInv
<1> QED
  BY <1>1, JobsStart, JobsStep, PTL DEF Spec
----------------------------------------------------------------------------
(***************************************************************************)
(* The types of the jobs, and the ids in a list.                           *)
(***************************************************************************)
LEMMA CronTypeStart == Init => CronTypeOK
<1> SUFFICES ASSUME Init PROVE CronTypeOK
  OBVIOUS
<1>1. cronFile \in [there : BOOLEAN, torn : BOOLEAN, jobs : SUBSET CronJob] /\ owed \in SUBSET JobId
  <2>1. PICK b \in BOOLEAN, S \in SUBSET JobId :
          /\ cronFile = [there |-> b, torn |-> FALSE, jobs |-> {NewJob(i) : i \in S}]
          /\ owed = {i \in S : Schedule[i].one_time}
    BY DEF Init
  <2>2. ASSUME NEW i \in S PROVE NewJob(i) \in CronJob
    BY DEF NewJob, CronJob
  <2> QED
    BY <2>1, <2>2
<1>2. clock \in 0..MaxClock /\ edits \in 0..MaxEdits
  BY CronAssumption DEF Init
<1>3. jobs \in [Pid -> SUBSET CronJob] /\ saving \in [Pid -> SUBSET JobId] /\ busy \in [Pid -> SUBSET JobId]
  BY DEF Init
<1>4. /\ arming \in SUBSET Pid /\ watching \in SUBSET Pid /\ changed \in SUBSET Pid
      /\ unseen \in SUBSET Pid /\ withdrawn \in [Pid -> SUBSET JobId] /\ cli = Idle
  BY DEF Init
<1>5. behind \in [Writer -> SUBSET Missed] /\ lost \in SUBSET ({"cli", "bot"} \X Missed)
  BY DEF Init
<1> QED
  BY <1>1, <1>2, <1>3, <1>4, <1>5 DEF CronTypeOK

LEMMA LoadTypes ==
  ASSUME CronTypeOK, NEW w \in Writer, LoadedBy(w)
  PROVE  Loaded \in SUBSET CronJob /\ behind' \in [Writer -> SUBSET Missed]
BY DEF CronTypeOK, Loaded, LoadedBy, Missed

LEMMA TruncateTypes ==
  ASSUME CronTypeOK, NEW w \in Writer, Truncate(w)
  PROVE  /\ cronFile' \in [there : BOOLEAN, torn : BOOLEAN, jobs : SUBSET CronJob]
         /\ changed' \in SUBSET Pid /\ unseen' \in SUBSET Pid
         /\ lost' \in SUBSET ({"cli", "bot"} \X Missed)
<1>1. Kind(w) \in {"cli", "bot"} /\ behind[w] \in SUBSET Missed /\ "torn" \in Missed
  BY DEF Kind, CronTypeOK, Missed
<1> QED
  BY <1>1 DEF CronTypeOK, Truncate, WrittenBy

LEMMA FillTypes ==
  ASSUME CronTypeOK, NEW w \in Writer, NEW js \in SUBSET CronJob, Fill(w, js)
  PROVE  /\ cronFile' \in [there : BOOLEAN, torn : BOOLEAN, jobs : SUBSET CronJob]
         /\ changed' \in SUBSET Pid /\ unseen' \in SUBSET Pid
         /\ behind' \in [Writer -> SUBSET Missed]
<1>1. Kind(w) \in Missed
  BY DEF Kind, Missed
<1> QED
  BY <1>1 DEF CronTypeOK, Fill, WrittenBy

\* The command that runs, if one does.
LEMMA CommandTypes ==
  ASSUME CronTypeOK, cli.pc # "idle" \/ cli # Idle
  PROVE  /\ cli \in [pc : {"loaded", "saving"}, op : Command, id : JobId, jobs : SUBSET CronJob]
         /\ cli # Idle
         /\ Edited \in SUBSET CronJob
<1>1. cli \in [pc : {"loaded", "saving"}, op : Command, id : JobId, jobs : SUBSET CronJob]
  BY DEF CronTypeOK, Idle
<1>2. NewJob(cli.id) \in CronJob
  BY <1>1 DEF NewJob, CronJob
<1>3. \A j \in cli.jobs, b \in BOOLEAN : [j EXCEPT !.enabled = b] \in CronJob
  BY <1>1 DEF CronJob
<1>4. cli # Idle
  BY <1>1 DEF Idle
<1> QED
  BY <1>1, <1>2, <1>3, <1>4 DEF Edited, Command

\* The jobs that a cycle of the scheduler marks.
Due(p) == {j \in jobs[p] : IsDue(j)}
Ran(p) == {[j EXCEPT !.last_run = clock] : j \in {d \in Due(p) : ~one_time(d)}}

LEMMA DueTypes ==
  ASSUME CronTypeOK, NEW p \in Pid
  PROVE  /\ Due(p) \in SUBSET CronJob /\ Ids(Due(p)) \in SUBSET JobId
         /\ (jobs[p] \ Due(p)) \cup Ran(p) \in SUBSET CronJob
<1>1. Due(p) \in SUBSET CronJob
  BY DEF CronTypeOK, Due
<1>2. clock \in Nat
  BY CronAssumption DEF CronTypeOK
<1>3. Ran(p) \in SUBSET CronJob
  BY <1>1, <1>2 DEF Ran, CronJob
<1> QED
  BY <1>1, <1>3 DEF CronTypeOK, Ids, CronJob

LEMMA DueIdsTypes ==
  ASSUME NEW js \in SUBSET CronJob
  PROVE  DueIds(js) \in SUBSET JobId
BY DEF DueIds, CronJob

LEMMA CronTypeStep == LockTypeOK /\ CronTypeOK /\ [Next]_vars => CronTypeOK'
<1> SUFFICES ASSUME LockTypeOK, CronTypeOK, [Next]_vars PROVE CronTypeOK'
  OBVIOUS
<1>1. "cli" \in Writer /\ Pid \subseteq Writer
  BY DEF Writer
<1>2. ASSUME NEW p \in Pid, StartCron(p) \/ WatchReload(p) PROVE CronTypeOK'
  <2>1. Loaded \in SUBSET CronJob /\ behind' \in [Writer -> SUBSET Missed]
    BY <1>1, <1>2, LoadTypes DEF StartCron, WatchReload
  <2>2. jobs' \in [Pid -> SUBSET CronJob]
    BY <1>2, <2>1 DEF StartCron, WatchReload, CronTypeOK
  <2>3. /\ arming' \in SUBSET Pid /\ watching' \in SUBSET Pid
        /\ changed' \in SUBSET Pid /\ unseen' \in SUBSET Pid
    BY <1>2 DEF StartCron, WatchReload, CronTypeOK
  <2>4. withdrawn' \in [Pid -> SUBSET JobId]
    <3>1. DueIds(jobs[p]) \ DueIds(Loaded) \in SUBSET JobId
      BY <2>1, DueIdsTypes DEF CronTypeOK
    <3> HIDE DEF DueIds
    <3> QED
      BY <1>2, <3>1 DEF StartCron, WatchReload, CronTypeOK
  <2> QED
    BY <1>2, <2>1, <2>2, <2>3, <2>4 DEF StartCron, WatchReload, CronTypeOK
<1>3. ASSUME NEW p \in Pid, CheckDue(p) PROVE CronTypeOK'
  <2>1. /\ cronFile' \in [there : BOOLEAN, torn : BOOLEAN, jobs : SUBSET CronJob]
        /\ changed' \in SUBSET Pid /\ unseen' \in SUBSET Pid /\ lost' \in SUBSET ({"cli", "bot"} \X Missed)
    BY <1>1, <1>3, TruncateTypes DEF CheckDue
  <2>2. /\ jobs' = [jobs EXCEPT ![p] = (jobs[p] \ Due(p)) \cup Ran(p)]
        /\ saving' = [saving EXCEPT ![p] = Ids(Due(p))]
    BY <1>3 DEF CheckDue, Due, Ran
  <2>3. /\ jobs' \in [Pid -> SUBSET CronJob] /\ saving' \in [Pid -> SUBSET JobId]
        /\ withdrawn' \in [Pid -> SUBSET JobId]
    BY <1>3, <2>2, DueTypes, ZenonT(60) DEF CheckDue, CronTypeOK
  <2> QED
    BY <1>3, <2>1, <2>3 DEF CheckDue, CronTypeOK
<1>4. ASSUME NEW p \in Pid, DispatchDue(p) PROVE CronTypeOK'
  <2>1. jobs[p] \in SUBSET CronJob /\ Fill(p, jobs[p])
    BY <1>4 DEF DispatchDue, CronTypeOK
  <2>2. /\ cronFile' \in [there : BOOLEAN, torn : BOOLEAN, jobs : SUBSET CronJob]
        /\ changed' \in SUBSET Pid /\ unseen' \in SUBSET Pid /\ behind' \in [Writer -> SUBSET Missed]
    BY <1>1, <2>1, FillTypes
  <2>3. saving' \in [Pid -> SUBSET JobId] /\ busy' \in [Pid -> SUBSET JobId] /\ owed' \in SUBSET JobId
    BY <1>4 DEF DispatchDue, CronTypeOK
  <2> QED
    BY <1>4, <2>2, <2>3 DEF DispatchDue, CronTypeOK
<1>5. ASSUME NEW p \in Pid, NEW i \in JobId, FinishJob(p, i) PROVE CronTypeOK'
  BY <1>5 DEF FinishJob, watchVars, CronTypeOK
<1>6. ASSUME NEW p \in Pid, CronEnds(p) PROVE CronTypeOK'
  <2>1. behind' \in [Writer -> SUBSET Missed] /\ lost' \in SUBSET ({"cli", "bot"} \X Missed)
    BY <1>1, <1>6 DEF CronEnds, CronTypeOK, Missed
  <2> QED
    BY <1>6, <2>1 DEF CronEnds, CronTypeOK
<1>7. CASE CliLoad
  <2>1. Loaded \in SUBSET CronJob /\ behind' \in [Writer -> SUBSET Missed]
    BY <1>1, <1>7, LoadTypes DEF CliLoad
  <2>2. cli' \in [pc : {"loaded", "saving"}, op : Command, id : JobId, jobs : SUBSET CronJob]
    BY <1>7, <2>1, CronAssumption DEF CliLoad
  <2>3. edits' \in 0..MaxEdits
    BY <1>7, CronAssumption DEF CliLoad, CronTypeOK
  <2> QED
    BY <1>7, <2>1, <2>2, <2>3 DEF CliLoad, watchVars, CronTypeOK
<1>8. CASE CliApply
  <2>1. CASE Refused
    BY <1>8, <2>1 DEF CliApply, CronTypeOK
  <2>2. CASE ~Refused
    <3>1. /\ cli \in [pc : {"loaded", "saving"}, op : Command, id : JobId, jobs : SUBSET CronJob]
          /\ Edited \in SUBSET CronJob
      BY <1>8, CommandTypes DEF CliApply
    <3>2. cli' \in [pc : {"loaded", "saving"}, op : Command, id : JobId, jobs : SUBSET CronJob]
      BY <1>8, <2>2, <3>1 DEF CliApply
    <3>3. /\ cronFile' \in [there : BOOLEAN, torn : BOOLEAN, jobs : SUBSET CronJob]
          /\ changed' \in SUBSET Pid /\ unseen' \in SUBSET Pid /\ lost' \in SUBSET ({"cli", "bot"} \X Missed)
      BY <1>1, <1>8, <2>2, TruncateTypes DEF CliApply
    <3> QED
      BY <1>8, <3>2, <3>3 DEF CliApply, CronTypeOK
  <2> QED
    BY <2>1, <2>2
<1>9. CASE CliSave
  <2>1. cli \in [pc : {"loaded", "saving"}, op : Command, id : JobId, jobs : SUBSET CronJob]
    BY <1>9, CommandTypes DEF CliSave
  <2>2. /\ cronFile' \in [there : BOOLEAN, torn : BOOLEAN, jobs : SUBSET CronJob]
        /\ changed' \in SUBSET Pid /\ unseen' \in SUBSET Pid /\ behind' \in [Writer -> SUBSET Missed]
    BY <1>1, <1>9, <2>1, FillTypes DEF CliSave
  <2>3. owed' \in SUBSET JobId
    BY <1>9, <2>1 DEF CliSave, CronTypeOK
  <2> QED
    BY <1>9, <2>2, <2>3 DEF CliSave, CronTypeOK
<1>10. CASE Tick
  BY <1>10, CronAssumption DEF Tick, watchVars, CronTypeOK
<1>11. CASE LockOnly \/ UNCHANGED vars
  BY <1>11 DEF LockOnly, vars, cronVars, watchVars, CronTypeOK
<1>12. ASSUME NEW p \in Pid, WatchCron(p) PROVE CronTypeOK'
  BY <1>12 DEF WatchCron, CronTypeOK
<1> QED
  BY <1>2, <1>3, <1>4, <1>5, <1>6, <1>7, <1>8, <1>9, <1>10, <1>11, <1>12 DEF Next, CronStep

\* The variables of the lock, the file, the schedulers and the command keep their types.
THEOREM TypeCorrect == Spec => []TypeOK
<1>1. LockTypeOK /\ CronTypeOK /\ [Next]_vars => CronTypeOK'
  BY CronTypeStep
<1> QED
  BY <1>1, CronTypeStart, LockTypeCorrect, PTL DEF Spec, TypeOK

----------------------------------------------------------------------------
(***************************************************************************)
(* The books of the one-time jobs.  As long as no write is lost, whoever   *)
(* has the file truncated is about to fill it with a list that is right,   *)
(* and whoever has not missed a write holds what the file holds.           *)
(***************************************************************************)
Saves(w)  == IF w = "cli" THEN cli.pc = "saving" ELSE saving[w] # {}
ListOf(w) == IF w = "cli" THEN cli.jobs ELSE jobs[w]

OneTimeIds(js) == {i \in Ids(js) : Schedule[i].one_time}

\* What is owed once the command, or the instance p, has saved its list.
OwedAfterCommand ==
  CASE cli.op = "add" /\ Schedule[cli.id].one_time -> owed \cup {cli.id}
    [] cli.op = "remove" -> owed \ {cli.id}
    [] OTHER -> owed
OwedAfter(w) == IF w = "cli" THEN OwedAfterCommand ELSE owed \ saving[w]

\* A list has a job once.
UniqueIds(js) == \A j, k \in js : j.id = k.id => j = k

ListsUnique ==
  /\ UniqueIds(cronFile.jobs)
  /\ ~cronFile.there => cronFile.jobs = {}
  /\ \A p \in Pid : UniqueIds(jobs[p])
  /\ cli # Idle => UniqueIds(cli.jobs)

\* A process that saves does not start again before it has.
SaversStay == \A p \in Pid : saving[p] # {} => phase[p] \in {"up", "stopping", "gone"}

OneSaves ==
  /\ cronFile.torn <=> \E w \in Writer : Saves(w)
  /\ \A v, w \in Writer : Saves(v) /\ Saves(w) => v = w

SaversKeepBooks == \A w \in Writer : Saves(w) => OneTimeIds(ListOf(w)) = OwedAfter(w)

FileKeepsBooks == ~cronFile.torn => OneTimeIds(cronFile.jobs) = owed

ReadersHoldFile ==
  ~cronFile.torn => \A w \in Writer : HasList(w) /\ behind[w] = {} => ListOf(w) = cronFile.jobs

Books == OneSaves /\ SaversKeepBooks /\ FileKeepsBooks /\ ReadersHoldFile

LedgerInv == ListsUnique /\ SaversStay /\ (lost = {} => Books)

LEMMA BooksAreTheLedger == LedgerInv => LedgerKept
BY DEF LedgerInv, Books, FileKeepsBooks, LedgerKept, OneTimeIds

\* get_due_jobs takes out the one-time jobs that are due, and those alone.
LEMMA DueBooks ==
  ASSUME CronTypeOK, NEW p \in Pid, UniqueIds(jobs[p])
  PROVE  LET js == (jobs[p] \ Due(p)) \cup Ran(p)
         IN  UniqueIds(js) /\ OneTimeIds(js) = OneTimeIds(jobs[p]) \ Ids(Due(p))
<1> DEFINE js == (jobs[p] \ Due(p)) \cup Ran(p)
<1>1. Due(p) \subseteq jobs[p] /\ jobs[p] \subseteq CronJob
  BY DEF Due, CronTypeOK
<1>2. \A j \in Ran(p) : \E d \in Due(p) : j = [d EXCEPT !.last_run = clock] /\ j.id = d.id /\ ~Schedule[d.id].one_time
  BY <1>1 DEF Ran, one_time, CronJob
<1>3. \A d \in Due(p) : Schedule[d.id].one_time \/ [d EXCEPT !.last_run = clock] \in Ran(p)
  BY <1>1 DEF Ran, one_time
<1>4. UniqueIds(js)
  BY <1>1, <1>2 DEF UniqueIds
<1>5. ASSUME NEW i \in OneTimeIds(js) PROVE i \in OneTimeIds(jobs[p]) \ Ids(Due(p))
  <2>1. PICK j \in js : j.id = i /\ Schedule[i].one_time
    BY <1>5 DEF OneTimeIds, Ids
  <2>2. j \in jobs[p] \ Due(p)
    BY <1>2, <2>1
  <2> QED
    BY <1>1, <2>1, <2>2 DEF OneTimeIds, Ids, UniqueIds
<1>6. ASSUME NEW i \in OneTimeIds(jobs[p]) \ Ids(Due(p)) PROVE i \in OneTimeIds(js)
  BY <1>6 DEF OneTimeIds, Ids
<1> QED
  BY <1>4, <1>5, <1>6

\* The command adds or removes the job it is about, or leaves the jobs as they are.
LEMMA EditedBooks ==
  ASSUME CronTypeOK, cli.pc = "loaded", ~Refused, UniqueIds(cli.jobs)
  PROVE  /\ UniqueIds(Edited)
         /\ OneTimeIds(cli.jobs) = owed => OneTimeIds(Edited) = OwedAfterCommand
<1>1. cli \in [pc : {"loaded", "saving"}, op : Command, id : JobId, jobs : SUBSET CronJob]
  BY CommandTypes
<1>2. cli.op \in Command /\ cli.id \in JobId /\ cli.jobs \subseteq CronJob
  BY <1>1
<1> DEFINE mine == {j \in cli.jobs : j.id = cli.id}
           Set(b) == (cli.jobs \ mine) \cup {[j EXCEPT !.enabled = b] : j \in mine}
<1>3. CASE cli.op = "add"
  <2>1. Edited = cli.jobs \cup {NewJob(cli.id)} /\ NewJob(cli.id).id = cli.id
    BY <1>3 DEF Edited, NewJob
  <2>2. cli.id \notin Ids(cli.jobs)
    BY <1>3 DEF Refused
  <2>3. UniqueIds(Edited)
    BY <2>1, <2>2 DEF UniqueIds, Ids
  <2>4. OneTimeIds(Edited) = OneTimeIds(cli.jobs) \cup (IF Schedule[cli.id].one_time THEN {cli.id} ELSE {})
    BY <2>1 DEF OneTimeIds, Ids
  <2>5. OwedAfterCommand = owed \cup (IF Schedule[cli.id].one_time THEN {cli.id} ELSE {})
    BY <1>3 DEF OwedAfterCommand
  <2> QED
    BY <2>3, <2>4, <2>5
<1>4. CASE cli.op = "remove"
  <2>1. Edited = cli.jobs \ mine
    BY <1>4 DEF Edited
  <2>2. OneTimeIds(Edited) = OneTimeIds(cli.jobs) \ {cli.id}
    BY <2>1 DEF OneTimeIds, Ids
  <2>3. OwedAfterCommand = owed \ {cli.id}
    BY <1>4 DEF OwedAfterCommand
  <2>4. UniqueIds(Edited)
    BY <2>1 DEF UniqueIds
  <2> QED
    BY <2>2, <2>3, <2>4
<1>5. ASSUME NEW b \in BOOLEAN
      PROVE  UniqueIds(Set(b)) /\ Ids(Set(b)) = Ids(cli.jobs)
  <2>1. \A j \in mine : j \in CronJob /\ [j EXCEPT !.enabled = b].id = cli.id
    BY <1>2 DEF CronJob
  <2>2. \A x \in Set(b) : \/ x \in cli.jobs /\ x.id # cli.id
                         \/ \E j \in mine : x = [j EXCEPT !.enabled = b] /\ x.id = cli.id
    BY <2>1
  <2>3. \A j \in cli.jobs : IF j.id = cli.id THEN [j EXCEPT !.enabled = b] \in Set(b) ELSE j \in Set(b)
    OBVIOUS
  <2>4. \A j, k \in mine : j = k
    BY DEF UniqueIds
  <2> HIDE DEF Set
  <2>5. Ids(Set(b)) = Ids(cli.jobs)
    <3>1. \A j \in cli.jobs : \E x \in Set(b) : x.id = j.id
      BY <2>1, <2>3
    <3>2. \A x \in Set(b) : \E j \in cli.jobs : j.id = x.id
      BY <2>2
    <3> QED
      BY <3>1, <3>2, ZenonT(60) DEF Ids
  <2>6. UniqueIds(Set(b))
    BY <2>2, <2>4 DEF UniqueIds
  <2> QED
    BY <2>5, <2>6
<1>6. CASE cli.op = "enable" \/ cli.op = "disable"
  <2>1. Edited = Set(TRUE) \/ Edited = Set(FALSE)
    BY <1>6 DEF Edited
  <2>2. OwedAfterCommand = owed
    BY <1>6 DEF OwedAfterCommand
  <2>3. UniqueIds(Edited) /\ Ids(Edited) = Ids(cli.jobs)
    BY <1>5, <2>1
  <2> QED
    BY <2>2, <2>3 DEF OneTimeIds
<1> QED
  BY <1>2, <1>3, <1>4, <1>6 DEF Command

LEMMA LedgerStart == Init => LedgerInv
<1> SUFFICES ASSUME Init PROVE LedgerInv
  OBVIOUS
<1>1. PICK b \in BOOLEAN, S \in SUBSET JobId :
        /\ S # {} => b
        /\ cronFile = [there |-> b, torn |-> FALSE, jobs |-> {NewJob(i) : i \in S}]
        /\ owed = {i \in S : Schedule[i].one_time}
  BY DEF Init
<1>2. /\ \A i \in S : NewJob(i) \in cronFile.jobs /\ NewJob(i).id = i
      /\ \A j \in cronFile.jobs : \E i \in S : j = NewJob(i) /\ j.id = i
  <2>1. \A i \in S : NewJob(i).id = i
    BY DEF NewJob
  <2>2. cronFile.jobs = {NewJob(i) : i \in S}
    BY <1>1
  <2> QED
    BY <2>1, <2>2
<1>3. ListsUnique
  BY <1>1, <1>2 DEF Init, ListsUnique, UniqueIds
<1>4. SaversStay /\ OneSaves /\ SaversKeepBooks
  BY <1>1, CronAssumption DEF Init, SaversStay, OneSaves, SaversKeepBooks, Saves, Idle, Writer
<1>5. Ids(cronFile.jobs) = S
  BY <1>2 DEF Ids
<1>6. FileKeepsBooks
  BY <1>1, <1>5 DEF FileKeepsBooks, OneTimeIds
<1>7. ReadersHoldFile
  BY DEF Init, LockInit, ReadersHoldFile, HasList, Writer
<1> QED
  BY <1>3, <1>4, <1>6, <1>7 DEF LedgerInv, Books

\* A lost write stays lost.
LEMMA LostForGood == [Next]_vars /\ lost' = {} => lost = {}
<1>1. ASSUME NEW w, Truncate(w), lost' = {} PROVE lost = {}
  BY <1>1 DEF Truncate
<1> QED
  BY <1>1 DEF Next, vars, LockOnly, cronVars, CronStep, StartCron, WatchCron, CheckDue, DispatchDue,
              WatchReload, FinishJob, CronEnds, CliLoad, CliApply, CliSave, Tick

LEMMA UniqueStep == CronTypeOK /\ ListsUnique /\ [Next]_vars => ListsUnique'
<1> SUFFICES ASSUME CronTypeOK, ListsUnique, [Next]_vars PROVE ListsUnique'
  OBVIOUS
<1>1. UniqueIds({}) /\ UniqueIds(Loaded)
  BY DEF UniqueIds, ListsUnique, Loaded
<1>2. ASSUME NEW p \in Pid, StartCron(p) \/ WatchReload(p) PROVE ListsUnique'
  BY <1>1, <1>2 DEF StartCron, WatchReload, ListsUnique, CronTypeOK
<1>3. ASSUME NEW p \in Pid, CheckDue(p) PROVE ListsUnique'
  <2>1. jobs' = [jobs EXCEPT ![p] = (jobs[p] \ Due(p)) \cup Ran(p)]
    BY <1>3 DEF CheckDue, Due, Ran
  <2>2. UniqueIds(jobs'[p])
    BY <2>1, DueBooks DEF ListsUnique, CronTypeOK
  <2>3. cronFile'.jobs = {} /\ cli' = cli
    BY <1>3 DEF CheckDue, Truncate
  <2> QED
    BY <1>1, <2>1, <2>2, <2>3 DEF ListsUnique, CronTypeOK
<1>4. ASSUME NEW p \in Pid, DispatchDue(p) PROVE ListsUnique'
  BY <1>4 DEF DispatchDue, Fill, ListsUnique
<1>5. ASSUME NEW p \in Pid, CronEnds(p) PROVE ListsUnique'
  BY <1>1, <1>5 DEF CronEnds, ListsUnique, CronTypeOK
<1>6. CASE CliLoad
  BY <1>1, <1>6 DEF CliLoad, ListsUnique
<1>7. CASE CliApply
  <2>1. CASE Refused
    BY <1>7, <2>1 DEF CliApply, ListsUnique
  <2>2. CASE ~Refused
    <3>1. cli \in [pc : {"loaded", "saving"}, op : Command, id : JobId, jobs : SUBSET CronJob] /\ cli # Idle
      BY <1>7, CommandTypes DEF CliApply
    <3>2. UniqueIds(Edited)
      BY <1>7, <2>2, <3>1, EditedBooks DEF CliApply, ListsUnique
    <3>3. cli'.jobs = Edited /\ cronFile'.jobs = {} /\ cronFile'.there /\ jobs' = jobs
      <4>1. cli' = [cli EXCEPT !.pc = "saving", !.jobs = Edited] /\ Truncate("cli") /\ jobs' = jobs
        BY <1>7, <2>2 DEF CliApply
      <4>2. cli'.jobs = Edited
        BY <3>1, <4>1
      <4> QED
        BY <4>1, <4>2 DEF Truncate
    <3> QED
      BY <1>1, <3>2, <3>3 DEF ListsUnique
  <2> QED
    BY <2>1, <2>2
<1>8. CASE CliSave
  <2>1. cli # Idle
    BY <1>8 DEF CliSave, Idle
  <2> QED
    BY <1>8, <2>1 DEF CliSave, Fill, ListsUnique
<1>9. CASE \/ LockOnly \/ Tick \/ UNCHANGED vars
           \/ \E p \in Pid : WatchCron(p) \/ \E i \in JobId : FinishJob(p, i)
  BY <1>9 DEF LockOnly, Tick, WatchCron, FinishJob, vars, cronVars, ListsUnique
<1> QED
  BY <1>2, <1>3, <1>4, <1>5, <1>6, <1>7, <1>8, <1>9 DEF Next, CronStep

LEMMA SaversStep == LockTypeOK /\ CronTypeOK /\ SaversStay /\ [Next]_vars => SaversStay'
<1> SUFFICES ASSUME LockTypeOK, CronTypeOK, SaversStay, [Next]_vars PROVE SaversStay'
  OBVIOUS
<1>1. CASE LockOnly
  <2>1. ASSUME NEW p \in Pid, phase[p] \in {"up", "stopping", "gone"} PROVE phase'[p] \in {"up", "stopping", "gone"}
    BY <1>1, <2>1 DEF LockOnly, LockTypeOK, ReadLock, WriteLock, FindRunningInstance, UnlinkStale, SendHangup, OnHangup
  <2> QED
    BY <1>1, <2>1 DEF LockOnly, cronVars, SaversStay
<1>2. ASSUME NEW p \in Pid, StartCron(p) PROVE SaversStay'
  BY <1>2 DEF StartCron, OpenSignalReceiver, SaversStay, LockTypeOK
<1>3. ASSUME NEW p \in Pid, CheckDue(p) PROVE SaversStay'
  BY <1>3 DEF CheckDue, Running, SaversStay, CronTypeOK, lockVars
<1>4. ASSUME NEW p \in Pid, DispatchDue(p) PROVE SaversStay'
  BY <1>4 DEF DispatchDue, SaversStay, CronTypeOK, lockVars
<1>5. ASSUME NEW p \in Pid, CronEnds(p) PROVE SaversStay'
  BY <1>5 DEF CronEnds, Ends, Stop, ExecRestart, Kill, SaversStay, LockTypeOK, CronTypeOK
<1>6. CASE CliLoad \/ CliApply \/ CliSave \/ Tick \/ UNCHANGED vars
  BY <1>6 DEF CliLoad, CliApply, CliSave, Tick, vars, cronVars, lockVars, SaversStay
<1>7. ASSUME NEW p \in Pid, WatchCron(p) \/ WatchReload(p) \/ \E i \in JobId : FinishJob(p, i)
      PROVE SaversStay'
  BY <1>7 DEF WatchCron, WatchReload, FinishJob, lockVars, SaversStay
<1> QED
  BY <1>1, <1>2, <1>3, <1>4, <1>5, <1>6, <1>7 DEF Next, CronStep

LEMMA TruncatesInTime ==
  ASSUME NEW w \in Writer, Truncate(w), lost' = {}
  PROVE  lost = {} /\ ~cronFile.torn /\ behind[w] = {} /\ cronFile'.torn
<1>1. lost \subseteq lost' /\ ({Kind(w)} \X behind[w]) \subseteq lost' /\ (cronFile.torn => <<Kind(w), "torn">> \in lost')
  BY DEF Truncate
<1>2. ASSUME NEW x \in behind[w] PROVE FALSE
  <2>1. <<Kind(w), x>> \in {Kind(w)} \X behind[w]
    BY <1>2
  <2> QED
    BY <1>1, <2>1
<1> QED
  BY <1>1, <1>2 DEF Truncate

\* What does not touch the lists and the file leaves the books as they are.
LEMMA BooksStand ==
  ASSUME Books, UNCHANGED <<cronFile, jobs, saving, cli, behind, owed>>,
         \A w \in Writer : HasList(w)' => HasList(w)
  PROVE  Books'
BY DEF Books, OneSaves, SaversKeepBooks, FileKeepsBooks, ReadersHoldFile, Saves, ListOf, OwedAfter,
       OwedAfterCommand, OneTimeIds, Ids

\* A load: whoever loads does not save, and holds what the file holds.
LEMMA LoadBooks ==
  ASSUME LockTypeOK, CronTypeOK, ListsUnique, Books, NEW p \in Pid, StartCron(p) \/ WatchReload(p),
         saving[p] = {}
  PROVE  Books'
<1>1. /\ jobs' = [jobs EXCEPT ![p] = Loaded] /\ LoadedBy(p)
      /\ UNCHANGED <<cronFile, saving, cli, owed>>
      /\ \A w \in Writer : w # p => (HasList(w)' <=> HasList(w))
  BY DEF StartCron, WatchReload, OpenSignalReceiver, lockVars, HasList, LockTypeOK, Writer
<1>2. \A w \in Writer : Saves(w)' <=> Saves(w)
  BY <1>1 DEF Saves
<1>3. p \in Writer /\ p # "cli" /\ ~Saves(p)
  BY CronAssumption DEF Saves, Writer
<1>4. \A w \in Writer : w # p => ListOf(w)' = ListOf(w)
  BY <1>1 DEF ListOf, CronTypeOK, Writer
<1>5. \A w \in Writer : OwedAfter(w)' = OwedAfter(w)
  BY <1>1 DEF OwedAfter, OwedAfterCommand
<1>6. OneSaves'
  BY <1>1, <1>2 DEF Books, OneSaves
<1>7. SaversKeepBooks'
  BY <1>2, <1>3, <1>4, <1>5 DEF Books, SaversKeepBooks, OneTimeIds, Ids
<1>8. FileKeepsBooks'
  BY <1>1 DEF Books, FileKeepsBooks, OneTimeIds, Ids
<1>9. ReadersHoldFile'
  <2> SUFFICES ASSUME ~cronFile.torn, NEW w \in Writer, HasList(w)', behind'[w] = {}
               PROVE  ListOf(w)' = cronFile.jobs
    BY <1>1 DEF ReadersHoldFile
  <2>1. CASE w = p
    BY <1>1, <1>3, <2>1 DEF ListOf, Loaded, ListsUnique, CronTypeOK
  <2>2. CASE w # p
    <3>1. behind[w] = {}
      BY <1>1, <2>2 DEF LoadedBy, CronTypeOK
    <3> QED
      BY <1>1, <1>4, <2>2, <3>1 DEF Books, ReadersHoldFile
  <2> QED
    BY <2>1, <2>2
<1> QED
  BY <1>6, <1>7, <1>8, <1>9 DEF Books

\* A scheduler begins to save: it is alone, and its list was the file's.
LEMMA DueKeepsBooks ==
  ASSUME CronTypeOK, ListsUnique, lost = {} => Books, NEW p \in Pid, CheckDue(p), lost' = {}
  PROVE  Books'
<1>1. p \in Writer /\ p # "cli"
  BY CronAssumption DEF Writer
<1>2. lost = {} /\ ~cronFile.torn /\ behind[p] = {} /\ cronFile'.torn
  BY <1>1, TruncatesInTime DEF CheckDue
<1>3. /\ jobs' = [jobs EXCEPT ![p] = (jobs[p] \ Due(p)) \cup Ran(p)]
      /\ saving' = [saving EXCEPT ![p] = Ids(Due(p))]
      /\ Due(p) # {} /\ cli' = cli /\ owed' = owed /\ HasList(p)
  BY <1>1 DEF CheckDue, Due, Ran, Running, HasList
<1>4. OneTimeIds(jobs[p]) = owed
  BY <1>1, <1>2, <1>3 DEF Books, FileKeepsBooks, ReadersHoldFile, ListOf
<1>5. \A w \in Writer : ~Saves(w)
  BY <1>2 DEF Books, OneSaves
<1>6. \A w \in Writer : Saves(w)' <=> w = p
  <2>1. Ids(Due(p)) # {}
    BY <1>3 DEF Ids
  <2> QED
    BY <1>1, <1>3, <1>5, <2>1 DEF Saves, CronTypeOK, Writer
<1>7. OneTimeIds(jobs'[p]) = owed \ saving'[p]
  BY <1>3, <1>4, DueBooks DEF ListsUnique, CronTypeOK
<1>8. OneSaves'
  BY <1>1, <1>2, <1>6 DEF OneSaves
<1>9. SaversKeepBooks'
  BY <1>1, <1>3, <1>6, <1>7 DEF SaversKeepBooks, ListOf, OwedAfter, OneTimeIds, Ids
<1> QED
  BY <1>2, <1>8, <1>9 DEF Books, FileKeepsBooks, ReadersHoldFile

\* Whoever has the file truncated fills it with its list, and all others have missed that.
LEMMA FillBooks ==
  ASSUME CronTypeOK, Books, NEW w \in Writer, Saves(w), Fill(w, ListOf(w)), owed' = OwedAfter(w),
         ListOf(w)' = ListOf(w) \/ (w = "cli" /\ cli' = Idle),
         \A v \in Writer : Saves(v)' <=> Saves(v) /\ v # w,
         \A v \in Writer : HasList(v)' => HasList(v) /\ ~(v = "cli" /\ cli' = Idle)
  PROVE  Books'
<1>1. \A v \in Writer : ~Saves(v)'
  BY DEF Books, OneSaves
<1>2. cronFile'.jobs = ListOf(w) /\ ~cronFile'.torn
  BY DEF Fill
<1>3. OneSaves' /\ SaversKeepBooks'
  BY <1>1, <1>2 DEF OneSaves, SaversKeepBooks
<1>4. OneTimeIds(ListOf(w)) = owed'
  BY DEF Books, SaversKeepBooks
<1>5. FileKeepsBooks'
  BY <1>2, <1>4 DEF FileKeepsBooks, OneTimeIds, Ids
<1>6. ReadersHoldFile'
  <2> SUFFICES ASSUME NEW v \in Writer, HasList(v)', behind'[v] = {}
               PROVE  ListOf(v)' = cronFile'.jobs
    BY DEF ReadersHoldFile
  <2>1. v = w
    BY DEF Fill
  <2> QED
    BY <1>2, <2>1
<1> QED
  BY <1>3, <1>5, <1>6 DEF Books

LEMMA BooksStep ==
  ASSUME LockTypeOK, CronTypeOK, LedgerInv, [Next]_vars, lost' = {}
  PROVE  Books'
<1>1. lost = {} /\ Books
  BY LostForGood DEF LedgerInv
<1>2. CASE LockOnly
  <2>1. ASSUME NEW p \in Pid, phase'[p] \in {"up", "stopping"} PROVE phase[p] \in {"up", "stopping"}
    BY <1>2, <2>1 DEF LockOnly, LockTypeOK, ReadLock, WriteLock, FindRunningInstance, UnlinkStale, SendHangup, OnHangup
  <2>2. \A w \in Writer : HasList(w)' => HasList(w)
    BY <1>2, <2>1 DEF HasList, LockOnly, cronVars, Writer
  <2> QED
    BY <1>1, <1>2, <2>2, BooksStand DEF LockOnly, cronVars
<1>3. ASSUME NEW p \in Pid, StartCron(p) \/ WatchReload(p) PROVE Books'
  <2>1. saving[p] = {}
    BY <1>3 DEF StartCron, OpenSignalReceiver, WatchReload, Running, LedgerInv, SaversStay
  <2> QED
    BY <1>1, <1>3, <2>1, LoadBooks DEF LedgerInv
<1>4. ASSUME NEW p \in Pid, CheckDue(p) PROVE Books'
  BY <1>4, DueKeepsBooks DEF LedgerInv
<1>5. ASSUME NEW p \in Pid, DispatchDue(p) PROVE Books'
  <2>1. p \in Writer /\ p # "cli"
    BY CronAssumption DEF Writer
  <2>2. Saves(p) /\ Fill(p, ListOf(p)) /\ owed' = OwedAfter(p) /\ ListOf(p)' = ListOf(p) /\ cli' = cli
    BY <1>5, <2>1 DEF DispatchDue, Saves, ListOf, OwedAfter
  <2>3. \A v \in Writer : Saves(v)' <=> Saves(v) /\ v # p
    BY <1>5, <2>1, <2>2 DEF DispatchDue, Saves, CronTypeOK, Writer
  <2>4. \A v \in Writer : HasList(v)' => HasList(v) /\ ~(v = "cli" /\ cli' = Idle)
    BY <1>5, <2>2 DEF DispatchDue, HasList, lockVars
  <2> QED
    BY <1>1, <2>1, <2>2, <2>3, <2>4, FillBooks
<1>6. ASSUME NEW p \in Pid, CronEnds(p) PROVE Books'
  <2>1. saving[p] = {}
    BY <1>6 DEF CronEnds
  <2>2. /\ saving' = saving /\ jobs' = [jobs EXCEPT ![p] = {}] /\ behind' = [behind EXCEPT ![p] = {}]
        /\ UNCHANGED <<cronFile, cli, owed>>
    BY <1>6, <2>1 DEF CronEnds, CronTypeOK
  <2>3. ~HasList(p)' /\ \A w \in Writer : w # p => (HasList(w)' <=> HasList(w))
    BY <1>6, CronAssumption DEF CronEnds, Ends, Stop, ExecRestart, Kill, HasList, LockTypeOK, Writer
  <2>4. p \in Writer /\ p # "cli" /\ ~Saves(p)
    BY <2>1, CronAssumption DEF Saves, Writer
  <2>5. \A w \in Writer : (Saves(w)' <=> Saves(w)) /\ OwedAfter(w)' = OwedAfter(w)
    BY <2>2 DEF Saves, OwedAfter, OwedAfterCommand
  <2>6. \A w \in Writer : w # p => ListOf(w)' = ListOf(w) /\ behind'[w] = behind[w]
    BY <2>2 DEF ListOf, CronTypeOK, Writer
  <2>7. OneSaves' /\ FileKeepsBooks'
    BY <1>1, <2>2, <2>5 DEF Books, OneSaves, FileKeepsBooks, OneTimeIds, Ids
  <2>8. SaversKeepBooks'
    BY <1>1, <2>4, <2>5, <2>6 DEF Books, SaversKeepBooks, OneTimeIds, Ids
  <2>9. ReadersHoldFile'
    BY <1>1, <2>2, <2>3, <2>6 DEF Books, ReadersHoldFile
  <2> QED
    BY <2>7, <2>8, <2>9 DEF Books
<1>7. CASE CliLoad
  <2>1. /\ cli.pc = "idle" /\ cli'.pc = "loaded" /\ cli'.jobs = Loaded /\ LoadedBy("cli")
        /\ UNCHANGED <<lockVars, cronFile, jobs, saving, owed>>
    BY <1>7 DEF CliLoad
  <2>2. \A w \in Writer : (Saves(w)' <=> Saves(w)) /\ (Saves(w) => w # "cli")
    BY <2>1 DEF Saves
  <2>3. \A w \in Writer : w # "cli" => ListOf(w)' = ListOf(w) /\ OwedAfter(w)' = OwedAfter(w)
                                       /\ (HasList(w)' <=> HasList(w)) /\ behind'[w] = behind[w]
    BY <2>1 DEF ListOf, OwedAfter, HasList, lockVars, LoadedBy, CronTypeOK
  <2>4. OneSaves' /\ FileKeepsBooks'
    BY <1>1, <2>1, <2>2 DEF Books, OneSaves, FileKeepsBooks, OneTimeIds, Ids
  <2>5. SaversKeepBooks'
    BY <1>1, <2>2, <2>3 DEF Books, SaversKeepBooks, OneTimeIds, Ids
  <2>6. ReadersHoldFile'
    <3>1. ~cronFile.torn => ListOf("cli")' = cronFile.jobs
      BY <2>1 DEF ListOf, Loaded, LedgerInv, ListsUnique
    <3> QED
      BY <1>1, <2>1, <2>3, <3>1 DEF Books, ReadersHoldFile
  <2> QED
    BY <2>4, <2>5, <2>6 DEF Books
<1>8. CASE CliApply
  <2>1. CASE Refused
    <3>1. /\ cli.pc = "loaded" /\ cli' = Idle
          /\ UNCHANGED <<lockVars, cronFile, jobs, saving, owed, behind>>
      BY <1>8, <2>1 DEF CliApply
    <3>2. \A w \in Writer : (Saves(w)' <=> Saves(w)) /\ (Saves(w) => w # "cli")
      BY <3>1 DEF Saves, Idle
    <3>3. \A w \in Writer : w # "cli" => ListOf(w)' = ListOf(w) /\ OwedAfter(w)' = OwedAfter(w)
                                         /\ (HasList(w)' <=> HasList(w))
      BY <3>1 DEF ListOf, OwedAfter, HasList, lockVars
    <3>4. ~HasList("cli")'
      BY <3>1 DEF HasList
    <3>5. OneSaves' /\ FileKeepsBooks'
      BY <1>1, <3>1, <3>2 DEF Books, OneSaves, FileKeepsBooks, OneTimeIds, Ids
    <3>6. SaversKeepBooks'
      BY <1>1, <3>2, <3>3 DEF Books, SaversKeepBooks, OneTimeIds, Ids
    <3>7. ReadersHoldFile'
      BY <1>1, <3>1, <3>3, <3>4 DEF Books, ReadersHoldFile
    <3> QED
      BY <3>5, <3>6, <3>7 DEF Books
  <2>2. CASE ~Refused
    <3>1. /\ cli' = [cli EXCEPT !.pc = "saving", !.jobs = Edited] /\ Truncate("cli") /\ cli.pc = "loaded"
          /\ UNCHANGED <<lockVars, jobs, saving, owed>>
      BY <1>8, <2>2 DEF CliApply
    <3>2. "cli" \in Writer /\ "cli" \notin Pid
      BY CronAssumption DEF Writer
    <3>3. ~cronFile.torn /\ behind["cli"] = {} /\ cronFile'.torn
      BY <3>1, <3>2, TruncatesInTime
    <3>4. /\ cli \in [pc : {"loaded", "saving"}, op : Command, id : JobId, jobs : SUBSET CronJob]
          /\ cli # Idle
      BY <3>1, CommandTypes
    <3>5. OneTimeIds(cli.jobs) = owed
      BY <1>1, <3>2, <3>3, <3>4 DEF Books, FileKeepsBooks, ReadersHoldFile, ListOf, HasList
    <3>6. OneTimeIds(Edited) = OwedAfterCommand
      BY <2>2, <3>1, <3>4, <3>5, EditedBooks DEF LedgerInv, ListsUnique
    <3>7. cli'.pc = "saving" /\ cli'.jobs = Edited /\ cli'.op = cli.op /\ cli'.id = cli.id
      BY <3>1, <3>4
    <3>8. \A w \in Writer : Saves(w)' <=> w = "cli"
      BY <1>1, <3>1, <3>3, <3>7 DEF Books, OneSaves, Saves
    <3>9. OwedAfterCommand' = OwedAfterCommand
      BY <3>1, <3>7 DEF OwedAfterCommand
    <3>10. OneSaves' /\ SaversKeepBooks'
      BY <3>2, <3>3, <3>6, <3>7, <3>8, <3>9 DEF OneSaves, SaversKeepBooks, ListOf, OwedAfter, OneTimeIds, Ids
    <3> QED
      BY <3>3, <3>10 DEF Books, FileKeepsBooks, ReadersHoldFile
  <2> QED
    BY <2>1, <2>2
<1>9. CASE CliSave
  <2>1. /\ cli.pc = "saving" /\ cli' = Idle /\ Fill("cli", cli.jobs) /\ owed' = OwedAfterCommand
        /\ UNCHANGED <<lockVars, jobs, saving>>
    BY <1>9 DEF CliSave, OwedAfterCommand
  <2>2. "cli" \in Writer /\ Saves("cli") /\ ListOf("cli") = cli.jobs /\ OwedAfter("cli") = OwedAfterCommand
    BY <2>1 DEF Writer, Saves, ListOf, OwedAfter
  <2>3. \A v \in Writer : Saves(v)' <=> Saves(v) /\ v # "cli"
    BY <2>1 DEF Saves, Idle
  <2>4. \A v \in Writer : HasList(v)' => HasList(v) /\ ~(v = "cli" /\ cli' = Idle)
    BY <2>1 DEF HasList, lockVars
  <2> QED
    BY <1>1, <2>1, <2>2, <2>3, <2>4, FillBooks
<1>10. CASE \/ Tick \/ UNCHANGED vars
            \/ \E p \in Pid : WatchCron(p) \/ \E i \in JobId : FinishJob(p, i)
  <2>1. UNCHANGED <<lockVars, cronFile, jobs, saving, cli, behind, owed>>
    BY <1>10 DEF Tick, WatchCron, FinishJob, vars, cronVars
  <2>2. \A w \in Writer : HasList(w)' => HasList(w)
    BY <2>1 DEF HasList, lockVars
  <2> QED
    BY <1>1, <2>1, <2>2, BooksStand
<1> QED
  BY <1>2, <1>3, <1>4, <1>5, <1>6, <1>7, <1>8, <1>9, <1>10 DEF Next, CronStep

\* The command line and any number of schedulers keep every one-time job in the file from
\* its addition until it fires or is removed, as long as no write of the whole file is
\* lost (manager.py:77-78, 139-189).
THEOREM OneTimeJobsAreKept == Spec => []LedgerKept
<1>1. TypeOK /\ LedgerInv /\ [Next]_vars => LedgerInv'
  BY UniqueStep, SaversStep, BooksStep DEF TypeOK, LedgerInv
<1> QED
  BY <1>1, TypeCorrect, LedgerStart, BooksAreTheLedger, PTL DEF Spec

===============================================================================
