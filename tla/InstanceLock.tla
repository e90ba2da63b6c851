----------------------------- MODULE InstanceLock ------------------------------
(***************************************************************************)
(* The processes of a bot and the lock file that keeps them apart          *)
(* (lockfile.py; cli/run.py: _run_auto_router; cli/reload.py).             *)
(*                                                                         *)
(* The file is read, judged and written in separate steps, by processes    *)
(* that start, restart themselves (`yee88 reload` makes an instance exec   *)
(* itself under its own pid), stop and crash at any time.  A process that  *)
(* is gone does not come back: a later start has a pid of its own.         *)
(***************************************************************************)
EXTENDS Naturals

CONSTANTS
  Pid,      \* the processes that are ever started
  Token,    \* fingerprints of the bot tokens that the configuration may hold
  NoLock,   \* the lock file does not exist
  MaxFaults \* bound: kills, failed releases and `yee88 reload` commands

ASSUME LockAssumption ==
  NoLock \notin [pid : Pid, token_fingerprint : Token] /\ MaxFaults \in Nat

VARIABLES
  lockFile,   \* NoLock or [pid, token_fingerprint]
  phase,      \* process -> how far it has come
  token,      \* process -> the fingerprint of its bot token
  saw,        \* process -> the lock file as its start read it, until it writes
  reload_requested, \* processes whose signal handler set the flag
  faults,     \* kills, failed releases and reload commands so far
  reloader,   \* the `yee88 reload` command: its step and the pid it found
  raced,      \* history: somebody changed a lock file it had not read
  takenOver   \* history: the lock of a process that ran was replaced,
              \* as its token differs

lockVars ==
  <<lockFile, phase, token, saw, reload_requested, faults, reloader, raced,
    takenOver>>

\* No command runs.
Idle == [pc |-> "idle"]

LockInfo == [pid : Pid, token_fingerprint : Token]

\* booting: replaced by exec.  cleared: the lock may be taken.  starting: it is
\* written.  up: the signal receiver of the main loop is open.  stopping: the
\* loop was told to end.
Phase   == {"unborn", "booting", "cleared", "starting", "up", "stopping", "gone"}
Holding == {"starting", "up", "stopping"}

LockTypeOK ==
  /\ lockFile \in LockInfo \cup {NoLock}
  /\ phase \in [Pid -> Phase]
  /\ token \in [Pid -> Token]
  /\ saw \in [Pid -> LockInfo \cup {NoLock}]
  /\ reload_requested \in SUBSET Pid
  /\ reloader \in [pc : {"stale", "live"}, pid : Pid] \cup {Idle}
  /\ faults \in 0..MaxFaults
  /\ raced \in BOOLEAN /\ takenOver \in BOOLEAN

\* Something that happens now and then.
OneMoreFault == faults < MaxFaults /\ faults' = faults + 1

\* Mutant of _pid_running: a process counts only once its loop runs.
PidInLoop(p) == phase[p] = "up"

_pid_running(p) == phase[p] \notin {"unborn", "gone"}

------------------------------------------------------------------------------
(* Starting. *)

\* Mutant of AlreadyRunning: the fingerprints are compared the wrong way round.
OtherRunning(t) ==
  /\ lockFile # NoLock
  /\ lockFile.token_fingerprint # t
  /\ _pid_running(lockFile.pid)

\* A lock of the same bot whose process runs; a file that cannot be read, and
\* one that is no JSON object, counts as absent.  Every start writes the
\* fingerprint of its token, which the settings require not to be empty
\* (settings.py:107, cli/run.py:297-301): a lock without one, which would count
\* as the same bot's, is never written.
AlreadyRunning(t) ==
  /\ lockFile # NoLock
  /\ lockFile.token_fingerprint = t
  /\ _pid_running(lockFile.pid)

\* A process reads the configuration, which may name another bot than before,
\* and the lock file; it gives up, or goes on to write a lock of its own.
ReadLock(p) ==
  /\ phase[p] \in {"unborn", "booting"}
  /\ \E t \in Token :
       /\ token' = [token EXCEPT ![p] = t]
       /\ IF AlreadyRunning(t)
          THEN phase' = [phase EXCEPT ![p] = "gone"] /\ UNCHANGED saw
          ELSE /\ phase' = [phase EXCEPT ![p] = "cleared"]
               /\ saw' = [saw EXCEPT ![p] = lockFile]
  /\ UNCHANGED <<lockFile, reload_requested, faults, reloader, raced, takenOver>>

\* The lock is written, and the handler of SIGHUP installed right after.
WriteLock(p) ==
  /\ phase[p] = "cleared"
  /\ phase' = [phase EXCEPT ![p] = "starting"]
  /\ lockFile' = [pid |-> p, token_fingerprint |-> token[p]]
  /\ raced' = (raced \/ lockFile # saw[p])
  /\ takenOver' = (\/ takenOver
                   \/ /\ saw[p] # NoLock /\ saw[p].pid # p
                      /\ saw[p].token_fingerprint # token[p]
                      /\ _pid_running(saw[p].pid))
  /\ saw' = [saw EXCEPT ![p] = NoLock]
  /\ UNCHANGED <<faults, token, reload_requested, reloader>>

\* The main loop has connected and opens the receiver that takes SIGHUP over
\* from the handler.
OpenSignalReceiver(p) ==
  /\ phase[p] = "starting"
  /\ phase' = [phase EXCEPT ![p] = "up"]
  /\ UNCHANGED <<faults, lockFile, token, saw, reload_requested, reloader, raced, takenOver>>

------------------------------------------------------------------------------
(* Stopping. *)

\* The release unlinks whatever the file holds; an error of it is only logged.
Release ==
  \/ lockFile' = NoLock /\ UNCHANGED faults
  \/ OneMoreFault /\ UNCHANGED lockFile

\* An interrupt or an error of the bot, whose `finally` releases the lock.
Stop(p) ==
  /\ phase[p] \in Holding
  /\ Release
  /\ phase' = [phase EXCEPT ![p] = "gone"]
  /\ UNCHANGED <<token, saw, reload_requested, reloader, raced, takenOver>>

\* After a reload signal the loop has ended: release, then exec, which leaves
\* the pid and forgets the flag.
ExecRestart(p) ==
  /\ phase[p] = "stopping"
  /\ Release
  /\ phase' = [phase EXCEPT ![p] = "booting"]
  /\ reload_requested' = reload_requested \ {p}
  /\ UNCHANGED <<token, saw, reloader, raced, takenOver>>

\* A kill leaves the file behind.
Kill(p) ==
  /\ _pid_running(p)
  /\ phase' = [phase EXCEPT ![p] = "gone"]
  /\ OneMoreFault
  /\ UNCHANGED <<lockFile, token, saw, reload_requested, reloader, raced, takenOver>>

------------------------------------------------------------------------------
(* `yee88 reload`, from another terminal. *)

FindRunningInstance ==
  /\ reloader.pc = "idle"
  /\ lockFile # NoLock
  /\ reloader' = [pid |-> lockFile.pid,
                  pc  |-> IF _pid_running(lockFile.pid) THEN "live" ELSE "stale"]
  /\ OneMoreFault
  /\ UNCHANGED <<lockFile, phase, token, saw, reload_requested, raced, takenOver>>

\* The lock of a dead process is unlinked, if it still is the one that was read.
UnlinkStale ==
  /\ \/ reloader.pc = "stale"
     \/ reloader.pc = "live" /\ ~_pid_running(reloader.pid)
  /\ reloader' = Idle
  /\ raced' = (raced \/ (lockFile # NoLock /\ lockFile.pid # reloader.pid))
  /\ lockFile' = NoLock
  /\ UNCHANGED <<faults, phase, token, saw, reload_requested, takenOver>>

\* What SIGHUP does to a process: with no handler it dies; the handler sets a
\* flag that is read when the loop has ended; the receiver ends the loop.
OnHangup(p) ==
  CASE phase[p] = "starting" -> "starting"
    [] phase[p] = "up"       -> "stopping"
    [] OTHER                 -> "gone"

SendHangup ==
  LET p == reloader.pid IN
  /\ reloader.pc = "live" /\ _pid_running(p)
  /\ reloader' = Idle
  /\ phase' = [phase EXCEPT ![p] = OnHangup(p)]
  /\ reload_requested' = IF phase[p] \in {"starting", "up"}
                         THEN reload_requested \cup {p} ELSE reload_requested
  /\ UNCHANGED <<faults, lockFile, token, saw, raced, takenOver>>

------------------------------------------------------------------------------
LockInit ==
  /\ lockFile = NoLock
  /\ phase = [p \in Pid |-> "unborn"]
  /\ token \in [Pid -> Token]
  /\ saw = [p \in Pid |-> NoLock]
  /\ reload_requested = {}
  /\ reloader = Idle
  /\ faults = 0 /\ raced = FALSE /\ takenOver = FALSE

\* The steps in which a process ends, or is replaced.
Ends(p) == Stop(p) \/ ExecRestart(p) \/ Kill(p)

LockNext ==
  \/ \E p \in Pid : ReadLock(p) \/ WriteLock(p) \/ OpenSignalReceiver(p) \/ Ends(p)
  \/ FindRunningInstance \/ UnlinkStale \/ SendHangup

LockSpec == LockInit /\ [][LockNext]_lockVars

------------------------------------------------------------------------------
(* Correctness. *)

\* Two instances of a bot never run at once, through any sequence of starts,
\* reloads, failed releases and crashes, unless a start or a reload acted on a
\* lock file that had changed since it read it (lockfile.py:70-89,
\* reload.py:67-74), or another bot's start took the lock over
\* (lockfile.py:72-82; the release of either then removes the other's lock).
OneInstance ==
  ~raced /\ ~takenOver =>
    \A p, q \in Pid : phase[p] \in Holding /\ phase[q] \in Holding => p = q
===============================================================================
