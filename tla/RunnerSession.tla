---------------------------- MODULE RunnerSession -----------------------------
(***************************************************************************)
(* Runs of one runner and the session locks that keep them apart           *)
(* (runner.py: SessionLockMixin, BaseRunner.run_locked, run_impl;          *)
(* utils/subprocess.py: manage_subprocess), as handle_message drives and   *)
(* cancels them (runner_bridge.py: run_runner_with_cancel) and as a        *)
(* question of an agent interrupts them (telegram/loop.py: _on_question).  *)
(*                                                                         *)
(* A run is two things: the task of handle_message, which consumes the     *)
(* events, and a chain of generators (run_locked over run_impl), which     *)
(* owns the lock and the agent's process.  A cancellation is raised where  *)
(* the task waits, a failure to note the session in on_thread_known.  In a *)
(* generator it unwinds that generator; in the code that consumes an       *)
(* event, the generators are left behind and asyncio closes them one by    *)
(* one, the outer one first.                                               *)
(***************************************************************************)
EXTENDS Naturals, SequencesExt

CONSTANTS
  Run,        \* calls of handle_message, all in one chat
  Token,      \* resume tokens
  TokenOf,    \* the session of each run
  Resuming,   \* the runs that are given their token; the others learn it
  Asking,     \* the runs whose agent calls the question tool
  None        \* no run

ASSUME SessionAssumption ==
  /\ TokenOf \in [Run -> Token]
  /\ Resuming \subseteq Run
  /\ Asking \subseteq Run
  /\ None \notin Run

VARIABLES
  pc,            \* run -> where its task is
  lock,          \* token -> the runs that asked for its semaphore, holder first
  process,       \* run -> its agent: "none", "running", "signalled", "dead"
  abandoned,     \* run -> the outermost generator left behind, "outer" or "inner",
                 \* or "closing" while that of the agent waits for the agent's end
  running_tasks, \* the runs in running_tasks, oldest first
  cancel_requested, \* the runs in running_tasks that are to be cancelled
  started,       \* runs whose StartedEvent was consumed
  asked,         \* run -> the run that its question interrupted
  followed_up    \* runs whose question was answered by a run_job

control == <<pc, lock, process, abandoned, running_tasks, cancel_requested>>
events  == <<started, asked, followed_up>>
vars    == <<control, events>>

\* Waits of the generators, and waits of the code that consumes an event.
InGenerator == {"locking", "reading", "announcing", "draining", "terminating"}
InConsumer  == {"noting", "asking"}

TypeOK ==
  /\ pc \in [Run -> {"idle", "over"} \cup InGenerator \cup InConsumer]
  /\ lock \in [Token -> Seq(Run)]
  /\ process \in [Run -> {"none", "running", "signalled", "dead"}]
  /\ abandoned \in [Run -> {"nothing", "outer", "inner", "closing"}]
  /\ running_tasks \in Seq(Run)
  /\ \A r \in Run : (pc[r] \in {"idle", "over"}) = ~Contains(running_tasks, r)
  /\ cancel_requested \in SUBSET Run
  /\ started \in SUBSET Run
  /\ asked \in [Run -> Run \cup {None}] /\ followed_up \in SUBSET Run

Init ==
  /\ pc = [r \in Run |-> "idle"]
  /\ lock = [t \in Token |-> <<>>]
  /\ process = [r \in Run |-> "none"]
  /\ abandoned = [r \in Run |-> "nothing"]
  /\ running_tasks = <<>>
  /\ cancel_requested = {}
  /\ started = {}
  /\ asked = [r \in Run |-> None] /\ followed_up = {}

\* A sequence without its first r, if it has one.
Without(s, r) == IF Contains(s, r) THEN RemoveAt(s, CHOOSE i \in DOMAIN s : s[i] = r) ELSE s

Goto(r, place) == pc' = [pc EXCEPT ![r] = place]
Enter(r) == lock' = [lock EXCEPT ![TokenOf[r]] = Append(@, r)]
\* Leaving the semaphore's queue, as its holder or as one that waits.
Leave(r) == lock' = [lock EXCEPT ![TokenOf[r]] = Without(@, r)]
Holds(r) == lock[TokenOf[r]] # <<>> /\ Head(lock[TokenOf[r]]) = r
\* handle_message's finally: done is set and the run leaves running_tasks, with the event
\* that would cancel it.
Finish(r) == /\ Goto(r, "over")
             /\ running_tasks' = Without(running_tasks, r)
             /\ cancel_requested' = cancel_requested \ {r}

(***************************************************************************)
(* A run that nobody disturbs.                                             *)
(***************************************************************************)
\* A run that resumes waits for its session; a new one spawns its agent at once.
Start(r) ==
  /\ pc[r] = "idle"
  /\ running_tasks' = Append(running_tasks, r)
  /\ IF r \in Resuming
     THEN Goto(r, "locking") /\ Enter(r) /\ UNCHANGED process
     ELSE Goto(r, "reading") /\ process' = [process EXCEPT ![r] = "running"] /\ UNCHANGED lock
  /\ UNCHANGED <<abandoned, cancel_requested, events>>

Resume(r) ==
  /\ pc[r] = "locking" /\ Holds(r)
  /\ Goto(r, "reading")
  /\ process' = [process EXCEPT ![r] = "running"]
  /\ UNCHANGED <<lock, abandoned, running_tasks, cancel_requested, events>>

\* Mutant of SessionReported: a new run consumes its StartedEvent without the lock.
SessionReportedUnlocked(r) ==
  /\ pc[r] = "reading" /\ r \notin started
  /\ Goto(r, "noting")
  /\ started' = started \cup {r}
  /\ UNCHANGED <<lock, process, abandoned, running_tasks, cancel_requested, asked, followed_up>>

\* The agent reports its session; what it wrote is read after its exit too.  A new run
\* takes the lock before the event is yielded; for a run that holds it the event is
\* yielded at once.
SessionReported(r) ==
  /\ pc[r] = "reading" /\ r \notin started
  /\ IF r \in Resuming
     THEN Goto(r, "noting") /\ started' = started \cup {r} /\ UNCHANGED lock
     ELSE Goto(r, "announcing") /\ Enter(r) /\ UNCHANGED started
  /\ UNCHANGED <<process, abandoned, running_tasks, cancel_requested, asked, followed_up>>

Announce(r) ==
  /\ pc[r] = "announcing" /\ Holds(r)
  /\ Goto(r, "noting")
  /\ started' = started \cup {r}
  /\ UNCHANGED <<lock, process, abandoned, running_tasks, cancel_requested, asked, followed_up>>

\* on_thread_known has stored the session and returned.
Noted(r) ==
  /\ pc[r] = "noting"
  /\ Goto(r, "reading")
  /\ UNCHANGED <<lock, process, abandoned, running_tasks, cancel_requested, events>>

\* A store cannot be saved and on_thread_known raises: handle_message reports the error,
\* and run_locked and run_impl are left behind with an agent nobody has cancelled.
NotingFails(r) ==
  /\ pc[r] = "noting"
  /\ abandoned' = [abandoned EXCEPT ![r] = "outer"]
  /\ Finish(r)
  /\ UNCHANGED <<lock, process, events>>

\* A CompletedEvent: what the agent still writes is read and dropped.
AgentCompletes(r) ==
  /\ pc[r] = "reading"
  /\ Goto(r, "draining")
  /\ UNCHANGED <<lock, process, abandoned, running_tasks, cancel_requested, events>>

AgentExits(r) ==
  /\ process[r] \in {"running", "signalled"}
  /\ process' = [process EXCEPT ![r] = "dead"]
  /\ UNCHANGED <<pc, lock, abandoned, running_tasks, cancel_requested, events>>

\* Mutant of StreamEnds: the session is not left.
StreamEndsLocked(r) ==
  /\ pc[r] \in {"reading", "draining"} /\ process[r] = "dead"
  /\ UNCHANGED lock
  /\ Finish(r)
  /\ UNCHANGED <<process, abandoned, events>>

\* The end of stdout; a run without a CompletedEvent gets one from the runner.
StreamEnds(r) ==
  /\ pc[r] \in {"reading", "draining"} /\ process[r] = "dead"
  /\ Leave(r)
  /\ Finish(r)
  /\ UNCHANGED <<process, abandoned, events>>

\* manage_subprocess signals an agent that has not exited.
Terminate(r) == process' = [process EXCEPT ![r] = IF @ = "running" THEN "signalled" ELSE @]

\* The agent reports another session than before, or than the one resumed:
\* handle_started_event raises.
SessionMismatch(r) ==
  /\ pc[r] = "reading" /\ r \in Resuming \cup started
  /\ Goto(r, "terminating")
  /\ Terminate(r)
  /\ UNCHANGED <<lock, abandoned, running_tasks, cancel_requested, events>>

(***************************************************************************)
(* Cancellation.                                                           *)
(***************************************************************************)
\* /cancel finds the run in running_tasks.
Cancel(r) ==
  /\ Contains(running_tasks, r)
  /\ cancel_requested' = cancel_requested \cup {r}
  /\ UNCHANGED <<pc, lock, process, abandoned, running_tasks, events>>

\* While it waits for its session: the run never had a process.
CancelWhileLocking(r) ==
  /\ r \in cancel_requested /\ pc[r] = "locking"
  /\ Leave(r)
  /\ Finish(r)
  /\ UNCHANGED <<process, abandoned, events>>

\* While run_impl waits for the agent: manage_subprocess terminates it, shielded.
CancelWhileReading(r) ==
  /\ r \in cancel_requested /\ pc[r] \in {"reading", "draining"}
  /\ Goto(r, "terminating")
  /\ Terminate(r)
  /\ UNCHANGED <<lock, abandoned, running_tasks, cancel_requested, events>>

\* Mutant of Terminated: the lock is released before the process is gone.
TerminatedEarly(r) ==
  /\ pc[r] = "terminating"
  /\ Leave(r)
  /\ Finish(r)
  /\ UNCHANGED <<process, abandoned, events>>

Terminated(r) ==
  /\ pc[r] = "terminating" /\ process[r] = "dead"
  /\ Leave(r)
  /\ Finish(r)
  /\ UNCHANGED <<process, abandoned, events>>

\* Mutant of CancelWhileAnnouncing: the run stays in the semaphore's queue.
CancelWhileAnnouncingQueued(r) ==
  /\ r \in cancel_requested /\ pc[r] = "announcing"
  /\ abandoned' = [abandoned EXCEPT ![r] = "inner"]
  /\ Finish(r)
  /\ UNCHANGED <<lock, process, events>>

\* While run_locked waits for the lock of a new session: run_impl is left behind.
CancelWhileAnnouncing(r) ==
  /\ r \in cancel_requested /\ pc[r] = "announcing"
  /\ Leave(r)
  /\ abandoned' = [abandoned EXCEPT ![r] = "inner"]
  /\ Finish(r)
  /\ UNCHANGED <<process, events>>

\* While the consumer handles an event: run_locked and run_impl are left behind.
CancelWhileConsuming(r) ==
  /\ r \in cancel_requested /\ pc[r] \in InConsumer
  /\ abandoned' = [abandoned EXCEPT ![r] = "outer"]
  /\ Finish(r)
  /\ UNCHANGED <<lock, process, events>>

\* asyncio closes run_locked, which releases the lock and drops run_impl ...
CloseOuter(r) ==
  /\ abandoned[r] = "outer"
  /\ abandoned' = [abandoned EXCEPT ![r] = "inner"]
  /\ Leave(r)
  /\ UNCHANGED <<pc, process, running_tasks, cancel_requested, events>>

\* Mutant of CloseInner: the agent is left alone.
CloseInnerKeepsAgent(r) ==
  /\ abandoned[r] = "inner"
  /\ abandoned' = [abandoned EXCEPT ![r] = "nothing"]
  /\ UNCHANGED <<pc, lock, process, running_tasks, cancel_requested, events>>

\* ... and then run_impl, whose manage_subprocess terminates the agent ...
CloseInner(r) ==
  /\ abandoned[r] = "inner"
  /\ abandoned' = [abandoned EXCEPT ![r] = "closing"]
  /\ Terminate(r)
  /\ UNCHANGED <<pc, lock, running_tasks, cancel_requested, events>>

\* ... and waits for it.
Closed(r) ==
  /\ abandoned[r] = "closing" /\ process[r] = "dead"
  /\ abandoned' = [abandoned EXCEPT ![r] = "nothing"]
  /\ UNCHANGED <<pc, lock, process, running_tasks, cancel_requested, events>>

(***************************************************************************)
(* Questions.                                                              *)
(***************************************************************************)
\* _on_question cancels the first run of the chat that is not done, and waits until
\* its notice is sent.
AgentAsks(r) ==
  /\ r \in Asking /\ pc[r] = "reading"
  /\ asked[r] = None
  /\ Goto(r, "asking")
  /\ asked' = [asked EXCEPT ![r] = Head(running_tasks)]
  /\ cancel_requested' = cancel_requested \cup {Head(running_tasks)}
  /\ UNCHANGED <<lock, process, abandoned, running_tasks, started, followed_up>>

\* The notice is sent, and a run_job resumes the session if it is known; a cancelled
\* run does not get here.
QuestionHandled(r) ==
  /\ pc[r] = "asking" /\ r \notin cancel_requested
  /\ Goto(r, "reading")
  /\ followed_up' = followed_up \cup ({r} \cap started)
  /\ UNCHANGED <<lock, process, abandoned, running_tasks, cancel_requested, started, asked>>

\* The steps the event loop takes by itself.
Task(r) ==
  \/ Resume(r) \/ Announce(r) \/ Noted(r) \/ NotingFails(r) \/ StreamEnds(r) \/ QuestionHandled(r)
  \/ CancelWhileLocking(r) \/ CancelWhileReading(r) \/ CancelWhileAnnouncing(r)
  \/ CancelWhileConsuming(r) \/ Terminated(r)

Closing(r) == CloseOuter(r) \/ CloseInner(r) \/ Closed(r)

Agent(r) == \/ SessionReported(r) \/ SessionMismatch(r) \/ AgentAsks(r)
            \/ AgentCompletes(r) \/ AgentExits(r)

Next == \E r \in Run : Start(r) \/ Task(r) \/ Closing(r) \/ Agent(r) \/ Cancel(r)

Spec == Init /\ [][Next]_vars

\* Tasks are scheduled, and an agent that gets SIGTERM (after 2 s SIGKILL) exits.
\* Nothing makes an agent talk or exit on its own, or a user cancel.
Fairness == \A r \in Run : /\ WF_vars(Task(r)) /\ WF_vars(Closing(r))
                           /\ WF_vars(process[r] = "signalled" /\ AgentExits(r))

FairSpec == Spec /\ Fairness

(***************************************************************************)
(* Properties.                                                             *)
(***************************************************************************)
\* A run whose task is between the moment run_locked takes the lock and the moment it
\* gives it back.
InSession(r) == /\ r \in Resuming \cup started
                /\ pc[r] \in InConsumer \cup {"reading", "draining", "terminating"}

\* Two runs are never in one session at a time, whatever is cancelled in whatever
\* queue, and a run that is still terminating its agent keeps its session
\* (runner.py 82-85, 104-115; subprocess.py 76-86).
SessionExclusive ==
  \A r, q \in Run : r # q /\ TokenOf[r] = TokenOf[q] /\ InSession(r) => ~InSession(q)

\* A place in the semaphore's queue belongs to a run that is alive, or to a holder whose
\* generators are still to be closed: no cancellation leaks it (runner.py 104-115).
LockNotLeaked ==
  \A t \in Token : \A i \in DOMAIN lock[t] :
    LET r == lock[t][i] IN pc[r] # "over" \/ (i = 1 /\ abandoned[r] = "outer")

\* An agent outlives the task of its run only while a generator that will terminate it,
\* or waits for its end, is still to be closed: however a run ends (cancelled at any
\* await, its store failing, its session not the expected one), nothing forgets its agent
\* (runner_bridge.py 328-341; subprocess.py 76-86; runner.py 640-685).
NoOrphanAgent ==
  \A r \in Run : pc[r] = "over" /\ process[r] \in {"running", "signalled"}
    => abandoned[r] # "nothing"

\* A cancelled run ends, and the agent of a run that is over ends, whether the run was
\* cancelled, failed or was left by its consumer (spec 6.5; runner_bridge.py 328-358,
\* subprocess.py 76-86).
CancelEndsAgent ==
  \A r \in Run : (r \in cancel_requested \/ pc[r] = "over")
                 ~> (pc[r] = "over" /\ process[r] \in {"none", "dead"})

\* A run that waits for its session gets it once the other runs are over.
SessionHandedOver ==
  \A r \in Run : (pc[r] \in {"locking", "announcing"}
                  /\ \A q \in Run \ {r} : pc[q] \in {"idle", "over"})
                 ~> pc[r] \notin {"locking", "announcing"}

(***************************************************************************)
(* What the documentation says, and the code does not do.                  *)
(***************************************************************************)
\* A question cancels the blocked process and its answer is sent again by a run that
\* resumes the session (question.py 3-7).  The run that asks cancels the task that
\* would send it.
QuestionGetsReply ==
  \A r \in Run : asked[r] = r /\ r \in started ~> r \in followed_up
===============================================================================
