--------------------------- MODULE ThreadScheduler ---------------------------
(***************************************************************************)
(* The per-thread job queue of yee88 (src/src/yee88/scheduler.py).         *)
(*                                                                         *)
(* Every prompt that resumes an agent session becomes a job; jobs of one   *)
(* thread (engine + resume token) are queued and a worker task runs them   *)
(* one after the other.  The scheduler is driven by concurrent tasks that  *)
(* share one anyio.Lock: callers of enqueue, cancel_queued and             *)
(* note_thread_known, one _clear_busy task per announced run, and the      *)
(* workers.                                                                *)
(*                                                                         *)
(* The unit of interleaving is the code between two awaits.  anyio.Lock    *)
(* hands the lock over in FIFO order, and even an uncontended acquire      *)
(* yields once while it owns the lock; so `lock' is the queue of tasks     *)
(* that asked for it, its head is the owner, and a critical section is one *)
(* step of the head that also leaves the queue.                            *)
(***************************************************************************)
EXTENDS Naturals, SequencesExt

CONSTANTS
  Job,        \* ThreadJobs; the progress message of a job is named by the job
  FirstRun,   \* runs started outside the scheduler: they create a thread
  Thread,     \* thread keys
  Tracked,    \* the jobs that have a progress_ref
  Announcing, \* the runs whose agent reports a session (others fail before)
  ThreadOf,   \* the thread of each job and of each first run
  None        \* no job, no run

Owner == Job \cup FirstRun     \* who can own a `done' event

ASSUME ConstantsAssumption ==
  /\ Tracked \subseteq Job
  /\ Announcing \subseteq Owner
  /\ ThreadOf \in [Owner -> Thread]
  /\ None \notin Owner
  /\ Job \cap FirstRun = {}

VARIABLES
  lock,                \* tasks that asked for _lock, owner first
  pending_by_thread,   \* thread -> queued jobs (an absent deque is <<>>)
  queued_by_progress,  \* jobs that _queued_by_progress maps to
  active_threads,      \* threads with a worker, as far as the code knows
  busy_until,          \* thread -> the owner of the registered done event
  finished,            \* owners whose done event is set
  enqueuing,           \* job -> state of its enqueue call
  cancelling,          \* job -> state of its cancel_queued call
  noting,              \* owner -> state of note_thread_known and _clear_busy
  worker,              \* job -> state of the worker its enqueue started
  takes,               \* worker -> the job it took, or None
  awaits,              \* worker -> the run it waits for before that job
  \* History, read by no action:
  ahead,               \* job -> the live run registered when it was accepted
  started,             \* jobs handed to run_job
  returned             \* jobs whose run_job call is over

scheduler == <<pending_by_thread, queued_by_progress, active_threads, busy_until>>
calls     == <<enqueuing, cancelling, noting>>
workers   == <<worker, takes, awaits>>
history   == <<ahead, started, returned>>
vars      == <<lock, scheduler, finished, calls, workers, history>>

Task == ({"enqueue", "cancel", "worker"} \X Job) \cup ({"note", "clear"} \X Owner)

\* A worker in one of these states will look at its thread's queue again.
Working == {"starting", "dequeue", "waiting", "running"}

TypeOK ==
  /\ lock \in Seq(Task)
  /\ pending_by_thread \in [Thread -> Seq(Job)]
  /\ queued_by_progress \in SUBSET Tracked
  /\ active_threads \in SUBSET Thread
  /\ busy_until \in [Thread -> Owner \cup {None}]
  /\ finished \in SUBSET Owner
  /\ enqueuing \in [Job -> {"idle", "locking", "returned"}]
  /\ cancelling \in [Job -> {"idle", "locking", "hit", "miss"}]
  /\ noting \in [Owner -> {"idle", "locking", "abandoned", "watching", "clearing", "cleared"}]
  /\ worker \in [Job -> Working \cup {"none", "exiting", "gone"}]
  /\ takes \in [Job -> Job \cup {None}]
  /\ awaits \in [Job -> Owner \cup {None}]
  /\ ahead \in [Job -> Owner \cup {None}]
  /\ started \in SUBSET Job
  /\ returned \in SUBSET Job

Init ==
  /\ lock = <<>>
  /\ pending_by_thread = [k \in Thread |-> <<>>]
  /\ queued_by_progress = {}
  /\ active_threads = {}
  /\ busy_until = [k \in Thread |-> None]
  /\ finished = {}
  /\ enqueuing = [j \in Job |-> "idle"]
  /\ cancelling = [j \in Job |-> "idle"]
  /\ noting = [o \in Owner |-> "idle"]
  /\ worker = [j \in Job |-> "none"]
  /\ takes = [j \in Job |-> None]
  /\ awaits = [j \in Job |-> None]
  /\ ahead = [j \in Job |-> None]
  /\ started = {}
  /\ returned = {}

(***************************************************************************)
(* The lock, and the helpers the actions share.                            *)
(***************************************************************************)
Acquire(t) == lock' = Append(lock, t)
Owns(t)    == lock # <<>> /\ Head(lock) = t
Release    == lock' = Tail(lock)

\* An event that a waiter would wait for: registered, and not set.
LiveRun(k) == IF busy_until[k] \in finished THEN None ELSE busy_until[k]

\* run_job is executing j.
Running(j) == \E w \in Job : worker[w] = "running" /\ takes[w] = j

(***************************************************************************)
(* enqueue: append, index under the progress message, and start a worker   *)
(* unless the thread is marked active.                                     *)
(***************************************************************************)
Enqueue(j) ==
  /\ enqueuing[j] = "idle"
  /\ enqueuing' = [enqueuing EXCEPT ![j] = "locking"]
  /\ Acquire(<<"enqueue", j>>)
  /\ UNCHANGED <<scheduler, finished, cancelling, noting, workers, history>>

EnqueueLocked(j) ==
  LET k == ThreadOf[j] IN
  /\ enqueuing[j] = "locking" /\ Owns(<<"enqueue", j>>)
  /\ enqueuing' = [enqueuing EXCEPT ![j] = "returned"]
  /\ pending_by_thread' = [pending_by_thread EXCEPT ![k] = Append(@, j)]
  /\ queued_by_progress' = queued_by_progress \cup ({j} \cap Tracked)
  /\ worker' = [worker EXCEPT ![j] = IF k \in active_threads THEN @ ELSE "starting"]
  /\ active_threads' = active_threads \cup {k}
  /\ ahead' = [ahead EXCEPT ![j] = LiveRun(k)]
  /\ Release
  /\ UNCHANGED <<busy_until, finished, cancelling, noting, takes, awaits, started, returned>>

(***************************************************************************)
(* cancel_queued: drop the job if it is indexed and still in its queue.    *)
(***************************************************************************)
CancelQueued(j) ==
  /\ j \in Tracked /\ cancelling[j] = "idle"
  /\ cancelling' = [cancelling EXCEPT ![j] = "locking"]
  /\ Acquire(<<"cancel", j>>)
  /\ UNCHANGED <<scheduler, finished, enqueuing, noting, workers, history>>

\* Mutant of CancelHit: the whole deque is popped, not only when it is empty.
CancelHitDropsQueue(j) ==
  /\ cancelling[j] = "locking" /\ Owns(<<"cancel", j>>)
  /\ j \in queued_by_progress /\ Contains(pending_by_thread[ThreadOf[j]], j)
  /\ pending_by_thread' = [pending_by_thread EXCEPT ![ThreadOf[j]] = <<>>]
  /\ queued_by_progress' = queued_by_progress \ {j}
  /\ cancelling' = [cancelling EXCEPT ![j] = "hit"]
  /\ Release
  /\ UNCHANGED <<active_threads, busy_until, finished, enqueuing, noting, workers, history>>

\* Mutant of CancelHit: the job is dropped from the index and left in the queue.
CancelHitIndexOnly(j) ==
  /\ cancelling[j] = "locking" /\ Owns(<<"cancel", j>>)
  /\ j \in queued_by_progress
  /\ queued_by_progress' = queued_by_progress \ {j}
  /\ cancelling' = [cancelling EXCEPT ![j] = "hit"]
  /\ Release
  /\ UNCHANGED <<pending_by_thread, active_threads, busy_until, finished, enqueuing,
                 noting, workers, history>>

CancelHit(j) ==
  LET k == ThreadOf[j] IN
  /\ cancelling[j] = "locking" /\ Owns(<<"cancel", j>>)
  /\ j \in queued_by_progress
  /\ \E i \in 1..Len(pending_by_thread[k]) :
       /\ pending_by_thread[k][i] = j
       /\ pending_by_thread' = [pending_by_thread EXCEPT ![k] = RemoveAt(@, i)]
  /\ queued_by_progress' = queued_by_progress \ {j}
  /\ cancelling' = [cancelling EXCEPT ![j] = "hit"]
  /\ Release
  /\ UNCHANGED <<active_threads, busy_until, finished, enqueuing, noting, workers, history>>

CancelMiss(j) ==
  /\ cancelling[j] = "locking" /\ Owns(<<"cancel", j>>)
  /\ ~(j \in queued_by_progress /\ Contains(pending_by_thread[ThreadOf[j]], j))
  /\ queued_by_progress' = queued_by_progress \ {j}
  /\ cancelling' = [cancelling EXCEPT ![j] = "miss"]
  /\ Release
  /\ UNCHANGED <<pending_by_thread, active_threads, busy_until, finished, enqueuing,
                 noting, workers, history>>

(***************************************************************************)
(* note_thread_known: the run that owns a done event learnt its thread and *)
(* awaits the registration; then a _clear_busy task waits for the event.   *)
(* The await is abandoned when the run is cancelled meanwhile.             *)
(***************************************************************************)
NoteThreadKnown(o) ==
  /\ o \in Announcing /\ noting[o] = "idle" /\ o \notin finished
  /\ o \in Job => Running(o)
  /\ noting' = [noting EXCEPT ![o] = "locking"]
  /\ Acquire(<<"note", o>>)
  /\ UNCHANGED <<scheduler, finished, enqueuing, cancelling, workers, history>>

NoteLocked(o) ==
  LET k == ThreadOf[o] IN
  /\ noting[o] = "locking" /\ Owns(<<"note", o>>)
  /\ busy_until' = [busy_until EXCEPT ![k] = IF LiveRun(k) = None THEN o ELSE @]
  /\ noting' = [noting EXCEPT ![o] = "watching"]
  /\ Release
  /\ UNCHANGED <<pending_by_thread, queued_by_progress, active_threads, finished,
                 enqueuing, cancelling, workers, history>>

NoteAbandoned(o) ==
  /\ noting[o] = "locking"
  /\ \E i \in 1..Len(lock) : lock[i] = <<"note", o>> /\ lock' = RemoveAt(lock, i)
  /\ noting' = [noting EXCEPT ![o] = "abandoned"]
  /\ UNCHANGED <<scheduler, finished, enqueuing, cancelling, workers, history>>

ClearBusy(o) ==
  /\ noting[o] = "watching" /\ o \in finished
  /\ noting' = [noting EXCEPT ![o] = "clearing"]
  /\ Acquire(<<"clear", o>>)
  /\ UNCHANGED <<scheduler, finished, enqueuing, cancelling, workers, history>>

ClearBusyLocked(o) ==
  LET k == ThreadOf[o] IN
  /\ noting[o] = "clearing" /\ Owns(<<"clear", o>>)
  /\ busy_until' = [busy_until EXCEPT ![k] = IF @ = o THEN None ELSE @]
  /\ noting' = [noting EXCEPT ![o] = "cleared"]
  /\ Release
  /\ UNCHANGED <<pending_by_thread, queued_by_progress, active_threads, finished,
                 enqueuing, cancelling, workers, history>>

\* The run sets its done event (runner_bridge.handle_message, on its way out).
RunDone(o) ==
  /\ o \in Announcing /\ o \notin finished /\ noting[o] # "locking"
  /\ o \in Job => Running(o)
  /\ finished' = finished \cup {o}
  /\ UNCHANGED <<lock, scheduler, calls, workers, history>>

(***************************************************************************)
(* _thread_worker, named by the job whose enqueue started it.              *)
(***************************************************************************)
WorkerStart(w) ==
  /\ worker[w] = "starting"
  /\ worker' = [worker EXCEPT ![w] = "dequeue"]
  /\ Acquire(<<"worker", w>>)
  /\ UNCHANGED <<scheduler, finished, calls, takes, awaits, history>>

\* Mutant of WorkerTakes: the worker does not wait for the registered run.
WorkerTakesAtOnce(w) ==
  LET k == ThreadOf[w] IN
  /\ worker[w] = "dequeue" /\ Owns(<<"worker", w>>)
  /\ pending_by_thread[k] # <<>>
  /\ pending_by_thread' = [pending_by_thread EXCEPT ![k] = Tail(@)]
  /\ queued_by_progress' = queued_by_progress \ {Head(pending_by_thread[k])}
  /\ takes' = [takes EXCEPT ![w] = Head(pending_by_thread[k])]
  /\ worker' = [worker EXCEPT ![w] = "running"]
  /\ started' = started \cup {Head(pending_by_thread[k])}
  /\ Release
  /\ UNCHANGED <<active_threads, busy_until, finished, calls, awaits, ahead, returned>>

\* The head of the queue becomes this worker's job; it runs at once unless
\* the registered run of the thread is still alive.
WorkerTakes(w) ==
  LET k   == ThreadOf[w]
      job == Head(pending_by_thread[k])
  IN
  /\ worker[w] = "dequeue" /\ Owns(<<"worker", w>>)
  /\ pending_by_thread[k] # <<>>
  /\ pending_by_thread' = [pending_by_thread EXCEPT ![k] = Tail(@)]
  /\ queued_by_progress' = queued_by_progress \ {job}
  /\ takes' = [takes EXCEPT ![w] = job]
  /\ awaits' = [awaits EXCEPT ![w] = LiveRun(k)]
  /\ \/ /\ LiveRun(k) # None
        /\ worker' = [worker EXCEPT ![w] = "waiting"]
        /\ UNCHANGED started
     \/ /\ LiveRun(k) = None
        /\ worker' = [worker EXCEPT ![w] = "running"]
        /\ started' = started \cup {job}
  /\ Release
  /\ UNCHANGED <<active_threads, busy_until, finished, calls, ahead, returned>>

WorkerProceeds(w) ==
  /\ worker[w] = "waiting" /\ awaits[w] \in finished
  /\ worker' = [worker EXCEPT ![w] = "running"]
  /\ started' = started \cup {takes[w]}
  /\ UNCHANGED <<lock, scheduler, finished, calls, takes, awaits, ahead, returned>>

\* run_job returns or raises (both end the same way), and the worker asks for
\* the lock again.  A run that announced itself has set its done event first.
WorkerJobOver(w) ==
  /\ worker[w] = "running"
  /\ noting[takes[w]] # "idle" => takes[w] \in finished
  /\ worker' = [worker EXCEPT ![w] = "dequeue"]
  /\ takes' = [takes EXCEPT ![w] = None]
  /\ awaits' = [awaits EXCEPT ![w] = None]
  /\ returned' = returned \cup {takes[w]}
  /\ Acquire(<<"worker", w>>)
  /\ UNCHANGED <<scheduler, finished, calls, ahead, started>>

\* Mutant of WorkerFindsNothing: the thread is unmarked in `finally' only.
WorkerFindsNothingUnmarksLate(w) ==
  /\ worker[w] = "dequeue" /\ Owns(<<"worker", w>>)
  /\ pending_by_thread[ThreadOf[w]] = <<>>
  /\ worker' = [worker EXCEPT ![w] = "exiting"]
  /\ lock' = Append(Tail(lock), <<"worker", w>>)
  /\ UNCHANGED <<scheduler, finished, calls, takes, awaits, history>>

\* Nothing queued: unmark the thread, and ask for the lock again in `finally'.
WorkerFindsNothing(w) ==
  /\ worker[w] = "dequeue" /\ Owns(<<"worker", w>>)
  /\ pending_by_thread[ThreadOf[w]] = <<>>
  /\ active_threads' = active_threads \ {ThreadOf[w]}
  /\ worker' = [worker EXCEPT ![w] = "exiting"]
  /\ lock' = Append(Tail(lock), <<"worker", w>>)
  /\ UNCHANGED <<pending_by_thread, queued_by_progress, busy_until, finished, calls,
                 takes, awaits, history>>

\* The `finally' block unmarks the thread a second time.
WorkerExits(w) ==
  /\ worker[w] = "exiting" /\ Owns(<<"worker", w>>)
  /\ active_threads' = active_threads \ {ThreadOf[w]}
  /\ worker' = [worker EXCEPT ![w] = "gone"]
  /\ Release
  /\ UNCHANGED <<pending_by_thread, queued_by_progress, busy_until, finished, calls,
                 takes, awaits, history>>

Caller(j)  == Enqueue(j) \/ EnqueueLocked(j) \/ CancelQueued(j) \/ CancelHit(j) \/ CancelMiss(j)
Announcer(o) == \/ NoteThreadKnown(o) \/ NoteLocked(o) \/ NoteAbandoned(o)
                \/ ClearBusy(o) \/ ClearBusyLocked(o) \/ RunDone(o)
Worker(w)  == \/ WorkerStart(w) \/ WorkerTakes(w) \/ WorkerProceeds(w)
              \/ WorkerJobOver(w) \/ WorkerFindsNothing(w) \/ WorkerExits(w)

Next == \/ \E j \in Job : Caller(j) \/ Worker(j)
        \/ \E o \in Owner : Announcer(o)

(***************************************************************************)
(* Fairness.  The event loop runs every ready task, so the steps behind a  *)
(* lock or an event are weakly fair; a run that has begun ends (the agent  *)
(* process exits or is killed).  Callers need not call.                    *)
(***************************************************************************)
Fairness ==
  /\ \A j \in Job : /\ WF_vars(EnqueueLocked(j))
                    /\ WF_vars(CancelHit(j) \/ CancelMiss(j))
                    /\ WF_vars(Worker(j))
  /\ \A o \in Owner : /\ WF_vars(NoteLocked(o))
                      /\ WF_vars(ClearBusy(o) \/ ClearBusyLocked(o))
                      /\ WF_vars(RunDone(o))

Spec     == Init /\ [][Next]_vars
FairSpec == Spec /\ Fairness

----------------------------------------------------------------------------
(***************************************************************************)
(* Correctness.                                                            *)
(***************************************************************************)
QueuedIn(j, k) == Contains(pending_by_thread[k], j)
Queued(j)      == QueuedIn(j, ThreadOf[j])
Taken(j)       == \E w \in Job : takes[w] = j
LiveWorker(k)  == \E w \in Job : ThreadOf[w] = k /\ worker[w] \in Working

\* A thread with queued jobs, or marked active, has a worker that will look at
\* the queue again: the discards of a worker on its way out, which race with
\* enqueue, never leave a job behind.  (enqueue, _thread_worker)
NoStrandedJob ==
  \A k \in Thread :
    pending_by_thread[k] # <<>> \/ k \in active_threads => LiveWorker(k)

\* A job is in one place: once in the queue of its own thread, or with one
\* worker, or over, or cancelled; so a job that cancel_queued reported as
\* dropped never runs, and none runs twice, even with two workers on a thread.
JobInOnePlace ==
  /\ \A k \in Thread : IsInjective(pending_by_thread[k])
  /\ \A k \in Thread, j \in Job : QueuedIn(j, k) => k = ThreadOf[j]
  /\ \A w, v \in Job : takes[w] = takes[v] /\ takes[w] # None => w = v
  /\ \A w \in Job : worker[w] = "waiting" => takes[w] \notin started
  /\ \A j \in Job :
       /\ Queued(j) => ~Taken(j) /\ j \notin started
       /\ j \in returned => j \in started /\ ~Taken(j)
       /\ cancelling[j] = "hit" => ~Queued(j) /\ ~Taken(j) /\ j \notin started

\* The progress index holds exactly the tracked jobs still in a queue, so a
\* cancel by progress message finds every job that can still be dropped and
\* nothing else.  (_queued_by_progress against _pending_by_thread)
IndexMatchesQueues == queued_by_progress = {j \in Tracked : Queued(j)}

\* A job accepted while the registered run of its thread is alive starts only
\* after that run has set its done event, whatever is registered or cleared in
\* between.  (busy_until read at dequeue, written by note and _clear_busy)
StartsAfterRunAhead ==
  \A j \in started : ahead[j] # None => ahead[j] \in finished

\* Every accepted job is eventually run or cancelled.  (liveness of the queue)
AcceptedJobsRun ==
  \A j \in Job : (enqueuing[j] = "returned") ~> (j \in returned \/ cancelling[j] = "hit")
=============================================================================
