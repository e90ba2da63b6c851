------------------------ MODULE ThreadSchedulerProofs ------------------------
(***************************************************************************)
(* Proofs about ThreadScheduler, for every set of jobs, runs and threads.  *)
(***************************************************************************)
EXTENDS ThreadScheduler, SequenceTheorems, TLAPS

----------------------------------------------------------------------------
(***************************************************************************)
(* What the operations of Python's deque, modelled on sequences, do to a   *)
(* queue without repetitions.                                              *)
(***************************************************************************)
\* deque.append of an element that is not in the deque.
LEMMA AppendUnique ==
  ASSUME NEW S, NEW s \in Seq(S), NEW x \in S, IsInjective(s), ~Contains(s, x)
  PROVE  /\ Append(s, x) \in Seq(S) /\ Append(s, x) # <<>>
         /\ IsInjective(Append(s, x))
         /\ \A y : Contains(Append(s, x), y) <=> Contains(s, y) \/ y = x
BY DEF IsInjective, Contains

\* deque.popleft of a deque without repetitions.
LEMMA TailUnique ==
  ASSUME NEW S, NEW s \in Seq(S), s # <<>>, IsInjective(s)
  PROVE  /\ Tail(s) \in Seq(S) /\ Head(s) \in S
         /\ IsInjective(Tail(s))
         /\ Contains(s, Head(s))
         /\ \A y : Contains(Tail(s), y) <=> Contains(s, y) /\ y # Head(s)
BY DEF IsInjective, Contains

\* deque.remove: the elements before and after position i, in order.
LEMMA RemoveAtElements ==
  ASSUME NEW S, NEW s \in Seq(S), NEW i \in 1..Len(s)
  PROVE  /\ RemoveAt(s, i) \in Seq(S)
         /\ Len(RemoveAt(s, i)) = Len(s) - 1
         /\ \A n \in 1..(Len(s) - 1) : RemoveAt(s, i)[n] = IF n < i THEN s[n] ELSE s[n + 1]
<1> DEFINE before == SubSeq(s, 1, i - 1)
           after  == SubSeq(s, i + 1, Len(s))
<1>1. Len(s) \in Nat /\ i \in Nat /\ 1 <= i /\ i <= Len(s)
  OBVIOUS
<1>2. /\ before \in Seq(S) /\ Len(before) = i - 1
      /\ \A n \in 1..(i - 1) : before[n] = s[n]
  BY <1>1, SubSeqProperties
<1>3. /\ after \in Seq(S) /\ Len(after) = Len(s) - i
      /\ \A n \in 1..(Len(s) - i) : after[n] = s[i + n]
  BY <1>1, SubSeqProperties
<1> HIDE DEF before, after
<1>4. /\ before \o after \in Seq(S)
      /\ Len(before \o after) = Len(before) + Len(after)
      /\ \A n \in 1..(Len(before) + Len(after)) :
           (before \o after)[n] = IF n <= Len(before) THEN before[n] ELSE after[n - Len(before)]
  BY <1>2, <1>3, ConcatProperties
<1>5. RemoveAt(s, i) = before \o after
  BY DEF RemoveAt, before, after
<1>6. Len(before) + Len(after) = Len(s) - 1
  BY <1>1, <1>2, <1>3
<1>7. ASSUME NEW n \in 1..(Len(s) - 1)
      PROVE  (before \o after)[n] = IF n < i THEN s[n] ELSE s[n + 1]
  <2>1. CASE n < i
    BY <1>1, <1>2, <1>4, <1>6, <2>1
  <2>2. CASE ~(n < i)
    <3>1. n - Len(before) \in 1..(Len(s) - i) /\ i + (n - Len(before)) = n + 1
      BY <1>1, <1>2, <2>2
    <3>2. (before \o after)[n] = after[n - Len(before)]
      BY <1>1, <1>2, <1>4, <1>6, <2>2
    <3> QED
      BY <1>3, <2>2, <3>1, <3>2
  <2> QED
    BY <2>1, <2>2
<1> QED
  BY <1>4, <1>5, <1>6, <1>7

\* deque.remove of the element at position i of a deque without repetitions.
LEMMA RemoveAtUnique ==
  ASSUME NEW S, NEW s \in Seq(S), NEW i \in 1..Len(s), IsInjective(s)
  PROVE  /\ RemoveAt(s, i) \in Seq(S)
         /\ IsInjective(RemoveAt(s, i))
         /\ \A y : Contains(RemoveAt(s, i), y) <=> Contains(s, y) /\ y # s[i]
<1> DEFINE r == RemoveAt(s, i)
<1>1. /\ r \in Seq(S) /\ Len(r) = Len(s) - 1
      /\ \A n \in 1..(Len(s) - 1) : r[n] = IF n < i THEN s[n] ELSE s[n + 1]
  BY RemoveAtElements
<1>2. Len(s) \in Nat /\ i \in Nat /\ DOMAIN s = 1..Len(s) /\ DOMAIN r = 1..(Len(s) - 1)
  BY <1>1
<1> HIDE DEF r
<1>3. IsInjective(r)
  BY <1>1, <1>2 DEF IsInjective
<1>4. ASSUME NEW y, Contains(r, y)
      PROVE  Contains(s, y) /\ y # s[i]
  <2>1. PICK n \in 1..(Len(s) - 1) : r[n] = y
    BY <1>1, <1>2, <1>4 DEF Contains
  <2>2. n \in 1..Len(s) /\ n + 1 \in 1..Len(s)
    BY <1>2
  <2> QED
    BY <1>1, <1>2, <2>1, <2>2 DEF Contains, IsInjective
<1>5. ASSUME NEW y, Contains(s, y), y # s[i]
      PROVE  Contains(r, y)
  <2>1. PICK n \in 1..Len(s) : s[n] = y
    BY <1>5 DEF Contains
  <2>2. n < i \/ i < n
    BY <1>2, <1>5, <2>1
  <2>3. CASE n < i
    <3>1. n \in 1..(Len(s) - 1) /\ r[n] = y
      BY <1>1, <1>2, <2>1, <2>3
    <3> QED
      BY <1>1, <3>1 DEF Contains
  <2>4. CASE i < n
    <3>1. n - 1 \in 1..(Len(s) - 1) /\ r[n - 1] = y
      BY <1>1, <1>2, <2>1, <2>4
    <3> QED
      BY <1>1, <3>1 DEF Contains
  <2> QED
    BY <2>2, <2>3, <2>4
<1> QED
  BY <1>1, <1>3, <1>4, <1>5 DEF r

----------------------------------------------------------------------------
(***************************************************************************)
(* Type correctness.  TypeOK is not inductive alone: what a worker hands   *)
(* to run_job is a job only because a worker holds one exactly while it    *)
(* waits or runs, and only the enqueue of a job starts its worker.         *)
(***************************************************************************)
WorkersHoldJobs ==
  \A w \in Job :
    /\ takes[w] # None <=> worker[w] \in {"waiting", "running"}
    /\ worker[w] # "none" => enqueuing[w] = "returned"

TypeInv == TypeOK /\ WorkersHoldJobs

LEMMA TypeInit == Init => TypeInv
BY DEF Init, TypeInv, TypeOK, WorkersHoldJobs, Working

LEMMA TypeCaller ==
  ASSUME TypeInv, NEW j \in Job, Caller(j)
  PROVE  TypeInv'
<1> USE ConstantsAssumption DEF Task, Owner, scheduler, calls, workers, history
<1>1. ThreadOf[j] \in Thread
  OBVIOUS
<1>2. CASE Enqueue(j)
  BY <1>2 DEF TypeInv, WorkersHoldJobs, TypeOK, Enqueue, Acquire
<1>3. CASE EnqueueLocked(j)
  BY <1>1, <1>3 DEF TypeInv, WorkersHoldJobs, TypeOK, EnqueueLocked, Owns, Release, LiveRun, Working
<1>4. CASE CancelQueued(j)
  BY <1>4 DEF TypeInv, WorkersHoldJobs, TypeOK, CancelQueued, Acquire
<1>5. CASE CancelHit(j)
  <2>1. PICK i \in 1..Len(pending_by_thread[ThreadOf[j]]) :
          pending_by_thread' = [pending_by_thread EXCEPT ![ThreadOf[j]] = RemoveAt(@, i)]
    BY <1>5 DEF CancelHit
  <2>2. pending_by_thread' \in [Thread -> Seq(Job)]
    BY <1>1, <2>1, RemoveAtElements DEF TypeInv, WorkersHoldJobs, TypeOK
  <2> QED
    BY <1>5, <2>2 DEF TypeInv, WorkersHoldJobs, TypeOK, CancelHit, Owns, Release
<1>6. CASE CancelMiss(j)
  BY <1>6 DEF TypeInv, WorkersHoldJobs, TypeOK, CancelMiss, Owns, Release
<1> QED
  BY <1>2, <1>3, <1>4, <1>5, <1>6 DEF Caller

LEMMA TypeAnnouncer ==
  ASSUME TypeInv, NEW o \in Owner, Announcer(o)
  PROVE  TypeInv'
<1> USE ConstantsAssumption DEF Task, scheduler, calls, workers, history
<1>1. ThreadOf[o] \in Thread
  OBVIOUS
<1>2. CASE NoteThreadKnown(o)
  BY <1>2 DEF TypeInv, WorkersHoldJobs, TypeOK, NoteThreadKnown, Acquire
<1>3. CASE NoteLocked(o)
  BY <1>1, <1>3 DEF TypeInv, WorkersHoldJobs, TypeOK, NoteLocked, Owns, Release
<1>4. CASE NoteAbandoned(o)
  <2>1. lock' \in Seq(Task)
    BY <1>4, RemoveAtElements DEF TypeInv, WorkersHoldJobs, TypeOK, NoteAbandoned
  <2> QED
    BY <1>4, <2>1 DEF TypeInv, WorkersHoldJobs, TypeOK, NoteAbandoned
<1>5. CASE ClearBusy(o)
  BY <1>5 DEF TypeInv, WorkersHoldJobs, TypeOK, ClearBusy, Acquire
<1>6. CASE ClearBusyLocked(o)
  BY <1>1, <1>6 DEF TypeInv, WorkersHoldJobs, TypeOK, ClearBusyLocked, Owns, Release
<1>7. CASE RunDone(o)
  BY <1>7 DEF TypeInv, WorkersHoldJobs, TypeOK, RunDone
<1> QED
  BY <1>2, <1>3, <1>4, <1>5, <1>6, <1>7 DEF Announcer

LEMMA TypeWorker ==
  ASSUME TypeInv, NEW w \in Job, Worker(w)
  PROVE  TypeInv'
<1> USE ConstantsAssumption DEF Task, Owner, Working, scheduler, calls, workers, history
<1>1. ThreadOf[w] \in Thread
  OBVIOUS
<1>2. CASE WorkerStart(w)
  BY <1>2 DEF TypeInv, WorkersHoldJobs, TypeOK, WorkerStart, Acquire
<1>3. CASE WorkerTakes(w)
  <2> DEFINE k   == ThreadOf[w]
             job == Head(pending_by_thread[k])
  <2>1. job \in Job /\ job # None /\ Tail(pending_by_thread[k]) \in Seq(Job)
    BY <1>1, <1>3 DEF TypeInv, TypeOK, WorkerTakes
  <2>2. LiveRun(k) \in Owner \cup {None}
    BY <1>1 DEF TypeInv, TypeOK, LiveRun
  <2> HIDE DEF job
  <2>3. /\ pending_by_thread' = [pending_by_thread EXCEPT ![k] = Tail(@)]
        /\ queued_by_progress' = queued_by_progress \ {job}
        /\ takes' = [takes EXCEPT ![w] = job]
        /\ awaits' = [awaits EXCEPT ![w] = LiveRun(k)]
        /\ started' \in {started, started \cup {job}}
        /\ \E s \in {"waiting", "running"} : worker' = [worker EXCEPT ![w] = s]
        /\ lock # <<>> /\ lock' = Tail(lock) /\ worker[w] = "dequeue"
        /\ UNCHANGED <<active_threads, busy_until, finished, calls, ahead, returned>>
    BY <1>3 DEF WorkerTakes, job, Owns, Release
  <2>4. TypeOK'
    BY <1>1, <2>1, <2>2, <2>3 DEF TypeInv, TypeOK
  <2>5. WorkersHoldJobs'
    BY <2>1, <2>3 DEF TypeInv, TypeOK, WorkersHoldJobs
  <2> QED
    BY <2>4, <2>5 DEF TypeInv
<1>4. CASE WorkerProceeds(w)
  BY <1>4 DEF TypeInv, WorkersHoldJobs, TypeOK, WorkerProceeds
<1>5. CASE WorkerJobOver(w)
  BY <1>5 DEF TypeInv, WorkersHoldJobs, TypeOK, WorkerJobOver, Acquire
<1>6. CASE WorkerFindsNothing(w)
  BY <1>6 DEF TypeInv, WorkersHoldJobs, TypeOK, WorkerFindsNothing, Owns
<1>7. CASE WorkerExits(w)
  BY <1>7 DEF TypeInv, WorkersHoldJobs, TypeOK, WorkerExits, Owns, Release
<1> QED
  BY <1>2, <1>3, <1>4, <1>5, <1>6, <1>7 DEF Worker

\* Every reachable state has the declared types, and workers hold jobs as they should.
THEOREM TypeInvariance == Spec => []TypeInv
<1>1. TypeInv /\ [Next]_vars => TypeInv'
  <2> SUFFICES ASSUME TypeInv, [Next]_vars PROVE TypeInv'
    OBVIOUS
  <2>1. CASE Next
    BY <2>1, TypeCaller, TypeAnnouncer, TypeWorker DEF Next
  <2>2. CASE UNCHANGED vars
    BY <2>2 DEF TypeInv, WorkersHoldJobs, TypeOK, vars, scheduler, calls, workers, history
  <2> QED
    BY <2>1, <2>2
<1> QED
  BY <1>1, TypeInit, PTL DEF Spec

\* The declared types alone, as the runs check them.
THEOREM TypeCorrect == Spec => []TypeOK
<1>1. TypeInv => TypeOK
  BY DEF TypeInv
<1> QED
  BY <1>1, TypeInvariance, PTL

----------------------------------------------------------------------------
(***************************************************************************)
(* No job is stranded.  NoStrandedJob is inductive: whoever unmarks a      *)
(* thread either saw its queue empty in the same step, or leaves the       *)
(* workers that are still working as they are.                             *)
(***************************************************************************)
LEMMA StrandedCaller ==
  ASSUME TypeInv, NoStrandedJob, NEW j \in Job, Caller(j)
  PROVE  NoStrandedJob'
<1> USE ConstantsAssumption DEF Owner, TypeInv, TypeOK, scheduler, calls, workers, history
<1>1. ThreadOf[j] \in Thread
  OBVIOUS
<1>2. CASE EnqueueLocked(j)
  <2> SUFFICES ASSUME NEW k \in Thread,
                      pending_by_thread'[k] # <<>> \/ k \in active_threads'
               PROVE  LiveWorker(k)'
    BY DEF NoStrandedJob
  <2>1. \A w \in Job : worker[w] \in Working => worker'[w] \in Working
    BY <1>2 DEF EnqueueLocked, Working
  <2>2. CASE LiveWorker(k)
    BY <2>1, <2>2 DEF LiveWorker
  <2>3. CASE ~LiveWorker(k)
    <3>1. k = ThreadOf[j] /\ k \notin active_threads
      BY <1>1, <1>2, <2>3 DEF EnqueueLocked, NoStrandedJob
    <3>2. worker'[j] = "starting"
      BY <1>2, <3>1 DEF EnqueueLocked
    <3> QED
      BY <3>1, <3>2 DEF LiveWorker, Working
  <2> QED
    BY <2>2, <2>3
<1>3. CASE CancelHit(j)
  <2>1. PICK i \in 1..Len(pending_by_thread[ThreadOf[j]]) :
          pending_by_thread' = [pending_by_thread EXCEPT ![ThreadOf[j]] = RemoveAt(@, i)]
    BY <1>3 DEF CancelHit
  <2>2. pending_by_thread[ThreadOf[j]] # <<>>
    BY <1>1, <2>1
  <2>3. \A k \in Thread : pending_by_thread'[k] # <<>> => pending_by_thread[k] # <<>>
    BY <1>1, <2>1, <2>2
  <2> QED
    BY <1>3, <2>3 DEF CancelHit, NoStrandedJob, LiveWorker
<1>4. CASE Enqueue(j) \/ CancelQueued(j) \/ CancelMiss(j)
  BY <1>4 DEF Enqueue, CancelQueued, CancelMiss, NoStrandedJob, LiveWorker
<1> QED
  BY <1>2, <1>3, <1>4 DEF Caller

LEMMA StrandedWorker ==
  ASSUME TypeInv, NoStrandedJob, NEW w \in Job, Worker(w)
  PROVE  NoStrandedJob'
<1> USE ConstantsAssumption DEF Owner, TypeInv, TypeOK, Working, scheduler, calls, workers, history
<1>1. ThreadOf[w] \in Thread
  OBVIOUS
<1>2. CASE WorkerFindsNothing(w) \/ WorkerExits(w)
  <2> SUFFICES ASSUME NEW k \in Thread,
                      pending_by_thread'[k] # <<>> \/ k \in active_threads'
               PROVE  LiveWorker(k)'
    BY DEF NoStrandedJob
  <2>1. PICK v \in Job : ThreadOf[v] = k /\ worker[v] \in Working
    BY <1>2 DEF WorkerFindsNothing, WorkerExits, NoStrandedJob, LiveWorker
  <2>2. v # w
    BY <1>2, <2>1 DEF WorkerFindsNothing, WorkerExits
  <2>3. worker'[v] = worker[v]
    BY <1>2, <2>2 DEF WorkerFindsNothing, WorkerExits
  <2> QED
    BY <2>1, <2>3 DEF LiveWorker
<1>3. CASE WorkerStart(w) \/ WorkerProceeds(w) \/ WorkerJobOver(w) \/ WorkerTakes(w)
  <2>1. \A v \in Job : worker[v] \in Working => worker'[v] \in Working
    BY <1>3 DEF WorkerStart, WorkerProceeds, WorkerJobOver, WorkerTakes
  <2>2. active_threads' = active_threads
    BY <1>3 DEF WorkerStart, WorkerProceeds, WorkerJobOver, WorkerTakes
  <2>3. \A k \in Thread : pending_by_thread'[k] # <<>> => pending_by_thread[k] # <<>>
    BY <1>1, <1>3 DEF WorkerStart, WorkerProceeds, WorkerJobOver, WorkerTakes
  <2> QED
    BY <2>1, <2>2, <2>3 DEF NoStrandedJob, LiveWorker
<1> QED
  BY <1>2, <1>3 DEF Worker

\* No interleaving of enqueue with the exit of a worker strands a queued job.
THEOREM NoJobIsStranded == Spec => []NoStrandedJob
<1>1. Init => NoStrandedJob
  BY DEF Init, NoStrandedJob
<1>2. TypeInv /\ NoStrandedJob /\ [Next]_vars => NoStrandedJob'
  <2> SUFFICES ASSUME TypeInv, NoStrandedJob, [Next]_vars PROVE NoStrandedJob'
    OBVIOUS
  <2>1. CASE \E o \in Owner : Announcer(o)
    BY <2>1 DEF Announcer, NoteThreadKnown, NoteLocked, NoteAbandoned, ClearBusy,
                ClearBusyLocked, RunDone, NoStrandedJob, LiveWorker, workers, scheduler
  <2>2. CASE UNCHANGED vars
    BY <2>2 DEF NoStrandedJob, LiveWorker, vars, scheduler, workers
  <2> QED
    BY <2>1, <2>2, StrandedCaller, StrandedWorker DEF Next
<1> QED
  BY <1>1, <1>2, TypeInvariance, PTL DEF Spec

----------------------------------------------------------------------------
(***************************************************************************)
(* A job is in one place, and the index agrees with the queues.  PlaceInv  *)
(* adds to JobInOnePlace what makes it inductive: a job that got anywhere  *)
(* was accepted, and a worker holds a job of its own thread.               *)
(***************************************************************************)
Accepted ==
  /\ \A j \in Job : \/ Queued(j) \/ Taken(j) \/ j \in started \/ cancelling[j] = "hit"
                    => enqueuing[j] = "returned"
  /\ \A w \in Job : takes[w] # None => ThreadOf[takes[w]] = ThreadOf[w]
  /\ \A w \in Job : worker[w] = "running" => takes[w] \in started

PlaceInv == JobInOnePlace /\ Accepted /\ IndexMatchesQueues

LEMMA PlaceInit == Init => PlaceInv
<1> SUFFICES ASSUME Init PROVE PlaceInv
  OBVIOUS
<1> USE ConstantsAssumption DEF Owner
<1>1. /\ \A j \in Job, k \in Thread : ~QueuedIn(j, k)
      /\ \A j \in Job : ~Queued(j) /\ ~Taken(j)
  BY DEF Init, Queued, QueuedIn, Taken, Contains
<1>2. \A k \in Thread : IsInjective(pending_by_thread[k])
  BY DEF Init, IsInjective
<1> QED
  BY <1>1, <1>2 DEF Init, PlaceInv, JobInOnePlace, Accepted, IndexMatchesQueues

\* A step that moves no job keeps every job where it is.
LEMMA PlaceFrame ==
  ASSUME PlaceInv,
         UNCHANGED <<pending_by_thread, queued_by_progress, takes, started, returned>>,
         \A j \in Job : enqueuing[j] = "returned" => enqueuing'[j] = "returned",
         \A j \in Job : cancelling'[j] = "hit" => cancelling[j] = "hit",
         \A w \in Job : worker'[w] \in {"waiting", "running"} => worker'[w] = worker[w]
  PROVE  PlaceInv'
<1>1. /\ \A j \in Job, k \in Thread : QueuedIn(j, k)' <=> QueuedIn(j, k)
      /\ \A j \in Job : Queued(j)' <=> Queued(j)
      /\ \A j \in Job : Taken(j)' <=> Taken(j)
      /\ \A k \in Thread : IsInjective(pending_by_thread[k])' <=> IsInjective(pending_by_thread[k])
  BY DEF Queued, QueuedIn, Taken
<1>2. JobInOnePlace'
  BY <1>1 DEF PlaceInv, JobInOnePlace
<1>3. Accepted'
  BY <1>1 DEF PlaceInv, Accepted
<1>4. IndexMatchesQueues'
  BY <1>1, ConstantsAssumption DEF PlaceInv, IndexMatchesQueues
<1> QED
  BY <1>2, <1>3, <1>4 DEF PlaceInv

LEMMA PlaceEnqueue ==
  ASSUME TypeInv, PlaceInv, NEW j \in Job, EnqueueLocked(j)
  PROVE  PlaceInv'
<1> USE ConstantsAssumption DEF Owner
<1> DEFINE k == ThreadOf[j]
<1>1. k \in Thread
  OBVIOUS
<1>2. ~Contains(pending_by_thread[k], j) /\ ~Taken(j) /\ j \notin started
      /\ cancelling[j] # "hit" /\ worker[j] = "none"
  BY DEF PlaceInv, Accepted, Queued, QueuedIn, EnqueueLocked, TypeInv, WorkersHoldJobs
<1>3. /\ IsInjective(Append(pending_by_thread[k], j))
      /\ \A y : Contains(Append(pending_by_thread[k], j), y)
                <=> Contains(pending_by_thread[k], y) \/ y = j
  BY <1>1, <1>2, AppendUnique DEF TypeInv, TypeOK, PlaceInv, JobInOnePlace
<1>4. \A n \in Thread : pending_by_thread'[n] =
        IF n = k THEN Append(pending_by_thread[k], j) ELSE pending_by_thread[n]
  BY <1>1 DEF EnqueueLocked, TypeInv, TypeOK
<1> HIDE DEF k
<1>5. \A n \in Thread, y \in Job : QueuedIn(y, n)' <=> QueuedIn(y, n) \/ (y = j /\ n = k)
  BY <1>3, <1>4 DEF QueuedIn
<1>6. \A n \in Thread : IsInjective(pending_by_thread'[n])
  BY <1>3, <1>4 DEF PlaceInv, JobInOnePlace
<1>7. \A y \in Job : Queued(y)' <=> Queued(y) \/ y = j
  BY <1>5 DEF Queued, k
<1>8. /\ UNCHANGED <<takes, started, returned, cancelling>>
      /\ \A y \in Job : Taken(y)' <=> Taken(y)
      /\ queued_by_progress' = queued_by_progress \cup ({j} \cap Tracked)
      /\ \A y \in Job : enqueuing[y] = "returned" => enqueuing'[y] = "returned"
      /\ enqueuing'[j] = "returned"
      /\ \A w \in Job : worker'[w] \in {"waiting", "running"} => worker'[w] = worker[w]
  BY DEF EnqueueLocked, Taken, TypeInv, TypeOK, k
<1>9. JobInOnePlace'
  BY <1>2, <1>5, <1>6, <1>7, <1>8 DEF PlaceInv, JobInOnePlace, k
<1>10. Accepted'
  BY <1>7, <1>8 DEF PlaceInv, Accepted
<1>11. IndexMatchesQueues'
  BY <1>7, <1>8 DEF PlaceInv, IndexMatchesQueues
<1> QED
  BY <1>9, <1>10, <1>11 DEF PlaceInv

\* A job leaves the queue of thread k: what that does to where jobs are.
LEMMA PlaceLeaves ==
  ASSUME TypeInv, PlaceInv, NEW k \in Thread, NEW job \in Job, NEW rest \in Seq(Job),
         Contains(pending_by_thread[k], job), IsInjective(rest),
         \A y : Contains(rest, y) <=> Contains(pending_by_thread[k], y) /\ y # job,
         pending_by_thread' = [pending_by_thread EXCEPT ![k] = rest]
  PROVE  /\ k = ThreadOf[job] /\ Queued(job)
         /\ \A n \in Thread : IsInjective(pending_by_thread'[n])
         /\ \A n \in Thread, y \in Job : QueuedIn(y, n)' <=> QueuedIn(y, n) /\ y # job
         /\ \A y \in Job : Queued(y)' <=> Queued(y) /\ y # job
<1> USE ConstantsAssumption DEF Owner
<1>1. k = ThreadOf[job] /\ Queued(job)
  BY DEF PlaceInv, JobInOnePlace, QueuedIn, Queued
<1>2. \A n \in Thread : pending_by_thread'[n] = IF n = k THEN rest ELSE pending_by_thread[n]
  BY DEF TypeInv, TypeOK
<1>3. \A n \in Thread : IsInjective(pending_by_thread'[n])
  BY <1>2 DEF PlaceInv, JobInOnePlace
<1>4. ASSUME NEW n \in Thread, NEW y \in Job
      PROVE  QueuedIn(y, n)' <=> QueuedIn(y, n) /\ y # job
  <2>1. CASE n = k
    BY <1>2, <2>1 DEF QueuedIn
  <2>2. CASE n # k
    BY <1>1, <1>2, <2>2 DEF QueuedIn, PlaceInv, JobInOnePlace
  <2> QED
    BY <2>1, <2>2
<1>5. \A y \in Job : Queued(y)' <=> Queued(y) /\ y # job
  BY <1>4 DEF Queued
<1> QED
  BY <1>1, <1>3, <1>4, <1>5

LEMMA CancelHitLeaves ==
  ASSUME TypeInv, PlaceInv, NEW j \in Job, CancelHit(j)
  PROVE  /\ Queued(j)
         /\ \A n \in Thread : IsInjective(pending_by_thread'[n])
         /\ \A n \in Thread, y \in Job : QueuedIn(y, n)' <=> QueuedIn(y, n) /\ y # j
         /\ \A y \in Job : Queued(y)' <=> Queued(y) /\ y # j
<1> USE ConstantsAssumption DEF Owner
<1>1. PICK i \in 1..Len(pending_by_thread[ThreadOf[j]]) :
        /\ pending_by_thread[ThreadOf[j]][i] = j
        /\ pending_by_thread' = [pending_by_thread EXCEPT
             ![ThreadOf[j]] = RemoveAt(pending_by_thread[ThreadOf[j]], i)]
  BY DEF CancelHit
<1>2. /\ ThreadOf[j] \in Thread
      /\ pending_by_thread[ThreadOf[j]] \in Seq(Job)
      /\ IsInjective(pending_by_thread[ThreadOf[j]])
      /\ Contains(pending_by_thread[ThreadOf[j]], j)
  BY <1>1 DEF TypeInv, TypeOK, PlaceInv, JobInOnePlace, Contains
<1> DEFINE rest == RemoveAt(pending_by_thread[ThreadOf[j]], i)
<1>3. /\ rest \in Seq(Job) /\ IsInjective(rest)
      /\ \A y : Contains(rest, y) <=> Contains(pending_by_thread[ThreadOf[j]], y) /\ y # j
  BY <1>1, <1>2, RemoveAtUnique
<1> HIDE DEF rest
<1>4. pending_by_thread' = [pending_by_thread EXCEPT ![ThreadOf[j]] = rest]
  BY <1>1 DEF rest
<1> QED
  BY <1>2, <1>3, <1>4, PlaceLeaves

LEMMA PlaceCancelHit ==
  ASSUME TypeInv, PlaceInv, NEW j \in Job, CancelHit(j)
  PROVE  PlaceInv'
<1> USE ConstantsAssumption DEF Owner
<1>1. /\ UNCHANGED <<takes, started, returned, worker, enqueuing>>
      /\ \A y \in Job : Taken(y)' <=> Taken(y)
      /\ queued_by_progress' = queued_by_progress \ {j}
      /\ cancelling' = [cancelling EXCEPT ![j] = "hit"]
      /\ cancelling \in [Job -> {"idle", "locking", "hit", "miss"}]
  BY DEF CancelHit, Taken, TypeInv, TypeOK, workers, history
<1>2. JobInOnePlace'
  BY <1>1, CancelHitLeaves DEF PlaceInv, JobInOnePlace
<1>3. Accepted'
  BY <1>1, CancelHitLeaves DEF PlaceInv, Accepted
<1>4. IndexMatchesQueues'
  BY <1>1, CancelHitLeaves, SMTT(30) DEF PlaceInv, IndexMatchesQueues
<1> QED
  BY <1>2, <1>3, <1>4 DEF PlaceInv

\* The job a worker takes is the head of the queue of the worker's thread.
LEMMA WorkerTakesLeaves ==
  ASSUME TypeInv, PlaceInv, NEW w \in Job, WorkerTakes(w),
         NEW job, job = Head(pending_by_thread[ThreadOf[w]])
  PROVE  /\ job \in Job /\ ThreadOf[w] = ThreadOf[job] /\ Queued(job)
         /\ \A n \in Thread : IsInjective(pending_by_thread'[n])
         /\ \A n \in Thread, y \in Job : QueuedIn(y, n)' <=> QueuedIn(y, n) /\ y # job
         /\ \A y \in Job : Queued(y)' <=> Queued(y) /\ y # job
<1> USE ConstantsAssumption DEF Owner
<1> DEFINE k    == ThreadOf[w]
           rest == Tail(pending_by_thread[k])
<1>1. k \in Thread /\ pending_by_thread[k] \in Seq(Job) /\ pending_by_thread[k] # <<>>
      /\ IsInjective(pending_by_thread[k])
  BY DEF TypeInv, TypeOK, PlaceInv, JobInOnePlace, WorkerTakes
<1>2. /\ job \in Job /\ rest \in Seq(Job) /\ IsInjective(rest)
      /\ Contains(pending_by_thread[k], job)
      /\ \A y : Contains(rest, y) <=> Contains(pending_by_thread[k], y) /\ y # job
  BY <1>1, TailUnique
<1>3. pending_by_thread' = [pending_by_thread EXCEPT ![k] = rest]
  BY DEF WorkerTakes
<1> HIDE DEF k, rest
<1>4. /\ k = ThreadOf[job] /\ Queued(job)
      /\ \A n \in Thread : IsInjective(pending_by_thread'[n])
      /\ \A n \in Thread, y \in Job : QueuedIn(y, n)' <=> QueuedIn(y, n) /\ y # job
      /\ \A y \in Job : Queued(y)' <=> Queued(y) /\ y # job
  BY <1>1, <1>2, <1>3, PlaceLeaves
<1> QED
  BY <1>2, <1>4 DEF k

LEMMA PlaceWorkerTakes ==
  ASSUME TypeInv, PlaceInv, NEW w \in Job, WorkerTakes(w)
  PROVE  PlaceInv'
<1> USE ConstantsAssumption DEF Owner
<1> DEFINE job == Head(pending_by_thread[ThreadOf[w]])
<1>1. /\ job \in Job /\ ThreadOf[w] = ThreadOf[job] /\ Queued(job)
      /\ \A n \in Thread : IsInjective(pending_by_thread'[n])
      /\ \A n \in Thread, y \in Job : QueuedIn(y, n)' <=> QueuedIn(y, n) /\ y # job
      /\ \A y \in Job : Queued(y)' <=> Queued(y) /\ y # job
  BY WorkerTakesLeaves
<1>2. /\ queued_by_progress' = queued_by_progress \ {job}
      /\ takes' = [takes EXCEPT ![w] = job]
      /\ \/ worker' = [worker EXCEPT ![w] = "waiting"] /\ started' = started
         \/ worker' = [worker EXCEPT ![w] = "running"] /\ started' = started \cup {job}
      /\ UNCHANGED <<returned, enqueuing, cancelling>>
      /\ takes[w] = None /\ job # None
  BY <1>1 DEF WorkerTakes, TypeInv, TypeOK, WorkersHoldJobs, calls
<1> HIDE DEF job
<1>3. ~Taken(job) /\ job \notin started /\ job \notin returned
      /\ cancelling[job] # "hit" /\ enqueuing[job] = "returned"
  BY <1>1 DEF PlaceInv, JobInOnePlace, Accepted
<1>4. /\ \A y \in Job : Taken(y)' <=> Taken(y) \/ y = job
      /\ \A v \in Job : takes'[v] = IF v = w THEN job ELSE takes[v]
  BY <1>2 DEF Taken, TypeInv, TypeOK
<1>5. \A v \in Job : v # w => worker'[v] = worker[v]
  BY <1>2 DEF TypeInv, TypeOK
<1>6. JobInOnePlace'
  BY <1>1, <1>2, <1>3, <1>4, <1>5 DEF PlaceInv, JobInOnePlace, Taken, TypeInv, TypeOK
<1>7. Accepted'
  BY <1>1, <1>2, <1>3, <1>4, <1>5 DEF PlaceInv, Accepted, TypeInv, TypeOK
<1>8. IndexMatchesQueues'
  BY <1>1, <1>2 DEF PlaceInv, IndexMatchesQueues
<1> QED
  BY <1>6, <1>7, <1>8 DEF PlaceInv

LEMMA PlaceWorker ==
  ASSUME TypeInv, PlaceInv, NEW w \in Job, Worker(w)
  PROVE  PlaceInv'
<1> USE ConstantsAssumption DEF Owner
<1>1. CASE WorkerStart(w) \/ WorkerFindsNothing(w) \/ WorkerExits(w)
  <2>1. UNCHANGED <<pending_by_thread, queued_by_progress, takes, started, returned,
                    enqueuing, cancelling>>
    BY <1>1 DEF WorkerStart, WorkerFindsNothing, WorkerExits, scheduler, calls, history
  <2>2. \A v \in Job : worker'[v] \in {"waiting", "running"} => worker'[v] = worker[v]
    BY <1>1 DEF WorkerStart, WorkerFindsNothing, WorkerExits, TypeInv, TypeOK
  <2> QED
    BY <2>1, <2>2, PlaceFrame
<1>2. CASE WorkerProceeds(w)
  <2> DEFINE job == takes[w]
  <2>1. /\ worker[w] = "waiting" /\ job \in Job /\ job # None
        /\ worker' = [worker EXCEPT ![w] = "running"]
        /\ started' = started \cup {job}
        /\ UNCHANGED <<pending_by_thread, queued_by_progress, takes, returned,
                       enqueuing, cancelling>>
    BY <1>2 DEF WorkerProceeds, TypeInv, TypeOK, WorkersHoldJobs, scheduler, calls
  <2>2. Taken(job)
    BY <2>1 DEF Taken
  <2>3. /\ \A j \in Job, k \in Thread : QueuedIn(j, k)' <=> QueuedIn(j, k)
        /\ \A j \in Job : Queued(j)' <=> Queued(j)
        /\ \A j \in Job : Taken(j)' <=> Taken(j)
        /\ \A k \in Thread : IsInjective(pending_by_thread'[k])
    BY <2>1 DEF Queued, QueuedIn, Taken, PlaceInv, JobInOnePlace
  <2> HIDE DEF job
  <2>4. \A v \in Job : takes[v] = job => v = w
    BY <2>1 DEF PlaceInv, JobInOnePlace, job
  <2>5. \A v \in Job : worker'[v] = IF v = w THEN "running" ELSE worker[v]
    BY <2>1 DEF TypeInv, TypeOK
  <2>6. JobInOnePlace'
    BY <2>1, <2>2, <2>3, <2>4, <2>5 DEF PlaceInv, JobInOnePlace
  <2>7. Accepted'
    BY <2>1, <2>2, <2>3, <2>5 DEF PlaceInv, Accepted, job
  <2>8. IndexMatchesQueues'
    BY <2>1, <2>3 DEF PlaceInv, IndexMatchesQueues
  <2> QED
    BY <2>6, <2>7, <2>8 DEF PlaceInv
<1>3. CASE WorkerJobOver(w)
  <2> DEFINE job == takes[w]
  <2>1. /\ worker[w] = "running" /\ job \in Job /\ job # None
        /\ worker' = [worker EXCEPT ![w] = "dequeue"]
        /\ takes' = [takes EXCEPT ![w] = None]
        /\ returned' = returned \cup {job}
        /\ UNCHANGED <<pending_by_thread, queued_by_progress, started,
                       enqueuing, cancelling>>
    BY <1>3 DEF WorkerJobOver, TypeInv, TypeOK, WorkersHoldJobs, scheduler, calls
  <2>2. job \in started
    BY <2>1 DEF PlaceInv, Accepted
  <2>3. /\ \A j \in Job, k \in Thread : QueuedIn(j, k)' <=> QueuedIn(j, k)
        /\ \A j \in Job : Queued(j)' <=> Queued(j)
        /\ \A k \in Thread : IsInjective(pending_by_thread'[k])
    BY <2>1 DEF Queued, QueuedIn, PlaceInv, JobInOnePlace
  <2>4. \A v \in Job : takes'[v] = IF v = w THEN None ELSE takes[v]
    BY <2>1 DEF TypeInv, TypeOK
  <2>5. \A v \in Job : worker'[v] = IF v = w THEN "dequeue" ELSE worker[v]
    BY <2>1 DEF TypeInv, TypeOK
  <2>6. \A j \in Job : Taken(j)' => Taken(j) /\ j # job
    BY <2>1, <2>4 DEF Taken, PlaceInv, JobInOnePlace
  <2> HIDE DEF job
  <2>7. JobInOnePlace'
    BY <2>1, <2>2, <2>3, <2>4, <2>5, <2>6 DEF PlaceInv, JobInOnePlace
  <2>8. Accepted'
    BY <2>1, <2>3, <2>4, <2>5, <2>6 DEF PlaceInv, Accepted
  <2>9. IndexMatchesQueues'
    BY <2>1, <2>3 DEF PlaceInv, IndexMatchesQueues
  <2> QED
    BY <2>7, <2>8, <2>9 DEF PlaceInv
<1> QED
  BY <1>1, <1>2, <1>3, PlaceWorkerTakes DEF Worker

LEMMA PlaceCaller ==
  ASSUME TypeInv, PlaceInv, NEW j \in Job, Caller(j)
  PROVE  PlaceInv'
<1>1. CASE Enqueue(j) \/ CancelQueued(j)
  <2>1. UNCHANGED <<pending_by_thread, queued_by_progress, takes, started, returned, worker>>
    BY <1>1 DEF Enqueue, CancelQueued, scheduler, workers, history
  <2>2. /\ \A i \in Job : enqueuing[i] = "returned" => enqueuing'[i] = "returned"
        /\ \A i \in Job : cancelling'[i] = "hit" => cancelling[i] = "hit"
    BY <1>1 DEF Enqueue, CancelQueued, TypeInv, TypeOK
  <2> QED
    BY <2>1, <2>2, PlaceFrame
<1>2. CASE CancelMiss(j)
  <2>1. UNCHANGED <<pending_by_thread, takes, started, returned, worker, enqueuing>>
    BY <1>2 DEF CancelMiss, workers, history
  <2>2. j \notin queued_by_progress
    BY <1>2, ConstantsAssumption
       DEF CancelMiss, PlaceInv, IndexMatchesQueues, Queued, QueuedIn, TypeInv, TypeOK
  <2>3. queued_by_progress' = queued_by_progress
    BY <1>2, <2>2 DEF CancelMiss
  <2>4. \A i \in Job : cancelling'[i] = "hit" => cancelling[i] = "hit"
    BY <1>2 DEF CancelMiss, TypeInv, TypeOK
  <2> QED
    BY <2>1, <2>3, <2>4, PlaceFrame
<1> QED
  BY <1>1, <1>2, PlaceEnqueue, PlaceCancelHit DEF Caller

LEMMA PlaceInvariance == Spec => []PlaceInv
<1>1. TypeInv /\ PlaceInv /\ [Next]_vars => PlaceInv'
  <2> SUFFICES ASSUME TypeInv, PlaceInv, [Next]_vars PROVE PlaceInv'
    OBVIOUS
  <2>1. CASE \E o \in Owner : Announcer(o)
    <3>1. UNCHANGED <<pending_by_thread, queued_by_progress, takes, started, returned,
                      enqueuing, cancelling, worker>>
      BY <2>1 DEF Announcer, NoteThreadKnown, NoteLocked, NoteAbandoned, ClearBusy,
                  ClearBusyLocked, RunDone, workers, scheduler, calls, history
    <3> QED
      BY <3>1, PlaceFrame
  <2>2. CASE UNCHANGED vars
    BY <2>2, PlaceFrame DEF vars, scheduler, workers, calls, history
  <2> QED
    BY <2>1, <2>2, PlaceCaller, PlaceWorker DEF Next
<1> QED
  BY <1>1, PlaceInit, TypeInvariance, PTL DEF Spec

\* A job that was cancelled never runs, and no job runs twice, on any number of workers.
THEOREM EachJobInOnePlace == Spec => []JobInOnePlace
<1>1. PlaceInv => JobInOnePlace
  BY DEF PlaceInv
<1> QED
  BY <1>1, PlaceInvariance, PTL

\* The progress index and the queues agree in every state.
THEOREM IndexIsExact == Spec => []IndexMatchesQueues
<1>1. PlaceInv => IndexMatchesQueues
  BY DEF PlaceInv
<1> QED
  BY <1>1, PlaceInvariance, PTL

----------------------------------------------------------------------------
(***************************************************************************)
(* Jobs start after the run they were queued behind.  While that run is    *)
(* alive, its registration survives every other announcement and every     *)
(* _clear_busy as long as the job is queued, and the worker that takes the *)
(* job waits for it.                                                       *)
(***************************************************************************)
RunAhead(j) == ahead[j] # None /\ ahead[j] \notin finished

AheadInv ==
  /\ StartsAfterRunAhead
  /\ \A j \in Job : RunAhead(j) /\ Queued(j) => busy_until[ThreadOf[j]] = ahead[j]
  /\ \A j, w \in Job : RunAhead(j) /\ takes[w] = j => awaits[w] = ahead[j]
  /\ \A o \in Owner : noting[o] = "clearing" => o \in finished

LEMMA AheadInit == Init => AheadInv
BY DEF Init, AheadInv, RunAhead, StartsAfterRunAhead

\* Steps that let no job in, take none, and leave the registrations alone.
LEMMA AheadFrame ==
  ASSUME AheadInv, UNCHANGED <<busy_until, takes, awaits, ahead, started>>,
         \A j \in Job : Queued(j)' => Queued(j),
         finished \subseteq finished',
         \A o \in Owner : noting'[o] = "clearing" => noting[o] = "clearing" \/ o \in finished
  PROVE  AheadInv'
BY DEF AheadInv, RunAhead, StartsAfterRunAhead

LEMMA AheadCaller ==
  ASSUME TypeInv, PlaceInv, AheadInv, NEW j \in Job, Caller(j)
  PROVE  AheadInv'
<1> USE ConstantsAssumption DEF Owner
<1>1. CASE EnqueueLocked(j)
  <2> DEFINE k == ThreadOf[j]
  <2>1. /\ k \in Thread /\ ~Taken(j) /\ j \notin started
        /\ ahead' = [ahead EXCEPT ![j] = LiveRun(k)]
        /\ UNCHANGED <<busy_until, takes, awaits, started, finished, noting>>
    BY <1>1 DEF EnqueueLocked, PlaceInv, Accepted
  <2>2. \A y \in Job : Queued(y)' => Queued(y) \/ y = j
    <3>1. \A n \in Thread : pending_by_thread'[n] =
            IF n = k THEN Append(pending_by_thread[k], j) ELSE pending_by_thread[n]
      BY <1>1 DEF EnqueueLocked, TypeInv, TypeOK
    <3>2. \A y : Contains(Append(pending_by_thread[k], j), y)
                 => Contains(pending_by_thread[k], y) \/ y = j
      BY <2>1 DEF TypeInv, TypeOK, Contains
    <3> HIDE DEF k
    <3> QED
      BY <3>1, <3>2 DEF Queued, QueuedIn
  <2>3. \A y \in Job : ahead'[y] = IF y = j THEN LiveRun(k) ELSE ahead[y]
    BY <2>1 DEF TypeInv, TypeOK
  <2>4. LiveRun(k) # None => LiveRun(k) = busy_until[k]
    BY DEF LiveRun
  <2>5. \A w \in Job : takes[w] # j
    BY <2>1 DEF Taken
  <2> HIDE DEF k
  <2>6. StartsAfterRunAhead'
    BY <2>1, <2>3 DEF AheadInv, StartsAfterRunAhead, TypeInv, TypeOK
  <2>7. \A y \in Job : RunAhead(y)' /\ Queued(y)' => busy_until'[ThreadOf[y]] = ahead'[y]
    BY <2>1, <2>2, <2>3, <2>4 DEF AheadInv, RunAhead, k
  <2>8. \A y, w \in Job : RunAhead(y)' /\ takes'[w] = y => awaits'[w] = ahead'[y]
    BY <2>1, <2>3, <2>5 DEF AheadInv, RunAhead
  <2> QED
    BY <2>1, <2>6, <2>7, <2>8 DEF AheadInv
<1>2. CASE CancelHit(j)
  BY <1>2, CancelHitLeaves, AheadFrame DEF CancelHit, workers, history
<1>3. CASE Enqueue(j) \/ CancelQueued(j) \/ CancelMiss(j)
  <2>1. UNCHANGED <<busy_until, takes, awaits, ahead, started, finished, noting, pending_by_thread>>
    BY <1>3 DEF Enqueue, CancelQueued, CancelMiss, workers, history, scheduler
  <2> QED
    BY <2>1, AheadFrame DEF Queued, QueuedIn
<1> QED
  BY <1>1, <1>2, <1>3 DEF Caller

LEMMA AheadAnnouncer ==
  ASSUME TypeInv, AheadInv, NEW o \in Owner, Announcer(o)
  PROVE  AheadInv'
<1> USE ConstantsAssumption DEF Owner
<1>1. UNCHANGED <<takes, awaits, ahead, started, pending_by_thread>>
  BY DEF Announcer, NoteThreadKnown, NoteLocked, NoteAbandoned, ClearBusy, ClearBusyLocked,
         RunDone, workers, scheduler, history
<1>2. \A j \in Job : Queued(j)' <=> Queued(j)
  BY <1>1 DEF Queued, QueuedIn
<1>3. CASE NoteLocked(o) \/ ClearBusyLocked(o)
  <2>1. finished' = finished
    BY <1>3 DEF NoteLocked, ClearBusyLocked
  <2>2. \A p \in Owner : noting'[p] = "clearing" => noting[p] = "clearing"
    BY <1>3 DEF NoteLocked, ClearBusyLocked, TypeInv, TypeOK
  <2>3. ASSUME NEW j \in Job, RunAhead(j), Queued(j)
        PROVE  busy_until'[ThreadOf[j]] = ahead[j]
    <3>1. busy_until[ThreadOf[j]] = ahead[j] /\ ahead[j] # None /\ ahead[j] \notin finished
      BY <2>3 DEF AheadInv, RunAhead
    <3>2. LiveRun(ThreadOf[j]) = ahead[j]
      BY <3>1 DEF LiveRun
    <3>3. CASE NoteLocked(o)
      BY <3>1, <3>2, <3>3 DEF NoteLocked, TypeInv, TypeOK
    <3>4. CASE ClearBusyLocked(o)
      BY <3>1, <3>4 DEF ClearBusyLocked, AheadInv, TypeInv, TypeOK
    <3> QED
      BY <1>3, <3>3, <3>4
  <2> QED
    BY <1>1, <1>2, <2>1, <2>2, <2>3 DEF AheadInv, RunAhead, StartsAfterRunAhead
<1>4. CASE NoteThreadKnown(o) \/ NoteAbandoned(o) \/ ClearBusy(o) \/ RunDone(o)
  <2>1. busy_until' = busy_until /\ finished \subseteq finished'
    BY <1>4 DEF NoteThreadKnown, NoteAbandoned, ClearBusy, RunDone, scheduler
  <2>2. \A p \in Owner : noting'[p] = "clearing" => noting[p] = "clearing" \/ p \in finished
    BY <1>4 DEF NoteThreadKnown, NoteAbandoned, ClearBusy, RunDone, calls, TypeInv, TypeOK
  <2> QED
    BY <1>1, <1>2, <2>1, <2>2, AheadFrame
<1> QED
  BY <1>3, <1>4 DEF Announcer

LEMMA AheadWorker ==
  ASSUME TypeInv, PlaceInv, AheadInv, NEW w \in Job, Worker(w)
  PROVE  AheadInv'
<1> USE ConstantsAssumption DEF Owner
<1>1. UNCHANGED <<busy_until, ahead, finished, noting>>
  BY DEF Worker, WorkerStart, WorkerTakes, WorkerProceeds, WorkerJobOver,
         WorkerFindsNothing, WorkerExits, scheduler, calls, history
<1>2. CASE WorkerTakes(w)
  <2> DEFINE job == Head(pending_by_thread[ThreadOf[w]])
  <2>1. /\ job \in Job /\ ThreadOf[w] = ThreadOf[job] /\ Queued(job)
        /\ \A y \in Job : Queued(y)' <=> Queued(y) /\ y # job
    BY <1>2, WorkerTakesLeaves
  <2>2. /\ takes' = [takes EXCEPT ![w] = job]
        /\ awaits' = [awaits EXCEPT ![w] = LiveRun(ThreadOf[w])]
        /\ started' = started \/ (started' = started \cup {job} /\ LiveRun(ThreadOf[w]) = None)
    BY <1>2 DEF WorkerTakes
  <2> HIDE DEF job
  <2>3. RunAhead(job) => LiveRun(ThreadOf[w]) = ahead[job]
    BY <2>1 DEF AheadInv, RunAhead, LiveRun
  <2>4. StartsAfterRunAhead'
    BY <1>1, <2>1, <2>2, <2>3 DEF AheadInv, RunAhead, StartsAfterRunAhead
  <2>5. \A j, v \in Job : RunAhead(j)' /\ takes'[v] = j => awaits'[v] = ahead'[j]
    BY <1>1, <2>1, <2>2, <2>3 DEF AheadInv, RunAhead, TypeInv, TypeOK
  <2> QED
    BY <1>1, <2>1, <2>4, <2>5 DEF AheadInv, RunAhead
<1>3. CASE WorkerProceeds(w)
  <2>1. /\ takes[w] \in Job /\ awaits[w] \in finished
        /\ started' = started \cup {takes[w]}
        /\ UNCHANGED <<takes, awaits, pending_by_thread>>
    BY <1>3 DEF WorkerProceeds, TypeInv, TypeOK, WorkersHoldJobs, scheduler
  <2>2. ~RunAhead(takes[w])
    BY <2>1 DEF AheadInv, RunAhead
  <2> QED
    BY <1>1, <2>1, <2>2 DEF AheadInv, RunAhead, StartsAfterRunAhead, Queued, QueuedIn
<1>4. CASE WorkerJobOver(w)
  <2>1. /\ takes' = [takes EXCEPT ![w] = None] /\ awaits' = [awaits EXCEPT ![w] = None]
        /\ UNCHANGED <<started, pending_by_thread>>
    BY <1>4 DEF WorkerJobOver, scheduler
  <2>2. \A j, v \in Job : takes'[v] = j => takes[v] = j /\ awaits'[v] = awaits[v]
    BY <2>1 DEF TypeInv, TypeOK
  <2> QED
    BY <1>1, <2>1, <2>2 DEF AheadInv, RunAhead, StartsAfterRunAhead, Queued, QueuedIn
<1>5. CASE WorkerStart(w) \/ WorkerFindsNothing(w) \/ WorkerExits(w)
  <2>1. UNCHANGED <<takes, awaits, started, pending_by_thread>>
    BY <1>5 DEF WorkerStart, WorkerFindsNothing, WorkerExits, scheduler, history
  <2> QED
    BY <1>1, <2>1, AheadFrame DEF Queued, QueuedIn
<1> QED
  BY <1>2, <1>3, <1>4, <1>5 DEF Worker

\* A job never overtakes the live run of its thread it was queued behind.
THEOREM JobsStartAfterRunAhead == Spec => []StartsAfterRunAhead
<1>1. TypeInv /\ PlaceInv /\ AheadInv /\ [Next]_vars => AheadInv'
  <2> SUFFICES ASSUME TypeInv, PlaceInv, AheadInv, [Next]_vars PROVE AheadInv'
    OBVIOUS
  <2>1. CASE UNCHANGED vars
    BY <2>1, AheadFrame DEF vars, scheduler, workers, calls, history, Queued, QueuedIn
  <2> QED
    BY <2>1, AheadCaller, AheadAnnouncer, AheadWorker DEF Next
<1>2. AheadInv => StartsAfterRunAhead
  BY DEF AheadInv
<1> QED
  BY <1>1, <1>2, AheadInit, TypeInvariance, PlaceInvariance, PTL DEF Spec
=============================================================================
