-------------------------------- MODULE Outbox --------------------------------
(***************************************************************************)
(* The Telegram outbox (src/src/yee88/telegram/outbox.py): every call to   *)
(* the Telegram API that writes is an operation with a key, a priority and *)
(* a chat; a single worker executes them one at a time, the best priority  *)
(* first, the oldest first within a priority.  A new operation replaces    *)
(* the pending one of its key.  The worker paces itself by the interval of *)
(* the chat it last wrote to, and puts an operation that Telegram refuses  *)
(* with RetryAfter back unless its key is taken again.                     *)
(*                                                                         *)
(* _cond guards the dictionary; no critical section awaits anything but    *)
(* _cond.wait(), so each of them is one step of its task.                  *)
(*                                                                         *)
(* Time.  next_at and retry_at are kept as the time still to wait, which   *)
(* Tick counts down: next_wait = max(0, next_at - clock()), and retry_wait *)
(* likewise.  queued_at is only compared, so a reading of the clock is the *)
(* number of operations made so far.                                       *)
(***************************************************************************)
EXTENDS Naturals, FiniteSets

CONSTANTS
  Op,            \* OutboxOps
  Key,           \* their keys
  KeyOf,         \* the key each is enqueued under
  Priority,      \* 0 for a send, 1 for a delete, 2 for an edit
  Interval,      \* interval_for_chat of the operation's chat, in ticks
  Waited,        \* the operations enqueued with wait=True
  RetryDelay,    \* what Telegram may ask for in a RetryAfter, in ticks
  MaxRefusals,   \* bound: RetryAfters in a behaviour
  None

ASSUME OutboxAssumption ==
  /\ IsFiniteSet(Op)
  /\ KeyOf \in [Op -> Key]
  /\ Priority \in [Op -> Nat]
  /\ Interval \in [Op -> Nat]
  /\ Waited \subseteq Op
  /\ RetryDelay \subseteq Nat
  /\ MaxRefusals \in Nat
  /\ None \notin Op

VARIABLES
  pending,     \* key -> operation
  queued_at,   \* operation -> reading of the clock
  result,      \* operation -> "unset" until set_result, then "answer" or "none"
  closed,
  next_wait,   \* what is left until next_at
  retry_wait,  \* what is left until retry_at
  worker,      \* where run() is
  picked,      \* the operation in the worker's hands
  pace_wait,   \* what is left until started_at + interval of that operation
  call,        \* operation -> where its enqueue call is
  closing,     \* where close() is
  refusals,    \* RetryAfters so far
  \* History, read by no action:
  quiet,       \* ticks in which Telegram must not be called again
  turn,        \* operation -> when it was accepted, 0 before
  turns

clocks  == <<next_wait, retry_wait, pace_wait, quiet>>
history == <<turn, turns>>
vars    == <<pending, queued_at, result, closed, worker, picked, call, closing,
             refusals, clocks, history>>

AtMost(x, y) == IF x <= y THEN x ELSE y
AtLeast(x, y) == IF x <= y THEN y ELSE x

Less(x) == IF x = 0 THEN 0 ELSE x - 1

TypeOK ==
  /\ pending \in [Key -> Op \cup {None}]
  /\ queued_at \in [Op -> Nat]
  /\ result \in [Op -> {"unset", "answer", "none"}]
  /\ closed \in BOOLEAN
  /\ next_wait \in Nat /\ retry_wait \in Nat /\ pace_wait \in Nat /\ quiet \in Nat
  /\ worker \in {"none", "waiting", "parked", "sleeping", "picking",
                 "executing", "retrying", "failing", "stopped"}
  /\ picked \in Op \cup {None}
  /\ call \in [Op -> {"idle", "locking", "waiting", "returned"}]
  /\ closing \in {"idle", "draining", "closed"}
  /\ refusals \in Nat
  /\ turn \in [Op -> Nat] /\ turns \in Nat

Init ==
  /\ pending = [k \in Key |-> None]
  /\ queued_at = [o \in Op |-> 0]
  /\ result = [o \in Op |-> "unset"]
  /\ closed = FALSE
  /\ next_wait = 0 /\ retry_wait = 0 /\ pace_wait = 0 /\ quiet = 0
  /\ worker = "none"
  /\ picked = None
  /\ call = [o \in Op |-> "idle"]
  /\ closing = "idle"
  /\ refusals = 0
  /\ turn = [o \in Op |-> 0] /\ turns = 0

Queued  == {o \in Op : pending[KeyOf[o]] = o}
Settled == {o \in Op : result[o] # "unset"}

\* _cond.notify and notify_all: the worker is the only task that ever waits.
Notified == IF worker = "parked" THEN "waiting" ELSE worker

\* set_result(r) on every operation of a set; the first result stays.
Settle(ops, r) ==
  result' = [o \in Op |-> IF o \in ops /\ o \notin Settled THEN r ELSE result[o]]

(***************************************************************************)
(* enqueue, drop_pending and close: the callers' side.                     *)
(***************************************************************************)
\* The operation is made (its queued_at read) and ensure_worker runs.
Submit(o) ==
  /\ call[o] = "idle"
  /\ call' = [call EXCEPT ![o] = "locking"]
  /\ queued_at' = [queued_at EXCEPT ![o] = 1 + Cardinality({p \in Op : call[p] # "idle"})]
  /\ worker' = IF worker = "none" /\ ~closed THEN "waiting" ELSE worker
  /\ UNCHANGED <<pending, result, closed, picked, closing, refusals, clocks, history>>

\* Mutant of Enqueue: the worker is not notified.
EnqueueSilently(o) ==
  LET k == KeyOf[o] IN
  /\ call[o] = "locking" /\ ~closed
  /\ call' = [call EXCEPT ![o] = IF o \in Waited THEN "waiting" ELSE "returned"]
  /\ queued_at' = [queued_at EXCEPT ![o] = IF pending[k] = None THEN @ ELSE queued_at[pending[k]]]
  /\ pending' = [pending EXCEPT ![k] = o]
  /\ Settle({pending[k]}, "none")
  /\ turns' = turns + 1 /\ turn' = [turn EXCEPT ![o] = turns + 1]
  /\ UNCHANGED <<closed, worker, picked, closing, refusals, clocks>>

\* A closed outbox answers None; else the operation takes its key, inherits the
\* place in the line of the one it replaces, and releases whoever waits for that.
Enqueue(o) ==
  LET k == KeyOf[o] IN
  /\ call[o] = "locking" /\ ~closed
  /\ call' = [call EXCEPT ![o] = IF o \in Waited THEN "waiting" ELSE "returned"]
  /\ queued_at' = [queued_at EXCEPT ![o] = IF pending[k] = None THEN @ ELSE queued_at[pending[k]]]
  /\ pending' = [pending EXCEPT ![k] = o]
  /\ Settle({pending[k]}, "none")
  /\ worker' = Notified
  /\ turns' = turns + 1 /\ turn' = [turn EXCEPT ![o] = turns + 1]
  /\ UNCHANGED <<closed, picked, closing, refusals, clocks>>

EnqueueClosed(o) ==
  /\ call[o] = "locking" /\ closed
  /\ call' = [call EXCEPT ![o] = "returned"]
  /\ Settle({o}, "none")
  /\ UNCHANGED <<pending, queued_at, closed, worker, picked, closing, refusals, clocks, history>>

\* op.done is set: enqueue returns op.result.
EnqueueReturns(o) ==
  /\ call[o] = "waiting" /\ o \in Settled
  /\ call' = [call EXCEPT ![o] = "returned"]
  /\ UNCHANGED <<pending, queued_at, result, closed, worker, picked, closing, refusals, clocks, history>>

DropPending(k) ==
  /\ pending' = [pending EXCEPT ![k] = None]
  /\ Settle({pending[k]}, "none")
  /\ worker' = Notified
  /\ UNCHANGED <<queued_at, closed, picked, call, closing, refusals, clocks, history>>

\* fail_pending: nothing is pending any more, and nobody waits for what was.
FailPending ==
  /\ pending' = [k \in Key |-> None]
  /\ Settle(Queued, "none")

\* Mutant of Close: the worker that waits for work is not woken.
CloseSilently ==
  /\ closing = "idle"
  /\ closing' = IF worker = "none" THEN "closed" ELSE "draining"
  /\ closed' = TRUE
  /\ FailPending
  /\ UNCHANGED <<queued_at, worker, picked, call, refusals, clocks, history>>

Close ==
  /\ closing = "idle"
  /\ closing' = IF worker = "none" THEN "closed" ELSE "draining"
  /\ closed' = TRUE
  /\ FailPending
  /\ worker' = Notified
  /\ UNCHANGED <<queued_at, picked, call, refusals, clocks, history>>

\* The worker's task group is left once the worker is gone.
CloseReturns ==
  /\ closing = "draining" /\ worker = "stopped"
  /\ closing' = "closed"
  /\ UNCHANGED <<pending, queued_at, result, closed, worker, picked, call, refusals, clocks, history>>

(***************************************************************************)
(* run: the worker.                                                        *)
(***************************************************************************)
\* Mutant of Look: only next_at is awaited.
LookIgnoresRetryAt ==
  /\ worker = "waiting"
  /\ worker' = IF Queued = {} THEN IF closed THEN "stopped" ELSE "parked"
               ELSE IF next_wait > 0 THEN "sleeping" ELSE "picking"
  /\ UNCHANGED <<pending, queued_at, result, closed, picked, call, closing, refusals, clocks, history>>

\* The head of the loop: wait for work or for the close, then for the deadlines.
Look ==
  /\ worker = "waiting"
  /\ worker' = IF Queued = {} THEN IF closed THEN "stopped" ELSE "parked"
               ELSE IF AtLeast(next_wait, retry_wait) > 0 THEN "sleeping" ELSE "picking"
  /\ UNCHANGED <<pending, queued_at, result, closed, picked, call, closing, refusals, clocks, history>>

Wake ==
  /\ worker = "sleeping" /\ next_wait = 0 /\ retry_wait = 0
  /\ worker' = "waiting"
  /\ UNCHANGED <<pending, queued_at, result, closed, picked, call, closing, refusals, clocks, history>>

Before(o, p) == Priority[o] < Priority[p]
                \/ (Priority[o] = Priority[p] /\ queued_at[o] <= queued_at[p])

\* Another task may have emptied the dictionary since Look.
PickNothing ==
  /\ worker = "picking" /\ Queued = {}
  /\ worker' = IF closed THEN "stopped" ELSE "waiting"
  /\ UNCHANGED <<pending, queued_at, result, closed, picked, call, closing, refusals, clocks, history>>

\* Mutant of Pick: the operation stays in the dictionary while it is executed.
PickKeepsPending(o) ==
  /\ worker = "picking" /\ o \in Queued
  /\ \A p \in Queued : Before(o, p)
  /\ UNCHANGED pending
  /\ picked' = o
  /\ worker' = "executing"
  /\ pace_wait' = Interval[o] /\ quiet' = Interval[o]
  /\ UNCHANGED <<queued_at, result, closed, call, closing, refusals, next_wait, retry_wait, history>>

Pick(o) ==
  /\ worker = "picking" /\ o \in Queued
  /\ \A p \in Queued : Before(o, p)
  /\ pending' = [pending EXCEPT ![KeyOf[o]] = None]
  /\ picked' = o
  /\ worker' = "executing"
  /\ pace_wait' = Interval[o] /\ quiet' = Interval[o]
  /\ UNCHANGED <<queued_at, result, closed, call, closing, refusals, next_wait, retry_wait, history>>

\* op.execute() has returned, or failed for good (execute_op logs that and returns None).
Executed(r) ==
  /\ worker = "executing"
  /\ next_wait' = pace_wait /\ pace_wait' = 0
  /\ Settle({picked}, r)
  /\ picked' = None
  /\ worker' = "waiting"
  /\ UNCHANGED <<pending, queued_at, closed, call, closing, refusals, retry_wait, quiet, history>>

\* Telegram answers 429: not before d ticks from now.
Refused(d) ==
  /\ worker = "executing" /\ refusals < MaxRefusals
  /\ refusals' = refusals + 1
  /\ retry_wait' = AtLeast(retry_wait, d) /\ quiet' = d
  /\ pace_wait' = 0
  /\ worker' = "retrying"
  /\ UNCHANGED <<pending, queued_at, result, closed, picked, call, closing, next_wait, history>>

\* Mutant of PutBack: the refused operation takes its key back whoever has it.
PutBackAnyway ==
  LET k == KeyOf[picked] IN
  /\ worker = "retrying"
  /\ IF closed
     THEN Settle({picked}, "none") /\ UNCHANGED pending
     ELSE pending' = [pending EXCEPT ![k] = picked] /\ Settle({pending[k]}, "none")
  /\ picked' = None
  /\ worker' = "waiting"
  /\ UNCHANGED <<queued_at, closed, call, closing, refusals, clocks, history>>

PutBack ==
  LET k == KeyOf[picked] IN
  /\ worker = "retrying"
  /\ IF closed \/ pending[k] # None
     THEN Settle({picked}, "none") /\ UNCHANGED pending
     ELSE pending' = [pending EXCEPT ![k] = picked] /\ UNCHANGED result
  /\ picked' = None
  /\ worker' = "waiting"
  /\ UNCHANGED <<queued_at, closed, call, closing, refusals, clocks, history>>

\* on_error raises out of execute_op ...
HookRaises ==
  /\ worker = "executing"
  /\ worker' = "failing"
  /\ UNCHANGED <<pending, queued_at, result, closed, picked, call, closing, refusals, clocks, history>>

\* ... and the worker closes the outbox; it does not settle what it holds.
Fail ==
  /\ worker = "failing"
  /\ closed' = TRUE
  /\ FailPending
  /\ worker' = "stopped"
  /\ UNCHANGED <<queued_at, picked, call, closing, refusals, clocks, history>>

Tick ==
  /\ next_wait + retry_wait + pace_wait + quiet > 0
  /\ next_wait' = Less(next_wait) /\ retry_wait' = Less(retry_wait)
  /\ pace_wait' = Less(pace_wait) /\ quiet' = Less(quiet)
  /\ UNCHANGED <<pending, queued_at, result, closed, worker, picked, call, closing, refusals, history>>

Executing == \/ \E r \in {"answer", "none"} : Executed(r)
             \/ \E d \in RetryDelay : Refused(d)
             \/ HookRaises

Worker == \/ Look \/ Wake \/ PickNothing \/ (\E o \in Op : Pick(o))
          \/ Executing \/ PutBack \/ Fail

Caller(o) == Enqueue(o) \/ EnqueueClosed(o) \/ EnqueueReturns(o)

Next == \/ \E o \in Op : Submit(o) \/ Caller(o)
        \/ \E k \in Key : DropPending(k)
        \/ Close \/ CloseReturns \/ Worker \/ Tick

Spec == Init /\ [][Next]_vars

\* Tasks are scheduled, HTTP requests end (the client has timeouts), time passes.
Fairness == /\ WF_vars(Worker) /\ WF_vars(Tick) /\ WF_vars(CloseReturns)
            /\ \A o \in Op : WF_vars(Caller(o))

FairSpec == Spec /\ Fairness

(***************************************************************************)
(* Safety.                                                                 *)
(***************************************************************************)
InHand == IF picked = None THEN {} ELSE {picked}

\* A key has at most one pending operation, the worker holds at most one more, and
\* neither has been answered: nobody is told the outcome of an operation that may
\* still be executed; and a closed outbox keeps nothing pending, however the close
\* meets a refusal (outbox.py 66-79, 88-100, 149-161).
LiveOpsUnsettled ==
  /\ \A k \in Key : pending[k] # None => KeyOf[pending[k]] = k
  /\ \A o \in Queued \cup InHand : result[o] = "unset" /\ call[o] \in {"waiting", "returned"}
  /\ Queued \cap InHand = {}
  /\ closed => Queued = {}

\* An operation that may still be executed is newer than every operation of its key
\* that Telegram has executed: however refusals, replacements and drops interleave,
\* the last edit applied to a message is the newest one applied (outbox.py 66-79,
\* 149-158).
NewestAppliedLast ==
  \A o \in Queued \cup InHand, p \in Op :
    KeyOf[p] = KeyOf[o] /\ result[p] = "answer" => turn[p] < turn[o]

\* An accepted operation that has not been settled is pending or in the worker's
\* hands: no path of refusal, close or failure loses one (outbox.py 64-100, 149-171).
NoOpIsLost ==
  \A o \in Op : call[o] \in {"waiting", "returned"} /\ result[o] = "unset"
                  => o \in Queued \cup InHand

\* Telegram is never called again before the interval of the chat last written to
\* has passed since that call was started, nor before the delay it last asked for
\* (outbox.py 134-137, 150, 160).
PacedStarts == [][worker' = "executing" /\ worker # "executing" => quiet = 0]_vars

(***************************************************************************)
(* Liveness.                                                               *)
(***************************************************************************)
\* Whoever waits for an operation is released in the end, whether it is executed,
\* replaced, dropped or failed by the close; the one exception is the operation in
\* the hands of a worker that died of an exception of its error hook
\* (outbox.py 78-79, 164-171).
WaitersReleased ==
  \A o \in Op : call[o] = "waiting" ~> (call[o] = "returned" \/ (worker = "stopped" /\ picked = o))

\* close() returns: the worker notices it wherever it is (outbox.py 88-95, 129-140).
CloseCompletes == closing = "draining" ~> closing = "closed"

(***************************************************************************)
(* Refinement.                                                             *)
(***************************************************************************)
Fate(o) == CASE result[o] = "answer" -> "delivered"
             [] result[o] = "none" -> "given_up"
             [] result[o] = "unset" /\ o \in Queued \cup InHand -> "held"
             [] OTHER -> "new"

Contract == INSTANCE OutboxContract WITH
  slot <- pending, out <- picked, fate <- [o \in Op |-> Fate(o)], shut <- closed

\* The worker, its clocks and the callers' tasks implement a dictionary of slots with
\* one operation out at a time, from which nothing settled ever returns (outbox.py).
ImplementsContract == Contract!Spec
===============================================================================
