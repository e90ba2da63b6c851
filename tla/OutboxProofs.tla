----------------------------- MODULE OutboxProofs -----------------------------
(***************************************************************************)
(* Theorems about the outbox, for every set of operations, keys, intervals *)
(* and delays, and about the progress message of a run, which is edited,   *)
(* replaced and deleted through it.                                        *)
(***************************************************************************)
EXTENDS ProgressMessage, FiniteSetTheorems, TLAPS

(***************************************************************************)
(* Type correctness.                                                       *)
(***************************************************************************)
\* A reading of the clock is a number.
LEMMA ReadingIsNat ==
  ASSUME NEW S \in SUBSET Op
  PROVE  1 + Cardinality(S) \in Nat
<1>1. IsFiniteSet(S)
  BY OutboxAssumption, FS_Subset
<1>2. Cardinality(S) \in Nat
  BY <1>1, FS_CardinalityType
<1> QED
  BY <1>2

LEMMA SettleType ==
  ASSUME result \in [Op -> {"unset", "answer", "none"}],
         NEW ops, NEW r \in {"answer", "none"}, Settle(ops, r)
  PROVE  result' \in [Op -> {"unset", "answer", "none"}]
  BY DEF Settle

LEMMA TypeInit == Init => TypeOK
<1> SUFFICES ASSUME Init PROVE TypeOK
  OBVIOUS
<1>1. closed \in BOOLEAN
  BY DEF Init
<1> QED
  BY <1>1 DEF Init, TypeOK

\* Every variable keeps its type (outbox.py).
THEOREM TypeCorrect == Spec => []TypeOK
<1>1. ASSUME TypeOK, [Next]_vars PROVE TypeOK'
  <2> USE <1>1
  <2>1. ASSUME NEW o \in Op, Submit(o) PROVE TypeOK'
    <3>1. 1 + Cardinality({p \in Op : call[p] # "idle"}) \in Nat
      BY ReadingIsNat
    <3> QED
      BY <2>1, <3>1 DEF Submit, TypeOK, clocks, history
  <2>2. ASSUME NEW o \in Op, Enqueue(o) PROVE TypeOK'
    <3>1. result' \in [Op -> {"unset", "answer", "none"}]
      BY <2>2, SettleType DEF Enqueue, TypeOK
    <3>2. KeyOf[o] \in Key
      BY OutboxAssumption
    <3>3. queued_at' \in [Op -> Nat]
      <4>1. pending[KeyOf[o]] # None => queued_at[pending[KeyOf[o]]] \in Nat
        BY <3>2 DEF TypeOK
      <4> QED
        BY <2>2, <4>1 DEF Enqueue, TypeOK
    <3> QED
      BY <2>2, <3>1, <3>2, <3>3 DEF Enqueue, TypeOK, clocks, history, Notified
  <2>3. ASSUME NEW o \in Op, EnqueueClosed(o) PROVE TypeOK'
    BY <2>3, SettleType DEF EnqueueClosed, TypeOK, clocks, history
  <2>4. ASSUME NEW o \in Op, EnqueueReturns(o) PROVE TypeOK'
    BY <2>4 DEF EnqueueReturns, TypeOK, clocks, history
  <2>5. ASSUME NEW k \in Key, DropPending(k) PROVE TypeOK'
    BY <2>5, SettleType DEF DropPending, TypeOK, clocks, history, Notified
  <2>6. CASE Close
    BY <2>6, SettleType DEF Close, FailPending, TypeOK, clocks, history, Notified
  <2>7. CASE CloseReturns
    BY <2>7 DEF CloseReturns, TypeOK, clocks, history
  <2>8. CASE Look \/ Wake \/ PickNothing \/ HookRaises
    BY <2>8 DEF Look, Wake, PickNothing, HookRaises, TypeOK, clocks, history
  <2>9. ASSUME NEW o \in Op, Pick(o) PROVE TypeOK'
    BY <2>9, OutboxAssumption DEF Pick, TypeOK, history
  <2>10. ASSUME NEW r \in {"answer", "none"}, Executed(r) PROVE TypeOK'
    BY <2>10, SettleType DEF Executed, TypeOK, history
  <2>11. ASSUME NEW d \in RetryDelay, Refused(d) PROVE TypeOK'
    BY <2>11, OutboxAssumption DEF Refused, TypeOK, history, AtLeast
  <2>12. CASE PutBack
    <3>1. result' \in [Op -> {"unset", "answer", "none"}]
      BY <2>12, SettleType DEF PutBack, TypeOK
    <3> QED
      BY <2>12, <3>1 DEF PutBack, TypeOK, clocks, history
  <2>13. CASE Fail
    BY <2>13, SettleType DEF Fail, FailPending, TypeOK, clocks, history
  <2>14. CASE Tick
    BY <2>14 DEF Tick, TypeOK, history, Less
  <2>15. CASE UNCHANGED vars
    BY <2>15 DEF vars, TypeOK, clocks, history
  <2> QED
    BY <2>1, <2>2, <2>3, <2>4, <2>5, <2>6, <2>7, <2>8, <2>9, <2>10, <2>11, <2>12,
       <2>13, <2>14, <2>15 DEF Next, Caller, Worker, Executing
<1> QED
  BY TypeInit, <1>1, PTL DEF Spec

----------------------------------------------------------------------------
(***************************************************************************)
(* The life of an operation.  Whether an operation may still be executed   *)
(* is decided by where it is (pending or in the worker's hands), so the    *)
(* invariant says who holds an operation at each place of the worker and   *)
(* of the callers, and orders the two operations of a key that can be held *)
(* at the same time.                                                       *)
(***************************************************************************)
HandsFollowWorker ==
  /\ worker \in {"executing", "retrying", "failing"} => picked # None
  /\ worker \in {"none", "waiting", "parked", "sleeping", "picking"} => picked = None

NotYetAccepted == \A o \in Op : call[o] \in {"idle", "locking"} => result[o] = "unset"

TurnsCounted == \A o \in Op : turn[o] <= turns

PendingNewerThanHand ==
  \A o \in Queued, p \in InHand : KeyOf[p] = KeyOf[o] => turn[p] < turn[o]

LifeInv ==
  /\ TypeOK /\ HandsFollowWorker /\ NotYetAccepted /\ LiveOpsUnsettled /\ NoOpIsLost
  /\ TurnsCounted /\ PendingNewerThanHand /\ NewestAppliedLast

\* The invariant reads nothing but these, so a step that leaves them alone keeps it.
LEMMA LifeFrame ==
  ASSUME LifeInv, TypeOK',
         UNCHANGED <<pending, result, closed, picked, call, history>>, HandsFollowWorker'
  PROVE  LifeInv'
BY DEF LifeInv, HandsFollowWorker, NotYetAccepted, LiveOpsUnsettled, NoOpIsLost, TurnsCounted,
       PendingNewerThanHand, NewestAppliedLast, Queued, InHand, history

LEMMA LifeCaller ==
  ASSUME LifeInv, TypeOK', NEW o \in Op, Submit(o) \/ Caller(o)
  PROVE  LifeInv'
<1> USE DEF LifeInv
<1>0. KeyOf[o] \in Key /\ None \notin Op
  BY OutboxAssumption
<1>1. CASE Submit(o)
  BY <1>1 DEF Submit, TypeOK, HandsFollowWorker, NotYetAccepted, LiveOpsUnsettled, NoOpIsLost,
     TurnsCounted, PendingNewerThanHand, NewestAppliedLast, Queued, InHand, history
<1>2. CASE Enqueue(o)
  <2> USE <1>0, <1>2
  <2> DEFINE k == KeyOf[o]
  <2>1. /\ o \notin Queued /\ o \notin InHand /\ result[o] = "unset"
    BY DEF Enqueue, LiveOpsUnsettled, NotYetAccepted
  <2>2. Queued' = (Queued \ {pending[k]}) \cup {o} /\ InHand' = InHand
    <3>1. \A p \in Op : pending'[KeyOf[p]] = IF KeyOf[p] = k THEN o ELSE pending[KeyOf[p]]
      BY OutboxAssumption DEF Enqueue, TypeOK
    <3>2. pending[k] # None => KeyOf[pending[k]] = k
      BY DEF LiveOpsUnsettled
    <3>3. \A p \in Op : p \in Queued' <=> p \in (Queued \ {pending[k]}) \cup {o}
      BY <3>1, <3>2 DEF Queued
    <3> QED
      BY <3>3 DEF Enqueue, Queued, InHand
  <2>3. \A p \in Op : result'[p] = IF p = pending[k] /\ result[p] = "unset" THEN "none" ELSE result[p]
    BY DEF Enqueue, Settle, Settled, TypeOK
  <2>4. \A p \in Op : turn'[p] = IF p = o THEN turns + 1 ELSE turn[p]
    BY DEF Enqueue, TypeOK
  <2>5. HandsFollowWorker' /\ NotYetAccepted'
    BY <2>3 DEF Enqueue, HandsFollowWorker, NotYetAccepted, Notified, TypeOK, LiveOpsUnsettled, Queued
  <2>6. LiveOpsUnsettled'
    <3>1. \A j \in Key : pending'[j] # None => KeyOf[pending'[j]] = j
      BY DEF Enqueue, LiveOpsUnsettled, TypeOK
    <3>2. \A p \in (Queued \cup InHand)' : result'[p] = "unset" /\ call'[p] \in {"waiting", "returned"}
      <4>1. pending[k] \notin InHand
        BY DEF LiveOpsUnsettled, Queued, TypeOK, InHand
      <4> QED
        BY <2>1, <2>2, <2>3, <4>1 DEF Enqueue, LiveOpsUnsettled, TypeOK, Queued, InHand
    <3> QED
      BY <2>1, <2>2, <3>1, <3>2 DEF Enqueue, LiveOpsUnsettled
  <2>7. NoOpIsLost'
    BY <2>2, <2>3 DEF Enqueue, NoOpIsLost, TypeOK
  <2>8. TurnsCounted'
    BY <2>4 DEF Enqueue, TurnsCounted, TypeOK
  <2>11. Queued \subseteq Op /\ InHand \subseteq Op
    BY DEF Queued, InHand, TypeOK
  <2>9. PendingNewerThanHand'
    BY <2>11, <2>1, <2>2, <2>4 DEF PendingNewerThanHand, TurnsCounted, TypeOK, Queued, InHand
  <2>10. NewestAppliedLast'
    <3> SUFFICES ASSUME NEW q \in (Queued \cup InHand)', NEW p \in Op,
                        KeyOf[p] = KeyOf[q], result'[p] = "answer"
                 PROVE  turn'[p] < turn'[q]
      BY DEF NewestAppliedLast
    <3>1. result[p] = "answer" /\ p # o
      BY <2>1, <2>3
    <3>2. turn'[p] = turn[p] /\ turn[p] \in Nat /\ turn[p] <= turns /\ turns \in Nat
      BY <2>4, <3>1 DEF TurnsCounted, TypeOK
    <3>3. CASE q = o
      BY <2>4, <3>2, <3>3
    <3>4. CASE q # o
      BY <2>2, <2>4, <2>11, <3>1, <3>2, <3>4 DEF NewestAppliedLast
    <3> QED
      BY <3>3, <3>4
  <2> QED
    BY <2>5, <2>6, <2>7, <2>8, <2>9, <2>10
<1>3. CASE EnqueueClosed(o)
  <2>1. \A p \in Op : result'[p] = IF p = o /\ result[p] = "unset" THEN "none" ELSE result[p]
    BY <1>3 DEF EnqueueClosed, Settle, Settled, TypeOK
  <2> QED
    BY <1>0, <1>3, <2>1 DEF EnqueueClosed, TypeOK, HandsFollowWorker, NotYetAccepted,
       LiveOpsUnsettled, NoOpIsLost, TurnsCounted, PendingNewerThanHand, NewestAppliedLast,
       Queued, InHand, history
<1>4. CASE EnqueueReturns(o)
  BY <1>4 DEF EnqueueReturns, TypeOK, HandsFollowWorker, NotYetAccepted, LiveOpsUnsettled,
     NoOpIsLost, TurnsCounted, PendingNewerThanHand, NewestAppliedLast, Queued, InHand, Settled, history
<1> QED
  BY <1>1, <1>2, <1>3, <1>4 DEF Caller

\* What FailPending does to the queue and to the results.
LEMMA FailPendingEffect ==
  ASSUME TypeOK, FailPending
  PROVE  /\ Queued' = {}
         /\ \A k \in Key : pending'[k] = None
         /\ \A p \in Op : result'[p] = IF p \in Queued /\ result[p] = "unset" THEN "none" ELSE result[p]
BY OutboxAssumption DEF FailPending, Queued, Settle, Settled, TypeOK

LEMMA LifeDrop ==
  ASSUME LifeInv, TypeOK', (\E k \in Key : DropPending(k)) \/ Close \/ CloseReturns
  PROVE  LifeInv'
<1> USE DEF LifeInv
<1>1. ASSUME NEW k \in Key, DropPending(k) PROVE LifeInv'
  <2> USE <1>1
  <2>1. \A p \in Op : pending'[KeyOf[p]] = IF KeyOf[p] = k THEN None ELSE pending[KeyOf[p]]
    BY OutboxAssumption DEF DropPending, TypeOK
  <2>2. \A p \in Op : p \in Queued' <=> p \in Queued /\ KeyOf[p] # k
    BY <2>1, OutboxAssumption DEF Queued
  <2>3. \A p \in Op : result'[p] = IF p = pending[k] /\ result[p] = "unset" THEN "none" ELSE result[p]
    BY DEF DropPending, Settle, Settled, TypeOK
  <2>4. pending[k] # None => pending[k] \in Queued /\ KeyOf[pending[k]] = k
    BY DEF LiveOpsUnsettled, Queued, TypeOK
  <2>5. InHand' = InHand /\ InHand \subseteq Op /\ Queued \subseteq Op /\ Queued' \subseteq Op
    BY DEF DropPending, InHand, Queued, TypeOK
  <2>6. HandsFollowWorker' /\ NotYetAccepted' /\ TurnsCounted'
    <3>1. HandsFollowWorker' /\ TurnsCounted'
      BY DEF DropPending, HandsFollowWorker, TurnsCounted, Notified, history
    <3>2. NotYetAccepted'
      BY <2>3, <2>4, OutboxAssumption DEF DropPending, NotYetAccepted, LiveOpsUnsettled
    <3> QED
      BY <3>1, <3>2
  <2>7. LiveOpsUnsettled'
    <3>1. \A j \in Key : pending'[j] # None => KeyOf[pending'[j]] = j
      BY DEF DropPending, LiveOpsUnsettled, TypeOK
    <3>2. \A p \in Queued' \cup InHand : p # pending[k]
      BY <2>2, <2>4, <2>5, OutboxAssumption DEF LiveOpsUnsettled
    <3>3. \A p \in Queued' \cup InHand : result'[p] = "unset" /\ call'[p] \in {"waiting", "returned"}
      BY <2>2, <2>3, <2>5, <3>2 DEF LiveOpsUnsettled, DropPending
    <3> QED
      BY <2>2, <2>5, <3>1, <3>3 DEF LiveOpsUnsettled, DropPending
  <2>8. NoOpIsLost'
    BY <2>2, <2>3, <2>4, <2>5 DEF NoOpIsLost, DropPending, Queued
  <2>9. PendingNewerThanHand' /\ NewestAppliedLast'
    BY <2>2, <2>3, <2>5 DEF PendingNewerThanHand, NewestAppliedLast, DropPending, history
  <2> QED
    BY <2>6, <2>7, <2>8, <2>9
<1>2. CASE Close
  <2> USE <1>2
  <2>1. /\ Queued' = {} /\ \A k \in Key : pending'[k] = None
        /\ \A p \in Op : result'[p] = IF p \in Queued /\ result[p] = "unset" THEN "none" ELSE result[p]
    BY FailPendingEffect DEF Close
  <2>2. InHand' = InHand /\ InHand \subseteq Op
    BY DEF Close, InHand, TypeOK
  <2> QED
    BY <2>1, <2>2 DEF Close, HandsFollowWorker, NotYetAccepted, LiveOpsUnsettled, NoOpIsLost,
       TurnsCounted, PendingNewerThanHand, NewestAppliedLast, Notified, history
<1>3. CASE CloseReturns
  BY <1>3, LifeFrame DEF CloseReturns, HandsFollowWorker
<1> QED
  BY <1>1, <1>2, <1>3

LEMMA LifeWorker ==
  ASSUME LifeInv, TypeOK', Worker
  PROVE  LifeInv'
<1> USE DEF LifeInv
<1>1. CASE Look \/ Wake \/ PickNothing
  BY <1>1, LifeFrame DEF Look, Wake, PickNothing, HandsFollowWorker
<1>2. CASE HookRaises
  BY <1>2, LifeFrame DEF HookRaises, HandsFollowWorker
<1>3. ASSUME NEW o \in Op, Pick(o) PROVE LifeInv'
  <2> USE <1>3
  <2>1. \A p \in Op : pending'[KeyOf[p]] = IF KeyOf[p] = KeyOf[o] THEN None ELSE pending[KeyOf[p]]
    BY OutboxAssumption DEF Pick, TypeOK
  <2>2. \A p \in Op : p \in Queued' <=> p \in Queued /\ KeyOf[p] # KeyOf[o]
    BY <2>1, OutboxAssumption DEF Queued
  <2>3. o \in Queued /\ o # None /\ InHand = {} /\ InHand' = {o} /\ Queued \subseteq Op /\ Queued' \subseteq Op
    BY OutboxAssumption DEF Pick, Queued, InHand, HandsFollowWorker
  <2>4. HandsFollowWorker' /\ NotYetAccepted' /\ TurnsCounted'
    BY <2>3 DEF Pick, HandsFollowWorker, NotYetAccepted, TurnsCounted, history
  <2>5. LiveOpsUnsettled'
    <3>1. \A j \in Key : pending'[j] # None => KeyOf[pending'[j]] = j
      BY DEF Pick, LiveOpsUnsettled, TypeOK
    <3> QED
      BY <2>2, <2>3, <3>1 DEF LiveOpsUnsettled, Pick
  <2>6. NoOpIsLost'
    BY <2>2, <2>3 DEF NoOpIsLost, Pick, Queued
  <2>7. PendingNewerThanHand' /\ NewestAppliedLast'
    BY <2>2, <2>3 DEF PendingNewerThanHand, NewestAppliedLast, Pick, history
  <2> QED
    BY <2>4, <2>5, <2>6, <2>7
<1>4. ASSUME NEW r \in {"answer", "none"}, Executed(r) PROVE LifeInv'
  <2> USE <1>4
  <2>1. picked \in Op /\ InHand = {picked} /\ InHand' = {} /\ Queued' = Queued /\ Queued \subseteq Op
    BY DEF Executed, HandsFollowWorker, TypeOK, InHand, Queued
  <2>2. result[picked] = "unset" /\ picked \notin Queued
    BY <2>1 DEF LiveOpsUnsettled
  <2>3. \A p \in Op : result'[p] = IF p = picked THEN r ELSE result[p]
    BY <2>2 DEF Executed, Settle, Settled, TypeOK
  <2>4. HandsFollowWorker' /\ NotYetAccepted' /\ TurnsCounted'
    BY <2>1, <2>3 DEF Executed, HandsFollowWorker, NotYetAccepted, TurnsCounted, LiveOpsUnsettled, history
  <2>5. LiveOpsUnsettled' /\ NoOpIsLost'
    BY <2>1, <2>2, <2>3 DEF LiveOpsUnsettled, NoOpIsLost, Executed
  <2>6. PendingNewerThanHand' /\ NewestAppliedLast'
    BY <2>1, <2>3 DEF PendingNewerThanHand, NewestAppliedLast, Executed, history
  <2> QED
    BY <2>4, <2>5, <2>6
<1>5. ASSUME NEW d \in RetryDelay, Refused(d) PROVE LifeInv'
  BY <1>5, LifeFrame DEF Refused, HandsFollowWorker
<1>6. CASE PutBack
  <2> USE <1>6
  <2> DEFINE k == KeyOf[picked]
  <2>1. picked \in Op /\ InHand = {picked} /\ InHand' = {} /\ Queued \subseteq Op /\ k \in Key
    BY OutboxAssumption DEF PutBack, HandsFollowWorker, TypeOK, InHand, Queued
  <2>2. result[picked] = "unset" /\ call[picked] \in {"waiting", "returned"} /\ picked \notin Queued
    BY <2>1 DEF LiveOpsUnsettled
  <2>3. HandsFollowWorker' /\ TurnsCounted'
    BY DEF PutBack, HandsFollowWorker, TurnsCounted, history
  <2>4. CASE closed \/ pending[k] # None
    <3>1. Queued' = Queued /\ pending' = pending
      BY <2>4 DEF PutBack, Queued
    <3>2. \A p \in Op : result'[p] = IF p = picked THEN "none" ELSE result[p]
      BY <2>2, <2>4 DEF PutBack, Settle, Settled, TypeOK
    <3> QED
      BY <2>1, <2>2, <2>3, <3>1, <3>2 DEF PutBack, NotYetAccepted, LiveOpsUnsettled, NoOpIsLost,
         PendingNewerThanHand, NewestAppliedLast, history
  <2>5. CASE ~closed /\ pending[k] = None
    <3>1. \A p \in Op : pending'[KeyOf[p]] = IF KeyOf[p] = k THEN picked ELSE pending[KeyOf[p]]
      BY <2>5, OutboxAssumption DEF PutBack, TypeOK
    <3>2. \A p \in Op : p \in Queued' <=> p \in Queued \/ p = picked
      BY <2>1, <2>5, <3>1, OutboxAssumption DEF Queued
    <3>3. Queued' \subseteq Op /\ result' = result
      BY <2>5 DEF PutBack, Queued
    <3>4. \A j \in Key : pending'[j] # None => KeyOf[pending'[j]] = j
      BY <2>1, <2>5 DEF PutBack, LiveOpsUnsettled, TypeOK
    <3>5. NotYetAccepted' /\ LiveOpsUnsettled' /\ NoOpIsLost'
      BY <2>1, <2>2, <2>5, <3>2, <3>3, <3>4 DEF PutBack, NotYetAccepted, LiveOpsUnsettled, NoOpIsLost
    <3>6. PendingNewerThanHand' /\ NewestAppliedLast'
      BY <2>1, <3>2, <3>3 DEF PutBack, PendingNewerThanHand, NewestAppliedLast, history
    <3> QED
      BY <2>3, <3>5, <3>6
  <2> QED
    BY <2>4, <2>5
<1>7. CASE Fail
  <2> USE <1>7
  <2>1. /\ Queued' = {} /\ \A k \in Key : pending'[k] = None
        /\ \A p \in Op : result'[p] = IF p \in Queued /\ result[p] = "unset" THEN "none" ELSE result[p]
    BY FailPendingEffect DEF Fail
  <2>2. InHand' = InHand /\ InHand \subseteq Op
    BY DEF Fail, InHand, TypeOK
  <2> QED
    BY <2>1, <2>2 DEF Fail, HandsFollowWorker, NotYetAccepted, LiveOpsUnsettled, NoOpIsLost,
       TurnsCounted, PendingNewerThanHand, NewestAppliedLast, history
<1> QED
  BY <1>1, <1>2, <1>3, <1>4, <1>5, <1>6, <1>7 DEF Worker, Executing

LEMMA LifeInvariance == Spec => []LifeInv
<1>1. Init => LifeInv
  <2> SUFFICES ASSUME Init, TypeOK PROVE LifeInv
    BY TypeInit
  <2>1. Queued = {} /\ InHand = {}
    BY OutboxAssumption DEF Init, Queued, InHand
  <2> QED
    BY <2>1 DEF Init, LifeInv, HandsFollowWorker, NotYetAccepted, LiveOpsUnsettled, NoOpIsLost,
       TurnsCounted, PendingNewerThanHand, NewestAppliedLast
<1>2. LifeInv /\ TypeOK' /\ [Next]_vars => LifeInv'
  <2>1. ASSUME LifeInv, TypeOK', Tick \/ UNCHANGED vars PROVE LifeInv'
    BY <2>1, LifeFrame DEF Tick, vars, history, HandsFollowWorker, LifeInv
  <2> QED
    BY <2>1, LifeCaller, LifeDrop, LifeWorker DEF Next
<1> QED
  BY <1>1, <1>2, TypeCorrect, PTL DEF Spec

\* Nobody is told the outcome of an operation that may still be executed
\* (outbox.py 66-79, 88-100, 149-161).
THEOREM LiveOpsAreUnsettled == Spec => []LiveOpsUnsettled
BY LifeInvariance, PTL DEF LifeInv

\* No path of refusal, close or failure loses an accepted operation (outbox.py 64-171).
THEOREM NoOperationIsLost == Spec => []NoOpIsLost
BY LifeInvariance, PTL DEF LifeInv

\* The newest operation of a key is the last one applied (outbox.py 66-79, 149-158).
THEOREM NewestIsAppliedLast == Spec => []NewestAppliedLast
BY LifeInvariance, PTL DEF LifeInv

----------------------------------------------------------------------------
(***************************************************************************)
(* Pacing.  What Telegram must be spared is covered by the deadlines: by   *)
(* started_at + interval while an operation is executed, by next_at and    *)
(* retry_at everywhere else, and the worker picks only when both are over. *)
(***************************************************************************)
PaceInv ==
  /\ worker = "executing" => quiet <= pace_wait
  /\ worker \notin {"executing", "failing", "stopped"} => quiet <= AtLeast(next_wait, retry_wait)
  /\ worker = "picking" => next_wait = 0 /\ retry_wait = 0

LEMMA PaceInvariance == Spec => []PaceInv
<1> USE DEF AtLeast, TypeOK
<1>1. Init => PaceInv
  BY DEF Init, PaceInv
<1>2. ASSUME TypeOK, TypeOK', PaceInv, [Next]_vars PROVE PaceInv'
  <2> USE <1>2
  <2>1. ASSUME NEW o \in Op, Submit(o) \/ Caller(o) PROVE PaceInv'
    BY <2>1 DEF Caller, Submit, Enqueue, EnqueueClosed, EnqueueReturns, PaceInv, clocks, Notified
  <2>2. ASSUME (\E k \in Key : DropPending(k)) \/ Close \/ CloseReturns PROVE PaceInv'
    BY <2>2 DEF DropPending, Close, CloseReturns, PaceInv, clocks, Notified
  <2>3. CASE Look \/ Wake \/ PickNothing \/ HookRaises \/ Fail \/ PutBack
    BY <2>3 DEF Look, Wake, PickNothing, HookRaises, Fail, PutBack, PaceInv, clocks
  <2>4. ASSUME NEW o \in Op, Pick(o) PROVE PaceInv'
    BY <2>4 DEF Pick, PaceInv
  <2>5. ASSUME NEW r, Executed(r) PROVE PaceInv'
    BY <2>5 DEF Executed, PaceInv
  <2>6. ASSUME NEW d \in RetryDelay, Refused(d) PROVE PaceInv'
    BY <2>6, OutboxAssumption DEF Refused, PaceInv
  <2>7. CASE Tick
    BY <2>7 DEF Tick, PaceInv, Less
  <2>8. CASE UNCHANGED vars
    BY <2>8 DEF vars, PaceInv, clocks
  <2> QED
    BY <2>1, <2>2, <2>3, <2>4, <2>5, <2>6, <2>7, <2>8 DEF Next, Worker, Executing
<1> QED
  BY <1>1, <1>2, TypeCorrect, PTL DEF Spec

\* Telegram is never called within the interval of the last chat written to, nor
\* within the delay it asked for (outbox.py 134-137, 150, 160).
THEOREM StartsArePaced == Spec => PacedStarts
<1>1. TypeOK /\ PaceInv /\ [Next]_vars => [worker' = "executing" /\ worker # "executing" => quiet = 0]_vars
  <2> SUFFICES ASSUME TypeOK, PaceInv, Next, worker' = "executing", worker # "executing"
               PROVE  quiet = 0
    OBVIOUS
  <2>1. \E o \in Op : Pick(o)
    BY DEF Next, Submit, Caller, Enqueue, EnqueueClosed, EnqueueReturns, DropPending, Close,
       CloseReturns, Worker, Look, Wake, PickNothing, Executing, Executed, Refused, HookRaises,
       PutBack, Fail, Tick, Notified
  <2> QED
    BY <2>1 DEF Pick, PaceInv, TypeOK, AtLeast
<1> QED
  BY <1>1, TypeCorrect, PaceInvariance, PTL DEF Spec, PacedStarts

----------------------------------------------------------------------------
(***************************************************************************)
(* The outbox implements its contract.  LifeInv says what the refinement   *)
(* mapping needs: which operations are held, and that no other unsettled   *)
(* operation was ever accepted.                                            *)
(***************************************************************************)
\* What a fate says once the invariant is known.
FatesFit ==
  \A o \in Op :
    /\ Fate(o) \in {"delivered", "given_up", "held", "new"}
    /\ Fate(o) = "delivered" <=> result[o] = "answer"
    /\ Fate(o) = "given_up" <=> result[o] = "none"
    /\ Fate(o) = "held" <=> o \in Queued \cup InHand

LEMMA FatesFitInvariant == LifeInv => FatesFit
<1> SUFFICES ASSUME LifeInv, NEW o \in Op
             PROVE  /\ Fate(o) \in {"delivered", "given_up", "held", "new"}
                    /\ Fate(o) = "delivered" <=> result[o] = "answer"
                    /\ Fate(o) = "given_up" <=> result[o] = "none"
                    /\ Fate(o) = "held" <=> o \in Queued \cup InHand
  BY DEF FatesFit
<1>1. result[o] \in {"unset", "answer", "none"}
  BY DEF LifeInv, TypeOK
<1>2. o \in Queued \cup InHand => result[o] = "unset"
  BY DEF LifeInv, LiveOpsUnsettled
<1>3. CASE result[o] = "answer"
  BY <1>2, <1>3 DEF Fate
<1>4. CASE result[o] = "none"
  BY <1>2, <1>4 DEF Fate
<1>5. CASE result[o] = "unset" /\ o \in Queued \cup InHand
  BY <1>5 DEF Fate
<1>6. CASE result[o] = "unset" /\ o \notin Queued \cup InHand
  BY <1>6 DEF Fate
<1> QED
  BY <1>1, <1>3, <1>4, <1>5, <1>6

\* The fate of an operation follows from its result and from who holds it.
LEMMA FateSteps ==
  ASSUME FatesFit, FatesFit', NEW p \in Op,
         result'[p] = result[p], (p \in Queued \cup InHand) = (p \in Queued' \cup InHand')
  PROVE  Fate(p)' = Fate(p)
BY DEF FatesFit

LEMMA ContractStutter ==
  ASSUME UNCHANGED <<pending, result, closed, picked>>
  PROVE  UNCHANGED Contract!vars
BY DEF Contract!vars, Fate, Queued, InHand

LEMMA ContractCaller ==
  ASSUME LifeInv, LifeInv', FatesFit, FatesFit', NEW o \in Op, Submit(o) \/ Caller(o)
  PROVE  Contract!Next \/ UNCHANGED Contract!vars
<1>1. CASE Submit(o) \/ EnqueueReturns(o)
  BY <1>1, ContractStutter DEF Submit, EnqueueReturns
<1>2. CASE Enqueue(o)
  <2> USE <1>2
  <2> DEFINE k == KeyOf[o]
  <2>1. Fate(o) = "new" /\ Fate(o)' = "held"
    <3>1. result[o] = "unset" /\ o \notin Queued \cup InHand
      BY DEF Enqueue, LifeInv, NotYetAccepted, LiveOpsUnsettled
    <3>2. o \in Queued'
      BY OutboxAssumption DEF Enqueue, Queued, LifeInv, TypeOK
    <3> QED
      BY <3>1, <3>2 DEF FatesFit
  <2>2. \A p \in Op : result'[p] = IF p = pending[k] /\ result[p] = "unset" THEN "none" ELSE result[p]
    BY DEF Enqueue, Settle, Settled, LifeInv, TypeOK
  <2>3. \A p \in Op : p # o /\ p # pending[k] => (p \in Queued \cup InHand) = (p \in Queued' \cup InHand')
    BY OutboxAssumption DEF Enqueue, Queued, InHand, LifeInv, TypeOK
  <2>4. \A p \in Op : p # o /\ p = pending[k] => Fate(p)' = "given_up"
    <3>1. \A p \in Op : p = pending[k] => p \in Queued
      BY OutboxAssumption DEF Queued, LifeInv, LiveOpsUnsettled
    <3> QED
      BY <2>2, <3>1 DEF LifeInv, LiveOpsUnsettled, FatesFit
  <2>5. \A p \in Op : p # o /\ p # pending[k] => Fate(p)' = Fate(p)
    BY <2>2, <2>3, FateSteps
  <2>6. Contract!Accept(o)
    BY <2>1, <2>4, <2>5 DEF Enqueue, Contract!Accept, Contract!GivenUp
  <2> QED
    BY <2>6 DEF Contract!Next
<1>3. CASE EnqueueClosed(o)
  <2> USE <1>3
  <2>1. Fate(o) = "new" /\ Fate(o)' = "given_up"
    BY DEF EnqueueClosed, Settle, Settled, LifeInv, TypeOK, NotYetAccepted, LiveOpsUnsettled, FatesFit
  <2>2. \A p \in Op : p # o => Fate(p)' = Fate(p)
    <3>1. \A p \in Op : p # o => result'[p] = result[p]
      BY DEF EnqueueClosed, Settle
    <3>2. Queued' = Queued /\ InHand' = InHand
      BY DEF EnqueueClosed, Queued, InHand
    <3> QED
      BY <3>1, <3>2, FateSteps
  <2>3. Contract!Refuse(o)
    BY <2>1, <2>2 DEF EnqueueClosed, Contract!Refuse, Contract!GivenUp
  <2> QED
    BY <2>3 DEF Contract!Next
<1> QED
  BY <1>1, <1>2, <1>3 DEF Caller

LEMMA ContractDrop ==
  ASSUME LifeInv, LifeInv', FatesFit, FatesFit', NEW k \in Key, DropPending(k)
  PROVE  Contract!Next
<1>1. \A p \in Op : result'[p] = IF p = pending[k] /\ result[p] = "unset" THEN "none" ELSE result[p]
  BY DEF DropPending, Settle, Settled, LifeInv, TypeOK
<1>2. \A p \in Op : p = pending[k] => Fate(p)' = "given_up"
  <2>1. \A p \in Op : p = pending[k] => p \in Queued
    BY OutboxAssumption DEF Queued, LifeInv, LiveOpsUnsettled
  <2> QED
    BY <1>1, <2>1 DEF LifeInv, LiveOpsUnsettled, FatesFit
<1>3. \A p \in Op : p # pending[k] => Fate(p)' = Fate(p)
  <2>1. \A p \in Op : p # pending[k] => (p \in Queued \cup InHand) = (p \in Queued' \cup InHand')
    BY OutboxAssumption DEF DropPending, Queued, InHand, LifeInv, TypeOK
  <2> QED
    BY <1>1, <2>1, FateSteps
<1>4. Contract!Drop(k)
  BY <1>2, <1>3 DEF DropPending, Contract!Drop, Contract!GivenUp
<1> QED
  BY <1>4 DEF Contract!Next

LEMMA ContractShut ==
  ASSUME LifeInv, LifeInv', FatesFit, FatesFit', FailPending, closed' = TRUE, UNCHANGED picked
  PROVE  Contract!Next
<1>1. /\ Queued' = {} /\ InHand' = InHand
      /\ \A p \in Op : result'[p] = IF p \in Queued /\ result[p] = "unset" THEN "none" ELSE result[p]
  BY FailPendingEffect DEF LifeInv, InHand
<1>2. \A p \in Op : p \in Queued => Fate(p)' = "given_up"
  BY <1>1 DEF LifeInv, LiveOpsUnsettled, FatesFit
<1>3. \A p \in Op : p \notin Queued => Fate(p)' = Fate(p)
  BY <1>1, FateSteps
<1>4. Contract!Shut
  BY <1>2, <1>3 DEF FailPending, Contract!Shut, Contract!GivenUp, Contract!Slots, Queued
<1> QED
  BY <1>4 DEF Contract!Next

LEMMA ContractWorker ==
  ASSUME LifeInv, LifeInv', FatesFit, FatesFit', Worker
  PROVE  Contract!Next \/ UNCHANGED Contract!vars
<1> USE DEF LifeInv, HandsFollowWorker
<1>1. CASE Look \/ Wake \/ PickNothing \/ HookRaises
  BY <1>1, ContractStutter DEF Look, Wake, PickNothing, HookRaises
<1>2. ASSUME NEW d \in RetryDelay, Refused(d) PROVE UNCHANGED Contract!vars
  BY <1>2, ContractStutter DEF Refused
<1>3. ASSUME NEW o \in Op, Pick(o) PROVE Contract!Next
  <2> USE <1>3
  <2>1. picked = None /\ InHand = {} /\ InHand' = {o}
    BY OutboxAssumption DEF Pick, InHand
  <2>2. \A p \in Op : (p \in Queued \cup InHand) = (p \in Queued' \cup InHand')
    BY <2>1, OutboxAssumption DEF Pick, Queued, TypeOK, LiveOpsUnsettled
  <2>3. \A p \in Op : Fate(p)' = Fate(p)
    BY <2>2, FateSteps DEF Pick
  <2>4. Contract!Take(o)
    BY <2>1, <2>3 DEF Pick, Contract!Take, Contract!Slots, Queued
  <2> QED
    BY <2>4 DEF Contract!Next
<1>4. ASSUME NEW r \in {"answer", "none"}, Executed(r) PROVE Contract!Next
  <2> USE <1>4
  <2>1. picked \in Op /\ picked # None /\ InHand = {picked} /\ InHand' = {} /\ Queued' = Queued
    BY DEF Executed, TypeOK, InHand, Queued
  <2>2. \A p \in Op : result'[p] = IF p = picked THEN r ELSE result[p]
    BY <2>1 DEF Executed, Settle, Settled, TypeOK, LiveOpsUnsettled
  <2>3. \A p \in Op : p # picked => Fate(p)' = Fate(p)
    BY <2>1, <2>2, FateSteps
  <2>4. \A p \in Op : p = picked => Fate(p)' = IF r = "answer" THEN "delivered" ELSE "given_up"
    BY <2>2 DEF FatesFit
  <2>5. CASE r = "answer"
    BY <2>1, <2>3, <2>4, <2>5 DEF Executed, Contract!Deliver, Contract!Next
  <2>6. CASE r = "none"
    BY <2>1, <2>3, <2>4, <2>6 DEF Executed, Contract!GiveUp, Contract!GivenUp, Contract!Next
  <2> QED
    BY <2>5, <2>6
<1>5. CASE PutBack
  <2> USE <1>5
  <2> DEFINE k == KeyOf[picked]
  <2>1. picked \in Op /\ picked # None /\ InHand = {picked} /\ InHand' = {}
    BY DEF PutBack, TypeOK, InHand
  <2>2. CASE closed \/ pending[k] # None
    <3>1. \A p \in Op : result'[p] = IF p = picked THEN "none" ELSE result[p]
      BY <2>1, <2>2 DEF PutBack, Settle, Settled, TypeOK, LiveOpsUnsettled
    <3>2. Queued' = Queued
      BY <2>2 DEF PutBack, Queued
    <3>3. \A p \in Op : Fate(p)' = IF p = picked THEN "given_up" ELSE Fate(p)
      BY <2>1, <3>1, <3>2, FateSteps DEF FatesFit
    <3> QED
      BY <2>1, <2>2, <3>3 DEF PutBack, Contract!GiveUp, Contract!GivenUp, Contract!Next
  <2>3. CASE ~closed /\ pending[k] = None
    <3>1. \A p \in Op : (p \in Queued \cup InHand) = (p \in Queued' \cup InHand')
      BY <2>1, <2>3, OutboxAssumption DEF PutBack, Queued, TypeOK
    <3>2. \A p \in Op : Fate(p)' = Fate(p)
      BY <2>3, <3>1, FateSteps DEF PutBack
    <3> QED
      BY <2>1, <2>3, <3>2 DEF PutBack, Contract!Postpone, Contract!Next
  <2> QED
    BY <2>2, <2>3
<1>6. CASE Fail
  BY <1>6, ContractShut DEF Fail
<1> QED
  BY <1>1, <1>2, <1>3, <1>4, <1>5, <1>6 DEF Worker, Executing

\* The worker, its clocks and the callers' tasks implement the slots of the contract:
\* one operation out at a time, and nothing settled ever comes back (outbox.py).
THEOREM OutboxImplementsContract == Spec => ImplementsContract
<1>1. Init => Contract!Init
  <2> SUFFICES ASSUME Init PROVE Contract!Init
    OBVIOUS
  <2>1. Queued = {} /\ InHand = {}
    BY OutboxAssumption DEF Init, Queued, InHand
  <2>2. \A o \in Op : Fate(o) = "new"
    BY <2>1 DEF Init, Fate
  <2> QED
    BY <2>2 DEF Init, Contract!Init
<1>2. LifeInv /\ LifeInv' /\ FatesFit /\ FatesFit' /\ [Next]_vars => [Contract!Next]_(Contract!vars)
  <2> SUFFICES ASSUME LifeInv, LifeInv', FatesFit, FatesFit', [Next]_vars
               PROVE  Contract!Next \/ UNCHANGED Contract!vars
    OBVIOUS
  <2>1. CASE Close
    BY <2>1, ContractShut DEF Close
  <2>2. CASE CloseReturns \/ Tick \/ UNCHANGED vars
    BY <2>2, ContractStutter DEF CloseReturns, Tick, vars
  <2> QED
    BY <2>1, <2>2, ContractCaller, ContractDrop, ContractWorker DEF Next
<1> QED
  BY <1>1, <1>2, LifeInvariance, FatesFitInvariant, PTL DEF Spec, Contract!Spec, ImplementsContract

----------------------------------------------------------------------------
(***************************************************************************)
(* The progress message uses the outbox as any caller may, so what is      *)
(* proved of the outbox holds while a run edits, replaces and deletes its  *)
(* progress message, for any number of events.                             *)
(***************************************************************************)
\* The editor only ever renders an event that has happened.
EditorInv ==
  /\ event_seq \in 0..MaxEvents
  /\ rendered_seq \in 0..event_seq
  /\ seq_at_render \in 0..event_seq

LEMMA EditorInvariance == ProgressSpec => []EditorInv
<1> USE ProgressAssumption DEF EditorInv
<1>1. ProgressInit => EditorInv
  BY DEF ProgressInit
<1>2. EditorInv /\ [ProgressNext]_allVars => EditorInv'
  <2> SUFFICES ASSUME EditorInv, [ProgressNext]_allVars PROVE EditorInv'
    OBVIOUS
  <2>1. CASE OnEvent
    BY <2>1 DEF OnEvent
  <2>2. CASE Editor
    BY <2>2 DEF Editor, EditorWaits, EditorWakes, EditorSkips, EditorEdits, EditorDone
  <2>3. CASE EndByEdit \/ EndBySend \/ EndSuppressed
    BY <2>3 DEF EndByEdit, EndBySend, EndSuppressed
  <2>4. CASE Run
    BY <2>4 DEF Run, FinalEditReturns, DropForSend, SendFinal, FinalSendReturns, DropForRemoval,
       Remove, RemovalReturns, editing
  <2>5. ASSUME NEW o \in Op, CallerAt(o) PROVE EditorInv'
    BY <2>5 DEF CallerAt, editing
  <2>6. CASE WorkerAt
    BY <2>6 DEF WorkerAt, ExecutedAt, RefusedAt, Elsewhere, editing
  <2>7. CASE (Close \/ CloseReturns \/ Tick) /\ Elsewhere
    BY <2>7 DEF Elsewhere, editing
  <2>8. CASE UNCHANGED allVars
    BY <2>8 DEF allVars, editing
  <2> QED
    BY <2>1, <2>2, <2>3, <2>4, <2>5, <2>6, <2>7, <2>8 DEF ProgressNext
<1> QED
  BY <1>1, <1>2, PTL DEF ProgressSpec

\* Every step of a run and of its progress message is a step of the outbox or leaves
\* it alone (runner_bridge.py 198-248, 524-664; client.py 167-207, 328-350).
THEOREM ProgressUsesOutbox == ProgressSpec => Spec
<1>1. ProgressInit => Init
  BY DEF ProgressInit
<1>2. EditorInv /\ [ProgressNext]_allVars => [Next]_vars
  <2> SUFFICES ASSUME EditorInv, [ProgressNext]_allVars PROVE Next \/ UNCHANGED vars
    OBVIOUS
  <2>1. CASE OnEvent \/ EndBySend \/ EndSuppressed
    BY <2>1 DEF OnEvent, EndBySend, EndSuppressed
  <2>2. CASE Editor
    <3>1. CASE EditorEdits
      <4>1. event_seq \in Op
        BY <3>1, ProgressAssumption DEF EditorEdits, EditorInv, Events
      <4> QED
        BY <3>1, <4>1 DEF EditorEdits, Next
    <3> QED
      BY <2>2, <3>1 DEF Editor, EditorWaits, EditorWakes, EditorSkips, EditorDone
  <2>3. CASE EndByEdit
    BY <2>3, ProgressAssumption DEF EndByEdit, Next
  <2>4. CASE Run
    BY <2>4, ProgressAssumption DEF Run, FinalEditReturns, DropForSend, SendFinal,
       FinalSendReturns, DropForRemoval, Remove, RemovalReturns, Next
  <2>5. ASSUME NEW o \in Op, CallerAt(o) PROVE Next
    BY <2>5 DEF CallerAt, Next
  <2>6. CASE WorkerAt
    BY <2>6 DEF WorkerAt, ExecutedAt, RefusedAt, Next, Worker, Executing
  <2>7. CASE (Close \/ CloseReturns \/ Tick) /\ Elsewhere
    BY <2>7 DEF Next
  <2>8. CASE UNCHANGED allVars
    BY <2>8 DEF allVars
  <2> QED
    BY <2>1, <2>2, <2>3, <2>4, <2>5, <2>6, <2>7, <2>8 DEF ProgressNext
<1> QED
  BY <1>1, <1>2, EditorInvariance, PTL DEF ProgressSpec, Spec

----------------------------------------------------------------------------
(***************************************************************************)
(* No late progress.  From its acceptance on, the last edit keeps every    *)
(* other out of the queue, the one that the worker holds included; and     *)
(* after drop_pending only an edit that Telegram refused comes back.       *)
(***************************************************************************)
Accepted(o) == call[o] \in {"waiting", "returned"}

WaitedAreSettled == \A o \in Waited : call[o] = "returned" => result[o] # "unset"

CallsFollowPhase ==
  /\ phase = "running" => call[FinalEdit] = "idle"
  /\ phase # "editing" => call[FinalEdit] \in {"idle", "returned"}
  /\ phase \in {"running", "editing", "dropping", "placing"} => call[FinalSend] = "idle"

AppliedAreAccepted == applied \subseteq Op /\ \A o \in applied : Accepted(o)

RefusedArePostponed == worker = "retrying" => picked \in postponed

FinalEditIsLast ==
  Accepted(FinalEdit) =>
    /\ Events \cap Queued = {}
    /\ picked \in Events /\ ~closed => pending[EditKey] = FinalEdit

DroppedStayOut ==
  phase = "placing" \/ call[FinalSend] # "idle" => Events \cap Queued \subseteq postponed

LateInv ==
  /\ WaitedAreSettled /\ CallsFollowPhase /\ AppliedAreAccepted /\ RefusedArePostponed
  /\ FinalEditIsLast /\ DroppedStayOut

\* The operations of the progress message, and those that edit it.
LEMMA ProgressOps ==
  /\ FinalEdit \in Op \cap Waited /\ FinalSend \in Op /\ Removal \in Op /\ Events \subseteq Op
  /\ FinalEdit # FinalSend /\ FinalEdit # Removal /\ FinalSend # Removal
  /\ FinalEdit \notin Events /\ FinalSend \notin Events /\ Removal \notin Events
  /\ EditKey \in Key /\ KeyOf[FinalEdit] = EditKey /\ \A e \in Events : KeyOf[e] = EditKey
  /\ None \notin Op
BY ProgressAssumption, OutboxAssumption

LEMMA LateStart == ProgressInit => LateInv
<1> SUFFICES ASSUME ProgressInit PROVE LateInv
  OBVIOUS
<1>1. /\ \A o \in Op : call[o] = "idle"
      /\ applied = {} /\ worker = "none" /\ Queued = {} /\ phase = "running" /\ Waited \subseteq Op
  BY OutboxAssumption DEF ProgressInit, Init, Queued
<1> QED
  BY <1>1, ProgressOps DEF LateInv, WaitedAreSettled, CallsFollowPhase, AppliedAreAccepted, Accepted,
     RefusedArePostponed, FinalEditIsLast, DroppedStayOut

\* Steps that leave the outbox alone, or its queue and calls.
LEMMA LateFrame ==
  ASSUME LateInv, UNCHANGED <<pending, result, closed, call, applied>>,
         picked' \in Events => picked = picked', postponed \subseteq postponed',
         worker' = "retrying" => picked' \in postponed', CallsFollowPhase',
         phase' = "placing" => phase = "placing"
  PROVE  LateInv'
BY DEF LateInv, WaitedAreSettled, AppliedAreAccepted, Accepted, RefusedArePostponed, FinalEditIsLast,
       DroppedStayOut, Queued

\* A call begins: of an edit while the run goes on, or of what ends the run.
LEMMA LateSubmit ==
  ASSUME LateInv, TypeOK, NEW o \in Op, Submit(o), UNCHANGED telegram, CallsFollowPhase',
         phase' = "placing" => phase = "placing", o = FinalSend => phase = "placing"
  PROVE  LateInv'
<1>1. /\ \A p \in Op : call'[p] = IF p = o THEN "locking" ELSE call[p]
      /\ UNCHANGED <<pending, result, closed, picked, applied, postponed>> /\ call[o] = "idle"
      /\ worker' = "retrying" => worker = "retrying"
  BY DEF Submit, TypeOK, telegram
<1>2. WaitedAreSettled'
  BY <1>1, OutboxAssumption DEF LateInv, WaitedAreSettled
<1>3. AppliedAreAccepted' /\ RefusedArePostponed'
  <2>1. o \notin applied
    BY <1>1 DEF LateInv, AppliedAreAccepted, Accepted
  <2> QED
    BY <1>1, <2>1 DEF LateInv, AppliedAreAccepted, Accepted, RefusedArePostponed, Submit, TypeOK
<1>4. FinalEditIsLast' /\ DroppedStayOut'
  BY <1>1, ProgressOps DEF LateInv, FinalEditIsLast, DroppedStayOut, Accepted, Queued
<1> QED
  BY <1>2, <1>3, <1>4 DEF LateInv

LEMMA LateCaller ==
  ASSUME LateInv, LifeInv, NEW o \in Op, CallerAt(o)
  PROVE  LateInv'
<1> USE ProgressOps
<1>1. UNCHANGED <<phase, applied, postponed>> /\ (o \in Events => phase = "running") /\ TypeOK
  BY DEF CallerAt, ending, telegram, LifeInv
<1>2. CASE Enqueue(o)
  <2>1. /\ \A p \in Op : call'[p] = IF p = o THEN (IF o \in Waited THEN "waiting" ELSE "returned") ELSE call[p]
        /\ UNCHANGED <<picked, closed>> /\ call[o] = "locking" /\ ~closed
        /\ worker' = "retrying" => worker = "retrying"
        /\ \A p \in Op : result[p] # "unset" => result'[p] # "unset"
    BY <1>1, <1>2 DEF Enqueue, Notified, TypeOK, Settle, Settled
  <2>2. \A p \in Op : p \in Queued' => p \in Queued \/ p = o
    BY <1>1, <1>2, OutboxAssumption DEF Enqueue, Queued, TypeOK
  <2>3. KeyOf[o] = EditKey => \A e \in Events : e \in Queued' => e = o
    BY <1>1, <1>2 DEF Enqueue, Queued, TypeOK
  <2>4. WaitedAreSettled' /\ CallsFollowPhase' /\ AppliedAreAccepted' /\ RefusedArePostponed'
    <3>1. o \notin applied
      BY <2>1 DEF LateInv, AppliedAreAccepted, Accepted
    <3>2. WaitedAreSettled' /\ RefusedArePostponed'
      BY <1>1, <2>1, OutboxAssumption DEF LateInv, WaitedAreSettled, RefusedArePostponed
    <3>3. CallsFollowPhase'
      BY <1>1, <2>1 DEF LateInv, CallsFollowPhase
    <3>4. AppliedAreAccepted'
      BY <1>1, <1>2, <2>1, <3>1 DEF LateInv, AppliedAreAccepted, Accepted, Enqueue, TypeOK
    <3> QED
      BY <3>2, <3>3, <3>4
  <2>5. FinalEditIsLast'
    <3>1. CASE o = FinalEdit
      <4>1. pending'[EditKey] = FinalEdit
        BY <1>1, <1>2, <3>1 DEF Enqueue, TypeOK
      <4> QED
        BY <2>3, <3>1, <4>1 DEF FinalEditIsLast
    <3>2. CASE o # FinalEdit
      <4>1. Accepted(FinalEdit)' => Accepted(FinalEdit) /\ o \notin Events
        BY <1>1, <2>1, <3>2 DEF Accepted, LateInv, CallsFollowPhase
      <4>2. o \notin Events => KeyOf[o] # EditKey
        BY <3>2, ProgressAssumption
      <4>3. KeyOf[o] # EditKey => pending'[EditKey] = pending[EditKey]
        BY <1>1, <1>2 DEF Enqueue, TypeOK
      <4> QED
        BY <2>1, <2>2, <4>1, <4>2, <4>3 DEF FinalEditIsLast, LateInv
    <3> QED
      BY <3>1, <3>2
  <2>6. DroppedStayOut'
    BY <1>1, <2>1, <2>2 DEF LateInv, DroppedStayOut, CallsFollowPhase
  <2> QED
    BY <2>4, <2>5, <2>6 DEF LateInv
<1>3. CASE EnqueueClosed(o) \/ EnqueueReturns(o)
  <2>1. /\ \A p \in Op : call'[p] = IF p = o THEN "returned" ELSE call[p]
        /\ UNCHANGED <<picked, closed, pending, worker>>
        /\ (call[o] = "locking" /\ closed) \/ call[o] = "waiting"
        /\ \A p \in Op : result[p] # "unset" => result'[p] # "unset"
        /\ result'[o] # "unset"
    BY <1>1, <1>3 DEF EnqueueClosed, EnqueueReturns, TypeOK, Settle, Settled
  <2>2. Queued' = Queued /\ (closed => Queued = {})
    BY <2>1 DEF Queued, LifeInv, LiveOpsUnsettled
  <2>3. CallsFollowPhase'
    BY <1>1, <2>1 DEF LateInv, CallsFollowPhase
  <2>4. WaitedAreSettled' /\ RefusedArePostponed'
    BY <1>1, <2>1, OutboxAssumption DEF LateInv, WaitedAreSettled, RefusedArePostponed
  <2>5. AppliedAreAccepted'
    BY <1>1, <2>1 DEF LateInv, AppliedAreAccepted, Accepted
  <2>6. FinalEditIsLast' /\ DroppedStayOut'
    BY <1>1, <2>1, <2>2 DEF LateInv, FinalEditIsLast, DroppedStayOut, Accepted
  <2> QED
    BY <2>3, <2>4, <2>5, <2>6 DEF LateInv
<1> QED
  BY <1>2, <1>3 DEF CallerAt, Caller

\* drop_pending leaves no edit behind, and finds the last one only before it is answered.
LEMMA LateDrop ==
  ASSUME LateInv, LifeInv, DropPending(EditKey), UNCHANGED telegram, CallsFollowPhase',
         phase \in {"dropping", "clearing"}
  PROVE  LateInv'
<1> USE ProgressOps
<1>1. /\ TypeOK /\ UNCHANGED <<call, picked, closed, applied, postponed>>
      /\ worker' = "retrying" => worker = "retrying"
      /\ \A p \in Op : result[p] # "unset" => result'[p] # "unset"
  BY DEF DropPending, Notified, telegram, LifeInv, TypeOK, Settle, Settled
<1>2. pending'[EditKey] = None /\ \A p \in Op : p \in Queued' => p \in Queued
  BY <1>1, OutboxAssumption DEF DropPending, Queued, TypeOK
<1>3. Events \cap Queued' = {}
  BY <1>2 DEF Queued
<1>4. WaitedAreSettled' /\ AppliedAreAccepted' /\ RefusedArePostponed'
  BY <1>1, OutboxAssumption DEF LateInv, WaitedAreSettled, AppliedAreAccepted, Accepted, RefusedArePostponed
<1>5. FinalEditIsLast'
  <2>1. Accepted(FinalEdit) => result[FinalEdit] # "unset"
    BY DEF LateInv, CallsFollowPhase, Accepted, WaitedAreSettled
  <2>2. Accepted(FinalEdit) => pending[EditKey] # FinalEdit
    BY <2>1 DEF LifeInv, LiveOpsUnsettled, Queued
  <2> QED
    BY <1>1, <1>3, <2>2 DEF LateInv, FinalEditIsLast, Accepted
<1> QED
  BY <1>3, <1>4, <1>5 DEF LateInv, DroppedStayOut

\* The close of the outbox, and the death of its worker, empty the queue.
LEMMA LateShut ==
  ASSUME LateInv, TypeOK, FailPending, closed' = TRUE, UNCHANGED <<picked, call, phase, telegram>>,
         worker' = "retrying" => worker = "retrying"
  PROVE  LateInv'
<1>1. Queued' = {} /\ \A p \in Op : result[p] # "unset" => result'[p] # "unset"
  BY FailPendingEffect
<1>2. WaitedAreSettled' /\ CallsFollowPhase' /\ AppliedAreAccepted' /\ RefusedArePostponed'
  BY <1>1, OutboxAssumption DEF LateInv, WaitedAreSettled, CallsFollowPhase, AppliedAreAccepted,
     Accepted, RefusedArePostponed, telegram
<1>3. FinalEditIsLast' /\ DroppedStayOut'
  BY <1>1 DEF FinalEditIsLast, DroppedStayOut
<1> QED
  BY <1>2, <1>3 DEF LateInv

LEMMA LateWorker ==
  ASSUME LateInv, LifeInv, WorkerAt
  PROVE  LateInv'
<1> USE ProgressOps
<1>0. TypeOK /\ UNCHANGED <<phase, editing>>
  BY DEF WorkerAt, ExecutedAt, RefusedAt, Elsewhere, ending, LifeInv
<1>1. ASSUME NEW r \in {"answer", "none"}, ExecutedAt(r) PROVE LateInv'
  <2>1. /\ picked \in Op /\ picked' = None /\ worker' = "waiting"
        /\ UNCHANGED <<pending, closed, call, postponed>> /\ applied' \subseteq applied \cup {picked}
        /\ \A p \in Op : result[p] # "unset" => result'[p] # "unset"
    BY <1>0, <1>1 DEF ExecutedAt, Executed, Settle, Settled, TypeOK, LifeInv, HandsFollowWorker
  <2>2. Accepted(picked)
    BY <1>1, <2>1 DEF Accepted, LifeInv, LiveOpsUnsettled, InHand
  <2>3. AppliedAreAccepted'
    BY <2>1, <2>2 DEF LateInv, AppliedAreAccepted, Accepted
  <2>4. WaitedAreSettled' /\ CallsFollowPhase' /\ RefusedArePostponed'
    BY <1>0, <2>1, OutboxAssumption DEF LateInv, WaitedAreSettled, CallsFollowPhase, RefusedArePostponed
  <2>5. FinalEditIsLast' /\ DroppedStayOut'
    BY <1>0, <2>1 DEF LateInv, FinalEditIsLast, DroppedStayOut, Accepted, Queued
  <2> QED
    BY <2>3, <2>4, <2>5 DEF LateInv
<1>2. ASSUME NEW d \in RetryDelay, RefusedAt(d) PROVE LateInv'
  BY <1>0, <1>2, LateFrame DEF RefusedAt, Refused, LateInv, CallsFollowPhase
<1>3. CASE (Look \/ Wake \/ PickNothing \/ HookRaises) /\ Elsewhere
  BY <1>0, <1>3, LateFrame DEF Look, Wake, PickNothing, HookRaises, Elsewhere, telegram, LateInv, CallsFollowPhase
<1>4. ASSUME NEW o \in Op, Pick(o), Elsewhere PROVE LateInv'
  <2>1. /\ picked' = o /\ o \in Queued /\ worker' = "executing"
        /\ UNCHANGED <<result, closed, call, applied, postponed>>
    BY <1>4 DEF Pick, Elsewhere, telegram
  <2>2. \A p \in Op : p \in Queued' => p \in Queued
    BY <1>0, <1>4, OutboxAssumption DEF Pick, Queued, TypeOK
  <2>3. WaitedAreSettled' /\ CallsFollowPhase' /\ AppliedAreAccepted' /\ RefusedArePostponed'
    BY <1>0, <2>1 DEF LateInv, WaitedAreSettled, CallsFollowPhase, AppliedAreAccepted, Accepted, RefusedArePostponed
  <2>4. FinalEditIsLast' /\ DroppedStayOut'
    BY <1>0, <2>1, <2>2 DEF LateInv, FinalEditIsLast, DroppedStayOut, Accepted
  <2> QED
    BY <2>3, <2>4 DEF LateInv
<1>5. CASE PutBack /\ Elsewhere
  <2>1. /\ picked \in Op /\ picked \in postponed /\ picked' = None /\ worker' = "waiting"
        /\ UNCHANGED <<closed, call, applied, postponed>>
        /\ \A p \in Op : result[p] # "unset" => result'[p] # "unset"
    BY <1>0, <1>5 DEF PutBack, Elsewhere, telegram, Settle, Settled, TypeOK, LifeInv, HandsFollowWorker,
       LateInv, RefusedArePostponed
  <2>2. \A p \in Op : p \in Queued' =>
          p \in Queued \/ (p = picked /\ ~closed /\ pending[KeyOf[p]] = None)
    BY <1>0, <1>5, OutboxAssumption DEF PutBack, Queued, TypeOK
  <2>3. WaitedAreSettled' /\ CallsFollowPhase' /\ AppliedAreAccepted' /\ RefusedArePostponed'
    BY <1>0, <2>1, OutboxAssumption DEF LateInv, WaitedAreSettled, CallsFollowPhase, AppliedAreAccepted,
       Accepted, RefusedArePostponed
  <2>4. FinalEditIsLast'
    BY <2>1, <2>2 DEF LateInv, FinalEditIsLast, Accepted
  <2>5. DroppedStayOut'
    BY <1>0, <2>1, <2>2 DEF LateInv, DroppedStayOut
  <2> QED
    BY <2>3, <2>4, <2>5 DEF LateInv
<1>6. CASE Fail /\ Elsewhere
  BY <1>0, <1>6, LateShut DEF Fail, Elsewhere
<1> QED
  BY <1>1, <1>2, <1>3, <1>4, <1>5, <1>6 DEF WorkerAt

LEMMA LateRun ==
  ASSUME LateInv, LifeInv, Run
  PROVE  LateInv'
<1> USE ProgressOps
<1>0. TypeOK
  BY DEF LifeInv
<1>1. CASE FinalEditReturns \/ FinalSendReturns \/ RemovalReturns
  BY <1>1, LateFrame DEF FinalEditReturns, FinalSendReturns, RemovalReturns, vars, telegram, LateInv,
     CallsFollowPhase, RefusedArePostponed
<1>2. CASE DropForSend \/ DropForRemoval
  <2>1. DropPending(EditKey) /\ UNCHANGED telegram /\ phase \in {"dropping", "clearing"}
    BY <1>2 DEF DropForSend, DropForRemoval
  <2>2. CallsFollowPhase'
    BY <1>2 DEF DropForSend, DropForRemoval, DropPending, LateInv, CallsFollowPhase
  <2> QED
    BY <2>1, <2>2, LateDrop
<1>3. CASE SendFinal
  <2>1. Submit(FinalSend) /\ UNCHANGED telegram /\ phase = "placing" /\ phase' = "sending"
    BY <1>3 DEF SendFinal
  <2>2. CallsFollowPhase'
    BY <1>0, <2>1 DEF Submit, LateInv, CallsFollowPhase, TypeOK
  <2> QED
    BY <1>0, <2>1, <2>2, LateSubmit
<1>4. CASE Remove
  <2>1. Submit(Removal) /\ UNCHANGED telegram /\ phase = "removing" /\ phase' = "awaiting"
    BY <1>4 DEF Remove
  <2>2. CallsFollowPhase'
    BY <1>0, <2>1 DEF Submit, LateInv, CallsFollowPhase, TypeOK
  <2> QED
    BY <1>0, <2>1, <2>2, LateSubmit
<1> QED
  BY <1>1, <1>2, <1>3, <1>4 DEF Run

LEMMA LateInvariance == ProgressSpec => []LateInv
<1>1. LateInv /\ LifeInv /\ EditorInv /\ [ProgressNext]_allVars => LateInv'
  <2> SUFFICES ASSUME LateInv, LifeInv, EditorInv, [ProgressNext]_allVars PROVE LateInv'
    OBVIOUS
  <2> USE ProgressOps
  <2>0. TypeOK
    BY DEF LifeInv
  <2>1. CASE OnEvent \/ EndBySend \/ EndSuppressed
    BY <2>1, LateFrame DEF OnEvent, EndBySend, EndSuppressed, vars, ending, telegram, LateInv,
       CallsFollowPhase, RefusedArePostponed
  <2>2. CASE Editor
    <3>1. CASE EditorEdits
      <4>1. event_seq \in Events /\ Submit(event_seq) /\ UNCHANGED <<phase, telegram>>
        BY <3>1, ProgressAssumption DEF EditorEdits, EditorInv, Events, ending
      <4>2. event_seq \in Op /\ event_seq # FinalSend /\ event_seq # FinalEdit
        BY <4>1
      <4>3. CallsFollowPhase'
        BY <2>0, <4>1, <4>2 DEF Submit, LateInv, CallsFollowPhase, TypeOK
      <4> QED
        BY <2>0, <4>1, <4>2, <4>3, LateSubmit
    <3>2. CASE EditorWaits \/ EditorWakes \/ EditorSkips \/ EditorDone
      BY <3>2, LateFrame DEF EditorWaits, EditorWakes, EditorSkips, EditorDone, vars, ending, telegram,
         LateInv, CallsFollowPhase, RefusedArePostponed
    <3> QED
      BY <2>2, <3>1, <3>2 DEF Editor
  <2>3. CASE EndByEdit
    <3>1. Submit(FinalEdit) /\ UNCHANGED telegram /\ phase = "running" /\ phase' = "editing"
      BY <2>3 DEF EndByEdit
    <3>2. CallsFollowPhase'
      BY <2>0, <3>1 DEF Submit, LateInv, CallsFollowPhase, TypeOK
    <3> QED
      BY <2>0, <3>1, <3>2, LateSubmit
  <2>4. ASSUME NEW o \in Op, CallerAt(o) PROVE LateInv'
    BY <2>4, LateCaller
  <2>5. CASE Close /\ Elsewhere
    BY <2>0, <2>5, LateShut DEF Close, Elsewhere, ending, Notified
  <2>6. CASE (CloseReturns \/ Tick) /\ Elsewhere
    BY <2>6, LateFrame DEF CloseReturns, Tick, Elsewhere, ending, telegram, LateInv, CallsFollowPhase,
       RefusedArePostponed
  <2>7. CASE UNCHANGED allVars
    BY <2>7, LateFrame DEF allVars, vars, ending, telegram, LateInv, CallsFollowPhase, RefusedArePostponed
  <2> QED
    BY <2>1, <2>2, <2>3, <2>4, <2>5, <2>6, <2>7, LateRun, LateWorker DEF ProgressNext
<1> QED
  BY <1>1, LateStart, LifeInvariance, EditorInvariance, ProgressUsesOutbox, PTL DEF ProgressSpec

\* Once the final text is on Telegram no progress edit is begun, however many events,
\* refusals and closes there are: never after a final edit, and after a final message
\* only one that Telegram had postponed (client.py 193-207, outbox.py 149-158).
THEOREM FinalTextIsLast == ProgressSpec => NoLateProgress
<1>1. LateInv /\ EditorInv /\ [ProgressNext]_allVars =>
        [\A e \in Events : picked' = e /\ picked # e
            => /\ FinalEdit \notin applied
               /\ FinalSend \in applied => e \in postponed]_allVars
  <2> SUFFICES ASSUME LateInv, ProgressNext, NEW e \in Events, picked' = e, picked # e
               PROVE  FinalEdit \notin applied /\ (FinalSend \in applied => e \in postponed)
    OBVIOUS
  <2> USE ProgressOps
  <2>1. e # None /\ e \in Op
    OBVIOUS
  <2>2. Pick(e)
    <3>1. ~\E o \in Op : CallerAt(o)
      BY DEF CallerAt, Caller, Enqueue, EnqueueClosed, EnqueueReturns
    <3>2. ~(OnEvent \/ Editor \/ EndByEdit \/ EndBySend \/ EndSuppressed)
      BY DEF OnEvent, Editor, EditorWaits, EditorWakes, EditorSkips, EditorEdits, EditorDone,
         EndByEdit, EndBySend, EndSuppressed, Submit, vars
    <3>3. ~Run
      BY DEF Run, FinalEditReturns, DropForSend, SendFinal, FinalSendReturns, DropForRemoval, Remove,
         RemovalReturns, Submit, DropPending, vars
    <3>4. ~(Close \/ CloseReturns \/ Tick)
      BY DEF Close, CloseReturns, Tick
    <3>5. WorkerAt
      BY <3>1, <3>2, <3>3, <3>4 DEF ProgressNext
    <3> QED
      BY <2>1, <3>5 DEF WorkerAt, ExecutedAt, Executed, RefusedAt, Refused, Look, Wake, PickNothing,
         HookRaises, PutBack, Fail, Pick
  <2>3. e \in Events \cap Queued
    BY <2>2 DEF Pick
  <2>4. FinalEdit \notin applied
    BY <2>3 DEF LateInv, FinalEditIsLast, AppliedAreAccepted
  <2>5. FinalSend \in applied => e \in postponed
    BY <2>3 DEF LateInv, DroppedStayOut, AppliedAreAccepted, Accepted
  <2> QED
    BY <2>4, <2>5
<1> QED
  BY <1>1, LateInvariance, EditorInvariance, PTL DEF ProgressSpec, NoLateProgress
===============================================================================
