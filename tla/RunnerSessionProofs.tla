------------------------- MODULE RunnerSessionProofs --------------------------
(***************************************************************************)
(* Proofs about RunnerSession, for any number of runs and sessions.        *)
(***************************************************************************)
EXTENDS RunnerSession, SequenceTheorems, TLAPS

----------------------------------------------------------------------------
(***************************************************************************)
(* What adding a run to a queue without repetitions, and taking it out,    *)
(* does to the queue.                                                      *)
(***************************************************************************)
\* A run that is not in the queue goes to its end.
LEMMA AppendUnique ==
  ASSUME NEW S, NEW s \in Seq(S), NEW x \in S, IsInjective(s), ~Contains(s, x)
  PROVE  /\ Append(s, x) \in Seq(S) /\ Append(s, x) # <<>>
         /\ IsInjective(Append(s, x))
         /\ \A y : Contains(Append(s, x), y) <=> Contains(s, y) \/ y = x
BY DEF IsInjective, Contains

\* The elements before and after position i, in order.
LEMMA RemoveAtElements ==
  ASSUME NEW S, NEW s \in Seq(S), NEW i \in 1..Len(s)
  PROVE  /\ RemoveAt(s, i) \in Seq(S)
         /\ Len(RemoveAt(s, i)) = Len(s) - 1
         /\ \A n \in 1..(Len(s) - 1) : RemoveAt(s, i)[n] = IF n < i THEN s[n] ELSE s[n + 1]
<1> DEFINE before == SubSeq(s, 1, i - 1)
           after  == SubSeq(s, i + 1, Len(s))
<1>1. Len(s) \in Nat /\ i \in Nat /\ 1 <= i /\ i <= Len(s)
  OBVIOUS
<1>2. /\ before \in Seq(S) /\ Len(before) = i - 1
      /\ \A n \in 1..(i - 1) : before[n] = s[n]
  BY <1>1, SubSeqProperties
<1>3. /\ after \in Seq(S) /\ Len(after) = Len(s) - i
      /\ \A n \in 1..(Len(s) - i) : after[n] = s[i + n]
  BY <1>1, SubSeqProperties
<1> HIDE DEF before, after
<1>4. /\ before \o after \in Seq(S)
      /\ Len(before \o after) = Len(before) + Len(after)
      /\ \A n \in 1..(Len(before) + Len(after)) :
           (before \o after)[n] = IF n <= Len(before) THEN before[n] ELSE after[n - Len(before)]
  BY <1>2, <1>3, ConcatProperties
<1>5. RemoveAt(s, i) = before \o after
  BY DEF RemoveAt, before, after
<1>6. Len(before) + Len(after) = Len(s) - 1
  BY <1>1, <1>2, <1>3
<1>7. ASSUME NEW n \in 1..(Len(s) - 1)
      PROVE  (before \o after)[n] = IF n < i THEN s[n] ELSE s[n + 1]
  <2>1. CASE n < i
    BY <1>1, <1>2, <1>4, <1>6, <2>1
  <2>2. CASE ~(n < i)
    <3>1. n - Len(before) \in 1..(Len(s) - i) /\ i + (n - Len(before)) = n + 1
      BY <1>1, <1>2, <2>2
    <3>2. (before \o after)[n] = after[n - Len(before)]
      BY <1>1, <1>2, <1>4, <1>6, <2>2
    <3> QED
      BY <1>3, <2>2, <3>1, <3>2
  <2> QED
    BY <2>1, <2>2
<1> QED
  BY <1>4, <1>5, <1>6, <1>7

\* Of a queue without repetitions only the element at position i goes.
LEMMA RemoveAtUnique ==
  ASSUME NEW S, NEW s \in Seq(S), NEW i \in 1..Len(s), IsInjective(s)
  PROVE  /\ RemoveAt(s, i) \in Seq(S)
         /\ IsInjective(RemoveAt(s, i))
         /\ \A y : Contains(RemoveAt(s, i), y) <=> Contains(s, y) /\ y # s[i]
<1> DEFINE r == RemoveAt(s, i)
<1>1. /\ r \in Seq(S) /\ Len(r) = Len(s) - 1
      /\ \A n \in 1..(Len(s) - 1) : r[n] = IF n < i THEN s[n] ELSE s[n + 1]
  BY RemoveAtElements
<1>2. Len(s) \in Nat /\ i \in Nat /\ DOMAIN s = 1..Len(s) /\ DOMAIN r = 1..(Len(s) - 1)
  BY <1>1
<1> HIDE DEF r
<1>3. IsInjective(r)
  BY <1>1, <1>2 DEF IsInjective
<1>4. ASSUME NEW y, Contains(r, y)
      PROVE  Contains(s, y) /\ y # s[i]
  <2>1. PICK n \in 1..(Len(s) - 1) : r[n] = y
    BY <1>1, <1>2, <1>4 DEF Contains
  <2>2. n \in 1..Len(s) /\ n + 1 \in 1..Len(s)
    BY <1>2
  <2> QED
    BY <1>1, <1>2, <2>1, <2>2 DEF Contains, IsInjective
<1>5. ASSUME NEW y, Contains(s, y), y # s[i]
      PROVE  Contains(r, y)
  <2>1. PICK n \in 1..Len(s) : s[n] = y
    BY <1>5 DEF Contains
  <2>2. n < i \/ i < n
    BY <1>2, <1>5, <2>1
  <2>3. CASE n < i
    <3>1. n \in 1..(Len(s) - 1) /\ r[n] = y
      BY <1>1, <1>2, <2>1, <2>3
    <3> QED
      BY <1>1, <3>1 DEF Contains
  <2>4. CASE i < n
    <3>1. n - 1 \in 1..(Len(s) - 1) /\ r[n - 1] = y
      BY <1>1, <1>2, <2>1, <2>4
    <3> QED
      BY <1>1, <3>1 DEF Contains
  <2> QED
    BY <2>2, <2>3, <2>4
<1> QED
  BY <1>1, <1>3, <1>4, <1>5 DEF r

LEMMA WithoutUnique ==
  ASSUME NEW S, NEW s \in Seq(S), NEW x, IsInjective(s)
  PROVE  /\ Without(s, x) \in Seq(S)
         /\ IsInjective(Without(s, x))
         /\ \A y : Contains(Without(s, x), y) <=> Contains(s, y) /\ y # x
         /\ s # <<>> /\ Head(s) # x => Without(s, x) # <<>> /\ Head(Without(s, x)) = Head(s)
<1>1. CASE ~Contains(s, x)
  BY <1>1 DEF Without
<1>2. CASE Contains(s, x)
  <2> DEFINE i == CHOOSE i \in DOMAIN s : s[i] = x
  <2>1. i \in 1..Len(s) /\ s[i] = x
    BY <1>2 DEF Contains
  <2>2. Without(s, x) = RemoveAt(s, i)
    BY <1>2 DEF Without
  <2> HIDE DEF i
  <2>3. /\ RemoveAt(s, i) \in Seq(S) /\ IsInjective(RemoveAt(s, i))
        /\ \A y : Contains(RemoveAt(s, i), y) <=> Contains(s, y) /\ y # x
    BY <2>1, RemoveAtUnique
  <2>4. ASSUME s # <<>>, Head(s) # x
        PROVE  RemoveAt(s, i) # <<>> /\ Head(RemoveAt(s, i)) = Head(s)
    <3>1. i # 1 /\ Len(s) \in Nat /\ Head(s) = s[1]
      BY <2>1, <2>4
    <3>2. 1 \in 1..(Len(s) - 1) /\ 1 < i
      BY <2>1, <3>1
    <3>3. Len(RemoveAt(s, i)) = Len(s) - 1 /\ RemoveAt(s, i)[1] = s[1]
      BY <2>1, <3>2, RemoveAtElements
    <3> QED
      BY <2>3, <3>1, <3>2, <3>3
  <2> QED
    BY <2>2, <2>3, <2>4
<1> QED
  BY <1>1, <1>2

----------------------------------------------------------------------------
(***************************************************************************)
(* The inductive invariant.  SessionExclusive speaks of two tasks and says *)
(* nothing of the lock; what makes it inductive is who is in the           *)
(* semaphore's queue (the runs that wait for it, that are in the session,  *)
(* and that left a run_locked behind) and that only the ones that wait may *)
(* stand behind its head.                                                  *)
(***************************************************************************)
LeftSession(r) == abandoned[r] = "outer" /\ r \in Resuming \cup started
HasSession(r)  == InSession(r) \/ LeftSession(r)

QueueInv ==
  \A t \in Token :
    /\ IsInjective(lock[t])
    /\ \A r \in Run : Contains(lock[t], r)
         <=> TokenOf[r] = t /\ (pc[r] \in {"locking", "announcing"} \/ HasSession(r))

HolderInv == \A r \in Run : HasSession(r) => Holds(r)

PlaceInv ==
  /\ IsInjective(running_tasks)
  /\ \A r \in Run :
       /\ pc[r] = "idle" => r \notin started
       /\ pc[r] \in {"idle", "locking"} => process[r] = "none"
       /\ pc[r] = "locking" => r \in Resuming
       /\ pc[r] = "announcing" => r \notin Resuming \cup started
       /\ abandoned[r] # "nothing" => pc[r] = "over"

IInv == TypeOK /\ QueueInv /\ HolderInv /\ PlaceInv /\ NoOrphanAgent

\* What entering and leaving a session do to the semaphores' queues.
LEMMA EnterEffect ==
  ASSUME TypeOK, QueueInv, NEW r \in Run, Enter(r), ~Contains(lock[TokenOf[r]], r)
  PROVE  /\ lock' \in [Token -> Seq(Run)]
         /\ \A t \in Token : IsInjective(lock'[t])
         /\ \A t \in Token, q \in Run :
              Contains(lock'[t], q) <=> Contains(lock[t], q) \/ (q = r /\ t = TokenOf[r])
         /\ \A q \in Run : Holds(q) => Holds(q)'
<1> DEFINE new == Append(lock[TokenOf[r]], r)
<1>1. TokenOf[r] \in Token /\ lock \in [Token -> Seq(Run)]
  BY SessionAssumption DEF TypeOK
<1>2. lock[TokenOf[r]] \in Seq(Run) /\ IsInjective(lock[TokenOf[r]])
  BY <1>1 DEF QueueInv
<1>3. /\ new \in Seq(Run) /\ IsInjective(new)
      /\ \A q : Contains(new, q) <=> Contains(lock[TokenOf[r]], q) \/ q = r
  BY <1>2, AppendUnique
<1>4. lock[TokenOf[r]] # <<>> => new # <<>> /\ Head(new) = Head(lock[TokenOf[r]])
  BY <1>2
<1>5. lock' = [lock EXCEPT ![TokenOf[r]] = new]
  BY DEF Enter
<1> HIDE DEF new
<1> QED
  BY <1>1, <1>2, <1>3, <1>4, <1>5, SessionAssumption DEF QueueInv, Holds

LEMMA LeaveEffect ==
  ASSUME TypeOK, QueueInv, NEW r \in Run, Leave(r)
  PROVE  /\ lock' \in [Token -> Seq(Run)]
         /\ \A t \in Token : IsInjective(lock'[t])
         /\ \A t \in Token, q \in Run :
              Contains(lock'[t], q) <=> Contains(lock[t], q) /\ q # r
         /\ \A q \in Run : q # r /\ Holds(q) => Holds(q)'
<1> DEFINE new == Without(lock[TokenOf[r]], r)
<1>1. TokenOf[r] \in Token /\ lock \in [Token -> Seq(Run)]
  BY SessionAssumption DEF TypeOK
<1>2. lock[TokenOf[r]] \in Seq(Run) /\ IsInjective(lock[TokenOf[r]])
  BY <1>1 DEF QueueInv
<1>3. /\ new \in Seq(Run) /\ IsInjective(new)
      /\ \A q : Contains(new, q) <=> Contains(lock[TokenOf[r]], q) /\ q # r
      /\ lock[TokenOf[r]] # <<>> /\ Head(lock[TokenOf[r]]) # r
           => new # <<>> /\ Head(new) = Head(lock[TokenOf[r]])
  BY <1>2, WithoutUnique
<1>4. lock' = [lock EXCEPT ![TokenOf[r]] = new]
  BY DEF Leave
<1>5. \A t \in Token : t # TokenOf[r] => ~Contains(lock[t], r)
  BY DEF QueueInv
<1> HIDE DEF new
<1>6. ASSUME NEW t \in Token, NEW q \in Run
      PROVE  Contains(lock'[t], q) <=> Contains(lock[t], q) /\ q # r
  BY <1>1, <1>3, <1>4, <1>5
<1>7. ASSUME NEW q \in Run, q # r, Holds(q)
      PROVE  Holds(q)'
  BY <1>1, <1>3, <1>4, <1>7 DEF Holds
<1>8. lock' \in [Token -> Seq(Run)] /\ \A t \in Token : IsInjective(lock'[t])
  BY <1>1, <1>3, <1>4 DEF QueueInv
<1> QED
  BY <1>6, <1>7, <1>8

\* What the end of a run does to running_tasks.
LEMMA FinishEffect ==
  ASSUME TypeOK, PlaceInv, NEW r \in Run, Finish(r)
  PROVE  /\ running_tasks' \in Seq(Run) /\ IsInjective(running_tasks')
         /\ \A q \in Run : (pc'[q] \in {"idle", "over"}) = ~Contains(running_tasks', q)
         /\ pc' = [pc EXCEPT ![r] = "over"]
         /\ cancel_requested' \in SUBSET Run
<1>1. /\ running_tasks' \in Seq(Run) /\ IsInjective(running_tasks')
      /\ \A q : Contains(running_tasks', q) <=> Contains(running_tasks, q) /\ q # r
  BY WithoutUnique DEF Finish, TypeOK, PlaceInv
<1> QED
  BY <1>1 DEF Finish, Goto, TypeOK

LEMMA IInvInit == Init => IInv
<1> SUFFICES ASSUME Init PROVE IInv
  OBVIOUS
<1>1. TypeOK
  BY SessionAssumption DEF Init, TypeOK, Contains
<1>2. QueueInv
  BY DEF Init, QueueInv, HasSession, InSession, InConsumer, LeftSession, Contains, IsInjective
<1>3. HolderInv /\ PlaceInv /\ NoOrphanAgent
  BY DEF Init, HolderInv, HasSession, InSession, InConsumer, LeftSession, PlaceInv, NoOrphanAgent, IsInjective
<1> QED
  BY <1>1, <1>2, <1>3 DEF IInv

LEMMA ResumeStep ==
  ASSUME IInv, NEW r \in Run, Resume(r)
  PROVE  IInv'
<1> USE DEF IInv, control, events, InConsumer, InGenerator
<1>1. TypeOK'
  BY SessionAssumption DEF Resume, Goto, TypeOK
<1>2. QueueInv'
  BY SessionAssumption DEF Resume, Goto, TypeOK, QueueInv, PlaceInv, HasSession, InSession, LeftSession
<1>3. HolderInv'
  BY SessionAssumption DEF Resume, Goto, TypeOK, HolderInv, QueueInv, PlaceInv, HasSession, InSession, LeftSession, Holds
<1>4. PlaceInv'
  BY SessionAssumption DEF Resume, Goto, TypeOK, PlaceInv
<1>5. NoOrphanAgent'
  BY SessionAssumption DEF Resume, Goto, TypeOK, NoOrphanAgent, PlaceInv
<1> QED
  BY <1>1, <1>2, <1>3, <1>4, <1>5

LEMMA AnnounceStep ==
  ASSUME IInv, NEW r \in Run, Announce(r)
  PROVE  IInv'
<1> USE DEF IInv, control, events, InConsumer, InGenerator
<1>1. TypeOK'
  BY SessionAssumption DEF Announce, Goto, TypeOK
<1>2. QueueInv'
  BY SessionAssumption DEF Announce, Goto, TypeOK, QueueInv, PlaceInv, HasSession, InSession, LeftSession
<1>3. HolderInv'
  BY SessionAssumption DEF Announce, Goto, TypeOK, HolderInv, QueueInv, PlaceInv, HasSession, InSession, LeftSession, Holds
<1>4. PlaceInv'
  BY SessionAssumption DEF Announce, Goto, TypeOK, PlaceInv
<1>5. NoOrphanAgent'
  BY SessionAssumption DEF Announce, Goto, TypeOK, NoOrphanAgent, PlaceInv
<1> QED
  BY <1>1, <1>2, <1>3, <1>4, <1>5

LEMMA NotedStep ==
  ASSUME IInv, NEW r \in Run, Noted(r)
  PROVE  IInv'
<1> USE DEF IInv, control, events, InConsumer, InGenerator
<1>1. TypeOK'
  BY SessionAssumption DEF Noted, Goto, TypeOK
<1>2. QueueInv'
  BY SessionAssumption DEF Noted, Goto, TypeOK, QueueInv, PlaceInv, HasSession, InSession, LeftSession
<1>3. HolderInv'
  BY SessionAssumption DEF Noted, Goto, TypeOK, HolderInv, QueueInv, PlaceInv, HasSession, InSession, LeftSession, Holds
<1>4. PlaceInv'
  BY SessionAssumption DEF Noted, Goto, TypeOK, PlaceInv
<1>5. NoOrphanAgent'
  BY SessionAssumption DEF Noted, Goto, TypeOK, NoOrphanAgent, PlaceInv
<1> QED
  BY <1>1, <1>2, <1>3, <1>4, <1>5

LEMMA AgentCompletesStep ==
  ASSUME IInv, NEW r \in Run, AgentCompletes(r)
  PROVE  IInv'
<1> USE DEF IInv, control, events, InConsumer, InGenerator
<1>1. TypeOK'
  BY SessionAssumption DEF AgentCompletes, Goto, TypeOK
<1>2. QueueInv'
  BY SessionAssumption DEF AgentCompletes, Goto, TypeOK, QueueInv, PlaceInv, HasSession, InSession, LeftSession
<1>3. HolderInv'
  BY SessionAssumption DEF AgentCompletes, Goto, TypeOK, HolderInv, QueueInv, PlaceInv, HasSession, InSession, LeftSession, Holds
<1>4. PlaceInv'
  BY SessionAssumption DEF AgentCompletes, Goto, TypeOK, PlaceInv
<1>5. NoOrphanAgent'
  BY SessionAssumption DEF AgentCompletes, Goto, TypeOK, NoOrphanAgent, PlaceInv
<1> QED
  BY <1>1, <1>2, <1>3, <1>4, <1>5

LEMMA AgentExitsStep ==
  ASSUME IInv, NEW r \in Run, AgentExits(r)
  PROVE  IInv'
<1> USE DEF IInv, control, events, InConsumer, InGenerator
<1>1. TypeOK'
  BY SessionAssumption DEF AgentExits, TypeOK
<1>2. QueueInv'
  BY SessionAssumption DEF AgentExits, TypeOK, QueueInv, PlaceInv, HasSession, InSession, LeftSession
<1>3. HolderInv'
  BY SessionAssumption DEF AgentExits, TypeOK, HolderInv, QueueInv, PlaceInv, HasSession, InSession, LeftSession, Holds
<1>4. PlaceInv'
  BY SessionAssumption DEF AgentExits, TypeOK, PlaceInv
<1>5. NoOrphanAgent'
  BY SessionAssumption DEF AgentExits, TypeOK, NoOrphanAgent, PlaceInv
<1> QED
  BY <1>1, <1>2, <1>3, <1>4, <1>5

LEMMA SessionMismatchStep ==
  ASSUME IInv, NEW r \in Run, SessionMismatch(r)
  PROVE  IInv'
<1> USE DEF IInv, control, events, InConsumer, InGenerator
<1>1. TypeOK'
  BY SessionAssumption DEF SessionMismatch, Goto, Terminate, TypeOK
<1>2. QueueInv'
  BY SessionAssumption DEF SessionMismatch, Goto, Terminate, TypeOK, QueueInv, PlaceInv, HasSession, InSession, LeftSession
<1>3. HolderInv'
  BY SessionAssumption DEF SessionMismatch, Goto, Terminate, TypeOK, HolderInv, QueueInv, PlaceInv, HasSession, InSession, LeftSession, Holds
<1>4. PlaceInv'
  BY SessionAssumption DEF SessionMismatch, Goto, Terminate, TypeOK, PlaceInv
<1>5. NoOrphanAgent'
  BY SessionAssumption DEF SessionMismatch, Goto, Terminate, TypeOK, NoOrphanAgent, PlaceInv
<1> QED
  BY <1>1, <1>2, <1>3, <1>4, <1>5

LEMMA CancelStep ==
  ASSUME IInv, NEW r \in Run, Cancel(r)
  PROVE  IInv'
<1> USE DEF IInv, control, events, InConsumer, InGenerator
<1>1. TypeOK'
  BY SessionAssumption DEF Cancel, TypeOK
<1>2. QueueInv'
  BY SessionAssumption DEF Cancel, TypeOK, QueueInv, PlaceInv, HasSession, InSession, LeftSession
<1>3. HolderInv'
  BY SessionAssumption DEF Cancel, TypeOK, HolderInv, QueueInv, PlaceInv, HasSession, InSession, LeftSession, Holds
<1>4. PlaceInv'
  BY SessionAssumption DEF Cancel, TypeOK, PlaceInv
<1>5. NoOrphanAgent'
  BY SessionAssumption DEF Cancel, TypeOK, NoOrphanAgent, PlaceInv
<1> QED
  BY <1>1, <1>2, <1>3, <1>4, <1>5

LEMMA CancelWhileReadingStep ==
  ASSUME IInv, NEW r \in Run, CancelWhileReading(r)
  PROVE  IInv'
<1> USE DEF IInv, control, events, InConsumer, InGenerator
<1>1. TypeOK'
  BY SessionAssumption DEF CancelWhileReading, Goto, Terminate, TypeOK
<1>2. QueueInv'
  BY SessionAssumption DEF CancelWhileReading, Goto, Terminate, TypeOK, QueueInv, PlaceInv, HasSession, InSession, LeftSession
<1>3. HolderInv'
  BY SessionAssumption DEF CancelWhileReading, Goto, Terminate, TypeOK, HolderInv, QueueInv, PlaceInv, HasSession, InSession, LeftSession, Holds
<1>4. PlaceInv'
  BY SessionAssumption DEF CancelWhileReading, Goto, Terminate, TypeOK, PlaceInv
<1>5. NoOrphanAgent'
  BY SessionAssumption DEF CancelWhileReading, Goto, Terminate, TypeOK, NoOrphanAgent, PlaceInv
<1> QED
  BY <1>1, <1>2, <1>3, <1>4, <1>5

LEMMA CloseInnerStep ==
  ASSUME IInv, NEW r \in Run, CloseInner(r)
  PROVE  IInv'
<1> USE DEF IInv, control, events, InConsumer, InGenerator
<1>1. TypeOK'
  BY SessionAssumption DEF CloseInner, Terminate, TypeOK
<1>2. QueueInv'
  BY SessionAssumption DEF CloseInner, Terminate, TypeOK, QueueInv, PlaceInv, HasSession, InSession, LeftSession
<1>3. HolderInv'
  BY SessionAssumption DEF CloseInner, Terminate, TypeOK, HolderInv, QueueInv, PlaceInv, HasSession, InSession, LeftSession, Holds
<1>4. PlaceInv'
  BY SessionAssumption DEF CloseInner, Terminate, TypeOK, PlaceInv
<1>5. NoOrphanAgent'
  BY SessionAssumption DEF CloseInner, Terminate, TypeOK, NoOrphanAgent, PlaceInv
<1> QED
  BY <1>1, <1>2, <1>3, <1>4, <1>5

LEMMA ClosedStep ==
  ASSUME IInv, NEW r \in Run, Closed(r)
  PROVE  IInv'
<1> USE DEF IInv, control, events, InConsumer, InGenerator
<1>1. TypeOK'
  BY SessionAssumption DEF Closed, TypeOK
<1>2. QueueInv'
  BY SessionAssumption DEF Closed, TypeOK, QueueInv, PlaceInv, HasSession, InSession, LeftSession
<1>3. HolderInv'
  BY SessionAssumption DEF Closed, TypeOK, HolderInv, QueueInv, PlaceInv, HasSession, InSession, LeftSession, Holds
<1>4. PlaceInv'
  BY SessionAssumption DEF Closed, TypeOK, PlaceInv
<1>5. NoOrphanAgent'
  BY SessionAssumption DEF Closed, TypeOK, NoOrphanAgent, PlaceInv
<1> QED
  BY <1>1, <1>2, <1>3, <1>4, <1>5

LEMMA QuestionHandledStep ==
  ASSUME IInv, NEW r \in Run, QuestionHandled(r)
  PROVE  IInv'
<1> USE DEF IInv, control, events, InConsumer, InGenerator
<1>1. TypeOK'
  BY SessionAssumption DEF QuestionHandled, Goto, TypeOK
<1>2. QueueInv'
  BY SessionAssumption DEF QuestionHandled, Goto, TypeOK, QueueInv, PlaceInv, HasSession, InSession, LeftSession
<1>3. HolderInv'
  BY SessionAssumption DEF QuestionHandled, Goto, TypeOK, HolderInv, QueueInv, PlaceInv, HasSession, InSession, LeftSession, Holds
<1>4. PlaceInv'
  BY SessionAssumption DEF QuestionHandled, Goto, TypeOK, PlaceInv
<1>5. NoOrphanAgent'
  BY SessionAssumption DEF QuestionHandled, Goto, TypeOK, NoOrphanAgent, PlaceInv
<1> QED
  BY <1>1, <1>2, <1>3, <1>4, <1>5

LEMMA AgentAsksStep ==
  ASSUME IInv, NEW r \in Run, AgentAsks(r)
  PROVE  IInv'
<1> USE DEF IInv, control, events, InConsumer, InGenerator
<1>0. Head(running_tasks) \in Run
  <2>1. /\ running_tasks \in Seq(Run)
        /\ (pc[r] \in {"idle", "over"}) = ~Contains(running_tasks, r)
        /\ pc[r] = "reading"
    BY DEF AgentAsks, TypeOK
  <2>2. running_tasks # <<>>
    BY <2>1 DEF Contains
  <2> HIDE DEF IInv
  <2> QED
    BY <2>1, <2>2, HeadTailProperties
<1>1. TypeOK'
  BY <1>0, SessionAssumption DEF AgentAsks, Goto, TypeOK
<1>2. QueueInv'
  BY <1>0, SessionAssumption DEF AgentAsks, Goto, TypeOK, QueueInv, PlaceInv, HasSession, InSession, LeftSession
<1>3. HolderInv'
  BY <1>0, SessionAssumption DEF AgentAsks, Goto, TypeOK, HolderInv, QueueInv, PlaceInv, HasSession, InSession, LeftSession, Holds
<1>4. PlaceInv'
  BY <1>0, SessionAssumption DEF AgentAsks, Goto, TypeOK, PlaceInv
<1>5. NoOrphanAgent'
  BY <1>0, SessionAssumption DEF AgentAsks, Goto, TypeOK, NoOrphanAgent, PlaceInv
<1> QED
  BY <1>1, <1>2, <1>3, <1>4, <1>5

LEMMA CancelWhileConsumingStep ==
  ASSUME IInv, NEW r \in Run, CancelWhileConsuming(r)
  PROVE  IInv'
<1> USE DEF IInv, control, events, InConsumer, InGenerator
<1>0. /\ running_tasks' \in Seq(Run) /\ IsInjective(running_tasks')
      /\ \A q \in Run : (pc'[q] \in {"idle", "over"}) = ~Contains(running_tasks', q)
      /\ pc' = [pc EXCEPT ![r] = "over"]
      /\ cancel_requested' \in SUBSET Run
  BY FinishEffect DEF CancelWhileConsuming
<1>1. TypeOK'
  BY <1>0, SessionAssumption DEF CancelWhileConsuming, TypeOK
<1>2. QueueInv'
  BY <1>0, SessionAssumption DEF CancelWhileConsuming, TypeOK, QueueInv, PlaceInv, HasSession, InSession, LeftSession
<1>3. HolderInv'
  BY <1>0, SessionAssumption DEF CancelWhileConsuming, TypeOK, HolderInv, QueueInv, PlaceInv, HasSession, InSession, LeftSession, Holds
<1>4. PlaceInv'
  BY <1>0, SessionAssumption DEF CancelWhileConsuming, TypeOK, PlaceInv
<1>5. NoOrphanAgent'
  BY <1>0, SessionAssumption DEF CancelWhileConsuming, TypeOK, NoOrphanAgent, PlaceInv
<1> QED
  BY <1>1, <1>2, <1>3, <1>4, <1>5

LEMMA NotingFailsStep ==
  ASSUME IInv, NEW r \in Run, NotingFails(r)
  PROVE  IInv'
<1> USE DEF IInv, control, events, InConsumer, InGenerator
<1>0. /\ running_tasks' \in Seq(Run) /\ IsInjective(running_tasks')
      /\ \A q \in Run : (pc'[q] \in {"idle", "over"}) = ~Contains(running_tasks', q)
      /\ pc' = [pc EXCEPT ![r] = "over"]
      /\ cancel_requested' \in SUBSET Run
  BY FinishEffect DEF NotingFails
<1>1. TypeOK'
  BY <1>0, SessionAssumption DEF NotingFails, TypeOK
<1>2. QueueInv'
  BY <1>0, SessionAssumption DEF NotingFails, TypeOK, QueueInv, PlaceInv, HasSession, InSession, LeftSession
<1>3. HolderInv'
  BY <1>0, SessionAssumption DEF NotingFails, TypeOK, HolderInv, QueueInv, PlaceInv, HasSession, InSession, LeftSession, Holds
<1>4. PlaceInv'
  BY <1>0, SessionAssumption DEF NotingFails, TypeOK, PlaceInv
<1>5. NoOrphanAgent'
  BY <1>0, SessionAssumption DEF NotingFails, TypeOK, NoOrphanAgent, PlaceInv
<1> QED
  BY <1>1, <1>2, <1>3, <1>4, <1>5

LEMMA StreamEndsStep ==
  ASSUME IInv, NEW r \in Run, StreamEnds(r)
  PROVE  IInv'
<1> USE DEF IInv, control, events, InConsumer, InGenerator
<1>0. /\ running_tasks' \in Seq(Run) /\ IsInjective(running_tasks')
      /\ \A q \in Run : (pc'[q] \in {"idle", "over"}) = ~Contains(running_tasks', q)
      /\ pc' = [pc EXCEPT ![r] = "over"]
      /\ cancel_requested' \in SUBSET Run
  BY FinishEffect DEF StreamEnds
<1>a. /\ lock' \in [Token -> Seq(Run)]
      /\ \A t \in Token : IsInjective(lock'[t])
      /\ \A t \in Token, q \in Run : Contains(lock'[t], q) <=> Contains(lock[t], q) /\ q # r
      /\ \A q \in Run : q # r /\ Holds(q) => Holds(q)'
  BY LeaveEffect DEF StreamEnds
<1>b. /\ pc'[r] = "over" /\ ~HasSession(r)'
      /\ \A q \in Run : q # r => pc'[q] = pc[q] /\ (HasSession(q)' <=> HasSession(q))
  BY <1>0, SessionAssumption DEF StreamEnds, TypeOK, PlaceInv, HasSession, InSession, LeftSession
<1>1. TypeOK'
  BY <1>0, <1>a DEF StreamEnds, TypeOK
<1>2. QueueInv'
  BY <1>a, <1>b DEF QueueInv
<1>3. HolderInv'
  BY <1>a, <1>b DEF HolderInv
<1>4. PlaceInv'
  BY <1>0, <1>a DEF StreamEnds, TypeOK, PlaceInv
<1>5. NoOrphanAgent'
  BY <1>0, <1>a DEF StreamEnds, TypeOK, NoOrphanAgent, PlaceInv
<1> QED
  BY <1>1, <1>2, <1>3, <1>4, <1>5

LEMMA CancelWhileLockingStep ==
  ASSUME IInv, NEW r \in Run, CancelWhileLocking(r)
  PROVE  IInv'
<1> USE DEF IInv, control, events, InConsumer, InGenerator
<1>0. /\ running_tasks' \in Seq(Run) /\ IsInjective(running_tasks')
      /\ \A q \in Run : (pc'[q] \in {"idle", "over"}) = ~Contains(running_tasks', q)
      /\ pc' = [pc EXCEPT ![r] = "over"]
      /\ cancel_requested' \in SUBSET Run
  BY FinishEffect DEF CancelWhileLocking
<1>a. /\ lock' \in [Token -> Seq(Run)]
      /\ \A t \in Token : IsInjective(lock'[t])
      /\ \A t \in Token, q \in Run : Contains(lock'[t], q) <=> Contains(lock[t], q) /\ q # r
      /\ \A q \in Run : q # r /\ Holds(q) => Holds(q)'
  BY LeaveEffect DEF CancelWhileLocking
<1>b. /\ pc'[r] = "over" /\ ~HasSession(r)'
      /\ \A q \in Run : q # r => pc'[q] = pc[q] /\ (HasSession(q)' <=> HasSession(q))
  BY <1>0, SessionAssumption DEF CancelWhileLocking, TypeOK, PlaceInv, HasSession, InSession, LeftSession
<1>1. TypeOK'
  BY <1>0, <1>a DEF CancelWhileLocking, TypeOK
<1>2. QueueInv'
  BY <1>a, <1>b DEF QueueInv
<1>3. HolderInv'
  BY <1>a, <1>b DEF HolderInv
<1>4. PlaceInv'
  BY <1>0, <1>a DEF CancelWhileLocking, TypeOK, PlaceInv
<1>5. NoOrphanAgent'
  BY <1>0, <1>a DEF CancelWhileLocking, TypeOK, NoOrphanAgent, PlaceInv
<1> QED
  BY <1>1, <1>2, <1>3, <1>4, <1>5

LEMMA TerminatedStep ==
  ASSUME IInv, NEW r \in Run, Terminated(r)
  PROVE  IInv'
<1> USE DEF IInv, control, events, InConsumer, InGenerator
<1>0. /\ running_tasks' \in Seq(Run) /\ IsInjective(running_tasks')
      /\ \A q \in Run : (pc'[q] \in {"idle", "over"}) = ~Contains(running_tasks', q)
      /\ pc' = [pc EXCEPT ![r] = "over"]
      /\ cancel_requested' \in SUBSET Run
  BY FinishEffect DEF Terminated
<1>a. /\ lock' \in [Token -> Seq(Run)]
      /\ \A t \in Token : IsInjective(lock'[t])
      /\ \A t \in Token, q \in Run : Contains(lock'[t], q) <=> Contains(lock[t], q) /\ q # r
      /\ \A q \in Run : q # r /\ Holds(q) => Holds(q)'
  BY LeaveEffect DEF Terminated
<1>b. /\ pc'[r] = "over" /\ ~HasSession(r)'
      /\ \A q \in Run : q # r => pc'[q] = pc[q] /\ (HasSession(q)' <=> HasSession(q))
  BY <1>0, SessionAssumption DEF Terminated, TypeOK, PlaceInv, HasSession, InSession, LeftSession
<1>1. TypeOK'
  BY <1>0, <1>a DEF Terminated, TypeOK
<1>2. QueueInv'
  BY <1>a, <1>b DEF QueueInv
<1>3. HolderInv'
  BY <1>a, <1>b DEF HolderInv
<1>4. PlaceInv'
  BY <1>0, <1>a DEF Terminated, TypeOK, PlaceInv
<1>5. NoOrphanAgent'
  BY <1>0, <1>a DEF Terminated, TypeOK, NoOrphanAgent, PlaceInv
<1> QED
  BY <1>1, <1>2, <1>3, <1>4, <1>5

LEMMA CancelWhileAnnouncingStep ==
  ASSUME IInv, NEW r \in Run, CancelWhileAnnouncing(r)
  PROVE  IInv'
<1> USE DEF IInv, control, events, InConsumer, InGenerator
<1>0. /\ running_tasks' \in Seq(Run) /\ IsInjective(running_tasks')
      /\ \A q \in Run : (pc'[q] \in {"idle", "over"}) = ~Contains(running_tasks', q)
      /\ pc' = [pc EXCEPT ![r] = "over"]
      /\ cancel_requested' \in SUBSET Run
  BY FinishEffect DEF CancelWhileAnnouncing
<1>a. /\ lock' \in [Token -> Seq(Run)]
      /\ \A t \in Token : IsInjective(lock'[t])
      /\ \A t \in Token, q \in Run : Contains(lock'[t], q) <=> Contains(lock[t], q) /\ q # r
      /\ \A q \in Run : q # r /\ Holds(q) => Holds(q)'
  BY LeaveEffect DEF CancelWhileAnnouncing
<1>b. /\ pc'[r] = "over" /\ ~HasSession(r)'
      /\ \A q \in Run : q # r => pc'[q] = pc[q] /\ (HasSession(q)' <=> HasSession(q))
  BY <1>0, SessionAssumption DEF CancelWhileAnnouncing, TypeOK, PlaceInv, HasSession, InSession, LeftSession
<1>1. TypeOK'
  BY <1>0, <1>a DEF CancelWhileAnnouncing, TypeOK
<1>2. QueueInv'
  BY <1>a, <1>b DEF QueueInv
<1>3. HolderInv'
  BY <1>a, <1>b DEF HolderInv
<1>4. PlaceInv'
  BY <1>0, <1>a DEF CancelWhileAnnouncing, TypeOK, PlaceInv
<1>5. NoOrphanAgent'
  BY <1>0, <1>a DEF CancelWhileAnnouncing, TypeOK, NoOrphanAgent, PlaceInv
<1> QED
  BY <1>1, <1>2, <1>3, <1>4, <1>5

LEMMA CloseOuterStep ==
  ASSUME IInv, NEW r \in Run, CloseOuter(r)
  PROVE  IInv'
<1> USE DEF IInv, control, events, InConsumer, InGenerator
<1>a. /\ lock' \in [Token -> Seq(Run)]
      /\ \A t \in Token : IsInjective(lock'[t])
      /\ \A t \in Token, q \in Run : Contains(lock'[t], q) <=> Contains(lock[t], q) /\ q # r
      /\ \A q \in Run : q # r /\ Holds(q) => Holds(q)'
  BY LeaveEffect DEF CloseOuter
<1>b. /\ pc'[r] = "over" /\ ~HasSession(r)'
      /\ \A q \in Run : q # r => pc'[q] = pc[q] /\ (HasSession(q)' <=> HasSession(q))
  BY SessionAssumption DEF CloseOuter, TypeOK, PlaceInv, HasSession, InSession, LeftSession
<1>1. TypeOK'
  BY <1>a DEF CloseOuter, TypeOK
<1>2. QueueInv'
  BY <1>a, <1>b DEF QueueInv
<1>3. HolderInv'
  BY <1>a, <1>b DEF HolderInv
<1>4. PlaceInv'
  BY <1>a DEF CloseOuter, TypeOK, PlaceInv
<1>5. NoOrphanAgent'
  BY <1>a DEF CloseOuter, TypeOK, NoOrphanAgent, PlaceInv
<1> QED
  BY <1>1, <1>2, <1>3, <1>4, <1>5

LEMMA StartStep ==
  ASSUME IInv, NEW r \in Run, Start(r)
  PROVE  IInv'
<1> USE DEF IInv, control, events, InConsumer, InGenerator
<1>0. /\ running_tasks' \in Seq(Run) /\ IsInjective(running_tasks')
      /\ \A q : Contains(running_tasks', q) <=> Contains(running_tasks, q) \/ q = r
  BY AppendUnique DEF Start, TypeOK, PlaceInv
<1>1. CASE r \in Resuming
  <2>1. Enter(r) /\ pc' = [pc EXCEPT ![r] = "locking"] /\ UNCHANGED <<process, abandoned, cancel_requested, events>>
    BY <1>1 DEF Start, Goto
  <2>2. ~Contains(lock[TokenOf[r]], r)
    BY SessionAssumption DEF Start, QueueInv, PlaceInv, HasSession, InSession, LeftSession
  <2>3. /\ lock' \in [Token -> Seq(Run)]
        /\ \A t \in Token : IsInjective(lock'[t])
        /\ \A t \in Token, q \in Run :
             Contains(lock'[t], q) <=> Contains(lock[t], q) \/ (q = r /\ t = TokenOf[r])
        /\ \A q \in Run : Holds(q) => Holds(q)'
    BY <2>1, <2>2, EnterEffect
  <2>4. /\ pc'[r] = "locking" /\ ~HasSession(r)' /\ ~HasSession(r)
        /\ \A q \in Run : q # r => pc'[q] = pc[q] /\ (HasSession(q)' <=> HasSession(q))
    BY <2>1 DEF Start, TypeOK, PlaceInv, HasSession, InSession, LeftSession
  <2>5. pc[r] = "idle"
    BY DEF Start
  <2>6. TypeOK'
    BY <1>0, <2>1, <2>3 DEF TypeOK
  <2>7. QueueInv'
    BY <2>3, <2>4, <2>5, SessionAssumption DEF QueueInv
  <2>8. HolderInv'
    BY <2>3, <2>4 DEF HolderInv
  <2>9. PlaceInv'
    BY <1>0, <1>1, <2>1, <2>5 DEF TypeOK, PlaceInv
  <2>10. NoOrphanAgent'
    BY <2>1 DEF TypeOK, NoOrphanAgent
  <2> QED
    BY <2>6, <2>7, <2>8, <2>9, <2>10
<1>2. CASE r \notin Resuming
  <2>1. /\ pc' = [pc EXCEPT ![r] = "reading"] /\ process' = [process EXCEPT ![r] = "running"]
        /\ pc[r] = "idle" /\ r \notin started /\ UNCHANGED <<lock, abandoned, cancel_requested, events>>
    BY <1>2 DEF Start, Goto, PlaceInv
  <2>2. TypeOK'
    BY <1>0, <2>1 DEF TypeOK
  <2>3. QueueInv' /\ HolderInv'
    BY <1>2, <2>1 DEF TypeOK, QueueInv, HolderInv, PlaceInv, HasSession, InSession, LeftSession, Holds
  <2>4. PlaceInv' /\ NoOrphanAgent'
    BY <1>0, <1>2, <2>1 DEF TypeOK, PlaceInv, NoOrphanAgent
  <2> QED
    BY <2>2, <2>3, <2>4
<1> QED
  BY <1>1, <1>2

LEMMA SessionReportedStep ==
  ASSUME IInv, NEW r \in Run, SessionReported(r)
  PROVE  IInv'
<1> USE DEF IInv, control, events, InConsumer, InGenerator
<1>1. CASE r \in Resuming
  <2>1. /\ pc' = [pc EXCEPT ![r] = "noting"] /\ started' = started \cup {r} /\ pc[r] = "reading"
        /\ UNCHANGED <<lock, process, abandoned, running_tasks, cancel_requested, asked, followed_up>>
    BY <1>1 DEF SessionReported, Goto
  <2>2. TypeOK'
    BY <2>1 DEF TypeOK
  <2>3. QueueInv' /\ HolderInv'
    BY <1>1, <2>1 DEF TypeOK, QueueInv, HolderInv, PlaceInv, HasSession, InSession, LeftSession, Holds
  <2>4. PlaceInv' /\ NoOrphanAgent'
    BY <1>1, <2>1 DEF TypeOK, PlaceInv, NoOrphanAgent
  <2> QED
    BY <2>2, <2>3, <2>4
<1>2. CASE r \notin Resuming
  <2>1. /\ Enter(r) /\ pc' = [pc EXCEPT ![r] = "announcing"] /\ pc[r] = "reading" /\ r \notin started
        /\ UNCHANGED <<process, abandoned, running_tasks, cancel_requested, events>>
    BY <1>2 DEF SessionReported, Goto
  <2>2. ~Contains(lock[TokenOf[r]], r)
    BY <1>2, <2>1, SessionAssumption DEF QueueInv, PlaceInv, HasSession, InSession, LeftSession
  <2>3. /\ lock' \in [Token -> Seq(Run)]
        /\ \A t \in Token : IsInjective(lock'[t])
        /\ \A t \in Token, q \in Run :
             Contains(lock'[t], q) <=> Contains(lock[t], q) \/ (q = r /\ t = TokenOf[r])
        /\ \A q \in Run : Holds(q) => Holds(q)'
    BY <2>1, <2>2, EnterEffect
  <2>4. /\ pc'[r] = "announcing" /\ ~HasSession(r)' /\ ~HasSession(r)
        /\ \A q \in Run : q # r => pc'[q] = pc[q] /\ (HasSession(q)' <=> HasSession(q))
    BY <1>2, <2>1 DEF TypeOK, PlaceInv, HasSession, InSession, LeftSession
  <2>5. TypeOK'
    BY <2>1, <2>3 DEF TypeOK
  <2>6. QueueInv'
    BY <2>1, <2>3, <2>4, SessionAssumption DEF QueueInv
  <2>7. HolderInv'
    BY <2>3, <2>4 DEF HolderInv
  <2>8. PlaceInv' /\ NoOrphanAgent'
    BY <1>2, <2>1 DEF TypeOK, PlaceInv, NoOrphanAgent
  <2> QED
    BY <2>5, <2>6, <2>7, <2>8
<1> QED
  BY <1>1, <1>2

----------------------------------------------------------------------------
\* The inductive invariant holds in every reachable state.
THEOREM Invariance == Spec => []IInv
<1>1. IInv /\ [Next]_vars => IInv'
  <2> SUFFICES ASSUME IInv, [Next]_vars PROVE IInv'
    OBVIOUS
  <2>1. ASSUME NEW r \in Run, Start(r) \/ Agent(r) \/ Cancel(r) PROVE IInv'
    BY <2>1, StartStep, SessionReportedStep, SessionMismatchStep, AgentAsksStep, AgentCompletesStep,
       AgentExitsStep, CancelStep DEF Agent
  <2>2. ASSUME NEW r \in Run, Task(r) PROVE IInv'
    BY <2>2, ResumeStep, AnnounceStep, NotedStep, NotingFailsStep, StreamEndsStep, QuestionHandledStep,
       CancelWhileLockingStep,
       CancelWhileReadingStep, CancelWhileAnnouncingStep, CancelWhileConsumingStep, TerminatedStep DEF Task
  <2>3. ASSUME NEW r \in Run, Closing(r) PROVE IInv'
    BY <2>3, CloseOuterStep, CloseInnerStep, ClosedStep DEF Closing
  <2>4. CASE UNCHANGED vars
    BY <2>4 DEF vars, control, events, IInv, TypeOK, QueueInv, HolderInv, PlaceInv, NoOrphanAgent, HasSession,
       InSession, LeftSession, Holds
  <2> QED
    BY <2>1, <2>2, <2>3, <2>4 DEF Next
<1> QED
  BY IInvInit, <1>1, PTL DEF Spec

\* Every variable keeps its type, and running_tasks lists exactly the runs in progress.
THEOREM TypeCorrect == Spec => []TypeOK
BY Invariance, PTL DEF IInv

\* Two runs are never in one session at a time: both would be the head of its queue.
THEOREM SessionsAreExclusive == Spec => []SessionExclusive
<1>1. IInv => SessionExclusive
  BY DEF IInv, SessionExclusive, HolderInv, HasSession, Holds
<1> QED
  BY Invariance, <1>1, PTL

\* A semaphore is never left to a run that is over and has nothing to close.
THEOREM LocksAreNotLeaked == Spec => []LockNotLeaked
<1>1. ASSUME IInv, NEW t \in Token, NEW i \in DOMAIN lock[t], pc[lock[t][i]] = "over"
      PROVE  i = 1 /\ abandoned[lock[t][i]] = "outer"
  <2>1. /\ lock[t] \in Seq(Run) /\ lock[t][i] \in Run /\ i \in 1..Len(lock[t])
        /\ IsInjective(lock[t]) /\ Contains(lock[t], lock[t][i])
    BY <1>1 DEF IInv, TypeOK, QueueInv, Contains
  <2>2. TokenOf[lock[t][i]] = t /\ HasSession(lock[t][i])
    BY <1>1, <2>1 DEF IInv, QueueInv
  <2>3. abandoned[lock[t][i]] = "outer"
    BY <1>1, <2>2 DEF HasSession, InSession, InConsumer, LeftSession
  <2>4. lock[t] # <<>> /\ lock[t][1] = lock[t][i]
    BY <1>1, <2>1, <2>2 DEF IInv, HolderInv, Holds
  <2>5. i = 1
    BY <2>1, <2>4 DEF IsInjective
  <2> QED
    BY <2>3, <2>5
<1>2. IInv => LockNotLeaked
  BY <1>1 DEF LockNotLeaked
<1> QED
  BY Invariance, <1>2, PTL

\* An agent that outlives its run has a generator left that will terminate it, however the
\* run ended.
THEOREM NoAgentIsOrphaned == Spec => []NoOrphanAgent
BY Invariance, PTL DEF IInv
===============================================================================
