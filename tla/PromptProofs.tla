----------------------------- MODULE PromptProofs -----------------------------
(***************************************************************************)
(* Theorems about the way of a prompt: what the inbox makes of messages,   *)
(* for every set of senders and albums and any number of messages, and     *)
(* where a prompt is run, for every configuration file, every set of       *)
(* commands that edit it and any number of prompts.                        *)
(***************************************************************************)
EXTENDS Inbox, Routing, FiniteSetTheorems, SequenceTheorems, TLAPS

----------------------------------------------------------------------------

(***************************************************************************)
(* The inductive invariant.  The properties speak of prompts, forwards and *)
(* items; what makes them inductive is which message started which task,   *)
(* that a message in route_message is the last one that came and has done  *)
(* nothing yet, and that a flush owns nothing before it takes its group.   *)
(***************************************************************************)
Items(g) == {n \in 1..Len(seen) : Kind(n) = "item" /\ From(n) = g}

FlushesAreItems ==
  \A f \in Number :
    /\ flush[f] # "none" => f \in 1..Len(seen) /\ Kind(f) = "item"
    /\ flush[f] \in {"none", "ready", "asleep"} => taken[f] = {}

RoutedIsLast ==
  routing # NoMessage =>
    /\ routing = Len(seen) /\ Kind(routing) \in {"text", "new"}
    /\ debounce[routing] = "none" /\ routing \notin Dispatched

TasksHavePrompts ==
  \A d \in Number :
    IF debounce[d] = "none" THEN prompt_of[d] = NoMessage /\ forwards[d] = {}
    ELSE /\ d \in 1..Len(seen) /\ prompt_of[d] \in 1..d
         /\ prompt_of[prompt_of[d]] = prompt_of[d]
         /\ From(prompt_of[d]) = From(d)
         /\ Kind(d) \in {"text", "forward"}
         /\ prompt_of[d] = d <=> Kind(d) = "text"

PendingAreAccepted ==
  \A s \in Sender : pending[s] # NoMessage => prompt_of[pending[s]] = pending[s] /\ From(pending[s]) = s

RunsAreTexts == \A p \in Dispatched : Kind(p) = "text"

ForwardsAreAttached ==
  \A p \in Number : \A f \in forwards[p] : Kind(f) = "forward" /\ From(f) = From(p)

TaskInv ==
  /\ TypeOK /\ FlushesAreItems /\ RoutedIsLast /\ TasksHavePrompts /\ PendingAreAccepted
  /\ RunsAreTexts /\ ForwardsAreAttached

(***************************************************************************)
(* Messages as they come.                                                  *)
(***************************************************************************)
LEMMA SeenGrows ==
  ASSUME TypeOK, NEW kind, NEW from, Arrives(kind, from),
         (kind \in {"text", "new", "forward", "blank"} /\ from \in Sender) \/ (kind = "item" /\ from \in Album)
  PROVE  /\ NextNumber \in Number /\ NextNumber \notin 1..Len(seen) /\ NextNumber = Len(seen) + 1
         /\ seen' \in Seq(Message) /\ Len(seen') = NextNumber /\ Len(seen) \in Nat
         /\ \A n \in 1..Len(seen) : seen'[n] = seen[n]
         /\ seen'[NextNumber].kind = kind /\ seen'[NextNumber].from = from
         /\ 1..Len(seen') = (1..Len(seen)) \cup {NextNumber}
         /\ routing = NoMessage
<1>1. [kind |-> kind, from |-> from] \in Message
  BY DEF Message
<1>2. seen \in Seq(Message) /\ Len(seen) < MaxMessages /\ seen' = Append(seen, [kind |-> kind, from |-> from])
      /\ Len(seen) \in Nat /\ MaxMessages \in Nat /\ routing = NoMessage
  BY InboxAssumption DEF Arrives, TypeOK
<1>3. /\ seen' \in Seq(Message) /\ Len(seen') = Len(seen) + 1
      /\ \A n \in 1..Len(seen) : seen'[n] = seen[n]
      /\ seen'[Len(seen) + 1] = [kind |-> kind, from |-> from]
  BY <1>1, <1>2
<1>4. /\ NextNumber = Len(seen) + 1 /\ NextNumber \in Number /\ NextNumber \notin 1..Len(seen)
      /\ 1..Len(seen') = (1..Len(seen)) \cup {NextNumber}
  BY <1>2, <1>3 DEF NextNumber, Number
<1>5. seen'[NextNumber] = [kind |-> kind, from |-> from]
  BY <1>3, <1>4
<1> QED
  BY <1>2, <1>3, <1>4, <1>5

LEMMA TypeStart == Init => TypeOK
<1> SUFFICES ASSUME Init PROVE TypeOK
  OBVIOUS
<1>1. Len(seen) = 0 /\ seen \in Seq(Message)
  BY DEF Init
<1> QED
  BY <1>1, InboxAssumption DEF Init, TypeOK, NoMessage, Number

\* The messages that are not an item and do not touch the coalescer, and those that do.
LEMMA TypeArrival ==
  ASSUME TaskInv, NEW s \in Sender,
         AttachForward(s) \/ IgnoreForward(s) \/ (\E kind \in {"text", "new"} : RouteBegins(kind, s))
  PROVE  TypeOK'
<1> USE InboxAssumption
<1>1. PICK kind \in {"text", "new", "forward", "blank"} : Arrives(kind, s)
  BY DEF AttachForward, IgnoreForward, RouteBegins
<1>2. /\ NextNumber \in Number /\ NextNumber = Len(seen) + 1 /\ Len(seen') = NextNumber
      /\ seen' \in Seq(Message) /\ Len(seen) \in Nat /\ routing = NoMessage
  BY <1>1, SeenGrows DEF TaskInv
<1>3. /\ \A S : S \subseteq 0..Len(seen) => S \subseteq 0..Len(seen')
      /\ 0..Len(seen) \subseteq 0..Len(seen') /\ 1..Len(seen) \subseteq 1..Len(seen') /\ Len(seen') <= MaxMessages
  BY <1>2 DEF Number
<1>4. runs \in Seq(1..Len(seen'))
  BY <1>3, SeqMonotonic DEF TaskInv, TypeOK
<1>5. CASE AttachForward(s)
  <2> USE <1>5
  <2>1. pending[s] \in 1..Len(seen) /\ pending[s] \in Number
    BY <1>2, SMTT(30) DEF AttachForward, TaskInv, TypeOK, NoMessage, Number
  <2>2. debounce' \in [Number -> {"none", "ready", "asleep", "cancelled", "over"}]
    BY <1>2 DEF AttachForward, TaskInv, TypeOK, Cancelled
  <2>3. forwards' \in [Number -> SUBSET (1..Len(seen'))]
    BY <1>2, <1>3, <2>1 DEF AttachForward, TaskInv, TypeOK
  <2>4. scope' \in [Number -> 0..Len(seen')] /\ prompt_of' \in [Number -> 0..Len(seen')]
    BY <1>2, <1>3, <2>1 DEF AttachForward, TaskInv, TypeOK, NoMessage
  <2> QED
    BY <1>2, <1>3, <1>4, <2>2, <2>3, <2>4 DEF AttachForward, TaskInv, TypeOK, albums, NoMessage
<1>6. CASE IgnoreForward(s) \/ \E k \in {"text", "new"} : RouteBegins(k, s)
  BY <1>2, <1>3, <1>4, <1>6 DEF IgnoreForward, RouteBegins, TaskInv, TypeOK, albums, coalescer, NoMessage
<1> QED
  BY <1>5, <1>6

LEMMA TypeRoute ==
  ASSUME TaskInv, RouteEnds
  PROVE  TypeOK'
<1> USE InboxAssumption DEF TaskInv, TypeOK
<1>1. routing \in 1..Len(seen) /\ routing \in Number /\ From(routing) \in Sender /\ Len(seen) \in Nat /\ UNCHANGED seen
  <2>1. routing \in 1..Len(seen) /\ routing \in Number /\ Len(seen) \in Nat
    BY DEF RouteEnds, NoPrompt, Bypass, Schedule, New, NoMessage, Number
  <2>2. seen[routing] \in Message /\ seen[routing].kind \in {"text", "new"}
    BY <2>1 DEF RouteEnds, NoPrompt, Bypass, Schedule, New
  <2> QED
    BY <2>1, <2>2 DEF RouteEnds, NoPrompt, Bypass, Schedule, New, Message, From
<1>2. \A p : Cancelled(p) \in [Number -> {"none", "ready", "asleep", "cancelled", "over"}]
  BY DEF Cancelled
<1>3. CASE NoPrompt
  BY <1>1, <1>3 DEF NoPrompt, albums, coalescer, NoMessage
<1>4. CASE Bypass
  BY <1>1, <1>4, SMTT(30) DEF Bypass, albums, coalescer, NoMessage
<1>5. CASE Schedule
  <2>1. pending[From(routing)] # NoMessage => pending[From(routing)] \in Number
    BY <1>1 DEF NoMessage, Number
  <2>2. forwards' \in [Number -> SUBSET (1..Len(seen'))]
    BY <1>1, <1>5, <2>1 DEF Schedule
  <2>3. debounce' \in [Number -> {"none", "ready", "asleep", "cancelled", "over"}]
    BY <1>1, <1>2, <1>5 DEF Schedule
  <2>4. pending' \in [Sender -> 0..Len(seen')] /\ prompt_of' \in [Number -> 0..Len(seen')]
    BY <1>1, <1>5 DEF Schedule
  <2> QED
    BY <1>1, <1>5, <2>2, <2>3, <2>4, SMTT(30) DEF Schedule, albums, NoMessage
<1>6. CASE New
  BY <1>1, <1>2, <1>6, SMTT(30) DEF New, albums, NoMessage
<1> QED
  BY <1>3, <1>4, <1>5, <1>6 DEF RouteEnds

LEMMA TypeTasks ==
  ASSUME TaskInv, NEW n \in Number, Debounce(n) \/ Flush(n)
  PROVE  TypeOK'
<1>0. TypeOK /\ Len(seen) \in Nat
  BY DEF TaskInv, TypeOK
<1>1. CASE Debounce(n)
  <2>1. debounce[n] # "none"
    BY <1>1 DEF Debounce, DebounceStarts, DebounceEnds
  <2>2. n \in 1..Len(seen) /\ prompt_of[n] \in 1..Len(seen)
    BY <1>0, <2>1 DEF TasksHavePrompts, TaskInv
  <2>3. CASE DebounceStarts(n)
    <3>1. scope' \in [Number -> 0..Len(seen)]
      <4>1. scope \in [Number -> 0..Len(seen)] /\ n \in 0..Len(seen)
        BY <1>0, <2>2 DEF TypeOK
      <4>2. scope' = [scope EXCEPT ![prompt_of[n]] = n]
        BY <2>3 DEF DebounceStarts
      <4> QED
        BY <4>1, <4>2
    <3>2. debounce' \in [Number -> {"none", "ready", "asleep", "cancelled", "over"}]
      BY <1>0, <2>3 DEF DebounceStarts, TypeOK
    <3> QED
      BY <1>0, <2>3, <3>1, <3>2 DEF DebounceStarts, albums, TypeOK
  <2>4. CASE DebounceEnds(n)
    <3>1. runs' \in Seq(1..Len(seen))
      <4>1. runs' = runs \/ runs' = Append(runs, prompt_of[n])
        BY <2>4 DEF DebounceEnds
      <4>2. runs \in Seq(1..Len(seen))
        BY <1>0 DEF TypeOK
      <4> QED
        BY <2>2, <4>1, <4>2
    <3>2. pending' \in [Sender -> 0..Len(seen)]
      BY <1>0, <2>4 DEF DebounceEnds, TypeOK, NoMessage
    <3>3. debounce' \in [Number -> {"none", "ready", "asleep", "cancelled", "over"}]
      BY <1>0, <2>4 DEF DebounceEnds, TypeOK
    <3> QED
      BY <1>0, <2>4, <3>1, <3>2, <3>3 DEF DebounceEnds, albums, TypeOK
  <2> QED
    BY <1>1, <2>3, <2>4 DEF Debounce
<1>2. CASE Flush(n)
  <2>1. flush[n] # "none"
    BY <1>2 DEF Flush, FlushStarts, FlushAgain, FlushTakes, FlushEnds
  <2>2. n \in 1..Len(seen) /\ From(n) \in Album
    <3>1. n \in 1..Len(seen) /\ Kind(n) = "item"
      BY <2>1 DEF FlushesAreItems, TaskInv
    <3>2. seen[n] \in Message
      BY <1>0, <3>1 DEF TypeOK
    <3> QED
      BY <3>1, <3>2 DEF Message, Kind, From
  <2>3. groups[From(n)] \in SUBSET (1..Len(seen))
    BY <1>0, <2>2 DEF TypeOK
  <2>4. Cardinality(groups[From(n)]) \in 0..Len(seen)
    <3>1. IsFiniteSet(1..Len(seen)) /\ Cardinality(1..Len(seen)) = Len(seen)
      <4>1. \A m \in Nat : IsFiniteSet(1..m) /\ Cardinality(1..m) = m
        BY FS_Interval
      <4> QED
        BY <1>0, <4>1
    <3>2. IsFiniteSet(groups[From(n)]) /\ Cardinality(groups[From(n)]) <= Len(seen)
      BY <2>3, <3>1, FS_Subset
    <3>3. Cardinality(groups[From(n)]) \in Nat
      BY <3>2, FS_CardinalityType
    <3> QED
      BY <1>0, <3>2, <3>3
  <2> QED
    BY <1>0, <1>2, <2>2, <2>3, <2>4 DEF Flush, FlushStarts, FlushAgain, FlushTakes, FlushEnds, coalescer, TypeOK
<1> QED
  BY <1>1, <1>2

----------------------------------------------------------------------------
(***************************************************************************)
(* The steps keep the invariant.                                           *)
(***************************************************************************)
\* What the invariant says of the numbers that no message has yet.
LEMMA NumbersToCome ==
  ASSUME TaskInv
  PROVE  /\ Dispatched \subseteq 1..Len(seen) /\ Len(seen) \in Nat
         /\ \A n \in Number : n \notin 1..Len(seen) =>
              debounce[n] = "none" /\ prompt_of[n] = NoMessage /\ forwards[n] = {} /\ flush[n] = "none" /\ taken[n] = {}
<1>1. Dispatched \subseteq 1..Len(seen)
  <2>1. runs \in [1..Len(runs) -> 1..Len(seen)]
    BY LenProperties DEF TaskInv, TypeOK
  <2> QED
    BY <2>1 DEF Dispatched, Range
<1> QED
  BY <1>1 DEF TaskInv, TypeOK, TasksHavePrompts, FlushesAreItems

\* A message that leaves the coalescer alone.
LEMMA TaskArrival ==
  ASSUME TaskInv, TypeOK', NEW kind, NEW from, Arrives(kind, from), UNCHANGED <<coalescer, runs>>,
         (kind \in {"text", "new", "forward", "blank"} /\ from \in Sender) \/ (kind = "item" /\ from \in Album),
         routing' = IF kind \in {"text", "new"} THEN NextNumber ELSE routing,
         FlushesAreItems'
  PROVE  TaskInv'
<1>1. /\ NextNumber \in Number /\ NextNumber \notin 1..Len(seen) /\ NextNumber = Len(seen) + 1
      /\ Len(seen') = NextNumber /\ Len(seen) \in Nat /\ routing = NoMessage
      /\ \A n \in 1..Len(seen) : seen'[n] = seen[n]
      /\ seen'[NextNumber].kind = kind /\ 1..Len(seen') = (1..Len(seen)) \cup {NextNumber}
  BY SeenGrows DEF TaskInv
<1>2. UNCHANGED <<pending, forwards, debounce, prompt_of, runs>> /\ UNCHANGED Dispatched
  BY DEF coalescer, Dispatched
<1>3. RoutedIsLast'
  BY <1>1, <1>2, NumbersToCome DEF RoutedIsLast, Kind, NoMessage
<1>4. TasksHavePrompts'
  <2>1. \A d \in Number : debounce[d] # "none" => d \in 1..Len(seen) /\ prompt_of[d] \in 1..Len(seen)
    BY <1>1 DEF TaskInv, TasksHavePrompts
  <2> QED
    BY <1>1, <1>2, <2>1 DEF TaskInv, TasksHavePrompts, Kind, From
<1>5. PendingAreAccepted'
  BY <1>1, <1>2 DEF TaskInv, TypeOK, PendingAreAccepted, From, NoMessage
<1>6. RunsAreTexts'
  BY <1>1, <1>2, NumbersToCome DEF TaskInv, RunsAreTexts, Kind
<1>7. ForwardsAreAttached'
  <2>1. \A p \in Number : \A f \in forwards[p] : f \in 1..Len(seen) /\ p \in 1..Len(seen)
    BY NumbersToCome DEF TaskInv, TypeOK
  <2> QED
    BY <1>1, <1>2, <2>1 DEF TaskInv, ForwardsAreAttached, Kind, From
<1> QED
  BY <1>3, <1>4, <1>5, <1>6, <1>7 DEF TaskInv

LEMMA TaskAttach ==
  ASSUME TaskInv, TypeOK', NEW s \in Sender, AttachForward(s)
  PROVE  TaskInv'
<1> DEFINE p == pending[s]
           n == NextNumber
<1>1. /\ n \in Number /\ n \notin 1..Len(seen) /\ n = Len(seen) + 1
      /\ Len(seen') = n /\ Len(seen) \in Nat /\ routing = NoMessage
      /\ \A m \in 1..Len(seen) : seen'[m] = seen[m]
      /\ seen'[n].kind = "forward" /\ seen'[n].from = s /\ 1..Len(seen') = (1..Len(seen)) \cup {n}
  BY SeenGrows DEF TaskInv, AttachForward
<1>2. p \in 1..Len(seen) /\ p \in Number /\ p # n /\ prompt_of[p] = p /\ From(p) = s /\ debounce[p] # "none"
  <2>1. p # NoMessage /\ p \in 0..Len(seen)
    BY DEF AttachForward, TaskInv, TypeOK
  <2>2. p \in 1..Len(seen) /\ p \in Number
    BY <1>1, <2>1, InboxAssumption DEF NoMessage, Number
  <2> QED
    BY <1>1, <2>1, <2>2 DEF TaskInv, PendingAreAccepted, TasksHavePrompts
<1>3. \A m \in Number : debounce'[m] = "none" <=> m # n /\ debounce[m] = "none"
  BY <1>1 DEF AttachForward, Cancelled, TaskInv, TypeOK
<1>4. /\ \A m \in Number : prompt_of'[m] = IF m = n THEN p ELSE prompt_of[m]
      /\ \A m \in Number : forwards'[m] = IF m = p THEN forwards[p] \cup {n} ELSE forwards[m]
      /\ UNCHANGED <<routing, pending, runs, flush, taken, groups>> /\ UNCHANGED Dispatched
  BY <1>1, <1>2 DEF AttachForward, TaskInv, TypeOK, albums, Dispatched
<1> HIDE DEF p, n
<1>5. FlushesAreItems' /\ RoutedIsLast'
  BY <1>1, <1>4 DEF TaskInv, FlushesAreItems, RoutedIsLast, Kind
<1>6. TasksHavePrompts'
  <2>1. \A d \in Number : debounce[d] # "none" =>
          d \in 1..Len(seen) /\ prompt_of[d] \in 1..Len(seen) /\ prompt_of[d] \in Number /\ d # n /\ prompt_of[d] # n /\ d \in 1..n
    BY <1>1, InboxAssumption DEF TaskInv, TasksHavePrompts, Number
  <2> SUFFICES ASSUME NEW d \in Number
               PROVE  IF debounce'[d] = "none" THEN prompt_of'[d] = NoMessage /\ forwards'[d] = {}
                      ELSE /\ d \in 1..Len(seen') /\ prompt_of'[d] \in 1..d
                           /\ prompt_of'[prompt_of'[d]] = prompt_of'[d]
                           /\ seen'[prompt_of'[d]].from = seen'[d].from
                           /\ seen'[d].kind \in {"text", "forward"}
                           /\ prompt_of'[d] = d <=> seen'[d].kind = "text"
    BY DEF TasksHavePrompts, Kind, From
  <2>2. CASE d = n
    BY <1>1, <1>2, <1>3, <1>4, <2>2 DEF From
  <2>3. CASE d # n
    BY <1>1, <1>2, <1>3, <1>4, <2>1, <2>3 DEF TaskInv, TasksHavePrompts, Kind, From
  <2> QED
    BY <2>2, <2>3
<1>7. PendingAreAccepted'
  <2>1. ASSUME NEW t \in Sender, pending[t] # NoMessage
        PROVE  pending[t] \in 1..Len(seen) /\ pending[t] \in Number /\ pending[t] # n
    <3>1. pending[t] \in 0..Len(seen) /\ Len(seen) <= MaxMessages
      BY DEF TaskInv, TypeOK
    <3>2. pending[t] \in 1..Len(seen) /\ n \notin 1..Len(seen)
      BY <1>1, <2>1, <3>1 DEF NoMessage
    <3> QED
      BY <1>1, <3>1, <3>2, InboxAssumption DEF Number
  <2> QED
    BY <1>1, <1>4, <2>1 DEF TaskInv, PendingAreAccepted, From
<1>8. RunsAreTexts'
  BY <1>1, <1>4, NumbersToCome DEF TaskInv, RunsAreTexts, Kind
<1>9. ForwardsAreAttached'
  <2>1. \A q \in Number : \A f \in forwards[q] : f \in 1..Len(seen) /\ q \in 1..Len(seen)
    BY NumbersToCome DEF TaskInv, TypeOK
  <2> QED
    BY <1>1, <1>2, <1>4, <2>1 DEF TaskInv, ForwardsAreAttached, Kind, From
<1> QED
  BY <1>5, <1>6, <1>7, <1>8, <1>9 DEF TaskInv

\* What a pending prompt is.
LEMMA PendingPrompts ==
  ASSUME TaskInv
  PROVE  /\ \A s \in Sender : pending[s] # NoMessage =>
              /\ pending[s] \in 1..Len(seen) /\ pending[s] \in Number
              /\ prompt_of[pending[s]] = pending[s] /\ From(pending[s]) = s
              /\ debounce[pending[s]] # "none" /\ Kind(pending[s]) = "text"
         /\ \A p : p \in PendingNow <=> p # NoMessage /\ \E s \in Sender : pending[s] = p
<1>1. ASSUME NEW s \in Sender, pending[s] # NoMessage
      PROVE  pending[s] \in 1..Len(seen) /\ pending[s] \in Number
  BY <1>1, InboxAssumption DEF TaskInv, TypeOK, NoMessage, Number
<1>2. ASSUME NEW s \in Sender, pending[s] # NoMessage
      PROVE  prompt_of[pending[s]] = pending[s] /\ From(pending[s]) = s
  BY <1>2 DEF TaskInv, PendingAreAccepted
<1>3. ASSUME NEW s \in Sender, pending[s] # NoMessage
      PROVE  debounce[pending[s]] # "none" /\ Kind(pending[s]) = "text"
  BY <1>1, <1>2, <1>3 DEF TaskInv, TasksHavePrompts
<1>4. \A p : p \in PendingNow <=> p # NoMessage /\ \E s \in Sender : pending[s] = p
  BY DEF PendingNow, Range, TaskInv, TypeOK
<1> QED
  BY <1>1, <1>2, <1>3, <1>4

\* What the message in route_message is.
LEMMA RoutedMessage ==
  ASSUME TaskInv, RouteEnds
  PROVE  /\ routing \in 1..Len(seen) /\ routing \in Number /\ routing = Len(seen) /\ routing' = NoMessage
         /\ From(routing) \in Sender /\ UNCHANGED <<seen, groups, flush, token, taken>>
         /\ debounce[routing] = "none" /\ prompt_of[routing] = NoMessage /\ forwards[routing] = {}
         /\ routing \notin Dispatched /\ routing \notin PendingNow
         /\ \A p \in Number : prompt_of[p] # routing
<1>1. /\ routing # NoMessage /\ routing' = NoMessage /\ UNCHANGED <<seen, groups, flush, token, taken>>
      /\ seen[routing].kind \in {"text", "new"}
  BY DEF RouteEnds, NoPrompt, Bypass, Schedule, New, albums
<1>2. routing \in 1..Len(seen) /\ routing \in Number
  BY <1>1, InboxAssumption DEF TaskInv, TypeOK, NoMessage, Number
<1>3. /\ routing = Len(seen) /\ debounce[routing] = "none" /\ routing \notin Dispatched
      /\ prompt_of[routing] = NoMessage /\ forwards[routing] = {}
  BY <1>1, <1>2 DEF TaskInv, RoutedIsLast, TasksHavePrompts
<1>4. From(routing) \in Sender
  <2>1. seen[routing] \in Message
    BY <1>2 DEF TaskInv, TypeOK
  <2> QED
    BY <1>1, <2>1 DEF Message, From
<1>5. routing \notin PendingNow
  BY <1>1, <1>2, <1>3, PendingPrompts
<1>6. \A p \in Number : prompt_of[p] # routing
  <2>1. ASSUME NEW p \in Number, prompt_of[p] = routing PROVE FALSE
    BY <1>1, <1>2, <1>3, <2>1 DEF TaskInv, TasksHavePrompts
  <2> QED
    BY <2>1
<1> QED
  BY <1>1, <1>2, <1>3, <1>4, <1>5, <1>6

\* Cancelling a scope leaves every task where a task can be.
LEMMA CancelledTasks ==
  ASSUME TypeOK, NEW p
  PROVE  /\ Cancelled(p) \in [Number -> {"none", "ready", "asleep", "cancelled", "over"}]
         /\ \A d \in Number : Cancelled(p)[d] = "none" <=> debounce[d] = "none"
         /\ \A d \in Number : debounce[d] \in {"ready", "asleep", "cancelled"} <=>
              Cancelled(p)[d] \in {"ready", "asleep", "cancelled"}
BY DEF Cancelled, TypeOK

LEMMA TaskRoute ==
  ASSUME TaskInv, TypeOK', RouteEnds
  PROVE  TaskInv'
<1>1. /\ routing \in 1..Len(seen) /\ routing \in Number /\ routing = Len(seen) /\ routing' = NoMessage
      /\ UNCHANGED <<seen, flush, taken>> /\ Len(seen) \in Nat
      /\ debounce[routing] = "none" /\ prompt_of[routing] = NoMessage /\ forwards[routing] = {}
      /\ \A p \in Number : prompt_of[p] # routing
      /\ From(routing) \in Sender
  BY RoutedMessage, NumbersToCome
<1>2. FlushesAreItems' /\ RoutedIsLast'
  BY <1>1 DEF TaskInv, FlushesAreItems, RoutedIsLast, Kind
<1>3. CASE NoPrompt
  BY <1>1, <1>2, <1>3 DEF NoPrompt, TaskInv, TasksHavePrompts, PendingAreAccepted, RunsAreTexts,
     ForwardsAreAttached, Kind, From, Dispatched, coalescer
<1>4. CASE Bypass
  <2>1. TasksHavePrompts' /\ PendingAreAccepted' /\ ForwardsAreAttached'
    BY <1>1, <1>4 DEF Bypass, TaskInv, TasksHavePrompts, PendingAreAccepted, ForwardsAreAttached,
       Kind, From, coalescer
  <2>2. RunsAreTexts'
    <3>1. \A p \in Dispatched' : p \in Dispatched \/ p = routing
      BY <1>1, <1>4 DEF Bypass, TaskInv, TypeOK, Dispatched, Range
    <3> QED
      BY <1>1, <1>4, <3>1 DEF Bypass, TaskInv, RunsAreTexts, Kind
  <2> QED
    BY <1>2, <2>1, <2>2 DEF TaskInv
<1>5. CASE Schedule
  <2> DEFINE q == pending[From(routing)]
  <2>0. TypeOK
    BY DEF TaskInv
  <2>1. /\ \A d \in Number : debounce'[d] = "none" <=> d # routing /\ debounce[d] = "none"
        /\ \A d \in Number : prompt_of'[d] = IF d = routing THEN routing ELSE prompt_of[d]
        /\ \A s \in Sender : pending'[s] = IF s = From(routing) THEN routing ELSE pending[s]
        /\ \A d \in Number : forwards'[d] = IF d = routing /\ q # NoMessage THEN forwards[q] ELSE forwards[d]
        /\ UNCHANGED runs
    <3>1. \A d \in Number : debounce'[d] = "none" <=> d # routing /\ debounce[d] = "none"
      <4>1. debounce' = [Cancelled(q) EXCEPT ![routing] = "ready"]
        BY <1>5 DEF Schedule
      <4> HIDE DEF q
      <4> QED
        BY <1>1, <2>0, <4>1, CancelledTasks
    <3>2. /\ \A d \in Number : prompt_of'[d] = IF d = routing THEN routing ELSE prompt_of[d]
          /\ \A s \in Sender : pending'[s] = IF s = From(routing) THEN routing ELSE pending[s]
          /\ \A d \in Number : forwards'[d] = IF d = routing /\ q # NoMessage THEN forwards[q] ELSE forwards[d]
          /\ UNCHANGED runs
      BY <1>1, <1>5, <2>0 DEF Schedule, TypeOK
    <3> QED
      BY <3>1, <3>2
  <2>2. q # NoMessage => q \in Number /\ From(q) = From(routing)
    BY <1>1, PendingPrompts
  <2> HIDE DEF q
  <2>3. TasksHavePrompts'
    <3>1. Kind(routing) = "text"
      BY <1>5 DEF Schedule, Kind
    <3> SUFFICES ASSUME NEW d \in Number
               PROVE  IF debounce'[d] = "none" THEN prompt_of'[d] = NoMessage /\ forwards'[d] = {}
                      ELSE /\ d \in 1..Len(seen) /\ prompt_of'[d] \in 1..d
                           /\ prompt_of'[prompt_of'[d]] = prompt_of'[d]
                           /\ From(prompt_of'[d]) = From(d)
                           /\ Kind(d) \in {"text", "forward"}
                           /\ prompt_of'[d] = d <=> Kind(d) = "text"
      BY <1>1 DEF TasksHavePrompts, Kind, From
    <3>2. CASE d = routing
      BY <1>1, <2>1, <3>1, <3>2
    <3>3. CASE d # routing
      <4>1. debounce[d] # "none" => prompt_of[d] \in Number /\ prompt_of[d] # routing
        BY <1>1, InboxAssumption DEF TaskInv, TasksHavePrompts, Number
      <4> QED
        BY <1>1, <2>1, <3>3, <4>1 DEF TaskInv, TasksHavePrompts
    <3> QED
      BY <3>2, <3>3
  <2>4. PendingAreAccepted'
    <3>1. \A s \in Sender : pending[s] # NoMessage => pending[s] \in Number /\ pending[s] # routing
      BY <1>1, PendingPrompts
    <3> SUFFICES ASSUME NEW s \in Sender, pending'[s] # NoMessage
                 PROVE  prompt_of'[pending'[s]] = pending'[s] /\ From(pending'[s]) = s
      BY <1>1 DEF PendingAreAccepted, From
    <3>2. CASE s = From(routing)
      BY <1>1, <2>1, <3>2
    <3>3. CASE s # From(routing)
      <4>1. pending'[s] = pending[s] /\ pending[s] # NoMessage /\ pending[s] \in Number /\ pending[s] # routing
        BY <2>1, <3>1, <3>3
      <4>2. prompt_of[pending[s]] = pending[s] /\ From(pending[s]) = s
        BY <4>1, PendingPrompts
      <4> QED
        BY <2>1, <4>1, <4>2
    <3> QED
      BY <3>2, <3>3
  <2>5. RunsAreTexts'
    BY <1>1, <2>1 DEF TaskInv, RunsAreTexts, Dispatched, Kind
  <2>6. ForwardsAreAttached'
    <3> SUFFICES ASSUME NEW p \in Number, NEW f \in forwards'[p]
                 PROVE  Kind(f) = "forward" /\ From(f) = From(p)
      BY <1>1 DEF ForwardsAreAttached, Kind, From
    <3>1. CASE p = routing /\ q # NoMessage
      BY <2>1, <2>2, <3>1 DEF TaskInv, ForwardsAreAttached
    <3>2. CASE ~(p = routing /\ q # NoMessage)
      BY <2>1, <3>2 DEF TaskInv, ForwardsAreAttached
    <3> QED
      BY <3>1, <3>2
  <2> QED
    BY <1>2, <2>3, <2>4, <2>5, <2>6 DEF TaskInv
<1>6. CASE New
  <2>0. TypeOK
    BY DEF TaskInv
  <2>1. /\ \A d \in Number : debounce'[d] = "none" <=> debounce[d] = "none"
        /\ \A s \in Sender : pending'[s] = IF s = From(routing) THEN NoMessage ELSE pending[s]
        /\ UNCHANGED <<prompt_of, forwards, runs>>
    BY <1>1, <1>6, <2>0, CancelledTasks DEF New, TypeOK
  <2> QED
    BY <1>1, <1>2, <2>1 DEF TaskInv, TasksHavePrompts, PendingAreAccepted, RunsAreTexts,
       ForwardsAreAttached, Kind, From, Dispatched
<1> QED
  BY <1>3, <1>4, <1>5, <1>6 DEF RouteEnds

LEMMA TaskDebounce ==
  ASSUME TaskInv, TypeOK', NEW d \in Number, Debounce(d)
  PROVE  TaskInv'
<1>0. TypeOK /\ d \in 1..Len(seen) /\ prompt_of[d] \in 1..d /\ d # routing /\ Len(seen) \in Nat
  <2>1. debounce[d] # "none"
    BY DEF Debounce, DebounceStarts, DebounceEnds
  <2> QED
    BY <2>1, NumbersToCome DEF TaskInv, TasksHavePrompts, RoutedIsLast, NoMessage
<1>1. /\ UNCHANGED <<seen, routing, forwards, prompt_of, flush, taken>>
      /\ \A e \in Number : debounce'[e] = "none" <=> debounce[e] = "none"
      /\ \A s \in Sender : pending'[s] = pending[s] \/ pending'[s] = NoMessage
  BY <1>0 DEF Debounce, DebounceStarts, DebounceEnds, albums, TypeOK
<1>2. \A p \in Dispatched' : p \in Dispatched \/ (p = prompt_of[d] /\ Kind(p) = "text" /\ p # routing)
  <2>1. Kind(prompt_of[d]) = "text" /\ prompt_of[d] # routing
    <3>1. prompt_of[d] \in Number /\ prompt_of[prompt_of[d]] = prompt_of[d] /\ prompt_of[d] # NoMessage
      BY <1>0, InboxAssumption DEF TaskInv, TasksHavePrompts, Number, NoMessage
    <3>2. debounce[prompt_of[d]] # "none"
      BY <3>1 DEF TaskInv, TasksHavePrompts
    <3> QED
      BY <3>1, <3>2 DEF TaskInv, TasksHavePrompts, RoutedIsLast
  <2>2. runs' = runs \/ runs' = Append(runs, prompt_of[d])
    BY DEF Debounce, DebounceStarts, DebounceEnds
  <2>3. runs \in Seq(1..Len(seen))
    BY <1>0 DEF TypeOK
  <2> QED
    BY <2>1, <2>2, <2>3 DEF Dispatched, Range
<1>3. FlushesAreItems' /\ RoutedIsLast' /\ RunsAreTexts'
  <2>1. RoutedIsLast'
    BY <1>0, <1>1, <1>2, InboxAssumption DEF TaskInv, RoutedIsLast, Kind, TypeOK, NoMessage, Number
  <2> QED
    BY <1>1, <1>2, <2>1 DEF TaskInv, FlushesAreItems, RunsAreTexts, Kind
<1>4. TasksHavePrompts' /\ PendingAreAccepted' /\ ForwardsAreAttached'
  BY <1>1 DEF TaskInv, TasksHavePrompts, PendingAreAccepted, ForwardsAreAttached, Kind, From
<1> QED
  BY <1>3, <1>4 DEF TaskInv

----------------------------------------------------------------------------
(***************************************************************************)
(* Albums.  AlbumItemsOnce is inductive once a flush is known to be an     *)
(* item and to own nothing before it takes its group.                      *)
(***************************************************************************)
\* AlbumItemsOnce, said of each item.
GroupInv(g) ==
  /\ \A n \in Items(g) : n \in groups[g] \/ \E f \in Items(g) : n \in taken[f]
  /\ groups[g] \subseteq Items(g)
  /\ \A f \in Items(g) : taken[f] \subseteq Items(g) /\ taken[f] \cap groups[g] = {}
  /\ \A e, f \in Items(g) : e # f => taken[e] \cap taken[f] = {}
  /\ groups[g] # {} => \E f \in groups[g] : flush[f] \in {"ready", "asleep"}

LEMMA AlbumsByItem == AlbumItemsOnce <=> \A g \in Album : GroupInv(g)
<1>1. ASSUME NEW g \in Album
      PROVE  (Items(g) = groups[g] \cup UNION {taken[f] : f \in Items(g)})
               <=> /\ \A n \in Items(g) : n \in groups[g] \/ \E f \in Items(g) : n \in taken[f]
                   /\ groups[g] \subseteq Items(g)
                   /\ \A f \in Items(g) : taken[f] \subseteq Items(g)
  OBVIOUS
<1> QED
  BY <1>1 DEF AlbumItemsOnce, GroupInv, Items

LEMMA AlbumsByItemNext == AlbumItemsOnce' <=> \A g \in Album : GroupInv(g)'
<1>1. (AlbumItemsOnce <=> \A g \in Album : GroupInv(g))'
  BY AlbumsByItem, PTL
<1> QED
  BY <1>1

\* A step that brings no item and runs no flush.
LEMMA AlbumQuiet ==
  ASSUME TaskInv, AlbumItemsOnce, UNCHANGED albums,
         UNCHANGED seen \/ (\E s \in Sender, kind \in {"text", "new", "forward", "blank"} : Arrives(kind, s))
  PROVE  FlushesAreItems' /\ AlbumItemsOnce'
<1>1. UNCHANGED <<groups, flush, taken>>
  BY DEF albums
<1>2. /\ \A n \in 1..Len(seen) : n \in 1..Len(seen') /\ seen'[n] = seen[n]
      /\ \A n \in 1..Len(seen') : n \in 1..Len(seen) \/ seen'[n].kind # "item"
  <2>1. ASSUME NEW s \in Sender, NEW kind \in {"text", "new", "forward", "blank"}, Arrives(kind, s)
        PROVE  /\ \A n \in 1..Len(seen) : n \in 1..Len(seen') /\ seen'[n] = seen[n]
               /\ \A n \in 1..Len(seen') : n \in 1..Len(seen) \/ seen'[n].kind # "item"
    BY <2>1, SeenGrows DEF TaskInv
  <2> QED
    BY <2>1
<1>3. ASSUME NEW g PROVE Items(g)' = Items(g)
  BY <1>2 DEF Items, Kind, From
<1>4. FlushesAreItems'
  BY <1>1, <1>2 DEF TaskInv, FlushesAreItems, Kind
<1>5. ASSUME NEW g \in Album PROVE GroupInv(g)'
  BY <1>1, <1>3, AlbumsByItem DEF GroupInv
<1> QED
  BY <1>4, <1>5, AlbumsByItemNext

LEMMA AlbumAdd ==
  ASSUME TaskInv, AlbumItemsOnce, NEW a \in Album, AddItem(a)
  PROVE  FlushesAreItems' /\ AlbumItemsOnce'
<1> DEFINE n == NextNumber
<1>1. /\ n \in Number /\ n \notin 1..Len(seen)
      /\ \A m \in 1..Len(seen) : seen'[m] = seen[m]
      /\ seen'[n].kind = "item" /\ seen'[n].from = a /\ 1..Len(seen') = (1..Len(seen)) \cup {n}
  BY SeenGrows DEF TaskInv, AddItem
<1>2. flush[n] = "none" /\ taken[n] = {}
  BY <1>1, NumbersToCome
<1>3. /\ \A g \in Album : groups'[g] = IF g = a THEN groups[a] \cup {n} ELSE groups[g]
      /\ \A f \in Number : flush'[f] = IF f = n /\ groups[a] = {} THEN "ready" ELSE flush[f]
      /\ UNCHANGED taken
  BY <1>1 DEF AddItem, TaskInv, TypeOK
<1> HIDE DEF n
<1>4. FlushesAreItems'
  BY <1>1, <1>2, <1>3 DEF TaskInv, FlushesAreItems, Kind
<1>5. ASSUME NEW g \in Album PROVE GroupInv(g)'
  <2>1. GroupInv(g) /\ Items(g) \subseteq 1..Len(seen) /\ 1..Len(seen) \subseteq Number /\ groups[g] \subseteq Number
    BY AlbumsByItem, InboxAssumption DEF Items, TaskInv, TypeOK, Number
  <2>2. CASE g = a
    <3>1. Items(g)' = Items(g) \cup {n}
      BY <1>1, <2>2 DEF Items, Kind, From
    <3>2. groups'[g] = groups[g] \cup {n} /\ n \notin groups[g] /\ n \notin Items(g)
      BY <1>1, <1>3, <2>1, <2>2 DEF GroupInv
    <3>3. \E f \in groups'[g] : flush'[f] \in {"ready", "asleep"}
      BY <1>1, <1>3, <2>1, <2>2, <3>2 DEF GroupInv
    <3> QED
      BY <1>2, <1>3, <2>1, <3>1, <3>2, <3>3 DEF GroupInv
  <2>3. CASE g # a
    <3>1. Items(g)' = Items(g)
      BY <1>1, <2>3 DEF Items, Kind, From
    <3>2. groups'[g] = groups[g] /\ \A f \in groups[g] : flush'[f] = flush[f]
      BY <1>1, <1>3, <2>1, <2>3 DEF GroupInv
    <3> QED
      BY <1>3, <2>1, <3>1, <3>2 DEF GroupInv
  <2> QED
    BY <2>2, <2>3
<1> QED
  BY <1>4, <1>5, AlbumsByItemNext

LEMMA AlbumFlush ==
  ASSUME TaskInv, AlbumItemsOnce, NEW f \in Number, Flush(f)
  PROVE  FlushesAreItems' /\ AlbumItemsOnce'
<1>1. f \in 1..Len(seen) /\ Kind(f) = "item" /\ From(f) \in Album /\ UNCHANGED seen
  <2>1. flush[f] # "none" /\ UNCHANGED seen
    BY DEF Flush, FlushStarts, FlushAgain, FlushTakes, FlushEnds
  <2>2. f \in 1..Len(seen) /\ Kind(f) = "item"
    BY <2>1 DEF TaskInv, FlushesAreItems
  <2>3. seen[f] \in Message
    BY <2>2 DEF TaskInv, TypeOK
  <2> QED
    BY <2>1, <2>2, <2>3 DEF Message, Kind, From
<1>2. /\ \A g \in Album : GroupInv(g) /\ Items(g) \subseteq 1..Len(seen) /\ groups[g] \subseteq Number
      /\ 1..Len(seen) \subseteq Number
  BY AlbumsByItem, InboxAssumption DEF Items, TaskInv, TypeOK, Number
<1>3. ASSUME NEW g PROVE Items(g)' = Items(g)
  BY <1>1 DEF Items, Kind, From
<1>4. f \in Items(From(f))
  BY <1>1 DEF Items
<1>5. CASE FlushStarts(f) \/ FlushAgain(f)
  <2>1. /\ UNCHANGED <<groups, taken>>
        /\ \A e \in Number : flush'[e] = flush[e] \/ (e = f /\ flush'[f] = "asleep" /\ flush[f] = "ready")
    BY <1>5 DEF FlushStarts, FlushAgain, TaskInv, TypeOK
  <2>2. FlushesAreItems'
    BY <1>1, <2>1 DEF TaskInv, FlushesAreItems, Kind
  <2>3. ASSUME NEW g \in Album PROVE GroupInv(g)'
    BY <1>2, <1>3, <2>1 DEF GroupInv
  <2> QED
    BY <2>2, <2>3, AlbumsByItemNext
<1>6. CASE FlushTakes(f)
  <2> DEFINE a == From(f)
  <2>1. /\ \A g \in Album : groups'[g] = IF g = a THEN {} ELSE groups[g]
        /\ \A e \in Number : flush'[e] = IF e = f THEN "deciding" ELSE flush[e]
        /\ \A e \in Number : taken'[e] = IF e = f THEN groups[a] ELSE taken[e]
        /\ flush[f] = "asleep" /\ a \in Album /\ f \in Items(a)
    BY <1>1, <1>4, <1>6 DEF FlushTakes, TaskInv, TypeOK
  <2>2. taken[f] = {}
    BY <2>1 DEF TaskInv, FlushesAreItems
  <2>3. FlushesAreItems'
    BY <1>1, <2>1 DEF TaskInv, FlushesAreItems, Kind
  <2>4. \A g : g # a => f \notin Items(g)
    BY DEF Items
  <2> HIDE DEF a
  <2>5. ASSUME NEW g \in Album PROVE GroupInv(g)'
    <3>1. GroupInv(g) /\ Items(g) \subseteq Number /\ groups[g] \subseteq Number /\ Items(g)' = Items(g)
      BY <1>2, <1>3
    <3>2. CASE g = a
      <4>1. /\ groups'[g] = {} /\ taken'[f] = groups[g] /\ f \in Items(g)
            /\ \A e \in Items(g) : e # f => taken'[e] = taken[e]
        BY <2>1, <3>1, <3>2
      <4>2. \A m \in Items(g) : \E e \in Items(g) : m \in taken'[e]
        BY <2>2, <3>1, <4>1 DEF GroupInv
      <4>3. \A e \in Items(g) : taken'[e] \subseteq Items(g)
        BY <3>1, <4>1 DEF GroupInv
      <4>4. \A d, e \in Items(g) : d # e => taken'[d] \cap taken'[e] = {}
        BY <3>1, <4>1 DEF GroupInv
      <4> QED
        BY <3>1, <4>1, <4>2, <4>3, <4>4 DEF GroupInv
    <3>3. CASE g # a
      <4>1. /\ groups'[g] = groups[g] /\ \A e \in Items(g) : taken'[e] = taken[e] /\ flush'[e] = flush[e]
        BY <2>1, <2>4, <3>1, <3>3
      <4> QED
        BY <3>1, <4>1 DEF GroupInv
    <3> QED
      BY <3>2, <3>3
  <2> QED
    BY <2>3, <2>5, AlbumsByItemNext
<1>7. CASE FlushEnds(f)
  <2>1. /\ UNCHANGED <<groups, taken>> /\ flush[f] = "deciding"
        /\ \A e \in Number : flush'[e] = IF e = f THEN "over" ELSE flush[e]
    BY <1>7 DEF FlushEnds, TaskInv, TypeOK
  <2>2. FlushesAreItems'
    BY <1>1, <2>1 DEF TaskInv, FlushesAreItems, Kind
  <2>3. ASSUME NEW g \in Album PROVE GroupInv(g)'
    BY <1>2, <1>3, <2>1 DEF GroupInv
  <2> QED
    BY <2>2, <2>3, AlbumsByItemNext
<1> QED
  BY <1>5, <1>6, <1>7 DEF Flush

LEMMA TypeAdd ==
  ASSUME TaskInv, NEW a \in Album, AddItem(a)
  PROVE  TypeOK'
<1>1. /\ NextNumber \in Number /\ NextNumber = Len(seen) + 1 /\ Len(seen') = NextNumber
      /\ seen' \in Seq(Message) /\ Len(seen) \in Nat /\ Len(seen') <= MaxMessages
      /\ 1..Len(seen') = (1..Len(seen)) \cup {NextNumber}
  BY SeenGrows, InboxAssumption DEF TaskInv, AddItem, Number
<1>2. 0..Len(seen) \subseteq 0..Len(seen')
  BY <1>1
<1>3. runs' \in Seq(1..Len(seen'))
  BY <1>1, SeqMonotonic DEF TaskInv, TypeOK, AddItem
<1>4. groups' \in [Album -> SUBSET (1..Len(seen'))]
  BY <1>1 DEF TaskInv, TypeOK, AddItem
<1>5. flush' \in [Number -> {"none", "ready", "asleep", "deciding", "over"}]
  BY <1>1 DEF TaskInv, TypeOK, AddItem
<1> QED
  BY <1>1, <1>2, <1>3, <1>4, <1>5 DEF TaskInv, TypeOK, AddItem, coalescer

AlbumInv == TaskInv /\ AlbumItemsOnce

LEMMA AlbumInvariance == Spec => []AlbumInv
<1>1. Init => AlbumInv
  <2> SUFFICES ASSUME Init PROVE AlbumInv
    OBVIOUS
  <2>1. TypeOK /\ 1..Len(seen) = {}
    BY TypeStart DEF Init
  <2>2. Dispatched = {}
    BY DEF Init, Dispatched, Range
  <2>3. AlbumItemsOnce
    BY <2>1 DEF AlbumItemsOnce, Init
  <2> QED
    BY <2>1, <2>2, <2>3 DEF Init, AlbumInv, TaskInv, FlushesAreItems, RoutedIsLast, TasksHavePrompts,
       PendingAreAccepted, RunsAreTexts, ForwardsAreAttached
<1>2. ASSUME AlbumInv, [Next]_vars PROVE AlbumInv'
  <2> USE <1>2 DEF AlbumInv
  <2>1. ASSUME NEW s \in Sender, AttachForward(s) PROVE AlbumInv'
    <3>1. TypeOK'
      BY <2>1, TypeArrival
    <3>2. FlushesAreItems' /\ AlbumItemsOnce'
      BY <2>1, AlbumQuiet DEF AttachForward
    <3> QED
      BY <2>1, <3>1, <3>2, TaskAttach
  <2>2. ASSUME NEW s \in Sender, NEW kind \in {"text", "new", "forward", "blank"}, Arrives(kind, s),
               UNCHANGED <<coalescer, albums, runs>>, TypeOK',
               routing' = IF kind \in {"text", "new"} THEN NextNumber ELSE routing
        PROVE  AlbumInv'
    <3>1. FlushesAreItems' /\ AlbumItemsOnce'
      BY <2>2, AlbumQuiet
    <3> QED
      BY <2>2, <3>1, TaskArrival
  <2>3. ASSUME NEW s \in Sender, IgnoreForward(s) PROVE AlbumInv'
    <3>1. TypeOK'
      BY <2>3, TypeArrival
    <3>2. \E kind \in {"forward", "blank"} : Arrives(kind, s) /\ UNCHANGED <<routing, coalescer, albums, runs>>
      BY <2>3 DEF IgnoreForward
    <3> QED
      BY <2>2, <3>1, <3>2
  <2>4. ASSUME NEW s \in Sender, NEW kind \in {"text", "new"}, RouteBegins(kind, s) PROVE AlbumInv'
    <3>1. TypeOK'
      BY <2>4, TypeArrival
    <3> QED
      BY <2>2, <2>4, <3>1 DEF RouteBegins
  <2>5. ASSUME NEW a \in Album, AddItem(a) PROVE AlbumInv'
    <3>1. TypeOK' /\ FlushesAreItems' /\ AlbumItemsOnce'
      BY <2>5, TypeAdd, AlbumAdd
    <3> QED
      BY <2>5, <3>1, TaskArrival DEF AddItem
  <2>6. CASE RouteEnds
    <3>1. UNCHANGED <<seen, albums>>
      BY <2>6 DEF RouteEnds, NoPrompt, Bypass, Schedule, New
    <3> QED
      BY <2>6, <3>1, TypeRoute, TaskRoute, AlbumQuiet
  <2>7. ASSUME NEW n \in Number, Debounce(n) PROVE AlbumInv'
    <3>1. UNCHANGED <<seen, albums>>
      BY <2>7 DEF Debounce, DebounceStarts, DebounceEnds
    <3> QED
      BY <2>7, <3>1, TypeTasks, TaskDebounce, AlbumQuiet
  <2>8. ASSUME NEW n \in Number, Flush(n) PROVE AlbumInv'
    <3>1. TypeOK' /\ FlushesAreItems' /\ AlbumItemsOnce'
      BY <2>8, TypeTasks, AlbumFlush
    <3>2. UNCHANGED <<seen, routing, pending, forwards, debounce, prompt_of, runs>>
      BY <2>8 DEF Flush, FlushStarts, FlushAgain, FlushTakes, FlushEnds, coalescer
    <3> QED
      BY <3>1, <3>2 DEF TaskInv, RoutedIsLast, TasksHavePrompts, PendingAreAccepted, RunsAreTexts,
         ForwardsAreAttached, Kind, From, Dispatched
  <2>9. CASE UNCHANGED vars
    <3>1. TypeOK'
      BY <2>9 DEF vars, coalescer, albums, TaskInv, TypeOK
    <3>2. FlushesAreItems' /\ AlbumItemsOnce'
      BY <2>9, AlbumQuiet DEF vars
    <3>3. UNCHANGED <<seen, routing, pending, forwards, debounce, prompt_of, runs>>
      BY <2>9 DEF vars, coalescer
    <3> QED
      BY <3>1, <3>2, <3>3 DEF TaskInv, RoutedIsLast, TasksHavePrompts, PendingAreAccepted, RunsAreTexts,
         ForwardsAreAttached, Kind, From, Dispatched
  <2> QED
    BY <2>1, <2>3, <2>4, <2>5, <2>6, <2>7, <2>8, <2>9 DEF Next
<1> QED
  BY <1>1, <1>2, PTL DEF Spec

\* Every variable keeps its type (telegram/loop.py 500-700, 780-840).
THEOREM TypeCorrect == Spec => []TypeOK
BY AlbumInvariance, PTL DEF AlbumInv, TaskInv

\* An item of an album is never lost and never uploaded twice, however its items and
\* the wake-ups of its flush interleave (loop.py 780-840).
THEOREM AlbumItemsAreTakenOnce == Spec => []AlbumItemsOnce
BY AlbumInvariance, PTL DEF AlbumInv

----------------------------------------------------------------------------
(***************************************************************************)
(* Prompts.  Whatever is routed now is the last message that came, so what *)
(* it replaces or drops is superseded.                                     *)
(***************************************************************************)
\* Messages keep their numbers and their tasks their prompts.
Grows ==
  /\ \A n \in 1..Len(seen) : n \in 1..Len(seen') /\ seen'[n] = seen[n]
  /\ \A n \in 1..Len(seen') : n \in Number
  /\ \A d \in Number : debounce[d] # "none" => prompt_of'[d] = prompt_of[d]

LEMMA StillSuperseded ==
  ASSUME TaskInv, Grows, NEW p \in 1..Len(seen), Superseded(p)
  PROVE  Superseded(p)'
<1>1. PICK n \in Accepted \cup {m \in 1..Len(seen) : Kind(m) = "new"} : n > p /\ From(n) = From(p)
  BY DEF Superseded
<1>2. n \in 1..Len(seen) /\ n \in 1..Len(seen') /\ seen'[n] = seen[n] /\ seen'[p] = seen[p] /\ n \in Number
  BY <1>1 DEF Accepted, Grows
<1>3. CASE Kind(n) = "new"
  BY <1>1, <1>2, <1>3 DEF Superseded, Kind, From
<1>4. CASE n \in Accepted
  <2>1. debounce[n] # "none"
    BY <1>2, <1>4 DEF Accepted, TaskInv, TasksHavePrompts, NoMessage
  <2>2. n \in Accepted'
    BY <1>2, <1>4, <2>1 DEF Accepted, Grows
  <2> QED
    BY <1>1, <1>2, <2>2 DEF Superseded, From
<1> QED
  BY <1>1, <1>3, <1>4

Live(d) == debounce[d] \in {"ready", "asleep", "cancelled"}

\* A step that accepts and dispatches nothing, and ends no debounce task.
LEMMA PromptsFrame ==
  ASSUME AlbumInv, PromptsAccountedFor, Grows, UNCHANGED <<pending, runs>>,
         \A d \in Number : debounce[d] = "none" => prompt_of'[d] # d,
         \A d \in Number : Live(d) => Live(d)'
  PROVE  PromptsAccountedFor'
<1>1. UNCHANGED PendingNow /\ UNCHANGED Dispatched
  BY DEF PendingNow, Dispatched
<1>2. \A p \in Accepted' : p \in Accepted
  <2> SUFFICES ASSUME NEW p \in Number, prompt_of'[p] = p PROVE p \in Accepted
    BY DEF Grows, Accepted
  <2>1. debounce[p] # "none"
    OBVIOUS
  <2> QED
    BY <2>1 DEF Grows, Accepted, AlbumInv, TaskInv, TasksHavePrompts
<1>3. \A p \in Accepted' : p \in PendingNow' \cup Dispatched' \/ Superseded(p)'
  BY <1>1, <1>2, StillSuperseded DEF PromptsAccountedFor, AlbumInv, Accepted
<1>4. ASSUME NEW p \in PendingNow' PROVE \E d \in Number : prompt_of'[d] = p /\ Live(d)'
  <2>1. PICK d \in Number : prompt_of[d] = p /\ Live(d)
    BY <1>1, <1>4 DEF PromptsAccountedFor, Live
  <2>2. debounce[d] # "none"
    BY <2>1 DEF Live
  <2> QED
    BY <2>1, <2>2 DEF Grows
<1> QED
  BY <1>1, <1>3, <1>4 DEF PromptsAccountedFor, Live

LEMMA PendingNext ==
  ASSUME TypeOK'
  PROVE  \A p : p \in PendingNow' <=> p # NoMessage /\ \E s \in Sender : pending'[s] = p
BY DEF PendingNow, Range, TypeOK

LEMMA PromptsRoute ==
  ASSUME AlbumInv, AlbumInv', PromptsAccountedFor, RouteEnds
  PROVE  PromptsAccountedFor'
<1>0. /\ TypeOK /\ TypeOK' /\ TaskInv
  BY DEF AlbumInv, TaskInv
<1>1. /\ routing \in 1..Len(seen) /\ routing \in Number /\ routing = Len(seen) /\ UNCHANGED seen
      /\ debounce[routing] = "none" /\ prompt_of[routing] = NoMessage
      /\ routing \notin Dispatched /\ routing \notin PendingNow /\ From(routing) \in Sender
      /\ \A p \in Number : prompt_of[p] # routing
  BY <1>0, RoutedMessage
<1>2. Grows
  <2>1. 1..Len(seen) \subseteq Number
    BY <1>0, InboxAssumption DEF TypeOK, Number
  <2> QED
    BY <1>0, <1>1, <2>1 DEF Grows, RouteEnds, NoPrompt, Bypass, Schedule, New, coalescer, TypeOK
<1>3. \A p \in Accepted : p \in 1..Len(seen) /\ p < routing /\ p # routing
  BY <1>1 DEF Accepted, NoMessage
<1>4. CASE NoPrompt
  <2>1. UNCHANGED <<pending, runs, prompt_of, debounce>>
    BY <1>4 DEF NoPrompt, coalescer
  <2> QED
    BY <1>0, <1>2, <2>1, PromptsFrame DEF Live, TaskInv, TasksHavePrompts, NoMessage, Number
<1>5. CASE Bypass
  <2>1. /\ UNCHANGED <<pending, prompt_of, debounce>> /\ runs' = Append(runs, routing)
        /\ UNCHANGED PendingNow /\ UNCHANGED Accepted
    BY <1>1, <1>5 DEF Bypass, coalescer, PendingNow, Accepted
  <2>2. runs \in Seq(1..Len(seen))
    BY <1>0 DEF TypeOK
  <2>3. Dispatched' = Dispatched \cup {routing}
    BY <1>1, <2>1, <2>2, SMTT(30) DEF Dispatched, Range
  <2>4. IsInjective(runs')
    BY <1>1, <2>1, <2>2 DEF Dispatched, Range, IsInjective, PromptsAccountedFor
  <2>5. \A p \in Accepted' : p \in PendingNow' \cup Dispatched' \/ Superseded(p)'
    BY <1>0, <1>2, <1>3, <2>1, <2>3, StillSuperseded DEF PromptsAccountedFor
  <2> QED
    BY <1>1, <2>1, <2>3, <2>4, <2>5 DEF PromptsAccountedFor
<1>6. ASSUME NEW s \in Sender, s = From(routing),
             UNCHANGED runs, \A t \in Sender : t # s => pending'[t] = pending[t],
             pending'[s] \in {NoMessage, routing},
             \A p \in Accepted' : p \in Accepted \/ (p = routing /\ p \in PendingNow'),
             routing \in Accepted' \/ Kind(routing) = "new",
             pending'[s] = routing => prompt_of'[routing] = routing,
             \A d \in Number : Live(d) \/ (d = routing /\ pending'[s] = routing) => Live(d)'
      PROVE  PromptsAccountedFor'
  <2>1. \A p \in PendingNow' : (p \in PendingNow /\ p # pending[s]) \/ p = routing
    <3> SUFFICES ASSUME NEW p \in PendingNow', p # routing PROVE p \in PendingNow /\ p # pending[s]
      OBVIOUS
    <3>1. PICK t \in Sender : pending'[t] = p /\ p # NoMessage
      BY <1>0, PendingNext
    <3> QED
      BY <1>0, <1>6, <3>1, PendingPrompts
  <2>2. \A p \in PendingNow : p = pending[s] \/ p \in PendingNow'
    BY <1>0, <1>6, PendingPrompts DEF TypeOK, PendingNow, Range
  <2>3. UNCHANGED Dispatched
    BY <1>6 DEF Dispatched
  <2>4. PendingNow' \cap Dispatched' = {}
    BY <1>1, <2>1, <2>3 DEF PromptsAccountedFor
  <2>5. ASSUME NEW p \in Accepted' PROVE p \in PendingNow' \cup Dispatched' \/ Superseded(p)'
    <3>1. CASE p = pending[s] /\ p # NoMessage /\ p \in Accepted
      <4>1. From(p) = From(routing) /\ p < routing /\ p \in 1..Len(seen) /\ routing \in Nat
        BY <1>0, <1>1, <1>3, <1>6, <3>1, PendingPrompts
      <4>2. routing \in (Accepted \cup {m \in 1..Len(seen) : Kind(m) = "new"})'
        BY <1>1, <1>6 DEF Kind
      <4> QED
        BY <1>1, <4>1, <4>2 DEF Superseded, From
    <3>2. CASE p \in Accepted /\ ~(p = pending[s] /\ p # NoMessage)
      <4>1. p \in 1..Len(seen) /\ p # NoMessage
        BY <1>3, <3>2 DEF NoMessage
      <4> QED
        BY <1>0, <1>2, <2>2, <2>3, <3>2, <4>1, StillSuperseded DEF PromptsAccountedFor
    <3> QED
      BY <1>6, <2>5, <3>1, <3>2
  <2>6. ASSUME NEW p \in PendingNow' PROVE \E d \in Number : prompt_of'[d] = p /\ Live(d)'
    <3>1. CASE p = routing
      <4>1. pending'[s] = routing
        <5>1. PICK t \in Sender : pending'[t] = p
          BY <1>0, <2>6, PendingNext
        <5> QED
          BY <1>0, <1>1, <1>6, <3>1, <5>1, PendingPrompts DEF NoMessage
      <4> QED
        BY <1>1, <1>6, <3>1, <4>1 DEF Live
    <3>2. CASE p # routing
      <4>1. PICK d \in Number : prompt_of[d] = p /\ Live(d)
        BY <2>1, <2>6, <3>2 DEF PromptsAccountedFor, Live
      <4>2. debounce[d] # "none"
        BY <4>1 DEF Live
      <4> QED
        BY <1>2, <1>6, <4>1, <4>2 DEF Grows
    <3> QED
      BY <3>1, <3>2
  <2> QED
    BY <1>6, <2>4, <2>5, <2>6 DEF PromptsAccountedFor, Live
<1>7. CASE Schedule
  <2> DEFINE s == From(routing)
  <2>1. /\ UNCHANGED runs /\ pending'[s] = routing /\ \A t \in Sender : t # s => pending'[t] = pending[t]
        /\ \A d \in Number : prompt_of'[d] = IF d = routing THEN routing ELSE prompt_of[d]
    BY <1>0, <1>1, <1>7 DEF Schedule, TypeOK
  <2>2. \A d \in Number : Live(d) \/ d = routing => Live(d)'
    <3>1. debounce' = [Cancelled(pending[From(routing)]) EXCEPT ![routing] = "ready"]
      BY <1>7 DEF Schedule
    <3>2. \A d \in Number : Live(d) => debounce'[d] \in {"ready", "asleep", "cancelled"}
      BY <1>0, <1>1, <3>1, CancelledTasks DEF Live
    <3>3. debounce'[routing] \in {"ready", "asleep", "cancelled"}
      BY <1>0, <1>1, <3>1, CancelledTasks
    <3> QED
      BY <3>2, <3>3 DEF Live
  <2>3. routing \in PendingNow'
    BY <1>0, <1>1, <2>1 DEF PendingNow, Range, TypeOK, NoMessage
  <2>4. routing \in Accepted' /\ \A p \in Accepted' : p \in Accepted \/ p = routing
    BY <1>1, <1>2, <2>1 DEF Accepted, Grows
  <2> QED
    BY <1>1, <1>6, <2>1, <2>2, <2>3, <2>4
<1>8. CASE New
  <2>1. /\ UNCHANGED <<runs, prompt_of>> /\ Kind(routing) = "new"
        /\ \A t \in Sender : pending'[t] = IF t = From(routing) THEN NoMessage ELSE pending[t]
    BY <1>0, <1>1, <1>8 DEF New, TypeOK, Kind
  <2>2. \A d \in Number : Live(d) => Live(d)'
    BY <1>0, <1>8, CancelledTasks DEF New, Live
  <2>3. UNCHANGED Accepted
    BY <1>1, <2>1 DEF Accepted
  <2> QED
    BY <1>1, <1>6, <2>1, <2>2, <2>3 DEF NoMessage
<1> QED
  BY <1>4, <1>5, <1>7, <1>8 DEF RouteEnds

\* What the end of a debounce task does: nothing, or its prompt moves to the runs.
LEMMA DebounceEffect ==
  ASSUME AlbumInv, AlbumInv', NEW d \in Number, DebounceEnds(d)
  PROVE  /\ prompt_of[d] \in Number /\ debounce[d] # "none"
         /\ UNCHANGED <<seen, forwards, prompt_of>> /\ \A e \in Number : e # d => debounce'[e] = debounce[e]
         /\ \/ prompt_of[d] \notin PendingNow /\ UNCHANGED <<pending, runs>>
            \/ /\ prompt_of[d] \in PendingNow /\ runs' = Append(runs, prompt_of[d])
               /\ \A p : p \in PendingNow' <=> p \in PendingNow /\ p # prompt_of[d]
               /\ \A p : p \in Dispatched' <=> p \in Dispatched \/ p = prompt_of[d]
<1> DEFINE p == prompt_of[d]
<1>0. TypeOK /\ TypeOK' /\ TaskInv
  BY DEF AlbumInv, TaskInv
<1>1. debounce[d] # "none" /\ UNCHANGED <<seen, forwards, prompt_of>> /\ \A e \in Number : e # d => debounce'[e] = debounce[e]
  BY <1>0 DEF DebounceEnds, TypeOK
<1>2. p \in Number /\ p # NoMessage /\ d \in 1..Len(seen) /\ p \in 1..Len(seen)
  <2>1. d \in 1..Len(seen) /\ p \in 1..d
    BY <1>0, <1>1 DEF TaskInv, TasksHavePrompts
  <2>2. Len(seen) \in Nat /\ Len(seen) <= MaxMessages
    BY <1>0 DEF TypeOK
  <2> QED
    BY <2>1, <2>2, InboxAssumption DEF NoMessage, Number
<1>3. From(p) \in Sender
  <2>1. prompt_of[p] = p
    BY <1>0, <1>1 DEF TaskInv, TasksHavePrompts
  <2>2. Kind(p) \in {"text", "forward"} /\ seen[p] \in Message
    BY <1>0, <1>2, <2>1 DEF TaskInv, TasksHavePrompts, TypeOK
  <2> QED
    BY <2>2 DEF Message, Kind, From
<1>4. CASE pending[From(p)] = p
  <2>1. p \in PendingNow
    BY <1>0, <1>2, <1>3, <1>4, PendingPrompts
  <2>2. runs' = Append(runs, p) /\ \A t \in Sender : pending'[t] = IF t = From(p) THEN NoMessage ELSE pending[t]
    BY <1>0, <1>4 DEF DebounceEnds, TypeOK
  <2>3. \A q : q \in PendingNow' <=> q \in PendingNow /\ q # p
    BY <1>0, <1>2, <1>3, <1>4, <2>2, PendingPrompts, PendingNext
  <2>4. \A q : q \in Dispatched' <=> q \in Dispatched \/ q = p
    <3>1. runs \in Seq(1..Len(seen))
      BY <1>0 DEF TypeOK
    <3> QED
      BY <1>2, <2>2, <3>1, SMTT(30) DEF Dispatched, Range
  <2> QED
    BY <1>1, <1>2, <2>1, <2>2, <2>3, <2>4
<1>5. CASE pending[From(p)] # p
  <2>1. p \notin PendingNow
    BY <1>0, <1>2, <1>5, PendingPrompts
  <2> QED
    BY <1>1, <1>2, <1>5, <2>1 DEF DebounceEnds
<1> QED
  BY <1>4, <1>5

LEMMA PromptsDispatch ==
  ASSUME AlbumInv, AlbumInv', PromptsAccountedFor, NEW d \in Number, DebounceEnds(d)
  PROVE  PromptsAccountedFor'
<1> DEFINE p == prompt_of[d]
<1>1. /\ p \in Number /\ debounce[d] # "none"
      /\ UNCHANGED <<seen, forwards, prompt_of>> /\ \A e \in Number : e # d => debounce'[e] = debounce[e]
      /\ \/ p \notin PendingNow /\ UNCHANGED <<pending, runs>>
         \/ /\ p \in PendingNow /\ runs' = Append(runs, p)
            /\ \A q : q \in PendingNow' <=> q \in PendingNow /\ q # p
            /\ \A q : q \in Dispatched' <=> q \in Dispatched \/ q = p
  BY DebounceEffect
<1>2. Grows /\ UNCHANGED Accepted
  BY <1>1, InboxAssumption DEF Grows, Accepted, AlbumInv, TaskInv, TypeOK, Number
<1>3. \A q : q \in PendingNow' => q \in PendingNow /\ q # p
  BY <1>1 DEF PendingNow
<1>4. IsInjective(runs') /\ PendingNow' \cap Dispatched' = {}
  <2>1. runs \in Seq(1..Len(seen))
    BY DEF AlbumInv, TaskInv, TypeOK
  <2>2. IsInjective(runs')
    BY <1>1, <2>1, SMTT(30) DEF PromptsAccountedFor, IsInjective, Dispatched, Range
  <2>3. PendingNow' \cap Dispatched' = {}
    BY <1>1 DEF PromptsAccountedFor, PendingNow, Dispatched
  <2> QED
    BY <2>2, <2>3
<1>5. ASSUME NEW q \in Accepted' PROVE q \in PendingNow' \cup Dispatched' \/ Superseded(q)'
  <2>1. q \in PendingNow \cup Dispatched => q \in PendingNow' \cup Dispatched'
    BY <1>1 DEF PendingNow, Dispatched
  <2> QED
    BY <1>2, <1>5, <2>1, StillSuperseded DEF PromptsAccountedFor, Accepted, AlbumInv
<1>6. ASSUME NEW q \in PendingNow' PROVE \E e \in Number : prompt_of'[e] = q /\ debounce'[e] \in {"ready", "asleep", "cancelled"}
  <2>1. PICK e \in Number : prompt_of[e] = q /\ debounce[e] \in {"ready", "asleep", "cancelled"}
    BY <1>3, <1>6 DEF PromptsAccountedFor
  <2>2. e # d
    BY <1>3, <1>6, <2>1
  <2> QED
    BY <1>1, <2>1, <2>2
<1> QED
  BY <1>4, <1>5, <1>6 DEF PromptsAccountedFor

\* Every step lets messages keep their numbers and tasks their prompts.
LEMMA AlwaysGrows ==
  ASSUME AlbumInv, AlbumInv', [Next]_vars
  PROVE  Grows
<1>0. TypeOK /\ TypeOK' /\ TaskInv
  BY DEF AlbumInv, TaskInv
<1>1. 1..Len(seen) \subseteq Number /\ 1..Len(seen') \subseteq Number
  BY <1>0, InboxAssumption DEF TypeOK, Number
<1>2. ASSUME NEW kind, NEW from, Arrives(kind, from),
         (kind \in {"text", "new", "forward", "blank"} /\ from \in Sender) \/ (kind = "item" /\ from \in Album)
      PROVE  /\ \A n \in 1..Len(seen) : n \in 1..Len(seen') /\ seen'[n] = seen[n]
             /\ debounce[NextNumber] = "none" /\ NextNumber \in Number
  BY <1>0, <1>2, SeenGrows, NumbersToCome
<1>3. ASSUME NEW s \in Sender, AttachForward(s) PROVE Grows
  BY <1>0, <1>1, <1>2, <1>3 DEF Grows, AttachForward, TypeOK
<1>4. ASSUME NEW s \in Sender, IgnoreForward(s) \/ (\E kind \in {"text", "new"} : RouteBegins(kind, s)) PROVE Grows
  BY <1>1, <1>2, <1>4 DEF Grows, IgnoreForward, RouteBegins, coalescer
<1>5. ASSUME NEW a \in Album, AddItem(a) PROVE Grows
  BY <1>1, <1>2, <1>5 DEF Grows, AddItem, coalescer
<1>6. CASE RouteEnds
  <2>1. debounce[routing] = "none" /\ UNCHANGED seen
    BY <1>0, <1>6, RoutedMessage
  <2> QED
    BY <1>0, <1>1, <1>6, <2>1 DEF Grows, RouteEnds, NoPrompt, Bypass, Schedule, New, coalescer, TypeOK
<1>7. ASSUME NEW n \in Number, Debounce(n) \/ Flush(n) PROVE Grows
  BY <1>1, <1>7 DEF Grows, Debounce, DebounceStarts, DebounceEnds, Flush, FlushStarts, FlushAgain, FlushTakes,
     FlushEnds, coalescer
<1>8. CASE UNCHANGED vars
  BY <1>1, <1>8 DEF Grows, vars, coalescer
<1> QED
  BY <1>3, <1>4, <1>5, <1>6, <1>7, <1>8 DEF Next

LEMMA PromptsInvariance == Spec => []PromptsAccountedFor
<1>1. Init => PromptsAccountedFor
  <2> SUFFICES ASSUME Init PROVE PromptsAccountedFor
    OBVIOUS
  <2>1. Dispatched = {} /\ PendingNow = {} /\ Accepted = {} /\ IsInjective(runs)
    BY DEF Init, Dispatched, PendingNow, Accepted, Range, IsInjective
  <2> QED
    BY <2>1 DEF PromptsAccountedFor
<1>2. ASSUME AlbumInv, AlbumInv', PromptsAccountedFor, [Next]_vars PROVE PromptsAccountedFor'
  <2>0. Grows /\ TypeOK /\ TaskInv
    BY <1>2, AlwaysGrows DEF AlbumInv, TaskInv
  <2>1. ASSUME UNCHANGED <<pending, runs, debounce, prompt_of>> PROVE PromptsAccountedFor'
    <3>1. \A d \in Number : debounce[d] = "none" => prompt_of'[d] # d
      BY <2>0, <2>1 DEF TaskInv, TasksHavePrompts, NoMessage, Number
    <3> QED
      BY <1>2, <2>0, <2>1, <3>1, PromptsFrame DEF Live
  <2>2. ASSUME NEW s \in Sender, AttachForward(s) PROVE PromptsAccountedFor'
    <3>1. NextNumber \in Number /\ NextNumber \notin 1..Len(seen) /\ debounce[NextNumber] = "none"
      BY <2>0, <2>2, SeenGrows, NumbersToCome DEF AttachForward
    <3>2. pending[s] # NextNumber /\ UNCHANGED <<pending, runs>>
      BY <2>0, <2>2, <3>1, PendingPrompts DEF AttachForward
    <3>3. \A d \in Number : debounce[d] = "none" => prompt_of'[d] # d
      BY <2>0, <2>2, <3>1, <3>2 DEF AttachForward, TypeOK, TaskInv, TasksHavePrompts, NoMessage, Number
    <3>4. \A d \in Number : Live(d) => Live(d)'
      <4>1. debounce' = [Cancelled(pending[s]) EXCEPT ![NextNumber] = "ready"]
        BY <2>2 DEF AttachForward
      <4> QED
        BY <2>0, <3>1, <4>1, CancelledTasks DEF Live
    <3> QED
      BY <1>2, <2>0, <3>2, <3>3, <3>4, PromptsFrame
  <2>3. ASSUME NEW d \in Number, DebounceStarts(d) PROVE PromptsAccountedFor'
    <3>1. UNCHANGED <<pending, runs, prompt_of>> /\ \A e \in Number : Live(e) => Live(e)'
      BY <2>0, <2>3 DEF DebounceStarts, TypeOK, Live
    <3>2. \A e \in Number : debounce[e] = "none" => prompt_of'[e] # e
      BY <2>0, <3>1 DEF TaskInv, TasksHavePrompts, NoMessage, Number
    <3> QED
      BY <1>2, <2>0, <3>1, <3>2, PromptsFrame
  <2>4. ASSUME NEW s \in Sender, IgnoreForward(s) \/ (\E kind \in {"text", "new"} : RouteBegins(kind, s))
        PROVE  PromptsAccountedFor'
    BY <2>1, <2>4 DEF IgnoreForward, RouteBegins, coalescer
  <2>5. ASSUME NEW a \in Album, AddItem(a) PROVE PromptsAccountedFor'
    BY <2>1, <2>5 DEF AddItem, coalescer
  <2>6. ASSUME NEW n \in Number, Flush(n) PROVE PromptsAccountedFor'
    BY <2>1, <2>6 DEF Flush, FlushStarts, FlushAgain, FlushTakes, FlushEnds, coalescer
  <2>7. CASE UNCHANGED vars
    BY <2>1, <2>7 DEF vars, coalescer
  <2> QED
    BY <1>2, <2>2, <2>3, <2>4, <2>5, <2>6, <2>7, PromptsRoute, PromptsDispatch DEF Next, Debounce
<1> QED
  BY <1>1, <1>2, AlbumInvariance, PTL DEF Spec

\* No prompt runs twice, and none is lost but to a later prompt or a /new of its
\* sender, however its debounce tasks and the poller interleave (loop.py 500-563,
\* 615-644).
THEOREM PromptsAreAccountedFor == Spec => []PromptsAccountedFor
BY PromptsInvariance

----------------------------------------------------------------------------
(***************************************************************************)
(* Forwards.  A prompt hands them on to the one that replaces it, and no   *)
(* message gets any before it is a prompt.                                 *)
(***************************************************************************)
Here == PendingNow \cup Dispatched

DroppedByNew(f) == \E n \in 1..Len(seen) : n > f /\ Kind(n) = "new" /\ From(n) = From(f)

LEMMA StillDropped ==
  ASSUME Grows, NEW f \in 1..Len(seen), DroppedByNew(f)
  PROVE  DroppedByNew(f)'
BY DEF Grows, DroppedByNew, Kind, From

\* The prompts that are here are messages, and messages that came keep their kind.
LEMMA HereAreMessages ==
  ASSUME AlbumInv
  PROVE  Here \subseteq 1..Len(seen) /\ 1..Len(seen) \subseteq Number /\ Attached \subseteq 1..Len(seen)
<1>1. PendingNow \subseteq 1..Len(seen) /\ Dispatched \subseteq 1..Len(seen)
  BY PendingPrompts, NumbersToCome DEF AlbumInv
<1> QED
  BY <1>1, InboxAssumption DEF Here, Attached, AlbumInv, TaskInv, TypeOK, Number

LEMMA ForwardsFrame ==
  ASSUME AlbumInv, AlbumInv', ForwardsFollowPrompts, Grows, UNCHANGED <<forwards, prompt_of>>,
         \A p : p \in Here <=> p \in Here'
  PROVE  ForwardsFollowPrompts'
<1>1. \A f \in Attached' : f \in Attached
  <2>1. \A f \in Number : f \notin 1..Len(seen) => prompt_of[f] = NoMessage
    BY NumbersToCome DEF AlbumInv
  <2> QED
    BY <2>1 DEF Attached, Grows, Kind
<1>2. ASSUME NEW f \in Attached', NEW p \in Here, f \in forwards[p] /\ From(p) = From(f)
      PROVE  \E q \in Here' : f \in forwards'[q] /\ seen'[q].from = seen'[f].from
  <2>1. p \in 1..Len(seen) /\ f \in 1..Len(seen)
    BY <1>1, HereAreMessages
  <2> QED
    BY <1>2, <2>1 DEF Grows, From
<1>3. ASSUME NEW f \in Attached', ~DroppedByNew(f)'
      PROVE  \E q \in Here' : f \in forwards'[q] /\ seen'[q].from = seen'[f].from
  <2>1. f \in 1..Len(seen)
    BY <1>1, <1>3, HereAreMessages
  <2>2. PICK p \in Here : f \in forwards[p] /\ From(p) = From(f)
    BY <1>1, <1>3, <2>1, StillDropped DEF ForwardsFollowPrompts, Here, DroppedByNew
  <2> QED
    BY <1>2, <2>2
<1>4. \A p, q \in Here' : p # q => forwards'[p] \cap forwards'[q] = {}
  BY DEF ForwardsFollowPrompts, Here
<1> QED
  BY <1>3, <1>4 DEF ForwardsFollowPrompts, Here, DroppedByNew, From

\* The other steps move the forwards of p to q, and all that p loses is dropped.
LEMMA ForwardsStep ==
  ASSUME \A f \in Attached' : f \in 1..Len(seen'),
         \A f \in Attached' : \/ DroppedByNew(f)'
                              \/ \E p \in Here' : f \in forwards'[p] /\ seen'[p].from = seen'[f].from,
         \A p, q \in Here' : p # q => forwards'[p] \cap forwards'[q] = {}
  PROVE  ForwardsFollowPrompts'
BY DEF ForwardsFollowPrompts, Here, DroppedByNew, From

LEMMA ForwardsAttach ==
  ASSUME AlbumInv, AlbumInv', ForwardsFollowPrompts, Grows, NEW s \in Sender, AttachForward(s)
  PROVE  ForwardsFollowPrompts'
<1> DEFINE p == pending[s]
           n == NextNumber
<1>0. TypeOK /\ TaskInv
  BY DEF AlbumInv, TaskInv
<1>1. /\ n \in Number /\ n \notin 1..Len(seen) /\ 1..Len(seen') = (1..Len(seen)) \cup {n}
      /\ \A m \in 1..Len(seen) : seen'[m] = seen[m]
      /\ seen'[n].kind = "forward" /\ seen'[n].from = s
  BY <1>0, SeenGrows DEF AttachForward
<1>2. p \in 1..Len(seen) /\ p \in Number /\ From(p) = s /\ p \in Here
  BY <1>0, PendingPrompts DEF AttachForward, Here
<1>3. /\ \A m \in Number : prompt_of'[m] = IF m = n THEN p ELSE prompt_of[m]
      /\ \A m \in Number : forwards'[m] = IF m = p THEN forwards[p] \cup {n} ELSE forwards[m]
      /\ UNCHANGED Here
  BY <1>0, <1>1, <1>2 DEF AttachForward, TypeOK, Here, PendingNow, Dispatched
<1> HIDE DEF p, n
<1>4. Here \subseteq 1..Len(seen) /\ 1..Len(seen) \subseteq Number /\ Attached \subseteq 1..Len(seen)
  BY HereAreMessages
<1>5. \A f \in Attached' : f \in 1..Len(seen') /\ (f = n \/ f \in Attached)
  BY <1>1, <1>3, <1>4 DEF Attached, Kind
<1>6. ASSUME NEW f \in Attached'
      PROVE  \/ DroppedByNew(f)'
             \/ \E q \in Here' : f \in forwards'[q] /\ seen'[q].from = seen'[f].from
  <2>1. CASE f = n
    BY <1>1, <1>2, <1>3, <2>1 DEF From
  <2>2. CASE f \in Attached
    <3>1. CASE DroppedByNew(f)
      BY <1>4, <2>2, <3>1, StillDropped
    <3>2. CASE \E q \in Here : f \in forwards[q] /\ From(q) = From(f)
      BY <1>1, <1>3, <1>4, <2>2, <3>2 DEF From
    <3> QED
      BY <2>2, <3>1, <3>2 DEF ForwardsFollowPrompts, Here, DroppedByNew
  <2> QED
    BY <1>5, <1>6, <2>1, <2>2
<1>7. ASSUME NEW q \in Here', NEW r \in Here', q # r PROVE forwards'[q] \cap forwards'[r] = {}
  <2>1. n \notin forwards[q] /\ n \notin forwards[r] /\ q \in Number /\ r \in Number
    BY <1>0, <1>1, <1>3, <1>4 DEF TypeOK
  <2>2. forwards[q] \cap forwards[r] = {}
    BY <1>3, <1>7 DEF ForwardsFollowPrompts, Here
  <2> QED
    BY <1>3, <1>7, <2>1, <2>2
<1> QED
  BY <1>5, <1>6, <1>7, ForwardsStep

LEMMA ForwardsRoute ==
  ASSUME AlbumInv, AlbumInv', ForwardsFollowPrompts, PromptsAccountedFor, Grows, RouteEnds
  PROVE  ForwardsFollowPrompts'
<1>0. TypeOK /\ TypeOK' /\ TaskInv
  BY DEF AlbumInv, TaskInv
<1>1. /\ routing \in 1..Len(seen) /\ routing \in Number /\ routing = Len(seen) /\ UNCHANGED seen
      /\ prompt_of[routing] = NoMessage /\ forwards[routing] = {} /\ From(routing) \in Sender
      /\ routing \notin Dispatched /\ routing \notin PendingNow
  BY <1>0, RoutedMessage
<1>2. Here \subseteq 1..Len(seen) /\ 1..Len(seen) \subseteq Number /\ Attached \subseteq 1..Len(seen)
  BY HereAreMessages
<1>3. ASSUME NEW f \in Attached
      PROVE  DroppedByNew(f)' \/ \E q \in Here : f \in forwards[q] /\ From(q) = From(f)
  BY <1>2, StillDropped DEF ForwardsFollowPrompts, Here, DroppedByNew
<1>4. CASE NoPrompt
  BY <1>0, <1>4, ForwardsFrame DEF NoPrompt, coalescer, Here, PendingNow, Dispatched
<1>5. CASE Bypass
  <2>1. UNCHANGED <<pending, forwards, prompt_of, seen>> /\ runs' = Append(runs, routing)
    BY <1>5 DEF Bypass, coalescer
  <2>2. \A p : p \in Here' <=> p \in Here \/ p = routing
    <3>1. runs \in Seq(1..Len(seen))
      BY <1>0 DEF TypeOK
    <3> QED
      BY <1>1, <2>1, <3>1 DEF Here, PendingNow, Dispatched, Range
  <2>3. \A f \in Attached' : f \in Attached
    BY <2>1 DEF Attached, Kind
  <2>4. \A p, q \in Here' : p # q => forwards'[p] \cap forwards'[q] = {}
    BY <1>1, <2>1, <2>2 DEF ForwardsFollowPrompts, Here
  <2> QED
    BY <1>1, <1>2, <1>3, <2>1, <2>2, <2>3, <2>4, ForwardsStep DEF From
<1>6. CASE Schedule
  <2> DEFINE p == pending[From(routing)]
  <2>1. /\ \A t \in Sender : pending'[t] = IF t = From(routing) THEN routing ELSE pending[t]
        /\ \A m \in Number : prompt_of'[m] = IF m = routing THEN routing ELSE prompt_of[m]
        /\ \A m \in Number : forwards'[m] = IF m = routing /\ p # NoMessage THEN forwards[p] ELSE forwards[m]
        /\ UNCHANGED Dispatched /\ Kind(routing) = "text"
    BY <1>0, <1>1, <1>6 DEF Schedule, TypeOK, Dispatched, Kind
  <2>2. p # NoMessage => p \in Number /\ p # routing /\ From(p) = From(routing) /\ p \in PendingNow /\ p \notin Dispatched
    BY <1>0, <1>1, PendingPrompts DEF PromptsAccountedFor
  <2> HIDE DEF p
  <2>3. \A q : q \in Here' <=> q = routing \/ (q \in Here /\ ~(q = p /\ p # NoMessage))
    <3>1. \A q : q \in PendingNow' <=> q = routing \/ (q \in PendingNow /\ ~(q = p /\ p # NoMessage))
      BY <1>0, <1>1, <2>1, <2>2, PendingPrompts, PendingNext DEF p, NoMessage
    <3> QED
      BY <2>1, <2>2, <3>1 DEF Here
  <2>4. \A f \in Attached' : f \in Attached
    BY <1>1, <1>2, <2>1 DEF Attached, Kind
  <2>5. ASSUME NEW f \in Attached'
        PROVE  DroppedByNew(f)' \/ \E q \in Here' : f \in forwards'[q] /\ seen'[q].from = seen'[f].from
    <3>1. CASE \E q \in Here : f \in forwards[q] /\ From(q) = From(f)
      <4>1. PICK q \in Here : f \in forwards[q] /\ From(q) = From(f)
        BY <3>1
      <4>2. CASE q = p /\ p # NoMessage
        BY <1>1, <2>1, <2>2, <2>3, <4>1, <4>2 DEF From
      <4>3. CASE ~(q = p /\ p # NoMessage)
        <5>1. q # routing /\ q \in Number
          BY <1>1, <1>2, <4>1
        <5> QED
          BY <1>1, <2>1, <2>3, <4>1, <4>3, <5>1 DEF From
      <4> QED
        BY <4>2, <4>3
    <3> QED
      BY <1>3, <2>4, <2>5, <3>1
  <2>6. ASSUME NEW q \in Here', NEW r \in Here', q # r PROVE forwards'[q] \cap forwards'[r] = {}
    <3>1. \A m, o \in Here : m # o => forwards[m] \cap forwards[o] = {}
      BY DEF ForwardsFollowPrompts, Here
    <3>2. \A m \in Here' : forwards'[m] = IF m = routing /\ p # NoMessage THEN forwards[p] ELSE forwards[m]
      BY <1>1, <1>2, <2>1, <2>3
    <3>3. p # NoMessage => p \in Here
      BY <2>2 DEF Here
    <3> QED
      BY <1>1, <2>3, <2>6, <3>1, <3>2, <3>3
  <2> QED
    BY <1>1, <1>2, <2>4, <2>5, <2>6, ForwardsStep
<1>7. CASE New
  <2>1. /\ \A t \in Sender : pending'[t] = IF t = From(routing) THEN NoMessage ELSE pending[t]
        /\ UNCHANGED <<forwards, prompt_of>> /\ UNCHANGED Dispatched /\ Kind(routing) = "new"
    BY <1>0, <1>1, <1>7 DEF New, TypeOK, Dispatched, Kind
  <2>2. \A q : q \in Here' => q \in Here
    BY <1>0, <2>1, PendingPrompts, PendingNext DEF Here
  <2>3. \A q : q \in Here => q \in Here' \/ From(q) = From(routing)
    BY <1>0, <2>1, PendingPrompts, PendingNext DEF Here
  <2>4. \A f \in Attached' : f \in Attached
    BY <1>1, <2>1 DEF Attached, Kind
  <2>5. ASSUME NEW f \in Attached', NEW q \in Here, f \in forwards[q], From(q) = From(f)
        PROVE  DroppedByNew(f)' \/ \E r \in Here' : f \in forwards'[r] /\ seen'[r].from = seen'[f].from
    <3>1. CASE q \in Here'
      BY <1>1, <2>1, <2>5, <3>1 DEF From
    <3>2. CASE From(f) = From(routing)
      <4>1. f \in 1..Len(seen) /\ Kind(f) = "forward"
        BY <1>2, <2>4, <2>5 DEF Attached
      <4>2. routing > f
        BY <1>1, <2>1, <4>1
      <4> QED
        BY <1>1, <2>1, <3>2, <4>2 DEF DroppedByNew, Kind, From
    <3> QED
      BY <2>3, <2>5, <3>1, <3>2
  <2>6. \A q, r \in Here' : q # r => forwards'[q] \cap forwards'[r] = {}
    BY <2>1, <2>2 DEF ForwardsFollowPrompts, Here
  <2> QED
    BY <1>1, <1>2, <1>3, <2>4, <2>5, <2>6, ForwardsStep
<1> QED
  BY <1>4, <1>5, <1>6, <1>7 DEF RouteEnds

\* A forward goes with one prompt of its sender, through all the replacements of that
\* prompt, unless a /new drops it (loop.py 540-550, 565-613).
THEOREM ForwardsFollowTheirPrompts == Spec => []ForwardsFollowPrompts
<1>1. Init => ForwardsFollowPrompts
  <2> SUFFICES ASSUME Init PROVE ForwardsFollowPrompts
    OBVIOUS
  <2>1. Dispatched = {} /\ PendingNow = {} /\ Attached = {}
    BY DEF Init, Dispatched, PendingNow, Attached, Range
  <2> QED
    BY <2>1 DEF ForwardsFollowPrompts
<1>2. ASSUME AlbumInv, AlbumInv', PromptsAccountedFor, ForwardsFollowPrompts, [Next]_vars
      PROVE  ForwardsFollowPrompts'
  <2>0. Grows
    BY <1>2, AlwaysGrows
  <2>1. ASSUME UNCHANGED <<pending, runs, forwards, prompt_of>> PROVE ForwardsFollowPrompts'
    BY <1>2, <2>0, <2>1, ForwardsFrame DEF Here, PendingNow, Dispatched
  <2>2. ASSUME NEW d \in Number, DebounceEnds(d) PROVE ForwardsFollowPrompts'
    <3>1. UNCHANGED <<forwards, prompt_of>>
      BY <2>2 DEF DebounceEnds
    <3>2. \A p : p \in Here <=> p \in Here'
      BY <1>2, <2>2, DebounceEffect DEF Here, PendingNow, Dispatched
    <3> QED
      BY <1>2, <2>0, <3>1, <3>2, ForwardsFrame
  <2>3. ASSUME NEW n \in Number, DebounceStarts(n) \/ Flush(n) PROVE ForwardsFollowPrompts'
    BY <2>1, <2>3 DEF DebounceStarts, Flush, FlushStarts, FlushAgain, FlushTakes, FlushEnds, coalescer
  <2>4. ASSUME NEW s \in Sender, IgnoreForward(s) \/ (\E kind \in {"text", "new"} : RouteBegins(kind, s))
        PROVE  ForwardsFollowPrompts'
    BY <2>1, <2>4 DEF IgnoreForward, RouteBegins, coalescer
  <2>5. ASSUME NEW a \in Album, AddItem(a) PROVE ForwardsFollowPrompts'
    BY <2>1, <2>5 DEF AddItem, coalescer
  <2>6. CASE UNCHANGED vars
    BY <2>1, <2>6 DEF vars, coalescer
  <2> QED
    BY <1>2, <2>0, <2>2, <2>3, <2>4, <2>5, <2>6, ForwardsAttach, ForwardsRoute DEF Next, Debounce
<1> QED
  BY <1>1, <1>2, AlbumInvariance, PromptsInvariance, PTL DEF Spec

----------------------------------------------------------------------------
(***************************************************************************)
(* The configuration file.  EditsSurvive is about what is written over     *)
(* what; it is inductive once it is known of every process that is about   *)
(* to write the file that what it read is what is there, if the file has   *)
(* not been written since.                                                 *)
(***************************************************************************)
Kinds == {"missing", "malformed", "good"}
EditPcs == {"asked", "done", "empty", "migrate", "write", "load", "loaded", "ensure", "registered"}
BotPcs == {"off", "down", "start", "reload", "migrate", "load", "callback", "built", "subscribing",
           "unwatched", "idle"}

EditRecord ==
  [asks : Requests \cup {[kind |-> "hand"]}, pc : EditPcs, then : {"done", "write", "load"},
   seen : [Key -> Value], read : Nat]

FileTypeOK ==
  /\ file \in [kind : Kinds, settings : [Key -> Value], legacy : BOOLEAN, stamp : Nat]
  /\ said \in [Key -> SUBSET Value]
  /\ edits \in Seq(EditRecord)

BotTypeOK ==
  /\ bot \in [pc : BotPcs, watching : BOOLEAN, override : EngineId \cup {None}, signature : Nat,
              current : Nat, seen : [Key -> Value], read : Nat]
  /\ runtime \in [Key -> Value]

UpToDate(read, old) ==
  /\ read <= file.stamp
  /\ read = file.stamp => file.kind = "good" /\ old = file.settings

WritersInv ==
  \A i \in DOMAIN edits :
    edits[i].pc \in {"migrate", "write"} => UpToDate(edits[i].read, edits[i].seen)

MigrationInv == bot.pc = "migrate" => UpToDate(bot.read, bot.seen)

FileInv == FileTypeOK /\ BotTypeOK /\ WritersInv /\ MigrationInv /\ EditsSurvive

\* What is written over a file that was not written since it was read undoes nothing.
LEMMA WriteKeeps ==
  ASSUME FileTypeOK, EditsSurvive, NEW s \in [Key -> Value], NEW keys,
         NEW old, NEW read \in Nat, UpToDate(read, old),
         \A k \in Key : k \notin keys => s[k] = old[k],
         WriteConfig(s, keys, read)
  PROVE  /\ file' \in [kind : Kinds, settings : [Key -> Value], legacy : BOOLEAN, stamp : Nat]
         /\ said' \in [Key -> SUBSET Value]
         /\ file'.stamp = file.stamp + 1 /\ file'.kind = "good" /\ file'.settings = s
         /\ EditsSurvive'
<1>1. file' = [kind |-> "good", settings |-> s, legacy |-> FALSE, stamp |-> file.stamp + 1]
  BY DEF WriteConfig, File
<1>2. file.stamp \in Nat /\ said \in [Key -> SUBSET Value]
  BY DEF FileTypeOK
<1>3. file' \in [kind : Kinds, settings : [Key -> Value], legacy : BOOLEAN, stamp : Nat]
  BY <1>1, <1>2 DEF Kinds
<1>4. \A k \in Key : s[k] \in Value
  OBVIOUS
<1>5. said' = [k \in Key |-> CASE k \in keys -> {s[k]}
                              [] k \notin keys /\ file.stamp # read -> said[k] \cup {s[k]}
                              [] OTHER -> said[k]]
  BY DEF WriteConfig
<1>6. \A k \in Key : said'[k] = IF k \in keys THEN {s[k]}
                                ELSE IF file.stamp # read THEN said[k] \cup {s[k]} ELSE said[k]
  BY <1>5
<1>7. said' \in [Key -> SUBSET Value]
  BY <1>2, <1>4, <1>5
<1>8. ASSUME NEW k \in Key PROVE s[k] \in said'[k]
  BY <1>6, <1>8 DEF UpToDate, EditsSurvive
<1> QED
  BY <1>1, <1>3, <1>7, <1>8 DEF EditsSurvive

\* Once the file is written again, what was read before is not up to date, nor newer.
LEMMA WriteOutdates ==
  ASSUME FileTypeOK, file'.stamp = file.stamp + 1, NEW read \in Nat, NEW old, UpToDate(read, old)
  PROVE  UpToDate(read, old)'
BY DEF UpToDate, FileTypeOK

\* The commands that wait while the file is written, or left as it is.
LEMMA OthersWait ==
  ASSUME FileInv, NEW i \in DOMAIN edits, NEW e \in EditRecord, edits' = [edits EXCEPT ![i] = e],
         file' = file \/ file'.stamp = file.stamp + 1,
         e.pc \in {"migrate", "write"} => UpToDate(e.read, e.seen)'
  PROVE  edits' \in Seq(EditRecord) /\ WritersInv'
<1>1. edits \in Seq(EditRecord) /\ DOMAIN edits = 1..Len(edits)
  BY DEF FileInv, FileTypeOK
<1>2. edits' \in Seq(EditRecord) /\ DOMAIN edits' = DOMAIN edits
  BY <1>1
<1>3. \A j \in DOMAIN edits : edits'[j] = (IF j = i THEN e ELSE edits[j]) /\ edits[j] \in EditRecord
  BY <1>1
<1>4. ASSUME NEW j \in DOMAIN edits, NEW f, f = edits'[j], f.pc \in {"migrate", "write"}
      PROVE  UpToDate(f.read, f.seen)'
  <2>1. CASE j = i
    BY <1>3, <1>4, <2>1
  <2>2. CASE j # i
    <3>1. f = edits[j] /\ UpToDate(f.read, f.seen) /\ f.read \in Nat
      BY <1>3, <1>4, <2>2 DEF FileInv, WritersInv, EditRecord
    <3>2. CASE file' = file
      BY <3>1, <3>2 DEF UpToDate
    <3>3. CASE file'.stamp = file.stamp + 1
      BY <3>1, <3>3, WriteOutdates DEF FileInv
    <3> QED
      BY <3>2, <3>3
  <2> QED
    BY <2>1, <2>2
<1> QED
  BY <1>2, <1>4 DEF WritersInv, UpToDate

\* A bot that migrates waits like a command.
LEMMA BotWaits ==
  ASSUME FileInv, bot' = bot, file' = file \/ file'.stamp = file.stamp + 1
  PROVE  MigrationInv'
<1>1. bot.read \in Nat
  BY DEF FileInv, BotTypeOK
<1>2. \A read \in Nat : \A old : UpToDate(read, old) => UpToDate(read, old)'
  BY WriteOutdates DEF UpToDate, FileInv
<1>3. CASE bot.pc = "migrate"
  <2>1. UpToDate(bot.read, bot.seen)
    BY <1>3 DEF FileInv, MigrationInv
  <2>2. \A read, old : read = bot.read /\ old = bot.seen => UpToDate(read, old)'
    BY <1>1, <1>2, <2>1
  <2> QED
    BY <1>1, <2>2 DEF MigrationInv, UpToDate
<1> QED
  BY <1>3 DEF MigrationInv

LEMMA UnreadTyped == Unread \in [Key -> Value]
BY DEF Unread, Value

LEMMA FileInitial == RoutingInit => FileInv
<1> SUFFICES ASSUME RoutingInit PROVE FileInv
  OBVIOUS
<1>1. /\ file = [kind |-> "good", settings |-> Settings, legacy |-> FALSE, stamp |-> 0]
      /\ edits = <<>> /\ said = [k \in Key |-> {Settings[k]}]
      /\ bot = BotOff /\ runtime = Settings
  BY DEF RoutingInit, FileInit, BotInit, File
<1>2. Settings \in [Key -> Value] /\ \A k \in Key : Settings[k] \in Value
  BY SettingsAssumption
<1>3. FileTypeOK
  BY <1>1, <1>2 DEF FileTypeOK, Kinds
<1>4. BotTypeOK
  BY <1>1, <1>2, UnreadTyped DEF BotTypeOK, BotOff, BotPcs
<1>5. WritersInv /\ MigrationInv
  BY <1>1 DEF WritersInv, MigrationInv, BotOff
<1>6. EditsSurvive
  BY <1>1 DEF EditsSurvive
<1> QED
  BY <1>3, <1>4, <1>5, <1>6 DEF FileInv

----------------------------------------------------------------------------
\* What an edit leaves behind.
EditKeepsFile ==
  FileTypeOK' /\ WritersInv' /\ EditsSurvive' /\ (file' = file \/ file'.stamp = file.stamp + 1)

LEMMA EditTyped ==
  ASSUME FileInv, NEW i \in DOMAIN edits
  PROVE  /\ edits[i] \in EditRecord /\ edits[i].read \in Nat /\ edits[i].seen \in [Key -> Value]
         /\ edits[i].pc \in EditPcs /\ edits[i].then \in {"done", "write", "load"}
         /\ edits[i].asks \in Requests \cup {[kind |-> "hand"]}
         /\ file.stamp \in Nat /\ file.settings \in [Key -> Value] /\ file.kind \in Kinds
<1>1. edits \in Seq(EditRecord) /\ DOMAIN edits = 1..Len(edits)
  BY DEF FileInv, FileTypeOK
<1>2. file \in [kind : Kinds, settings : [Key -> Value], legacy : BOOLEAN, stamp : Nat]
  BY DEF FileInv, FileTypeOK
<1>3. edits[i] \in EditRecord
  BY <1>1
<1>4. ASSUME NEW e \in EditRecord
      PROVE  /\ e.read \in Nat /\ e.seen \in [Key -> Value]
             /\ e.pc \in EditPcs /\ e.then \in {"done", "write", "load"}
             /\ e.asks \in Requests \cup {[kind |-> "hand"]}
  BY DEF EditRecord
<1> QED
  BY <1>2, <1>3, <1>4

\* A command with a request, and what it may write.
LEMMA RequestTyped ==
  ASSUME FileInv, NEW i \in DOMAIN edits, NEW kinds, NEW pc, At(i, kinds, pc), "hand" \notin kinds
  PROVE  Asks(i) \in Requests /\ Asks(i).key \in Key /\ Asks(i).value \in Value /\ edits[i].pc = pc
         /\ ("set" \notin kinds => Asks(i).key \in Project)
<1>1. Asks(i) \in Requests \cup {[kind |-> "hand"]} /\ Asks(i).kind \in kinds
  BY EditTyped DEF Asks, At
<1>2. Asks(i) \in Requests
  BY <1>1
<1> QED
  BY <1>1, <1>2, EditsAssumption DEF At

\* A command that goes on is typed, and keeps what it has read if it goes on to write.
LEMMA ProceedTyped ==
  ASSUME NEW e \in EditRecord, NEW pc \in EditPcs
  PROVE  /\ Proceeds(e, pc) \in EditRecord /\ Proceeds(e, pc).pc = pc
         /\ pc # "done" => Proceeds(e, pc).read = e.read /\ Proceeds(e, pc).seen = e.seen
<1>1. CASE pc = "done"
  BY <1>1, UnreadTyped DEF Proceeds, EditRecord, EditPcs
<1>2. CASE pc # "done"
  BY <1>2 DEF Proceeds, EditRecord
<1> QED
  BY <1>1, <1>2

LEMMA ReadKeeps ==
  ASSUME FileInv, NEW i \in DOMAIN edits, NEW kinds, NEW from, NEW to \in {"write", "load", "done"},
         ReadConfig(i, kinds, from, to)
  PROVE  EditKeepsFile
<1> DEFINE pc == CASE file.kind = "missing" /\ from = "ensure" -> "empty"
                   [] file.kind # "good" /\ ~(file.kind = "missing" /\ from = "ensure") -> "done"
                   [] file.kind = "good" /\ file.legacy /\ Asks(i).kind # "set" -> "migrate"
                   [] OTHER -> to
           d == [edits[i] EXCEPT !.seen = file.settings, !.read = file.stamp, !.then = to]
           e == Proceeds(d, pc)
<1>1. edits' = [edits EXCEPT ![i] = e] /\ UNCHANGED <<file, said>>
  BY EditTyped DEF ReadConfig, FileInv, FileTypeOK
<1>2. pc \in EditPcs /\ (pc \in {"migrate", "write"} => file.kind = "good")
  BY DEF EditPcs
<1> HIDE DEF pc
<1>3. d \in EditRecord /\ d.read = file.stamp /\ d.seen = file.settings
  BY EditTyped DEF EditRecord
<1> HIDE DEF d
<1>4. /\ e \in EditRecord /\ e.pc = pc
      /\ pc # "done" => e.read = file.stamp /\ e.seen = file.settings
  BY <1>2, <1>3, ProceedTyped
<1> HIDE DEF e
<1>5. ASSUME NEW f, f = e, f.pc \in {"migrate", "write"} PROVE UpToDate(f.read, f.seen)'
  BY <1>1, <1>2, <1>4, <1>5, EditTyped DEF UpToDate
<1>6. PICK f \in EditRecord : f = e
  BY <1>4
<1>7. edits' = [edits EXCEPT ![i] = f] /\ (f.pc \in {"migrate", "write"} => UpToDate(f.read, f.seen)')
  BY <1>1, <1>5, <1>6
<1>8. edits' \in Seq(EditRecord) /\ WritersInv'
  BY <1>1, <1>7, OthersWait
<1> QED
  BY <1>1, <1>8 DEF EditKeepsFile, FileInv, FileTypeOK, EditsSurvive

\* A command that goes on to do no writing waits like the others.
LEMMA GoesOn ==
  ASSUME FileInv, NEW i \in DOMAIN edits, NEW pc \in {"done", "ensure", "registered"}, Goes(i, pc),
         file' = file \/ file'.stamp = file.stamp + 1
  PROVE  edits' \in Seq(EditRecord) /\ WritersInv'
<1> DEFINE e == Proceeds(edits[i], pc)
<1>1. edits' = [edits EXCEPT ![i] = e]
  BY EditTyped DEF Goes, FileInv, FileTypeOK
<1>2. e \in EditRecord /\ e.pc = pc
  BY EditTyped, ProceedTyped DEF EditPcs
<1> HIDE DEF e
<1>3. PICK f \in EditRecord : f = e
  BY <1>2
<1>4. edits' = [edits EXCEPT ![i] = f] /\ f.pc \notin {"migrate", "write"}
  BY <1>1, <1>2, <1>3
<1> QED
  BY <1>4, OthersWait

\* A step that writes nothing and does not begin to write.
LEMMA GoesKeeps ==
  ASSUME FileInv, NEW i \in DOMAIN edits, NEW pc \in {"done", "ensure", "registered"}, Goes(i, pc),
         UNCHANGED <<file, said>>
  PROVE  EditKeepsFile
<1>1. edits' \in Seq(EditRecord) /\ WritersInv'
  BY GoesOn
<1> QED
  BY <1>1 DEF EditKeepsFile, FileInv, FileTypeOK, EditsSurvive

\* A command writes s, in which only keys differ from what it has read.
LEMMA CommandWrites ==
  ASSUME FileInv, NEW i \in DOMAIN edits, edits[i].pc = "write",
         NEW pc \in {"done", "registered"}, Goes(i, pc),
         NEW s \in [Key -> Value], NEW keys, WriteConfig(s, keys, edits[i].read),
         \A k \in Key : k \notin keys => s[k] = edits[i].seen[k]
  PROVE  EditKeepsFile
<1>1. /\ file' \in [kind : Kinds, settings : [Key -> Value], legacy : BOOLEAN, stamp : Nat]
      /\ said' \in [Key -> SUBSET Value]
      /\ file'.stamp = file.stamp + 1 /\ EditsSurvive'
  <2>1. UpToDate(edits[i].read, edits[i].seen) /\ edits[i].read \in Nat
    BY EditTyped DEF FileInv, WritersInv
  <2> QED
    BY <2>1, WriteKeeps DEF FileInv
<1>2. edits' \in Seq(EditRecord) /\ WritersInv'
  BY <1>1, GoesOn
<1> QED
  BY <1>1, <1>2 DEF EditKeepsFile, FileTypeOK

LEMMA MigratedKeeps ==
  ASSUME FileInv, NEW i \in DOMAIN edits, WriteMigrated(i)
  PROVE  EditKeepsFile
<1> DEFINE d == [edits[i] EXCEPT !.read = file.stamp + 1]
           e == Proceeds(d, edits[i].then)
<1>1. /\ edits[i].pc = "migrate" /\ WriteConfig(edits[i].seen, {}, edits[i].read)
      /\ edits' = [edits EXCEPT ![i] = e]
  BY EditTyped DEF WriteMigrated, FileInv, FileTypeOK
<1>2. UpToDate(edits[i].read, edits[i].seen)
  BY <1>1 DEF FileInv, WritersInv
<1>3. /\ file' \in [kind : Kinds, settings : [Key -> Value], legacy : BOOLEAN, stamp : Nat]
      /\ said' \in [Key -> SUBSET Value]
      /\ file'.stamp = file.stamp + 1 /\ file'.kind = "good" /\ file'.settings = edits[i].seen
      /\ EditsSurvive'
  BY <1>1, <1>2, EditTyped, WriteKeeps DEF FileInv
<1>4. d \in EditRecord /\ d.read = file.stamp + 1 /\ d.seen = edits[i].seen
  BY EditTyped DEF EditRecord
<1>5. file.stamp + 1 \in Nat /\ edits[i].then \in EditPcs
  BY EditTyped DEF EditPcs
<1> HIDE DEF d
<1>6. /\ e \in EditRecord /\ e.pc = edits[i].then
      /\ e.pc # "done" => e.read = file.stamp + 1 /\ e.seen = edits[i].seen
  BY <1>4, <1>5, ProceedTyped
<1> HIDE DEF e
<1>7. PICK f \in EditRecord : f = e
  BY <1>6
<1>8. /\ edits' = [edits EXCEPT ![i] = f]
      /\ f.pc # "done" => f.read = file.stamp + 1 /\ f.seen = edits[i].seen
  BY <1>1, <1>6, <1>7
<1>9. f.pc \in {"migrate", "write"} => UpToDate(f.read, f.seen)'
  BY <1>3, <1>5, <1>8 DEF UpToDate
<1>10. edits' \in Seq(EditRecord) /\ WritersInv'
  BY <1>3, <1>8, <1>9, OthersWait
<1> QED
  BY <1>3, <1>10 DEF EditKeepsFile, FileTypeOK

LEMMA ReadingKeeps ==
  ASSUME FileInv, NEW i \in DOMAIN edits, Reading(i)
  PROVE  EditKeepsFile
<1>1. CASE \/ ReadConfig(i, {"set", "init"}, "asked", "write")
           \/ ReadConfig(i, {"topic", "handoff"}, "asked", "load")
           \/ ReadConfig(i, {"topic"}, "registered", "done") \/ ReadAgain(i)
  BY <1>1, ReadKeeps DEF ReadAgain
<1>2. CASE RunTopic(i)
  BY <1>2, GoesKeeps DEF RunTopic
<1>3. CASE RunHandoff(i)
  BY <1>3, GoesKeeps DEF RunHandoff
<1>4. CASE LoadSettings(i)
  <2> DEFINE pc == IF file.kind = "good" /\ ~file.legacy THEN "loaded" ELSE "done"
             d == [edits[i] EXCEPT !.seen = file.settings, !.read = file.stamp]
             e == Proceeds(d, pc)
  <2>1. edits' = [edits EXCEPT ![i] = e] /\ UNCHANGED <<file, said>>
    BY <1>4, EditTyped DEF LoadSettings, FileInv, FileTypeOK
  <2>2. d \in EditRecord
    BY EditTyped DEF EditRecord
  <2>3. pc \in EditPcs /\ pc \in {"loaded", "done"}
    BY DEF EditPcs
  <2> HIDE DEF d, pc
  <2>4. e \in EditRecord /\ e.pc \notin {"migrate", "write"}
    BY <2>2, <2>3, ProceedTyped
  <2> HIDE DEF e
  <2>5. PICK f \in EditRecord : f = e
    BY <2>4
  <2>6. edits' = [edits EXCEPT ![i] = f] /\ f.pc \notin {"migrate", "write"}
    BY <2>1, <2>4, <2>5
  <2>7. edits' \in Seq(EditRecord) /\ WritersInv'
    BY <2>1, <2>6, OthersWait
  <2> QED
    BY <2>1, <2>7 DEF EditKeepsFile, FileInv, FileTypeOK, EditsSurvive
<1> QED
  BY <1>1, <1>2, <1>3, <1>4 DEF Reading

LEMMA WritingKeeps ==
  ASSUME FileInv, NEW i \in DOMAIN edits, Writing(i)
  PROVE  EditKeepsFile
<1>0. edits[i].seen \in [Key -> Value] /\ None \in Value
  BY EditTyped DEF Value
<1>1. ASSUME NEW p \in Project, NEW v \in Value, edits[i].pc = "write",
             NEW pc \in {"done", "registered"}, Goes(i, pc),
             WriteConfig([edits[i].seen EXCEPT ![p] = v], {p}, edits[i].read)
      PROVE  EditKeepsFile
  <2>1. [edits[i].seen EXCEPT ![p] = v] \in [Key -> Value]
    BY <1>0, <1>1
  <2>2. \A k \in Key : k \notin {p} => [edits[i].seen EXCEPT ![p] = v][k] = edits[i].seen[k]
    BY <1>0
  <2> QED
    BY <1>1, <2>1, <2>2, CommandWrites
<1>2. CASE WriteMigrated(i)
  BY <1>2, MigratedKeeps
<1>3. CASE ConfigSet(i)
  <2>1. At(i, {"set"}, "write") /\ Goes(i, "done") /\ edits[i].pc = "write"
    BY <1>3 DEF ConfigSet, At
  <2>2. Asks(i).key \in Key /\ Asks(i).value \in Value
    BY <2>1, RequestTyped
  <2>3. CASE UNCHANGED <<file, said>>
    BY <2>1, <2>3, GoesKeeps
  <2>4. CASE WriteConfig([edits[i].seen EXCEPT ![Asks(i).key] = Asks(i).value], {Asks(i).key}, edits[i].read)
    <3>1. [edits[i].seen EXCEPT ![Asks(i).key] = Asks(i).value] \in [Key -> Value]
      BY <1>0, <2>2
    <3>2. \A k \in Key : k \notin {Asks(i).key} =>
            [edits[i].seen EXCEPT ![Asks(i).key] = Asks(i).value][k] = edits[i].seen[k]
      BY <1>0
    <3> QED
      BY <2>1, <2>4, <3>1, <3>2, CommandWrites
  <2> QED
    BY <1>3, <2>3, <2>4 DEF ConfigSet
<1>4. CASE RunInit(i)
  <2> DEFINE p == Asks(i).key
             s == edits[i].seen
  <2>1. At(i, {"init"}, "write") /\ Goes(i, "done") /\ edits[i].pc = "write"
    BY <1>4 DEF RunInit, At
  <2>2. p \in Project /\ p \in Key
    BY <2>1, RequestTyped
  <2>3. s["default_engine"] \in Value /\ p \in Value
    BY <1>0, <2>2 DEF Key, Value
  <2>4. CASE UNCHANGED <<file, said>>
    BY <2>1, <2>4, GoesKeeps
  <2>5. CASE WriteConfig([s EXCEPT ![p] = s["default_engine"]], {p}, edits[i].read)
    BY <1>1, <2>1, <2>2, <2>3, <2>5
  <2>6. CASE WriteConfig([s EXCEPT ![p] = s["default_engine"], !["default_project"] = p],
                         {p, "default_project"}, edits[i].read)
    <3> DEFINE new == [s EXCEPT ![p] = s["default_engine"], !["default_project"] = p]
    <3>1. new \in [Key -> Value] /\ \A k \in Key : k \notin {p, "default_project"} => new[k] = s[k]
      BY <1>0, <2>3
    <3> HIDE DEF new
    <3>2. WriteConfig(new, {p, "default_project"}, edits[i].read)
      BY <2>6 DEF new
    <3> QED
      BY <2>1, <3>1, <3>2, CommandWrites
  <2> QED
    BY <1>4, <2>4, <2>5, <2>6 DEF RunInit
<1>5. CASE EnsureProject(i)
  <2>1. At(i, {"topic"}, "write") /\ Goes(i, "registered") /\ edits[i].pc = "write"
    BY <1>5 DEF EnsureProject, At
  <2>2. Asks(i).key \in Project
    BY <2>1, RequestTyped
  <2>3. \/ UNCHANGED <<file, said>>
        \/ WriteConfig([edits[i].seen EXCEPT ![Asks(i).key] = None], {Asks(i).key}, edits[i].read)
    BY <1>5 DEF EnsureProject
  <2> QED
    BY <1>0, <1>1, <2>1, <2>2, <2>3, GoesKeeps
<1>6. CASE EnsureHandoff(i)
  <2>1. At(i, {"handoff"}, "write") /\ Goes(i, "done") /\ edits[i].pc = "write"
    BY <1>6 DEF EnsureHandoff, At
  <2>2. Asks(i).key \in Project
    BY <2>1, RequestTyped
  <2>3. \/ UNCHANGED <<file, said>>
        \/ WriteConfig([edits[i].seen EXCEPT ![Asks(i).key] = None], {Asks(i).key}, edits[i].read)
    BY <1>6 DEF EnsureHandoff
  <2> QED
    BY <1>0, <1>1, <2>1, <2>2, <2>3, GoesKeeps
<1>7. CASE EnsureInNothing(i)
  <2>1. /\ Goes(i, "done") /\ said' = said
        /\ file' = [kind |-> "malformed", settings |-> edits[i].seen, legacy |-> FALSE, stamp |-> file.stamp + 1]
    BY <1>7 DEF EnsureInNothing, File
  <2>2. file'.stamp = file.stamp + 1
    BY <2>1
  <2>3. edits' \in Seq(EditRecord) /\ WritersInv'
    BY <2>1, <2>2, GoesOn
  <2>4. FileTypeOK'
    BY <1>0, <2>1, <2>3 DEF FileInv, FileTypeOK, Kinds
  <2> QED
    BY <2>1, <2>2, <2>3, <2>4 DEF EditKeepsFile, EditsSurvive
<1> QED
  BY <1>2, <1>3, <1>4, <1>5, <1>6, <1>7 DEF Writing

LEMMA EditKeeps == FileInv /\ EditNext => EditKeepsFile
<1> SUFFICES ASSUME FileInv, EditNext PROVE EditKeepsFile
  OBVIOUS
<1>0. FileTypeOK /\ WritersInv /\ EditsSurvive /\ edits \in Seq(EditRecord) /\ file.stamp \in Nat
  BY DEF FileInv, FileTypeOK
<1>1. ASSUME NEW e \in EditRecord, e.pc \notin {"migrate", "write"}, edits' = Append(edits, e),
             file' = file \/ file'.stamp = file.stamp + 1
      PROVE  edits' \in Seq(EditRecord) /\ WritersInv'
  <2>1. /\ edits' \in Seq(EditRecord) /\ DOMAIN edits' = 1..(Len(edits) + 1) /\ Len(edits) \in Nat
        /\ \A j \in DOMAIN edits' : (j \in DOMAIN edits /\ edits'[j] = edits[j]) \/ edits'[j] = e
    BY <1>0, <1>1
  <2>2. ASSUME NEW j \in DOMAIN edits', NEW f, f = edits'[j], f.pc \in {"migrate", "write"}
        PROVE  UpToDate(f.read, f.seen)'
    <3>1. j \in DOMAIN edits /\ f = edits[j]
      BY <1>1, <2>1, <2>2
    <3>2. UpToDate(f.read, f.seen) /\ f.read \in Nat
      BY <1>0, <2>2, <3>1, EditTyped DEF WritersInv
    <3> QED
      BY <1>0, <1>1, <3>2, WriteOutdates DEF UpToDate
  <2> QED
    BY <2>1, <2>2 DEF WritersInv, UpToDate
<1>2. ASSUME NEW r \in Requests, AskEdit(r) PROVE EditKeepsFile
  <2>1. /\ edits' = Append(edits, Edit(r)) /\ UNCHANGED <<file, said>>
    BY <1>2 DEF AskEdit
  <2>2. Edit(r) \in EditRecord /\ Edit(r).pc = "asked"
    BY UnreadTyped DEF Edit, EditRecord, EditPcs
  <2>3. edits' \in Seq(EditRecord) /\ WritersInv'
    BY <1>1, <2>1, <2>2
  <2> QED
    BY <1>0, <2>1, <2>3 DEF EditKeepsFile, FileTypeOK, EditsSurvive
<1>3. ASSUME NEW f \in HandWritten, HandEdit(f) PROVE EditKeepsFile
  <2> DEFINE e == Proceeds(Edit([kind |-> "hand"]), "done")
  <2>1. /\ edits' = Append(edits, e) /\ said' = [k \in Key |-> {f.settings[k]}]
        /\ file' = [f EXCEPT !.stamp = file.stamp + 1]
    BY <1>3 DEF HandEdit
  <2>2. f \in [kind : Kinds, settings : [Key -> Value], legacy : BOOLEAN, stamp : {0}]
    BY EditsAssumption DEF Kinds
  <2>3. /\ file' \in [kind : Kinds, settings : [Key -> Value], legacy : BOOLEAN, stamp : Nat]
        /\ file'.stamp = file.stamp + 1 /\ file'.settings = f.settings
    BY <1>0, <2>1, <2>2, SMTT(30)
  <2>4. said' \in [Key -> SUBSET Value]
    BY <2>1, <2>2
  <2>5. e \in EditRecord /\ e.pc = "done"
    <3>1. Edit([kind |-> "hand"]) \in EditRecord
      BY UnreadTyped DEF Edit, EditRecord, EditPcs
    <3> QED
      BY <3>1, ProceedTyped DEF EditPcs
  <2> HIDE DEF e
  <2>6. edits' \in Seq(EditRecord) /\ WritersInv'
    BY <1>1, <2>1, <2>3, <2>5
  <2>7. EditsSurvive'
    BY <2>1, <2>3 DEF EditsSurvive
  <2> QED
    BY <2>3, <2>4, <2>6, <2>7 DEF EditKeepsFile, FileTypeOK
<1> QED
  BY <1>2, <1>3, ReadingKeeps, WritingKeeps DEF EditNext

----------------------------------------------------------------------------
\* A step of the bot that leaves the file alone.
LEMMA BotReads ==
  ASSUME FileInv, UNCHANGED fileVars, BotTypeOK', MigrationInv'
  PROVE  FileInv'
BY DEF FileInv, fileVars, FileTypeOK, WritersInv, UpToDate, EditsSurvive

LEMMA BotTyped ==
  ASSUME FileInv
  PROVE  /\ bot.pc \in BotPcs /\ bot.watching \in BOOLEAN /\ bot.signature \in Nat /\ bot.current \in Nat
         /\ bot.seen \in [Key -> Value] /\ bot.read \in Nat /\ runtime \in [Key -> Value]
         /\ file.stamp \in Nat /\ file.settings \in [Key -> Value] /\ file.kind \in Kinds
<1>1. /\ bot \in [pc : BotPcs, watching : BOOLEAN, override : EngineId \cup {None}, signature : Nat,
                  current : Nat, seen : [Key -> Value], read : Nat]
      /\ runtime \in [Key -> Value]
  BY DEF FileInv, BotTypeOK
<1>2. file \in [kind : Kinds, settings : [Key -> Value], legacy : BOOLEAN, stamp : Nat]
  BY DEF FileInv, FileTypeOK
<1> QED
  BY <1>1, <1>2

\* What is known of a bot in its new state, that is not migrating.
LEMMA BotGoesOn ==
  ASSUME NEW b \in [pc : BotPcs, watching : BOOLEAN, override : EngineId \cup {None}, signature : Nat,
                    current : Nat, seen : [Key -> Value], read : Nat],
         FileInv, UNCHANGED fileVars, bot' = b, b.pc # "migrate", runtime' \in [Key -> Value]
  PROVE  FileInv'
<1>1. BotTypeOK' /\ MigrationInv'
  BY DEF BotTypeOK, MigrationInv
<1> QED
  BY <1>1, BotReads

LEMMA MigrateKeeps ==
  ASSUME FileInv, Migrate
  PROVE  FileInv'
<1>1. /\ bot.pc = "migrate" /\ WriteConfig(bot.seen, {}, bot.read)
      /\ bot' = [bot EXCEPT !.pc = "load", !.seen = Unread, !.read = 0]
      /\ runtime' = runtime /\ edits' = edits
  BY DEF Migrate
<1>2. UpToDate(bot.read, bot.seen)
  BY <1>1 DEF FileInv, MigrationInv
<1>3. /\ file' \in [kind : Kinds, settings : [Key -> Value], legacy : BOOLEAN, stamp : Nat]
      /\ said' \in [Key -> SUBSET Value]
      /\ file'.stamp = file.stamp + 1 /\ EditsSurvive'
  BY <1>1, <1>2, BotTyped, WriteKeeps DEF FileInv
<1>4. FileTypeOK'
  BY <1>1, <1>3 DEF FileInv, FileTypeOK
<1>5. ASSUME NEW j \in DOMAIN edits, NEW f, f = edits[j], f.pc \in {"migrate", "write"}
      PROVE  UpToDate(f.read, f.seen)'
  <2>1. UpToDate(f.read, f.seen) /\ f.read \in Nat
    BY <1>5, EditTyped DEF FileInv, WritersInv
  <2> QED
    BY <1>3, <2>1, WriteOutdates DEF FileInv
<1>6. WritersInv'
  BY <1>1, <1>5 DEF WritersInv, UpToDate
<1>7. BotTypeOK' /\ bot'.pc = "load"
  BY <1>1, UnreadTyped DEF FileInv, BotTypeOK, BotPcs
<1> QED
  BY <1>3, <1>4, <1>6, <1>7 DEF FileInv, MigrationInv

LEMMA BotKeeps == FileInv /\ (BotStep \/ StartBot) => FileInv'
<1> DEFINE Bots == [pc : BotPcs, watching : BOOLEAN, override : EngineId \cup {None}, signature : Nat,
                    current : Nat, seen : [Key -> Value], read : Nat]
<1> SUFFICES ASSUME FileInv, BotStep \/ StartBot PROVE FileInv'
  OBVIOUS
<1>0. bot \in Bots /\ runtime \in [Key -> Value]
  BY DEF FileInv, BotTypeOK
<1>s. Stamp \in Nat /\ file.settings \in [Key -> Value] /\ file.stamp \in Nat
  BY BotTyped DEF Stamp
<1>1. CASE StartBot
  <2>1. PICK o \in Overrides : bot' = [BotOff EXCEPT !.pc = "start", !.override = o]
    BY <1>1 DEF StartBot
  <2>2. UNCHANGED fileVars /\ runtime' = runtime
    BY <1>1 DEF StartBot, fileVars
  <2>3. bot' \in Bots /\ bot'.pc = "start"
    BY <2>1, UnreadTyped, OverridesAssumption DEF BotOff, BotPcs
  <2> QED
    BY <1>0, <2>2, <2>3, BotReads DEF BotTypeOK, MigrationInv
<1>2. CASE LoadFails
  <2>1. UNCHANGED fileVars /\ runtime' = runtime
    BY <1>2 DEF LoadFails
  <2>2. bot' \in Bots /\ bot'.pc \in {"idle", "down"}
    BY <1>0, <1>2 DEF LoadFails, Fails, BotPcs
  <2> QED
    BY <1>0, <2>1, <2>2, BotReads DEF BotTypeOK, MigrationInv
<1>3. CASE ReadForMigration
  <2>1. /\ UNCHANGED fileVars /\ runtime' = runtime /\ file.kind = "good" /\ file' = file
        /\ \/ bot' = [bot EXCEPT !.pc = "migrate", !.seen = file.settings, !.read = file.stamp]
           \/ bot' = [bot EXCEPT !.pc = "load"]
    BY <1>3 DEF ReadForMigration, fileVars
  <2>2. bot' \in Bots
    BY <1>0, <1>s, <2>1 DEF BotPcs
  <2>3. bot'.pc = "migrate" => bot'.read = file.stamp /\ bot'.seen = file.settings
    BY <1>0, <2>1 DEF BotPcs
  <2>4. MigrationInv'
    BY <1>s, <2>1, <2>3 DEF MigrationInv, UpToDate
  <2> QED
    BY <1>0, <2>1, <2>2, <2>4, BotReads DEF BotTypeOK
<1>4. CASE Migrate
  BY <1>4, MigrateKeeps
<1>5. CASE Load
  <2>1. UNCHANGED fileVars /\ runtime' \in [Key -> Value]
    <3>1. bot.override \in Value
      BY <1>0, ConfigAssumption DEF Value
    <3>2. Overridden(file.settings) \in [Key -> Value]
      BY <1>s, <3>1 DEF Overridden
    <3> QED
      BY <1>5, <3>2 DEF Load
  <2>2. bot' \in Bots /\ bot'.pc \in {"callback", "built"}
    BY <1>0, <1>5 DEF Load, BotPcs
  <2> QED
    BY <1>s, <2>1, <2>2, BotReads DEF BotTypeOK, MigrationInv
<1>6. CASE WatchStarts
  <2>1. UNCHANGED fileVars /\ runtime' = runtime
    BY <1>6 DEF WatchStarts
  <2>2. bot' \in Bots /\ bot'.pc \in {"subscribing", "unwatched"}
    BY <1>0, <1>s, <1>6 DEF WatchStarts, BotPcs
  <2> QED
    BY <1>0, <2>1, <2>2, BotReads DEF BotTypeOK, MigrationInv
<1>7. CASE Subscribe
  <2>1. UNCHANGED fileVars /\ runtime' = runtime
    BY <1>7 DEF Subscribe
  <2>2. bot' \in Bots /\ bot'.pc = "idle"
    BY <1>0, <1>7 DEF Subscribe, BotPcs
  <2> QED
    BY <1>0, <2>1, <2>2, BotReads DEF BotTypeOK, MigrationInv
<1>8. CASE WatchChange
  <2>1. UNCHANGED fileVars /\ runtime' = runtime
    BY <1>8 DEF WatchChange
  <2>2. bot' \in Bots /\ bot'.pc \in {"idle", "reload"}
    BY <1>0, <1>s, <1>8 DEF WatchChange, BotPcs
  <2> QED
    BY <1>0, <2>1, <2>2, BotReads DEF BotTypeOK, MigrationInv
<1>9. CASE CallbackReturns
  <2>1. UNCHANGED fileVars /\ runtime' = runtime
    BY <1>9 DEF CallbackReturns
  <2>2. bot' \in Bots /\ bot'.pc = "idle"
    BY <1>0, <1>s, <1>9 DEF CallbackReturns, BotPcs
  <2> QED
    BY <1>0, <2>1, <2>2, BotReads DEF BotTypeOK, MigrationInv
<1> QED
  BY <1>1, <1>2, <1>3, <1>4, <1>5, <1>6, <1>7, <1>8, <1>9 DEF BotStep

LEMMA FileStep == FileInv /\ [RoutingNext]_routingVars => FileInv'
<1> SUFFICES ASSUME FileInv, [RoutingNext]_routingVars PROVE FileInv'
  OBVIOUS
<1>1. CASE EditStep
  <2>1. EditKeepsFile /\ UNCHANGED <<bot, runtime>>
    BY <1>1, EditKeeps DEF EditStep
  <2>2. MigrationInv'
    BY <2>1, BotWaits DEF EditKeepsFile
  <2> QED
    BY <2>1, <2>2 DEF EditKeepsFile, FileInv, BotTypeOK
<1>2. CASE BotStep \/ StartBot
  BY <1>2, BotKeeps
<1>3. CASE UNCHANGED <<fileVars, botVars>>
  BY <1>3, BotReads DEF FileInv, BotTypeOK, MigrationInv, UpToDate, botVars, fileVars
<1> QED
  BY <1>1, <1>2, <1>3 DEF RoutingNext, routingVars, Restart, Arrive, PromptStep, Route, Follow, ChooseEngine, RunEngine,
                          Becomes, Refuse

\* The file, what commands have read of it and the bot are always as typed.
THEOREM ConfigTypeCorrect == RoutingSpec => [](FileTypeOK /\ BotTypeOK)
<1>1. FileInv => FileTypeOK /\ BotTypeOK
  BY DEF FileInv
<1> QED
  BY <1>1, FileInitial, FileStep, PTL DEF RoutingSpec

\* An edit of yee88.toml holds until another edit of the same setting, whatever the
\* number of commands and hand edits, unless two writers of the file overlap: the
\* migrations of the bot and of the commands, and what commands write along with the
\* setting they are about, undo nothing.
THEOREM EditsHold == RoutingSpec => []EditsSurvive
<1>1. FileInv => EditsSurvive
  BY DEF FileInv
<1> QED
  BY <1>1, FileInitial, FileStep, PTL DEF RoutingSpec

----------------------------------------------------------------------------
(***************************************************************************)
(* The prompts.  What RunsWhereAsked says of a run that has started is     *)
(* decided in three steps, each by the configuration of its moment; what   *)
(* an earlier step has decided stays until the run starts.                 *)
(***************************************************************************)
Fields == {"asks", "pc", "context", "directive", "follows", "engine", "cwd", "routed", "chose", "ran"}

\* The project a prompt is routed to.
Wanted(m, s) ==
  IF m.reply_ctx # NoContext THEN m.reply_ctx.project
  ELSE IF Directives(m, s).project # None THEN Directives(m, s).project
  ELSE IF m.ambient.project # None THEN m.ambient.project
  ELSE default_project(m, s)

\* The engine it gets.
EngineOf(m, directive, p, s) ==
  Or(m.resume, Or(directive, Or(m.default, Or(ProjectEngine(p, s), s["default_engine"]))))

RoutedOK(q) ==
  /\ q.directive = Directives(q.asks, q.routed).engine
  /\ ~q.follows => q.context.project = Wanted(q.asks, q.routed)

ChosenOK(q) ==
  IF q.follows
  THEN /\ q.asks.resume = None
       /\ \E run \in q.asks.running : q.engine = run.engine /\ q.context = run.context
  ELSE q.engine = EngineOf(q.asks, q.directive, q.context.project, q.chose)

StartedOK(q) ==
  /\ q.engine \in Installed \ q.ran["load_error"]
  /\ IF q.context.project = None THEN q.cwd = "here"
     ELSE q.cwd = q.context.project /\ q.context.project \in Configured(q.ran)

PromptOK(q) ==
  /\ q.pc \in {"arrived", "routed", "ready"} => DOMAIN q = Fields
  /\ q.pc \in {"arrived", "routed"} => ~q.follows
  /\ q.pc \in {"routed", "ready", "started"} => RoutedOK(q)
  /\ q.pc \in {"ready", "started"} => ChosenOK(q)
  /\ q.pc = "started" => StartedOK(q)

PromptsInv ==
  /\ \E S : prompts \in Seq(S)
  /\ \A i \in DOMAIN prompts : PromptOK(prompts[i])

LEMMA PromptsImplyRuns == PromptsInv => RunsWhereAsked
BY DEF PromptsInv, PromptOK, RoutedOK, ChosenOK, StartedOK, RunsWhereAsked, Wanted, EngineOf

\* A prompt that is refused or lost is nowhere.
LEMMA GoneIsOK == \A w \in {"refused", "lost"} : PromptOK([pc |-> w])
BY DEF PromptOK

LEMMA OnePromptChanges ==
  ASSUME PromptsInv, NEW i \in DOMAIN prompts, NEW q, prompts' = [prompts EXCEPT ![i] = q], PromptOK(q)
  PROVE  PromptsInv'
<1>1. PICK S : prompts \in Seq(S)
  BY DEF PromptsInv
<1>2. prompts \in Seq(S \cup {q}) /\ DOMAIN prompts = 1..Len(prompts) /\ Len(prompts) \in Nat
  BY <1>1
<1>3. prompts' \in Seq(S \cup {q}) /\ DOMAIN prompts' = DOMAIN prompts
  BY <1>2
<1>4. \A j \in DOMAIN prompts : prompts'[j] = IF j = i THEN q ELSE prompts[j]
  BY <1>2
<1>5. \A j \in DOMAIN prompts' : PromptOK(prompts'[j])
  BY <1>3, <1>4 DEF PromptsInv
<1> QED
  BY <1>3, <1>5 DEF PromptsInv

LEMMA RefusedIsOK ==
  ASSUME PromptsInv, NEW i \in DOMAIN prompts, Refuse(i)
  PROVE  PromptsInv'
BY OnePromptChanges, GoneIsOK DEF Refuse

LEMMA Becoming ==
  ASSUME PromptsInv, NEW i \in DOMAIN prompts, NEW f, Becomes(i, f), DOMAIN prompts[i] = Fields,
         PromptOK([x \in Fields |-> IF x \in DOMAIN f THEN f[x] ELSE prompts[i][x]])
  PROVE  PromptsInv'
<1> DEFINE q == [x \in Fields |-> IF x \in DOMAIN f THEN f[x] ELSE prompts[i][x]]
<1>1. PICK S : prompts \in Seq(S)
  BY DEF PromptsInv
<1>2. prompts' = [prompts EXCEPT ![i] = q]
  BY <1>1 DEF Becomes
<1>3. PromptOK(q)
  OBVIOUS
<1> HIDE DEF q
<1> QED
  BY <1>2, <1>3, OnePromptChanges

LEMMA ArriveKeeps ==
  ASSUME PromptsInv, NEW m \in Messages, Arrive(m)
  PROVE  PromptsInv'
<1>1. PICK S : prompts \in Seq(S)
  BY DEF PromptsInv
<1>2. prompts' = Append(prompts, Prompt(m))
  BY DEF Arrive
<1>3. PICK q : q = Prompt(m)
  OBVIOUS
<1>4. PromptOK(q)
  BY <1>3 DEF PromptOK, Prompt, Fields
<1>5. prompts \in Seq(S \cup {q}) /\ prompts' = Append(prompts, q)
  BY <1>1, <1>2, <1>3
<1>6. prompts' \in Seq(S \cup {q}) /\ \A j \in DOMAIN prompts' : (j \in DOMAIN prompts /\ prompts'[j] = prompts[j]) \/ prompts'[j] = q
  BY <1>5
<1>7. \A j \in DOMAIN prompts' : PromptOK(prompts'[j])
  BY <1>4, <1>6 DEF PromptsInv
<1> QED
  BY <1>6, <1>7 DEF PromptsInv

LEMMA RestartKeeps ==
  ASSUME PromptsInv, Restart
  PROVE  PromptsInv'
<1> DEFINE lost == [pc |-> "lost"]
<1>1. PICK S : prompts \in Seq(S)
  BY DEF PromptsInv
<1>2. prompts' = [i \in DOMAIN prompts |->
                    IF prompts[i].pc \in {"arrived", "routed", "ready"} THEN lost ELSE prompts[i]]
  BY DEF Restart
<1>3. PromptOK(lost)
  BY GoneIsOK
<1> HIDE DEF lost
<1>4. \A i \in DOMAIN prompts : prompts'[i] \in S \cup {lost} /\ (prompts'[i] = lost \/ prompts'[i] = prompts[i])
  BY <1>1, <1>2
<1>5. DOMAIN prompts' = 1..Len(prompts) /\ DOMAIN prompts = 1..Len(prompts) /\ Len(prompts) \in Nat
  BY <1>1, <1>2
<1>6. prompts' \in [1..Len(prompts) -> S \cup {lost}]
  BY <1>2, <1>4, <1>5
<1>7. prompts' \in Seq(S \cup {lost})
  BY <1>5, <1>6
<1>8. \A i \in DOMAIN prompts' : PromptOK(prompts'[i])
  BY <1>3, <1>4, <1>5 DEF PromptsInv
<1> QED
  BY <1>7, <1>8 DEF PromptsInv

LEMMA RouteKeeps ==
  ASSUME PromptsInv, NEW i \in DOMAIN prompts, Route(i)
  PROVE  PromptsInv'
<1> DEFINE m == prompts[i].asks
           source == ContextSource(m, runtime)
           context == IF source = "reply_ctx" THEN m.reply_ctx ELSE _resolve_context(m, runtime)
           f == [pc |-> "routed", routed |-> runtime,
                 directive |-> Directives(m, runtime).engine, context |-> context]
           q == [x \in Fields |-> IF x \in DOMAIN f THEN f[x] ELSE prompts[i][x]]
<1>1. prompts[i].pc = "arrived" /\ (Refuse(i) \/ Becomes(i, f))
  BY DEF Route
<1>2. DOMAIN prompts[i] = Fields /\ ~prompts[i].follows
  BY <1>1 DEF PromptsInv, PromptOK
<1>3. context.project = Wanted(m, runtime)
  <2>1. CASE m.reply_ctx # NoContext
    BY <2>1 DEF ContextSource, Wanted
  <2>2. CASE m.reply_ctx = NoContext
    <3>1. source # "reply_ctx"
      BY <2>2 DEF ContextSource
    <3>2. context.project = CASE Directives(m, runtime).project # None -> Directives(m, runtime).project
                   [] Directives(m, runtime).project = None /\ m.ambient.project # None -> m.ambient.project
                   [] OTHER -> default_project(m, runtime)
      BY <3>1 DEF _resolve_context
    <3> QED
      BY <2>2, <3>2 DEF Wanted
  <2> QED
    BY <2>1, <2>2
<1> HIDE DEF source, context
<1>4. /\ q.pc = "routed" /\ q.asks = m /\ q.routed = runtime
      /\ q.directive = Directives(m, runtime).engine /\ q.context = context
      /\ q.follows = prompts[i].follows /\ DOMAIN q = Fields
  BY DEF Fields
<1> HIDE DEF q
<1>5. PromptOK(q)
  BY <1>2, <1>3, <1>4 DEF PromptOK, RoutedOK
<1> QED
  BY <1>1, <1>2, <1>5, Becoming, RefusedIsOK DEF q

LEMMA FollowKeeps ==
  ASSUME PromptsInv, NEW i \in DOMAIN prompts, Follow(i)
  PROVE  PromptsInv'
<1> DEFINE p == prompts[i]
           m == p.asks
<1>1. p.pc = "routed" /\ m.resume = None
  BY DEF Follow
<1>2. DOMAIN p = Fields /\ p.directive = Directives(m, p.routed).engine
  BY <1>1 DEF PromptsInv, PromptOK, RoutedOK
<1>3. PICK run \in m.running :
        \/ Becomes(i, [pc |-> "ready", follows |-> TRUE, chose |-> runtime,
                       engine |-> run.engine, context |-> run.context])
        \/ Refuse(i)
  BY DEF Follow
<1> DEFINE f == [pc |-> "ready", follows |-> TRUE, chose |-> runtime,
                 engine |-> run.engine, context |-> run.context]
           q == [x \in Fields |-> IF x \in DOMAIN f THEN f[x] ELSE prompts[i][x]]
<1>4. /\ q.pc = "ready" /\ q.asks = m /\ q.routed = p.routed /\ q.directive = p.directive
      /\ q.follows = TRUE /\ q.engine = run.engine /\ q.context = run.context /\ DOMAIN q = Fields
  BY DEF Fields
<1> HIDE DEF q
<1>5. PromptOK(q)
  BY <1>1, <1>2, <1>3, <1>4 DEF PromptOK, RoutedOK, ChosenOK
<1> QED
  BY <1>2, <1>3, <1>5, Becoming, RefusedIsOK DEF q

LEMMA ChooseKeeps ==
  ASSUME PromptsInv, NEW i \in DOMAIN prompts, ChooseEngine(i)
  PROVE  PromptsInv'
<1> DEFINE p == prompts[i]
           m == p.asks
           project == ProjectEngine(p.context.project, runtime)
           engine == CASE m.resume # None -> m.resume
                       [] m.resume = None /\ p.directive # None -> p.directive
                       [] m.resume = None /\ p.directive = None /\ m.default # None -> m.default
                       [] OTHER -> IF project # None THEN project ELSE runtime["default_engine"]
           f == [pc |-> "ready", chose |-> runtime, engine |-> engine]
           q == [x \in Fields |-> IF x \in DOMAIN f THEN f[x] ELSE prompts[i][x]]
<1>1. p.pc = "routed" /\ Becomes(i, f)
  BY DEF ChooseEngine
<1>2. DOMAIN p = Fields /\ RoutedOK(p) /\ ~p.follows
  BY <1>1 DEF PromptsInv, PromptOK
<1>3. engine = EngineOf(m, p.directive, p.context.project, runtime)
  BY DEF EngineOf, Or
<1> HIDE DEF engine
<1>4. /\ q.pc = "ready" /\ q.asks = m /\ q.routed = p.routed /\ q.directive = p.directive
      /\ q.context = p.context /\ q.chose = runtime /\ q.engine = engine
      /\ q.follows = p.follows /\ DOMAIN q = Fields
  BY DEF Fields
<1> HIDE DEF q
<1>5. PromptOK(q)
  BY <1>2, <1>3, <1>4 DEF PromptOK, RoutedOK, ChosenOK
<1> QED
  BY <1>1, <1>2, <1>5, Becoming DEF q

LEMMA RunKeeps ==
  ASSUME PromptsInv, NEW i \in DOMAIN prompts, RunEngine(i)
  PROVE  PromptsInv'
<1> DEFINE p == prompts[i]
<1>1. CASE Refuse(i)
  BY <1>1, RefusedIsOK
<1>2. ASSUME p.engine \in Entries(runtime) \cap Installed,
             NEW where \in resolve_run_cwd(p.context, runtime),
             Becomes(i, [pc |-> "started", cwd |-> where, ran |-> runtime])
      PROVE  PromptsInv'
  <2> DEFINE f == [pc |-> "started", cwd |-> where, ran |-> runtime]
             q == [x \in Fields |-> IF x \in DOMAIN f THEN f[x] ELSE prompts[i][x]]
  <2>1. p.pc = "ready"
    BY DEF RunEngine
  <2>2. DOMAIN p = Fields /\ RoutedOK(p) /\ ChosenOK(p)
    BY <2>1 DEF PromptsInv, PromptOK
  <2>3. /\ q.pc = "started" /\ q.asks = p.asks /\ q.routed = p.routed /\ q.directive = p.directive
        /\ q.context = p.context /\ q.chose = p.chose /\ q.engine = p.engine /\ q.follows = p.follows
        /\ q.cwd = where /\ q.ran = runtime
    BY DEF Fields
  <2>4. IF p.context.project = None THEN where = "here"
        ELSE where = p.context.project /\ p.context.project \in Configured(runtime)
    <3>1. where \in resolve_run_cwd(p.context, runtime)
      OBVIOUS
    <3>2. None \notin Configured(runtime)
      BY ConfigAssumption DEF Configured
    <3> QED
      BY <3>1, <3>2 DEF resolve_run_cwd
  <2>5. Becomes(i, f)
    BY <1>2
  <2> HIDE DEF q
  <2>6. RoutedOK(q) /\ ChosenOK(q)
    BY <2>2, <2>3 DEF RoutedOK, ChosenOK
  <2>7. StartedOK(q)
    BY <1>2, <2>3, <2>4 DEF StartedOK, Entries
  <2>8. PromptOK(q)
    BY <2>3, <2>6, <2>7 DEF PromptOK
  <2> QED
    BY <2>2, <2>5, <2>8, Becoming DEF q
<1> QED
  BY <1>1, <1>2 DEF RunEngine

LEMMA PromptsStep == PromptsInv /\ [RoutingNext]_routingVars => PromptsInv'
<1>1. PromptsInv /\ UNCHANGED prompts => PromptsInv'
  BY DEF PromptsInv
<1> QED
  BY <1>1, ArriveKeeps, RestartKeeps, RouteKeeps, FollowKeeps, ChooseKeeps, RunKeeps
  DEF RoutingNext, PromptStep, routingVars

\* A run starts with the project, the directory and the engine that its message asked
\* for, in the documented order of precedence, however often the configuration is
\* reloaded and the bot restarted between the steps of a prompt.
THEOREM RunsAreWhereAsked == RoutingSpec => []RunsWhereAsked
<1>1. RoutingInit => PromptsInv
  <2> SUFFICES ASSUME prompts = <<>> PROVE PromptsInv
    BY DEF RoutingInit
  <2>1. prompts \in Seq({})
    OBVIOUS
  <2> QED
    BY <2>1 DEF PromptsInv
<1> QED
  BY <1>1, PromptsStep, PromptsImplyRuns, PTL DEF RoutingSpec
================================================================================
