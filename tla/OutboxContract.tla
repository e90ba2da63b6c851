---------------------------- MODULE OutboxContract ----------------------------
(***************************************************************************)
(* What the Telegram outbox promises its callers, without its worker, its  *)
(* clocks and its tasks: each key has one slot, an operation that takes    *)
(* the slot gives up the one it finds there, one operation at a time is    *)
(* out for delivery, and an operation that was delivered or given up       *)
(* never comes back.                                                       *)
(***************************************************************************)
CONSTANTS Op, Key, KeyOf, None

VARIABLES
  slot,  \* key -> the operation that waits
  out,   \* the operation out for delivery
  fate,  \* operation -> "new", "held", "delivered" or "given_up"
  shut   \* nothing is accepted any more

vars == <<slot, out, fate, shut>>

Init ==
  /\ slot = [k \in Key |-> None]
  /\ out = None
  /\ fate = [o \in Op |-> "new"]
  /\ shut = FALSE

\* The fates after the held operations of a set are given up.
GivenUp(ops) == [o \in Op |-> IF o \in ops THEN "given_up" ELSE fate[o]]

Slots == {o \in Op : slot[KeyOf[o]] = o}

Accept(o) ==
  /\ fate[o] = "new" /\ ~shut
  /\ slot' = [slot EXCEPT ![KeyOf[o]] = o]
  /\ fate' = [GivenUp({slot[KeyOf[o]]}) EXCEPT ![o] = "held"]
  /\ UNCHANGED <<out, shut>>

Refuse(o) ==
  /\ fate[o] = "new" /\ shut
  /\ fate' = GivenUp({o})
  /\ UNCHANGED <<slot, out, shut>>

Drop(k) ==
  /\ slot' = [slot EXCEPT ![k] = None]
  /\ fate' = GivenUp({slot[k]})
  /\ UNCHANGED <<out, shut>>

Take(o) ==
  /\ out = None /\ o \in Slots
  /\ slot' = [slot EXCEPT ![KeyOf[o]] = None]
  /\ out' = o
  /\ UNCHANGED <<fate, shut>>

Deliver(o) ==
  /\ out = o /\ o # None
  /\ fate' = [fate EXCEPT ![o] = "delivered"]
  /\ out' = None
  /\ UNCHANGED <<slot, shut>>

\* A failure, or a postponed operation that finds its slot taken or the outbox shut.
GiveUp(o) ==
  /\ out = o /\ o # None
  /\ fate' = GivenUp({o})
  /\ out' = None
  /\ UNCHANGED <<slot, shut>>

Postpone(o) ==
  /\ out = o /\ o # None
  /\ slot[KeyOf[o]] = None /\ ~shut
  /\ slot' = [slot EXCEPT ![KeyOf[o]] = o]
  /\ out' = None
  /\ UNCHANGED <<fate, shut>>

Shut ==
  /\ shut' = TRUE
  /\ slot' = [k \in Key |-> None]
  /\ fate' = GivenUp(Slots)
  /\ UNCHANGED out

Next == \/ \E o \in Op : \/ Accept(o) \/ Refuse(o) \/ Take(o)
                         \/ Deliver(o) \/ GiveUp(o) \/ Postpone(o)
        \/ \E k \in Key : Drop(k)
        \/ Shut

Spec == Init /\ [][Next]_vars
===============================================================================
