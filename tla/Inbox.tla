-------------------------------- MODULE Inbox ---------------------------------
(***************************************************************************)
(* What becomes of the messages of a Telegram chat until a prompt is       *)
(* dispatched (telegram/loop.py: poll_updates, route_update and            *)
(* route_message, ForwardCoalescer, MediaGroupBuffer; telegram/parsing.py: *)
(* poll_incoming).  The poller routes one message at a time, and awaits    *)
(* while it does; the debounce tasks of pending prompts and the flush      *)
(* tasks of albums run beside it.                                          *)
(*                                                                         *)
(* Messages are numbered as they come; a debounce task has the number of   *)
(* the message that started it, a flush task that of its first item.  A    *)
(* sleep lasts as long as it likes.  What a dispatched prompt or an upload *)
(* comes to is not modelled here.                                          *)
(***************************************************************************)
EXTENDS Naturals, FiniteSets, Sequences, Functions

CONSTANTS
  Sender,       \* forward keys: a sender in a chat or topic
  Anonymous,    \* those with no sender_id
  Album,        \* media groups
  Debouncing,   \* forward_coalesce_s > 0
  MaxMessages   \* bound: the messages of a behaviour

ASSUME InboxAssumption ==
  /\ Anonymous \subseteq Sender
  /\ Debouncing \in BOOLEAN
  /\ MaxMessages \in Nat

Number == 1..MaxMessages
NoMessage == 0

VARIABLES
  seen,       \* the messages so far
  routing,    \* the message in route_message, or NoMessage
  pending,    \* sender -> the prompt in pending_prompts
  forwards,   \* prompt -> the forwards attached to it
  scope,      \* prompt -> the debounce task in its cancel_scope
  debounce,   \* debounce task -> where it is
  prompt_of,  \* debounce task -> its prompt
  groups,     \* album -> the items in media_groups
  flush,      \* flush task -> where it is
  token,      \* flush task -> the token it remembers
  taken,      \* flush task -> the items it took
  runs        \* history: the prompts dispatched

coalescer == <<pending, forwards, scope, debounce, prompt_of>>
albums    == <<groups, flush, token, taken>>
vars      == <<seen, routing, coalescer, albums, runs>>

\* A text may become a prompt; a blank forward has no text.
Message == [kind : {"text", "new", "forward", "blank"}, from : Sender]
             \cup [kind : {"item"}, from : Album]

TypeOK ==
  /\ seen \in Seq(Message) /\ Len(seen) <= MaxMessages
  /\ routing \in 0..Len(seen)
  /\ pending \in [Sender -> 0..Len(seen)]
  /\ forwards \in [Number -> SUBSET (1..Len(seen))]
  /\ scope \in [Number -> 0..Len(seen)]
  /\ debounce \in [Number -> {"none", "ready", "asleep", "cancelled", "over"}]
  /\ prompt_of \in [Number -> 0..Len(seen)]
  /\ groups \in [Album -> SUBSET (1..Len(seen))]
  /\ flush \in [Number -> {"none", "ready", "asleep", "deciding", "over"}]
  /\ token \in [Number -> 0..Len(seen)]
  /\ taken \in [Number -> SUBSET (1..Len(seen))]
  /\ runs \in Seq(1..Len(seen))

Init ==
  /\ seen = <<>> /\ routing = NoMessage
  /\ pending = [s \in Sender |-> NoMessage]
  /\ forwards = [p \in Number |-> {}]
  /\ scope = [p \in Number |-> NoMessage]
  /\ debounce = [d \in Number |-> "none"]
  /\ prompt_of = [d \in Number |-> NoMessage]
  /\ groups = [g \in Album |-> {}]
  /\ flush = [f \in Number |-> "none"]
  /\ token = [f \in Number |-> 0]
  /\ taken = [f \in Number |-> {}]
  /\ runs = <<>>

\* The poller yields its next message, which gets the number Next.
NextNumber == Len(seen) + 1
Arrives(kind, from) ==
  /\ routing = NoMessage /\ Len(seen) < MaxMessages
  /\ seen' = Append(seen, [kind |-> kind, from |-> from])

From(n) == seen[n].from

(***************************************************************************)
(* ForwardCoalescer.                                                       *)
(***************************************************************************)
\* The debounce tasks once the scope that a prompt holds, if any, is cancelled.
Cancelled(p) ==
  IF p # NoMessage /\ scope[p] # NoMessage /\ debounce[scope[p]] = "asleep"
    THEN [debounce EXCEPT ![scope[p]] = "cancelled"]
    ELSE debounce

\* attach_forward: the prompt starts to wait anew.
AttachForward(s) ==
  LET p == pending[s] IN
  /\ Arrives("forward", s)
  /\ s \notin Anonymous /\ p # NoMessage
  /\ forwards' = [forwards EXCEPT ![p] = @ \cup {NextNumber}]
  /\ debounce' = [Cancelled(p) EXCEPT ![NextNumber] = "ready"]
  /\ scope' = [scope EXCEPT ![p] = NoMessage]
  /\ prompt_of' = [prompt_of EXCEPT ![NextNumber] = p]
  /\ UNCHANGED <<routing, pending, albums, runs>>

IgnoreForward(s) ==
  /\ \/ Arrives("blank", s)
     \/ Arrives("forward", s) /\ (s \in Anonymous \/ pending[s] = NoMessage)
  /\ UNCHANGED <<routing, coalescer, albums, runs>>

\* Mutant of Schedule: the new prompt starts without the old one's forwards.
ScheduleAfresh ==
  LET s == From(routing) IN
  /\ routing # NoMessage /\ seen[routing].kind = "text"
  /\ s \notin Anonymous /\ Debouncing
  /\ pending' = [pending EXCEPT ![s] = routing]
  /\ debounce' = [Cancelled(pending[s]) EXCEPT ![routing] = "ready"]
  /\ prompt_of' = [prompt_of EXCEPT ![routing] = routing]
  /\ routing' = NoMessage
  /\ UNCHANGED <<seen, scope, forwards, albums, runs>>

\* schedule: a prompt takes the place, and the forwards, of the pending one.
Schedule ==
  LET s == From(routing) IN
  /\ routing # NoMessage /\ seen[routing].kind = "text"
  /\ s \notin Anonymous /\ Debouncing
  /\ pending' = [pending EXCEPT ![s] = routing]
  /\ forwards' = IF pending[s] = NoMessage THEN forwards
                 ELSE [forwards EXCEPT ![routing] = forwards[pending[s]]]
  /\ debounce' = [Cancelled(pending[s]) EXCEPT ![routing] = "ready"]
  /\ prompt_of' = [prompt_of EXCEPT ![routing] = routing]
  /\ routing' = NoMessage
  /\ UNCHANGED <<seen, scope, albums, runs>>

\* A prompt that does not wait: the coalescer is off or has no sender to go by, or
\* the prompt replies to a running task.
Bypass ==
  /\ routing # NoMessage /\ seen[routing].kind = "text"
  /\ runs' = Append(runs, routing)
  /\ routing' = NoMessage
  /\ UNCHANGED <<seen, coalescer, albums>>

\* /new drops the pending prompt.  Where neither topics nor sessions are stored it then
\* goes on as a text: that is a /new and a text after it.
New ==
  LET s == From(routing) IN
  /\ routing # NoMessage /\ seen[routing].kind = "new"
  /\ pending' = [pending EXCEPT ![s] = NoMessage]
  /\ debounce' = Cancelled(pending[s])
  /\ routing' = NoMessage
  /\ UNCHANGED <<seen, forwards, scope, prompt_of, albums, runs>>

\* _debounce_prompt_run, up to its sleep.
DebounceStarts(d) ==
  /\ debounce[d] = "ready"
  /\ debounce' = [debounce EXCEPT ![d] = "asleep"]
  /\ scope' = [scope EXCEPT ![prompt_of[d]] = d]
  /\ UNCHANGED <<seen, routing, pending, forwards, prompt_of, albums, runs>>

\* Mutant of DebounceEnds: the prompt is dispatched whether it is pending or not.
DebounceEndsBlindly(d) ==
  LET p == prompt_of[d] IN
  /\ debounce[d] \in {"asleep", "cancelled"}
  /\ debounce' = [debounce EXCEPT ![d] = "over"]
  /\ pending' = [pending EXCEPT ![From(p)] = IF @ = p THEN NoMessage ELSE @]
  /\ runs' = Append(runs, p)
  /\ UNCHANGED <<seen, routing, forwards, scope, prompt_of, albums>>

\* The rest, after the sleep or its cancellation, which the scope swallows: the prompt
\* is dispatched if it is still the pending one.
DebounceEnds(d) ==
  LET p == prompt_of[d] IN
  /\ debounce[d] \in {"asleep", "cancelled"}
  /\ debounce' = [debounce EXCEPT ![d] = "over"]
  /\ IF pending[From(p)] = p
     THEN pending' = [pending EXCEPT ![From(p)] = NoMessage] /\ runs' = Append(runs, p)
     ELSE UNCHANGED <<pending, runs>>
  /\ UNCHANGED <<seen, routing, forwards, scope, prompt_of, albums>>

(***************************************************************************)
(* route_message.                                                          *)
(***************************************************************************)
\* Anything but a forward or an item is routed across awaits: the stores of the
\* chat's context and trigger mode, and the transcription of a voice message.
RouteBegins(kind, s) ==
  /\ kind \in {"text", "new"}
  /\ Arrives(kind, s)
  /\ routing' = NextNumber
  /\ UNCHANGED <<coalescer, albums, runs>>

\* A text that is a command, an upload, not for the bot, or not understood.
NoPrompt ==
  /\ routing # NoMessage /\ seen[routing].kind = "text"
  /\ routing' = NoMessage
  /\ UNCHANGED <<seen, coalescer, albums, runs>>

RouteEnds == NoPrompt \/ Bypass \/ Schedule \/ New

(***************************************************************************)
(* MediaGroupBuffer.                                                       *)
(***************************************************************************)
\* add: the first item of a group starts its flush.
AddItem(g) ==
  /\ Arrives("item", g)
  /\ groups' = [groups EXCEPT ![g] = @ \cup {NextNumber}]
  /\ flush' = IF groups[g] = {} THEN [flush EXCEPT ![NextNumber] = "ready"] ELSE flush
  /\ UNCHANGED <<routing, coalescer, token, taken, runs>>

\* The token of a group is the number of its items.
FlushStarts(f) ==
  /\ flush[f] = "ready"
  /\ flush' = [flush EXCEPT ![f] = "asleep"]
  /\ token' = [token EXCEPT ![f] = Cardinality(groups[From(f)])]
  /\ UNCHANGED <<seen, routing, coalescer, groups, taken, runs>>

\* Mutant of FlushAgain: a flush that finds new items returns.
FlushGivesUp(f) ==
  LET items == groups[From(f)] IN
  /\ flush[f] = "asleep" /\ Cardinality(items) # token[f]
  /\ flush' = [flush EXCEPT ![f] = "over"]
  /\ UNCHANGED <<seen, routing, coalescer, groups, token, taken, runs>>

\* Items came while it slept: it sleeps again.
FlushAgain(f) ==
  LET items == groups[From(f)] IN
  /\ flush[f] = "asleep" /\ Cardinality(items) # token[f]
  /\ token' = [token EXCEPT ![f] = Cardinality(items)]
  /\ UNCHANGED <<seen, routing, coalescer, groups, flush, taken, runs>>

\* Mutant of FlushTakes: the group is left in place.
FlushTakesKeeps(f) ==
  LET g == From(f) IN
  /\ flush[f] = "asleep" /\ Cardinality(groups[g]) = token[f]
  /\ taken' = [taken EXCEPT ![f] = groups[g]]
  /\ flush' = [flush EXCEPT ![f] = "deciding"]
  /\ UNCHANGED <<seen, routing, coalescer, groups, token, runs>>

\* The group is taken out before anything else is awaited ...
FlushTakes(f) ==
  LET g == From(f) IN
  /\ flush[f] = "asleep" /\ Cardinality(groups[g]) = token[f]
  /\ taken' = [taken EXCEPT ![f] = groups[g]]
  /\ groups' = [groups EXCEPT ![g] = {}]
  /\ flush' = [flush EXCEPT ![f] = "deciding"]
  /\ UNCHANGED <<seen, routing, coalescer, token, runs>>

\* ... and then uploaded, or left alone if the trigger mode says so.
FlushEnds(f) ==
  /\ flush[f] = "deciding"
  /\ flush' = [flush EXCEPT ![f] = "over"]
  /\ UNCHANGED <<seen, routing, coalescer, groups, token, taken, runs>>

Debounce(d) == DebounceStarts(d) \/ DebounceEnds(d)
Flush(f)    == FlushStarts(f) \/ FlushAgain(f) \/ FlushTakes(f) \/ FlushEnds(f)

Next ==
  \/ \E s \in Sender : \/ AttachForward(s) \/ IgnoreForward(s)
                       \/ \E kind \in {"text", "new"} : RouteBegins(kind, s)
  \/ \E g \in Album : AddItem(g)
  \/ RouteEnds
  \/ \E n \in Number : Debounce(n) \/ Flush(n)

Spec == Init /\ [][Next]_vars

\* Sleeps, stores and transcriptions end; nobody need write.
Fairness == WF_vars(RouteEnds) /\ \A n \in Number : WF_vars(Debounce(n)) /\ WF_vars(Flush(n))

FairSpec == Spec /\ Fairness

(***************************************************************************)
(* Properties.                                                             *)
(***************************************************************************)
Kind(n) == seen[n].kind
Dispatched == Range(runs)
PendingNow == Range(pending) \ {NoMessage}
Accepted   == {p \in 1..Len(seen) : prompt_of[p] = p}
Attached   == {f \in 1..Len(seen) : Kind(f) = "forward" /\ prompt_of[f] # NoMessage}

\* p was dropped or overtaken: a later message of its sender is a /new or a prompt.
Superseded(p) ==
  \E n \in Accepted \cup {m \in 1..Len(seen) : Kind(m) = "new"} : n > p /\ From(n) = From(p)

\* No prompt runs twice, and a prompt that was accepted runs unless a later prompt or a
\* /new of the same sender takes its place: however many debounce tasks it has, one of
\* them is there while it is pending (loop.py 500-563, 615-644).
PromptsAccountedFor ==
  /\ IsInjective(runs)
  /\ PendingNow \cap Dispatched = {}
  /\ \A p \in Accepted : p \in PendingNow \cup Dispatched \/ Superseded(p)
  /\ \A p \in PendingNow :
       \E d \in Number : prompt_of[d] = p /\ debounce[d] \in {"ready", "asleep", "cancelled"}

\* A forward that was attached goes with one prompt of its sender, through all the
\* replacements of that prompt, unless a /new drops it (loop.py 540-550, 565-613).
ForwardsFollowPrompts ==
  /\ \A f \in Attached :
       \/ \E p \in PendingNow \cup Dispatched : f \in forwards[p] /\ From(p) = From(f)
       \/ \E n \in 1..Len(seen) : n > f /\ Kind(n) = "new" /\ From(n) = From(f)
  /\ \A p, q \in PendingNow \cup Dispatched : p # q => forwards[p] \cap forwards[q] = {}

\* An item of an album is in one place: with its group, which has a flush that will look
\* again, or with the one flush that took it (loop.py 780-840).
AlbumItemsOnce ==
  \A g \in Album :
    LET items == {n \in 1..Len(seen) : Kind(n) = "item" /\ From(n) = g} IN
    /\ items = groups[g] \cup UNION {taken[f] : f \in items}
    /\ \A f \in items : taken[f] \cap groups[g] = {}
    /\ \A e, f \in items : e # f => taken[e] \cap taken[f] = {}
    /\ groups[g] # {} => \E f \in groups[g] : flush[f] \in {"ready", "asleep"}

\* The inbox empties by itself: whatever arrives in between, a pending prompt and a
\* gathered album leave it.
InboxDrains ==
  /\ \A s \in Sender : pending[s] # NoMessage ~> pending[s] = NoMessage
  /\ \A g \in Album : groups[g] # {} ~> groups[g] = {}
===============================================================================
