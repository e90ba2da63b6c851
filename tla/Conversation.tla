---------------------------- MODULE Conversation ------------------------------
(***************************************************************************)
(* Which session a prompt goes on with (telegram/loop.py:                  *)
(* _dispatch_pending_prompt, run_prompt_from_upload, ResumeResolver,       *)
(* send_with_resume, run_job, wrap_on_thread_known, _on_question; the      *)
(* stores of chats and topics, the cache of replies, and the commands /new *)
(* and /fork).                                                             *)
(*                                                                         *)
(* A scope is what a session is stored for: a topic, or a chat and, in a   *)
(* group, the sender.  Prompts are numbered as they are dispatched; a      *)
(* session has the number of the run that started it.  The bot has up to   *)
(* two messages for a prompt: one for its progress, which says "queued" at *)
(* first, and its answer; they may be one, and are replied to as either.   *)
(* No resume line is rendered, so that a reply leads to a session only     *)
(* through the cache or a running task; a line that the user pastes is     *)
(* like a reply to the answer it is from.                                  *)
(*                                                                         *)
(* ThreadScheduler says when a queued prompt starts, RunnerSession who     *)
(* waits for a session, EngineStream what a run announces; here a prompt   *)
(* that is accepted, queued or not, starts at any time, and a run          *)
(* announces the session it resumes, or a new one, or none.                *)
(***************************************************************************)
EXTENDS Naturals, Sequences

CONSTANTS
  Chat, Topic,     \* the scopes with a store
  Bare,            \* those without: each message starts afresh
  StatelessTopic,  \* topics whose project has session_mode = "stateless"
  Forked,          \* topics that are there only once /fork has made them
  CronChat,        \* the chat that scheduled jobs run in
  Observed,        \* the scope, any one, that the history is about
  MaxPrompts       \* bound: the prompts of a behaviour

ASSUME ConversationAssumption ==
  /\ StatelessTopic \subseteq Topic /\ Forked \subseteq Topic
  /\ CronChat \subseteq Chat \cup Bare
  /\ Observed \in Chat \cup Topic
  /\ MaxPrompts \in Nat

Scope  == Chat \cup Topic \cup Bare
Number == 1..MaxPrompts
None   == 0
NumberOrNone == 0..MaxPrompts

VARIABLES
  prompts,    \* the prompts so far
  phase,      \* prompt -> where it is
  following,  \* prompt -> the running task that send_with_resume waits for
  token,      \* prompt -> the session it resumes
  session,    \* prompt -> the session its run has announced
  cached,     \* prompt -> the session its answer leads to, in resume_cache
  stored,     \* scope -> the session stored for it
  made,       \* the scopes that are there
  copied,     \* forked topic -> the session it starts with
  left,       \* history: the sessions that the last /new was to leave behind
  underway    \* history: the prompts that were not done then

topics  == <<made, copied>>
history == <<left, underway>>
vars    == <<prompts, phase, following, token, session, cached, stored, topics, history>>

\* to: the prompt it replies to; stores: whether its run stores the session.
Prompt == [scope : Scope, to : NumberOrNone, stores : BOOLEAN]

Alive == {"running", "announced", "stored"}   \* in running_tasks
Final == {"over", "refused"}
Phase == Alive \cup Final
           \cup {"unsent", "resolving", "waiting", "accepted", "finishing"}

TypeOK ==
  /\ prompts \in Seq(Prompt) /\ Len(prompts) <= MaxPrompts
  /\ phase \in [Number -> Phase]
  /\ following \in [Number -> NumberOrNone]
  /\ token \in [Number -> NumberOrNone]
  /\ session \in [Number -> NumberOrNone]
  /\ cached \in [Number -> NumberOrNone]
  /\ stored \in [Scope -> NumberOrNone]
  /\ made \subseteq Scope
  /\ copied \in [Forked -> NumberOrNone]
  /\ left \subseteq Number /\ underway \subseteq Number

Init ==
  /\ prompts = <<>>
  /\ phase = [p \in Number |-> "unsent"]
  /\ following = [p \in Number |-> None]
  /\ token = [p \in Number |-> None]
  /\ session = [p \in Number |-> None]
  /\ cached = [p \in Number |-> None]
  /\ stored = [c \in Scope |-> None]
  /\ made = Scope \ Forked
  /\ copied = [d \in Forked |-> None]
  /\ left = {} /\ underway = {}

Sent == 1..Len(prompts)
ScopeOf(p) == prompts[p].scope
Target(p)  == prompts[p].to
Enters(p, where) == phase' = [phase EXCEPT ![p] = where]

\* A step of p that changes nothing but where it is.
Moves(p, from, where) ==
  /\ phase[p] = from /\ Enters(p, where)
  /\ UNCHANGED <<prompts, following, token, session, cached, stored, topics, history>>

\* Prompt p of scope c goes back to session s.
CarriesBack(c, s) ==
  left' = (IF c = Observed THEN left \ {s} ELSE left) /\ UNCHANGED underway

\* The bot has sent a message for t, one that says "queued" perhaps.
Shown(t) ==
  /\ t \in Sent
  /\ \/ phase[t] \in Alive \cup {"finishing", "over"}
     \/ phase[t] = "accepted" /\ token[t] # None

(***************************************************************************)
(* From a message to a session.                                            *)
(***************************************************************************)
\* A prompt is dispatched.  A reply to an answer finds its session in the cache, one to
\* a progress message, which may be gone by now, does not.
Dispatch(c, t) ==
  LET p == Len(prompts) + 1 IN
  /\ Len(prompts) < MaxPrompts /\ c \in made
  /\ prompts' = Append(prompts, [scope |-> c, to |-> t, stores |-> c \notin Bare])
  /\ \E s \in IF t = None THEN {None} ELSE {None, cached[t]} :
       token' = [token EXCEPT ![p] = s] /\ CarriesBack(c, s)
  /\ t # None => Shown(t)
  /\ Enters(p, "resolving")
  /\ UNCHANGED <<following, session, cached, stored, topics>>

\* A scheduled job: a new session in the chat of the bot, whatever is stored for it.
CronRun(c) ==
  LET p == Len(prompts) + 1 IN
  /\ Len(prompts) < MaxPrompts /\ c \in CronChat
  /\ prompts' = Append(prompts, [scope |-> c, to |-> None, stores |-> c \notin Bare])
  /\ token' = [token EXCEPT ![p] = None]
  /\ Enters(p, "accepted")
  /\ UNCHANGED <<following, session, cached, stored, topics, history>>

\* _on_question: the agent asks, and a run that answers goes on with the session of p;
\* it has no key of a chat to store it for.
Ask(p) ==
  LET c == ScopeOf(p)
      q == Len(prompts) + 1 IN
  /\ Len(prompts) < MaxPrompts /\ phase[p] = "stored"
  /\ prompts' = Append(prompts, [scope |-> c, to |-> None, stores |-> c \in Topic])
  /\ token' = [token EXCEPT ![q] = session[p]]
  /\ Enters(q, "accepted")
  /\ UNCHANGED <<following, session, cached, stored, topics, history>>

RepliesToRunning(p) == Target(p) # None /\ phase[Target(p)] \in Alive

\* ResumeResolver.resolve: a session that is known already ...
ResolveKnown(p) == token[p] # None /\ Moves(p, "resolving", "accepted")

\* ... or that of a running task, once it is known ...
ResolveRunning(p) ==
  /\ phase[p] = "resolving" /\ token[p] = None /\ RepliesToRunning(p)
  /\ following' = [following EXCEPT ![p] = Target(p)]
  /\ Enters(p, "waiting")
  /\ UNCHANGED <<prompts, token, session, cached, stored, topics, history>>

\* ... or the one stored for the scope, or a new one.
ReadsStore(p) == ~(ScopeOf(p) \in StatelessTopic /\ Target(p) = None)

\* Mutant of ResolveStored: a topic without a session takes that of a chat.
ResolveStoredOrChat(p) ==
  \E c \in IF stored[ScopeOf(p)] = None THEN Chat ELSE {ScopeOf(p)} :
    LET s == IF ReadsStore(p) THEN stored[c] ELSE None IN
    /\ phase[p] = "resolving" /\ token[p] = None /\ ~RepliesToRunning(p)
    /\ token' = [token EXCEPT ![p] = s]
    /\ Enters(p, "accepted")
    /\ UNCHANGED <<prompts, following, session, cached, stored, topics, history>>

ResolveStored(p) ==
  LET s == IF ReadsStore(p) THEN stored[ScopeOf(p)] ELSE None IN
  /\ phase[p] = "resolving" /\ token[p] = None /\ ~RepliesToRunning(p)
  /\ token' = [token EXCEPT ![p] = s]
  /\ Enters(p, "accepted")
  /\ UNCHANGED <<prompts, following, session, cached, stored, topics, history>>

\* Mutant of WaitForResume: it does not wait for the announcement.
DoNotWaitForResume(p) ==
  LET t == following[p] IN
  /\ phase[p] = "waiting"
  /\ token' = [token EXCEPT ![p] = session[t]]
  /\ Enters(p, IF session[t] # None THEN "accepted" ELSE "refused")
  /\ CarriesBack(ScopeOf(p), session[t])
  /\ UNCHANGED <<prompts, following, session, cached, stored, topics>>

\* send_with_resume, up to the queue.  Of the two waiters of _wait_for_resume the one for
\* the session wakes first if there is one: the end of the run, which the other waits for,
\* is told after other steps of the event loop (runner_bridge.py 331-339, 515-518).
WaitForResume(p) ==
  LET t == following[p] IN
  /\ phase[p] = "waiting"
  /\ session[t] # None \/ phase[t] \notin Alive
  /\ token' = [token EXCEPT ![p] = session[t]]
  /\ Enters(p, IF session[t] # None THEN "accepted" ELSE "refused")
  /\ CarriesBack(ScopeOf(p), session[t])
  /\ UNCHANGED <<prompts, following, session, cached, stored, topics>>

(***************************************************************************)
(* run_job.                                                                *)
(***************************************************************************)
\* Cancelled in the queue; or no runner, or no directory to run it in.
RunFails(p) == Moves(p, "accepted", "over")

\* The progress message is sent, or known, and the task is in running_tasks.
RunBegins(p) == Moves(p, "accepted", "running")

\* The runner has the lock of the session and announces it.
Announce(p) ==
  LET s == IF token[p] = None THEN p ELSE token[p] IN
  /\ phase[p] = "running"
  /\ \A q \in Sent : phase[q] \in Alive => session[q] # s
  /\ session' = [session EXCEPT ![p] = s]
  /\ Enters(p, "announced")
  /\ UNCHANGED <<prompts, following, token, cached, stored, topics, history>>

\* wrap_on_thread_known, after the scheduler's part.
Store(p) ==
  LET c == ScopeOf(p) IN
  /\ phase[p] = "announced" /\ Enters(p, "stored")
  /\ stored' = [stored EXCEPT ![c] = IF prompts[p].stores THEN session[p] ELSE @]
  /\ UNCHANGED <<prompts, following, token, session, cached, topics, history>>

\* The run is over, cancelled perhaps, even while its session was being stored.
RunEnds(p) == \E from \in Alive : Moves(p, from, "finishing")

\* Its answer has been sent, and what it leads to is cached, unless sending failed or
\* there was nothing to say.  A run that announced no session may name the one it was
\* to resume.
Finish(p) ==
  /\ phase[p] = "finishing" /\ Enters(p, "over")
  /\ \E s \in {None, session[p]} \cup IF session[p] = None THEN {token[p]} ELSE {} :
       cached' = [cached EXCEPT ![p] = s]
  /\ UNCHANGED <<prompts, following, token, session, stored, topics, history>>

(***************************************************************************)
(* Commands.                                                               *)
(***************************************************************************)
Done(p) == phase[p] \in Final \cup {"finishing"}
Of(c)   == {p \in Sent : ScopeOf(p) = c}

\* The sessions of a scope, that of a run that has yet to announce it included.
SessionsOf(c) ==
  ((UNION {{token[p], session[p], IF Done(p) THEN None ELSE p} : p \in Of(c)})
     \cup (IF c \in Forked THEN {copied[c]} ELSE {})) \ {None}

LeavesBehind(c) ==
  IF c = Observed
  THEN left' = SessionsOf(c) /\ underway' = {p \in Of(c) : ~Done(p)}
  ELSE UNCHANGED history

\* Mutant of New: the sessions stay.
NewKeeps(c) ==
  /\ c \in made \ Bare
  /\ LeavesBehind(c)
  /\ UNCHANGED <<prompts, phase, following, token, session, cached, stored, topics>>

\* /new clears the sessions of the scope.
New(c) ==
  /\ c \in made \ Bare
  /\ stored' = [stored EXCEPT ![c] = None]
  /\ LeavesBehind(c)
  /\ UNCHANGED <<prompts, phase, following, token, session, cached, topics>>

\* /fork reads the topic ...
ForkReads(c, d) ==
  /\ c \in made \cap Topic /\ d \in Forked \ made /\ copied[d] = None
  /\ copied' = [copied EXCEPT ![d] = stored[c]]
  /\ UNCHANGED <<prompts, phase, following, token, session, cached, stored, made, history>>

\* ... and once the new one is made, stores what it has read.
ForkStores(d) ==
  /\ d \notin made
  /\ made' = made \cup {d}
  /\ stored' = [stored EXCEPT ![d] = copied[d]]
  /\ UNCHANGED <<prompts, phase, following, token, session, cached, copied, history>>

Resolve(p) == ResolveKnown(p) \/ ResolveRunning(p) \/ ResolveStored(p)
Run(p)     == RunFails(p) \/ RunBegins(p) \/ Announce(p) \/ Store(p) \/ RunEnds(p) \/ Finish(p)
Prompts(p) == Resolve(p) \/ WaitForResume(p) \/ Run(p)

Next ==
  \/ \E c \in Scope : \/ \E t \in NumberOrNone : Dispatch(c, t)
                      \/ CronRun(c) \/ New(c)
                      \/ \E d \in Forked : ForkReads(c, d)
  \/ \E d \in Forked : ForkStores(d)
  \/ \E p \in Sent : Ask(p) \/ Prompts(p)

Spec == Init /\ [][Next]_vars

(***************************************************************************)
(* Properties.                                                             *)
(***************************************************************************)
\* Session s is at home in scope c: a run of c started it, a reply of c went back to it,
\* or /fork brought it.
AtHome(s, c) ==
  \/ ScopeOf(s) = c
  \/ \E p \in Sent : /\ ScopeOf(p) = c /\ Target(p) # None
                     /\ s \in {session[Target(p)], token[Target(p)]}
  \/ c \in Forked /\ copied[c] = s

\* Conversations do not mix: what is stored for a topic or a sender, and what their
\* prompts resume, is a session of theirs, though prompts, replies to runs of other
\* scopes, scheduled jobs and forks interleave (loop.py 1259-1283, 1700-1737;
\* chat_sessions.py; topic_state.py).
SessionsStayHome ==
  /\ \A c \in Scope : stored[c] # None => AtHome(stored[c], c)
  /\ \A p \in Sent : token[p] # None => AtHome(token[p], ScopeOf(p))

\* A prompt that waits for a running task goes on with the session of that task, however
\* late it is announced, and is refused only if the task ended without one
\* (loop.py 848-949).
FollowersFollow ==
  \A p \in Sent : following[p] # None /\ phase[p] # "waiting" =>
    LET t == following[p] IN
    IF phase[p] = "refused" THEN session[t] = None /\ phase[t] \notin Alive
                            ELSE token[p] = session[t] /\ token[p] # None

\* What /new has left is stored and resumed again only because of a prompt that was
\* under way, or of a reply that goes back to it (commands/topics.py 232-275).
NewLeavesBehind ==
  LET back == {session[q] : q \in underway} IN
  /\ stored[Observed] \in left => stored[Observed] \in back
  /\ \A p \in Of(Observed) \ underway :
       ~Done(p) /\ token[p] \in left => token[p] \in back
===============================================================================
