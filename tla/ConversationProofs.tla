-------------------------- MODULE ConversationProofs ---------------------------
(***************************************************************************)
(* Proofs about Conversation, for any scopes, forks and number of prompts. *)
(* What is known of prompts and sessions only grows: from that follows     *)
(* where a session is at home, whom a reply follows, and what a /new       *)
(* leaves behind.                                                          *)
(***************************************************************************)
EXTENDS Conversation, TLAPS

----------------------------------------------------------------------------
(***************************************************************************)
(* Types.                                                                  *)
(***************************************************************************)
LEMMA Numbers == NumberOrNone = Number \cup {None} /\ None \notin Number
BY ConversationAssumption DEF NumberOrNone, Number, None

LEMMA SentAreNumbers == TypeOK => Sent \subseteq Number
BY ConversationAssumption DEF TypeOK, Sent, Number

\* Prompt p, the next one, is sent for scope c: it replies to t, if to any, and resumes s if
\* it is in the cache, or if it answers a question of the run that announced s.
Sends(c, t, p, s) ==
  /\ p \in Number \ Sent /\ Sent' = Sent \cup {p}
  /\ prompts' \in Seq(Prompt) /\ Len(prompts') <= MaxPrompts
  /\ prompts'[p].scope = c /\ prompts'[p].to = t
  /\ \A q \in Sent : prompts'[q] = prompts[q]
  /\ \E w \in {"resolving", "accepted"} : phase' = [phase EXCEPT ![p] = w]
  /\ token' = [token EXCEPT ![p] = s]
  /\ \/ s = None /\ t \in Sent \cup {None}
     \/ t \in Sent /\ s = cached[t] /\ (c = Observed => s \notin left')
     \/ t = None /\ \E a \in Sent : ScopeOf(a) = c /\ phase[a] = "stored" /\ s = session[a]
  /\ left' \subseteq left
  /\ UNCHANGED <<following, session, cached, stored, made, copied, underway>>

LEMMA Appended ==
  ASSUME TypeOK, Len(prompts) < MaxPrompts,
         NEW r \in Prompt, prompts' = Append(prompts, r)
  PROVE  LET p == Len(prompts) + 1 IN
         /\ p \in Number \ Sent /\ Sent' = Sent \cup {p}
         /\ prompts' \in Seq(Prompt) /\ Len(prompts') <= MaxPrompts
         /\ prompts'[p].scope = r.scope /\ prompts'[p].to = r.to
         /\ \A q \in Sent : prompts'[q] = prompts[q]
BY ConversationAssumption DEF TypeOK, Sent, Number

LEMMA DispatchSends ==
  ASSUME TypeOK, NEW c \in Scope, NEW t \in NumberOrNone, Dispatch(c, t)
  PROVE  \E p \in Number, s \in NumberOrNone : Sends(c, t, p, s)
<1>1. PICK p \in Number : p = Len(prompts) + 1
  BY ConversationAssumption DEF TypeOK, Number, Dispatch
<1>2. PICK r \in Prompt : r = [scope |-> c, to |-> t, stores |-> c \notin Bare]
  <2>1. [scope |-> c, to |-> t, stores |-> c \notin Bare] \in Prompt
    BY DEF Prompt
  <2> QED
    BY <2>1, Zenon
<1>3. t # None => t \in Sent /\ t \in Number
  BY SentAreNumbers DEF Dispatch, Shown
<1>4. PICK s \in IF t = None THEN {None} ELSE {None, cached[t]} :
        token' = [token EXCEPT ![p] = s] /\ CarriesBack(c, s)
  BY <1>1 DEF Dispatch
<1>5. s \in NumberOrNone /\ (s = None \/ (t \in Sent /\ s = cached[t])) /\ t \in Sent \cup {None}
  BY <1>3, <1>4, Numbers DEF TypeOK
<1>6. left' \subseteq left /\ underway' = underway /\ (c = Observed => s \notin left')
  BY <1>4 DEF CarriesBack
<1>7. /\ p \in Number \ Sent /\ Sent' = Sent \cup {p}
      /\ prompts' \in Seq(Prompt) /\ Len(prompts') <= MaxPrompts
      /\ prompts'[p].scope = c /\ prompts'[p].to = t /\ \A q \in Sent : prompts'[q] = prompts[q]
  <2>1. prompts' = Append(prompts, r) /\ Len(prompts) < MaxPrompts
    BY <1>1, <1>2 DEF Dispatch
  <2> QED
    BY <1>1, <1>2, <2>1, Appended
<1> QED
  BY <1>1, <1>4, <1>5, <1>6, <1>7 DEF Dispatch, Enters, Sends, topics

LEMMA CronSends ==
  ASSUME TypeOK, NEW c \in Scope, CronRun(c)
  PROVE  \E p \in Number : Sends(c, None, p, None) /\ None \in NumberOrNone
<1>1. PICK p \in Number : p = Len(prompts) + 1
  BY ConversationAssumption DEF TypeOK, Number, CronRun
<1>2. PICK r \in Prompt : r = [scope |-> c, to |-> None, stores |-> c \notin Bare]
  <2>1. [scope |-> c, to |-> None, stores |-> c \notin Bare] \in Prompt
    BY Numbers DEF Prompt
  <2> QED
    BY <2>1, Zenon
<1>3. /\ p \in Number \ Sent /\ Sent' = Sent \cup {p}
      /\ prompts' \in Seq(Prompt) /\ Len(prompts') <= MaxPrompts
      /\ prompts'[p].scope = c /\ prompts'[p].to = None /\ \A q \in Sent : prompts'[q] = prompts[q]
  <2>1. prompts' = Append(prompts, r) /\ Len(prompts) < MaxPrompts
    BY <1>1, <1>2 DEF CronRun
  <2> QED
    BY <1>1, <1>2, <2>1, Appended
<1> QED
  BY <1>1, <1>3, Numbers DEF CronRun, Enters, Sends, topics, history

LEMMA AskSends ==
  ASSUME TypeOK, NEW a \in Sent, Ask(a)
  PROVE  \E c \in Scope, p \in Number, s \in NumberOrNone : Sends(c, None, p, s)
<1>1. PICK p \in Number : p = Len(prompts) + 1
  BY ConversationAssumption DEF TypeOK, Number, Ask
<1>2. prompts[a] \in Prompt /\ session[a] \in NumberOrNone
  BY SentAreNumbers DEF TypeOK, Sent
<1>3. PICK c \in Scope : c = ScopeOf(a)
  BY <1>2 DEF Prompt, ScopeOf
<1>4. PICK r \in Prompt : r = [scope |-> c, to |-> None, stores |-> c \in Topic]
  <2>1. [scope |-> c, to |-> None, stores |-> c \in Topic] \in Prompt
    BY Numbers DEF Prompt
  <2> QED
    BY <2>1, Zenon
<1>5. /\ p \in Number \ Sent /\ Sent' = Sent \cup {p}
      /\ prompts' \in Seq(Prompt) /\ Len(prompts') <= MaxPrompts
      /\ prompts'[p].scope = c /\ prompts'[p].to = None /\ \A q \in Sent : prompts'[q] = prompts[q]
  <2>1. prompts' = Append(prompts, r) /\ Len(prompts) < MaxPrompts
    BY <1>1, <1>3, <1>4 DEF Ask
  <2> QED
    BY <1>1, <1>3, <1>4, <2>1, Appended
<1>6. Sends(c, None, p, session[a])
  BY <1>1, <1>3, <1>5 DEF Ask, Enters, Sends, topics, history
<1> QED
  BY <1>2, <1>6

\* A prompt waits for a task.
WaitersFollow == \A p \in Number : phase[p] = "waiting" => following[p] \in Number

TypeInv == TypeOK /\ WaitersFollow

\* What a session of a scope is.
LEMMA SessionOf ==
  ASSUME NEW c, NEW s \in SessionsOf(c)
  PROVE  /\ s # None
         /\ \/ \E p \in Of(c) : s \in {token[p], session[p]} \/ (s = p /\ ~Done(p))
            \/ c \in Forked /\ s = copied[c]
<1> DEFINE A(p) == {token[p], session[p], IF Done(p) THEN None ELSE p}
           B == IF c \in Forked THEN {copied[c]} ELSE {}
<1>1. s # None /\ (s \in UNION {A(p) : p \in Of(c)} \/ s \in B)
  BY DEF SessionsOf
<1>2. CASE s \in B
  BY <1>1, <1>2
<1>3. CASE s \in UNION {A(p) : p \in Of(c)}
  <2>1. PICK p \in Of(c) : s \in A(p)
    BY <1>3
  <2>2. s \in {token[p], session[p]} \/ (s = p /\ ~Done(p))
    BY <1>1, <2>1
  <2> QED
    BY <1>1, <2>2
<1> QED
  BY <1>1, <1>2, <1>3

LEMMA TypeInit == Init => TypeInv
BY ConversationAssumption DEF Init, TypeInv, TypeOK, WaitersFollow, Number, NumberOrNone, None, Phase, Prompt

LEMMA TypePrompts ==
  ASSUME TypeInv, NEW p \in Sent, Prompts(p)
  PROVE  TypeInv'
<1>0. p \in Number
  BY SentAreNumbers DEF TypeInv
<1> USE <1>0, Numbers DEF TypeInv, WaitersFollow, TypeOK, Enters, topics, history, CarriesBack, Phase, Alive, Final
<1>1. CASE Resolve(p)
  <2>1. ScopeOf(p) \in Scope /\ Target(p) \in NumberOrNone
    <3>1. prompts[p] \in Prompt
      BY DEF Sent
    <3> QED
      BY <3>1 DEF Prompt, ScopeOf, Target
  <2>2. CASE ResolveKnown(p)
    BY <2>2 DEF ResolveKnown, Moves
  <2>3. CASE ResolveRunning(p)
    BY <2>1, <2>3 DEF ResolveRunning, RepliesToRunning
  <2>4. CASE ResolveStored(p)
    BY <2>1, <2>4 DEF ResolveStored
  <2> QED
    BY <1>1, <2>2, <2>3, <2>4 DEF Resolve
<1>2. CASE WaitForResume(p)
  <2>1. phase' \in [Number -> Phase]
    BY <1>2 DEF WaitForResume
  <2>2. left' \subseteq Number /\ underway' \subseteq Number
    BY <1>2 DEF WaitForResume
  <2>3. token' \in [Number -> NumberOrNone]
    BY <1>2 DEF WaitForResume
  <2> QED
    BY <1>2, <2>1, <2>2, <2>3 DEF WaitForResume
<1>3. CASE Run(p)
  <2>1. CASE RunFails(p) \/ RunBegins(p) \/ RunEnds(p)
    BY <2>1 DEF RunFails, RunBegins, RunEnds, Moves
  <2>2. CASE Announce(p)
    BY <2>2 DEF Announce
  <2>3. CASE Store(p)
    BY <2>3 DEF Store
  <2>4. CASE Finish(p)
    BY <2>4 DEF Finish
  <2> QED
    BY <1>3, <2>1, <2>2, <2>3, <2>4 DEF Run
<1> QED
  BY <1>1, <1>2, <1>3 DEF Prompts

\* The steps, by what they do to the prompts.
LEMMA NextCases ==
  ASSUME TypeOK, Next
  PROVE  \/ \E c \in Scope, t \in NumberOrNone, p \in Number, s \in NumberOrNone : Sends(c, t, p, s)
         \/ \E c \in Scope : New(c)
         \/ \E c \in Scope, d \in Forked : ForkReads(c, d)
         \/ \E d \in Forked : ForkStores(d)
         \/ \E p \in Sent : Prompts(p)
BY DispatchSends, CronSends, AskSends, Numbers DEF Next

LEMMA TypeNext == TypeInv /\ [Next]_vars => TypeInv'
<1> SUFFICES ASSUME TypeInv, [Next]_vars PROVE TypeInv'
  OBVIOUS
<1> USE Numbers DEF topics, history
<1>1. CASE UNCHANGED vars
  BY <1>1 DEF TypeInv, WaitersFollow, TypeOK, vars
<1>2. ASSUME NEW c \in Scope, NEW t \in NumberOrNone, NEW p \in Number, NEW s \in NumberOrNone,
             Sends(c, t, p, s)
      PROVE  TypeInv'
  BY <1>2 DEF TypeInv, WaitersFollow, TypeOK, Sends, Phase
<1>4. ASSUME NEW c \in Scope, New(c) PROVE TypeInv'
  <2>1. left' \subseteq Number /\ underway' \subseteq Number
    <3>1. SessionsOf(c) \subseteq Number
      <4>1. \A p \in Of(c) : p \in Number
        BY SentAreNumbers DEF TypeInv, Of
      <4>2. \A p \in Of(c) : token[p] \in NumberOrNone /\ session[p] \in NumberOrNone
        BY <4>1 DEF TypeInv, TypeOK
      <4>3. c \in Forked => copied[c] \in NumberOrNone
        BY DEF TypeInv, TypeOK
      <4> QED
        BY <4>1, <4>2, <4>3, SessionOf
    <3>2. Of(c) \subseteq Number
      BY SentAreNumbers DEF TypeInv, Of
    <3> QED
      BY <1>4, <3>1, <3>2 DEF TypeInv, WaitersFollow, TypeOK, New, LeavesBehind
  <2> QED
    BY <1>4, <2>1 DEF TypeInv, WaitersFollow, TypeOK, New
<1>5. ASSUME NEW c \in Scope, NEW d \in Forked, ForkReads(c, d) PROVE TypeInv'
  BY <1>5 DEF TypeInv, WaitersFollow, TypeOK, ForkReads
<1>6. ASSUME NEW d \in Forked, ForkStores(d) PROVE TypeInv'
  BY <1>6, ConversationAssumption DEF TypeInv, WaitersFollow, TypeOK, ForkStores, Scope
<1>7. ASSUME NEW p \in Sent, Prompts(p) PROVE TypeInv'
  BY <1>7, TypePrompts
<1> QED
  BY <1>1, <1>2, <1>4, <1>5, <1>6, <1>7, NextCases DEF TypeInv

\* The variables keep their types.
THEOREM TypeCorrect == Spec => []TypeOK
<1>1. TypeInv => TypeOK
  BY DEF TypeInv
<1> QED
  BY <1>1, TypeInit, TypeNext, PTL DEF Spec

----------------------------------------------------------------------------
(***************************************************************************)
(* What is known.                                                          *)
(***************************************************************************)
Known == Sent \cup {None}

\* Whatever refers to a prompt or a session refers to a prompt that was sent.
KnownInv ==
  /\ \A p \in Number : /\ token[p] \in Known /\ session[p] \in Known
                       /\ following[p] \in Known /\ cached[p] \in Known
  /\ \A p \in Sent : Target(p) \in Known
  /\ \A c \in Scope : stored[c] \in Known
  /\ \A d \in Forked : copied[d] \in Known
  /\ left \subseteq Sent

\* What a prompt knows of sessions, by where it is.
Early == {"unsent", "resolving", "waiting", "accepted", "running"}
PhaseInv ==
  \A p \in Number :
    /\ p \notin Sent => phase[p] = "unsent"
    /\ phase[p] \in {"unsent", "waiting"} => token[p] = None
    /\ phase[p] \in {"unsent", "resolving"} => following[p] = None
    /\ phase[p] \in Early => session[p] = None
    /\ phase[p] \in {"announced", "stored"} => session[p] # None
    /\ session[p] # None => session[p] = IF token[p] = None THEN p ELSE token[p]
    /\ cached[p] \in {None, session[p], token[p]}

KnowInv == TypeInv /\ KnownInv /\ PhaseInv

LEMMA KnowInit == Init => KnowInv
<1> SUFFICES ASSUME Init PROVE KnowInv
  OBVIOUS
<1>1. TypeInv
  BY TypeInit
<1>2. Sent = {}
  BY DEF Init, Sent
<1> QED
  BY <1>1, <1>2, ConversationAssumption
  DEF Init, KnowInv, KnownInv, PhaseInv, Known, Early, Number, NumberOrNone, None

\* Steps of a prompt that was sent.
LEMMA KnowPrompts ==
  ASSUME KnowInv, NEW p \in Sent, Prompts(p)
  PROVE  KnowInv'
<1>1. TypeInv'
  BY TypePrompts DEF KnowInv
<1>2. p \in Number /\ Sent \subseteq Number /\ Known = Sent \cup {None} /\ p # None /\ None \notin Sent
  BY SentAreNumbers, Numbers DEF KnowInv, TypeInv, Known
<1>3. prompts' = prompts /\ Sent' = Sent /\ Known' = Known
  BY DEF Prompts, Resolve, ResolveKnown, ResolveRunning, ResolveStored, WaitForResume, Run, RunFails,
         RunBegins, Announce, Store, RunEnds, Finish, Moves, Sent, Known
<1>4. prompts[p] \in Prompt /\ ScopeOf(p) \in Scope /\ Target(p) \in Known
  <2>1. prompts[p] \in Prompt
    BY DEF KnowInv, TypeInv, TypeOK, Sent
  <2> QED
    BY <2>1 DEF Prompt, ScopeOf, KnowInv, KnownInv
<1> USE <1>2, <1>3 DEF Enters, history, topics
<1>5. KnownInv' /\ PhaseInv'
  <2>1. CASE ResolveKnown(p) \/ RunFails(p) \/ RunBegins(p) \/ RunEnds(p)
    BY <2>1 DEF KnowInv, TypeInv, TypeOK, KnownInv, PhaseInv, ResolveKnown, RunFails, RunBegins,
                RunEnds, Moves, Early, Alive, Target
  <2>2. CASE ResolveRunning(p)
    BY <1>4, <2>2 DEF KnowInv, TypeInv, TypeOK, KnownInv, PhaseInv, ResolveRunning, Early, Target
  <2>3. CASE ResolveStored(p)
    BY <1>4, <2>3 DEF KnowInv, TypeInv, TypeOK, KnownInv, PhaseInv, ResolveStored, Early, Target
  <2>4. CASE WaitForResume(p)
    <3>1. following[p] \in Number /\ session[following[p]] \in Known /\ left' \subseteq Sent
      BY <2>4 DEF KnowInv, TypeInv, WaitersFollow, KnownInv, WaitForResume, CarriesBack
    <3> QED
      BY <2>4, <3>1 DEF KnowInv, TypeInv, TypeOK, KnownInv, PhaseInv, WaitForResume, Early, Target
  <2>5. CASE Announce(p)
    BY <2>5 DEF KnowInv, TypeInv, TypeOK, KnownInv, PhaseInv, Announce, Early, Target
  <2>6. CASE Store(p)
    BY <1>4, <2>6 DEF KnowInv, TypeInv, TypeOK, KnownInv, PhaseInv, Store, Early, Target
  <2>7. CASE Finish(p)
    BY <2>7 DEF KnowInv, TypeInv, TypeOK, KnownInv, PhaseInv, Finish, Early, Target
  <2> QED
    BY <2>1, <2>2, <2>3, <2>4, <2>5, <2>6, <2>7 DEF Prompts, Resolve, Run
<1> QED
  BY <1>1, <1>5 DEF KnowInv

\* Prompts that are sent.
LEMMA KnowSent ==
  ASSUME KnowInv, TypeInv',
         NEW c \in Scope, NEW t \in NumberOrNone, NEW p \in Number, NEW s \in NumberOrNone,
         Sends(c, t, p, s)
  PROVE  KnowInv'
<1>1. /\ Sent \subseteq Number /\ Known = Sent \cup {None} /\ None \notin Number
      /\ Known' = Known \cup {p}
  BY SentAreNumbers, Numbers DEF KnowInv, TypeInv, Known, Sends
<1>2. s \in Known /\ t \in Known
  BY <1>1 DEF Sends, KnowInv, KnownInv
<1>3. KnownInv'
  BY <1>1, <1>2 DEF Sends, KnowInv, KnownInv, TypeInv, TypeOK, Target
<1>4. PhaseInv'
  BY <1>1, <1>2 DEF Sends, KnowInv, PhaseInv, TypeInv, TypeOK, Early
<1> QED
  BY <1>3, <1>4 DEF KnowInv

\* Commands.
LEMMA KnowNext == KnowInv /\ [Next]_vars => KnowInv'
<1> SUFFICES ASSUME KnowInv, [Next]_vars PROVE KnowInv'
  OBVIOUS
<1>1. TypeInv'
  BY TypeNext DEF KnowInv
<1> USE DEF topics, history
<1>2. CASE UNCHANGED vars
  BY <1>1, <1>2 DEF vars, KnowInv, KnownInv, PhaseInv, Known, Sent, Target
<1>3. ASSUME NEW c \in Scope, NEW t \in NumberOrNone, NEW p \in Number, NEW s \in NumberOrNone,
             Sends(c, t, p, s)
      PROVE  KnowInv'
  BY <1>1, <1>3, KnowSent
<1>5. ASSUME NEW c \in Scope, New(c) PROVE KnowInv'
  <2>1. left' \subseteq Sent
    <3>1. SessionsOf(c) \subseteq Sent
      BY SessionOf, SentAreNumbers DEF KnowInv, KnownInv, Known, Of, TypeInv
    <3> QED
      BY <1>5, <3>1 DEF KnowInv, KnownInv, New, LeavesBehind
  <2>2. Sent' = Sent /\ Known' = Known
    BY <1>5 DEF New, Sent, Known
  <2> QED
    BY <1>1, <1>5, <2>1, <2>2 DEF KnowInv, TypeInv, TypeOK, KnownInv, PhaseInv, New, Known, Target
<1>6. ASSUME NEW c \in Scope, NEW d \in Forked, ForkReads(c, d) PROVE KnowInv'
  BY <1>1, <1>6 DEF KnowInv, TypeInv, TypeOK, KnownInv, PhaseInv, ForkReads, Known, Sent, Target
<1>7. ASSUME NEW d \in Forked, ForkStores(d) PROVE KnowInv'
  BY <1>1, <1>7 DEF KnowInv, TypeInv, TypeOK, KnownInv, PhaseInv, ForkStores, Known, Sent, Target
<1>8. ASSUME NEW p \in Sent, Prompts(p) PROVE KnowInv'
  BY <1>8, KnowPrompts
<1> QED
  BY <1>2, <1>3, <1>5, <1>6, <1>7, <1>8, NextCases DEF KnowInv, TypeInv

\* Sessions that are known stay as they are, and so does what was sent.
Grows ==
  /\ \A p \in Sent : p \in Sent' /\ prompts'[p] = prompts[p]
  /\ \A p \in Number : token[p] # None => token'[p] = token[p]
  /\ \A p \in Number : session[p] # None => session'[p] = session[p]
  /\ \A d \in Forked : copied[d] # None => copied'[d] = copied[d]

LEMMA StepsGrow ==
  ASSUME KnowInv, [Next]_vars
  PROVE  Grows
<1> USE DEF KnowInv, TypeInv, TypeOK, topics, history
<1>1. CASE UNCHANGED vars
  BY <1>1 DEF vars, Grows, Sent
<1>2. ASSUME NEW c \in Scope, NEW t \in NumberOrNone, NEW p \in Number, NEW s \in NumberOrNone,
             Sends(c, t, p, s)
      PROVE  Grows
  <2>1. token[p] = None
    BY <1>2 DEF Sends, PhaseInv
  <2> QED
    BY <1>2, <2>1 DEF Sends, Grows
<1>3. ASSUME NEW c \in Scope, New(c) PROVE Grows
  BY <1>3 DEF New, Grows, Sent
<1>4. ASSUME NEW c \in Scope, NEW d \in Forked, ForkReads(c, d) PROVE Grows
  BY <1>4 DEF ForkReads, Grows, Sent
<1>5. ASSUME NEW d \in Forked, ForkStores(d) PROVE Grows
  BY <1>5 DEF ForkStores, Grows, Sent
<1>6. ASSUME NEW p \in Sent, Prompts(p) PROVE Grows
  <2>1. p \in Number
    BY SentAreNumbers
  <2>2. CASE Resolve(p) \/ WaitForResume(p)
    BY <2>1, <2>2 DEF Resolve, ResolveKnown, ResolveRunning, ResolveStored, WaitForResume, Moves,
                      PhaseInv, Grows, Sent
  <2>3. CASE Announce(p)
    BY <2>1, <2>3 DEF Announce, PhaseInv, Early, Grows, Sent
  <2>4. CASE RunFails(p) \/ RunBegins(p) \/ Store(p) \/ RunEnds(p) \/ Finish(p)
    BY <2>4 DEF RunFails, RunBegins, Store, RunEnds, Finish, Moves, Grows, Sent
  <2> QED
    BY <1>6, <2>2, <2>3, <2>4 DEF Prompts, Run
<1> QED
  BY <1>1, <1>2, <1>3, <1>4, <1>5, <1>6, NextCases

----------------------------------------------------------------------------
(***************************************************************************)
(* Home and followers.                                                     *)
(***************************************************************************)
\* Once at home, always at home.
LEMMA AtHomeGrows ==
  ASSUME KnowInv, Grows, NEW s \in Sent, NEW c \in Scope, AtHome(s, c)
  PROVE  AtHome(s, c)'
<1>1. s # None /\ Sent \subseteq Number /\ s \in Sent'
  BY SentAreNumbers, Numbers DEF KnowInv, TypeInv, Grows
<1>2. CASE ScopeOf(s) = c
  BY <1>2 DEF AtHome, ScopeOf, Grows
<1>3. ASSUME NEW p \in Sent, ScopeOf(p) = c, Target(p) # None,
             s \in {session[Target(p)], token[Target(p)]}
      PROVE  AtHome(s, c)'
  <2>1. Target(p) \in Number
    BY <1>1, <1>3 DEF KnowInv, KnownInv, Known
  <2>2. p \in Sent' /\ prompts'[p] = prompts[p]
    BY DEF Grows
  <2>3. s \in {session'[Target(p)], token'[Target(p)]}
    BY <1>1, <1>3, <2>1 DEF Grows
  <2> QED
    BY <1>3, <2>2, <2>3 DEF AtHome, ScopeOf, Target
<1>4. CASE c \in Forked /\ copied[c] = s
  BY <1>1, <1>4 DEF Grows, AtHome
<1> QED
  BY <1>2, <1>3, <1>4 DEF AtHome

HomeInv ==
  /\ \A c \in Scope, s \in Number : stored[c] = s => AtHome(s, c)
  /\ \A p \in Sent, c \in Scope, s \in Number : ScopeOf(p) = c /\ token[p] = s => AtHome(s, c)
  /\ \A p \in Sent : following[p] # None => following[p] = Target(p)

\* A prompt that follows another does so while that one is alive, or was.
FollowInv ==
  \A p \in Number : following[p] # None =>
    LET t == following[p] IN
      /\ phase[t] \in Alive \cup {"finishing", "over"}
      /\ phase[p] = "refused" => session[t] = None /\ phase[t] \in {"finishing", "over"}
      /\ phase[p] \notin {"waiting", "refused"} => token[p] = session[t] /\ token[p] # None

\* A store or a token that is new is at home already.
LEMMA HomeNext ==
  ASSUME KnowInv, HomeInv, [Next]_vars
  PROVE  HomeInv'
<1>1. Grows /\ KnowInv'
  BY StepsGrow, KnowNext
<1>2. Sent \subseteq Number /\ None \notin Number /\ NumberOrNone = Number \cup {None}
  BY SentAreNumbers, Numbers DEF KnowInv, TypeInv
<1>3. ASSUME NEW s \in Number, NEW c \in Scope, AtHome(s, c), s \in Sent PROVE AtHome(s, c)'
  BY <1>1, <1>3, AtHomeGrows
<1>4. ASSUME NEW c \in Scope, stored'[c] \in {None, stored[c]},
             NEW s \in Number, stored'[c] = s
      PROVE  AtHome(s, c)'
  BY <1>2, <1>3, <1>4 DEF HomeInv, KnowInv, KnownInv, Known
<1>5. ASSUME NEW p \in Sent, token'[p] = token[p], NEW c \in Scope, NEW s \in Number,
             ScopeOf(p)' = c, token'[p] = s
      PROVE  AtHome(s, c)' /\ ScopeOf(p) = c
  BY <1>1, <1>2, <1>3, <1>5, ZenonT(60) DEF HomeInv, KnowInv, KnownInv, Known, Grows, ScopeOf
<1>6. ASSUME NEW p \in Sent, following'[p] = following[p], following'[p] # None
      PROVE  following'[p] = Target(p)'
  BY <1>1, <1>6 DEF HomeInv, Grows, Target
<1> USE DEF topics, history
<1>7. CASE UNCHANGED vars
  BY <1>4, <1>5, <1>6, <1>7 DEF vars, HomeInv, Sent
<1>8. ASSUME NEW c \in Scope, NEW t \in NumberOrNone, NEW p \in Number, NEW s \in NumberOrNone,
             Sends(c, t, p, s)
      PROVE  HomeInv'
  <2>1. /\ p \notin Sent /\ Sent' = Sent \cup {p} /\ ScopeOf(p)' = c /\ Target(p)' = t
        /\ following' = following /\ stored' = stored /\ \A q \in Sent : token'[q] = token[q]
        /\ token'[p] = s
    BY <1>2, <1>8 DEF Sends, ScopeOf, Target, KnowInv, TypeInv, TypeOK
  <2>2. following[p] = None
    BY <2>1 DEF KnowInv, PhaseInv
  <2>3. ASSUME s \in Number PROVE AtHome(s, c)'
    <3>1. CASE t \in Sent /\ s = cached[t]
      <4>1. s \in {session[t], token[t]} /\ t \in Number
        BY <1>2, <2>3, <3>1 DEF KnowInv, PhaseInv
      <4>2. s \in {session'[t], token'[t]} /\ t # None
        BY <1>1, <1>2, <2>3, <4>1 DEF Grows
      <4> QED
        BY <2>1, <4>2 DEF AtHome, ScopeOf, Target
    <3>2. ASSUME NEW a \in Sent, ScopeOf(a) = c, phase[a] = "stored", s = session[a]
          PROVE  AtHome(s, c)'
      <4>1. s \in {a, token[a]} /\ s \in Sent
        BY <1>2, <2>3, <3>2 DEF KnowInv, PhaseInv, KnownInv, Known
      <4>2. AtHome(s, c)
        BY <2>3, <3>2, <4>1 DEF HomeInv, AtHome
      <4> QED
        BY <1>3, <2>3, <4>1, <4>2
    <3> QED
      BY <1>2, <1>8, <2>3, <3>1, <3>2 DEF Sends
  <2> QED
    BY <1>2, <1>4, <1>5, <1>6, <2>1, <2>2, <2>3 DEF HomeInv
<1>9. ASSUME NEW c \in Scope, New(c) PROVE HomeInv'
  <2>1. \A d \in Scope : stored'[d] \in {None, stored[d]}
    BY <1>9 DEF New, KnowInv, TypeInv, TypeOK
  <2>2. token' = token /\ following' = following /\ Sent' = Sent
    BY <1>9 DEF New, Sent
  <2> QED
    BY <1>4, <1>5, <1>6, <2>1, <2>2 DEF HomeInv
<1>10. ASSUME NEW c \in Scope, NEW d \in Forked, ForkReads(c, d) PROVE HomeInv'
  BY <1>4, <1>5, <1>6, <1>10 DEF ForkReads, HomeInv, Sent
<1>11. ASSUME NEW d \in Forked, ForkStores(d) PROVE HomeInv'
  <2>1. token' = token /\ following' = following /\ Sent' = Sent /\ copied' = copied
    BY <1>11 DEF ForkStores, Sent
  <2>2. \A c \in Scope \ {d} : stored'[c] = stored[c]
    BY <1>11 DEF ForkStores, KnowInv, TypeInv, TypeOK
  <2>3. d \in Scope => stored'[d] = copied'[d]
    BY <1>11, <2>1 DEF ForkStores, KnowInv, TypeInv, TypeOK
  <2>4. ASSUME NEW s \in Number, d \in Scope, stored'[d] = s PROVE AtHome(s, d)'
    BY <2>3, <2>4 DEF AtHome
  <2> QED
    BY <1>4, <1>5, <1>6, <2>1, <2>2, <2>4 DEF HomeInv
<1>12. ASSUME NEW p \in Sent, Prompts(p) PROVE HomeInv'
  <2>1. p \in Number /\ prompts[p] \in Prompt
    BY <1>2 DEF Sent, KnowInv, TypeInv, TypeOK
  <2>2. ScopeOf(p) \in Scope
    BY <2>1 DEF Prompt, ScopeOf
  <2>3. prompts' = prompts /\ Sent' = Sent
    BY <1>12 DEF Prompts, Resolve, ResolveKnown, ResolveRunning, ResolveStored, WaitForResume, Run,
                 RunFails, RunBegins, Announce, Store, RunEnds, Finish, Moves, Sent
  <2>4. /\ \A q \in Sent \ {p} : token'[q] = token[q] /\ following'[q] = following[q]
        /\ \A c \in Scope \ {ScopeOf(p)} : stored'[c] = stored[c]
    <3>1. CASE Resolve(p) \/ WaitForResume(p)
      BY <1>2, <3>1 DEF KnowInv, TypeInv, TypeOK, Resolve, ResolveKnown, ResolveRunning,
                        ResolveStored, WaitForResume, Moves
    <3>2. CASE Store(p)
      BY <2>2, <3>2 DEF KnowInv, TypeInv, TypeOK, Store
    <3>3. CASE RunFails(p) \/ RunBegins(p) \/ Announce(p) \/ RunEnds(p) \/ Finish(p)
      BY <3>3 DEF RunFails, RunBegins, Announce, RunEnds, Finish, Moves
    <3> QED
      BY <1>12, <3>1, <3>2, <3>3 DEF Prompts, Run
  <2>5. ASSUME following'[p] # None PROVE following'[p] = Target(p)'
    <3>1. following'[p] \in {following[p], Target(p)}
      BY <1>12, <2>1 DEF KnowInv, TypeInv, TypeOK, Prompts, Resolve, ResolveKnown, ResolveRunning,
         ResolveStored, WaitForResume, Run, RunFails, RunBegins, Announce, Store, RunEnds, Finish, Moves
    <3> QED
      BY <1>6, <2>3, <2>5, <3>1 DEF Target
  <2>6. ASSUME NEW s \in Number, token'[p] = s PROVE AtHome(s, ScopeOf(p))'
    <3> DEFINE c == ScopeOf(p)
    <3>1. CASE token'[p] = token[p]
      BY <1>2, <1>3, <2>1, <2>2, <2>6, <3>1, <2>3 DEF HomeInv, KnowInv, KnownInv, Known, ScopeOf
    <3>2. CASE ResolveStored(p)
      <4>1. s = stored[ScopeOf(p)]
        BY <1>2, <2>1, <2>6, <3>2 DEF ResolveStored, KnowInv, TypeInv, TypeOK
      <4> QED
        BY <1>2, <1>3, <2>2, <2>3, <4>1 DEF HomeInv, KnowInv, KnownInv, Known, ScopeOf
    <3>3. CASE WaitForResume(p)
      <4>1. s = session[following[p]] /\ following[p] = Target(p) /\ Target(p) \in Number
        BY <1>2, <2>1, <2>6, <3>3 DEF WaitForResume, KnowInv, TypeInv, TypeOK, WaitersFollow, HomeInv
      <4>2. s = session'[Target(p)] /\ Target(p) # None
        BY <1>2, <3>3, <4>1 DEF WaitForResume
      <4> QED
        BY <2>3, <4>2 DEF AtHome, ScopeOf, Target
    <3> QED
      BY <1>12, <3>1, <3>2, <3>3 DEF Prompts, Resolve, ResolveKnown, ResolveRunning, Run, RunFails,
         RunBegins, Announce, Store, RunEnds, Finish, Moves
  <2>7. ASSUME NEW s \in Number, stored'[ScopeOf(p)] = s PROVE AtHome(s, ScopeOf(p))'
    <3>1. CASE stored' = stored
      BY <1>4, <2>2, <2>3, <2>7, <3>1 DEF ScopeOf
    <3>2. CASE Store(p) /\ stored' # stored
      <4>1. s = session[p] /\ s \in {p, token[p]} /\ token' = token
        BY <1>2, <2>1, <2>2, <2>7, <3>2 DEF Store, KnowInv, TypeInv, TypeOK, PhaseInv
      <4>2. CASE s = p
        BY <2>3, <4>2 DEF AtHome, ScopeOf
      <4>3. CASE s = token[p]
        BY <2>6, <4>1, <4>3
      <4> QED
        BY <4>1, <4>2, <4>3
    <3> QED
      BY <1>12, <3>1, <3>2 DEF Prompts, Resolve, ResolveKnown, ResolveRunning, ResolveStored,
         WaitForResume, Run, RunFails, RunBegins, Announce, RunEnds, Finish, Moves
  <2> QED
    BY <1>4, <1>5, <1>6, <2>2, <2>3, <2>4, <2>5, <2>6, <2>7 DEF HomeInv, ScopeOf
<1> QED
  BY <1>7, <1>8, <1>9, <1>10, <1>11, <1>12, NextCases DEF KnowInv, TypeInv

\* Whoever is followed was running, and what it announced is not taken back.
LEMMA FollowNext ==
  ASSUME KnowInv, HomeInv, FollowInv, [Next]_vars
  PROVE  FollowInv'
<1>1. Grows
  BY StepsGrow
<1>2. Sent \subseteq Number /\ None \notin Number /\ NumberOrNone = Number \cup {None}
  BY SentAreNumbers, Numbers DEF KnowInv, TypeInv
<1>3. \A p \in Number : following[p] # None => following[p] \in Sent
  BY DEF KnowInv, KnownInv, Known
<1> USE DEF topics, history, KnowInv, TypeInv, TypeOK
<1>4. ASSUME UNCHANGED <<phase, following, token, session>> PROVE FollowInv'
  BY <1>4 DEF FollowInv
<1>5. ASSUME NEW c \in Scope, NEW t \in NumberOrNone, NEW p \in Number, NEW s \in NumberOrNone,
             Sends(c, t, p, s)
      PROVE  FollowInv'
  <2>1. following[p] = None /\ p \notin Sent
    BY <1>5 DEF Sends, PhaseInv
  <2>2. ASSUME NEW q \in Number, following'[q] # None
        PROVE  LET u == following[q] IN
               /\ following'[q] = u /\ token'[q] = token[q] /\ phase'[q] = phase[q]
               /\ phase'[u] = phase[u] /\ session'[u] = session[u]
    BY <1>2, <1>3, <1>5, <2>1, <2>2 DEF Sends
  <2> QED
    BY <1>5, <2>2 DEF FollowInv, Sends
<1>6. ASSUME NEW p \in Sent, Prompts(p) PROVE FollowInv'
  <2> USE <1>2, <1>3 DEF Enters, Alive
  <2>1. CASE RunFails(p) \/ RunBegins(p) \/ RunEnds(p) \/ ResolveKnown(p)
    BY <2>1 DEF RunFails, RunBegins, RunEnds, ResolveKnown, Moves, FollowInv, PhaseInv
  <2>2. CASE ResolveRunning(p)
    <3>1. /\ p \in Number /\ phase[p] = "resolving" /\ phase' = [phase EXCEPT ![p] = "waiting"]
          /\ following' = [following EXCEPT ![p] = Target(p)]
          /\ token' = token /\ session' = session
      BY <2>2 DEF ResolveRunning
    <3>2. Target(p) \in Sent /\ phase[Target(p)] \in Alive /\ Target(p) # p
      BY <2>2 DEF ResolveRunning, RepliesToRunning, KnownInv, Known
    <3>3. ASSUME NEW q \in Number, q # p, following'[q] # None
          PROVE  following'[q] = following[q] /\ phase'[q] = phase[q] /\ following[q] # p
      BY <3>1, <3>3 DEF FollowInv
    <3>4. phase'[p] = "waiting" /\ following'[p] = Target(p) /\ phase'[Target(p)] \in Alive
      BY <3>1, <3>2
    <3> QED
      BY <3>1, <3>3, <3>4 DEF FollowInv
  <2>3. CASE ResolveStored(p)
    BY <2>3 DEF ResolveStored, FollowInv, PhaseInv
  <2>4. CASE WaitForResume(p)
    BY <2>4 DEF WaitForResume, FollowInv, WaitersFollow
  <2>5. CASE Announce(p)
    BY <2>5 DEF Announce, FollowInv, PhaseInv, Early
  <2>6. CASE Store(p)
    BY <2>6 DEF Store, FollowInv
  <2>7. CASE Finish(p)
    BY <2>7 DEF Finish, FollowInv
  <2> QED
    BY <1>6, <2>1, <2>2, <2>3, <2>4, <2>5, <2>6, <2>7 DEF Prompts, Resolve, Run
<1> QED
  BY <1>4, <1>5, <1>6, NextCases DEF New, ForkReads, ForkStores, vars

----------------------------------------------------------------------------
(***************************************************************************)
(* What /new leaves behind.                                                *)
(***************************************************************************)
Back == {session[q] : q \in underway}

\* A prompt that came after /new starts a session of its own, if any.
Fresh(p) ==
  ScopeOf(p) = Observed /\ p \notin underway /\ ~Done(p) =>
    p \notin left /\ (token[p] \in left => token[p] \in Back)

\* Before the scope is there, nothing has been left.
LeftInv ==
  /\ Observed \notin made => left = {}
  /\ stored[Observed] \in left => stored[Observed] \in Back
  /\ \A p \in Sent : Fresh(p)

LEMMA LeftNext ==
  ASSUME KnowInv, LeftInv, [Next]_vars
  PROVE  LeftInv'
<1>1. Grows /\ KnowInv'
  BY StepsGrow, KnowNext
<1>2. Sent \subseteq Number /\ None \notin Number /\ NumberOrNone = Number \cup {None}
  BY SentAreNumbers, Numbers DEF KnowInv, TypeInv
<1>3. Observed \in Scope
  BY ConversationAssumption DEF Scope
<1>4. ASSUME NEW s \in Number, s \in Back, underway' = underway PROVE s \in Back'
  <2>1. PICK q \in underway : s = session[q]
    BY <1>4 DEF Back
  <2>2. q \in Number
    BY DEF KnowInv, TypeInv, TypeOK
  <2>3. session'[q] = s
    BY <1>1, <1>2, <2>1, <2>2 DEF Grows
  <2> QED
    BY <1>4, <2>3 DEF Back
<1>5. left \subseteq Sent /\ left \subseteq Number
  BY <1>2 DEF KnowInv, KnownInv
<1>6. ASSUME underway' = underway, left' \subseteq left,
             NEW p \in Sent, token'[p] = token[p], Done(p) => Done(p)'
      PROVE  Fresh(p)'
  <2>1. Fresh(p) /\ ScopeOf(p)' = ScopeOf(p)
    BY <1>1 DEF LeftInv, Grows, ScopeOf
  <2> QED
    BY <1>4, <1>5, <1>6, <2>1 DEF Fresh
<1>7. ASSUME underway' = underway, left' \subseteq left, stored'[Observed] \in {None, stored[Observed]}
      PROVE  stored'[Observed] \in left' => stored'[Observed] \in Back'
  BY <1>2, <1>4, <1>5, <1>7 DEF LeftInv
<1> USE DEF topics, history
<1>8. CASE UNCHANGED vars
  <2>1. /\ underway' = underway /\ left' = left /\ made' = made /\ stored' = stored
        /\ token' = token /\ phase' = phase /\ Sent' = Sent
    BY <1>8 DEF vars, Sent
  <2>2. ASSUME NEW p \in Sent PROVE Fresh(p)'
    BY <1>6, <2>1 DEF Done
  <2> QED
    BY <1>7, <2>1, <2>2 DEF LeftInv
<1>9. ASSUME NEW c \in Scope, NEW t \in NumberOrNone, NEW p \in Number, NEW s \in NumberOrNone,
             Sends(c, t, p, s)
      PROVE  LeftInv'
  <2>1. /\ p \notin Sent /\ Sent' = Sent \cup {p} /\ ScopeOf(p)' = c /\ token'[p] = s
        /\ stored' = stored /\ made' = made /\ underway' = underway /\ left' \subseteq left
        /\ session' = session
        /\ \A q \in Number \ {p} : token'[q] = token[q] /\ phase'[q] = phase[q]
    BY <1>9 DEF Sends, ScopeOf, KnowInv, TypeInv, TypeOK
  <2>2. ASSUME c = Observed, s \in left' PROVE s \in Back'
    <3>1. PICK a \in Sent : ScopeOf(a) = c /\ phase[a] = "stored" /\ s = session[a]
      BY <1>1, <1>2, <1>9, <2>2 DEF Sends, KnowInv, TypeInv, TypeOK
    <3>2. s \in Number /\ s \in left /\ s \in {a, token[a]} /\ ~Done(a)
      BY <1>2, <1>5, <2>1, <2>2, <3>1 DEF KnowInv, PhaseInv, Done, Final
    <3>3. CASE a \in underway
      BY <2>1, <3>1, <3>3 DEF Back
    <3>4. CASE a \notin underway
      BY <1>4, <2>1, <2>2, <3>1, <3>2, <3>4 DEF LeftInv, Fresh
    <3> QED
      BY <3>3, <3>4
  <2>3. Fresh(p)'
    BY <1>5, <2>1, <2>2 DEF Fresh
  <2>4. ASSUME NEW q \in Sent PROVE Fresh(q)'
    BY <1>2, <1>6, <2>1 DEF Done
  <2> QED
    BY <1>7, <2>1, <2>3, <2>4 DEF LeftInv
<1>10. ASSUME NEW c \in Scope, New(c) PROVE LeftInv'
  <2>1. /\ token' = token /\ phase' = phase /\ prompts' = prompts /\ made' = made /\ Sent' = Sent
        /\ c \in made /\ stored'[Observed] \in {None, stored[Observed]}
    BY <1>3, <1>10 DEF New, Sent, KnowInv, TypeInv, TypeOK
  <2>2. CASE c = Observed
    <3>1. stored'[Observed] = None /\ underway' = {p \in Of(c) : ~Done(p)}
      BY <1>3, <1>10, <2>2 DEF New, LeavesBehind, KnowInv, TypeInv, TypeOK
    <3>2. None \notin left'
      BY <1>1, <1>2 DEF KnowInv, TypeInv, TypeOK
    <3>3. ASSUME NEW p \in Sent PROVE Fresh(p)'
      BY <2>1, <2>2, <3>1 DEF Fresh, Of, Done, ScopeOf
    <3> QED
      BY <2>1, <2>2, <3>1, <3>2, <3>3 DEF LeftInv
  <2>3. CASE c # Observed
    <3>1. left' = left /\ underway' = underway
      BY <1>10, <2>3 DEF New, LeavesBehind
    <3>2. ASSUME NEW p \in Sent PROVE Fresh(p)'
      BY <1>6, <2>1, <3>1 DEF Done
    <3> QED
      BY <1>7, <2>1, <3>1, <3>2 DEF LeftInv
  <2> QED
    BY <2>2, <2>3
<1>11. ASSUME NEW d \in Forked, (\E c \in Scope : ForkReads(c, d)) \/ ForkStores(d) PROVE LeftInv'
  <2>1. /\ token' = token /\ phase' = phase /\ Sent' = Sent /\ made \subseteq made'
        /\ left' = left /\ underway' = underway
    BY <1>11 DEF ForkReads, ForkStores, Sent
  <2>2. ASSUME NEW p \in Sent PROVE Fresh(p)'
    BY <1>6, <2>1 DEF Done
  <2>3. stored'[Observed] = stored[Observed] \/ left = {}
    BY <1>3, <1>11 DEF ForkReads, ForkStores, LeftInv, KnowInv, TypeInv, TypeOK
  <2> QED
    BY <1>7, <2>1, <2>2, <2>3 DEF LeftInv
<1>12. ASSUME NEW p \in Sent, Prompts(p) PROVE LeftInv'
  <2>1. p \in Number
    BY <1>2
  <2>2. /\ Sent' = Sent /\ made' = made /\ underway' = underway /\ left' \subseteq left
        /\ ScopeOf(p)' = ScopeOf(p)
    BY <1>12 DEF Prompts, Resolve, ResolveKnown, ResolveRunning, ResolveStored, WaitForResume, Run,
         RunFails, RunBegins, Announce, Store, RunEnds, Finish, Moves, Sent, CarriesBack, ScopeOf
  <2>3. \A q \in Sent \ {p} : token'[q] = token[q] /\ phase'[q] = phase[q]
    BY <1>2, <1>12 DEF KnowInv, TypeInv, TypeOK, Enters, Prompts, Resolve, ResolveKnown,
         ResolveRunning, ResolveStored, WaitForResume, Run, RunFails, RunBegins, Announce, Store,
         RunEnds, Finish, Moves
  <2>4. ASSUME NEW q \in Sent, q # p PROVE Fresh(q)'
    BY <1>6, <2>2, <2>3, <2>4 DEF Done
  <2>5. Fresh(p)'
    <3>1. CASE ResolveStored(p)
      <4>1. token'[p] = stored[ScopeOf(p)] \/ token'[p] = None
        BY <2>1, <3>1 DEF ResolveStored, KnowInv, TypeInv, TypeOK
      <4>2. Fresh(p) /\ ~Done(p)
        BY <3>1 DEF LeftInv, ResolveStored, Done, Final
      <4> QED
        BY <1>2, <1>4, <1>5, <2>2, <4>1, <4>2 DEF Fresh, LeftInv
    <3>2. CASE WaitForResume(p)
      <4>1. ScopeOf(p) = Observed => token'[p] \notin left'
        BY <2>1, <3>2 DEF WaitForResume, CarriesBack, KnowInv, TypeInv, TypeOK
      <4>2. Fresh(p) /\ ~Done(p)
        BY <3>2 DEF LeftInv, WaitForResume, Done, Final
      <4> QED
        BY <2>2, <4>1, <4>2 DEF Fresh
    <3>3. CASE ResolveKnown(p) \/ ResolveRunning(p) \/ Run(p)
      <4>1. token' = token
        BY <3>3 DEF ResolveKnown, ResolveRunning, Run, RunFails, RunBegins, Announce, Store, RunEnds,
                    Finish, Moves
      <4>2. Done(p) => Done(p)'
        BY <2>1, <3>3 DEF ResolveKnown, ResolveRunning, Run, RunFails, RunBegins, Announce, Store,
             RunEnds, Finish, Moves, Enters, Done, Final, Alive, KnowInv, TypeInv, TypeOK
      <4> QED
        BY <1>6, <2>2, <4>1, <4>2
    <3> QED
      BY <1>12, <3>1, <3>2, <3>3 DEF Prompts, Resolve
  <2>6. stored'[Observed] \in left' => stored'[Observed] \in Back'
    <3>1. CASE stored'[Observed] = stored[Observed]
      BY <1>7, <2>2, <3>1
    <3>2. CASE Store(p) /\ ScopeOf(p) = Observed /\ stored'[Observed] # stored[Observed]
      <4>1. session[p] \in {p, token[p]} /\ ~Done(p) /\ session' = session
        BY <2>1, <3>2 DEF Store, Done, Final, KnowInv, PhaseInv
      <4>2. stored'[Observed] = session[p]
        BY <1>3, <3>2 DEF Store, KnowInv, TypeInv, TypeOK
      <4>3. CASE p \in underway
        BY <2>2, <4>2, <4>1, <4>3 DEF Back
      <4>4. CASE p \notin underway
        <5>1. p \notin left /\ (token[p] \in left => token[p] \in Back)
          BY <3>2, <4>1, <4>4 DEF LeftInv, Fresh
        <5> QED
          BY <1>4, <1>5, <2>2, <4>2, <4>1, <5>1
      <4> QED
        BY <4>3, <4>4
    <3> QED
      BY <1>3, <1>12, <3>1, <3>2 DEF Prompts, Resolve, ResolveKnown, ResolveRunning, ResolveStored,
         WaitForResume, Run, RunFails, RunBegins, Announce, Store, RunEnds, Finish, Moves,
         KnowInv, TypeInv, TypeOK
  <2> QED
    BY <2>2, <2>4, <2>5, <2>6 DEF LeftInv
<1> QED
  BY <1>8, <1>9, <1>10, <1>11, <1>12, NextCases DEF KnowInv, TypeInv

----------------------------------------------------------------------------
(***************************************************************************)
(* The theorems.                                                           *)
(***************************************************************************)
IInv == KnowInv /\ HomeInv /\ FollowInv /\ LeftInv

LEMMA Invariance == Spec => []IInv
<1>1. Init => IInv
  <2> SUFFICES ASSUME Init PROVE IInv
    OBVIOUS
  <2>1. KnowInv /\ Sent = {}
    BY KnowInit DEF Init, Sent
  <2>2. /\ \A c \in Scope : stored[c] = None
        /\ \A p \in Number : following[p] = None
        /\ left = {} /\ None \notin Number
    BY Numbers DEF Init
  <2> QED
    BY <2>1, <2>2, ConversationAssumption DEF IInv, HomeInv, FollowInv, LeftInv
<1>2. IInv /\ [Next]_vars => IInv'
  BY KnowNext, HomeNext, FollowNext, LeftNext DEF IInv
<1> QED
  BY <1>1, <1>2, PTL DEF Spec

\* Sessions stay where they are at home (loop.py 1259-1283, 1700-1737; chat_sessions.py;
\* topic_state.py): no reply, scheduled job or fork, in any order, stores a session for a
\* scope, or resumes it there, that nothing has brought there.
THEOREM ConversationsStayApart == Spec => []SessionsStayHome
<1>1. IInv => SessionsStayHome
  <2> SUFFICES ASSUME IInv PROVE SessionsStayHome
    OBVIOUS
  <2>1. ASSUME NEW c \in Scope, stored[c] # None PROVE AtHome(stored[c], c)
    BY <2>1, Numbers DEF IInv, KnowInv, TypeInv, TypeOK, HomeInv
  <2>2. ASSUME NEW p \in Sent, token[p] # None PROVE AtHome(token[p], ScopeOf(p))
    <3>1. p \in Number /\ prompts[p] \in Prompt
      BY SentAreNumbers DEF IInv, KnowInv, TypeInv, TypeOK, Sent
    <3>2. ScopeOf(p) \in Scope /\ token[p] \in Number
      BY <2>2, <3>1, Numbers DEF Prompt, ScopeOf, IInv, KnowInv, TypeInv, TypeOK
    <3> QED
      BY <3>2 DEF IInv, HomeInv
  <2> QED
    BY <2>1, <2>2 DEF SessionsStayHome
<1> QED
  BY <1>1, Invariance, PTL

\* A reply to a running task goes on with that task's session, however late it is
\* announced, and is refused only if there was none (loop.py 848-949).
THEOREM RepliesFollowRuns == Spec => []FollowersFollow
<1>1. IInv => FollowersFollow
  BY SentAreNumbers DEF IInv, KnowInv, TypeInv, FollowInv, FollowersFollow, Alive
<1> QED
  BY <1>1, Invariance, PTL

\* /new leaves the sessions of its scope for good: only a prompt that was under way then,
\* or a reply that goes back, brings one again (commands/topics.py 232-275).
THEOREM NewIsForGood == Spec => []NewLeavesBehind
<1>1. IInv => NewLeavesBehind
  BY DEF IInv, LeftInv, Fresh, NewLeavesBehind, Of, Back
<1> QED
  BY <1>1, Invariance, PTL
===============================================================================
