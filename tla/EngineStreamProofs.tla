-------------------------- MODULE EngineStreamProofs --------------------------
(***************************************************************************)
(* Proofs about EngineStream, for any sessions, tools and number of lines. *)
(***************************************************************************)
EXTENDS EngineStream, SequenceTheorems, TLAPS

----------------------------------------------------------------------------
(***************************************************************************)
(* The events.                                                             *)
(***************************************************************************)
EventTypes == {"started", "action", "text_delta", "text_finished", "completed", "note"}

LEMMA EventFields ==
  ASSUME NEW e \in Event
  PROVE  /\ e.type \in EventTypes
         /\ e.type = "started" => e.resume \in Token
         /\ e.type = "action" => e.id \in Tool \cup {Reconnect}
         /\ e.type \in {"text_delta", "text_finished"} => e.text \in Text
         /\ e.type = "completed" => e.resume \in Session /\ e.answer \in Text /\ e.ok \in BOOLEAN
<1>1. CASE \E t \in Token : e = StartedEvent(t)
  BY <1>1 DEF StartedEvent, EventTypes
<1>2. CASE \E a \in Tool \cup {Reconnect}, p \in {"started", "updated", "completed"} : e = ActionEvent(a, p)
  BY <1>2 DEF ActionEvent, EventTypes
<1>3. CASE \E s \in Text : e = TextDelta(s)
  BY <1>3 DEF TextDelta, EventTypes
<1>4. CASE \E s \in Text : e = TextFinished(s)
  BY <1>4 DEF TextFinished, EventTypes
<1>5. CASE \E ok \in BOOLEAN, s \in Text, t \in Session : e = CompletedEvent(ok, s, t)
  BY <1>5 DEF CompletedEvent, EventTypes
<1>6. CASE e = NoteEvent
  BY <1>6 DEF NoteEvent, EventTypes
<1> QED
  BY <1>1, <1>2, <1>3, <1>4, <1>5, <1>6 DEF Event

LEMMA EventsMade ==
  /\ \A t \in Token : StartedEvent(t) \in Event
  /\ \A a \in Tool \cup {Reconnect}, p \in {"started", "updated", "completed"} : ActionEvent(a, p) \in Event
  /\ \A s \in Text : TextDelta(s) \in Event /\ TextFinished(s) \in Event
  /\ \A ok \in BOOLEAN, s \in Text, t \in Session : CompletedEvent(ok, s, t) \in Event
  /\ NoteEvent \in Event
BY DEF Event

----------------------------------------------------------------------------
(***************************************************************************)
(* The inductive invariant.  The three properties speak of the outcome and *)
(* the final message, at the end of a run; what makes them inductive is    *)
(* what the events on their way there say (OutInv), how the translator's   *)
(* session follows the stream's (SessionInv), where the last piece of text *)
(* is until a completion carries it (SaidInv), what the bridge has kept of *)
(* the stream (BridgeInv), and that a stream that was completed or closed  *)
(* has its completion on the way (CompletionInv).                          *)
(***************************************************************************)
\* The engines whose translator knows a session before it announces it.
Deferred == {"opencode", "pi"}

CompletionFits(e) ==
  /\ engine \notin StreamJson /\ found_session # None => e.resume = found_session
  /\ said # 0 /\ (engine \in StreamJson => e.ok) => said \in e.answer \cup tracker.segments

OutInv ==
  /\ \A i \in 1..Len(out) :
       /\ out[i].type = "started" => i = 1 /\ out[i].resume = found_session /\ starts = 0
       /\ out[i].type = "completed" => i = Len(out) /\ CompletionFits(out[i])
  /\ pc \notin {"reading", "closing"} => out = <<>>

SessionInv ==
  /\ found_session # None => expected \in {None, found_session}
  /\ engine \notin Deferred /\ pc = "reading" => session = found_session
  /\ engine \in Deferred /\ pc = "reading" /\ ~begun => found_session = None
  /\ engine \in Deferred /\ found_session # None => session = found_session
  /\ engine = "pi" => session # None
  /\ pc = "raised" => found_session = None

Shown(events) == \E i \in 1..Len(events) : events[i].type = "text_finished" /\ said \in events[i].text

SaidInv ==
  ~did_emit_completed /\ pc \in {"reading", "exited"} /\ said # 0 =>
    said \in text \cup tracker.segments \/ Shown(out)

BridgeInv ==
  /\ tracker.resume = IF starts = 0 THEN None ELSE found_session
  /\ starts > 0 => found_session # None
  /\ outcome.completed # None => out = <<>> /\ CompletionFits(outcome.completed)

CompletionInv ==
  /\ did_emit_completed \/ pc = "closing" => outcome.completed # None \/ Completes(out)
  /\ outcome.completed # None \/ Completes(out)
       => did_emit_completed \/ pc \in {"closing", "ended", "answered"}
  /\ pc = "ended" => outcome.completed # None

FinalInv ==
  final # None =>
    /\ pc = "answered"
    /\ starts > 0 => final.resume # None /\ (engine \notin StreamJson => final.resume = found_session)

RunInv == TypeOK /\ OutInv /\ SessionInv /\ SaidInv /\ BridgeInv /\ CompletionInv /\ FinalInv

LEMMA RunInit == Init => RunInv
<1> SUFFICES ASSUME Init PROVE RunInv
  OBVIOUS
<1> USE DEF Init
<1>1. TypeOK
  <2>1. /\ engine \in Engine /\ expected \in Session /\ session \in Session
        /\ found_session \in Session /\ tracker.resume \in Session
    BY TokenAssumption DEF Session, Or
  <2>2. lines \in 0 .. MaxLines /\ said \in 0 .. MaxLines /\ starts \in 0 .. 1
    BY LinesAssumption
  <2>3. /\ outcome \in [resume : Session, completed : Event \cup {None}]
        /\ tracker \in [resume : Session, running : SUBSET (Tool \cup {Reconnect}),
                        segments : Text, streaming : Text]
    BY DEF Session, Text, NoText
  <2>4. text \in Text /\ pending \subseteq Tool
    BY DEF Text, NoText
  <2>5. out \in Seq(Event) /\ rc \in Code \cup {None}
    OBVIOUS
  <2> QED
    BY <2>1, <2>2, <2>3, <2>4, <2>5 DEF TypeOK
<1>2. OutInv /\ SaidInv /\ FinalInv
  BY DEF OutInv, SaidInv, FinalInv
<1>3. SessionInv
  BY TokenAssumption DEF SessionInv, Session, Or, Deferred
<1>4. BridgeInv /\ CompletionInv
  BY DEF BridgeInv, CompletionInv, Completes
<1> QED
  BY <1>1, <1>2, <1>3, <1>4 DEF RunInv

----------------------------------------------------------------------------
(***************************************************************************)
(* A line of the agent.                                                    *)
(***************************************************************************)
\* What the translator may do with its own state at a line.
TranslatorStep ==
  /\ session' \in Session /\ begun' \in BOOLEAN /\ text' \in Text
  /\ pending' \subseteq Tool /\ failure' \in BOOLEAN
  /\ said' \in {said, Piece}

\* A line gives at most one event besides the session, and a completion fits.
Ordinary(events) ==
  \/ events = <<>>
  \/ \E e \in Event : /\ events = <<e>> /\ e.type # "started"
                      /\ e.type = "completed" => CompletionFits(e)'

\* What was said last is kept, or shown, or the run completes.
Remembers(events) ==
  said' # 0 /\ ~Completes(events) =>
    \/ said' \in text' \cup tracker.segments
    \/ \E i \in 1..Len(events) : events[i].type = "text_finished" /\ said' \in events[i].text

\* Before the completion, and when the bridge has taken what the line before gave.
LEMMA AtALine ==
  ASSUME RunInv, Reading, ~did_emit_completed
  PROVE  /\ pc = "reading" /\ out = <<>> /\ outcome.completed = None /\ final = None
         /\ said # 0 => said \in text \cup tracker.segments
         /\ found_session # None => expected \in {None, found_session}
         /\ engine \notin Deferred => session = found_session
         /\ engine \in Deferred /\ ~begun => found_session = None
         /\ engine \in Deferred /\ found_session # None => session = found_session
         /\ engine = "pi" => session # None
         /\ session \in Session /\ found_session \in Session /\ expected \in Session
         /\ text \in Text /\ pending \subseteq Tool /\ begun \in BOOLEAN /\ failure \in BOOLEAN
         /\ Piece \in 1 .. MaxLines /\ lines + 1 \in 0 .. MaxLines /\ said \in 0 .. MaxLines
         /\ tracker.segments \in Text
         /\ {Piece} \in Text /\ text \cup {Piece} \in Text
<1>1. TypeOK /\ OutInv /\ SessionInv /\ SaidInv /\ BridgeInv /\ CompletionInv /\ FinalInv
  BY DEF RunInv
<1>2. pc = "reading" /\ out = <<>>
  BY DEF Reading
<1>3. outcome.completed = None /\ final = None
  BY <1>1, <1>2 DEF CompletionInv, FinalInv
<1>4. said # 0 => said \in text \cup tracker.segments
  BY <1>1, <1>2 DEF SaidInv, Shown
<1>5. /\ found_session # None => expected \in {None, found_session}
      /\ engine \notin Deferred => session = found_session
      /\ engine \in Deferred /\ ~begun => found_session = None
      /\ engine \in Deferred /\ found_session # None => session = found_session
      /\ engine = "pi" => session # None
  BY <1>1, <1>2 DEF SessionInv
<1>6. /\ session \in Session /\ found_session \in Session /\ expected \in Session
      /\ text \in Text /\ pending \subseteq Tool /\ begun \in BOOLEAN /\ failure \in BOOLEAN
      /\ lines \in 0 .. MaxLines /\ said \in 0 .. MaxLines /\ tracker.segments \in Text
  BY <1>1 DEF TypeOK
<1>7. Piece \in 1 .. MaxLines /\ lines + 1 \in 0 .. MaxLines
  BY <1>6, LinesAssumption DEF Reading, Piece
<1>8. {Piece} \in Text /\ text \cup {Piece} \in Text
  <2>1. \A m \in Nat : m \in 1 .. MaxLines => m \in 1 .. MaxLines + 1
    BY LinesAssumption
  <2>2. Piece \in 1 .. MaxLines + 1
    BY <1>7, <2>1, LinesAssumption
  <2> QED
    BY <1>6, <2>2 DEF Text
<1> QED
  BY <1>2, <1>3, <1>4, <1>5, <1>6, <1>7, <1>8

\* The events a line gives are events, a completion among them comes last.
LEMMA OrdinaryEvents ==
  ASSUME NEW events, Ordinary(events)
  PROVE  /\ events \in Seq(Event) /\ Len(events) \in Nat
         /\ \A i \in 1..Len(events) :
              /\ events[i].type # "started"
              /\ events[i].type = "completed" => i = Len(events) /\ CompletionFits(events[i])'
<1>1. CASE events = <<>>
  BY <1>1
<1>2. CASE events # <<>>
  <2>1. PICK e \in Event : /\ events = <<e>> /\ e.type # "started"
                           /\ e.type = "completed" => CompletionFits(e)'
    BY <1>2 DEF Ordinary
  <2>2. events \in Seq(Event) /\ Len(events) = 1 /\ events[1] = e
    BY <2>1
  <2>3. ASSUME NEW i \in 1..Len(events) PROVE i = 1
    BY <2>2
  <2>4. CompletionFits(e)' = CompletionFits(events[1])'
    BY <2>2 DEF CompletionFits
  <2> QED
    BY <2>1, <2>2, <2>3, <2>4
<1> QED
  BY <1>1, <1>2

\* A line that reports no session.
LEMMA YieldKeeps ==
  ASSUME RunInv, NEW events, Yield(events), Apart, TranslatorStep,
         Ordinary(events), Remembers(events),
         session' = session \/ (engine \in Deferred /\ session = None), begun => begun',
         engine = "pi" => session' # None
  PROVE  RunInv'
<1>1. /\ Reading /\ ~did_emit_completed /\ lines' = lines + 1
      /\ did_emit_completed' = Completes(events) /\ out' = events
      /\ pc' = pc /\ found_session' = found_session
      /\ engine' = engine /\ expected' = expected /\ rc' = rc /\ final' = final
      /\ outcome' = outcome /\ tracker' = tracker /\ starts' = starts
  BY DEF Yield, Apart, bridge
<1>2. /\ pc = "reading" /\ outcome.completed = None /\ final = None
      /\ lines + 1 \in 0 .. MaxLines /\ said \in 0 .. MaxLines /\ Piece \in 1 .. MaxLines
      /\ engine \notin Deferred => session = found_session
      /\ engine \in Deferred /\ ~begun => found_session = None
      /\ engine \in Deferred /\ found_session # None => session = found_session
      /\ found_session # None => expected \in {None, found_session}
  BY <1>1, AtALine
<1>3. TypeOK'
  <2>1. said' \in 0 .. MaxLines
    <3>1. \A m \in 1 .. MaxLines : m \in 0 .. MaxLines
      BY LinesAssumption
    <3> QED
      BY <1>2, <3>1 DEF TranslatorStep
  <2>2. out' \in Seq(Event) /\ did_emit_completed' \in BOOLEAN
    BY <1>1, OrdinaryEvents DEF Completes
  <2> QED
    BY <1>1, <1>2, <2>1, <2>2 DEF RunInv, TypeOK, TranslatorStep
<1>4. OutInv'
  BY <1>1, <1>2, OrdinaryEvents DEF OutInv
<1>5. SessionInv'
  BY <1>1, <1>2 DEF SessionInv
<1>6. SaidInv'
  BY <1>1 DEF SaidInv, Remembers, Shown
<1>7. BridgeInv'
  BY <1>1, <1>2 DEF BridgeInv, RunInv
<1>8. CompletionInv' /\ FinalInv'
  BY <1>1, <1>2 DEF CompletionInv, FinalInv, Completes
<1> QED
  BY <1>3, <1>4, <1>5, <1>6, <1>7, <1>8 DEF RunInv

\* One event before the others.
LEMMA PrefixElements ==
  ASSUME NEW S, NEW a \in S, NEW s \in Seq(S)
  PROVE  LET r == <<a>> \o s
         IN  /\ r \in Seq(S) /\ Len(r) = Len(s) + 1 /\ r[1] = a
             /\ \A i \in 1..Len(s) : i + 1 \in 1..Len(r) /\ r[i + 1] = s[i]
             /\ \A i \in 1..Len(r) : i = 1 \/ (i - 1 \in 1..Len(s) /\ r[i] = s[i - 1])
<1>1. <<a>> \in Seq(S) /\ Len(<<a>>) = 1 /\ <<a>>[1] = a /\ Len(s) \in Nat
  OBVIOUS
<1> QED
  BY <1>1, ConcatProperties

\* A line that reports the session, and then perhaps an event.
LEMMA YieldStartedKeeps ==
  ASSUME RunInv, NEW t \in Token, NEW events, YieldStarted(t, events), Apart, TranslatorStep,
         Ordinary(events), Remembers(events),
         found_session \in {None, t}, session' = t, engine \in Deferred => begun'
  PROVE  RunInv'
<1>0. t # None /\ t \in Session
  BY TokenAssumption DEF Session
<1>1. /\ Reading /\ ~did_emit_completed /\ lines' = lines + 1
      /\ engine' = engine /\ expected' = expected /\ rc' = rc /\ final' = final
      /\ outcome' = outcome /\ tracker' = tracker /\ starts' = starts
  BY DEF YieldStarted, Apart, bridge
<1>2. /\ pc = "reading" /\ out = <<>> /\ outcome.completed = None /\ final = None
      /\ lines + 1 \in 0 .. MaxLines /\ said \in 0 .. MaxLines /\ Piece \in 1 .. MaxLines
      /\ engine \notin Deferred => session = found_session
      /\ engine \in Deferred /\ ~begun => found_session = None
      /\ engine \in Deferred /\ found_session # None => session = found_session
      /\ found_session # None => expected \in {None, found_session}
  BY <1>1, AtALine
<1>3. said' \in 0 .. MaxLines
  <2>1. \A m \in 1 .. MaxLines : m \in 0 .. MaxLines
    BY LinesAssumption
  <2> QED
    BY <1>2, <2>1 DEF TranslatorStep
<1>4. TypeOK /\ BridgeInv
  BY DEF RunInv
<1>5. CASE Mismatch(t)
  <2>1. /\ pc' = "raised" /\ found_session' = found_session
        /\ did_emit_completed' = did_emit_completed /\ out' = out
    BY <1>5 DEF YieldStarted
  <2>2. found_session = None
    BY <1>0, <1>2, <1>5 DEF Mismatch, Or
  <2>3. TypeOK'
    BY <1>1, <1>2, <1>3, <1>4, <2>1 DEF TypeOK, TranslatorStep
  <2>4. OutInv' /\ SaidInv' /\ FinalInv' /\ CompletionInv'
    BY <1>1, <1>2, <2>1 DEF OutInv, SaidInv, FinalInv, CompletionInv, Completes
  <2>5. SessionInv' /\ BridgeInv'
    BY <1>0, <1>1, <1>2, <1>4, <2>1, <2>2 DEF SessionInv, BridgeInv
  <2> QED
    BY <2>3, <2>4, <2>5 DEF RunInv
<1>6. CASE ~Mismatch(t)
  <2>1. /\ pc' = pc /\ found_session' = t /\ did_emit_completed' = Completes(events)
        /\ out' = IF found_session = None THEN <<StartedEvent(t)>> \o events ELSE events
    BY <1>6 DEF YieldStarted
  <2>2. expected \in {None, t}
    BY <1>6 DEF Mismatch, Or
  <2>3. found_session = None => starts = 0
    BY <1>4 DEF BridgeInv, TypeOK
  <2>4. /\ out' \in Seq(Event)
        /\ \A i \in 1..Len(out') :
             /\ out'[i].type = "started" => i = 1 /\ out'[i].resume = t /\ starts = 0
             /\ out'[i].type = "completed" => i = Len(out') /\ \A e : e = out'[i] => CompletionFits(e)'
        /\ Completes(events) <=> \E i \in 1..Len(out') : out'[i].type = "completed"
        /\ \A i \in 1..Len(events) : \E j \in 1..Len(out') : out'[j] = events[i]
    <3>1. /\ events \in Seq(Event) /\ Len(events) \in Nat
          /\ \A i \in 1..Len(events) :
              /\ events[i].type # "started"
              /\ events[i].type = "completed" => i = Len(events) /\ CompletionFits(events[i])'
      BY OrdinaryEvents
    <3>2. \A i \in 1..Len(events) : \A e : e = events[i] /\ e.type = "completed" => CompletionFits(e)'
      BY <3>1 DEF CompletionFits
    <3>3. CASE found_session # None
      BY <2>1, <3>1, <3>2, <3>3 DEF Completes
    <3>4. CASE found_session = None
      <4>1. StartedEvent(t) \in Event /\ StartedEvent(t).type = "started" /\ StartedEvent(t).resume = t
        BY EventsMade DEF StartedEvent
      <4>2. /\ out' \in Seq(Event) /\ Len(out') = Len(events) + 1 /\ out'[1] = StartedEvent(t)
            /\ \A i \in 1..Len(events) : i + 1 \in 1..Len(out') /\ out'[i + 1] = events[i]
            /\ \A i \in 1..Len(out') : i = 1 \/ (i - 1 \in 1..Len(events) /\ out'[i] = events[i - 1])
        BY <2>1, <3>1, <3>4, <4>1, PrefixElements
      <4>3. ASSUME NEW i \in 1..Len(out')
            PROVE  /\ out'[i].type = "started" => i = 1 /\ out'[i].resume = t /\ starts = 0
                   /\ out'[i].type = "completed" => i = Len(out') /\ \A e : e = out'[i] => CompletionFits(e)'
        BY <2>3, <3>1, <3>2, <3>4, <4>1, <4>2
      <4>4. Completes(events) <=> \E i \in 1..Len(out') : out'[i].type = "completed"
        <5>1. DOMAIN events = 1..Len(events)
          BY <3>1
        <5>2. ASSUME NEW i \in 1..Len(events), events[i].type = "completed"
              PROVE  i + 1 \in 1..Len(out') /\ out'[i + 1].type = "completed"
          BY <4>2, <5>2
        <5>3. ASSUME NEW i \in 1..Len(out'), out'[i].type = "completed"
              PROVE  i - 1 \in 1..Len(events) /\ events[i - 1].type = "completed"
          BY <4>1, <4>2, <5>3
        <5> QED
          BY <5>1, <5>2, <5>3 DEF Completes
      <4> QED
        BY <4>2, <4>3, <4>4
    <3> QED
      BY <3>3, <3>4
  <2>5. TypeOK'
    BY <1>0, <1>1, <1>2, <1>3, <1>4, <2>1, <2>4 DEF TypeOK, TranslatorStep, Completes
  <2>6. OutInv'
    BY <1>1, <1>2, <2>1, <2>4 DEF OutInv, CompletionFits
  <2>7. SessionInv'
    BY <1>0, <1>1, <1>2, <2>1, <2>2 DEF SessionInv
  <2>8. SaidInv'
    <3>1. ASSUME NEW i \in 1..Len(events), events[i].type = "text_finished", said' \in events[i].text
          PROVE  Shown(out)'
      <4>1. PICK j \in 1..Len(out') : out'[j] = events[i]
        BY <2>4
      <4> QED
        BY <3>1, <4>1 DEF Shown
    <3>2. ~Completes(events) /\ said' # 0 => (said' \in text' \cup tracker.segments \/ Shown(out)')
      BY <3>1 DEF Remembers
    <3> QED
      BY <1>1, <2>1, <3>2 DEF SaidInv
  <2>9. BridgeInv'
    BY <1>0, <1>1, <1>2, <1>4, <2>1, <2>3 DEF BridgeInv, TypeOK
  <2>10. CompletionInv' /\ FinalInv'
    BY <1>1, <1>2, <2>1, <2>4 DEF CompletionInv, FinalInv, Completes
  <2> QED
    BY <2>5, <2>6, <2>7, <2>8, <2>9, <2>10 DEF RunInv
<1> QED
  BY <1>5, <1>6

\* What an engine's line may give.
LEMMA NothingIsOrdinary ==
  Ordinary(<<>>) /\ ~Completes(<<>>)
BY DEF Ordinary, Completes

LEMMA OneIsOrdinary ==
  ASSUME NEW e \in Event, e.type \in {"action", "note", "text_delta", "text_finished"}
  PROVE  Ordinary(<<e>>) /\ ~Completes(<<e>>)
BY DEF Ordinary, Completes

LEMMA CompletionIsOrdinary ==
  ASSUME NEW ok \in BOOLEAN, NEW s \in Text, NEW t \in Session,
         engine' = engine, found_session' # None /\ engine \notin StreamJson => t = found_session',
         said' # 0 /\ (engine \in StreamJson => ok) => said' \in s \cup (tracker.segments)'
  PROVE  LET e == <<CompletedEvent(ok, s, t)>> IN Ordinary(e) /\ Completes(e)
<1>1. CompletedEvent(ok, s, t) \in Event
  BY EventsMade
<1> DEFINE e == CompletedEvent(ok, s, t)
<1>2. e.type = "completed" /\ e.ok = ok /\ e.answer = s /\ e.resume = t
  BY DEF CompletedEvent
<1>3. e \in Event
  BY <1>1
<1> HIDE DEF e
<1>4. \A d : d = e => CompletionFits(d)'
  BY <1>2 DEF CompletionFits
<1>5. Ordinary(<<e>>) /\ Completes(<<e>>)
  BY <1>2, <1>3, <1>4 DEF Ordinary, Completes
<1> QED
  BY <1>5 DEF e

\* A line that says nothing, or says a piece that the translator keeps, is remembered.
LEMMA QuietIsRemembered ==
  ASSUME RunInv, Reading, ~did_emit_completed, NEW events,
         (said' = said /\ text' = text) \/ (said' = Piece /\ Piece \in text')
  PROVE  Remembers(events)
BY AtALine DEF Remembers

----------------------------------------------------------------------------
(***************************************************************************)
(* The lines of every engine.                                              *)
(***************************************************************************)
LEMMA DropKeeps ==
  ASSUME RunInv, DropLine
  PROVE  RunInv'
<1>1. /\ lines' = lines + 1 /\ pc = "reading"
      /\ UNCHANGED <<engine, expected, pc, rc, final, said, session, begun, text, pending, failure,
                     found_session, did_emit_completed, out, outcome, tracker, starts>>
  BY DEF DropLine, Reading, Quiet, Apart, bridge, translator
<1>2. lines' \in 0 .. MaxLines
  BY LinesAssumption DEF DropLine, Reading, RunInv, TypeOK
<1> QED
  BY <1>1, <1>2
     DEF RunInv, TypeOK, OutInv, SessionInv, SaidInv, Shown, BridgeInv, CompletionInv, FinalInv,
         CompletionFits, Completes

LEMMA SkipKeeps ==
  ASSUME RunInv, SkipLine
  PROVE  RunInv'
<1>1. /\ Yield(<<>>) /\ Apart /\ Reading /\ ~did_emit_completed
      /\ UNCHANGED <<said, session, begun, text, pending, failure>>
  BY DEF SkipLine, Yield, Quiet, translator
<1>2. TranslatorStep /\ (engine = "pi" => session' # None)
  BY <1>1, AtALine DEF TranslatorStep
<1> QED
  BY <1>1, <1>2, YieldKeeps, NothingIsOrdinary, QuietIsRemembered

LEMMA BadKeeps ==
  ASSUME RunInv, BadLine
  PROVE  RunInv'
<1>1. /\ Yield(<<NoteEvent>>) /\ Apart /\ Reading /\ ~did_emit_completed
      /\ session' \in IF engine = "opencode" THEN {Or(session, t) : t \in Session} ELSE {session}
      /\ UNCHANGED <<said, begun, text, pending, failure>>
  BY DEF BadLine, Yield, Quiet
<1>2. session' = session \/ (engine \in Deferred /\ engine # "pi" /\ session = None /\ session' \in Session)
  BY <1>1 DEF Or, Deferred
<1>3. TranslatorStep /\ (engine = "pi" => session' # None)
  BY <1>1, <1>2, AtALine DEF TranslatorStep
<1>4. Ordinary(<<NoteEvent>>) /\ Remembers(<<NoteEvent>>)
  BY <1>1, EventsMade, OneIsOrdinary, QuietIsRemembered DEF NoteEvent
<1> QED
  BY <1>1, <1>2, <1>3, <1>4, YieldKeeps

LEMMA FactoryStartedKeeps ==
  ASSUME RunInv, NEW t \in Token, engine \notin Deferred, FactoryStarted(t)
  PROVE  RunInv'
<1>1. Reading /\ ~did_emit_completed /\ Apart /\ UNCHANGED <<said, begun, text, pending, failure>>
  BY DEF FactoryStarted, Quiet, Yield, YieldStarted
<1>2. CASE session \in {None, t}
  <2>1. session' = t /\ YieldStarted(t, <<>>)
    BY <1>2 DEF FactoryStarted
  <2>2. found_session \in {None, t}
    BY <1>1, <1>2, AtALine
  <2>3. TranslatorStep
    BY <1>1, <2>1, AtALine DEF TranslatorStep, Session
  <2> QED
    BY <1>1, <2>1, <2>2, <2>3, YieldStartedKeeps, NothingIsOrdinary, QuietIsRemembered
<1>3. CASE session \notin {None, t}
  <2>1. session' = session /\ Yield(<<NoteEvent>>)
    BY <1>3 DEF FactoryStarted
  <2>2. TranslatorStep /\ (engine = "pi" => session' # None)
    BY <1>1, <2>1, AtALine DEF TranslatorStep
  <2>3. Ordinary(<<NoteEvent>>) /\ Remembers(<<NoteEvent>>)
    BY <1>1, EventsMade, OneIsOrdinary, QuietIsRemembered DEF NoteEvent
  <2> QED
    BY <1>1, <2>1, <2>2, <2>3, YieldKeeps
<1> QED
  BY <1>2, <1>3

\* A line of an action, a note or a text: the session is as it was, or opencode
\* has taken it from the line.
LEMMA OneEventKeeps ==
  ASSUME RunInv, NEW e \in Event, e.type \in {"action", "note", "text_delta", "text_finished"},
         Yield(<<e>>), Apart, text' \in Text, pending' \subseteq Tool,
         begun' = begun, failure' = failure,
         session' = session \/ (engine = "opencode" /\ session = None /\ session' \in Session),
         (said' = said /\ text' = text) \/ (said' = Piece /\ Piece \in text')
  PROVE  RunInv'
<1>1. Reading /\ ~did_emit_completed
  BY DEF Yield
<1>2. TranslatorStep /\ (engine = "pi" => session' # None)
  BY <1>1, AtALine DEF TranslatorStep
<1>3. Ordinary(<<e>>) /\ Remembers(<<e>>)
  BY <1>1, OneIsOrdinary, QuietIsRemembered
<1>4. session' = session \/ (engine \in Deferred /\ session = None)
  BY DEF Deferred
<1> QED
  BY <1>1, <1>2, <1>3, <1>4, YieldKeeps

\* A line of which only the translator takes notice.
LEMMA NoEventKeeps ==
  ASSUME RunInv, Yield(<<>>), Apart, text' \in Text, pending' \subseteq Tool,
         begun' = begun, failure' \in BOOLEAN,
         session' = session \/ (engine = "opencode" /\ session = None /\ session' \in Session),
         (said' = said /\ text' = text) \/ (said' = Piece /\ Piece \in text')
  PROVE  RunInv'
<1>1. Reading /\ ~did_emit_completed
  BY DEF Yield
<1>2. TranslatorStep /\ (engine = "pi" => session' # None)
  BY <1>1, AtALine DEF TranslatorStep
<1>3. session' = session \/ (engine \in Deferred /\ session = None)
  BY DEF Deferred
<1> QED
  BY <1>1, <1>2, <1>3, YieldKeeps, NothingIsOrdinary, QuietIsRemembered

LEMMA CodexKeeps ==
  ASSUME RunInv, CodexLine
  PROVE  RunInv'
<1>0. /\ text \in Text /\ pending \subseteq Tool /\ failure \in BOOLEAN
      /\ found_session \in Session /\ expected \in Session
  BY DEF RunInv, TypeOK
<1>1. ASSUME NEW t \in Token, CodexThreadStarted(t) PROVE RunInv'
  BY <1>1, FactoryStartedKeeps DEF CodexThreadStarted, Deferred
<1>2. ASSUME NEW e \in Event, e.type \in {"action", "note"}, Yield(<<e>>), Quiet, UNCHANGED translator
      PROVE  RunInv'
  BY <1>0, <1>2, OneEventKeeps DEF Quiet, translator
<1>3. ASSUME NEW a \in Tool, NEW phase \in {"started", "updated", "completed"}, CodexItem(a, phase)
      PROVE  RunInv'
  <2>1. ActionEvent(a, phase) \in Event /\ ActionEvent(a, phase).type = "action"
    BY EventsMade DEF ActionEvent
  <2> QED
    BY <1>2, <1>3, <2>1 DEF CodexItem
<1>4. ASSUME NEW phase \in {"started", "updated"}, CodexReconnect(phase) PROVE RunInv'
  <2>1. ActionEvent(Reconnect, phase) \in Event /\ ActionEvent(Reconnect, phase).type = "action"
    BY EventsMade DEF ActionEvent
  <2> QED
    BY <1>2, <1>4, <2>1 DEF CodexReconnect
<1>5. ASSUME NEW ok \in BOOLEAN, CodexTurnEnded(ok) PROVE RunInv'
  <2>1. /\ Yield(<<CompletedEvent(ok, text, Or(found_session, expected))>>)
        /\ Apart /\ said' = said /\ session' = session /\ begun' = begun /\ text' = text
        /\ pending' = pending /\ failure' = failure /\ engine' = engine /\ tracker' = tracker
        /\ found_session' = found_session /\ Reading /\ ~did_emit_completed /\ engine = "codex"
    BY <1>5 DEF CodexTurnEnded, Quiet, Apart, translator, bridge, Yield
  <2>2. Or(found_session, expected) \in Session
    BY <1>0 DEF Or
  <2>3. TranslatorStep
    BY <2>1, AtALine DEF TranslatorStep
  <2>4. LET e == <<CompletedEvent(ok, text, Or(found_session, expected))>> IN Ordinary(e) /\ Completes(e)
    <3>1. said' # 0 => said' \in text \cup (tracker.segments)'
      BY <2>1, AtALine
    <3>2. found_session' # None => Or(found_session, expected) = found_session'
      BY <2>1 DEF Or
    <3> QED
      BY <1>0, <2>1, <2>2, <3>1, <3>2, CompletionIsOrdinary
  <2>5. Remembers(<<CompletedEvent(ok, text, Or(found_session, expected))>>)
    BY <2>4 DEF Remembers
  <2> QED
    BY <2>1, <2>3, <2>4, <2>5, YieldKeeps
<1>6. CASE CodexTurnStarted
  BY <1>2, <1>6, EventsMade DEF CodexTurnStarted, NoteEvent
<1>7. CASE CodexMessage
  <2>1. /\ Yield(<<>>) /\ Apart /\ text' = {Piece} /\ said' = Piece /\ Reading /\ ~did_emit_completed
        /\ UNCHANGED <<session, begun, pending, failure>>
    BY <1>7 DEF CodexMessage, Says, Yield
  <2> QED
    BY <1>0, <2>1, AtALine, NoEventKeeps
<1> QED
  BY <1>1, <1>3, <1>4, <1>5, <1>6, <1>7 DEF CodexLine

LEMMA ClaudeKeeps ==
  ASSUME RunInv, ClaudeLine
  PROVE  RunInv'
<1>0. text \in Text /\ pending \subseteq Tool /\ failure \in BOOLEAN
  BY DEF RunInv, TypeOK
<1>1. ASSUME NEW t \in Token, ClaudeInit(t) PROVE RunInv'
  BY <1>1, FactoryStartedKeeps DEF ClaudeInit, Deferred, StreamJson
<1>2. ASSUME NEW a \in Tool, ClaudeToolUse(a) \/ ClaudeToolResult(a) PROVE RunInv'
  <2>1. ASSUME NEW p \in {"started", "completed"}
        PROVE  ActionEvent(a, p) \in Event /\ ActionEvent(a, p).type = "action"
    BY EventsMade DEF ActionEvent
  <2>2. CASE ClaudeToolUse(a)
    BY <1>0, <2>1, <2>2, OneEventKeeps DEF ClaudeToolUse, Quiet
  <2>3. CASE ClaudeToolResult(a)
    BY <1>0, <2>1, <2>3, OneEventKeeps DEF ClaudeToolResult, Quiet
  <2> QED
    BY <1>2, <2>2, <2>3
<1>3. ASSUME NEW ok \in BOOLEAN, NEW says \in BOOLEAN, NEW t \in Token, ClaudeResult(ok, says, t)
      PROVE  RunInv'
  <2> DEFINE answer == IF says THEN {Piece} ELSE IF ok THEN text ELSE NoText
  <2>1. /\ Yield(<<CompletedEvent(ok, answer, t)>>)
        /\ Apart /\ said' = (IF says THEN Piece ELSE said)
        /\ session' = session /\ begun' = begun /\ text' = text
        /\ pending' = pending /\ failure' = failure /\ engine' = engine /\ tracker' = tracker
        /\ Reading /\ ~did_emit_completed /\ engine \in StreamJson
    BY <1>3 DEF ClaudeResult, Says, Apart, translator, bridge, Yield
  <2>2. answer \in Text /\ t \in Session
    <3>1. NoText \in Text
      BY DEF NoText, Text
    <3> QED
      BY <2>1, <3>1, AtALine DEF Session
  <2>3. said' # 0 /\ ok => said' \in answer \cup (tracker.segments)'
    BY <2>1, AtALine
  <2>4. TranslatorStep /\ (engine = "pi" => session' # None)
    BY <2>1, AtALine DEF TranslatorStep
  <2> HIDE DEF answer
  <2>5. Ordinary(<<CompletedEvent(ok, answer, t)>>) /\ Completes(<<CompletedEvent(ok, answer, t)>>)
    BY <2>1, <2>2, <2>3, CompletionIsOrdinary
  <2>6. Remembers(<<CompletedEvent(ok, answer, t)>>)
    BY <2>5 DEF Remembers
  <2> QED
    BY <2>1, <2>4, <2>5, <2>6, YieldKeeps
<1>4. CASE ClaudeThinking
  BY <1>0, <1>4, EventsMade, OneEventKeeps DEF ClaudeThinking, NoteEvent, Quiet, translator
<1>5. CASE ClaudeText
  <2>1. /\ Yield(<<>>) /\ Apart /\ text' = {Piece} /\ said' = Piece /\ Reading /\ ~did_emit_completed
        /\ UNCHANGED <<session, begun, pending, failure>>
    BY <1>5 DEF ClaudeText, Says, Yield
  <2> QED
    BY <1>0, <2>1, AtALine, NoEventKeeps
<1>6. CASE CodeBuddySnapshot
  BY <1>0, <1>6, NoEventKeeps DEF CodeBuddySnapshot, Quiet, translator
<1> QED
  BY <1>1, <1>2, <1>3, <1>4, <1>5, <1>6 DEF ClaudeLine

\* The session of opencode: the first one that any of its lines carries.
LEMMA SeenSession ==
  ASSUME RunInv, Reading, ~did_emit_completed, NEW t \in Session, engine = "opencode", session' = Seen(t)
  PROVE  /\ Seen(t) \in Session
         /\ session' = session \/ (session = None /\ session' \in Session)
         /\ found_session # None => Seen(t) = found_session
BY AtALine DEF Seen, Or, Deferred

LEMMA OpenCodeKeeps ==
  ASSUME RunInv, OpenCodeLine
  PROVE  RunInv'
<1>0. text \in Text /\ pending \subseteq Tool /\ failure \in BOOLEAN /\ NoText \in Text
  BY DEF RunInv, TypeOK, NoText, Text
<1>1. ASSUME NEW t \in Session, OpenCodeStepStart(t) PROVE RunInv'
  <2>1. /\ session' = Seen(t) /\ engine = "opencode" /\ Reading /\ ~did_emit_completed
        /\ Apart /\ UNCHANGED <<said, text, pending, failure>>
    BY <1>1 DEF OpenCodeStepStart, Quiet, Yield, YieldStarted
  <2>2. CASE ~begun /\ Seen(t) # None
    <3>1. begun' = TRUE /\ YieldStarted(Seen(t), <<>>)
      BY <1>1, <2>2 DEF OpenCodeStepStart
    <3>2. Seen(t) \in Token /\ found_session \in {None, Seen(t)}
      BY <2>1, <2>2, SeenSession DEF Session
    <3>3. TranslatorStep
      BY <2>1, <3>1, SeenSession, AtALine DEF TranslatorStep
    <3> QED
      BY <2>1, <3>1, <3>2, <3>3, YieldStartedKeeps, NothingIsOrdinary, QuietIsRemembered
  <2>3. CASE ~(~begun /\ Seen(t) # None)
    <3>1. begun' = begun /\ Yield(<<>>)
      BY <1>1, <2>3 DEF OpenCodeStepStart
    <3> QED
      BY <1>0, <2>1, <3>1, SeenSession, NoEventKeeps
  <2> QED
    BY <2>2, <2>3
<1>2. ASSUME NEW t \in Session, NEW a \in Tool, NEW settled \in BOOLEAN, OpenCodeToolUse(t, a, settled)
      PROVE  RunInv'
  <2> DEFINE e == ActionEvent(a, IF settled THEN "completed" ELSE "started")
  <2>1. e \in Event /\ e.type = "action"
    BY EventsMade DEF ActionEvent
  <2>2. /\ session' = Seen(t) /\ engine = "opencode" /\ Yield(<<e>>) /\ Reading /\ ~did_emit_completed
        /\ Apart /\ said' = said /\ text' = text /\ begun' = begun /\ failure' = failure
        /\ pending' = IF settled THEN pending \ {a} ELSE pending \cup {a}
    BY <1>2 DEF OpenCodeToolUse, Quiet, Yield
  <2>3. pending' \subseteq Tool
    BY <1>0, <2>2
  <2> HIDE DEF e
  <2> QED
    BY <1>0, <2>1, <2>2, <2>3, SeenSession, OneEventKeeps
<1>3. ASSUME NEW t \in Session, OpenCodeText(t) PROVE RunInv'
  <2>1. /\ session' = Seen(t) /\ engine = "opencode" /\ Yield(<<TextDelta(text')>>)
        /\ Reading /\ ~did_emit_completed /\ Apart
        /\ text' = text \cup {Piece} /\ said' = Piece
        /\ begun' = begun /\ pending' = pending /\ failure' = failure
    BY <1>3 DEF OpenCodeText, Says, Yield
  <2>2. text' \in Text
    BY <2>1, AtALine
  <2>3. TextDelta(text') \in Event /\ TextDelta(text').type = "text_delta"
    BY <2>2, EventsMade DEF TextDelta
  <2> QED
    BY <1>0, <2>1, <2>2, <2>3, SeenSession, OneEventKeeps
<1>4. ASSUME NEW t \in Session, NEW ok \in BOOLEAN,
             Yield(<<CompletedEvent(ok, text, Seen(t))>>), Quiet, engine = "opencode",
             session' = Seen(t), UNCHANGED <<begun, text, pending, failure>>
      PROVE  RunInv'
  <2>1. /\ Apart /\ said' = said /\ begun' = begun /\ text' = text
        /\ pending' = pending /\ failure' = failure /\ engine' = engine /\ tracker' = tracker
        /\ found_session' = found_session /\ Reading /\ ~did_emit_completed
    BY <1>4 DEF Quiet, Apart, bridge, Yield
  <2>2. Seen(t) \in Session /\ (found_session' # None => Seen(t) = found_session')
    BY <1>4, <2>1, SeenSession
  <2>3. said' # 0 => said' \in text \cup (tracker.segments)'
    BY <2>1, AtALine
  <2>4. TranslatorStep
    BY <1>4, <2>1, <2>2, AtALine DEF TranslatorStep
  <2>5. Ordinary(<<CompletedEvent(ok, text, Seen(t))>>) /\ Completes(<<CompletedEvent(ok, text, Seen(t))>>)
    BY <1>0, <1>4, <2>1, <2>2, <2>3, CompletionIsOrdinary
  <2>6. Remembers(<<CompletedEvent(ok, text, Seen(t))>>)
    BY <2>5 DEF Remembers
  <2>7. session' = session \/ (engine \in Deferred /\ session = None)
    BY <1>4, <2>1, SeenSession DEF Deferred
  <2> QED
    BY <1>4, <2>1, <2>4, <2>5, <2>6, <2>7, YieldKeeps
<1>5. ASSUME NEW t \in Session, OpenCodeError(t) PROVE RunInv'
  BY <1>4, <1>5 DEF OpenCodeError
<1>6. ASSUME NEW t \in Session, NEW reason \in {"stop", "tool-calls", "other"},
             OpenCodeStepFinish(t, reason)
      PROVE  RunInv'
  <2>1. /\ session' = Seen(t) /\ engine = "opencode" /\ Reading /\ ~did_emit_completed
        /\ Quiet /\ Apart /\ UNCHANGED <<said, begun, pending, failure>>
    BY <1>6 DEF OpenCodeStepFinish, Quiet, Yield
  <2>2. CASE reason = "stop"
    <3>1. Yield(<<CompletedEvent(TRUE, text, Seen(t))>>) /\ text' = text
      BY <1>6, <2>2 DEF OpenCodeStepFinish
    <3> QED
      BY <1>4, <2>1, <3>1
  <2>3. CASE reason = "tool-calls" /\ text # NoText
    <3>1. Yield(<<TextFinished(text)>>) /\ text' = NoText
      BY <1>6, <2>3 DEF OpenCodeStepFinish
    <3>2. TranslatorStep
      BY <1>0, <2>1, <3>1, SeenSession, AtALine DEF TranslatorStep
    <3> DEFINE e == TextFinished(text)
    <3>3. e \in Event /\ e.type = "text_finished" /\ e.text = text
      BY <1>0, EventsMade DEF TextFinished
    <3> HIDE DEF e
    <3>4. Ordinary(<<e>>)
      BY <3>3, OneIsOrdinary
    <3>5. Remembers(<<e>>)
      <4>1. said # 0 => said \in text \cup tracker.segments
        BY <2>1, AtALine
      <4>2. Len(<<e>>) = 1 /\ <<e>>[1] = e
        OBVIOUS
      <4> QED
        BY <2>1, <3>3, <4>1, <4>2 DEF Remembers
    <3>6. session' = session \/ (engine \in Deferred /\ session = None)
      BY <2>1, SeenSession DEF Deferred
    <3>7. Yield(<<e>>)
      BY <3>1 DEF e
    <3> QED
      BY <2>1, <3>2, <3>4, <3>5, <3>6, <3>7, YieldKeeps
  <2>4. CASE reason # "stop" /\ ~(reason = "tool-calls" /\ text # NoText)
    <3>1. Yield(<<>>) /\ text' = text
      BY <1>6, <2>4 DEF OpenCodeStepFinish
    <3> QED
      BY <1>0, <2>1, <3>1, SeenSession, NoEventKeeps
  <2> QED
    BY <2>2, <2>3, <2>4
<1> QED
  BY <1>1, <1>2, <1>3, <1>5, <1>6 DEF OpenCodeLine

\* pi announces its session first, whatever the line is.
LEMMA PiYieldKeeps ==
  ASSUME RunInv, NEW events, engine = "pi", begun' = TRUE,
         IF begun THEN Yield(events) ELSE YieldStarted(session', events),
         Apart, session' = session \/ (~begun /\ session' \in Token),
         text' \in Text, pending' \subseteq Tool, failure' \in BOOLEAN, said' \in {said, Piece},
         Ordinary(events), Remembers(events)
  PROVE  RunInv'
<1>1. Reading /\ ~did_emit_completed
  BY DEF Yield, YieldStarted
<1>2. session' \in Token /\ session' # None
  BY <1>1, AtALine, TokenAssumption DEF Session
<1>3. TranslatorStep
  BY <1>2 DEF TranslatorStep, Session
<1>4. CASE begun
  BY <1>2, <1>3, <1>4, YieldKeeps
<1>5. CASE ~begun
  <2>1. found_session = None
    BY <1>1, <1>5, AtALine DEF Deferred
  <2>2. ASSUME NEW t \in Token, session' = t PROVE RunInv'
    <3>1. YieldStarted(t, events)
      BY <1>5, <2>2 DEF YieldStarted
    <3> QED
      BY <1>3, <2>1, <2>2, <3>1, YieldStartedKeeps
  <2> QED
    BY <1>2, <2>2
<1> QED
  BY <1>4, <1>5

LEMMA PiKeeps ==
  ASSUME RunInv, PiLine
  PROVE  RunInv'
<1>0. text \in Text /\ pending \subseteq Tool /\ failure \in BOOLEAN
  BY DEF RunInv, TypeOK
<1>1. ASSUME NEW t \in Session, PiHeader(t) PROVE RunInv'
  <2>1. /\ engine = "pi" /\ begun' = TRUE /\ Apart /\ UNCHANGED <<said, text, pending, failure>>
        /\ IF begun THEN Yield(<<>>) ELSE YieldStarted(session', <<>>)
        /\ session' = session \/ (~begun /\ session' \in Token)
        /\ Reading /\ ~did_emit_completed
    BY <1>1 DEF PiHeader, Quiet, Session, Yield, YieldStarted
  <2> QED
    BY <1>0, <2>1, PiYieldKeeps, NothingIsOrdinary, QuietIsRemembered
<1>2. ASSUME NEW e \in Event, e.type = "action", PiYield(<<e>>), engine = "pi", Quiet,
             UNCHANGED <<session, text, failure>>, pending' \subseteq Tool
      PROVE  RunInv'
  <2>1. /\ begun' = TRUE /\ Apart /\ said' = said /\ Reading /\ ~did_emit_completed
        /\ IF begun THEN Yield(<<e>>) ELSE YieldStarted(session', <<e>>)
    BY <1>2 DEF PiYield, Quiet, Yield, YieldStarted
  <2> QED
    BY <1>0, <1>2, <2>1, PiYieldKeeps, OneIsOrdinary, QuietIsRemembered
<1>3. ASSUME NEW a \in Tool, PiToolStart(a) \/ PiToolEnd(a) PROVE RunInv'
  <2>1. ASSUME NEW p \in {"started", "completed"}
        PROVE  ActionEvent(a, p) \in Event /\ ActionEvent(a, p).type = "action"
    BY EventsMade DEF ActionEvent
  <2>2. CASE PiToolStart(a)
    BY <1>0, <1>2, <2>1, <2>2 DEF PiToolStart
  <2>3. CASE PiToolEnd(a)
    BY <1>0, <1>2, <2>1, <2>3 DEF PiToolEnd
  <2> QED
    BY <1>3, <2>2, <2>3
<1>4. ASSUME NEW says \in BOOLEAN, NEW fails \in BOOLEAN, NEW events,
             engine = "pi", PiAssistant(says, fails), PiYield(events)
      PROVE  /\ begun' = TRUE /\ Apart /\ session' = session /\ pending' \subseteq Tool
             /\ text' \in Text /\ failure' \in BOOLEAN
             /\ (said' = said /\ text' = text) \/ (said' = Piece /\ Piece \in text')
             /\ said' # 0 => said' \in text' \cup tracker.segments
             /\ IF begun THEN Yield(events) ELSE YieldStarted(session', events)
             /\ Reading /\ ~did_emit_completed
  <2>1. /\ begun' = TRUE /\ Apart /\ session' = session /\ pending' = pending
        /\ text' = (IF says THEN {Piece} ELSE text) /\ said' = (IF says THEN Piece ELSE said)
        /\ failure' = (failure \/ fails)
        /\ IF begun THEN Yield(events) ELSE YieldStarted(session', events)
        /\ Reading /\ ~did_emit_completed
    BY <1>4 DEF PiAssistant, PiYield, Says, Yield, YieldStarted
  <2>2. failure' \in BOOLEAN
    BY <2>1
  <2> QED
    BY <1>0, <2>1, <2>2, AtALine
<1>5. ASSUME NEW says \in BOOLEAN, NEW fails \in BOOLEAN, PiMessageEnd(says, fails) PROVE RunInv'
  <2>1. engine = "pi" /\ PiAssistant(says, fails) /\ PiYield(<<>>)
    BY <1>5 DEF PiMessageEnd
  <2> QED
    BY <1>4, <2>1, PiYieldKeeps, NothingIsOrdinary, QuietIsRemembered
<1>6. ASSUME NEW says \in BOOLEAN, NEW fails \in BOOLEAN, PiAgentEnd(says, fails) PROVE RunInv'
  <2> DEFINE e == CompletedEvent(~(failure'), text', session)
  <2>1. engine = "pi" /\ PiAssistant(says, fails) /\ PiYield(<<e>>)
    BY <1>6 DEF PiAgentEnd
  <2>2. /\ begun' = TRUE /\ Apart /\ session' = session /\ pending' \subseteq Tool
        /\ text' \in Text /\ failure' \in BOOLEAN
        /\ (said' = said /\ text' = text) \/ (said' = Piece /\ Piece \in text')
        /\ said' # 0 => said' \in text' \cup tracker.segments
        /\ IF begun THEN Yield(<<e>>) ELSE YieldStarted(session', <<e>>)
        /\ Reading /\ ~did_emit_completed
    <3> HIDE DEF e
    <3> QED
      BY <1>4, <2>1
  <2>3. engine' = engine /\ tracker' = tracker
    BY <2>2 DEF Apart, bridge
  <2>4. found_session' # None => session = found_session'
    <3>1. CASE begun
      BY <2>1, <2>2, <3>1, AtALine DEF Yield, Deferred
    <3>2. CASE ~begun
      <4>1. YieldStarted(session', <<e>>) /\ found_session = None
        BY <2>1, <2>2, <3>2, AtALine DEF Deferred
      <4> HIDE DEF e
      <4> QED
        BY <2>2, <4>1 DEF YieldStarted
    <3> QED
      BY <3>1, <3>2
  <2>5. (~(failure')) \in BOOLEAN /\ session \in Session
    BY <2>2, AtALine
  <2>6. Ordinary(<<e>>) /\ Completes(<<e>>)
    BY <2>2, <2>3, <2>4, <2>5, CompletionIsOrdinary
  <2> HIDE DEF e
  <2>7. Remembers(<<e>>)
    BY <2>6 DEF Remembers
  <2> QED
    BY <2>1, <2>2, <2>6, <2>7, PiYieldKeeps
<1>7. CASE PiOther
  <2>1. /\ engine = "pi" /\ begun' = TRUE /\ Apart /\ UNCHANGED <<session, said, text, pending, failure>>
        /\ IF begun THEN Yield(<<>>) ELSE YieldStarted(session', <<>>)
        /\ Reading /\ ~did_emit_completed
    BY <1>7 DEF PiOther, PiYield, Quiet, Yield, YieldStarted
  <2> QED
    BY <1>0, <2>1, PiYieldKeeps, NothingIsOrdinary, QuietIsRemembered
<1> QED
  BY <1>1, <1>3, <1>5, <1>6, <1>7 DEF PiLine

LEMMA LineKeeps == RunInv /\ Line => RunInv'
BY DropKeeps, SkipKeeps, BadKeeps, CodexKeeps, ClaudeKeeps, OpenCodeKeeps, PiKeeps DEF Line

----------------------------------------------------------------------------
(***************************************************************************)
(* The bridge takes an event.                                              *)
(***************************************************************************)
\* What is left of the line after its first event.
LEMMA Taking ==
  ASSUME RunInv, out # <<>>
  PROVE  LET left == Tail(out)
         IN  /\ left \in Seq(Event) /\ Head(out) \in Event /\ Head(out) = out[1] /\ Len(left) \in Nat
             /\ \A i \in 1..Len(left) : i + 1 \in 1..Len(out) /\ left[i] = out[i + 1]
             /\ \A i \in 1..Len(out) : i = 1 \/ (i - 1 \in 1..Len(left) /\ left[i - 1] = out[i])
             /\ Head(out).type # "completed" => (Completes(left) <=> Completes(out))
             /\ Head(out).type = "completed" => left = <<>> /\ Completes(out)
             /\ pc \in {"reading", "closing"} /\ outcome.completed = None
<1>1. out \in Seq(Event) /\ OutInv /\ BridgeInv
  BY DEF RunInv, TypeOK
<1>2. pc \in {"reading", "closing"} /\ outcome.completed = None
  BY <1>1 DEF OutInv, BridgeInv
<1> DEFINE left == Tail(out)
<1>3. /\ left \in Seq(Event) /\ Head(out) \in Event /\ Head(out) = out[1] /\ Len(left) \in Nat
      /\ Len(out) \in Nat /\ Len(out) > 0 /\ Len(left) = Len(out) - 1
      /\ \A i \in 1..Len(left) : left[i] = out[i + 1]
  BY <1>1, HeadTailProperties
<1>4. DOMAIN left = 1..Len(left) /\ DOMAIN out = 1..Len(out)
  BY <1>1, <1>3
<1> HIDE DEF left
<1>5. /\ \A i \in 1..Len(left) : i + 1 \in 1..Len(out) /\ left[i] = out[i + 1]
      /\ \A i \in 1..Len(out) : i = 1 \/ (i - 1 \in 1..Len(left) /\ left[i - 1] = out[i])
  BY <1>3
<1>6. ASSUME Head(out).type # "completed" PROVE Completes(left) <=> Completes(out)
  BY <1>3, <1>4, <1>5, <1>6 DEF Completes
<1>7. ASSUME Head(out).type = "completed" PROVE left = <<>> /\ Completes(out)
  <2>1. 1 \in 1..Len(out) /\ 1 = Len(out)
    BY <1>1, <1>3, <1>7 DEF OutInv
  <2>2. Len(left) = Len(out) - 1 /\ Len(out) = 1
    BY <1>3, <2>1
  <2>3. Len(left) = 0
    BY <2>2
  <2>4. left = <<>>
    BY <1>3, <2>3, EmptySeq
  <2> QED
    BY <1>3, <1>4, <1>7, <2>1, <2>4 DEF Completes
<1> QED
  BY <1>2, <1>3, <1>5, <1>6, <1>7 DEF left

\* An event other than a completion, whatever the bridge does with it.
LEMMA TakeKeeps ==
  ASSUME RunInv, NEW type, type # "completed", Take(type), Still,
         outcome' \in [resume : Session, completed : Event \cup {None}],
         tracker' \in [resume : Session, running : SUBSET (Tool \cup {Reconnect}),
                       segments : Text, streaming : Text],
         outcome'.completed = outcome.completed,
         tracker.segments \subseteq tracker'.segments,
         type = "text_finished" => Head(out).text \subseteq tracker'.segments,
         IF type = "started" THEN tracker'.resume = Head(out).resume /\ starts' = starts + 1
         ELSE tracker'.resume = tracker.resume /\ starts' = starts
  PROVE  RunInv'
<1>0. TypeOK /\ OutInv /\ SessionInv /\ SaidInv /\ BridgeInv /\ CompletionInv /\ FinalInv
  BY DEF RunInv
<1>1. /\ out # <<>> /\ Head(out).type = type /\ out' = Tail(out)
      /\ engine' = engine /\ expected' = expected /\ pc' = pc /\ rc' = rc /\ final' = final
      /\ session' = session /\ begun' = begun /\ text' = text /\ pending' = pending /\ failure' = failure
      /\ lines' = lines /\ found_session' = found_session /\ said' = said
      /\ did_emit_completed' = did_emit_completed
  BY DEF Take, Still, translator, stream
<1>2. /\ out' \in Seq(Event) /\ Head(out) \in Event /\ Head(out) = out[1] /\ Len(out') \in Nat
      /\ \A i \in 1..Len(out') : i + 1 \in 1..Len(out) /\ out'[i] = out[i + 1]
      /\ \A i \in 1..Len(out) : i = 1 \/ (i - 1 \in 1..Len(out') /\ out'[i - 1] = out[i])
      /\ Completes(Tail(out)) <=> Completes(out)
      /\ pc \in {"reading", "closing"} /\ outcome.completed = None
  BY <1>1, Taking
<1>3. type = "started" => Head(out).resume = found_session /\ starts = 0 /\ Head(out).resume # None
  <2>1. 1 \in 1..Len(out)
    BY <1>0, <1>1 DEF TypeOK
  <2> QED
    BY <1>0, <1>1, <1>2, <2>1, EventFields, TokenAssumption DEF OutInv
<1>4. TypeOK'
  BY <1>0, <1>1, <1>2, <1>3 DEF TypeOK
<1>5. ASSUME NEW e, CompletionFits(e) PROVE CompletionFits(e)'
  BY <1>1, <1>5 DEF CompletionFits
<1>6. OutInv'
  <2>1. ASSUME NEW i \in 1..Len(out')
        PROVE  /\ out'[i].type # "started"
               /\ out'[i].type = "completed" => i = Len(out') /\ \A e : e = out'[i] => CompletionFits(e)'
    <3>1. i + 1 \in 1..Len(out) /\ out'[i] = out[i + 1] /\ i + 1 # 1
      BY <1>2, <2>1
    <3>2. out[i + 1].type # "started"
      BY <1>0, <3>1 DEF OutInv
    <3>3. out[i + 1].type = "completed" => i + 1 = Len(out) /\ CompletionFits(out[i + 1])
      BY <1>0, <3>1 DEF OutInv
    <3>4. Len(out') = Len(out) - 1
      BY <1>0, <1>1, HeadTailProperties DEF TypeOK
    <3>5. \A e : e = out[i + 1] /\ CompletionFits(out[i + 1]) => CompletionFits(e)'
      BY <1>5
    <3> QED
      BY <1>2, <3>1, <3>2, <3>3, <3>4, <3>5
  <2> QED
    BY <1>1, <1>2, <2>1 DEF OutInv, CompletionFits
<1>7. SessionInv'
  BY <1>0, <1>1 DEF SessionInv
<1>8. SaidInv'
  <2>1. ASSUME Shown(out) PROVE Shown(out)' \/ said \in tracker'.segments
    <3>1. PICK i \in 1..Len(out) : out[i].type = "text_finished" /\ said \in out[i].text
      BY <2>1 DEF Shown
    <3>2. CASE i = 1
      BY <1>1, <1>2, <3>1, <3>2
    <3>3. CASE i # 1
      <4>1. i - 1 \in 1..Len(out') /\ out'[i - 1] = out[i]
        BY <1>2, <3>1, <3>3
      <4> QED
        BY <1>1, <3>1, <4>1 DEF Shown
    <3> QED
      BY <3>2, <3>3
  <2> QED
    BY <1>0, <1>1, <2>1 DEF SaidInv
<1>9. BridgeInv'
  BY <1>0, <1>1, <1>2, <1>3 DEF BridgeInv, TypeOK
<1>10. CompletionInv' /\ FinalInv'
  BY <1>0, <1>1, <1>2 DEF CompletionInv, FinalInv, Completes
<1> QED
  BY <1>4, <1>6, <1>7, <1>8, <1>9, <1>10 DEF RunInv

LEMMA TakeCompletedKeeps ==
  ASSUME RunInv, TakeCompleted
  PROVE  RunInv'
<1>0. TypeOK /\ OutInv /\ SessionInv /\ SaidInv /\ BridgeInv /\ CompletionInv /\ FinalInv
  BY DEF RunInv
<1>1. /\ out # <<>> /\ Head(out).type = "completed" /\ out' = Tail(out)
      /\ outcome' = [resume |-> Or(Head(out).resume, outcome.resume), completed |-> Head(out)]
      /\ tracker' = tracker /\ starts' = starts
      /\ engine' = engine /\ expected' = expected /\ pc' = pc /\ rc' = rc /\ final' = final
      /\ session' = session /\ begun' = begun /\ text' = text /\ pending' = pending /\ failure' = failure
      /\ lines' = lines /\ found_session' = found_session /\ said' = said
      /\ did_emit_completed' = did_emit_completed
  BY DEF TakeCompleted, Take, Still, translator, stream
<1>2. out' = <<>> /\ Head(out) \in Event /\ Head(out) = out[1] /\ pc \in {"reading", "closing"} /\ Completes(out)
  BY <1>1, Taking
<1>3. 1 \in 1..Len(out) /\ CompletionFits(out[1])
  BY <1>0, <1>1, <1>2 DEF OutInv, TypeOK
<1>4. did_emit_completed \/ pc = "closing"
  BY <1>0, <1>2 DEF CompletionInv
<1>5. Head(out).resume \in Session /\ Head(out) # None
  BY <1>1, <1>2, EventFields, NoneAssumption
<1>6. outcome' \in [resume : Session, completed : Event \cup {None}]
  BY <1>0, <1>1, <1>2, <1>5 DEF TypeOK, Or
<1>7. TypeOK'
  BY <1>0, <1>1, <1>2, <1>6 DEF TypeOK
<1>8. OutInv' /\ SessionInv'
  BY <1>0, <1>1, <1>2 DEF OutInv, SessionInv
<1>9. SaidInv'
  BY <1>1, <1>2, <1>4 DEF SaidInv
<1>10. BridgeInv'
  <2>1. \A e : e = Head(out) => CompletionFits(e)'
    BY <1>1, <1>2, <1>3 DEF CompletionFits
  <2>2. outcome'.completed = Head(out)
    BY <1>1
  <2> QED
    BY <1>0, <1>1, <1>2, <2>1, <2>2 DEF BridgeInv, CompletionFits
<1>11. CompletionInv' /\ FinalInv'
  BY <1>0, <1>1, <1>2, <1>4, <1>5 DEF CompletionInv, FinalInv, Completes
<1> QED
  BY <1>7, <1>8, <1>9, <1>10, <1>11 DEF RunInv

LEMMA BridgeKeeps == RunInv /\ Bridge => RunInv'
<1> SUFFICES ASSUME RunInv, Bridge PROVE RunInv'
  OBVIOUS
<1>1. /\ outcome \in [resume : Session, completed : Event \cup {None}]
      /\ tracker \in [resume : Session, running : SUBSET (Tool \cup {Reconnect}),
                      segments : Text, streaming : Text]
  BY DEF RunInv, TypeOK
<1>2. CASE TakeStarted
  <2>1. Take("started") /\ Still /\ out # <<>> /\ Head(out).type = "started"
        /\ outcome' = [outcome EXCEPT !.resume = Head(out).resume]
        /\ tracker' = [tracker EXCEPT !.resume = Head(out).resume] /\ starts' = starts + 1
    BY <1>2 DEF TakeStarted, Take
  <2>2. Head(out).resume \in Session
    BY <2>1, Taking, EventFields DEF Session
  <2> QED
    BY <1>1, <2>1, <2>2, TakeKeeps
<1>3. CASE TakeAction
  <2>1. Take("action") /\ Still /\ out # <<>> /\ Head(out).type = "action"
        /\ tracker' = [tracker EXCEPT !.running = IF Head(out).phase = "completed"
                                                  THEN @ \ {Head(out).id} ELSE @ \cup {Head(out).id}]
        /\ outcome' = outcome /\ starts' = starts
    BY <1>3 DEF TakeAction, Take
  <2>2. Head(out).id \in Tool \cup {Reconnect}
    BY <2>1, Taking, EventFields
  <2> QED
    BY <1>1, <2>1, <2>2, TakeKeeps
<1>4. CASE TakeNote
  BY <1>1, <1>4, TakeKeeps DEF TakeNote, bridge
<1>5. CASE TakeText
  <2>1. out # <<>> /\ Head(out).type \in {"text_delta", "text_finished"} /\ Still
        /\ outcome' = outcome /\ starts' = starts
    BY <1>5 DEF TakeText, Take
  <2>2. Head(out).text \in Text /\ NoText \in Text
    BY <2>1, Taking, EventFields DEF NoText, Text
  <2>3. CASE Take("text_delta") /\ tracker' = [tracker EXCEPT !.streaming = Head(out).text]
    BY <1>1, <2>1, <2>2, <2>3, TakeKeeps
  <2>4. CASE /\ Take("text_finished")
             /\ tracker' = [tracker EXCEPT !.streaming = NoText, !.segments = @ \cup Head(out).text]
    <3>1. tracker.segments \cup Head(out).text \in Text
      BY <1>1, <2>2 DEF Text
    <3> QED
      BY <1>1, <2>1, <2>2, <2>4, <3>1, TakeKeeps
  <2> QED
    BY <1>5, <2>3, <2>4 DEF TakeText
<1>6. CASE TakeCompleted
  BY <1>6, TakeCompletedKeeps
<1> QED
  BY <1>2, <1>3, <1>4, <1>5, <1>6 DEF Bridge

----------------------------------------------------------------------------
(***************************************************************************)
(* The end of the run.                                                     *)
(***************************************************************************)
LEMMA ExitKeeps == RunInv /\ Exit => RunInv'
<1> SUFFICES ASSUME RunInv, NEW code \in Code, AgentExits(code) PROVE RunInv'
  BY DEF Exit
<1>1. /\ pc = "reading" /\ out = <<>> /\ pc' = "exited" /\ rc' = code
      /\ UNCHANGED <<engine, expected, lines, session, begun, text, pending, failure, found_session,
                     did_emit_completed, out, outcome, tracker, starts, final, said>>
  BY DEF AgentExits, translator, stream, bridge
<1>2. TypeOK'
  BY <1>1 DEF RunInv, TypeOK
<1>3. SaidInv'
  BY <1>1 DEF RunInv, SaidInv, Shown
<1>4. CompletionInv' /\ FinalInv'
  BY <1>1 DEF RunInv, CompletionInv, FinalInv, Completes
<1>5. OutInv' /\ SessionInv' /\ BridgeInv'
  BY <1>1 DEF RunInv, OutInv, SessionInv, BridgeInv, CompletionFits
<1> QED
  BY <1>2, <1>3, <1>4, <1>5 DEF RunInv

\* What a runner yields when the agent is gone: a completion that fits, after
\* a warning or the recovered text.
LEMMA LastEvents ==
  ASSUME RunInv, pc = "exited", ~did_emit_completed,
         NEW events, events \in {ProcessErrorEvents} \cup StreamEndEvents
  PROVE  \E e \in Event, f \in Event :
           /\ events \in {<<f>>, <<e, f>>} /\ e.type \notin {"started", "completed"}
           /\ f.type = "completed" /\ CompletionFits(f)
<1>0. TypeOK /\ SessionInv /\ SaidInv /\ OutInv
  BY DEF RunInv
<1>1. /\ text \in Text /\ NoText \in Text /\ {MaxLines + 1} \in Text
      /\ found_session \in Session /\ expected \in Session /\ session \in Session
      /\ said \in 0 .. MaxLines
  BY <1>0, LinesAssumption DEF TypeOK, Text, NoText
<1>2. said # 0 => said \in text \cup tracker.segments
  BY <1>0 DEF SaidInv, Shown, OutInv
<1>3. Known \in Session /\ (found_session # None => Known = found_session)
  BY <1>1, TokenAssumption DEF Known, Or, Session
<1>4. ASSUME NEW ok \in BOOLEAN, NEW s \in Text, NEW t \in Session,
             engine \notin StreamJson /\ found_session # None => t = found_session,
             s = text \/ (engine \in StreamJson /\ ~ok) \/ (text = NoText /\ s \in Text)
      PROVE  /\ CompletedEvent(ok, s, t) \in Event /\ CompletedEvent(ok, s, t).type = "completed"
             /\ CompletionFits(CompletedEvent(ok, s, t))
  <2>1. CompletedEvent(ok, s, t) \in Event
    BY EventsMade
  <2>2. said # 0 /\ (engine \in StreamJson => ok) => said \in s \cup tracker.segments
    BY <1>2, <1>4 DEF NoText
  <2> QED
    BY <1>4, <2>1, <2>2 DEF CompletionFits, CompletedEvent
<1>5. NoteEvent \in Event /\ NoteEvent.type = "note"
  BY EventsMade DEF NoteEvent
<1>6. TextDelta({MaxLines + 1}) \in Event /\ TextDelta({MaxLines + 1}).type = "text_delta"
  BY <1>1, EventsMade DEF TextDelta
<1>7. ASSUME NEW f \in Event, f.type = "completed", CompletionFits(f),
             events \in {<<f>>, <<NoteEvent, f>>, <<TextDelta({MaxLines + 1}), f>>}
      PROVE  \E e \in Event, d \in Event :
           /\ events \in {<<d>>, <<e, d>>} /\ e.type \notin {"started", "completed"}
           /\ d.type = "completed" /\ CompletionFits(d)
  BY <1>5, <1>6, <1>7
<1>8. CASE events = ProcessErrorEvents
  <2> DEFINE s == IF engine \in StreamJson THEN NoText ELSE text
  <2>1. s \in Text /\ (s = text \/ engine \in StreamJson)
    BY <1>1
  <2>2. events = <<NoteEvent, CompletedEvent(FALSE, s, Known)>>
    BY <1>8 DEF ProcessErrorEvents
  <2> HIDE DEF s
  <2> QED
    BY <1>3, <1>4, <1>7, <2>1, <2>2
<1>9. CASE engine = "codex" /\ events \in StreamEndEvents
  <2>1. events = <<CompletedEvent(found_session # None, text, Known)>>
    BY <1>9 DEF StreamEndEvents, CodexStreamEnd, StreamJson
  <2> QED
    BY <1>1, <1>3, <1>4, <1>7, <2>1
<1>10. CASE engine \in StreamJson /\ events \in StreamEndEvents
  <2> DEFINE s == IF found_session = None THEN NoText ELSE text
  <2>1. s \in Text
    BY <1>1
  <2>2. events = <<CompletedEvent(FALSE, s, Known)>>
    BY <1>10 DEF StreamEndEvents, ClaudeStreamEnd, StreamJson
  <2> HIDE DEF s
  <2> QED
    BY <1>3, <1>4, <1>7, <1>10, <2>1, <2>2
<1>11. CASE engine = "opencode" /\ events \in StreamEndEvents
  <2>1. \/ events = <<CompletedEvent(found_session # None, text, Known)>>
        \/ text = NoText /\ events \in {Recovered, <<CompletedEvent(FALSE, NoText, found_session)>>}
    BY <1>11 DEF StreamEndEvents, OpenCodeStreamEnd, StreamJson
  <2>2. CASE events = <<CompletedEvent(found_session # None, text, Known)>>
    BY <1>1, <1>3, <1>4, <1>7, <2>2
  <2>3. CASE text = NoText /\ events = <<CompletedEvent(FALSE, NoText, found_session)>>
    BY <1>1, <1>4, <1>7, <2>3
  <2>4. CASE text = NoText /\ events = Recovered
    BY <1>1, <1>4, <1>7, <2>4 DEF Recovered
  <2> QED
    BY <2>1, <2>2, <2>3, <2>4
<1>12. CASE engine = "pi" /\ events \in StreamEndEvents
  <2>1. events = <<CompletedEvent(FALSE, text, Known)>>
    BY <1>12 DEF StreamEndEvents, PiStreamEnd, StreamJson
  <2> QED
    BY <1>1, <1>3, <1>4, <1>7, <2>1
<1>13. engine \in {"codex", "opencode", "pi"} \cup StreamJson
  BY <1>0, EngineAssumption DEF TypeOK, Engines, StreamJson
<1> QED
  BY <1>8, <1>9, <1>10, <1>11, <1>12, <1>13

LEMMA CloseKeeps == RunInv /\ Close => RunInv'
<1> SUFFICES ASSUME RunInv, Close PROVE RunInv'
  OBVIOUS
<1>0. TypeOK /\ OutInv /\ SessionInv /\ SaidInv /\ BridgeInv /\ CompletionInv /\ FinalInv
  BY DEF RunInv
<1>1. /\ pc = "exited"
      /\ UNCHANGED <<engine, expected, rc, lines, session, begun, text, pending, failure, found_session,
                     did_emit_completed, outcome, tracker, starts, final, said>>
  BY DEF Close, translator, stream, bridge
<1>2. out = <<>>
  BY <1>0, <1>1 DEF OutInv
<1>3. SaidInv' /\ SessionInv' /\ FinalInv'
  <2>1. pc' \in {"ended", "closing"}
    BY DEF Close
  <2> QED
    BY <1>0, <1>1, <2>1 DEF SaidInv, SessionInv, FinalInv
<1>4. CASE did_emit_completed
  <2>1. pc' = "ended" /\ out' = out
    BY <1>4 DEF Close
  <2>2. outcome.completed # None
    BY <1>0, <1>2, <1>4 DEF CompletionInv, Completes
  <2>3. TypeOK'
    BY <1>0, <1>1, <2>1 DEF TypeOK
  <2>4. OutInv' /\ BridgeInv' /\ CompletionInv'
    BY <1>0, <1>1, <1>2, <2>1, <2>2 DEF OutInv, BridgeInv, CompletionInv, CompletionFits, Completes
  <2> QED
    BY <1>3, <2>3, <2>4 DEF RunInv
<1>5. CASE ~did_emit_completed
  <2>1. pc' = "closing" /\ out' \in {ProcessErrorEvents} \cup StreamEndEvents
    BY <1>5 DEF Close
  <2>2. PICK e \in Event, f \in Event :
           /\ out' \in {<<f>>, <<e, f>>} /\ e.type \notin {"started", "completed"}
           /\ f.type = "completed" /\ CompletionFits(f)
    BY <1>1, <1>5, <2>1, LastEvents
  <2>3. /\ out' \in Seq(Event) /\ Len(out') \in Nat
        /\ \A i \in 1..Len(out') : (out'[i] = f /\ i = Len(out')) \/ out'[i] = e
        /\ Len(out') \in 1..Len(out') /\ out'[Len(out')] = f
    BY <2>2
  <2>4. CompletionFits(f)'
    BY <1>1, <2>2 DEF CompletionFits
  <2>5. outcome.completed = None
    BY <1>0, <1>1, <1>2, <1>5 DEF CompletionInv
  <2>6. TypeOK'
    BY <1>0, <1>1, <2>1, <2>3 DEF TypeOK
  <2>7. OutInv'
    BY <1>1, <2>1, <2>2, <2>3, <2>4 DEF OutInv, CompletionFits
  <2>8. BridgeInv' /\ CompletionInv'
    <3>1. Completes(out)'
      BY <2>2, <2>3 DEF Completes
    <3> QED
      BY <1>0, <1>1, <2>1, <2>5, <3>1 DEF BridgeInv, CompletionInv
  <2> QED
    BY <1>3, <2>6, <2>7, <2>8 DEF RunInv
<1> QED
  BY <1>4, <1>5

LEMMA EndingKeeps == RunInv /\ Ending => RunInv'
<1> SUFFICES ASSUME RunInv, Ending PROVE RunInv'
  OBVIOUS
<1>0. TypeOK /\ OutInv /\ SessionInv /\ SaidInv /\ BridgeInv /\ CompletionInv /\ FinalInv
  BY DEF RunInv
<1>1. CASE Closed
  <2>1. /\ pc = "closing" /\ out = <<>> /\ pc' = "ended"
        /\ UNCHANGED <<engine, expected, rc, lines, session, begun, text, pending, failure, found_session,
                       did_emit_completed, out, outcome, tracker, starts, final, said>>
    BY <1>1 DEF Closed, translator, stream, bridge
  <2>2. outcome.completed # None
    BY <1>0, <2>1 DEF CompletionInv, Completes
  <2>3. TypeOK' /\ SessionInv' /\ SaidInv' /\ FinalInv'
    BY <1>0, <2>1 DEF TypeOK, SessionInv, SaidInv, FinalInv
  <2>4. OutInv' /\ BridgeInv' /\ CompletionInv'
    BY <1>0, <2>1, <2>2 DEF OutInv, BridgeInv, CompletionInv, CompletionFits
  <2> QED
    BY <2>3, <2>4 DEF RunInv
<1>2. ASSUME pc \in {"ended", "raised"}, pc' = "answered",
             UNCHANGED <<engine, expected, rc, translator, stream, out, bridge, said>>, FinalInv'
      PROVE  RunInv'
  <2>1. UNCHANGED <<engine, expected, rc, lines, session, begun, text, pending, failure, found_session,
                    did_emit_completed, out, outcome, tracker, starts, said>>
    BY <1>2 DEF translator, stream, bridge
  <2>2. out = <<>>
    BY <1>0, <1>2 DEF OutInv
  <2>3. TypeOK' /\ SessionInv' /\ SaidInv'
    BY <1>0, <1>2, <2>1 DEF TypeOK, SessionInv, SaidInv
  <2>4. OutInv' /\ BridgeInv' /\ CompletionInv'
    BY <1>0, <1>2, <2>1, <2>2 DEF OutInv, BridgeInv, CompletionInv, CompletionFits, Completes
  <2> QED
    BY <1>2, <2>3, <2>4 DEF RunInv
<1>3. CASE Answer
  <2>1. /\ pc = "ended" /\ outcome.completed # None /\ pc' = "answered"
        /\ final'.resume = Or(Or(outcome.completed.resume, outcome.resume), tracker.resume)
        /\ UNCHANGED <<engine, expected, rc, translator, stream, out, bridge, said>>
    BY <1>3 DEF Answer
  <2>2. starts > 0 => tracker.resume = found_session /\ found_session # None
    BY <1>0 DEF BridgeInv, TypeOK
  <2>3. engine \notin StreamJson /\ found_session # None => outcome.completed.resume = found_session
    BY <1>0, <2>1 DEF BridgeInv, CompletionFits
  <2>4. FinalInv'
    BY <2>1, <2>2, <2>3 DEF FinalInv, Or, stream, bridge
  <2> QED
    BY <1>2, <2>1, <2>4
<1>4. CASE AnswerError
  <2>1. /\ pc = "raised" /\ pc' = "answered"
        /\ UNCHANGED <<engine, expected, rc, translator, stream, out, bridge, said>>
    BY <1>4 DEF AnswerError
  <2>2. ~(starts > 0)
    BY <1>0, <2>1 DEF BridgeInv, SessionInv
  <2>3. FinalInv'
    BY <2>1, <2>2 DEF FinalInv, bridge
  <2> QED
    BY <1>2, <2>1, <2>3
<1> QED
  BY <1>1, <1>3, <1>4, CloseKeeps DEF Ending

----------------------------------------------------------------------------
LEMMA RunInvariance == Spec => []RunInv
<1>1. RunInv /\ UNCHANGED vars => RunInv'
  BY DEF vars, translator, stream, bridge, RunInv, TypeOK, OutInv, SessionInv, SaidInv, Shown, BridgeInv,
         CompletionInv, FinalInv, CompletionFits, Completes
<1>2. RunInv /\ [Next]_vars => RunInv'
  BY <1>1, LineKeeps, BridgeKeeps, ExitKeeps, EndingKeeps DEF Next
<1> QED
  BY <1>2, RunInit, PTL DEF Spec

\* Type correctness: whatever an agent prints, the events of its run, the outcome
\* and the progress view are of their types, and the bridge takes at most one
\* StartedEvent of the stream (run_runner).
THEOREM TypeCorrect == Spec => []TypeOK
<1>1. RunInv => TypeOK
  BY DEF RunInv
<1> QED
  BY <1>1, RunInvariance, PTL

\* A run that announced its session does not die of an exception, and a stream
\* that ends has given a completion, so handle_message never raises "runner
\* finished without a completed event": run_impl of the subprocess runner and the
\* stream_end_events and process_error_events of every engine see to it.
THEOREM AnnouncedRunsComplete == Spec => []StartedRunCompletes
<1>1. RunInv => StartedRunCompletes
  BY DEF RunInv, TypeOK, SessionInv, BridgeInv, CompletionInv, StartedRunCompletes
<1> QED
  BY <1>1, RunInvariance, PTL

\* The final message of a run that announced a session has a resume token, and for
\* the engines that do not take it from the agent's result it is the announced one,
\* which is the one the prompt resumed: handle_message's merge of the completion's
\* token, the outcome's and the tracker's never leads to another session.
THEOREM FinalsNameTheSession == Spec => []FinalNamesSession
<1>1. RunInv => FinalNamesSession
  <2> SUFFICES ASSUME RunInv, final # None, starts > 0
               PROVE  /\ final.resume # None
                      /\ engine \notin StreamJson => final.resume = found_session
                      /\ expected # None => found_session = expected
    BY DEF FinalNamesSession
  <2>1. SessionInv /\ BridgeInv /\ FinalInv
    BY DEF RunInv
  <2> QED
    BY <2>1 DEF SessionInv, BridgeInv, FinalInv
<1> QED
  BY <1>1, RunInvariance, PTL

\* The newest text of the agent is in the answer or in a text that was shown, at
\* every completion, of an engine that keeps its text for the end of the stream or
\* of a stream-json run that succeeds: neither the translators' own buffers nor
\* process_error_events and stream_end_events lose it.
THEOREM AnswersSurvive == Spec => []AnswerSurvives
<1>1. RunInv => AnswerSurvives
  BY DEF RunInv, BridgeInv, CompletionFits, AnswerSurvives
<1> QED
  BY <1>1, RunInvariance, PTL

----------------------------------------------------------------------------
(***************************************************************************)
(* A run implements the contract of the runners.                           *)
(***************************************************************************)
LEMMA ContractKept ==
  ASSUME outcome' = outcome, tracker'.resume = tracker.resume, expected' = expected,
         (pc' \in {"raised", "answered"}) <=> (pc \in {"raised", "answered"})
  PROVE  UNCHANGED Contract!vars
BY DEF Contract!vars, Fate

LEMMA YieldsKeepContract ==
  ASSUME RunInv, Apart, Reading, ~did_emit_completed,
         pc' = pc \/ (pc' = "raised" /\ found_session = None)
  PROVE  [Contract!Next]_(Contract!vars)
<1>1. outcome' = outcome /\ tracker' = tracker /\ expected' = expected
  BY DEF Apart, bridge
<1>2. CASE pc' = pc
  BY <1>1, <1>2, ContractKept
<1>3. CASE pc' = "raised" /\ found_session = None
  <2>1. Fate = "running" /\ Fate' = "failed" /\ outcome.completed = None
    BY <1>1, <1>3, AtALine DEF Fate
  <2>2. tracker.resume = None
    BY <1>3 DEF RunInv, TypeOK, BridgeInv
  <2>3. Contract!Fail
    BY <1>1, <2>1, <2>2 DEF Contract!Fail
  <2> QED
    BY <2>3 DEF Contract!Next
<1> QED
  BY <1>2, <1>3

\* What every line but those after the completion does to the rest of the run.
LineEffect ==
  /\ Apart /\ Reading /\ ~did_emit_completed
  /\ pc' = pc \/ (pc' = "raised" /\ found_session' = found_session)

LEMMA LinesYield ==
  Line => (Apart /\ Reading /\ pc' = pc) \/ LineEffect
<1> SUFFICES ASSUME Line PROVE (Apart /\ Reading /\ pc' = pc) \/ LineEffect
  OBVIOUS
<1>1. CASE DropLine
  BY <1>1 DEF DropLine, Quiet
<1>2. ASSUME Apart, NEW events, Yield(events) PROVE LineEffect
  BY <1>2 DEF Yield, LineEffect
<1>3. ASSUME Apart, NEW t, NEW events, YieldStarted(t, events) PROVE LineEffect
  BY <1>3 DEF YieldStarted, LineEffect
<1>4. CASE SkipLine \/ BadLine
  BY <1>2, <1>4 DEF SkipLine, BadLine, Quiet
<1>5. ASSUME NEW t \in Token, FactoryStarted(t) PROVE LineEffect
  BY <1>2, <1>3, <1>5 DEF FactoryStarted, Quiet
<1>6. ASSUME NEW events, PiYield(events), Apart PROVE LineEffect
  BY <1>2, <1>3, <1>6 DEF PiYield
<1>7. CASE CodexLine
  BY <1>2, <1>5, <1>7
     DEF CodexLine, CodexThreadStarted, CodexItem, CodexReconnect, CodexTurnEnded, CodexTurnStarted,
         CodexMessage, Quiet
<1>8. CASE ClaudeLine
  BY <1>2, <1>5, <1>8
     DEF ClaudeLine, ClaudeInit, ClaudeToolUse, ClaudeToolResult, ClaudeResult, ClaudeThinking, ClaudeText,
         CodeBuddySnapshot, Quiet
<1>9. CASE OpenCodeLine
  BY <1>2, <1>3, <1>9
     DEF OpenCodeLine, OpenCodeStepStart, OpenCodeToolUse, OpenCodeText, OpenCodeStepFinish, OpenCodeError,
         Quiet
<1>10. CASE PiLine
  BY <1>2, <1>3, <1>6, <1>10
     DEF PiLine, PiHeader, PiToolStart, PiToolEnd, PiMessageEnd, PiAgentEnd, PiAssistant, PiOther, Quiet
<1> QED
  BY <1>1, <1>4, <1>7, <1>8, <1>9, <1>10 DEF Line

\* A run promises the bridge what RunnerContract says every runner does: it
\* announces at most one session, the one that was asked for; its completion
\* comes last and once; and only a run that announced nothing fails instead.
THEOREM KeepsTheContract == Spec => Contract!Safe
<1>1. Init => Contract!Init
  BY DEF Init, Contract!Init, Fate, Session
<1>2. ASSUME RunInv, RunInv', [Next]_vars PROVE [Contract!Next]_(Contract!vars)
  <2>0. TypeOK /\ OutInv /\ SessionInv /\ BridgeInv /\ CompletionInv
    BY <1>2 DEF RunInv
  <2>1. CASE Line
    <3>1. CASE Apart /\ Reading /\ pc' = pc
      BY <3>1, ContractKept DEF Apart, bridge
    <3>2. CASE LineEffect
      <4>1. pc' = "raised" => found_session' = None
        BY <1>2 DEF RunInv, SessionInv
      <4> QED
        BY <1>2, <3>2, <4>1, YieldsKeepContract DEF LineEffect
    <3> QED
      BY <2>1, <3>1, <3>2, LinesYield
  <2>2. CASE TakeStarted
    <3>1. /\ out # <<>> /\ Head(out).type = "started" /\ expected' = expected /\ pc' = pc
          /\ outcome' = [outcome EXCEPT !.resume = Head(out).resume]
          /\ tracker' = [tracker EXCEPT !.resume = Head(out).resume]
      BY <2>2 DEF TakeStarted, Take, Still
    <3>2. /\ Head(out) = out[1] /\ Head(out) \in Event /\ 1 \in 1..Len(out)
          /\ pc \in {"reading", "closing"} /\ outcome.completed = None
      BY <1>2, <2>0, <3>1, Taking DEF TypeOK
    <3>3. Head(out).resume = found_session /\ starts = 0 /\ Head(out).resume \in Token
      BY <2>0, <3>1, <3>2, EventFields DEF OutInv
    <3>4. outcome'.completed = outcome.completed /\ tracker'.resume = Head(out).resume
      BY <2>0, <3>1 DEF TypeOK
    <3>5. Fate = "running" /\ Fate' = "running"
      BY <3>1, <3>2, <3>4 DEF Fate
    <3>6. tracker.resume = None /\ expected \in {None, Head(out).resume}
      BY <2>0, <3>3, TokenAssumption DEF BridgeInv, SessionInv
    <3>7. Contract!Announce(Head(out).resume)
      BY <3>1, <3>4, <3>5, <3>6 DEF Contract!Announce
    <3> QED
      BY <3>3, <3>7 DEF Contract!Next
  <2>3. CASE TakeAction \/ TakeNote \/ TakeText
    <3>1. /\ outcome' = outcome /\ expected' = expected /\ pc' = pc
          /\ \/ tracker' = tracker
             \/ \E r : tracker' = [tracker EXCEPT !.running = r]
             \/ \E s : tracker' = [tracker EXCEPT !.streaming = s]
             \/ \E s, t : tracker' = [tracker EXCEPT !.streaming = s, !.segments = t]
      BY <2>3 DEF TakeAction, TakeNote, TakeText, Still, bridge
    <3>2. tracker'.resume = tracker.resume
      BY <2>0, <3>1 DEF TypeOK
    <3> QED
      BY <3>1, <3>2, ContractKept
  <2>4. CASE TakeCompleted
    <3>1. /\ out # <<>> /\ Head(out).type = "completed" /\ expected' = expected /\ pc' = pc
          /\ outcome'.completed = Head(out) /\ tracker' = tracker
      BY <2>4 DEF TakeCompleted, Take, Still
    <3>2. Head(out) \in Event /\ pc \in {"reading", "closing"} /\ outcome.completed = None
      BY <1>2, <3>1, Taking
    <3>3. Fate = "running" /\ Fate' = "completed"
      BY <3>1, <3>2, NoneAssumption DEF Fate
    <3>4. Contract!Complete
      BY <3>1, <3>3 DEF Contract!Complete
    <3> QED
      BY <3>4 DEF Contract!Next
  <2>5. CASE Exit
    BY <2>5, ContractKept DEF Exit, AgentExits, bridge
  <2>6. CASE Close \/ Closed
    BY <2>6, ContractKept DEF Close, Closed, bridge
  <2>7. CASE Answer
    <3>1. outcome' = outcome /\ tracker' = tracker /\ expected' = expected /\ outcome.completed # None
      BY <2>7 DEF Answer, bridge
    <3> QED
      BY <3>1 DEF Contract!vars, Fate
  <2>8. CASE AnswerError
    BY <2>8, ContractKept DEF AnswerError, bridge
  <2>9. CASE UNCHANGED vars
    BY <2>9, ContractKept DEF vars, bridge
  <2> QED
    BY <1>2, <2>1, <2>2, <2>3, <2>4, <2>5, <2>6, <2>7, <2>8, <2>9 DEF Next, Bridge, Ending
<1> QED
  BY <1>1, <1>2, RunInvariance, PTL DEF Spec, Contract!Safe
===============================================================================
