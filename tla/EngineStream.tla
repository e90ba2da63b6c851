----------------------------- MODULE EngineStream -----------------------------
(***************************************************************************)
(* One run of an agent, from the lines it prints to the final message.     *)
(* JsonlSubprocessRunner (runner.py) decodes each line, has the engine's   *)
(* translator (runners/*.py) turn it into events, filters them, and yields *)
(* them one at a time to the bridge (runner_bridge.py), which folds them   *)
(* into the outcome and the progress view and answers when the stream is   *)
(* over.  The agent prints the lines of its protocol in any order and      *)
(* exits with any code.  Session locks, cancellation and callbacks are     *)
(* RunnerSession's; here nobody cancels and the callbacks return.          *)
(*                                                                         *)
(* Abstractions: a text is the set of the pieces it is made of, a piece    *)
(* is the number of the line that brought it; a message of several blocks  *)
(* is a run of messages of one block.                                      *)
(***************************************************************************)
EXTENDS Naturals, Sequences

CONSTANTS
  Engine,    \* the engines to run, a subset of Engines
  Token,     \* session ids, the new session file of pi included
  NewPath,   \* the session file pi makes for a new run
  Tool,      \* ids of the agent's tool calls
  MaxLines,  \* bound: lines an agent prints
  None

Engines == {"codex", "claude", "codebuddy", "opencode", "pi"}
StreamJson == {"claude", "codebuddy"}

ASSUME EngineAssumption == Engine \subseteq Engines
ASSUME TokenAssumption == None \notin Token /\ NewPath \in Token
ASSUME LinesAssumption == MaxLines \in Nat

VARIABLES
  engine, expected,  \* the run's engine and the session it resumes, or None
  pc,                \* "reading", "exited", "closing", "ended", "raised", "answered"
  rc,                \* the agent's exit code, or None
  lines,             \* lines read so far
  \* the translator's state: its session, whether it announced it, its last
  \* text, the tool calls it waits for, and whether the agent reported an error
  session, begun, text, pending, failure,
  found_session, did_emit_completed,  \* JsonlStreamState
  out,               \* events of the line, not yet taken by the bridge
  outcome, tracker,  \* the bridge: RunOutcome and ProgressTracker
  final,             \* the final message, or None
  starts,            \* history: StartedEvents the bridge took
  said               \* history: the newest piece of text the agent printed

translator == <<session, begun, text, pending, failure>>
stream == <<lines, found_session, did_emit_completed>>
bridge == <<outcome, tracker, starts>>
vars == <<engine, expected, pc, rc, translator, stream, out, bridge, final, said>>

Session == Token \cup {None}
Text == SUBSET (1 .. MaxLines + 1)
NoText == {}
Reconnect == "codex.reconnect"
Code == {0, 1}

\* "a or b" of Python, for sessions.
Or(a, b) == IF a # None THEN a ELSE b

--------------------------------------------------------------------------------
\* The events a runner yields.
StartedEvent(t) == [type |-> "started", resume |-> t]
ActionEvent(a, phase) == [type |-> "action", id |-> a, phase |-> phase]
TextDelta(s) == [type |-> "text_delta", text |-> s]
TextFinished(s) == [type |-> "text_finished", text |-> s]
CompletedEvent(ok, answer, resume) ==
  [type |-> "completed", ok |-> ok, answer |-> answer, resume |-> resume]
\* A warning, a thought or a turn: complete when it appears.
NoteEvent == [type |-> "note"]

Event ==
  {StartedEvent(t) : t \in Token}
    \cup {ActionEvent(a, p) : a \in Tool \cup {Reconnect}, p \in {"started", "updated", "completed"}}
    \cup {TextDelta(s) : s \in Text} \cup {TextFinished(s) : s \in Text}
    \cup {CompletedEvent(ok, s, t) : ok \in BOOLEAN, s \in Text, t \in Session}
    \cup {NoteEvent}

ASSUME NoneAssumption == None \notin Event

--------------------------------------------------------------------------------
Init ==
  /\ engine \in Engine /\ expected \in Session
  /\ pc = "reading" /\ rc = None /\ lines = 0
  /\ session = IF engine = "pi" THEN Or(expected, NewPath) ELSE None
  /\ begun = FALSE /\ text = NoText /\ pending = {} /\ failure = FALSE
  /\ found_session = None /\ did_emit_completed = FALSE /\ out = <<>>
  /\ outcome = [resume |-> None, completed |-> None]
  /\ tracker = [resume |-> None, running |-> {}, segments |-> NoText, streaming |-> NoText]
  /\ final = None /\ starts = 0 /\ said = 0

\* The generator asks for a line when the events of the last one are taken.
Reading == pc = "reading" /\ out = <<>> /\ lines < MaxLines

\* The piece of text that the line being read brings.
Piece == lines + 1

Completes(events) == \E i \in DOMAIN events : events[i].type = "completed"

\* Mutant: a session that differs from the one resumed is accepted.
MismatchUnexpected(t) == Or(found_session, t) # t

\* A session other than the one that was asked for, or that is known, is an error.
Mismatch(t) == Or(expected, t) # t \/ Or(found_session, t) # t

\* A line that reports no session: its events go out as they are.
Yield(events) ==
  /\ Reading /\ ~did_emit_completed
  /\ lines' = lines + 1
  /\ did_emit_completed' = Completes(events)
  /\ out' = events
  /\ UNCHANGED <<pc, found_session>>

\* A line that reports session t, and rest after it.
YieldStarted(t, rest) ==
  /\ Reading /\ ~did_emit_completed
  /\ lines' = lines + 1
  /\ IF Mismatch(t)
     THEN /\ pc' = "raised"
          /\ UNCHANGED <<found_session, did_emit_completed, out>>
     ELSE /\ found_session' = t
          /\ did_emit_completed' = Completes(rest)
          /\ out' = IF found_session = None THEN <<StartedEvent(t)>> \o rest ELSE rest
          /\ UNCHANGED pc

\* What no line changes, and what no line but one of text changes.
Apart == UNCHANGED <<engine, expected, rc, bridge, final>>
Quiet == Apart /\ UNCHANGED said
Says(more) == said' = IF more THEN Piece ELSE said

\* After the completion lines are drained and dropped.
DropLine ==
  /\ Reading /\ did_emit_completed
  /\ lines' = lines + 1
  /\ Quiet /\ UNCHANGED <<pc, translator, found_session, did_emit_completed, out>>

\* A blank line, one the schema refuses, or an event of no interest to the
\* translator; pi's translator announces its session on the latter all the same.
SkipLine == Yield(<<>>) /\ Quiet /\ UNCHANGED translator

\* A line that fails to decode or to translate becomes a warning; opencode's
\* translator may have taken its session id by then.
BadLine ==
  /\ Yield(<<NoteEvent>>)
  /\ session' \in IF engine = "opencode" THEN {Or(session, t) : t \in Session} ELSE {session}
  /\ Quiet /\ UNCHANGED <<begun, text, pending, failure>>

--------------------------------------------------------------------------------
\* Mutant: the factory accepts any session.
FactoryStartedUnchecked(t) ==
  /\ session' = t /\ YieldStarted(t, <<>>)
  /\ Quiet /\ UNCHANGED <<begun, text, pending, failure>>

\* codex and the two stream-json engines report their session through an
\* EventFactory, which refuses a second one: the line becomes a warning.
FactoryStarted(t) ==
  /\ IF session \in {None, t}
     THEN session' = t /\ YieldStarted(t, <<>>)
     ELSE UNCHANGED session /\ Yield(<<NoteEvent>>)
  /\ Quiet /\ UNCHANGED <<begun, text, pending, failure>>

CodexThreadStarted(t) == engine = "codex" /\ FactoryStarted(t)

CodexTurnStarted == engine = "codex" /\ Yield(<<NoteEvent>>) /\ Quiet /\ UNCHANGED translator

CodexReconnect(phase) ==
  /\ engine = "codex"
  /\ Yield(<<ActionEvent(Reconnect, phase)>>) /\ Quiet /\ UNCHANGED translator

\* Errors and file changes are reported when they complete only (SkipLine).
CodexItem(a, phase) ==
  /\ engine = "codex"
  /\ Yield(<<ActionEvent(a, phase)>>) /\ Quiet /\ UNCHANGED translator

CodexMessage ==
  /\ engine = "codex"
  /\ text' = {Piece} /\ Says(TRUE)
  /\ Yield(<<>>) /\ Apart /\ UNCHANGED <<session, begun, pending, failure>>

CodexTurnEnded(ok) ==
  /\ engine = "codex"
  /\ Yield(<<CompletedEvent(ok, text, Or(found_session, expected))>>)
  /\ Quiet /\ UNCHANGED translator

--------------------------------------------------------------------------------
ClaudeInit(t) == engine \in StreamJson /\ FactoryStarted(t)

ClaudeToolUse(a) ==
  /\ engine \in StreamJson
  /\ pending' = pending \cup {a}
  /\ Yield(<<ActionEvent(a, "started")>>)
  /\ Quiet /\ UNCHANGED <<session, begun, text, failure>>

ClaudeThinking == engine \in StreamJson /\ Yield(<<NoteEvent>>) /\ Quiet /\ UNCHANGED translator

ClaudeText ==
  /\ engine \in StreamJson
  /\ text' = {Piece} /\ Says(TRUE)
  /\ Yield(<<>>) /\ Apart /\ UNCHANGED <<session, begun, pending, failure>>

\* The result of a call that is not pending is shown as one of a nameless tool.
ClaudeToolResult(a) ==
  /\ engine \in StreamJson
  /\ pending' = pending \ {a}
  /\ Yield(<<ActionEvent(a, "completed")>>)
  /\ Quiet /\ UNCHANGED <<session, begun, text, failure>>

\* The result names its own session, and is not compared with the one announced.
ClaudeResult(ok, says, t) ==
  /\ engine \in StreamJson
  /\ LET answer == IF says THEN {Piece} ELSE IF ok THEN text ELSE NoText
     IN  Yield(<<CompletedEvent(ok, answer, t)>>)
  /\ Says(says) /\ Apart /\ UNCHANGED translator

CodeBuddySnapshot == engine = "codebuddy" /\ Yield(<<>>) /\ Quiet /\ UNCHANGED translator

--------------------------------------------------------------------------------
\* opencode takes the first session id that any line carries, and announces it
\* when a step starts.
Seen(t) == Or(session, t)

OpenCodeStepStart(t) ==
  /\ engine = "opencode"
  /\ session' = Seen(t)
  /\ IF ~begun /\ Seen(t) # None
     THEN begun' = TRUE /\ YieldStarted(Seen(t), <<>>)
     ELSE UNCHANGED begun /\ Yield(<<>>)
  /\ Quiet /\ UNCHANGED <<text, pending, failure>>

OpenCodeToolUse(t, a, settled) ==
  /\ engine = "opencode"
  /\ session' = Seen(t)
  /\ pending' = IF settled THEN pending \ {a} ELSE pending \cup {a}
  /\ Yield(<<ActionEvent(a, IF settled THEN "completed" ELSE "started")>>)
  /\ Quiet /\ UNCHANGED <<begun, text, failure>>

OpenCodeText(t) ==
  /\ engine = "opencode"
  /\ session' = Seen(t)
  /\ text' = text \cup {Piece} /\ Says(TRUE)
  /\ Yield(<<TextDelta(text')>>)
  /\ Apart /\ UNCHANGED <<begun, pending, failure>>

\* A step that ends to call tools flushes its text; one that stops ends the run.
OpenCodeStepFinish(t, reason) ==
  /\ engine = "opencode"
  /\ session' = Seen(t)
  /\ IF reason = "stop"
     THEN Yield(<<CompletedEvent(TRUE, text, Seen(t))>>) /\ UNCHANGED text
     ELSE IF reason = "tool-calls" /\ text # NoText
          THEN Yield(<<TextFinished(text)>>) /\ text' = NoText
          ELSE Yield(<<>>) /\ UNCHANGED text
  /\ Quiet /\ UNCHANGED <<begun, pending, failure>>

OpenCodeError(t) ==
  /\ engine = "opencode"
  /\ session' = Seen(t)
  /\ Yield(<<CompletedEvent(FALSE, text, Seen(t))>>)
  /\ Quiet /\ UNCHANGED <<begun, text, pending, failure>>

--------------------------------------------------------------------------------
\* pi announces its session with its first event, whichever it is.
PiYield(events) ==
  /\ begun' = TRUE
  /\ IF begun THEN Yield(events) ELSE YieldStarted(session, events)

\* The header of a new session replaces the file's path by its short id.
PiHeader(t) ==
  /\ engine = "pi"
  /\ session' = IF t # None /\ ~begun /\ expected = None THEN t ELSE session
  /\ begun' = TRUE
  /\ IF begun THEN Yield(<<>>) ELSE YieldStarted(session', <<>>)
  /\ Quiet /\ UNCHANGED <<text, pending, failure>>

PiToolStart(a) ==
  /\ engine = "pi"
  /\ pending' = pending \cup {a}
  /\ PiYield(<<ActionEvent(a, "started")>>)
  /\ Quiet /\ UNCHANGED <<session, text, failure>>

PiToolEnd(a) ==
  /\ engine = "pi"
  /\ pending' = pending \ {a}
  /\ PiYield(<<ActionEvent(a, "completed")>>)
  /\ Quiet /\ UNCHANGED <<session, text, failure>>

\* An error of the assistant is remembered for the rest of the run.
PiAssistant(says, fails) ==
  /\ text' = IF says THEN {Piece} ELSE text
  /\ failure' = (failure \/ fails)
  /\ Says(says) /\ Apart /\ UNCHANGED <<session, pending>>

PiMessageEnd(says, fails) ==
  /\ engine = "pi" /\ PiAssistant(says, fails)
  /\ PiYield(<<>>)

PiAgentEnd(says, fails) ==
  /\ engine = "pi" /\ PiAssistant(says, fails)
  /\ PiYield(<<CompletedEvent(~(failure'), text', session)>>)

PiOther ==
  /\ engine = "pi"
  /\ PiYield(<<>>)
  /\ Quiet /\ UNCHANGED <<session, text, pending, failure>>

--------------------------------------------------------------------------------
\* The bridge takes the next event of the run (async for in run_runner).
Take(type) == out # <<>> /\ Head(out).type = type /\ out' = Tail(out)
Still == UNCHANGED <<engine, expected, pc, rc, translator, stream, final, said>>

TakeStarted ==
  /\ Take("started")
  /\ outcome' = [outcome EXCEPT !.resume = Head(out).resume]
  /\ tracker' = [tracker EXCEPT !.resume = Head(out).resume]
  /\ starts' = starts + 1
  /\ Still

TakeAction ==
  /\ Take("action")
  /\ tracker' = [tracker EXCEPT !.running = IF Head(out).phase = "completed"
                                            THEN @ \ {Head(out).id} ELSE @ \cup {Head(out).id}]
  /\ UNCHANGED <<outcome, starts>> /\ Still

TakeNote == Take("note") /\ UNCHANGED bridge /\ Still

TakeText ==
  /\ \/ /\ Take("text_delta")
        /\ tracker' = [tracker EXCEPT !.streaming = Head(out).text]
     \/ /\ Take("text_finished")
        /\ tracker' = [tracker EXCEPT !.streaming = NoText, !.segments = @ \cup Head(out).text]
  /\ UNCHANGED <<outcome, starts>> /\ Still

TakeCompleted ==
  /\ Take("completed")
  /\ outcome' = [resume |-> Or(Head(out).resume, outcome.resume), completed |-> Head(out)]
  /\ UNCHANGED <<tracker, starts>> /\ Still

--------------------------------------------------------------------------------
\* The end of the agent's output, and its exit code.
AgentExits(code) ==
  /\ pc = "reading" /\ out = <<>>
  /\ pc' = "exited" /\ rc' = code
  /\ UNCHANGED <<engine, expected, translator, stream, out, bridge, final, said>>

\* The session a run that ends without the agent's word is completed with.
Known == Or(Or(found_session, expected), IF engine = "pi" THEN session ELSE None)

\* Mutant: an agent that fails takes its text with it.
ProcessErrorEventsBare == <<NoteEvent, CompletedEvent(FALSE, NoText, Known)>>

\* process_error_events: the stream-json engines do not pass on their last text.
ProcessErrorEvents ==
  <<NoteEvent, CompletedEvent(FALSE, IF engine \in StreamJson THEN NoText ELSE text, Known)>>

\* opencode asks its session store for the answer it did not print.
Recovered == <<TextDelta({MaxLines + 1}), CompletedEvent(TRUE, {MaxLines + 1}, found_session)>>

\* stream_end_events of each engine: what it may yield when the agent exits
\* with 0 and no result.
CodexStreamEnd == {<<CompletedEvent(found_session # None, text, Known)>>}
ClaudeStreamEnd ==
  {<<CompletedEvent(FALSE, IF found_session = None THEN NoText ELSE text, Known)>>}
OpenCodeStreamEnd ==
  IF found_session = None \/ text # NoText
  THEN {<<CompletedEvent(found_session # None, text, Known)>>}
  ELSE {Recovered, <<CompletedEvent(FALSE, NoText, found_session)>>}
PiStreamEnd == {<<CompletedEvent(FALSE, text, Known)>>}

StreamEndEvents ==
  CASE engine = "codex" -> CodexStreamEnd
    [] engine \in StreamJson -> ClaudeStreamEnd
    [] engine = "opencode" -> OpenCodeStreamEnd
    [] engine = "pi" -> PiStreamEnd

\* Mutant: an agent that exits with 0 and no result ends the stream as it is.
CloseSilently ==
  /\ pc = "exited"
  /\ IF did_emit_completed \/ rc = 0 THEN pc' = "ended" /\ UNCHANGED out
     ELSE pc' = "closing" /\ out' = ProcessErrorEvents
  /\ UNCHANGED <<engine, expected, rc, translator, stream, bridge, final, said>>

Close ==
  /\ pc = "exited"
  /\ IF did_emit_completed THEN pc' = "ended" /\ UNCHANGED out
     ELSE /\ pc' = "closing"
          /\ IF rc # 0 THEN out' = ProcessErrorEvents ELSE out' \in StreamEndEvents
  /\ UNCHANGED <<engine, expected, rc, translator, stream, bridge, final, said>>

Closed ==
  /\ pc = "closing" /\ out = <<>>
  /\ pc' = "ended"
  /\ UNCHANGED <<engine, expected, rc, translator, stream, out, bridge, final, said>>

\* handle_message answers: with the completion (there must be one) ...
Answer ==
  /\ pc = "ended" /\ outcome.completed # None
  /\ LET completed == outcome.completed
         done == completed.ok /\ completed.answer # NoText
     IN  final' = [status |-> IF done THEN "done" ELSE "error",
                   resume |-> Or(Or(completed.resume, outcome.resume), tracker.resume)]
  /\ pc' = "answered"
  /\ UNCHANGED <<engine, expected, rc, translator, stream, out, bridge, said>>

\* ... or with the exception; the outcome is lost with it, the tracker is not.
AnswerError ==
  /\ pc = "raised"
  /\ final' = [status |-> "error", resume |-> tracker.resume]
  /\ pc' = "answered"
  /\ UNCHANGED <<engine, expected, rc, translator, stream, out, bridge, said>>

--------------------------------------------------------------------------------
CodexLine ==
  \/ \E t \in Token : CodexThreadStarted(t)
  \/ \E a \in Tool, phase \in {"started", "updated", "completed"} : CodexItem(a, phase)
  \/ \E phase \in {"started", "updated"} : CodexReconnect(phase)
  \/ \E ok \in BOOLEAN : CodexTurnEnded(ok)
  \/ CodexTurnStarted
  \/ CodexMessage

ClaudeLine ==
  \/ \E t \in Token : ClaudeInit(t)
  \/ \E a \in Tool : ClaudeToolUse(a) \/ ClaudeToolResult(a)
  \/ \E ok, says \in BOOLEAN, t \in Token : ClaudeResult(ok, says, t)
  \/ ClaudeThinking
  \/ ClaudeText
  \/ CodeBuddySnapshot

OpenCodeLine ==
  \E t \in Session :
    \/ OpenCodeStepStart(t)
    \/ \E a \in Tool, settled \in BOOLEAN : OpenCodeToolUse(t, a, settled)
    \/ OpenCodeText(t)
    \/ \E reason \in {"stop", "tool-calls", "other"} : OpenCodeStepFinish(t, reason)
    \/ OpenCodeError(t)

PiLine ==
  \/ \E t \in Session : PiHeader(t)
  \/ \E a \in Tool : PiToolStart(a) \/ PiToolEnd(a)
  \/ \E says, fails \in BOOLEAN : PiMessageEnd(says, fails) \/ PiAgentEnd(says, fails)
  \/ PiOther

Line == DropLine \/ SkipLine \/ BadLine \/ CodexLine \/ ClaudeLine \/ OpenCodeLine \/ PiLine

Bridge == TakeStarted \/ TakeAction \/ TakeNote \/ TakeText \/ TakeCompleted

Exit == \E code \in Code : AgentExits(code)

Ending == Close \/ Closed \/ Answer \/ AnswerError

Next == Line \/ Bridge \/ Exit \/ Ending

\* The bridge and the generator run whenever they can; an agent that is left
\* alone exits in the end, whatever it prints before.
Fairness == WF_vars(Bridge) /\ WF_vars(Exit) /\ WF_vars(Ending)

Spec == Init /\ [][Next]_vars
FairSpec == Spec /\ Fairness

--------------------------------------------------------------------------------
TypeOK ==
  /\ engine \in Engine /\ expected \in Session
  /\ pc \in {"reading", "exited", "closing", "ended", "raised", "answered"}
  /\ rc \in Code \cup {None} /\ lines \in 0 .. MaxLines
  /\ session \in Session /\ begun \in BOOLEAN /\ text \in Text
  /\ pending \subseteq Tool /\ failure \in BOOLEAN
  /\ found_session \in Session /\ did_emit_completed \in BOOLEAN
  /\ out \in Seq(Event)
  /\ outcome \in [resume : Session, completed : Event \cup {None}]
  /\ tracker \in [resume : Session, running : SUBSET (Tool \cup {Reconnect}),
                  segments : Text, streaming : Text]
  /\ starts \in 0 .. 1 /\ said \in 0 .. MaxLines

\* A run that has announced its session never dies of an exception, whatever
\* its agent prints afterwards, and a stream that ends has given a completion:
\* handle_message never finds "runner finished without a completed event".
StartedRunCompletes ==
  /\ pc = "raised" => starts = 0
  /\ pc = "ended" => outcome.completed # None

\* The final message of a run that announced its session leads back to that
\* session, for the cache of replies; the stream-json engines name it once more in
\* their result, which nothing compares with it, and for them it is only there.
FinalNamesSession ==
  final # None /\ starts > 0 =>
    /\ final.resume # None
    /\ engine \notin StreamJson => final.resume = found_session
    /\ expected # None => found_session = expected

\* The last thing the agent said reaches the user, in the answer or in a text
\* shown before, however the run ends; the stream-json engines promise it only
\* of a run that succeeds.
AnswerSurvives ==
  LET completed == outcome.completed
  IN  completed # None /\ said # 0 /\ (engine \in StreamJson => completed.ok)
        => said \in completed.answer \cup tracker.segments

\* A run does what every runner promises the bridge.
Fate ==
  CASE outcome.completed # None -> "completed"
    [] pc \in {"raised", "answered"} /\ outcome.completed = None -> "failed"
    [] OTHER -> "running"

Contract == INSTANCE RunnerContract
              WITH asked <- expected, session <- tracker.resume, fate <- Fate
ImplementsContract == Contract!Spec
===============================================================================
