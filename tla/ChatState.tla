------------------------------- MODULE ChatState -------------------------------
(***************************************************************************)
(* What the bot remembers of a chat and of its topics                      *)
(* (telegram/chat_prefs.py, telegram/topic_state.py), the commands that    *)
(* change it, and what messages make of it (engine_defaults.py,            *)
(* engine_overrides.py, trigger_mode.py).                                  *)
(*                                                                         *)
(* An operation of a store is one step (see StateStore); a handler is      *)
(* several, with other handlers in between.  A chat or topic that is not   *)
(* in the file reads like one with nothing set, and is written as such.    *)
(* Sessions are in Conversation; the system prompt of a topic is left out. *)
(***************************************************************************)
EXTENDS Naturals, Sequences

CONSTANTS
  Context,        \* projects, with or without a branch
  Engine, Model, Level,
  DefaultEngine,  \* runtime.default_engine
  ProjectEngine,  \* context -> the engine of its project, or None
  None,
  MaxTopics,      \* bound: the topics of the forum
  Requests,       \* what users ask for, here and at the command line
  MaxCommands     \* bound: the commands of a behaviour

ASSUME ChatAssumption ==
  /\ DefaultEngine \in Engine
  /\ ProjectEngine \in [Context -> Engine \cup {None}]
  /\ None \notin Context \cup Engine \cup Model \cup Level
  /\ MaxTopics \in Nat \ {0} /\ MaxCommands \in Nat

\* What the commands take as an argument: what it must be of those that cannot do without.
Arguments(kind) ==
  CASE kind \in {"bind", "topic", "create", "delete"} -> Context
    [] kind = "handoff"   -> Context \cup {None}
    [] kind = "agent"     -> Engine \cup {None}
    [] kind = "model"     -> Model \cup {None}
    [] kind = "reasoning" -> Level \cup {None}
    [] kind = "trigger"   -> {"mentions", None}
    [] kind \in {"unbind", "fork", "reset"} -> {None}

CommandKind == {"bind", "unbind", "topic", "fork", "create", "delete", "handoff",
                "agent", "model", "reasoning", "trigger", "reset"}

\* place: where the command comes from.  engine: the one that is named, if any.
ASSUME RequestsAssumption == \A r \in Requests :
  /\ r.kind \in CommandKind /\ r.place \in 0..MaxTopics /\ r.arg \in Arguments(r.kind)
  /\ r.engine \in Engine \cup {None} /\ (r.kind = "handoff" => r.engine # None)

VARIABLES
  stored,   \* place -> its settings: the chat's in one store, the topics' in another
  commands, \* the commands so far and how far their handlers have come
  said,     \* history: place -> setting -> the values that the commands so far allow
  muddled   \* history: topics whose settings were deleted under a command

chatVars == <<stored, commands, said, muddled>>

Topic == 1..MaxTopics
Place == 0..MaxTopics   \* 0: in the chat, outside its topics

NoOverrides == [e \in Engine |-> [model |-> None, reasoning |-> None]]
Blank == [context |-> None, topic_title |-> None, default_engine |-> None,
          trigger_mode |-> None, engine_overrides |-> NoOverrides]
Setting == DOMAIN Blank \ {"topic_title"}

\* The context that a message in p has by itself; no project owns the chat.
Ambient(p) == stored[p].context

Overriding == {"model", "reasoning", "reset"}

\* asks: the request.  engine: the engine it is about.  seen: what it read, at first
\* the ambient context that the main loop hands to the commands that need an engine.
\* thread, title: the topic it made, or handed a session to.  tries: how often it did so.
\* alone: no other was at the same setting.
Command(r) ==
  [asks |-> r, pc |-> "asked", engine |-> None, todo |-> {},
   seen |-> IF r.kind \in Overriding THEN Ambient(r.place) ELSE None,
   thread |-> 0, title |-> None, tries |-> 0, alone |-> TRUE]

ChatInit ==
  /\ stored = [p \in Place |-> Blank]
  /\ commands = <<>>
  /\ said = [p \in Place |-> [s \in Setting |-> {Blank[s]}]]
  /\ muddled = {}

Asked == DOMAIN commands
Asks(i) == commands[i].asks
Is(i, kind, from) == Asks(i).kind = kind /\ commands[i].pc = from

Ask(r) ==
  /\ Len(commands) < MaxCommands
  /\ commands' = Append(commands, Command(r))
  /\ UNCHANGED <<stored, said, muddled>>

\* The handler of i goes on with the fields of f.
Goes(i, f) ==
  commands' = [commands EXCEPT ![i] = [x \in DOMAIN @ |-> IF x \in DOMAIN f THEN f[x] ELSE @[x]]]

Done == [pc |-> "done"]

\* The arguments, the chat, or who asks are not what they should be.
Refuse(i) ==
  /\ commands[i].pc = "asked" /\ Goes(i, Done)
  /\ UNCHANGED <<stored, said, muddled>>

------------------------------------------------------------------------------
(* What is allowed to be stored.                                           *)

\* The setting that the handler of i has yet to write, or may write again.
Claim(i) ==
  LET r == Asks(i) IN
  IF commands[i].pc \in {"asked", "done"} THEN <<>>
  ELSE IF r.kind = "bind" THEN <<r.place, "context">>
  ELSE IF r.kind \in Overriding THEN <<r.place, "engine_overrides">>
  ELSE IF commands[i].thread # 0 /\ commands[i].pc \in {"drop", "set", "bind"}
       THEN <<commands[i].thread, "context">>
  ELSE <<>>

Others(i, p, s) == {j \in Asked \ {i} : Claim(j) = <<p, s>>}

\* i, on whose way no other was, is at setting s of p, and then goes on with f.
Meets(i, p, s, f) ==
  LET met == Others(i, p, s) IN
  commands' = [j \in Asked |->
    IF j \in met THEN [commands[j] EXCEPT !.alone = FALSE]
    ELSE IF j = i
    THEN [x \in DOMAIN commands[i] |->
            IF x \in DOMAIN f THEN f[x]
            ELSE IF x = "alone" THEN commands[i].alone /\ met = {}
            ELSE commands[i][x]]
    ELSE commands[j]]

\* i makes Effect(v) of a value v: of any value it may have been, or, if others are
\* at the same setting, perhaps of none.
Allows(i, p, s, effects) ==
  said' = [said EXCEPT ![p][s] =
             IF commands[i].alone /\ Others(i, p, s) = {} THEN effects ELSE @ \cup effects]

\* Setting s of p is v from now on, whatever it was.
Stores(p, s, v) == stored' = [stored EXCEPT ![p][s] = v]

------------------------------------------------------------------------------
(* What a message makes of it. *)

\* resolve_engine_for_message, without a directive.
EngineInUse(p, ambient) ==
  LET project == IF ambient = None THEN None ELSE ProjectEngine[ambient] IN
  CASE p # 0 /\ stored[p].default_engine # None -> stored[p].default_engine
    [] ~(p # 0 /\ stored[p].default_engine # None) /\ stored[0].default_engine # None
         -> stored[0].default_engine
    [] OTHER -> IF project # None THEN project ELSE DefaultEngine

================================================================================
