-------------------------------- MODULE Handoff --------------------------------
(***************************************************************************)
(* `yee88 handoff` (cli/handoff.py): a session of an agent in a terminal   *)
(* goes on in the topic of its project, which is made if there is none.    *)
(* The session that the topic then resumes is not in this model; the       *)
(* engine and the model that it needs are settings of the topic.           *)
(***************************************************************************)
EXTENDS TopicCommands

\* The topic that is bound to the project, and the model of the session.
FindHandoff(i) ==
  /\ Is(i, "handoff", "asked")
  /\ \E t \in Found(Asks(i).arg), model \in Model \cup {None} :
       Goes(i, [pc |-> IF t = 0 THEN "make" ELSE "engine", thread |-> t, seen |-> model])
  /\ UNCHANGED <<stored, said, muddled, topicVars>>

\* A topic is made, unless Telegram refuses ...
HandoffCreates(i) ==
  LET t == Len(forum) + 1 IN
  /\ Is(i, "handoff", "make")
  /\ \/ /\ t \in Topic /\ forum' = Append(forum, OtherTitle)
        /\ Goes(i, [pc |-> "bind", thread |-> t])
     \/ Goes(i, Done) /\ UNCHANGED forum
  /\ UNCHANGED <<stored, said, muddled, misnamed>>

\* ... and bound, to no context if there is no project.
HandoffBinds(i) ==
  LET t == commands[i].thread  c == Asks(i).arg IN
  /\ Is(i, "handoff", "bind")
  /\ stored' = [stored EXCEPT ![t].context = c, ![t].topic_title = OtherTitle]
  /\ Allows(i, t, "context", {c}) /\ Meets(i, t, "context", [pc |-> "engine"])
  /\ UNCHANGED <<muddled, topicVars>>

\* What the session needs is set in its topic.
HandoffEngine(i) ==
  LET t == commands[i].thread  e == Asks(i).engine IN
  /\ Is(i, "handoff", "engine")
  /\ Stores(t, "default_engine", e) /\ Allows(i, t, "default_engine", {e})
  /\ Meets(i, t, "default_engine", [pc |-> IF commands[i].seen = None THEN "send" ELSE "model"])
  /\ UNCHANGED <<muddled, topicVars>>

\* The override of the engine is replaced, its reasoning included.
HandoffModel(i) ==
  LET t == commands[i].thread  e == Asks(i).engine
      With(v) == [v EXCEPT ![e] = [model |-> commands[i].seen, reasoning |-> None]] IN
  /\ Is(i, "handoff", "model")
  /\ Stores(t, "engine_overrides", With(stored[t].engine_overrides))
  /\ Allows(i, t, "engine_overrides", {With(v) : v \in said[t]["engine_overrides"]})
  /\ Meets(i, t, "engine_overrides", [pc |-> "send"])
  /\ UNCHANGED <<muddled, topicVars>>

\* The message is there, or two topics have been tried.
HandoffEnds(i) ==
  /\ Is(i, "handoff", "send") /\ Goes(i, Done)
  /\ UNCHANGED <<stored, said, muddled, topicVars>>

\* It could not be sent: the topic is forgotten, and another one is made.
HandoffRetries(i) ==
  /\ Is(i, "handoff", "send") /\ commands[i].tries = 0
  /\ Deletes(i, commands[i].thread)
  /\ Goes(i, [pc |-> "make", tries |-> 1])
  /\ UNCHANGED topicVars

HandoffNext ==
  \E i \in Asked :
    FindHandoff(i) \/ HandoffCreates(i) \/ HandoffBinds(i) \/ HandoffEngine(i)
      \/ HandoffModel(i) \/ HandoffEnds(i) \/ HandoffRetries(i)
================================================================================
