----------------------------- MODULE ChatSettings ------------------------------
(***************************************************************************)
(* The commands /agent, /model, /reasoning and /trigger                    *)
(* (telegram/commands/agent.py, model.py, reasoning.py, trigger.py,        *)
(* overrides.py).  Each asks Telegram first whether the sender may change  *)
(* settings, so that handlers meet in any order.                           *)
(***************************************************************************)
EXTENDS ChatState

\* A command of one step: the store is not read first.
Sets(i, kind, setting) ==
  LET p == Asks(i).place IN
  /\ Is(i, kind, "asked")
  /\ Stores(p, setting, Asks(i).arg)
  /\ Meets(i, p, setting, Done)
  /\ Allows(i, p, setting, {Asks(i).arg})
  /\ UNCHANGED muddled

\* /agent set and /agent clear.
SetAgent(i) == Sets(i, "agent", "default_engine")

\* /trigger mentions, and the others: "all" is stored as nothing.
SetTrigger(i) == Sets(i, "trigger", "trigger_mode")

------------------------------------------------------------------------------
(* Overrides of one engine: read, changed and written. *)

\* The engines it is about: the one named, the one in use, or, to reset, each.
Engines(i) ==
  IF Asks(i).kind = "reset" THEN Engine
  ELSE {IF Asks(i).engine # None THEN Asks(i).engine ELSE EngineInUse(Asks(i).place, commands[i].seen)}

BeginOverride(i) ==
  LET p == Asks(i).place IN
  /\ Asks(i).kind \in Overriding /\ commands[i].pc = "asked"
  /\ Meets(i, p, "engine_overrides", [pc |-> "read", todo |-> Engines(i)])
  /\ UNCHANGED <<stored, said, muddled>>

\* The first half of apply_engine_override.
ReadOverride(i) ==
  /\ Asks(i).kind \in Overriding /\ commands[i].pc = "read"
  /\ \E e \in commands[i].todo :
       Goes(i, [pc |-> "write", engine |-> e,
                seen |-> stored[Asks(i).place].engine_overrides[e]])
  /\ UNCHANGED <<stored, said, muddled>>

\* Mutant of Updated: the field it is not about is dropped.
UpdatedAlone(i, override) ==
  IF Asks(i).kind = "reasoning"
  THEN [model |-> None, reasoning |-> Asks(i).arg]
  ELSE [model |-> Asks(i).arg, reasoning |-> None]

\* One field is changed, the other kept as it was read.
Updated(i, override) ==
  IF Asks(i).kind = "reasoning"
  THEN [override EXCEPT !.reasoning = Asks(i).arg]
  ELSE [override EXCEPT !.model = Asks(i).arg]

\* What the commands' users mean by it.
Meant(i, overrides, e) ==
  IF Asks(i).kind = "reasoning"
  THEN [overrides EXCEPT ![e].reasoning = Asks(i).arg]
  ELSE [overrides EXCEPT ![e].model = Asks(i).arg]

\* The second half; /model reset goes on with the next engine.
WriteOverride(i) ==
  LET p == Asks(i).place  e == commands[i].engine  rest == commands[i].todo \ {e} IN
  /\ Asks(i).kind \in Overriding /\ commands[i].pc = "write"
  /\ stored' = [stored EXCEPT ![p].engine_overrides[e] = Updated(i, commands[i].seen)]
  /\ Allows(i, p, "engine_overrides",
            {Meant(i, v, e) : v \in said[p]["engine_overrides"]})
  /\ Meets(i, p, "engine_overrides",
           [pc |-> IF rest = {} THEN "done" ELSE "read", todo |-> rest])
  /\ UNCHANGED muddled

SettingsNext ==
  \E i \in Asked :
    SetAgent(i) \/ SetTrigger(i) \/ BeginOverride(i) \/ ReadOverride(i) \/ WriteOverride(i)
================================================================================
