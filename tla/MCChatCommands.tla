---------------------------- MODULE MCChatCommands -----------------------------
(* The instance of ChatCommands that TLC checks: what users ask for, and where. *)
EXTENDS ChatCommands

CONSTANTS a, b, e1, e2, m, l

MCProjectEngine == [c \in Context |-> IF c = a THEN e2 ELSE None]

Request(kind, places, args, engines) ==
  {[kind |-> kind, place |-> p, arg |-> x, engine |-> e] :
     p \in places, x \in args, e \in engines}

MCRequests ==
  Request("bind", Place, Context, {None}) \cup Request("unbind", Place, {None}, {None})
    \cup Request("topic", {0}, Context, {None}) \cup Request("fork", {1}, {None}, {None})
    \cup Request("create", {0}, {a}, {None}) \cup Request("delete", {0}, {a}, {None})
    \cup Request("handoff", {0}, {a, None}, {e2})
    \cup Request("agent", {0, 1}, {e2}, {None}) \cup Request("agent", {1}, {None}, {None})
    \cup Request("trigger", {0}, {"mentions"}, {None})
    \cup Request("model", {0, 1}, {m}, {None}) \cup Request("model", {1}, {None}, {e2})
    \cup Request("reasoning", {0, 1}, {l}, {None})
    \cup Request("reset", {1}, {None}, {None})

\* Bound: beside a handoff only what may touch its topic is asked for.
BesideHandoff ==
  (\E i \in Asked : Asks(i).kind = "handoff") =>
    \A i \in Asked :
      \/ Asks(i).kind \in {"handoff", "delete"}
      \/ Asks(i).kind \in {"bind", "reasoning"} /\ Asks(i).place = 1 /\ Asks(i).arg # b
================================================================================
