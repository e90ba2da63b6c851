---------------------------- MODULE MCEngineStream ----------------------------
(***************************************************************************)
(* Two sessions, one of which doubles as the session file of a new pi run, *)
(* two tools, and six lines: enough for a session, a text, a tool call and *)
(* its result, a second session and a result.                              *)
(***************************************************************************)
EXTENDS EngineStream

CONSTANTS s1, s2, tool1, tool2

TwoSessions == {s1, s2}
TwoTools == {tool1, tool2}
===============================================================================
