------------------------------- MODULE MCRouting -------------------------------
(* The instance of Routing that TLC checks: files, commands and messages. *)
EXTENDS Routing

CONSTANTS proj1, proj2, e1, e2, b

Base == [k \in Key |->
  CASE k = "default_project" -> proj1 [] k = "default_engine" -> e1 [] k = "watch_config" -> Enabled
    [] k \in {"bad_config", "load_error"} -> {}
    [] k = proj1 -> e2 [] k = proj2 -> Absent]

MCHandWritten ==
  { File("missing", Base, FALSE),
    File("good", [Base EXCEPT !["bad_config"] = {e2}], TRUE),
    File("good", [Base EXCEPT !["default_engine"] = e2, !["load_error"] = {e1}, ![proj1] = Absent,
                        !["default_project"] = None, !["watch_config"] = None],
         FALSE) }

Set(key, value) == [kind |-> "set", key |-> key, value |-> value, default |-> FALSE]

MCRequests ==
  { Set(proj1, Absent),
    [kind |-> "init", key |-> proj2, value |-> None, default |-> TRUE],
    [kind |-> "topic", key |-> proj2, value |-> None, default |-> FALSE],
    [kind |-> "handoff", key |-> proj2, value |-> None, default |-> FALSE] }

Plain == [reply_ctx |-> NoContext, project |-> None, engine |-> None, branch |-> None,
          ambient |-> NoContext, resume |-> None, default |-> None, chat |-> None,
          topic |-> FALSE, running |-> {}]
In(x, br) == [project |-> x, branch |-> br]

MCMessages ==
  { [Plain EXCEPT !.chat = proj2],
    [Plain EXCEPT !.reply_ctx = In(proj1, None), !.project = proj2, !.resume = e2],
    [Plain EXCEPT !.ambient = In(proj1, b), !.topic = TRUE, !.default = e2],
    [Plain EXCEPT !.ambient = In(proj2, b), !.project = proj1, !.engine = e1,
                  !.running = {[engine |-> e2, context |-> In(proj1, b)]}],
    [Plain EXCEPT !.topic = TRUE] }
================================================================================
