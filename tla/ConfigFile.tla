------------------------------ MODULE ConfigFile -------------------------------
(***************************************************************************)
(* yee88.toml and the commands that edit it (config.py,                    *)
(* config_migrations.py, cli/config.py, cli/init.py, cli/topic.py,         *)
(* cli/handoff.py).                                                        *)
(*                                                                         *)
(* Each command is a process that reads the file, changes what it read and *)
(* writes all of it; the file is replaced at once.  A setting that hot     *)
(* reload and routing do not depend on is left out.  All use one file, and *)
(* the names of projects are in lower case, which is how they are stored.  *)
(***************************************************************************)
EXTENDS Naturals, Sequences

CONSTANTS
  Project, EngineId,
  Installed,    \* the engines whose command is on the path
  None,
  Absent,       \* the value of a project that is not configured
  Enabled,      \* the value of watch_config when it is set
  HandWritten,  \* files that a person may save, or delete
  Requests,     \* what users ask the command line for
  MaxEdits      \* bound: the edits of a behaviour

\* A project has the value of its default_engine.  bad_config: the engines whose tables
\* are no good; load_error: those that build no runner without a table either.
Key == {"default_project", "default_engine", "watch_config", "bad_config", "load_error"} \cup Project

Value == Project \cup EngineId \cup {None, Absent, Enabled} \cup SUBSET EngineId

ASSUME ConfigAssumption ==
  /\ Installed \subseteq EngineId
  /\ None \notin Project \cup EngineId /\ Absent \notin Project \cup EngineId \cup {None}
  /\ Enabled \notin Project \cup EngineId \cup {None, Absent}
  /\ MaxEdits \in Nat

ASSUME EditsAssumption ==
  /\ HandWritten \subseteq [kind : {"missing", "malformed", "good"}, settings : [Key -> Value],
                           legacy : BOOLEAN, stamp : {0}]
  /\ Requests \subseteq [kind : {"set", "init", "topic", "handoff"}, key : Key, value : Value,
                        default : BOOLEAN]
  /\ \A r \in Requests : r.kind # "set" => r.key \in Project

VARIABLES
  file,   \* what is on the disk
  edits,  \* the commands so far and how far they have come
  said    \* history: key -> the values that the edits so far allow

fileVars == <<file, edits, said>>

Configured(s) == {p \in Project : s[p] # Absent}

\* to_projects_config raises nothing.
Consistent(s) == s["default_project"] \in Configured(s) \cup {None}

\* build_runtime_spec raises nothing.
Loadable(s) ==
  /\ Consistent(s)
  /\ s["default_engine"] \in Installed \ (s["bad_config"] \cup s["load_error"])

\* kind: missing, malformed (there are no settings in it) or good.  legacy: keys that migrate_config moves.
\* stamp: the time it was last written.
File(kind, settings, legacy) ==
  [kind |-> kind, settings |-> settings, legacy |-> legacy, stamp |-> 0]

Unread == [k \in Key |-> None]

Edit(r) == [asks |-> r, pc |-> "asked", then |-> "done", seen |-> Unread, read |-> 0]

FileInit(settings) ==
  /\ file = File("good", settings, FALSE)
  /\ edits = <<>>
  /\ said = [k \in Key |-> {settings[k]}]

Asks(i) == edits[i].asks
At(i, kinds, pc) == Asks(i).kind \in kinds /\ edits[i].pc = pc

\* What becomes of a command; one that is done has forgotten what it read.
Proceeds(e, pc) ==
  IF pc = "done" THEN [e EXCEPT !.pc = pc, !.then = pc, !.seen = Unread, !.read = 0]
  ELSE [e EXCEPT !.pc = pc]

Goes(i, pc) == edits' = [edits EXCEPT ![i] = Proceeds(@, pc)]

\* All of s is written, of which keys were changed since the file had the stamp read.
\* What others wrote in between may be undone.
WriteConfig(s, keys, read) ==
  /\ file' = [File("good", s, FALSE) EXCEPT !.stamp = file.stamp + 1]
  /\ said' = [k \in Key |-> CASE k \in keys -> {s[k]}
                              [] k \notin keys /\ file.stamp # read -> said[k] \cup {s[k]}
                              [] OTHER -> said[k]]

AskEdit(r) ==
  /\ Len(edits) < MaxEdits /\ edits' = Append(edits, Edit(r))
  /\ UNCHANGED <<file, said>>

\* A person saves a file, deletes it, or writes what is no TOML.
HandEdit(f) ==
  /\ Len(edits) < MaxEdits
  /\ file' = [f EXCEPT !.stamp = file.stamp + 1]
  /\ said' = [k \in Key |-> {f.settings[k]}]
  /\ edits' = Append(edits, Proceeds(Edit([kind |-> "hand"]), "done"))

\* The file is read, and migrated in memory; init and topic write it back at once.
ReadConfig(i, kinds, from, to) ==
  /\ At(i, kinds, from)
  /\ edits' = [edits EXCEPT ![i] =
       Proceeds([@ EXCEPT !.seen = file.settings, !.read = file.stamp, !.then = to],
                CASE file.kind = "missing" /\ from = "ensure" -> "empty"
                  [] file.kind # "good" /\ ~(file.kind = "missing" /\ from = "ensure") -> "done"
                  [] file.kind = "good" /\ file.legacy /\ Asks(i).kind # "set" -> "migrate"
                  [] OTHER -> to)]
  /\ UNCHANGED <<file, said>>

WriteMigrated(i) ==
  /\ edits[i].pc = "migrate"
  /\ WriteConfig(edits[i].seen, {}, edits[i].read)
  /\ edits' = [edits EXCEPT ![i] = Proceeds([@ EXCEPT !.read = file.stamp + 1], @.then)]

\* config set and config unset.  A key that is not there cannot be unset, and a project
\* is not made by its engine alone: the other checks do not depend on these settings.
SetRefused(s, key, value) ==
  \/ value \in {None, Absent} /\ s[key] = value
  \/ key \in Project /\ s[key] = Absent

ConfigSet(i) ==
  LET key == Asks(i).key  value == Asks(i).value  s == edits[i].seen IN
  /\ At(i, {"set"}, "write") /\ Goes(i, "done")
  /\ IF SetRefused(s, key, value) THEN UNCHANGED <<file, said>>
     ELSE WriteConfig([s EXCEPT ![key] = value], {key}, edits[i].read)

\* init has asked for the alias, and, if there is such a project, whether to overwrite it.
RunInit(i) ==
  LET p == Asks(i).key  s == edits[i].seen IN
  /\ At(i, {"init"}, "write") /\ Goes(i, "done")
  /\ \/ UNCHANGED <<file, said>> /\ (~Consistent(s) \/ p \in Configured(s))
     \/ /\ Consistent(s)
        /\ IF Asks(i).default
           THEN WriteConfig([s EXCEPT ![p] = s["default_engine"], !["default_project"] = p],
                            {p, "default_project"}, edits[i].read)
           ELSE WriteConfig([s EXCEPT ![p] = s["default_engine"]], {p}, edits[i].read)

\* load_settings reads the file again once it is migrated.
LoadSettings(i) ==
  /\ edits[i].pc = "load"
  /\ edits' = [edits EXCEPT ![i] =
       Proceeds([@ EXCEPT !.seen = file.settings, !.read = file.stamp],
                IF file.kind = "good" /\ ~file.legacy THEN "loaded" ELSE "done")]
  /\ UNCHANGED <<file, said>>

\* topic has loaded the settings: it registers the project if it is not in them, and is not
\* to be deleted nor its name taken.
RunTopic(i) ==
  /\ At(i, {"topic"}, "loaded")
  /\ \/ Goes(i, "done")
     \/ Asks(i).key \notin Configured(edits[i].seen) /\ Goes(i, "ensure")
  /\ UNCHANGED <<file, said>>

\* So has handoff, which registers nothing that is an engine's name, or whose directory
\* is gone, nor beside a project that is wrong.
RunHandoff(i) ==
  LET s == edits[i].seen IN
  /\ At(i, {"handoff"}, "loaded")
  /\ \/ Goes(i, "done")
     \/ Consistent(s) /\ Asks(i).key \notin Configured(s) /\ Goes(i, "ensure")
  /\ UNCHANGED <<file, said>>

\* Mutant of ReadAgain: the settings that were loaded first are still used.
ReadOnce(i) ==
  /\ At(i, {"topic", "handoff"}, "ensure")
  /\ edits' = [edits EXCEPT ![i].pc = "write", ![i].read = file.stamp]
  /\ UNCHANGED <<file, said>>

\* _ensure_project reads the file again ...
ReadAgain(i) == ReadConfig(i, {"topic", "handoff"}, "ensure", "write")

\* ... and writes it; topic then loads, and migrates, the settings once more.
EnsureProject(i) ==
  LET p == Asks(i).key  s == edits[i].seen IN
  /\ At(i, {"topic"}, "write") /\ Goes(i, "registered")
  /\ IF p \in Configured(s) THEN UNCHANGED <<file, said>>
     ELSE WriteConfig([s EXCEPT ![p] = None], {p}, edits[i].read)

\* The same of handoff, which does not see a project that is there by now if it was
\* named in capitals.
EnsureHandoff(i) ==
  LET p == Asks(i).key  s == edits[i].seen IN
  /\ At(i, {"handoff"}, "write") /\ Goes(i, "done")
  /\ \/ p \in Configured(s) /\ UNCHANGED <<file, said>>
     \/ WriteConfig([s EXCEPT ![p] = None], {p}, edits[i].read)

\* The file that was there before is gone: only the project is in the new one, which
\* nothing can be loaded from.
EnsureInNothing(i) ==
  /\ At(i, {"topic", "handoff"}, "empty") /\ Goes(i, "done")
  /\ file' = [File("malformed", edits[i].seen, FALSE) EXCEPT !.stamp = file.stamp + 1]
  /\ UNCHANGED said

\* What the steps of commands and persons do to the file.
Reading(i) ==
  ReadConfig(i, {"set", "init"}, "asked", "write") \/ ReadConfig(i, {"topic", "handoff"}, "asked", "load")
    \/ ReadConfig(i, {"topic"}, "registered", "done") \/ LoadSettings(i) \/ RunTopic(i) \/ RunHandoff(i) \/ ReadAgain(i)
Writing(i) == WriteMigrated(i) \/ ConfigSet(i) \/ RunInit(i) \/ EnsureProject(i)
    \/ EnsureHandoff(i) \/ EnsureInNothing(i)

EditNext ==
  \/ \E r \in Requests : AskEdit(r)
  \/ \E f \in HandWritten : HandEdit(f)
  \/ \E i \in DOMAIN edits : Reading(i) \/ Writing(i)
================================================================================
