------------------------------- MODULE HotReload -------------------------------
(***************************************************************************)
(* A bot loads its configuration, watches the file and puts what it reads  *)
(* into the runtime that messages are routed with (settings.py,            *)
(* runtime_loader.py, transport_runtime.py, config_watch.py,               *)
(* telegram/loop.py: run_main_loop, handle_reload).                        *)
(***************************************************************************)
EXTENDS ConfigFile

CONSTANT Overrides  \* what the command line may say of the default engine, None for nothing

ASSUME OverridesAssumption == Overrides \subseteq EngineId \cup {None}

VARIABLES
  bot,       \* the process: what it does next and what it has read
  runtime,   \* the settings that TransportRuntime was built from
  notified,  \* the file system has told the watcher of a change
  unseen     \* history: the last edit came while nobody would look at it

botVars == <<bot, runtime, notified, unseen>>

\* override: the engine of the command line.  signature: the stamp that the watcher
\* compares, 0 for none; current: what it has just looked up.  seen, read: what is being
\* migrated.
BotOff ==
  [pc |-> "off", watching |-> FALSE, override |-> None, signature |-> 0, current |-> 0,
   seen |-> Unread, read |-> 0]

BotInit(settings) ==
  bot = BotOff /\ runtime = settings /\ notified = FALSE /\ unseen = FALSE

Serving == bot.watching \/ bot.pc \in {"built", "subscribing", "unwatched"}

\* What a runtime is built from: the engine of the command line goes before the file's.
Overridden(s) == [s EXCEPT !["default_engine"] = IF bot.override # None THEN bot.override ELSE @]

\* Whenever the file changes.
Noticed ==
  /\ notified' = (notified \/ bot.watching)
  /\ unseen' = (bot.pc \in {"built", "subscribing", "callback"})

\* `yee88`, or the new process of a reload, begins to load the file.
StartBot ==
  /\ bot.pc \in {"off", "down"} \/ Serving
  /\ \E e \in Overrides : bot' = [BotOff EXCEPT !.pc = "start", !.override = e]
  /\ notified' = FALSE
  /\ UNCHANGED <<runtime, unseen, fileVars>>

Fails == bot' = IF bot.watching THEN [bot EXCEPT !.pc = "idle", !.signature = bot.current, !.current = 0]
                ELSE [bot EXCEPT !.pc = "down"]

\* Mutant of LoadFails: the watcher is not to survive it.
LoadFailsForGood ==
  /\ \/ bot.pc \in {"start", "reload"} /\ file.kind # "good"
     \/ bot.pc = "load" /\ ~(file.kind = "good" /\ Loadable(Overridden(file.settings)) /\ ~file.legacy)
  /\ bot' = [bot EXCEPT !.pc = IF bot.watching THEN "stuck" ELSE "down"]
  /\ UNCHANGED <<runtime, notified, unseen, fileVars>>

\* The file cannot be read, or makes no runtime: the watcher goes on with the old one.
LoadFails ==
  /\ \/ bot.pc \in {"start", "reload"} /\ file.kind # "good"
     \/ bot.pc = "load" /\ ~(file.kind = "good" /\ Loadable(Overridden(file.settings)) /\ ~file.legacy)
  /\ Fails
  /\ UNCHANGED <<runtime, notified, unseen, fileVars>>

\* load_settings: migrate_config_file reads the file, and writes it if it is an old one.
ReadForMigration ==
  /\ bot.pc \in {"start", "reload"} /\ file.kind = "good"
  /\ bot' = IF file.legacy
            THEN [bot EXCEPT !.pc = "migrate", !.seen = file.settings, !.read = file.stamp]
            ELSE [bot EXCEPT !.pc = "load"]
  /\ UNCHANGED <<runtime, notified, unseen, fileVars>>

Migrate ==
  /\ bot.pc = "migrate"
  /\ WriteConfig(bot.seen, {}, bot.read) /\ Noticed
  /\ bot' = [bot EXCEPT !.pc = "load", !.seen = Unread, !.read = 0]
  /\ UNCHANGED <<runtime, edits>>

\* It is read once more, and a runtime is built; the watcher awaits handle_reload.
Load ==
  /\ bot.pc = "load"
  /\ file.kind = "good" /\ Loadable(Overridden(file.settings)) /\ ~file.legacy
  /\ runtime' = Overridden(file.settings) /\ unseen' = FALSE
  /\ bot' = [bot EXCEPT !.pc = IF bot.watching THEN "callback" ELSE "built"]
  /\ UNCHANGED <<notified, fileVars>>

Stamp == IF file.kind = "missing" THEN 0 ELSE file.stamp

\* After its other preparations the bot looks at the file, and then for changes of it, if
\* watch_config was set when it loaded the file: which it is not by default.
WatchStarts ==
  /\ bot.pc = "built"
  /\ bot' = IF runtime["watch_config"] = Enabled
            THEN [bot EXCEPT !.pc = "subscribing", !.signature = Stamp]
            ELSE [bot EXCEPT !.pc = "unwatched"]
  /\ UNCHANGED <<runtime, notified, unseen, fileVars>>

Subscribe ==
  /\ bot.pc = "subscribing"
  /\ bot' = [bot EXCEPT !.pc = "idle", !.watching = TRUE]
  /\ UNCHANGED <<runtime, notified, unseen, fileVars>>

WatchChange ==
  /\ bot.pc = "idle" /\ notified /\ notified' = FALSE
  /\ bot' = CASE file.kind = "missing" -> [bot EXCEPT !.signature = 0]
              [] file.kind # "missing" /\ Stamp = bot.signature -> bot
              [] OTHER -> [bot EXCEPT !.pc = "reload", !.current = Stamp]
  /\ UNCHANGED <<runtime, unseen, fileVars>>

\* handle_reload is done: whatever the file is now counts as loaded.
CallbackReturns ==
  /\ bot.pc = "callback"
  /\ bot' = [bot EXCEPT !.pc = "idle", !.current = 0,
                        !.signature = IF Stamp = 0 THEN bot.current ELSE Stamp]
  /\ UNCHANGED <<runtime, notified, unseen, fileVars>>

BotStep ==
  LoadFails \/ ReadForMigration \/ Migrate \/ Load \/ WatchStarts \/ Subscribe \/ WatchChange
    \/ CallbackReturns

\* An edit, of which the watcher is told if it changes the file.
EditStep ==
  /\ EditNext
  /\ IF file' # file THEN Noticed ELSE UNCHANGED <<notified, unseen>>
  /\ UNCHANGED <<bot, runtime>>
================================================================================
