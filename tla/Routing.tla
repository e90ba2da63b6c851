-------------------------------- MODULE Routing --------------------------------
(***************************************************************************)
(* From a message to a run: the project, the branch and the engine it is   *)
(* for, by a configuration that may change at any time (directives.py,     *)
(* transport_runtime.py, router.py, worktrees.py, telegram/loop.py:        *)
(* _dispatch_pending_prompt, telegram/engine_defaults.py,                  *)
(* telegram/commands/executor.py: _run_engine).                            *)
(***************************************************************************)
EXTENDS HotReload

CONSTANTS
  Messages,   \* what users send
  Settings,   \* the configuration at first
  MaxPrompts  \* bound: the prompts of a behaviour

ASSUME SettingsAssumption == Settings \in [Key -> Value]

VARIABLE prompts  \* the prompts so far, where each is and, as history, the
                  \* configurations that it was routed, given its engine and run with

routingVars == <<fileVars, botVars, prompts>>

NoContext == [project |-> None, branch |-> None]

Prompt(m) ==
  [asks |-> m, pc |-> "arrived", context |-> NoContext, directive |-> None,
   follows |-> FALSE, engine |-> None, cwd |-> None, routed |-> runtime, chose |-> runtime, ran |-> runtime]

RoutingInit == FileInit(Settings) /\ BotInit(Settings) /\ prompts = <<>>

Becomes(i, f) ==
  /\ prompts' = [prompts EXCEPT ![i] = [x \in DOMAIN @ |-> IF x \in DOMAIN f THEN f[x] ELSE @[x]]]
  /\ UNCHANGED <<fileVars, botVars>>

\* An error is sent instead of a run.
Refuse(i) ==
  prompts' = [prompts EXCEPT ![i] = [pc |-> "refused"]] /\ UNCHANGED <<fileVars, botVars>>

------------------------------------------------------------------------------
(* TransportRuntime.resolve_message.                                       *)

\* The engines that have a runner, if only one without their tables.
Entries(s) == EngineId \ s["load_error"]

\* parse_directives: a name that is not configured is a word of the prompt.
Directives(m, s) ==
  [project |-> IF m.project \in Configured(s) THEN m.project ELSE None,
   engine  |-> IF m.engine \in Entries(s) THEN m.engine ELSE None,
   branch  |-> m.branch]

default_project(m, s) ==
  IF m.chat \in Configured(s) THEN m.chat ELSE s["default_project"]

_resolve_context(m, s) ==
  LET d == Directives(m, s)
      project == CASE d.project # None -> d.project
                   [] d.project = None /\ m.ambient.project # None -> m.ambient.project
                   [] OTHER -> default_project(m, s)
      branch == IF d.branch = None /\ project = m.ambient.project THEN m.ambient.branch
                ELSE d.branch
  IN [project |-> project, branch |-> branch]

ContextSource(m, s) ==
  LET d == Directives(m, s) IN
  CASE m.reply_ctx # NoContext -> "reply_ctx"
    [] m.reply_ctx = NoContext /\ (d.project # None \/ d.branch # None) -> "directives"
    [] OTHER -> "other"

------------------------------------------------------------------------------
Arrive(m) ==
  /\ Serving /\ Len(prompts) < MaxPrompts
  /\ prompts' = Append(prompts, Prompt(m))
  /\ UNCHANGED <<fileVars, botVars>>

\* A reply whose ctx line names no project is refused, as is a prompt in a topic that is
\* bound to nothing and names nothing.
Route(i) ==
  LET m == prompts[i].asks
      source == ContextSource(m, runtime)
  IN
  /\ Serving /\ prompts[i].pc = "arrived"
  /\ IF \/ source = "reply_ctx" /\ m.reply_ctx.project \notin Configured(runtime)
        \/ m.topic /\ source = "other" /\ m.ambient = NoContext
     THEN Refuse(i)
     ELSE Becomes(i, [pc |-> "routed", routed |-> runtime,
                      directive |-> Directives(m, runtime).engine,
                      context |-> IF source = "reply_ctx" THEN m.reply_ctx
                                  ELSE _resolve_context(m, runtime)])

ProjectEngine(p, s) == IF p \in Configured(s) THEN s[p] ELSE None

\* Mutant of Follow: the prompt keeps the context that it was routed to.
FollowsElsewhere(i) ==
  LET m == prompts[i].asks IN
  /\ Serving /\ prompts[i].pc = "routed" /\ m.resume = None
  /\ \E run \in m.running :
       \/ Becomes(i, [pc |-> "ready", follows |-> TRUE, chose |-> runtime, engine |-> run.engine])
       \/ Refuse(i)

\* send_with_resume: a reply to a run that goes on, and that names no session, waits for the
\* session of that run, and goes on with it where that run is: its own engine and project
\* do not matter.  A run that ends without a session is answered with an error.
Follow(i) ==
  LET m == prompts[i].asks IN
  /\ Serving /\ prompts[i].pc = "routed" /\ m.resume = None
  /\ \E run \in m.running :
       \/ Becomes(i, [pc |-> "ready", follows |-> TRUE, chose |-> runtime,
                      engine |-> run.engine, context |-> run.context])
       \/ Refuse(i)

\* resolve_engine_for_message, after it has awaited the stores, of a prompt that replies to
\* no run, or to one that has ended by now.
ChooseEngine(i) ==
  LET m == prompts[i].asks
      project == ProjectEngine(prompts[i].context.project, runtime)
  IN
  /\ Serving /\ prompts[i].pc = "routed"
  /\ Becomes(i, [pc |-> "ready", chose |-> runtime,
                 engine |-> CASE m.resume # None -> m.resume
                              [] m.resume = None /\ prompts[i].directive # None -> prompts[i].directive
                              [] m.resume = None /\ prompts[i].directive = None /\ m.default # None -> m.default
                              [] OTHER -> IF project # None THEN project ELSE runtime["default_engine"]])

\* The directory of the project or of a worktree of it, or the bot's own; {} for an error.
resolve_run_cwd(context, s) ==
  CASE context.project = None -> {"here"}
    [] context.project \in Configured(s) -> {context.project}
    [] OTHER -> {}

\* _run_engine: an engine that has no runner or is not installed, a project that is no
\* longer there, and a worktree that cannot be made are answered with an error.
RunEngine(i) ==
  LET q == prompts[i]
      available == Entries(runtime) \cap Installed
  IN
  /\ Serving /\ q.pc = "ready"
  /\ \/ /\ q.engine \in available
        /\ \E where \in resolve_run_cwd(q.context, runtime) :
             Becomes(i, [pc |-> "started", cwd |-> where, ran |-> runtime])
     \/ /\ q.engine \notin available \/ q.context.branch # None
             \/ resolve_run_cwd(q.context, runtime) = {}
        /\ Refuse(i)

\* The process ends, or is replaced: what had not started is gone.
Restart ==
  /\ StartBot
  /\ prompts' = [i \in DOMAIN prompts |->
                   IF prompts[i].pc \in {"arrived", "routed", "ready"}
                   THEN [pc |-> "lost"] ELSE prompts[i]]

PromptStep == \E i \in DOMAIN prompts : Route(i) \/ Follow(i) \/ ChooseEngine(i) \/ RunEngine(i)

RoutingNext ==
  \/ EditStep /\ UNCHANGED prompts
  \/ BotStep /\ UNCHANGED prompts
  \/ Restart
  \/ \E m \in Messages : Arrive(m)
  \/ PromptStep

\* The watcher and the network go on; nobody has to edit, to send or to start anything.
RoutingSpec ==
  /\ RoutingInit /\ [][RoutingNext]_routingVars
  /\ WF_routingVars(BotStep /\ UNCHANGED prompts) /\ WF_routingVars(PromptStep)

------------------------------------------------------------------------------
(* Properties. *)

\* "a or b" of Python.
Or(a, b) == IF a # None THEN a ELSE b

\* A prompt is run for the project that was asked for, in its directory, by the engine
\* that was asked for, in the documented order of precedence, or, if it follows a run, by
\* the engine and for the project of that run; whatever becomes of the configuration on
\* its way; or not at all
\* (docs/reference/context-resolution.md:88-126, docs/how-to/switch-engines.md:32;
\* transport_runtime.py:210-300, loop.py:906-960, executor.py:148-189).
RunsWhereAsked ==
  \A i \in DOMAIN prompts :
    LET q == prompts[i]  m == q.asks  d == Directives(m, q.routed)  p == q.context.project IN
    q.pc = "started" =>
      /\ IF q.follows
         THEN /\ m.resume = None
              /\ \E run \in m.running : q.engine = run.engine /\ q.context = run.context
         ELSE /\ q.engine = Or(m.resume, Or(d.engine, Or(m.default, Or(ProjectEngine(p, q.chose),
                                                                      q.chose["default_engine"]))))
              /\ p = IF m.reply_ctx # NoContext THEN m.reply_ctx.project
                     ELSE IF d.project # None THEN d.project
                     ELSE IF m.ambient.project # None THEN m.ambient.project
                     ELSE default_project(m, q.routed)
      /\ q.engine \in Installed \ q.ran["load_error"]
      /\ IF p = None THEN q.cwd = "here" ELSE q.cwd = p /\ p \in Configured(q.ran)

\* An edit holds until another edit of the same setting, unless two writers of the file
\* overlap; migrations and commands keep what they are not about
\* (config.py:123-153, config_migrations.py:114-124, cli/topic.py:201-234).
EditsSurvive ==
  file.kind = "good" => \A k \in Key : file.settings[k] \in said[k]

\* Once edited, a file that makes a runtime gets to be the runtime of a bot that was started
\* with watch_config, also after a file that made none; but not if it was edited while the
\* bot was starting or had not finished with the last reload (config_watch.py:71-146).
EditsReachRuntime ==
  []<>( \/ file.kind = "good" /\ Loadable(Overridden(file.settings)) =>
             runtime = Overridden(file.settings)
        \/ unseen \/ bot.pc \in {"off", "down", "unwatched"} )
================================================================================
