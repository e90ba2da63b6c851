# A verification development for yee88

yee88 (`src/src/yee88/`, Python on anyio, 25 kloc) is a bridge between Telegram and
command-line coding agents: codex, claude, codebuddy, opencode and pi. A user writes a
prompt in a chat or a forum topic; the bridge runs an agent on it, shows its progress in
one message that it edits, and answers; later prompts resume the agent's session. One
event loop runs everything, so what can go wrong is in the interleaving of its tasks at
their awaits, in the agents and the network, and in the files that other processes write.

This directory holds TLA+ modules translated from that source, TLC configurations that
check them on small instances, and TLAPS proofs of the main safety properties for every
instance. `PROJECT.json` relates each definition to the source lines it stands for, each
property to a mutation of the code that breaks it, and each hazard to the properties that
are about it.

## 1. Inventory

| Component | State | Operations | Hard behaviour | What makes it correct |
|---|---|---|---|---|
| Thread scheduler (`scheduler.py`) | queues per thread, index by progress message, active threads, busy events, one FIFO lock | enqueue, cancel_queued, note_thread_known, workers | callers, workers and cleaners interleave at the lock | no job stranded, lost, run twice or run after its cancel; a job waits for the run ahead |
| Telegram outbox (`telegram/outbox.py`) and its calls (`telegram/client.py`) | pending operations by key, clocks, closed flag | enqueue, drop_pending, close, the worker | RetryAfter puts an operation back while others come; close and failures | last write wins, pacing, callers released |
| Progress message (`runner_bridge.py`, `telegram/client.py`, `telegram/bridge.py`) | event and rendered counters, a one-slot signal, the phase of the end | edit loop; last edit, replacing send, delete | edits in flight when the run ends, answers lost | no progress after the answer; edits catch up |
| Runs and sessions (`runner.py`, `runner_bridge.py`, `utils/subprocess.py`) | session semaphores, agent processes, running tasks | run, announce, cancel, question | cancellation in a generator or in its consumer, a store that fails in mid-stream; locks taken there | sessions exclusive, no lock leaked, no agent orphaned |
| Engine protocols (`runner.py`, `runners/*`, `events.py`, `progress.py`) | the translator's state, the stream's session, the outcome | one per kind of line | any order of lines, any exit code | one completion, the right session, the answer not lost |
| Inbox (`telegram/loop.py`) | pending prompts with their forwards, albums, the poller | route_message, schedule, attach_forward, cancel, add, flush, dispatch | debounce tasks race with messages | every prompt, forward and item is in one place, and leaves it |
| Sessions of a conversation (`telegram/loop.py`, `chat_sessions.py`, `topic_state.py`, `resume_cache.py`) | stored session per topic, or chat and sender; the cache of answers; running tasks | dispatch, resolve, wait for a running task, announce, store, finish; /new, /fork, scheduled jobs, questions of agents | runs announce and store late, between the steps of others | a prompt resumes a session of its own conversation; /new leaves the old one |
| Stores (`telegram/state_store.py`, `utils/json_state.py`) | a file, its neighbour, modification times, a copy per process | reload, read, open, write, replace, stat | two processes, crashes, failing reads and writes | completed updates survive, no operation works on an old copy |
| Settings and contexts (`chat_prefs.py`, `topic_state.py`, `commands/*`, `telegram/topics.py`, `cli/topic.py`, `cli/handoff.py`) | context, title, engine, trigger, overrides per chat and topic; the forum's names | /ctx, /topic, /fork, /agent, /model, /reasoning, /trigger, `yee88 topic`, `yee88 handoff` | handlers wait for Telegram between reads and writes; topics disappear | the last command holds; names tell contexts |
| Routing (`directives.py`, `router.py`, `transport_runtime.py`, `worktrees.py`, `executor.py`) | none of its own: the runtime | resolve_message, resolve_engine, resolve_run_cwd, start | the configuration changes between the steps of a prompt; a reply follows a running task | the documented precedence, or the engine and project of the run it follows, or a refusal |
| Configuration file (`config.py`, `config_migrations.py`, `settings.py`, `cli/*`) | `yee88.toml` | set, unset, init, topic, handoff, migration, edits by hand | everybody writes the whole file back | edits hold |
| Hot reload (`config_watch.py`, `runtime_loader.py`) | signature, runtime | load, watch, reload, callback | edits during a reload or a start, files that cannot be loaded, the watcher off | the last good edit gets to the runtime of a bot that watches |
| Scheduled jobs (`cron/*`, `cli/cron.py`) | jobs in memory of each process and in a file | due, run, add, remove, enable, reload | several writers of a file that is truncated first, crashes, writes before the watcher subscribes | a due job fires, once; lists catch up |
| Instance lock and reload (`lockfile.py`, `cli/reload.py`) | lock file | start, stop, SIGHUP, exec, reload command | two starts, stale locks, other tokens | one instance |
| Other commands, voice, files, plugins, onboarding, rendering, logging | | | mostly I/O, one request and one reply | not modelled |

Components talk through calls and callbacks in one process. The inbox turns updates into
prompts; routing decides project and engine; a prompt resumes a session (a job of the thread
scheduler) or starts a run; a run drives an engine's runner, whose events go to the progress
message and, for the first of them, through `on_thread_known` to the scheduler and the
stores; everything that is shown goes through the outbox. The command line is another
process that shares only files with the bot: the configuration, the stores, the jobs, the lock.

## 2. Modules

| Module | Models | Depends on |
|---|---|---|
| `ThreadScheduler` | `scheduler.py`, and cancel's look into the queue | |
| `ThreadSchedulerProofs` | theorems about `ThreadScheduler` | |
| `OutboxContract` | what the outbox promises, without worker, clocks and tasks | |
| `Outbox` | `telegram/outbox.py`; implements `OutboxContract` | |
| `TelegramCalls` | the key, priority and chat of each call of the client (`telegram/client.py`), which the instance of `Outbox` is built from | |
| `ProgressMessage` | `ProgressEdits`, the ends of `handle_message`, the client's keys; EXTENDS `Outbox` | `Outbox` |
| `OutboxProofs` | theorems about `Outbox`, the refinement included, and about `ProgressMessage` on top of it | `ProgressMessage` |
| `RunnerSession` | `run_locked`, `run_impl`, the session locks, cancellation, questions | |
| `RunnerSessionProofs` | theorems about `RunnerSession` | |
| `RunnerContract` | what a runner promises the bridge about one run | |
| `EngineStream` | the five translators, the event filter, the bridge's outcome; implements `RunnerContract` | |
| `EngineStreamProofs` | theorems about `EngineStream`, the safety part of the contract included | |
| `Inbox` | the poller, `ForwardCoalescer`, `MediaGroupBuffer` and what becomes of a prompt in `route_message` | |
| `Conversation`, `ConversationProofs` | which session a prompt goes on with, and what is stored for whom | |
| `StateStore` | `JsonStateStore` and `atomic_write_json`, with several processes | |
| `ChatState` | what is remembered of a chat and its topics, the commands under way, and what a message makes of it | |
| `ChatSettings` | /agent, /model, /reasoning, /trigger; EXTENDS `ChatState` | `ChatState` |
| `TopicCommands` | /ctx, /topic, /fork, directives, `yee88 topic`, and the forum; EXTENDS `ChatState` | `ChatState` |
| `Handoff` | `yee88 handoff`; EXTENDS `TopicCommands` | `TopicCommands` |
| `ChatCommands` | all of them at once, and their properties | `ChatSettings`, `Handoff` |
| `StateProofs` | theorems about `StateStore` and `ChatCommands` | both |
| `ConfigFile` | `yee88.toml` and its writers | |
| `HotReload` | a bot that loads, watches and reloads it; EXTENDS `ConfigFile` | `ConfigFile` |
| `Routing` | a prompt on its way to a run while the runtime changes; EXTENDS `HotReload` | `HotReload` |
| `PromptProofs` | theorems about `Inbox` and about `Routing` with the file under it | both |
| `InstanceLock` | the lock file, starts and ends of instances, `yee88 reload` | |
| `CronJobs` | the jobs in the instances that `InstanceLock` runs; EXTENDS it | `InstanceLock` |
| `CronJobsProofs` | theorems about both | `CronJobs` |
| `MC*` | the values TLC gives the constants | |

`RoutingSpec` and `CommandsSpec` are named apart from `Spec` because a module of theorems extends
them together with another specification.

How state and actions correspond to the code is said in each module's header; names are
those of the source where TLA+ allows. The conventions shared by all modules:

* **Steps.** A step is the code between two awaits; `anyio.Lock` hands over in FIFO order
  and yields once even when it is free, so in `ThreadScheduler` the lock is a queue of tasks.
  A critical section without an await inside is one step.
* **Time.** A sleep ends when it may; only the outbox, whose pacing is a property, and the
  scheduled jobs, which are due at times, count ticks.
* **Processes.** What one process does between two accesses to a file that another one writes
  is a step; an operation of a store is one step in `ChatCommands` and seven in `StateStore`.
* **Failure.** A request to Telegram has an answer, no answer (with or without having had
  its effect), or a RetryAfter. An agent prints any lines of its protocol and exits with
  any code, at any time.
* **History variables** are marked as such and read by no action.

## 3. Runs and bounds

Every bound is a constant of the configuration; a counter that the code lets grow is
bounded in the guard that increments it, and its comment says so.

| Run | Instance | What it shows |
|---|---|---|
| `thread_scheduler` | one thread, three jobs of which one has a progress message and may be cancelled, one first run | no job is stranded, duplicated, lost or run after its cancel, a job waits for the run ahead of it, every accepted job runs |
| `outbox` | two edits of one message and a send to another chat, built by `TelegramCalls`; two refusals with RetryAfter, a failing request, close at any time | last write wins per key, pacing, callers released, close ends, the contract is implemented |
| `progress_message` | two events, one refusal; the run ends in each of its three ways | no progress text after the answer, edits catch up with events, the run gets to its end |
| `runner_session` | three runs on two sessions, one of them new; any cancellation, a store that fails while a run announces | sessions are exclusive, no lock leaks, no agent is left without a generator that ends it, a freed session goes to its next run |
| `runner_session_question` | the same, with a question | expected violation, see below |
| `engine_stream` | each of the five engines, six lines of output in any order, two sessions, two tools, any exit | a run that announced completes once, the completion names the session, the text is not lost |
| `inbox` | four messages of a sender with an id, one without, and an album | every prompt, forward and item is in one place, and leaves it |
| `conversation` | three prompts of a chat with scheduled jobs, a topic, and a topic forked from it; replies to any prompt, questions, and `/new` at any time | no session strays to another scope, a reply goes on with the run it replies to, `/new` leaves the old sessions |
| `state_store` | two processes, three updates, two faults | completed updates survive crashes and failed saves; an operation works on everything that was completed before it |
| `chat_commands` | three commands, two topics, two contexts, two engines; topics deleted and requests refused at any time | the last command holds, no command undoes another's setting, topics are named after what they are bound to |
| `configuration` | two edits (four commands, and three files written by hand: none, one of the old form that cannot be loaded, one of other defaults without a watcher), two projects and engines, starts with and without an engine on the command line, one prompt of five, one of which replies to a running task | prompts run where and with what was asked for, edits hold, and they get to the runtime of a bot that watches |
| `operations` | two processes of a bot, one command, two faults, a recurring and a one-time job, two ticks | one instance, one-time jobs fire once, schedulers do not undo each other, lists catch up, due jobs fire |

Three jobs are needed for a third worker of a thread to appear, and two sessions for a
session other than the expected one to be printed; two edits of a key for one to be
overtaken while it is refused. In `conversation` three prompts are a run, a reply to it and
one that interferes; the history of `/new` is about the scope `Observed`, here the topic.
Three commands are one that waits for Telegram and two that change what it has read; beside
a handoff only commands that touch its topic are asked for (`BesideHandoff`). Prompts do not
interact in `Routing`, so one is enough, and two edits are one that is overtaken by another
or a reload that meets an edit. In `state_store` processes and updates are interchangeable
(`Symmetry`), and what follows a disturbance is explored only until an update completes
(`Followed`), as nothing is claimed of it. In `operations` starts that raced for the lock are
explored without faults and commands (`RaceAlone`), for the same reason. Larger instances of
several modules were checked once while they were written; where there are proofs, they
cover every size.

`runner_session_question` looks for what `commands/question.py:3-7` promises, that the blocked
process is cancelled and the answer sent on its session: the handler cancels the first
running task of the chat, possibly its own, and its next await is cancelled with it.

More behaviours of the models disagree with a document, or lose something that no document
speaks of. No run is about them; the properties say what holds beside them, and the
hazards in `PROJECT.json` give the lines:

* A worker unmarks its thread a second time in its `finally`, so that a third one may be
  started beside a second (`docs/reference/specification.md:214`, `:272`); a run cancelled in the
  consumer of an event frees its session before its agent is stopped (`:209`).
* The cancelled sleep of a debounce task does not end the task: it dispatches the prompt at
  the first forward (`docs/reference/transports/telegram.md:104`).
* A run under way at `/new` stores its session afterwards (`docs/tutorials/first-run.md:76`); two
  prompts sent before the first has announced start two sessions; a reply to a run that ends
  while the reply is resolved starts with what is stored. Answers carry no resume line,
  although `docs/reference/specification.md:289-293` asks for one.
* A run in a topic ignores the overrides of its chat (`telegram/loop.py:134-137`), which `/model`
  and `/reasoning` show there and call the default.
* `/trigger all` in a topic clears the topic's mode, so that the chat's applies
  (`docs/reference/transports/telegram.md:88`).
* `/topic` takes any failure to rename for a deleted topic, and a handoff any failure to send
  to it: a topic that is still there loses its settings.
* A store that cannot be read counts as empty and is then written; two processes that update
  it at once undo one another.
* A reply to a running task takes that task's engine, project and branch; directives of its
  own are read and ignored (`telegram/loop.py:1662-1675`), and `RunsWhereAsked` says so.
* An edit of the configuration while the bot starts, or while the reload callback runs, is not
  seen until the next edit (`docs/reference/config.md:23`); `config set` writes files that the bot
  cannot load. A bot that was started with `watch_config` off, the default (`settings.py:157`),
  sees no edit at all, as documented; `EditsReachRuntime` is about the others.
* The watcher of the jobs ends for good if there is no file at the start, and misses what is
  written between the scheduler's load and its own subscription (`unseen`), until the next write;
  whoever reads the file between the two halves of a save finds no jobs.
* A recurring job that still runs when it is due again is marked as run and skipped
  (`cron/scheduler.py:142-144`); `DueJobsFire` is about jobs that do not run.
* A one-time job of the command line names no time zone and is read in the scheduler's,
  Asia/Shanghai (`cron/manager.py:150-152`): elsewhere it fires early or late (`Ahead`).
* A store that cannot be written while a run announces itself ends the run from outside its
  generators (`runner_bridge.py:335-339`): the agent lives on until the event
  loop closes them, and the session is free a little before.
* A bot with another token takes a lock over from one that runs; the end of either removes the
  other's.

## 4. Fairness

Safety needs none. For liveness each specification names the tasks that go on by
themselves, and assumes weak fairness of each: the event loop runs every task that is
ready, `anyio.Lock` is FIFO, a sleep ends, and a request, a store or a transcription
returns (with an error if need be). Nothing is assumed of users (no fairness for a message,
a command, a cancellation or a close) and nothing of agents beyond what the property says:
`RunEnds` and `AcceptedJobsRun` assume that a run which has started ends, which is what the
code's callers rely on; a run that never ends blocks its thread, in the model as in the
code. In `CronJobs` the scheduler's cycle, the watcher, the end of a save and the clock are fair; in
`Routing` the steps of the bot and of a prompt are, edits and restarts are not. The safety of
`ChatCommands`, `StateStore` and `Conversation` is checked without fairness.
Strong fairness is assumed nowhere: the locks are queues, so a task that waits for
one is next in the end.

## 5. What is proved

tlapm checks every proof, for every value of the constants, from the assumptions the modules
name (`ASSUME`), which TLC also evaluates on each run. Every invariant that a run checks is
also a theorem. The assumptions say that a placeholder such as `None` is none of the values it
stands beside, that bounds are numbers, and that the inputs the runs enumerate have the form the
code's parsers give them (`EditsAssumption`, `SettingsAssumption`, `OverridesAssumption`, `RequestsAssumption`). One of them
was found by a proof that failed: a command is given in a topic that a forum can have, so a
forum has at least one (`MaxTopics > 0` in `ChatAssumption`).

* **ThreadScheduler** - `TypeCorrect`, `NoJobIsStranded`, `EachJobInOnePlace`, `IndexIsExact`
  and `JobsStartAfterRunAhead`. `NoStrandedJob` alone is not inductive: a worker on its way out
  may be about to unmark the thread. The invariants beside it are that a job is in exactly
  one of a queue, a worker's hands or its end (`PlaceInv`), that queues have no
  repetitions, and that a worker knows the run that was ahead of its job (`AheadInv`).
* **Outbox** - `TypeCorrect`, `LiveOpsAreUnsettled`, `NoOperationIsLost`, `NewestIsAppliedLast`,
  `StartsArePaced` and `OutboxImplementsContract`. The strengthening relates where an operation
  is to its fate (`LifeInv`, `FatesFit`) and the clocks to the delays that were asked for
  (`PaceInv`). The refinement maps what the worker holds, and what it put back, to the
  contract's set of live operations.
* **ProgressMessage** - `ProgressUsesOutbox`: each step of the composition is a step of the
  outbox or leaves it alone, so that the theorems above hold of a run's progress messages.
  `FinalTextIsLast` builds on it: no progress edit begins after the final text. The
  invariant (`LateInv`) ties the phase of the run to the calls it has made, and says that an
  edit that is still in the outbox once the final message was sent has been refused by Telegram
  before (`DroppedStayOut`), which is the one way in which it can still come.
* **RunnerSession** - `TypeCorrect`, `SessionsAreExclusive`, `LocksAreNotLeaked`,
  `NoAgentIsOrphaned`. A session's lock is a semaphore of one whose queue may hold runs that were
  cancelled in it; the invariant says who is in the queue, who holds the value, and which
  generators of a run that is over are still to be closed. A run is left by its consumer when it
  is cancelled there, and also when the store fails as its session is noted (`NotingFails`); the
  theorem makes no difference between the two.
* **EngineStream** - `TypeCorrect`, `AnnouncedRunsComplete`, `FinalsNameTheSession`, `AnswersSurvive`
  and `KeepsTheContract`, for all five engines, any number of lines and any exit code. A line becomes
  events that the bridge takes one at a time, so `RunInv` speaks of those on their way too: an
  announcement is the first of them and names the stream's session, a completion is the last and
  names the session that was found (`OutInv`); what the agent said last is in the translator's
  text, in what was shown, or on its way (`SaidInv`); and whether a completion was emitted is
  known from where the run is (`CompletionInv`). opencode and pi learn a session before they
  announce it, which is why the session of the translator and the one of the stream are
  related differently for them (`SessionInv`).
* **Inbox** - `TypeCorrect`, `PromptsAreAccountedFor`, `ForwardsFollowTheirPrompts`,
  `AlbumItemsAreTakenOnce`. The properties speak of prompts and items; `TaskInv` says which message
  started which task, that the message in `route_message` is the last that came and has done
  nothing yet, and that a flush owns nothing before it takes its group. With it the cases are
  finite: a prompt is replaced only by one of the same sender, and its forwards go with it.
* **Conversation** - `TypeCorrect`, `ConversationsStayApart`, `RepliesFollowRuns` and
  `NewIsForGood`. The argument is growth (`StepsGrow`): a session that a prompt resumes or a
  run announced is never taken back, and what is at home stays there (`AtHomeGrows`), so it is
  enough to look at the step that brings it. The invariant says what a prompt may know of
  sessions by where it is (`PhaseInv`), that whoever is followed was running (`FollowInv`), and
  that a prompt sent after `/new` has nothing of what `/new` left, unless somebody who was
  under way has it too (`Fresh`).
* **StateStore** - `TypeCorrect`, `CompletedUpdatesSurvive`, `StoresAreFresh`. A store trusts its copy if
  the file's modification time is the one it noted; the invariant says why it may: every
  write has a time of its own, no process has noted the time of the neighbour file, and a
  process whose time is the file's, and which is not about to read, holds what the file
  holds. That two writes have different times is an assumption of the model (`mtime_ns` on
  the file systems in use), named at the variable `clock`.
* **ChatCommands** - `CommandsTypeCorrect`, `LastCommandsHold` and `NamesTellTheContexts`, for any
  commands in any number of topics. `LastCommandHolds` is not inductive: what a handler has
  read and will write back is not stored yet. `SaidInv` adds that a context which a renaming
  writes again is still allowed, and, for overrides, that every combination of what is stored
  and what pending handlers of each engine have read is allowed, since they may come back in any
  order. For names, `NamesInv` says that a topic whose name does not tell its context has a
  handler that will rename it (`Told`, `Fixing`), and that a topic which was made and waits to be
  bound is touched by nobody who does not meet the handler that made it (`Untouched`).
* **ConfigFile, HotReload and Routing** - `ConfigTypeCorrect`, `EditsHold` and `RunsAreWhereAsked`. Whoever
  holds a copy of the file and is about to write has the file's contents unless the file was
  written since (`UpToDate`, in `FileInv`); so a write that loses something is one of two that
  overlap, which is what `EditsSurvive` exempts. A prompt is routed, given an engine and started
  in three steps, each with the configuration of its moment: `PromptsInv` says what each has decided
  (`RoutedOK`, `ChosenOK`, `StartedOK`) and that the next ones leave it. A reply to a running task
  takes another step instead of the second (`Follow`), with that run's engine and context, and is
  started with the configuration of its own moment like any other.
* **InstanceLock and CronJobs** - `LockTypeCorrect`, `CronUsesLock`, `InstancesAreAlone`,
  `SchedulersDoNotClobber`, `TypeCorrect`, `OneTimeJobsAreKept`. The file names whoever runs
  (`HoldersAreNamed`), a start that may write has seen the last owner of its bot's lock gone
  (`OwnersAreGone`), and what a reload command has found dead stays dead. As long as that
  holds, every other scheduler that holds a list is gone when one saves, so the save can undo only
  the command line's writes. As long as none is undone (`LedgerInv`), one process at most
  is in the middle of a save, its list has the one-time jobs that will be owed after it, and
  whoever has not missed a write holds what the file holds.

Only model-checked is what rests on fairness or ENABLED: `AcceptedJobsRun`, `CancelEndsAgent`,
`SessionHandedOver`, `InboxDrains`, `ListCatchesUp`, `DueJobsFire`, `EditsReachRuntime`, `WaitersReleased`,
`CloseCompletes`, `ProgressCatchesUp`, `RunEnds`, and that a run completes, the one fair action of
`RunnerContract`; its initial states and steps are `KeepsTheContract`. `OutboxContract` has no fairness
and is proved whole. `Conversation` has no liveness property: that a prompt starts and its run ends is what
`ThreadScheduler` and `RunnerSession` are about.

## 6. What is not modelled, and the plan

`PROJECT.json` lists every component with its status and reason. Not modelled are

* **Onboarding, diagnosis, plugins, menus, voice, greetings, rendering, logging**: dialogues of one
  user, lookups, formatting and I/O, without state that two steps could disagree about.
* **File transfer**: it reads and writes files of the user's project, which agents change as they
  like; its check for an existing file is before the download, its write after it
  (`telegram/commands/file_transfer.py:247-275`), and nothing in the code could be held to more.
* **The HTTP layer and the sessions of other programs**: their results are inputs of `Outbox`,
  `ProgressMessage` and `Handoff`.
* **Details of modelled parts**: system prompts, command lines and environments of agents, the
  syntax of directives and cron expressions, the bound of the resume cache, the settings that
  decide neither loading nor routing. Names of projects are lower-case in the models (the code
  lowers them), a lock file always has a token's fingerprint, as every start writes one, and
  `yee88 topic` and the bot use one configuration file, as both callers of `run_topic` pass none.

Next would come a composition of the scheduler with the registry of running tasks, which a cancel of
a job that waits for the run ahead of it needs (`telegram/commands/cancel.py:37`); of `StateStore`
with the commands above it, so that an operation of `ChatCommands` is the one that `StateStore` shows
to be whole; and an abstract specification of a chat, one session and one queue per thread, that
`Conversation` and `ThreadScheduler` implement together.
