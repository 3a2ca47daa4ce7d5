# Models of tauri-plugin-sidecar

TLA+ models of the supervision engine in `crates/sidecar-core` and of the Tauri
plugin around it: what its tasks, processes, pipes, ports, files and callers do
when they interleave, crash and wait for one another. TLC checks the models on
small instances; TLAPS proves every safety property of them for all instances.

## The system

| Part | State it keeps | Operations | Modelled by |
|---|---|---|---|
| Supervisor task (`runtime/supervisor.rs`) | its place in `run`/`active_loop`, `attempt`, the published `SidecarState`, the command channel, the marker flag, `spawned` | obey Start/Stop/Restart/Shutdown, spawn, gate on health, monitor, stop, back off, fail | `Supervisor`, abstractly `Lifecycle` |
| Process trees (`platform/process.rs`) | a leader, its children, the job on Windows, the process group on Unix | spawn, kill_tree, drop | `Supervisor` |
| Manager (`runtime/manager.rs`) | handles, `start_order` | start, start_all, stop, restart, shutdown_all | `Manager` |
| Dependency order (`domain/ordering.rs`) | locals of `topo_sort` | validate, count, pop, relax, finish | `Ordering` |
| Pid store (`infra/pid_store.rs`) | entries behind a mutex, `sidecar-pids.json` | open, cleanup_stale, record, clear, flush | `PidStore` |
| Stale cleanup (`kill_stale`) | none; reads the process table | kill by pid and file name | `PidStore` |
| Health probes (`infra/health.rs`) | none | wait_tcp, wait_http, post_shutdown_hook, the marker wait | `Endpoint`; the marker in `Supervisor` and `Output` |
| Ports (`platform/ports.rs`), auth token | the port cell and the token of the handle | allocate_dynamic, ensure_free, generate_token; port, state and status read them | `Endpoint` |
| Log ring (`read_lines`, `logs`) | 500 lines behind a mutex, filled by the readers of all spawns | attach_readers, next_line, log_line, push, logs | `Output` |
| Tauri plugin (`tauri-plugin-sidecar`) | the manager in the app state | setup with autostart, commands, shutdown_all on exit | `Plugin`; status in `Endpoint`, logs in `Output` |
| Configuration, errors, states (`domain/`) | values | | as far as they steer the above |
| guest-js, demo app, examples | none | | not modelled |

**How they interact.** The manager owns one handle per sidecar. A call of its
API sends a `Command` with a oneshot sender on the channel of a supervisor task
and awaits the answer; `start` and `start_all` also watch the published state of
dependencies. A supervisor task owns at most one spawned process; two reader
tasks per spawn read its pipes, push into one ring and may set the marker flag
that the health gate waits for. Each spawn picks a port, tells the process of it
in its environment and stores it in a cell that the probes, the shutdown hook
and the callers read. All supervisors share one pid store, whose file is read by
the next run of the app. The plugin launches the manager when it is set up, may
start all sidecars from a task of its own, passes on the calls of the webview,
and blocks the exit of the app until shutdown_all has returned.

**What is hard.**

- Concurrency: several callers, one task per sidecar, readers that outlive the
  process they read from, `select!` between an exit and a command, ack first or
  state first.
- Failure: a process may exit at any moment, with its last words unread and its
  children on its port; the gate may fail, the schedule may be exhausted; the
  app may crash between any two file operations.
- Waiting: calls wait for slots of a channel, for acks, for dependencies, whose
  task may end; processes wait for full pipes to be read; probes and the hook
  wait for servers that never answer; the exit of the app waits for them all.

**What makes each part correct.** Supervisor: at most one process, the pid file
and the published state agree with it, a stop returns after the tree is gone and
is never followed by a restart, every call returns, crash loops end. Manager:
dependents start after and go down before what they depend on, shutdown is
final, no wait is forgotten. Order: it is a start order exactly when there is
one. Pid store: the file names what runs, the next run finds every orphan it
names, provided the orphan shows the recorded file name, and kills no other
program. Output: nothing a process has written is lost, doubled or overtaken, and
`logs` and the events tell the same. Endpoint: process, probes, hook and callers
agree on one port, and a sidecar is not healthy by what an earlier process
answers. Plugin: when the app is gone, so is the fleet, and the app does go.
`PROJECT.json` lists the hazards behind these, line by line.

## The modules

### Supervisor

One task with everything around it. `pc` is where the task stands; each stage
is left by one or more actions:

| `pc` | where the code is | actions |
|---|---|---|
| Idle | `run`, `recv` | IdleStart, IdleStop, IdleShutdown, IdleClosed |
| Launch, Spawn, Record | head of `active_loop` | AnnounceStarting, SpawnSucceeds, SpawnFails, RecordPid |
| Gate, Pass | `wait_healthy` | HealthPasses, HealthFails, HealthExits, AnnounceHealthy |
| Monitor, Exited | the inner `select!` | ProcessExits, ClearExited, MonitorStart, MonitorStop, MonitorClosed |
| Stop, Grace, Kill, Clear | `stop_process`; Kill and Clear also after a failed gate | AnnounceStopping, GraceEnds, KillTree, ClearPid |
| Answer, Stopped | ack and `set_state(Stopped)` | AcknowledgeStop, AcknowledgeRestart, DropStopped, AnnounceStopped |
| Decide, Backoff | `backoff_or_fail` | EnterBackoff, EnterFailed, BackoffElapses, BackoffStart/Stop/Shutdown/Closed |
| Retry, Leave, Quit | `continue`/`break`, `return false`, `return true`: `spawned` is dropped | Release |
| Return, Ended | the task returns, the channel is dropped | Return |

Every effect that a caller, a reader, a process or the next run of the app can
see is a step of its own, because the runtime is multi-threaded: an ack and the
`set_state` after it, for example, are two. The environment (callers, processes,
readers, the drop of the manager) may step at any time.

A tree is a *leader* (the spawned process: `none`, `running`, `exited` but not
reaped) and *workers* (its descendants, alive or not). `KillTree` is
`killpg`/the job plus the reaping of the child; it takes both. `Release` is what
dropping `SpawnedProcess` does: `kill_on_drop` for the leader, and the job for
the workers on Windows only. Workers are assumed to stay in the process group
or job they were born in. A command in the channel is the name of its caller;
`call` says what the caller asked and whether it is still waiting, so an ack is
`call[c]` going back to `none`. `wanted` is a history variable: the last command
obeyed asked for a running sidecar.

Time is reduced to order: a deadline, a grace period, a delay or
`reset_after_secs` may elapse whenever the code waits for it. A TCP or HTTP
probe may be answered by anyone, so it may succeed at any time. The marker probe
is modelled in full: `Prints`, `ReaderMatches`, and the flag that a new spawn
resets.

### Lifecycle

The diagram at the head of `supervisor.rs` as a specification of its own:
published state, whether a request to run stands, whether a process lives, and
the restart schedule. It says for instance that a process is spawned only while
the sidecar is wanted and published as Starting, that Stopped, Failed and
Backoff are published only once the process is gone, and that the schedule is
fresh again only after an earned healthy run or a request. `Supervisor!L` maps
the detailed variables to it, `RefinesLifecycle` says it is implemented.

### Manager

A call of the API is a script of steps run by a thread: a command to send and
await, or a dependency to wait for. `start` is the chain of its transitive
dependencies, each started and awaited, `shutdown_all` the reversed start order,
`start_all` one extra thread per sidecar. Scripts are computed from `DependsOn`
and `StartOrder` as the code computes them; the assumption on `StartOrder` is
what `Ordering` shows of `topo_sort`. The supervisors are those of `Supervisor`
reduced to channel, published state and whether there is a process, with the
same order of ack and state, the process and the restart schedule. `published`
is a history variable: what has been published since a call that waits began.
`FleetLives` maps each of these supervisors to `Lifecycle`: the reduction and the
detailed task implement the same abstract specification.

### Plugin

`Manager` in an app. `app` goes from setup to running, exiting and gone, or to
refused if there is no data directory or the manager rejects the configuration.
`SetUp` calls start_all if autostart is set, from a caller of its own that nobody
waits for; `BeginExit` is the handler of `RunEvent::Exit`, which calls
shutdown_all on the main thread; `EndExit` needs that call to have returned, and
then `Cut`s off every other thread. All actions of `Manager` happen inside
(`InApp`) while the app runs or exits. Killing the tree of a stopped sidecar is
part of `Manager` (`Kill`), so `NothingLeftBehind` is about spawned processes;
their children are the business of `Supervisor`.

### Output

The pipes and readers of all spawns of one sidecar. A line has a stream (the
*reader* it is for), a number and a kind: it matches the marker, it does not, or
it is not UTF-8. `Writes` needs room in the pipe, so a process blocks as a real
one does. `alive` says which process trees still hold their pipes; it is left by
`TreeEnds` at any time, also while a later spawn runs. A reader repeats `Take`
(next_line and the marker search), `Emit` and `Push`, three steps because others
can see what lies between them, or ends: at the end of the file, or because a
line could not be decoded. `log` is a history variable, everything that was ever
pushed; `ring` is what the code keeps. `Logs(lines)` is the getter: reversed,
cut, reversed.

### Endpoint

The supervisor again, with its port and probes spelled out. `listener` says who
accepts connections on each port: the sidecar, a leftover of an earlier process
of it, or another program, which may come and go at any time. `Allocate` binds
and releases a port and stores it in `cell`; `Spawn` fixes what the process is
`told`; in between and afterwards the port can be taken. `Connects` is the
connect of a probe or the hook: it meets whoever listens (`peer`), and an HTTP
request then waits for its answer, which may be a 2xx, anything else or nothing
in time. `event` and `state` are the two halves of `set_state` (the sink, then
the watch channel). The status command is two reads with steps of the task
between them. What earlier processes leave behind is what was listening when
the handle was dropped: nothing on Windows, where the job closes with it. It is
assumed that such a leftover goes on listening where it did and binds no new
port. `Endpoint` has one caller at a time and no shutdown or drop of the manager;
those are in `Supervisor`.

### Lists

`Select(s, S)`, the elements of a list that are in a set, in their order:
`iter().filter(..).collect()` in `start`, and in `Output` the lines of one
stream. It is a recursive function and not the filter of the library, whose
operator argument the provers cannot handle.

### Ordering

`topo_sort` step by step, one iteration of the inner loop at a time. Names are
numbers, in the order in which the code sorts the first queue.

### PidStore

Several runs of the app. `record` and `clear` are an insertion or removal under
the mutex and then a flush, which takes the mutex again, renders the entries and
writes the file; `fs::write` is a truncation and a write. `Crash` may come
between any two of these steps, leaves the sidecars alive as orphans and forgets
what is in memory. Pids are reused, by sidecars and by other programs with the
same or another file name.

Two names are compared by `kill_stale`. `record` stores the file name of the
configured path (`Exe`, pid_store.rs:60-63); the process table shows that of the
file the operating system runs (process.rs:169-172): the target of a link, the
interpreter of a script, the `.exe` that a bare name stands for on Windows, or
nothing readable. `Image` gives for each sidecar the names its process may show,
and `Spawn` takes any of them, so that a link may lead elsewhere the next time. A
name stands for all spellings that differ in ASCII case only. `KillStale` spares
an orphan that shows another name than the recorded one, and drops its entry as
`drain` does: the flush that follows removes it from the file, and no later run
looks for it.

`early` and `torn` are history variables: orphans
whose record had not returned at the crash, and orphans alive when a crash tore
the file.

## What is checked

Every property has a deliberate defect beside the definition it changes (the
operators commented "Defect:"), with which TLC finds the property violated.

| Run | Instance | Shows |
|---|---|---|
| `SupervisorSafety` | 2 callers, 3 trees, channel of 1, five configurations over both platforms, all four probes, schedules of 0, 1 and 2, with and without grace | `PidFileTracks`, `DownMeansNoProcess`, `JobContainsTree`, `TreeGoneOnReturn`, `StopReturnsDown`, `RefinesLifecycle` |
| `SupervisorLive` | 2 callers, 1 tree, marker gate, schedule of 1 | `EveryCallReturns`, `TaskEnds`, `CrashLoopEnds` |
| `Ordering` | all lists of three sidecars with up to two dependencies each, many of four, and lists with repeated or unknown names | `NoUnderflow`, `SortIsExact` against a definition without an algorithm |
| `ManagerSafety` | a chain base, mid, top in an app without autostart; a user that starts top, restarts and stops base; the exit of the app at any time | `DependentsDownFirst`, `NothingLeftBehind`, `StartedAfterDependencies`, `ShutdownIsFinal`, `FleetLives` |
| `ManagerLive` | base and top, autostart; a user that stops base and shuts all down; the exit of the app | `StartedAfterDependencies`, `ShutdownEndsWaits`, `StartAllStarts`, `WaitsEnd`, `ExitEnds` |
| `PidStore` | two sidecars configured as the same file name, one of them a link that may show another; four pids, one other program | `FileTracks`, `CleanupComplete`, `OthersSpared` |
| `Output` | two spawns with two streams each, three lines, pipes and ring of two, events on | `LogsShowNewest`, `StreamsInOrder`, `EventsMatchLogs`, `EveryLineRead`, `MarkerIsSeen`, `ReadersEnd` |
| `Endpoint` | two ports, one of them the fixed one; configurations over every port strategy, probe, hook, auth and platform | `EnvironmentAgrees`, `NoStaleServer`, `StatusHasPort`, `GateEnds`, `StopEnds` |

`SupervisorSafety`, `ManagerSafety`, `PidStore`, `Output` and `Endpoint` also
check the type invariant of their module (`AppTypeOK` includes that of
`Manager`); that of `Ordering` is proved.

**Bounds.** Channel capacity 1 instead of 8 with two callers already makes a
sender wait for a slot and leaves a command behind a shutdown, which is all the
capacity changes. Three trees are the most that can matter at once: the one
held, one whose children outlive it, one whose reader still has a line; a tree
name is free again when all of it is gone, so respawns are unbounded. A schedule
of 2 distinguishes the first retry, a later one and the exhausted schedule; 0 is
`Never`. In `Manager`, a chain of three is the smallest in which a dependency is
only transitive; `Retries` 1 for the base lets a dependency crash and recover,
and fail. Four pids let both sidecars have an orphan of an earlier run and a
process of this one. One sidecar always shows the recorded name, the other may
show it or not, so orphans of both kinds, and foreign programs with the recorded
name, the shown name and a third one, meet the same cleanup. In `Output`, two spawns are the old and the new one; with
three lines a stream can fill its pipe and the ring and still have one to come,
and old and new readers hold lines of the same ring at once; the behaviours end
when the lines are written. Two ports in `Endpoint` let a leftover or another
program hold one while the next process gets the other, or none. Nothing else is
bounded: callers call, processes crash and the app restarts as often as they
like. `SupervisorSafety` and `PidStore` use
symmetry over callers, trees and pids; the liveness runs use none.

Deadlock is checked where the system never stops on its own (`ManagerSafety`,
`ManagerLive`, `PidStore`, `Endpoint`; an app that is gone may stutter). In the
other runs it may: the sort ends, once the manager is dropped and the processes
are gone nothing is left to do, and in `Output` the lines are used up.

**Fairness.** Weak fairness of the task (`Task`, `Supervise`) and of the threads
(`Proceed`, `Return`): the runtime polls what is ready, and each wait of the
code has a timer or an event that is an action of the model. Strong fairness of
the receive (`Received`): `tokio::select!` starts at a random branch, so a
command that is ready at infinitely many selects is taken at one. Strong
fairness of `Enqueue`: tokio's channel hands out slots first come, first served.
In `Output`, weak fairness of each reader, a task that is polled when its pipe
has something. In `Endpoint`, weak fairness of the steps of the task and of the
timers behind `GateFails` and `HookEnds`, but of no answer. Nothing is assumed of
processes, other programs, users or the drop of the manager: a process may run,
crash, be silent or hold its pipes for ever, a server need never answer, and a
marker need never appear. `StartAllStarts`, `WaitsEnd` and `CrashLoopEnds` state
what they assume beyond that as their premise.

## Where the code does not do what is said

Four runs each check one statement of a comment or of the documentation and find
it violated.

- `OrphanWorkers`: config.rs:163 "Whatever happens, the *entire process tree*
  dies". When the spawned process exits by itself the monitor does not call
  kill_tree; on Unix the children it leaves behind are out of reach from then on.
- `StaleFailure`: manager.rs:104 and error.rs:36. A Start is acknowledged before
  Starting is published, so `start` may read the Failed of an earlier attempt
  and refuse to go on while the dependency is being started. `FailureIsFresh` is
  about the step in which a wait ends with DependencyFailed (`AwaitFails`) and no
  other: in the run a first start fails, a second one has its Start of the
  dependency acknowledged, and its wait reads Failed with the task at the head
  of active_loop. (The exit of the app has begun in that trace, since the model
  lets it begin at any time, but has sent nothing.)
- `LostOutput`: config.rs:54 "Lines always go to `tracing` regardless". A line
  that is not UTF-8 ends the loop of read_lines: later lines of the stream are
  read by nobody, and the process finds its pipe closed.
- `PortAfterStart`: README.md:94-106 reads the port as soon as `start` has
  returned. The ack comes before the port is allocated, so the answer may be
  none.

Further observations that no run is spent on. pid_store.rs:5-7 says that the next
launch "kills anything that is still alive *and still runs the same executable*".
An orphan started through a link is recorded under the name of the link and shows
that of the target: `kill_stale` takes it for another program, it lives on, and
its entry is flushed away. The `PidStore` run reaches this, and `CleanupComplete`
excepts exactly the orphans that show another name than the recorded one; without
the exception (`orphans \subseteq early \cup torn`) it is violated. The tests of
the repository start `python3`, which on many systems is such a link. A line of the previous process
that its reader handles after the marker was reset makes the new process healthy
(`Take` and `ReaderMatches` allow it). A shutdown during the backoff leaves the
state published as Backoff. `restart` of an idle sidecar starts it without
looking at its dependencies. A crash between the truncation and the write of the
pid file makes the next launch forget all entries (`CleanupComplete` excepts
`torn`). ports.rs counts on a retry when another program takes an allocated port
before the sidecar binds it, but if that program passes the probe the sidecar is
Healthy (`ProbeTcp` and `ProbeAnswered` ask nobody who they are).

## What is proved

For every value of the constants, from the named assumptions of the modules
only: configurations are well-formed, the channel has at least one slot, the
"no tree", "no caller", "no port" and similar values are distinct from the real
ones, the ring holds at least one line, a start order lists every sidecar once
and after its dependencies, and the calls of the app's own setup and exit are
those of the plugin. Every invariant and action property that a run checks is
stated by a theorem; only liveness is not.

| Module | Proves | Lines of argument |
|---|---|---|
| `SupervisorProofs` | `TypeOK`, `PidFileTracks`, `DownMeansNoProcess`, `JobContainsTree`, `StopReturnsDown`, `TreeGoneOnReturn`, `RefinesLifecycle` | what each stage of the task means |
| `ManagerProofs` | `AppTypeOK`, `DependentsDownFirst`, `NothingLeftBehind`, `ShutdownIsFinal`, `FleetLives`, `StartedAfterDependencies` | who waits for whom, and what a script has still to do |
| `ScriptProofs` | lemmas on the scripts of calls, for `ManagerProofs` | the start order, closed under dependencies |
| `ListProofs` | lemmas on lists, for the others | induction on a prefix |
| `OrderingProofs` | `TypeOK`, `NoUnderflow`, `SortIsExact` | in_degree counts what is left |
| `PidStoreProofs` | `TypeOK`, `FileTracks`, `CleanupComplete`, `OthersSpared` | who holds the mutex writes what is true |
| `EndpointProofs` | `TypeOK`, `EnvironmentAgrees`, `NoStaleServer`, `StatusHasPort` | what the cell means at each stage |
| `OutputProofs` | `TypeOK`, `LogsShowNewest`, `StreamsInOrder`, `EventsMatchLogs` | log, hand and pipe are what was written |

**Supervisor.** Of its invariants only the types are inductive by themselves:
that a sidecar shown as Failed has no process depends on where the task stood
when it published that. The strengthening `IInv` says for each stage of the task
which process may run and whether the file names it (`TreeInv`), which state is
published (`StateInv`), and which command is being carried out and whether the
sidecar is wanted (`CommandInv`). One lemma per part has one step per action.
The action properties add `ReturnStages`: a call returns only in a stage where
nothing runs, unless it was a start.

*The refinement* is under the mapping retries = length of the schedule, phase =
published state, live = some leader runs, earned = `sustained`, and `wanted`,
`attempt` as they are. From `IInv`, each action is one step of the diagram or
leaves all of its variables alone. The one place where the code's step is later
than the diagram might suggest is the kill after a failed gate: the process dies
while still published as Starting, which `Die` allows in any phase.

**Manager and Plugin.** The theorems are about `AppSpec`, the manager in an app.
`FleetInv` is their inductive invariant; its parts answer one question each.

- `StageInv`: what may be published, running and commanded at each stage of a
  supervisor task.
- `WaitInv`: who waits? Whoever is in a channel is there once, in no other, and
  has the command for this sidecar at the head of its script; a command that is
  being carried out is the head of the script of a thread that is in no channel.
  So an ack takes exactly the step off a script that was obeyed.
- `ScriptsInv`: in every script, a shutdown of a sidecar comes after that of all
  its dependents, or they are down (`Ordered`); and a call of shutdown_all has
  each sidecar down or still in its script (`Telling`). This is why several
  calls at once do no harm: what one of them skips, it has seen answered.
- `EndingInv`: the dependents of a sidecar that was told to end are down, which
  implies `DependentsDownFirst`. It is kept because a shutdown is received only
  when it is the head of a script, before which `Ordered` has nothing left.
- `AppInv`: nothing runs before the app does, the exit waits for its own
  shutdown_all, and when it is over every sidecar is down.

`Down` is stable: an ended task receives nothing, and one that is to end after
its ack has only one step left. `ShutdownIsFinal` and `NothingLeftBehind` read it
off an empty script. For `StartedAfterDependencies` a second invariant on top,
`StartInv`, says that whoever has still to start a sidecar has seen each of its
dependencies healthy or has the wait for it before that start (`Promised`), that
only calls that keep what they see wait (`Entitled`), and that they have seen
what is healthy now (`Seen`). `FleetLives` needs `StageInv` only: each step of a
supervisor is a step of the diagram of its sidecar and of no other.

`ScriptProofs` shows what these invariants need of a new call: the script of
shutdown_all tells every sidecar, dependents first (`ShutdownScriptTells`); that
of start has, for each member of the chain, a wait for each of its dependencies
earlier (`ScriptAwaits`). The latter rests on `Needed` being closed under
dependencies (`NeededClosed`), so that filtering the start order by it keeps
them in order (`ChainInOrder`). `Needed` is a recursive function on a graph: that
one exists which satisfies its equation is shown from the sets of what can be
reached (`ReachSteps`, `NeededSteps`).

**Ordering.** For every list of configs. The invariant says that in_degree of a
name counts the dependencies not yet relaxed, that the queue and the order hold
distinct names without any, and, for completeness, that every such name is in
one of them (`CompleteInv`). A successful sort has as many names as configs, so
it has all of them, each once, and no name is there twice. A failing one is
right to fail: if there were a start order, take the first name in it that was
not sorted; in_degree says that it waits for a dependency that was not sorted
either, but that one is earlier. With it, what `Manager` assumes of `StartOrder`
is what `topo_sort` returns.

**PidStore**, for any number of sidecars and pids. Whoever writes holds the mutex
and writes the entries of that moment (`WriteInv`), the entries follow the
supervisors (`EntryInv`), every sidecar process is held or an orphan
(`ProcessInv`), the cleanup looks for nothing but what the file names
(`CleanInv`), and an orphan that can be found, one that was recorded and shows
the recorded name, stays named, in the file until the cleanup has ended and in
the entries while it has not been visited (`OrphanInv`). `Exe` and `Image` are
any two functions, equal, overlapping or disjoint: `CleanupComplete` claims
nothing for an orphan under another name, and for one under the recorded name it
does not matter what the others show. `OthersSpared` follows from `CleanInv` and
from the pids that supervisors hold being those of their own processes.

**Endpoint**, for any set of ports. The invariant relates what is told, listened
on and connected to the stage of the task: a process that runs was told the
present cell, a leftover never listens on the port in the cell from the moment
it is allocated until the handle is dropped, and whoever has read Healthy reads
a cell that has not been emptied since.

**Output**, for any capacity and any number of spawns and lines. The ring is the
tail of all that was pushed (`RingInv`), as long as the capacity once that much
was pushed; reversing, cutting and reversing it is then a tail of the log. A
reader that is not yet spawned has done nothing (`Unspawned`). For each stream,
its lines in the log, the one in the reader's hand and those in the pipe are
together what was written, until the reader ends; then they are a prefix of it,
and the first line that is missing could not be decoded (`StreamInv`). That a
push adds a line to its own stream only is `SelectAppend` of `ListProofs`.

**Only model-checked.** The liveness properties (`EveryCallReturns`, `TaskEnds`,
`CrashLoopEnds`, `ShutdownEndsWaits`, `StartAllStarts`, `WaitsEnd`, `ExitEnds`,
`EveryLineRead`, `MarkerIsSeen`, `ReadersEnd`, `GateEnds`, `StopEnds`): fairness
and ENABLED are not in the prover's reach. The four statements that the code
violates are counterexamples, which only a run can show.

## What is not modelled

- The bytes of a token, of an HTTP request and of a line; a rest of a line at the
  end of a stream counts as a line; timing beyond the order of events.
- `args`, `cwd`, `resolve_binary`, the builders and serde defaults, event
  payloads, permissions: values without behaviour. guest-js is one invoke or
  listen per function; the demo app and the examples are users of the library.
- Windows of the operating system: a child forked before its parent is in the
  job, a pid reused between reaping and `killpg`; two app instances with one pid
  file; write errors of the pid file, which the code ignores.
- `kill_stale` on the process group of an orphan: `PidStore` is about the
  recorded process, not about children of it.
- A change of the configuration between two runs of the app: `Exe` is the same in
  all of them. What a name shown by the process table is made of.
- In `Manager`, a full command channel (there are fewer threads than slots;
  `Supervisor` has it) and the drop of the manager. In `Endpoint`, more than one
  caller, Shutdown and the drop (`Supervisor` has them), and what an older
  leftover child might bind later on.
- A panic in a callback of the event sink, which the code does not catch.

## Plan

The order is by weight: first the task that owns processes, then what several
tasks share, then the callers.

1. Done: `Supervisor` with `Lifecycle` and their proofs, `Ordering` and its
   proofs, `Manager`, `PidStore` and its proofs; then `Plugin` over `Manager`
   with the refinement of its supervisors, `Output` and `Endpoint` with theirs.
2. Extend the model, where it is still coarse: `kill_stale` on process groups in
   `PidStore`, with orphans whose leader is gone.
3. Done: the proofs of every safety property of `Manager` and `Plugin`, the
   exactness of `Ordering`, and the streams of `Output`.
4. Prove what connects the modules: safety results of `Lifecycle` itself, which
   both refinements then give to `Supervisor` and to every supervisor of a fleet;
   and simplify the proofs of `Endpoint` and `Output` with the lemmas of
   `ListProofs`.
