----------------------------- MODULE Supervisor -----------------------------
(***************************************************************************)
(* One supervisor task (runtime/supervisor.rs) together with everything it *)
(* shares with others: the command channel its callers send on, the        *)
(* process tree it spawns (platform/process.rs), its entry of the pid file *)
(* (infra/pid_store.rs), the published state, and the marker flag that the *)
(* stdout readers set from tasks of their own.                             *)
(*                                                                         *)
(* Between two steps of the task any caller, process or reader may step:   *)
(* the runtime is multi-threaded, so each effect another party can see is  *)
(* a step, whether or not the code awaits there.                           *)
(*                                                                         *)
(* Time is abstracted to the order of events: a deadline, a grace period,  *)
(* a backoff delay or reset_after_secs may elapse at any moment at which   *)
(* the code waits for it.                                                  *)
(***************************************************************************)
EXTENDS Naturals, Sequences, Functions

CONSTANTS
  Callers,        \* concurrent users of the manager
  Tree,           \* names for process trees: a spawned process and its children
  NoCaller, NoTree,
  QueueCapacity,  \* 8 in the code
  Configs         \* the SidecarConfigs examined

(* "schedule" is the length of backoff_secs; RestartPolicy::Never is 0.    *)
(* "port" is false for PortStrategy::None, "graceful" for                  *)
(* GracefulShutdown::None.                                                 *)
SidecarConfig ==
  [platform : {"unix", "windows"},
   health   : {"Immediate", "Tcp", "Http", "StdoutMarker"},
   port     : BOOLEAN,
   schedule : Nat,
   graceful : BOOLEAN]

ASSUME ConfigsAssumption == Configs \subseteq SidecarConfig
ASSUME QueueCapacityAssumption == QueueCapacity \in Nat \ {0}
ASSUME NoTreeAssumption == NoTree \notin Tree
ASSUME NoCallerAssumption == NoCaller \notin Callers

VARIABLES
  config,     \* the configuration of this sidecar
  pc,         \* where the task stands
  state,      \* published SidecarState, without the payload of Backoff
  attempt,    \* local of active_loop
  sustained,  \* healthy_since.elapsed() >= reset_after_secs
  wanted,     \* history: the last command obeyed asked for a running sidecar
  cmd,        \* the command the task is carrying out
  queue,      \* the callers whose command is in the channel
  call,       \* what each caller has asked and not been answered
  open,       \* some cmd_tx is alive
  held,       \* the tree of the local `spawned`
  leader,     \* of each tree, the process that was spawned
  workers,    \* of each tree, whether any other process is alive
  recorded,   \* the tree named in the pid file
  marker,     \* the watch channel marker_tx / marker_rx
  stdout      \* of each tree, where a line that matches the marker is

progress == <<state, attempt, sustained, wanted>>
channel  == <<cmd, queue, call, open>>
tree     == <<held, leader, workers, recorded>>
output   == <<marker, stdout>>
vars     == <<config, pc, progress, channel, tree, output>>

Operation == {"Start", "Stop", "Restart", "Shutdown"}

SidecarState == {"Idle", "Starting", "Healthy", "Backoff", "Stopping",
                 "Stopped", "Failed"}

Stages == {"Idle", "Launch", "Spawn", "Record", "Gate", "Pass", "Monitor",
           "Exited", "Decide", "Backoff", "Stop", "Grace", "Kill", "Clear",
           "Answer", "Stopped", "Retry", "Leave", "Quit", "Return", "Ended"}

Command == [op : Operation \cup {"none", "drop"},
            from : Callers \cup {NoCaller}]

Nothing == [op |-> "none", from |-> NoCaller]

TypeOK ==
  /\ config \in Configs
  /\ pc \in Stages
  /\ state \in SidecarState
  /\ attempt \in 0 .. config.schedule
  /\ sustained \in BOOLEAN /\ wanted \in BOOLEAN /\ open \in BOOLEAN
  /\ cmd \in Command
  /\ queue \in Seq(Callers) /\ Len(queue) <= QueueCapacity
  /\ call \in [Callers -> Operation \cup {"none"}]
  /\ held \in Tree \cup {NoTree}
  /\ recorded \in Tree \cup {NoTree}
  /\ leader \in [Tree -> {"none", "running", "exited"}]
  /\ workers \in [Tree -> BOOLEAN]
  /\ marker \in BOOLEAN
  /\ stdout \in [Tree -> {"quiet", "pending", "matched"}]

Init ==
  /\ config \in Configs
  /\ pc = "Idle" /\ state = "Idle"
  /\ attempt = 0 /\ sustained = FALSE /\ wanted = FALSE
  /\ cmd = Nothing /\ queue = <<>> /\ open = TRUE
  /\ call = [c \in Callers |-> "none"]
  /\ held = NoTree /\ recorded = NoTree
  /\ leader = [t \in Tree |-> "none"]
  /\ workers = [t \in Tree |-> FALSE]
  /\ marker = FALSE
  /\ stdout = [t \in Tree |-> "quiet"]

Goto(from, to) == pc = from /\ pc' = to

Alive(t) == leader[t] = "running" \/ workers[t]

-----------------------------------------------------------------------------
(* The callers.                                                            *)

Sending(c) ==
  call[c] # "none" /\ c \notin Range(queue) /\ cmd.from # c

Call(c, op) ==
  /\ open /\ call[c] = "none"
  /\ call' = [call EXCEPT ![c] = op]
  /\ UNCHANGED <<config, pc, progress, cmd, queue, open, tree, output>>

(* cmd_tx.send waits for a free slot. *)
Enqueue(c) ==
  /\ Sending(c) /\ pc # "Ended"
  /\ Len(queue) < QueueCapacity
  /\ queue' = Append(queue, c)
  /\ UNCHANGED <<config, pc, progress, cmd, call, open, tree, output>>

(* The error of a send to an ended task is ignored: the call returns. *)
SendFails(c) ==
  /\ Sending(c) /\ pc = "Ended"
  /\ call' = [call EXCEPT ![c] = "none"]
  /\ UNCHANGED <<config, pc, progress, cmd, queue, open, tree, output>>

(* The manager is dropped.  Whoever is in a call keeps it alive. *)
DropManager ==
  /\ open /\ \A c \in Callers : call[c] = "none"
  /\ open' = FALSE
  /\ UNCHANGED <<config, pc, progress, cmd, queue, call, tree, output>>

-----------------------------------------------------------------------------
(* The processes and the stdout readers.                                   *)

LeaderExits(t) ==
  /\ leader[t] = "running"
  /\ leader' = [leader EXCEPT ![t] = "exited"]
  /\ UNCHANGED <<config, pc, progress, channel, held, workers, recorded,
                 output>>

WorkersStart(t) ==
  /\ leader[t] = "running" /\ ~workers[t]
  /\ workers' = [workers EXCEPT ![t] = TRUE]
  /\ UNCHANGED <<config, pc, progress, channel, held, leader, recorded,
                 output>>

WorkersExit(t) ==
  /\ workers[t]
  /\ workers' = [workers EXCEPT ![t] = FALSE]
  /\ UNCHANGED <<config, pc, progress, channel, held, leader, recorded,
                 output>>

(* Any process of the tree holds the pipe and may print the marker. *)
Prints(t) ==
  /\ config.health = "StdoutMarker"
  /\ Alive(t)
  /\ stdout' = [stdout EXCEPT ![t] = "pending"]
  /\ UNCHANGED <<config, pc, progress, channel, tree, marker>>

(* read_lines: the reader of a dead tree drains what the pipe still holds. *)
ReaderMatches(t) ==
  /\ stdout[t] = "pending"
  /\ stdout' = [stdout EXCEPT ![t] = "matched"]
  /\ marker' = TRUE
  /\ UNCHANGED <<config, pc, progress, channel, tree>>

-----------------------------------------------------------------------------
(* Commands.                                                               *)

(* Some(op) = cmd_rx.recv() *)
Receive(op) ==
  /\ queue # <<>> /\ call[Head(queue)] = op
  /\ queue' = Tail(queue)
  /\ wanted' = (op \in {"Start", "Restart"})
  /\ UNCHANGED open

(* ack.send before anything else is done about the command *)
AnswerAtOnce ==
  /\ call' = [call EXCEPT ![Head(queue)] = "none"]
  /\ UNCHANGED cmd

Obey(op) ==
  /\ cmd' = [op |-> op, from |-> Head(queue)]
  /\ UNCHANGED call

(* None = cmd_rx.recv() *)
ChannelClosed == ~open /\ queue = <<>>

-----------------------------------------------------------------------------
(* run: no process yet, or no longer.                                      *)

IdleStart ==
  /\ Goto("Idle", "Launch")
  /\ Receive("Start") \/ Receive("Restart")
  /\ AnswerAtOnce
  /\ attempt' = 0
  /\ UNCHANGED <<config, state, sustained, tree, output>>

IdleStop ==
  /\ pc = "Idle"
  /\ Receive("Stop") /\ AnswerAtOnce
  /\ UNCHANGED <<config, pc, state, attempt, sustained, tree, output>>

(* Defect: the task goes on after a shutdown that found it idle. *)
IdleShutdownStays ==
  /\ pc = "Idle"
  /\ Receive("Shutdown") /\ AnswerAtOnce
  /\ UNCHANGED <<config, pc, state, attempt, sustained, tree, output>>

IdleShutdown ==
  /\ Goto("Idle", "Return")
  /\ Receive("Shutdown") /\ AnswerAtOnce
  /\ UNCHANGED <<config, state, attempt, sustained, tree, output>>

IdleClosed ==
  /\ Goto("Idle", "Return") /\ ChannelClosed
  /\ UNCHANGED <<config, progress, channel, tree, output>>

(* The task ends: the channel is dropped with the acks of what is queued. *)
Return ==
  /\ Goto("Return", "Ended")
  /\ queue' = <<>>
  /\ call' = [c \in Callers |->
                IF c \in Range(queue) THEN "none" ELSE call[c]]
  /\ UNCHANGED <<config, progress, cmd, open, tree, output>>

-----------------------------------------------------------------------------
(* active_loop: from set_state(Starting) to Healthy.                       *)

AnnounceStarting ==
  /\ Goto("Launch", "Spawn")
  /\ state' = "Starting"
  /\ UNCHANGED <<config, attempt, sustained, wanted, channel, tree, output>>

SpawnSucceeds(t) ==
  /\ Goto("Spawn", "Record")
  /\ leader[t] = "none" /\ ~workers[t] /\ stdout[t] # "pending"
  /\ held' = t
  /\ leader' = [leader EXCEPT ![t] = "running"]
  /\ stdout' = [stdout EXCEPT ![t] = "quiet"]
  /\ marker' = FALSE
  /\ UNCHANGED <<config, progress, channel, workers, recorded>>

(* The port is taken, the binary is missing, the job cannot be made... *)
SpawnFails ==
  /\ Goto("Spawn", "Decide")
  /\ UNCHANGED <<config, progress, channel, tree, output>>

RecordPid ==
  /\ Goto("Record", "Gate")
  /\ recorded' = held
  /\ UNCHANGED <<config, progress, channel, held, leader, workers, output>>

NeedsPort == config.health \in {"Tcp", "Http"}

(* A TCP or HTTP probe may be answered by anybody who has the port. *)
HealthPasses ==
  /\ Goto("Gate", "Pass")
  /\ config.health = "StdoutMarker" => marker
  /\ NeedsPort => config.port
  /\ UNCHANGED <<config, progress, channel, tree, output>>

(* Defect: the wait for the marker has no deadline. *)
HealthFailsOnProbesOnly ==
  /\ Goto("Gate", "Kill")
  /\ NeedsPort
  /\ UNCHANGED <<config, progress, channel, tree, output>>

(* The deadline elapses, or a probe that needs a port has none. *)
HealthFails ==
  /\ Goto("Gate", "Kill")
  /\ NeedsPort \/ (config.health = "StdoutMarker" /\ ~marker)
  /\ UNCHANGED <<config, progress, channel, tree, output>>

HealthExits ==
  /\ Goto("Gate", "Kill")
  /\ leader[held] = "exited"
  /\ leader' = [leader EXCEPT ![held] = "none"]
  /\ UNCHANGED <<config, progress, channel, held, workers, recorded, output>>

AnnounceHealthy ==
  /\ Goto("Pass", "Monitor")
  /\ state' = "Healthy"
  /\ sustained' = FALSE
  /\ UNCHANGED <<config, attempt, wanted, channel, tree, output>>

(* The healthy run reaches reset_after_secs. *)
SustainElapses ==
  /\ state = "Healthy" /\ ~sustained /\ config.schedule > 0
  /\ sustained' = TRUE
  /\ UNCHANGED <<config, pc, state, attempt, wanted, channel, tree, output>>

-----------------------------------------------------------------------------
(* active_loop: the monitor.                                               *)

ProcessExits ==
  /\ Goto("Monitor", "Exited")
  /\ leader[held] = "exited"
  /\ leader' = [leader EXCEPT ![held] = "none"]
  /\ UNCHANGED <<config, progress, channel, held, workers, recorded, output>>

(* Defect: the entry of the dead process stays in the pid file. *)
ClearExitedKeepsPid ==
  /\ Goto("Exited", "Decide")
  /\ attempt' = IF sustained THEN 0 ELSE attempt
  /\ UNCHANGED <<config, state, sustained, wanted, channel, tree, output>>

(* Defect: any healthy run resets the schedule. *)
ClearExitedResets ==
  /\ Goto("Exited", "Decide")
  /\ recorded' = NoTree
  /\ attempt' = 0
  /\ UNCHANGED <<config, state, sustained, wanted, channel, held, leader,
                 workers, output>>

(* A long healthy run earns a fresh backoff schedule. *)
ClearExited ==
  /\ Goto("Exited", "Decide")
  /\ recorded' = NoTree
  /\ attempt' = IF sustained THEN 0 ELSE attempt
  /\ UNCHANGED <<config, state, sustained, wanted, channel, held, leader,
                 workers, output>>

MonitorStart ==
  /\ pc = "Monitor"
  /\ Receive("Start") /\ AnswerAtOnce
  /\ UNCHANGED <<config, pc, state, attempt, sustained, tree, output>>

(* Defect: the caller is answered before the process is stopped. *)
MonitorStopAcksFirst ==
  /\ Goto("Monitor", "Stop")
  /\ \E op \in {"Stop", "Restart", "Shutdown"} :
       /\ Receive(op)
       /\ call' = [call EXCEPT ![Head(queue)] = "none"]
       /\ cmd' = [op |-> op, from |-> NoCaller]
  /\ UNCHANGED <<config, state, attempt, sustained, tree, output>>

MonitorStop ==
  /\ Goto("Monitor", "Stop")
  /\ \E op \in {"Stop", "Restart", "Shutdown"} : Receive(op) /\ Obey(op)
  /\ UNCHANGED <<config, state, attempt, sustained, tree, output>>

MonitorClosed ==
  /\ Goto("Monitor", "Stop") /\ ChannelClosed
  /\ wanted' = FALSE
  /\ cmd' = [op |-> "drop", from |-> NoCaller]
  /\ UNCHANGED <<config, state, attempt, sustained, queue, call, open, tree,
                 output>>

-----------------------------------------------------------------------------
(* stop_process, and kill_tree after a failed health gate.                 *)

AnnounceStopping ==
  /\ Goto("Stop", IF config.graceful THEN "Grace" ELSE "Kill")
  /\ state' = "Stopping"
  /\ UNCHANGED <<config, attempt, sustained, wanted, channel, tree, output>>

(* The wait for the process to exit, or the end of the grace period. *)
GraceEnds ==
  /\ Goto("Grace", "Kill")
  /\ leader' = IF leader[held] = "exited"
                 THEN [leader EXCEPT ![held] = "none"] ELSE leader
  /\ UNCHANGED <<config, progress, channel, held, workers, recorded, output>>

(* Defect: only the child is killed. *)
KillChildOnly ==
  /\ Goto("Kill", "Clear")
  /\ leader' = [leader EXCEPT ![held] = "none"]
  /\ UNCHANGED <<config, progress, channel, held, workers, recorded, output>>

(* Defect: nothing is killed. *)
KillNothing ==
  /\ Goto("Kill", "Clear")
  /\ UNCHANGED <<config, progress, channel, tree, output>>

(* killpg or the job takes the tree, then the child is reaped. *)
KillTree ==
  /\ Goto("Kill", "Clear")
  /\ leader' = [leader EXCEPT ![held] = "none"]
  /\ workers' = [workers EXCEPT ![held] = FALSE]
  /\ UNCHANGED <<config, progress, channel, held, recorded, output>>

ClearPid ==
  /\ Goto("Clear", IF cmd.op = "none" THEN "Decide" ELSE "Answer")
  /\ recorded' = NoTree
  /\ UNCHANGED <<config, progress, channel, held, leader, workers, output>>

Acknowledged ==
  call' = [c \in Callers |-> IF c = cmd.from THEN "none" ELSE call[c]]

AcknowledgeStop ==
  /\ Goto("Answer", "Stopped")
  /\ cmd.op \in {"Stop", "Shutdown"}
  /\ Acknowledged
  /\ cmd' = [cmd EXCEPT !.from = NoCaller]
  /\ UNCHANGED <<config, progress, queue, open, tree, output>>

AcknowledgeRestart ==
  /\ Goto("Answer", "Retry")
  /\ cmd.op = "Restart"
  /\ Acknowledged
  /\ cmd' = Nothing
  /\ attempt' = 0
  /\ UNCHANGED <<config, state, sustained, wanted, queue, open, tree, output>>

(* The plugin was dropped: nobody to answer, and Stopped is not announced. *)
DropStopped ==
  /\ Goto("Answer", "Quit")
  /\ cmd.op = "drop"
  /\ cmd' = Nothing
  /\ UNCHANGED <<config, progress, queue, call, open, tree, output>>

AnnounceStopped ==
  /\ Goto("Stopped", IF cmd.op = "Stop" THEN "Leave" ELSE "Quit")
  /\ state' = "Stopped"
  /\ cmd' = Nothing
  /\ UNCHANGED <<config, attempt, sustained, wanted, queue, call, open, tree,
                 output>>

-----------------------------------------------------------------------------
(* backoff_or_fail.                                                        *)

(* Defect: the schedule is never exhausted. *)
EnterBackoffAlways ==
  /\ Goto("Decide", "Backoff")
  /\ state' = "Backoff"
  /\ attempt' = attempt + 1
  /\ UNCHANGED <<config, sustained, wanted, channel, tree, output>>

EnterBackoff ==
  /\ Goto("Decide", "Backoff")
  /\ attempt < config.schedule
  /\ state' = "Backoff"
  /\ attempt' = attempt + 1
  /\ UNCHANGED <<config, sustained, wanted, channel, tree, output>>

EnterFailed ==
  /\ Goto("Decide", "Leave")
  /\ attempt >= config.schedule
  /\ state' = "Failed"
  /\ wanted' = FALSE
  /\ UNCHANGED <<config, attempt, sustained, channel, tree, output>>

BackoffElapses ==
  /\ Goto("Backoff", "Retry")
  /\ UNCHANGED <<config, progress, channel, tree, output>>

BackoffStart ==
  /\ Goto("Backoff", "Retry")
  /\ Receive("Start") \/ Receive("Restart")
  /\ AnswerAtOnce
  /\ attempt' = 0
  /\ UNCHANGED <<config, state, sustained, tree, output>>

(* Defect: a stop during the backoff is taken for a start. *)
BackoffStopRetries ==
  /\ Goto("Backoff", "Retry")
  /\ Receive("Stop") /\ AnswerAtOnce
  /\ UNCHANGED <<config, state, attempt, sustained, tree, output>>

BackoffStop ==
  /\ Goto("Backoff", "Stopped")
  /\ Receive("Stop")
  /\ call' = [call EXCEPT ![Head(queue)] = "none"]
  /\ cmd' = [op |-> "Stop", from |-> NoCaller]
  /\ UNCHANGED <<config, state, attempt, sustained, tree, output>>

BackoffShutdown ==
  /\ Goto("Backoff", "Quit")
  /\ Receive("Shutdown") /\ AnswerAtOnce
  /\ UNCHANGED <<config, state, attempt, sustained, tree, output>>

BackoffClosed ==
  /\ Goto("Backoff", "Quit") /\ ChannelClosed
  /\ wanted' = FALSE
  /\ UNCHANGED <<config, state, attempt, sustained, channel, tree, output>>

(* Defect: the job outlives the value that should own it. *)
ReleaseWithoutJob ==
  /\ \/ Goto("Retry", "Launch")
     \/ Goto("Leave", "Idle")
     \/ Goto("Quit", "Return")
  /\ held' = NoTree
  /\ leader' = [t \in Tree |-> IF t = held THEN "none" ELSE leader[t]]
  /\ UNCHANGED <<config, progress, channel, workers, recorded, output>>

(* `spawned` goes out of scope: its job takes what is left of the tree on  *)
(* Windows, kill_on_drop only the child elsewhere.                         *)
Release ==
  /\ \/ Goto("Retry", "Launch")
     \/ Goto("Leave", "Idle")
     \/ Goto("Quit", "Return")
  /\ held' = NoTree
  /\ leader' = [t \in Tree |-> IF t = held THEN "none" ELSE leader[t]]
  /\ workers' = [t \in Tree |->
                   IF t = held /\ config.platform = "windows"
                     THEN FALSE ELSE workers[t]]
  /\ UNCHANGED <<config, progress, channel, recorded, output>>

-----------------------------------------------------------------------------
Users ==
  \/ \E c \in Callers : \/ \E op \in Operation : Call(c, op)
                        \/ Enqueue(c)
                        \/ SendFails(c)
  \/ DropManager

Processes ==
  \E t \in Tree : \/ LeaderExits(t) \/ WorkersStart(t) \/ WorkersExit(t)
                  \/ Prints(t) \/ ReaderMatches(t)

(* cmd_rx.recv() returns *)
Received ==
  \/ IdleStart \/ IdleStop \/ IdleShutdown \/ IdleClosed
  \/ MonitorStart \/ MonitorStop \/ MonitorClosed
  \/ BackoffStart \/ BackoffStop \/ BackoffShutdown \/ BackoffClosed

Task ==
  \/ Received \/ Return
  \/ AnnounceStarting \/ (\E t \in Tree : SpawnSucceeds(t)) \/ SpawnFails
  \/ RecordPid \/ HealthPasses \/ HealthFails \/ HealthExits
  \/ AnnounceHealthy
  \/ ProcessExits \/ ClearExited
  \/ AnnounceStopping \/ GraceEnds \/ KillTree \/ ClearPid
  \/ AcknowledgeStop \/ AcknowledgeRestart \/ DropStopped \/ AnnounceStopped
  \/ EnterBackoff \/ EnterFailed \/ BackoffElapses \/ Release

Next == Users \/ Processes \/ Task \/ SustainElapses

Spec == Init /\ [][Next]_vars

-----------------------------------------------------------------------------
(* Fairness.  The task is scheduled whenever it can step and every wait of *)
(* the code ends, by its event or by its timer.  tokio::select! starts at  *)
(* a random branch, so a command (or a closed channel) that is ready at    *)
(* infinitely many selects is taken at some of them; the slots of the      *)
(* channel are handed out in the order in which the senders came.          *)

Fairness ==
  /\ WF_vars(Task)
  /\ SF_vars(Received)
  /\ \A c \in Callers : SF_vars(Enqueue(c)) /\ WF_vars(SendFails(c))

FairSpec == Spec /\ Fairness

-----------------------------------------------------------------------------
(* Safety.                                                                 *)

(* A running sidecar is always the one the task holds, and from the step   *)
(* after its spawn the pid file names it; the pid file never names a       *)
(* process the task has let go.  This is what the next run of the app      *)
(* relies on to find orphans, and what "respawning here would orphan the   *)
(* old tree" (monitor loop) is afraid of.                                  *)
PidFileTracks ==
  /\ \A t \in Tree : leader[t] = "running" =>
       t = held /\ (recorded = t \/ pc = "Record")
  /\ recorded # NoTree => recorded = held

(* A sidecar shown as down has no process: whoever sees Idle, Backoff,     *)
(* Stopped or Failed can count on it.                                      *)
DownMeansNoProcess ==
  state \in {"Idle", "Backoff", "Stopped", "Failed"} =>
    \A t \in Tree : leader[t] # "running"

(* On Windows the job bounds the life of the tree: what the task does not  *)
(* hold is dead, whichever way it was let go.                              *)
JobContainsTree ==
  config.platform = "windows" => \A t \in Tree : Alive(t) => t = held

(* When stop, restart or shutdown of a running sidecar returns to its      *)
(* caller, no process of the tree is left: neither the one that was        *)
(* spawned nor any child of it (kill_tree before the ack).                 *)
TreeGoneOnReturn ==
  [][\A c \in Callers :
       /\ call[c] \in {"Stop", "Restart", "Shutdown"} /\ call'[c] = "none"
       /\ state = "Stopping" /\ held # NoTree
       => ~Alive(held)]_vars

(* Whatever the stage it was obeyed in, a stop that has returned leaves no *)
(* sidecar running.                                                        *)
StopReturnsDown ==
  [][\A c \in Callers :
       call[c] \in {"Stop", "Shutdown"} /\ call'[c] = "none" =>
         \A t \in Tree : leader'[t] # "running"]_vars

(* The life of a sidecar seen from outside is the one of Lifecycle.        *)
L == INSTANCE Lifecycle WITH
       retries <- config.schedule,
       phase   <- state,
       live    <- \E t \in Tree : leader[t] = "running",
       earned  <- sustained

RefinesLifecycle == L!Spec

-----------------------------------------------------------------------------
(* Liveness.                                                               *)

(* Every call returns, also one that is queued behind a shutdown or sent   *)
(* to a task that has ended, and whatever the process does meanwhile.      *)
EveryCallReturns ==
  \A c \in Callers : call[c] # "none" ~> call[c] = "none"

(* Shutdown ends the task, and so does dropping the manager, in whatever   *)
(* stage or crash loop it finds it.                                        *)
TaskEnds ==
  (~open \/ \E c \in Callers : call[c] = "Shutdown") ~> pc = "Ended"

(* A sidecar that crashes before its healthy runs last reset_after_secs is *)
(* not restarted forever: without further commands the task settles.       *)
CrashLoopEnds ==
  <>[](\A c \in Callers : call[c] = "none") /\ <>[](pc = "Exited" => ~sustained)
    => <>[](pc \in {"Idle", "Monitor", "Ended"})

-----------------------------------------------------------------------------
(* What a comment of the code says and the code does not do.               *)

(* ShutdownPolicy (config.rs): "the entire process tree dies"; no orphans  *)
(* when the sidecar is down.                                               *)
WholeTreeDies == pc = "Ended" => \A t \in Tree : ~Alive(t)
=============================================================================
