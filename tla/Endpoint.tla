------------------------------ MODULE Endpoint ------------------------------
(***************************************************************************)
(* Where one sidecar can be reached: the port that spawn_once picks        *)
(* (platform/ports.rs), the environment that tells the process of it, the  *)
(* probes and the shutdown hook that connect to it (infra/health.rs), and  *)
(* the callers that read it back, together with the published state        *)
(* (manager.rs, commands.rs).                                              *)
(*                                                                         *)
(* The supervisor is the one of module Supervisor with its port and its    *)
(* probes spelled out, and with a single caller at a time.  Ports are      *)
(* shared with other programs, other sidecars among them, and with what    *)
(* earlier processes of this one have left behind.                         *)
(***************************************************************************)
EXTENDS Naturals

CONSTANTS
  Port,       \* the ports of 127.0.0.1
  FixedPort,  \* the one of PortStrategy::Fixed
  NoPort,
  Configs     \* the configurations to start from

ASSUME PortAssumption ==
  /\ FixedPort \in Port /\ NoPort # "unread"
  /\ Port \cap {NoPort, "unread", "unset", "preset"} = {}

SidecarConfig ==
  [port   : {"none", "fixed", "dynamic"},
   health : {"Immediate", "Tcp", "Http"},
   hook   : BOOLEAN,  \* GracefulShutdown::HttpPost
   preset : BOOLEAN,  \* env sets the variable of the port
   auth   : {"none", "given", "generated"},
   unix   : BOOLEAN]

ASSUME ConfigsAssumption == Configs \subseteq SidecarConfig

(* Variables of the environment that nobody sets, or the app. *)
Unset  == "unset"
Preset == "preset"
Nothing == [port |-> Unset, token |-> Unset]

Token   == {"given", "generated"}
NoToken == "no token"

VARIABLES
  config,
  token,     \* SupervisorHandle.token, drawn or given at launch
  stage,     \* where the task stands
  event,     \* the last state sent to the sink
  state,     \* the state in the watch channel
  cell,      \* SupervisorHandle.port
  up,        \* the spawned process runs
  told,      \* what its environment says of port and token
  listener,  \* who accepts connections on each port
  peer,      \* who accepted the last connection of the task to its process
  waiting,   \* the task waits for an answer over that connection
  call,      \* the command a caller waits for; "started": its start returned
  status     \* what a call of the status command has read so far

setup == <<config, token>>
task == <<stage, event, state, cell>>
net  == <<up, told, listener, peer, waiting>>
vars == <<setup, task, net, call, status>>

Stages == {"Idle", "Launch", "Allocate", "Spawn", "Gate", "Ready", "Monitor",
           "Decide", "Backoff", "Stop", "Hook", "Kill", "Stopped"}

SidecarState == {"Idle", "Starting", "Healthy", "Backoff", "Stopping",
                 "Stopped", "Failed"}

Servers == {"sidecar", "leftover", "other"}

Unread == [state |-> "unread", port |-> "unread"]

TypeOK ==
  /\ config \in Configs /\ token \in Token \cup {NoToken}
  /\ stage \in Stages /\ event \in SidecarState /\ state \in SidecarState
  /\ cell \in Port \cup {NoPort}
  /\ up \in BOOLEAN
  /\ told \in [port : Port \cup {Unset, Preset}, token : Token \cup {Unset}]
  /\ listener \in [Port -> Servers \cup {"nobody"}]
  /\ peer \in Servers \cup {"nobody"} /\ waiting \in BOOLEAN
  /\ call \in {"none", "Start", "Stop", "Restart", "started"}
  /\ status \in [state : SidecarState \cup {"unread"},
                 port  : Port \cup {NoPort, "unread"}]

Init ==
  /\ config \in Configs
  /\ token = IF config.auth = "none" THEN NoToken ELSE config.auth
  /\ stage = "Idle" /\ event = "Idle" /\ state = "Idle" /\ cell = NoPort
  /\ up = FALSE /\ told = Nothing /\ peer = "nobody" /\ waiting = FALSE
  /\ listener \in [Port -> {"nobody", "other"}]
  /\ call = "none" /\ status = Unread

-----------------------------------------------------------------------------
(* The users: start, stop and restart of the manager, one at a time, and   *)
(* the status command, which reads the state and then the port.            *)

Call(op) ==
  /\ call = "none" /\ call' = op
  /\ UNCHANGED <<setup, task, net, status>>

(* manager.port() after manager.start() *)
ReadPort ==
  /\ call = "started" /\ call' = "none"
  /\ UNCHANGED <<setup, task, net, status>>

StatusState ==
  /\ status.state = "unread"
  /\ status' = [status EXCEPT !.state = state]
  /\ UNCHANGED <<setup, task, net, call>>

(* Defect: the port may be read first. *)
StatusPortFirst ==
  /\ status.port = "unread"
  /\ status' = [status EXCEPT !.port = cell]
  /\ UNCHANGED <<setup, task, net, call>>

StatusPort ==
  /\ status.state # "unread" /\ status.port = "unread"
  /\ status' = [status EXCEPT !.port = cell]
  /\ UNCHANGED <<setup, task, net, call>>

StatusReturns ==
  /\ status.state # "unread" /\ status.port # "unread"
  /\ status' = Unread
  /\ UNCHANGED <<setup, task, net, call>>

-----------------------------------------------------------------------------
(* The world: the process, what is left of it, and other programs.         *)

Freed(server) ==
  [p \in Port |-> IF listener[p] = server THEN "nobody" ELSE listener[p]]

Listens ==
  /\ up /\ told.port \in Port /\ listener[told.port] = "nobody"
  /\ listener' = [listener EXCEPT ![told.port] = "sidecar"]
  /\ UNCHANGED <<setup, task, up, told, peer, waiting, call, status>>

(* Its children may go on listening. *)
ProcessExits ==
  /\ up /\ up' = FALSE
  /\ listener' \in {listener, Freed("sidecar")}
  /\ UNCHANGED <<setup, task, told, peer, waiting, call, status>>

Leaves(server) ==
  /\ \E p \in Port : listener[p] = server
  /\ listener' = Freed(server)
  /\ UNCHANGED <<setup, task, up, told, peer, waiting, call, status>>

OtherListens(p) ==
  /\ listener[p] = "nobody"
  /\ listener' = [listener EXCEPT ![p] = "other"]
  /\ UNCHANGED <<setup, task, up, told, peer, waiting, call, status>>

-----------------------------------------------------------------------------
(* The task.  set_state tells the sink first and the watch channel then,   *)
(* before the task does anything else.                                     *)

Goto(from, to) == state = event /\ stage = from /\ stage' = to

Publish(s) == event' = s /\ UNCHANGED state

Settle ==
  /\ state # event /\ state' = event
  /\ UNCHANGED <<setup, stage, event, cell, net, call, status>>

Acknowledge == call' = IF call = "Start" THEN "started" ELSE "none"

Start ==
  /\ Goto("Idle", "Launch") \/ Goto("Backoff", "Launch")
  /\ call \in {"Start", "Restart"} /\ Acknowledge
  /\ UNCHANGED <<setup, event, state, cell, net, status>>

(* Nothing to start in the monitor, nothing to stop in run. *)
Ignore ==
  /\ \/ Goto("Monitor", "Monitor") /\ call = "Start"
     \/ Goto("Idle", "Idle") /\ call = "Stop"
  /\ Acknowledge
  /\ UNCHANGED <<setup, event, state, cell, net, status>>

StopInBackoff ==
  /\ Goto("Backoff", "Stopped")
  /\ call = "Stop" /\ Acknowledge
  /\ UNCHANGED <<setup, event, state, cell, net, status>>

StopMonitored ==
  /\ Goto("Monitor", "Stop")
  /\ call \in {"Stop", "Restart"}
  /\ UNCHANGED <<setup, event, state, cell, net, call, status>>

(* The handle of the last process is dropped by now: on Windows its job    *)
(* has closed, on Unix its children are on their own.                      *)
AnnounceStarting ==
  /\ Goto("Launch", "Allocate")
  /\ Publish("Starting")
  /\ listener' = [p \in Port |->
       IF listener[p] # "sidecar" THEN listener[p]
       ELSE IF config.unix THEN "leftover" ELSE "nobody"]
  /\ told' = Nothing /\ peer' = "nobody"
  /\ UNCHANGED <<setup, cell, up, waiting, call, status>>

(* Defect: the port of the last process is used again. *)
AllocatableOnce ==
  CASE config.port = "none"    -> {NoPort}
    [] config.port = "dynamic" -> IF cell # NoPort THEN {cell} ELSE
                                    {p \in Port : listener[p] = "nobody"}
    [] config.port = "fixed"   ->
         {FixedPort} \cap {p \in Port : listener[p] = "nobody"}

(* The ports that spawn_once can choose; none of them is its error. *)
Allocatable ==
  CASE config.port = "none"    -> {NoPort}
    [] config.port = "dynamic" -> {p \in Port : listener[p] = "nobody"}
    [] config.port = "fixed"   ->
         {FixedPort} \cap {p \in Port : listener[p] = "nobody"}

Allocate ==
  /\ Goto("Allocate", "Spawn")
  /\ cell' \in Allocatable
  /\ UNCHANGED <<setup, event, state, net, call, status>>

AllocateFails ==
  /\ Goto("Allocate", "Decide")
  /\ Allocatable = {}
  /\ UNCHANGED <<setup, event, state, cell, net, call, status>>

(* Defect: what the app sets in env has the last word. *)
EnvironmentPresets ==
  [port  |-> IF config.preset THEN Preset
             ELSE IF config.port # "none" THEN cell ELSE Unset,
   token |-> IF token # NoToken THEN token ELSE Unset]

(* Defect: the variables are set also to nothing. *)
EnvironmentAlways == [port |-> cell, token |-> token]

(* The variables of port and token are set after those of env. *)
Environment ==
  [port  |-> IF config.port # "none" THEN cell
             ELSE IF config.preset THEN Preset ELSE Unset,
   token |-> IF token # NoToken THEN token ELSE Unset]

Spawn ==
  /\ Goto("Spawn", "Gate")
  /\ up' = TRUE /\ told' = Environment
  /\ UNCHANGED <<setup, event, state, cell, listener, peer, waiting, call,
                 status>>

SpawnFails ==
  /\ Goto("Spawn", "Decide")
  /\ UNCHANGED <<setup, event, state, cell, net, call, status>>

(* A connect to the port succeeds.  That is all a TCP probe asks for; an   *)
(* HTTP request waits for its answer.                                      *)
Connects(from, to) ==
  /\ ~waiting /\ cell # NoPort
  /\ listener[cell] # "nobody" /\ peer' = listener[cell]
  /\ IF to = from THEN Goto(from, from) /\ waiting' = TRUE
                  ELSE Goto(from, to) /\ waiting' = FALSE
  /\ UNCHANGED <<setup, event, state, cell, up, told, listener, call, status>>

NeedsNoProbe ==
  /\ Goto("Gate", "Ready")
  /\ config.health = "Immediate"
  /\ UNCHANGED <<setup, event, state, cell, net, call, status>>

ProbeTcp  == config.health = "Tcp" /\ Connects("Gate", "Ready")
ProbeHttp == config.health = "Http" /\ Connects("Gate", "Gate")

(* 2xx.  Anyone may give it. *)
ProbeAnswered ==
  /\ Goto("Gate", "Ready")
  /\ waiting /\ waiting' = FALSE
  /\ UNCHANGED <<setup, event, state, cell, up, told, listener, peer, call,
                 status>>

(* Another answer, a closed connection, or none in time: the probe is      *)
(* repeated.                                                               *)
ProbeEnds ==
  /\ Goto("Gate", "Gate")
  /\ waiting /\ waiting' = FALSE
  /\ UNCHANGED <<setup, event, state, cell, up, told, listener, peer, call,
                 status>>

(* Defect: the probes have no deadline. *)
GateFailsOnExit ==
  /\ Goto("Gate", "Decide")
  /\ ~up \/ cell = NoPort
  /\ up' = FALSE /\ listener' = Freed("sidecar") /\ waiting' = FALSE
  /\ UNCHANGED <<setup, event, state, cell, told, peer, call, status>>

(* The deadline passes, the process exits, or there is no port to probe;   *)
(* the tree is killed.                                                     *)
GateFails ==
  /\ Goto("Gate", "Decide")
  /\ config.health # "Immediate" \/ ~up
  /\ up' = FALSE /\ listener' = Freed("sidecar") /\ waiting' = FALSE
  /\ UNCHANGED <<setup, event, state, cell, told, peer, call, status>>

AnnounceHealthy ==
  /\ Goto("Ready", "Monitor")
  /\ Publish("Healthy")
  /\ UNCHANGED <<setup, cell, net, call, status>>

NoticeExit ==
  /\ Goto("Monitor", "Decide")
  /\ ~up
  /\ UNCHANGED <<setup, event, state, cell, net, call, status>>

(* The schedule is the business of Supervisor. *)
EnterBackoff ==
  /\ Goto("Decide", "Backoff")
  /\ Publish("Backoff")
  /\ UNCHANGED <<setup, cell, net, call, status>>

EnterFailed ==
  /\ Goto("Decide", "Idle")
  /\ Publish("Failed")
  /\ UNCHANGED <<setup, cell, net, call, status>>

BackoffElapses ==
  /\ Goto("Backoff", "Launch")
  /\ UNCHANGED <<setup, event, state, cell, net, call, status>>

AnnounceStopping ==
  /\ Goto("Stop", IF config.hook /\ cell # NoPort THEN "Hook" ELSE "Kill")
  /\ Publish("Stopping")
  /\ UNCHANGED <<setup, cell, net, call, status>>

HookConnects == Connects("Hook", "Hook")

(* Defect: the answer to the hook is waited for as long as it takes. *)
HookEndsUnlessWaiting ==
  /\ Goto("Hook", "Kill")
  /\ ~waiting
  /\ UNCHANGED <<setup, event, state, cell, net, call, status>>

(* Nobody accepts, the answer comes, or it does not come in time. *)
HookEnds ==
  /\ Goto("Hook", "Kill")
  /\ waiting' = FALSE
  /\ UNCHANGED <<setup, event, state, cell, up, told, listener, peer, call,
                 status>>

(* The grace period ends, the tree is killed and the command answered. *)
Kill ==
  /\ Goto("Kill", IF call = "Restart" THEN "Launch" ELSE "Stopped")
  /\ up' = FALSE /\ listener' = Freed("sidecar")
  /\ Acknowledge
  /\ UNCHANGED <<setup, event, state, cell, told, peer, waiting, status>>

AnnounceStopped ==
  /\ Goto("Stopped", "Idle")
  /\ Publish("Stopped")
  /\ UNCHANGED <<setup, cell, net, call, status>>

-----------------------------------------------------------------------------
Received == Start \/ Ignore \/ StopInBackoff \/ StopMonitored

Gate == \/ NeedsNoProbe \/ ProbeTcp \/ ProbeHttp \/ ProbeAnswered \/ ProbeEnds
        \/ GateFails

Task ==
  \/ Settle \/ Received
  \/ AnnounceStarting \/ Allocate \/ AllocateFails \/ Spawn \/ SpawnFails
  \/ Gate \/ AnnounceHealthy
  \/ NoticeExit \/ EnterBackoff \/ EnterFailed \/ BackoffElapses
  \/ AnnounceStopping \/ HookConnects \/ HookEnds \/ Kill \/ AnnounceStopped

Users ==
  \/ \E op \in {"Start", "Stop", "Restart"} : Call(op)
  \/ ReadPort \/ StatusState \/ StatusPort \/ StatusReturns

World ==
  \/ Listens \/ ProcessExits
  \/ \E server \in Servers : Leaves(server)
  \/ \E p \in Port : OtherListens(p)

Next == Users \/ Task \/ World

Spec == Init /\ [][Next]_vars

(* The task is scheduled, its timers fire, and select! takes a command     *)
(* that is ready again and again.  Nobody has to answer, listen or exit.   *)
Fairness ==
  /\ WF_vars(Settle) /\ SF_vars(Received)
  /\ WF_vars(AnnounceStarting)
  /\ WF_vars(Allocate \/ AllocateFails) /\ WF_vars(Spawn \/ SpawnFails)
  /\ WF_vars(GateFails) /\ WF_vars(AnnounceHealthy)
  /\ WF_vars(NoticeExit) /\ WF_vars(EnterBackoff \/ EnterFailed)
  /\ WF_vars(NeedsNoProbe)
  /\ WF_vars(AnnounceStopping) /\ WF_vars(HookEnds)
  /\ WF_vars(Kill) /\ WF_vars(AnnounceStopped)

FairSpec == Spec /\ Fairness

-----------------------------------------------------------------------------
(* The port a process was told, whatever env says, is the one that callers *)
(* read and that the probes and the hook connect to, and its token the one *)
(* auth_token returns, across crashes, failed spawns and restarts.         *)
EnvironmentAgrees ==
  up => /\ config.port # "none" => told.port = cell
        /\ config.auth # "none" => told.token = token

(* "A crashed sidecar may leave its old port" (spawn_once): neither a probe *)
(* nor the hook ever reaches what an earlier process has left behind, so   *)
(* a sidecar does not turn healthy by its predecessor's answers.           *)
NoStaleServer == peer # "leftover"

(* A status of Healthy comes with a port if there is to be one, although   *)
(* the two are read one after the other while the task goes on.            *)
StatusHasPort ==
  status.state = "Healthy" /\ config.port # "none" => status.port # NoPort

(* A server that accepts and never answers, or answers again and again     *)
(* with an error, does not hold up the gate for ever.                      *)
GateEnds == stage = "Gate" ~> stage # "Gate"

(* Nor does one that accepts the shutdown hook hold up a stop.             *)
StopEnds == call = "Stop" ~> call # "Stop"

-----------------------------------------------------------------------------
(* README.md, "Rust-side control: start on demand, inspect state, and      *)
(* forward the allocated port": its example reads the port as soon as      *)
(* start has returned, and takes it for the allocated one.                 *)
PortAfterStart ==
  [][call = "started" /\ call' = "none" =>
       (config.port # "none" => cell # NoPort)]_vars
=============================================================================
