------------------------------ MODULE Manager ------------------------------
(***************************************************************************)
(* The manager (runtime/manager.rs) and the supervisors it commands.  A    *)
(* call of its API runs a script: commands it sends to supervisors, each   *)
(* until it is answered, and dependencies it waits for.  start_all spawns  *)
(* a thread of its own for each sidecar; calls of different callers and    *)
(* their threads interleave.                                               *)
(*                                                                         *)
(* The supervisors are those of module Supervisor without their process    *)
(* trees, readers and probes: here is what the manager and its users can   *)
(* tell apart, the order of answers and published states, and when there   *)
(* is a process.  Both implement module Lifecycle.                         *)
(*                                                                         *)
(* There are fewer threads than a command channel has slots (8), so a send *)
(* never waits for one; Supervisor has the full channel.                   *)
(***************************************************************************)
EXTENDS Naturals, Sequences, Functions, Lists

CONSTANTS
  Sidecar,
  DependsOn,   \* of each sidecar, the sequence of its dependencies
  StartOrder,  \* what topo_sort has returned
  Retries,     \* of each sidecar, the length of its backoff schedule
  Callers,     \* concurrent users of the API
  Calls        \* of each, the calls it makes

ASSUME DependsOnAssumption == DependsOn \in [Sidecar -> Seq(Sidecar)]
ASSUME StartOrderAssumption ==
  /\ StartOrder \in Seq(Sidecar) /\ IsInjective(StartOrder)
  /\ Range(StartOrder) = Sidecar
  /\ \A i \in DOMAIN StartOrder :
       Range(DependsOn[StartOrder[i]])
         \subseteq {StartOrder[j] : j \in 1 .. i - 1}
ASSUME RetriesAssumption == Retries \in [Sidecar -> Nat]

Call == [api : {"start", "stop", "restart"}, name : Sidecar]
          \cup [api : {"start_all", "shutdown_all"}]

ASSUME CallsAssumption == Calls \in [Callers -> SUBSET Call]

NoCall == [api |-> "none"]

(* <<c>> is the thread a caller c calls from, <<c, n>> the one its         *)
(* start_all spawns for sidecar n.                                         *)
StartAll == [api |-> "start_all"]

Threads == {<<c>> : c \in Callers}
             \cup {t \in Callers \X Sidecar : StartAll \in Calls[t[1]]}

CallerOf(t) == t[1]

VARIABLES
  call,       \* of each caller, the call it is in
  script,     \* of each thread, what it has still to do
  sent,       \* threads that wait for the answer to the command they sent
  task,       \* where each supervisor task stands
  state,      \* published SidecarState
  running,    \* whether the task has a process
  attempt,    \* how far each backoff schedule is used up
  sustained,  \* whether a healthy run has lasted reset_after_secs
  cmd,        \* the command a task is carrying out, and the thread to answer
  queue,      \* of each command channel, the threads whose command is in it
  published   \* history: states of sidecars since a call that waits for some

api   == <<call, script, sent>>
tasks == <<task, state, running, attempt, sustained, cmd, queue>>
vars  == <<api, tasks, published>>

Operation == {"Start", "Stop", "Restart", "Shutdown"}
Step      == [do : Operation \cup {"await"}, to : Sidecar]

Do(op, n) == [do |-> op, to |-> n]

Stages == {"Idle", "Launch", "Spawn", "Gate", "Monitor", "Exited", "Decide",
           "Backoff", "Stop", "Kill", "Answer", "Stopped", "Ended"}

SidecarState == {"Idle", "Starting", "Healthy", "Backoff", "Stopping",
                 "Stopped", "Failed"}

NoCommand == [op |-> "none"]

TypeOK ==
  /\ call \in [Callers -> Call \cup {NoCall}]
  /\ script \in [Threads -> Seq(Step)]
  /\ sent \subseteq Threads
  /\ \A t \in sent : script[t] # <<>> /\ Head(script[t]).do # "await"
  /\ task \in [Sidecar -> Stages]
  /\ state \in [Sidecar -> SidecarState]
  /\ running \in [Sidecar -> BOOLEAN]
  /\ sustained \in [Sidecar -> BOOLEAN]
  /\ attempt \in [Sidecar -> Nat]
  /\ \A n \in Sidecar : attempt[n] <= Retries[n]
  /\ cmd \in [Sidecar -> [op : Operation, from : Threads] \cup {NoCommand}]
  /\ queue \in [Sidecar -> Seq(Threads)]
  /\ published \in [Callers -> SUBSET (Sidecar \X {"Healthy", "Failed"})]

Init ==
  /\ call = [c \in Callers |-> NoCall]
  /\ script = [t \in Threads |-> <<>>] /\ sent = {}
  /\ task = [n \in Sidecar |-> "Idle"] /\ state = [n \in Sidecar |-> "Idle"]
  /\ running = [n \in Sidecar |-> FALSE]
  /\ attempt = [n \in Sidecar |-> 0]
  /\ sustained = [n \in Sidecar |-> FALSE]
  /\ cmd = [n \in Sidecar |-> NoCommand]
  /\ queue = [n \in Sidecar |-> <<>>]
  /\ published = [c \in Callers |-> {}]

-----------------------------------------------------------------------------
(* What each call does.                                                    *)

(* collect_deps *)
Needed[n \in Sidecar] ==
  Range(DependsOn[n]) \cup UNION {Needed[d] : d \in Range(DependsOn[n])}

(* Defect: start_all does not wait. *)
WaiterScriptAtOnce(n) == <<Do("Start", n)>>

(* Defect: only what the sidecar itself names is started before it. *)
ChainOfDirect(n) == Select(StartOrder, Range(DependsOn[n]) \cup {n})

Chain(n) == Select(StartOrder, Needed[n] \cup {n})

(* Each member is started, and awaited unless it is the last. *)
StartScript(n) ==
  [i \in 1 .. 2 * Len(Chain(n)) - 1 |->
     Do(IF i % 2 = 1 THEN "Start" ELSE "await", Chain(n)[(i + 1) \div 2])]

WaiterScript(n) ==
  [i \in DOMAIN DependsOn[n] |-> Do("await", DependsOn[n][i])]
    \o <<Do("Start", n)>>

(* Defect: sidecars are shut down in the order they are started in. *)
ShutdownScriptForwards ==
  [i \in DOMAIN StartOrder |-> Do("Shutdown", StartOrder[i])]

ShutdownScript ==
  [i \in DOMAIN StartOrder |->
     Do("Shutdown", StartOrder[Len(StartOrder) + 1 - i])]

CallScript(k) ==
  CASE k.api = "start"        -> StartScript(k.name)
    [] k.api = "stop"         -> <<Do("Stop", k.name)>>
    [] k.api = "restart"      -> <<Do("Restart", k.name)>>
    [] k.api = "shutdown_all" -> ShutdownScript
    [] k.api = "start_all"    -> <<>>

(* A call runs in the thread of its caller, but for those start_all spawns. *)
ScriptOf(t, k) ==
  IF Len(t) = 1 THEN CallScript(k)
  ELSE IF k.api = "start_all" THEN WaiterScript(t[2]) ELSE <<>>

Waits(k) == k.api \in {"start", "start_all"}

Invoke(c, k) ==
  /\ call[c] = NoCall
  /\ call' = [call EXCEPT ![c] = k]
  /\ script' = [t \in Threads |->
                  IF CallerOf(t) = c THEN ScriptOf(t, k) ELSE script[t]]
  /\ published' = [published EXCEPT ![c] =
       {e \in Sidecar \X {"Healthy"} : Waits(k) /\ state[e[1]] = e[2]}]
  /\ UNCHANGED <<sent, tasks>>

(* start_all joins its threads before it returns. *)
Return(c) ==
  /\ call[c] # NoCall
  /\ \A t \in Threads : CallerOf(t) = c => script[t] = <<>>
  /\ call' = [call EXCEPT ![c] = NoCall]
  /\ published' = [published EXCEPT ![c] = {}]
  /\ UNCHANGED <<script, sent, tasks>>

Commands(t, n) ==
  /\ script[t] # <<>> /\ Head(script[t]).do # "await"
  /\ Head(script[t]).to = n

Awaits(t, n) == script[t] # <<>> /\ Head(script[t]) = Do("await", n)

Send(t, n) ==
  /\ Commands(t, n) /\ t \notin sent /\ task[n] # "Ended"
  /\ queue' = [queue EXCEPT ![n] = Append(@, t)]
  /\ sent' = sent \cup {t}
  /\ UNCHANGED <<call, script, task, state, running, attempt, sustained, cmd,
                 published>>

(* Defect: shutdown_all waits for the answer of a task that has ended. *)
SendFailsForUsers(t, n) ==
  /\ Commands(t, n) /\ t \notin sent /\ task[n] = "Ended"
  /\ Head(script[t]).do # "Shutdown"
  /\ script' = [script EXCEPT ![t] = Tail(@)]
  /\ UNCHANGED <<call, sent, tasks, published>>

(* The error of a send to an ended task is ignored. *)
SendFails(t, n) ==
  /\ Commands(t, n) /\ t \notin sent /\ task[n] = "Ended"
  /\ script' = [script EXCEPT ![t] = Tail(@)]
  /\ UNCHANGED <<call, sent, tasks, published>>

(* await_healthy, and the loop of a thread of start_all *)
AwaitHealthy(t, n) ==
  /\ Awaits(t, n) /\ state[n] = "Healthy"
  /\ script' = [script EXCEPT ![t] = Tail(@)]
  /\ UNCHANGED <<call, sent, tasks, published>>

(* Defect: whatever is not healthy is taken for a failure. *)
AwaitFailsAtOnce(t, n) ==
  /\ Awaits(t, n) /\ state[n] # "Healthy"
  /\ script' = [script EXCEPT ![t] = <<>>]
  /\ UNCHANGED <<call, sent, tasks, published>>

(* Defect: a failed dependency is waited for. *)
AwaitFailsWhenEnded(t, n) ==
  /\ Awaits(t, n) /\ state[n] # "Healthy"
  /\ task[n] = "Ended"
  /\ script' = [script EXCEPT ![t] = <<>>]
  /\ UNCHANGED <<call, sent, tasks, published>>

(* Defect: the end of the dependency's task is not noticed. *)
AwaitFailsWhenFailed(t, n) ==
  /\ Awaits(t, n) /\ state[n] = "Failed"
  /\ script' = [script EXCEPT ![t] = <<>>]
  /\ UNCHANGED <<call, sent, tasks, published>>

(* The call ends with DependencyFailed, a thread of start_all silently. *)
AwaitFails(t, n) ==
  /\ Awaits(t, n) /\ state[n] # "Healthy"
  /\ state[n] = "Failed" \/ task[n] = "Ended"
  /\ script' = [script EXCEPT ![t] = <<>>]
  /\ UNCHANGED <<call, sent, tasks, published>>

-----------------------------------------------------------------------------
(* The supervisor of sidecar n.                                            *)

Goto(n, from, to) == task[n] = from /\ task' = [task EXCEPT ![n] = to]

Publish(n, s) ==
  /\ state' = [state EXCEPT ![n] = s]
  /\ published' = [c \in Callers |->
       IF s \in {"Healthy", "Failed"} /\ Waits(call[c])
         THEN published[c] \cup {<<n, s>>} ELSE published[c]]

Receive(n, op) ==
  /\ queue[n] # <<>> /\ Head(script[Head(queue[n])]).do = op
  /\ queue' = [queue EXCEPT ![n] = Tail(@)]

Answer(ts) ==
  /\ sent' = sent \ ts
  /\ script' = [t \in Threads |->
                  IF t \in ts THEN Tail(script[t]) ELSE script[t]]
  /\ UNCHANGED call

AnswerAtOnce(n) == Answer({Head(queue[n])})

Start(n) ==
  /\ task[n] \in {"Idle", "Backoff"} /\ task' = [task EXCEPT ![n] = "Launch"]
  /\ Receive(n, "Start") \/ Receive(n, "Restart")
  /\ AnswerAtOnce(n)
  /\ attempt' = [attempt EXCEPT ![n] = 0]
  /\ UNCHANGED <<state, running, sustained, cmd, published>>

(* Nothing to start in the monitor, nothing to stop in run. *)
Ignore(n) ==
  /\ \/ task[n] = "Monitor" /\ Receive(n, "Start")
     \/ task[n] = "Idle" /\ Receive(n, "Stop")
  /\ AnswerAtOnce(n)
  /\ UNCHANGED <<task, state, running, attempt, sustained, cmd, published>>

StopMonitored(n) ==
  /\ Goto(n, "Monitor", "Stop")
  /\ \E op \in {"Stop", "Restart", "Shutdown"} :
       /\ Receive(n, op)
       /\ cmd' = [cmd EXCEPT ![n] = [op |-> op, from |-> Head(queue[n])]]
  /\ UNCHANGED <<api, state, running, attempt, sustained, published>>

StopInBackoff(n) ==
  /\ Goto(n, "Backoff", "Stopped")
  /\ Receive(n, "Stop")
  /\ cmd' = [cmd EXCEPT ![n] = [op |-> "Stop", from |-> Head(queue[n])]]
  /\ AnswerAtOnce(n)
  /\ UNCHANGED <<state, running, attempt, sustained, published>>

(* Defect: a shutdown during the backoff is taken for a stop. *)
ShutdownEndsIdleOnly(n) ==
  /\ task[n] \in {"Idle", "Backoff"}
  /\ task' = [task EXCEPT ![n] = IF @ = "Idle" THEN "Ended" ELSE "Idle"]
  /\ queue[n] # <<>> /\ Head(script[Head(queue[n])]).do = "Shutdown"
  /\ queue' = [queue EXCEPT ![n] = <<>>]
  /\ Answer(Range(queue[n]))
  /\ UNCHANGED <<state, running, attempt, sustained, cmd, published>>

(* The task ends without publishing anything.  Its end drops the channel,  *)
(* and with it the acks of the commands that are still in it.              *)
Shutdown(n) ==
  /\ task[n] \in {"Idle", "Backoff"} /\ task' = [task EXCEPT ![n] = "Ended"]
  /\ queue[n] # <<>> /\ Head(script[Head(queue[n])]).do = "Shutdown"
  /\ queue' = [queue EXCEPT ![n] = <<>>]
  /\ Answer(Range(queue[n]))
  /\ UNCHANGED <<state, running, attempt, sustained, cmd, published>>

AnnounceStarting(n) ==
  /\ Goto(n, "Launch", "Spawn")
  /\ Publish(n, "Starting")
  /\ UNCHANGED <<api, running, attempt, sustained, cmd, queue>>

Spawn(n) ==
  /\ Goto(n, "Spawn", "Gate")
  /\ running' = [running EXCEPT ![n] = TRUE]
  /\ UNCHANGED <<api, state, attempt, sustained, cmd, queue, published>>

(* The spawn fails, or the health gate, after which the tree is killed. *)
SpawnOrGateFails(n) ==
  /\ Goto(n, "Spawn", "Decide") \/ Goto(n, "Gate", "Decide")
  /\ running' = [running EXCEPT ![n] = FALSE]
  /\ UNCHANGED <<api, state, attempt, sustained, cmd, queue, published>>

AnnounceHealthy(n) ==
  /\ Goto(n, "Gate", "Monitor")
  /\ Publish(n, "Healthy")
  /\ sustained' = [sustained EXCEPT ![n] = FALSE]
  /\ UNCHANGED <<api, running, attempt, cmd, queue>>

SustainElapses(n) ==
  /\ task[n] = "Monitor" /\ ~sustained[n] /\ Retries[n] > 0
  /\ sustained' = [sustained EXCEPT ![n] = TRUE]
  /\ UNCHANGED <<api, task, state, running, attempt, cmd, queue, published>>

(* The process exits.  One that is being stopped is killed anyway. *)
Crashes(n) ==
  /\ Goto(n, "Monitor", "Exited")
  /\ running' = [running EXCEPT ![n] = FALSE]
  /\ UNCHANGED <<api, state, attempt, sustained, cmd, queue, published>>

(* Defect: any healthy run resets the schedule. *)
ForgiveAlways(n) ==
  /\ Goto(n, "Exited", "Decide")
  /\ attempt' = [attempt EXCEPT ![n] = 0]
  /\ UNCHANGED <<api, state, running, sustained, cmd, queue, published>>

(* A long healthy run earns a fresh backoff schedule. *)
Forgive(n) ==
  /\ Goto(n, "Exited", "Decide")
  /\ attempt' = [attempt EXCEPT ![n] = IF sustained[n] THEN 0 ELSE @]
  /\ UNCHANGED <<api, state, running, sustained, cmd, queue, published>>

(* Defect: the schedule is never exhausted. *)
EnterBackoffAlways(n) ==
  /\ Goto(n, "Decide", "Backoff")
  /\ attempt' = [attempt EXCEPT ![n] = @ + 1]
  /\ Publish(n, "Backoff")
  /\ UNCHANGED <<api, running, sustained, cmd, queue>>

EnterBackoff(n) ==
  /\ Goto(n, "Decide", "Backoff")
  /\ attempt[n] < Retries[n]
  /\ attempt' = [attempt EXCEPT ![n] = @ + 1]
  /\ Publish(n, "Backoff")
  /\ UNCHANGED <<api, running, sustained, cmd, queue>>

EnterFailed(n) ==
  /\ Goto(n, "Decide", "Idle")
  /\ attempt[n] >= Retries[n]
  /\ Publish(n, "Failed")
  /\ UNCHANGED <<api, running, attempt, sustained, cmd, queue>>

BackoffElapses(n) ==
  /\ Goto(n, "Backoff", "Launch")
  /\ UNCHANGED <<api, state, running, attempt, sustained, cmd, queue,
                 published>>

AnnounceStopping(n) ==
  /\ Goto(n, "Stop", "Kill")
  /\ Publish(n, "Stopping")
  /\ UNCHANGED <<api, running, attempt, sustained, cmd, queue>>

Kill(n) ==
  /\ Goto(n, "Kill", "Answer")
  /\ running' = [running EXCEPT ![n] = FALSE]
  /\ UNCHANGED <<api, state, attempt, sustained, cmd, queue, published>>

AcknowledgeStop(n) ==
  /\ Goto(n, "Answer", "Stopped")
  /\ cmd[n].op # "Restart"
  /\ Answer({cmd[n].from})
  /\ UNCHANGED <<state, running, attempt, sustained, cmd, queue, published>>

AcknowledgeRestart(n) ==
  /\ Goto(n, "Answer", "Launch")
  /\ cmd[n].op = "Restart"
  /\ Answer({cmd[n].from})
  /\ attempt' = [attempt EXCEPT ![n] = 0]
  /\ cmd' = [cmd EXCEPT ![n] = NoCommand]
  /\ UNCHANGED <<state, running, sustained, queue, published>>

AnnounceStopped(n) ==
  /\ Goto(n, "Stopped", "Idle")
  /\ cmd[n].op = "Stop"
  /\ Publish(n, "Stopped")
  /\ cmd' = [cmd EXCEPT ![n] = NoCommand]
  /\ UNCHANGED <<api, running, attempt, sustained, queue>>

(* The task ends here too. *)
AnnounceShutdown(n) ==
  /\ Goto(n, "Stopped", "Ended")
  /\ cmd[n].op = "Shutdown"
  /\ Publish(n, "Stopped")
  /\ cmd' = [cmd EXCEPT ![n] = NoCommand]
  /\ queue' = [queue EXCEPT ![n] = <<>>]
  /\ Answer(Range(queue[n]))
  /\ UNCHANGED <<running, attempt, sustained>>

-----------------------------------------------------------------------------
Received(n) ==
  Start(n) \/ Ignore(n) \/ StopMonitored(n) \/ StopInBackoff(n) \/ Shutdown(n)

Supervise(n) ==
  \/ Received(n)
  \/ AnnounceStarting(n) \/ Spawn(n) \/ SpawnOrGateFails(n)
  \/ AnnounceHealthy(n) \/ Forgive(n)
  \/ EnterBackoff(n) \/ EnterFailed(n) \/ BackoffElapses(n)
  \/ AnnounceStopping(n) \/ Kill(n)
  \/ AcknowledgeStop(n) \/ AcknowledgeRestart(n)
  \/ AnnounceStopped(n) \/ AnnounceShutdown(n)

Proceed(t) ==
  \E n \in Sidecar : \/ Send(t, n) \/ SendFails(t, n)
                     \/ AwaitHealthy(t, n) \/ AwaitFails(t, n)

Next ==
  \/ \E c \in Callers : Return(c) \/ \E k \in Calls[c] : Invoke(c, k)
  \/ \E t \in Threads : Proceed(t)
  \/ \E n \in Sidecar : Supervise(n) \/ SustainElapses(n) \/ Crashes(n)

Spec == Init /\ [][Next]_vars

(* Tasks and threads are scheduled, but a healthy process need never exit; *)
(* a command that is ready at infinitely many selects is taken at some of  *)
(* them.                                                                   *)
Fairness ==
  /\ \A n \in Sidecar : WF_vars(Supervise(n)) /\ SF_vars(Received(n))
  /\ \A t \in Threads : WF_vars(Proceed(t))
  /\ \A c \in Callers : WF_vars(Return(c))

FairSpec == Spec /\ Fairness

-----------------------------------------------------------------------------
(* A sidecar is told to start only after each of its dependencies has been *)
(* healthy since the call began ("Dependents only start once a sidecar is  *)
(* healthy"), whatever crashes, stops and restarts go on meanwhile.        *)
StartedAfterDependencies ==
  [][\A t \in sent' \ sent : Head(script[t]).do = "Start" =>
       \A d \in Range(DependsOn[Head(script[t]).to]) :
         <<d, "Healthy">> \in published[CallerOf(t)]]_vars

(* shutdown_all: once a sidecar has been told to end, no sidecar that      *)
(* depends on it has a process or will get one, however starts and crash   *)
(* restarts of that dependent race with the shutdown.                      *)
Ending(n) == task[n] = "Ended" \/ cmd[n].op = "Shutdown"

DependentsDownFirst ==
  \A n \in Sidecar : \A d \in Range(DependsOn[n]) :
    Ending(d) => Ending(n) /\ ~running[n]

(* When shutdown_all returns, no sidecar runs and none can be started.     *)
ShutdownIsFinal ==
  [][\A c \in Callers :
       call[c].api = "shutdown_all" /\ call'[c] = NoCall =>
         \A n \in Sidecar : ~running[n] /\ Ending(n)]_vars

(* Every supervisor of the fleet lives the life Lifecycle allows, as the   *)
(* detailed one of module Supervisor does, whatever calls of the manager   *)
(* cross.                                                                  *)
Wanted(n) ==
  \/ task[n] \in {"Launch", "Spawn", "Gate", "Monitor", "Exited", "Decide",
                  "Backoff"}
  \/ task[n] \in {"Stop", "Kill", "Answer"} /\ cmd[n].op = "Restart"

L(n) == INSTANCE Lifecycle WITH
          retries <- Retries[n],
          phase   <- state[n],
          wanted  <- Wanted(n),
          live    <- running[n],
          attempt <- attempt[n],
          earned  <- sustained[n]

FleetLives ==
  /\ \A n \in Sidecar : L(n)!Init
  /\ [][\A n \in Sidecar : [L(n)!Next]_(L(n)!vars)]_vars

-----------------------------------------------------------------------------
(* shutdown_all ends every wait of every other call, also of one that      *)
(* waits for a sidecar that is never started.                              *)
ShutdownEndsWaits ==
  \A t \in Threads :
    script[t] # <<>> /\ (\E c \in Callers : call[c].api = "shutdown_all")
      ~> script[t] = <<>>

(* Without failures and other commands, start_all gets every sidecar       *)
(* healthy.                                                                *)
StartAllStarts ==
  [](\A n \in Sidecar : state[n] \notin {"Backoff", "Failed"})
    /\ [](\A c \in Callers : call[c].api \in {"none", "start", "start_all"})
  => \A c \in Callers : call[c].api = "start_all"
       ~> \A n \in Sidecar : state[n] = "Healthy"

(* Once nobody calls any more and no sidecar crashes forever, every call   *)
(* has returned but those that wait for a sidecar nobody has started, or   *)
(* somebody has stopped.                                                   *)
WaitsEnd ==
  /\ <>[][\A c \in Callers : call[c] = NoCall => call'[c] = NoCall]_vars
  /\ <>[](\A n \in Sidecar : state[n] # "Backoff")
  => <>[](\A t \in Threads : script[t] # <<>> =>
            \E n \in Sidecar :
              Awaits(t, n) /\ state[n] \in {"Idle", "Stopped"})

-----------------------------------------------------------------------------
(* DependencyFailed (error.rs): "dependency `dep` failed; not starting     *)
(* `name`": a wait that ends with it (manager.rs, start and await_healthy) *)
(* has a dependency that has failed since the call began.                  *)
FailureIsFresh ==
  [][\A t \in Threads, n \in Sidecar :
       AwaitFails(t, n) /\ task[n] # "Ended" =>
         <<n, "Failed">> \in published[CallerOf(t)]]_vars
=============================================================================
