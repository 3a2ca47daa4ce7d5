--------------------------- MODULE ManagerProofs ---------------------------
(***************************************************************************)
(* Proofs about Manager in an app (Plugin), for any sidecars, dependencies *)
(* among them, callers and calls.                                          *)
(***************************************************************************)
EXTENDS Plugin, ScriptProofs, SequenceTheorems, TLAPS

-----------------------------------------------------------------------------
(* The invariant of the fleet, by its parts.                               *)

TaskTypes ==
  /\ task \in [Sidecar -> Stages]
  /\ state \in [Sidecar -> SidecarState]
  /\ running \in [Sidecar -> BOOLEAN]
  /\ sustained \in [Sidecar -> BOOLEAN]
  /\ attempt \in [Sidecar -> Nat]
  /\ \A n \in Sidecar : attempt[n] <= Retries[n]
  /\ cmd \in [Sidecar -> [op : Operation, from : Threads] \cup {NoCommand}]

ApiTypes ==
  /\ call \in [Callers -> Call \cup {NoCall}]
  /\ script \in [Threads -> Seq(Step)]
  /\ sent \subseteq Threads
  /\ \A t \in sent : script[t] # <<>> /\ Head(script[t]).do # "await"
  /\ queue \in [Sidecar -> Seq(Threads)]
  /\ published \in [Callers -> SUBSET (Sidecar \X {"Healthy", "Failed"})]

(* What belongs to each stage of a supervisor task. *)
StageInv ==
  \A n \in Sidecar :
    /\ running[n] => task[n] \in {"Gate", "Monitor", "Stop", "Kill"}
    /\ task[n] = "Idle" => state[n] \in {"Idle", "Stopped", "Failed"}
    /\ task[n] = "Launch" => state[n] \notin {"Starting", "Healthy"}
    /\ task[n] \in {"Spawn", "Gate"} => state[n] = "Starting"
    /\ task[n] \in {"Monitor", "Exited", "Stop"} => state[n] = "Healthy"
    /\ task[n] = "Decide" => state[n] \in {"Starting", "Healthy"}
    /\ task[n] = "Backoff" => state[n] = "Backoff"
    /\ task[n] \in {"Kill", "Answer"} => state[n] = "Stopping"
    /\ task[n] = "Stopped" => /\ state[n] \in {"Stopping", "Backoff"}
                              /\ cmd[n].op \in {"Stop", "Shutdown"}
    /\ task[n] \in {"Stop", "Kill", "Answer"} =>
         cmd[n].op \in {"Stop", "Restart", "Shutdown"}
    /\ \/ task[n] \in {"Stop", "Kill", "Answer", "Stopped"}
       \/ cmd[n] = NoCommand

(* The task carries out a command that it has not answered. *)
Obeyed(n) == task[n] \in {"Stop", "Kill", "Answer"}

(* Whoever is in a channel, once, or has its command carried out waits for *)
(* the answer, with that command at the head of its script.                *)
Waiting(n) ==
  /\ \A t \in Range(queue[n]) : t \in sent /\ Commands(t, n)
  /\ IsInjective(queue[n])
  /\ Obeyed(n) => /\ cmd[n].from \in sent /\ Commands(cmd[n].from, n)
                  /\ Head(script[cmd[n].from]).do = cmd[n].op
                  /\ cmd[n].from \notin Range(queue[n])

WaitInv == \A n \in Sidecar : Waiting(n)

QuietInv ==
  \A t \in Threads : call[CallerOf(t)] = NoCall => script[t] = <<>>

(* Told to end by a shutdown that has been answered. *)
Down(n) ==
  task[n] = "Ended" \/ (task[n] = "Stopped" /\ cmd[n].op = "Shutdown")

(* Whoever is to shut a sidecar down has shut down those that depend on it *)
(* or will do so before.                                                   *)
Ordered(t) ==
  \A i \in DOMAIN script[t] : \A n \in Sidecar :
    script[t][i].do = "Shutdown" /\ script[t][i].to \in Near(n) =>
      Down(n) \/ \E j \in 1 .. i - 1 : script[t][j] = Do("Shutdown", n)

(* A call of shutdown_all has shut every sidecar down or is going to.      *)
Telling(c) ==
  call[c].api = "shutdown_all" =>
    /\ \A i \in DOMAIN script[<<c>>] : script[<<c>>][i].do = "Shutdown"
    /\ \A n \in Sidecar : \/ Down(n)
                          \/ \E i \in DOMAIN script[<<c>>] :
                               script[<<c>>][i] = Do("Shutdown", n)

ScriptsInv ==
  (\A t \in Threads : Ordered(t)) /\ (\A c \in Callers : Telling(c))

EndingInv ==
  \A n \in Sidecar : \A d \in Near(n) : Ending(d) => Down(n)

(* What each stage of the app knows of its fleet. *)
AppInv ==
  /\ app \in {"setup", "refused"} => \A n \in Sidecar : ~running[n]
  /\ app = "exiting" => call[Exit].api = "shutdown_all"
  /\ app = "gone" => \A n \in Sidecar : Down(n)

FleetInv ==
  /\ app \in {"setup", "refused", "running", "exiting", "gone"}
  /\ TaskTypes /\ ApiTypes /\ StageInv
  /\ app # "gone" => WaitInv
  /\ QuietInv /\ ScriptsInv /\ EndingInv /\ AppInv

(* For the order of starts: whoever is to start a sidecar has seen each of *)
(* its dependencies healthy since its call began, or waits for it first.   *)
Promised(t) ==
  \A i \in DOMAIN script[t] : script[t][i].do = "Start" =>
    \A d \in Near(script[t][i].to) :
      \/ <<d, "Healthy">> \in published[CallerOf(t)]
      \/ Awaited(script[t], i, d)

(* Whoever waits for a sidecar is in a call that keeps what it has seen.   *)
Entitled(t) ==
  \A i \in DOMAIN script[t] :
    script[t][i].do = "await" => Waits(call[CallerOf(t)])

(* What such a call has seen includes what is healthy now.                 *)
Seen ==
  \A c \in Callers, n \in Sidecar :
    Waits(call[c]) /\ state[n] = "Healthy" =>
      <<n, "Healthy">> \in published[c]

StartInv == Seen /\ \A t \in Threads : Promised(t) /\ Entitled(t)

-----------------------------------------------------------------------------
(* What steps do, seen from the threads that wait.                         *)

Active == app \in {"running", "exiting"}

(* What only the task of a sidecar changes. *)
Local == <<task, state, running, attempt, sustained, cmd>>

Lives(n) == Supervise(n) \/ SustainElapses(n) \/ Crashes(n)

(* The first command of a channel is received. *)
Taken(n) == queue[n] # <<>> /\ queue' = [queue EXCEPT ![n] = Tail(@)]

(* No task takes up a command to carry out. *)
Calm == \A m \in Sidecar : Obeyed(m)' => Obeyed(m) /\ cmd'[m] = cmd[m]

CalmBut(n) ==
  \A m \in Sidecar : m # n /\ Obeyed(m)' => Obeyed(m) /\ cmd'[m] = cmd[m]

(* The task answers the command it receives, the one it has carried out,   *)
(* or, when it ends, all that are left.                                    *)
AnswersHead(n) ==
  /\ Taken(n) /\ Answer({Head(queue[n])}) /\ Calm
  /\ Head(script[Head(queue[n])]).do # "Shutdown"

AnswersObeyed(n) ==
  /\ Obeyed(n) /\ ~Obeyed(n)' /\ Answer({cmd[n].from}) /\ UNCHANGED queue
  /\ CalmBut(n) /\ (cmd[n].op = "Shutdown" => Down(n)')

AnswersAll(n) ==
  /\ ~Obeyed(n) /\ task'[n] = "Ended" /\ Answer(Range(queue[n]))
  /\ queue' = [queue EXCEPT ![n] = <<>>] /\ CalmBut(n)

(* What becomes of a script. *)
Stays(t) == script'[t] = script[t]

Advances(t) ==
  /\ script[t] # <<>> /\ script'[t] = Tail(script[t])
  /\ \A n \in Sidecar : Head(script[t]) = Do("Shutdown", n) => Down(n)'
  /\ Head(script[t]).do = "await" => state[Head(script[t]).to] = "Healthy"

GivesUp(t) ==
  script[t] # <<>> /\ Head(script[t]).do = "await" /\ script'[t] = <<>>

ThreadsGoOn ==
  call' = call /\ \A t \in Threads : Stays(t) \/ Advances(t) \/ GivesUp(t)

SendTypes ==
  /\ script' \in [Threads -> Seq(Step)] /\ sent' \subseteq Threads
  /\ \A t \in sent' : script'[t] # <<>> /\ Head(script'[t]).do # "await"
  /\ queue' \in [Sidecar -> Seq(Threads)]

-----------------------------------------------------------------------------
(* Only a step of a task changes what is its own, and only in the app. *)
LEMMA StepKinds ==
  ASSUME [AppNext]_appVars
  PROVE  \/ \E n \in Sidecar : Active /\ UNCHANGED app /\ Lives(n)
         \/ UNCHANGED Local
<1>1. CASE UNCHANGED appVars
  BY <1>1 DEF appVars, vars, tasks, Local
<1>2. CASE SetUp \/ SetUpFails \/ BeginExit \/ EndExit \/ Over
  BY <1>2 DEF SetUp, SetUpFails, BeginExit, EndExit, Over, Cut, Invoke,
              appVars, vars, tasks, Local
<1>3. CASE InApp(UserCalls) \/ InApp(CallsReturn)
  BY <1>3 DEF InApp, UserCalls, CallsReturn, Invoke, Return, tasks, Local
<1>4. CASE \E t \in Threads : InApp(Proceed(t))
  BY <1>4 DEF InApp, Proceed, Send, SendFails, AwaitHealthy, AwaitFails,
              tasks, Local
<1>5. CASE \E n \in Sidecar : \/ InApp(Supervise(n))
                         \/ InApp(SustainElapses(n)) \/ InApp(Crashes(n))
  BY <1>5 DEF InApp, Active, Lives
<1>. QED  BY <1>1, <1>2, <1>3, <1>4, <1>5 DEF AppNext

(* The fields of the tasks keep their types. *)
LEMMA TaskTypesStep ==
  ASSUME TaskTypes, StageInv, NEW n \in Sidecar, Lives(n),
         queue \in [Sidecar -> Seq(Threads)]
  PROVE  TaskTypes'
<1>. USE RetriesAssumption DEF TaskTypes, StageInv, Goto, Publish, Receive,
                               Stages, SidecarState, tasks, api
<1>1. CASE Start(n)
  BY <1>1 DEF Start
<1>2. CASE Ignore(n)
  BY <1>2 DEF Ignore
<1>3. CASE StopMonitored(n)
  BY <1>3 DEF StopMonitored, Operation
<1>4. CASE StopInBackoff(n)
  BY <1>4 DEF StopInBackoff, Operation
<1>5. CASE Shutdown(n)
  BY <1>5 DEF Shutdown
<1>6. CASE AnnounceStarting(n) \/ Spawn(n) \/ SpawnOrGateFails(n)
           \/ AnnounceHealthy(n)
  BY <1>6 DEF AnnounceStarting, Spawn, SpawnOrGateFails, AnnounceHealthy
<1>7. CASE Forgive(n) \/ EnterBackoff(n) \/ EnterFailed(n)
           \/ BackoffElapses(n)
  <2>1. CASE Forgive(n)
    BY <2>1 DEF Forgive
  <2>2. CASE EnterBackoff(n)
    BY <2>2 DEF EnterBackoff
  <2>3. CASE EnterFailed(n) \/ BackoffElapses(n)
    BY <2>3 DEF EnterFailed, BackoffElapses
  <2>. QED  BY <1>7, <2>1, <2>2, <2>3
<1>8. CASE AnnounceStopping(n) \/ Kill(n) \/ AcknowledgeStop(n)
  BY <1>8 DEF AnnounceStopping, Kill, AcknowledgeStop
<1>9. CASE AcknowledgeRestart(n) \/ AnnounceStopped(n) \/ AnnounceShutdown(n)
  <2>1. CASE AcknowledgeRestart(n)
    BY <2>1 DEF AcknowledgeRestart
  <2>2. CASE AnnounceStopped(n)
    BY <2>2 DEF AnnounceStopped
  <2>3. CASE AnnounceShutdown(n)
    BY <2>3 DEF AnnounceShutdown
  <2>. QED  BY <1>9, <2>1, <2>2, <2>3
<1>10. CASE SustainElapses(n) \/ Crashes(n)
  BY <1>10 DEF SustainElapses, Crashes
<1>. QED BY <1>1, <1>2, <1>3, <1>4, <1>5, <1>6, <1>7, <1>8, <1>9, <1>10
            DEF Lives, Supervise, Received

(* Each stage of a task is entered with what belongs to it. *)
LEMMA StageStep ==
  ASSUME TaskTypes, StageInv, NEW n \in Sidecar, Lives(n)
  PROVE  StageInv'
<1>. USE RetriesAssumption DEF TaskTypes, StageInv, Goto, Publish, Receive,
                               tasks, api, NoCommand
<1>1. CASE Start(n)
  BY <1>1 DEF Start
<1>2. CASE Ignore(n)
  BY <1>2 DEF Ignore
<1>3. CASE StopMonitored(n)
  BY <1>3 DEF StopMonitored, Operation
<1>4. CASE StopInBackoff(n)
  BY <1>4 DEF StopInBackoff, Operation
<1>5. CASE Shutdown(n)
  BY <1>5 DEF Shutdown
<1>6. CASE AnnounceStarting(n) \/ Spawn(n) \/ SpawnOrGateFails(n)
           \/ AnnounceHealthy(n)
  BY <1>6 DEF AnnounceStarting, Spawn, SpawnOrGateFails, AnnounceHealthy
<1>7. CASE Forgive(n) \/ EnterBackoff(n) \/ EnterFailed(n)
           \/ BackoffElapses(n)
  BY <1>7 DEF Forgive, EnterBackoff, EnterFailed, BackoffElapses
<1>8. CASE AnnounceStopping(n) \/ Kill(n) \/ AcknowledgeStop(n)
  BY <1>8 DEF AnnounceStopping, Kill, AcknowledgeStop
<1>9. CASE AcknowledgeRestart(n) \/ AnnounceStopped(n) \/ AnnounceShutdown(n)
  BY <1>9 DEF AcknowledgeRestart, AnnounceStopped, AnnounceShutdown
<1>10. CASE SustainElapses(n) \/ Crashes(n)
  BY <1>10 DEF SustainElapses, Crashes
<1>. QED BY <1>1, <1>2, <1>3, <1>4, <1>5, <1>6, <1>7, <1>8, <1>9, <1>10
            DEF Lives, Supervise, Received

(* A thread is answered, and goes on to its next step. *)
LEMMA AnswerTypes ==
  ASSUME ApiTypes, NEW ts \in SUBSET sent, Answer(ts)
  PROVE  /\ script' \in [Threads -> Seq(Step)] /\ sent' \subseteq Threads
         /\ call' = call /\ sent' = sent \ ts
         /\ \A t \in Threads :
              script'[t] = IF t \in ts THEN Tail(script[t]) ELSE script[t]
         /\ \A t \in sent' :
              script'[t] = script[t] /\ script'[t] # <<>>
              /\ Head(script'[t]).do # "await"
<1>1. \A t \in ts : script[t] \in Seq(Step) /\ script[t] # <<>>
  BY DEF ApiTypes
<1>2. \A t \in ts : Tail(script[t]) \in Seq(Step)
  BY <1>1, HeadTailProperties
<1>. QED  BY <1>2 DEF ApiTypes, Answer

(* Whoever is at the head of a channel waits, and is in it no more. *)
LEMMA TakenHead ==
  ASSUME ApiTypes, WaitInv, NEW n \in Sidecar, Taken(n)
  PROVE  /\ queue' \in [Sidecar -> Seq(Threads)]
         /\ Head(queue[n]) \in sent /\ Commands(Head(queue[n]), n)
         /\ Obeyed(n) => Head(queue[n]) # cmd[n].from
         /\ Range(queue'[n]) = Range(queue[n]) \ {Head(queue[n])}
         /\ IsInjective(queue'[n])
         /\ \A m \in Sidecar : m # n => queue'[m] = queue[m]
<1>1. queue[n] \in Seq(Threads) /\ IsInjective(queue[n]) /\ queue[n] # <<>>
  BY DEF ApiTypes, WaitInv, Waiting, Taken
<1>2. /\ Head(queue[n]) \in Range(queue[n]) /\ IsInjective(Tail(queue[n]))
      /\ Range(Tail(queue[n])) = Range(queue[n]) \ {Head(queue[n])}
  BY <1>1, RangeTail
<1>3. Tail(queue[n]) \in Seq(Threads)
  BY <1>1, HeadTailProperties
<1>4. /\ queue'[n] = Tail(queue[n]) /\ queue' \in [Sidecar -> Seq(Threads)]
      /\ \A m \in Sidecar : m # n => queue'[m] = queue[m]
  BY <1>3 DEF Taken, ApiTypes
<1>. QED  BY <1>1, <1>2, <1>4 DEF WaitInv, Waiting

(* Nobody waits for two answers. *)
LEMMA OneSidecar ==
  ASSUME NEW t, NEW m, NEW n, Commands(t, m), Commands(t, n)
  PROVE  m = n
BY DEF Commands

(* Steps that neither send nor receive a command. *)
LEMMA WaitKept ==
  ASSUME WaitInv, UNCHANGED <<api, queue>>,
         \A n \in Sidecar : Obeyed(n)' => Obeyed(n) /\ cmd'[n] = cmd[n]
  PROVE  WaitInv'
BY DEF WaitInv, Waiting, api, Commands

(* Start, Ignore, StopInBackoff: answered on receipt. *)
LEMMA WaitAnswered ==
  ASSUME ApiTypes, WaitInv, NEW n \in Sidecar, Taken(n),
         Answer({Head(queue[n])}),
         \A m \in Sidecar : Obeyed(m)' => Obeyed(m) /\ cmd'[m] = cmd[m]
  PROVE  WaitInv' /\ queue' \in [Sidecar -> Seq(Threads)]
<1>. DEFINE h == Head(queue[n])
<1>1. h \in sent /\ Commands(h, n) /\ (Obeyed(n) => h # cmd[n].from)
  BY TakenHead
<1>2. /\ Range(queue'[n]) = Range(queue[n]) \ {h}
      /\ queue' \in [Sidecar -> Seq(Threads)]
      /\ IsInjective(queue'[n])
      /\ \A m \in Sidecar : m # n => queue'[m] = queue[m]
  BY TakenHead
<1>. HIDE DEF h
<1>3. sent' = sent \ {h} /\ \A t \in sent' : script'[t] = script[t]
  BY <1>1, AnswerTypes DEF h
<1>4. ASSUME NEW m \in Sidecar  PROVE Waiting(m)'
  <2>1. \A t \in Range(queue[m]) : t \in sent /\ Commands(t, m)
    BY DEF WaitInv, Waiting
  <2>2. \A t \in Range(queue'[m]) : t \in Range(queue[m]) /\ t # h
    <3>1. CASE m = n
      BY <1>2, <3>1
    <3>2. CASE m # n
      BY <1>1, <1>2, <2>1, <3>2, OneSidecar
    <3>. QED  BY <3>1, <3>2
  <2>3. \A t \in Range(queue'[m]) : t \in sent' /\ Commands(t, m)'
    BY <1>3, <2>1, <2>2 DEF Commands
  <2>4. IsInjective(queue'[m])
    BY <1>2 DEF WaitInv, Waiting
  <2>5. ASSUME Obeyed(m)'
        PROVE  /\ cmd'[m].from \in sent' /\ Commands(cmd[m].from, m)'
               /\ Head(script'[cmd'[m].from]).do = cmd'[m].op
               /\ cmd'[m].from \notin Range(queue'[m])
               /\ cmd'[m] = cmd[m]
    <3>1. /\ cmd'[m] = cmd[m] /\ cmd[m].from \in sent
          /\ Commands(cmd[m].from, m)
          /\ Head(script[cmd[m].from]).do = cmd[m].op
          /\ cmd[m].from \notin Range(queue[m])
      BY <2>5 DEF WaitInv, Waiting
    <3>2. cmd[m].from # h
      <4>1. CASE m = n
        BY <1>1, <2>5, <4>1
      <4>2. CASE m # n
        BY <1>1, <3>1, <4>2, OneSidecar
      <4>. QED  BY <4>1, <4>2
    <3>. QED  BY <1>3, <2>2, <3>1, <3>2 DEF Commands
  <2>. QED  BY <2>3, <2>4, <2>5 DEF Waiting, Commands
<1>. QED  BY <1>2, <1>4 DEF WaitInv

(* AcknowledgeStop, AcknowledgeRestart *)
LEMMA WaitAcknowledged ==
  ASSUME ApiTypes, WaitInv, NEW n \in Sidecar, Obeyed(n), ~Obeyed(n)',
         Answer({cmd[n].from}), UNCHANGED queue,
         \A m \in Sidecar : m # n /\ Obeyed(m)' =>
           Obeyed(m) /\ cmd'[m] = cmd[m]
  PROVE  WaitInv'
<1>. DEFINE h == cmd[n].from
<1>1. h \in sent /\ Commands(h, n) /\ h \notin Range(queue[n])
  BY DEF WaitInv, Waiting
<1>. HIDE DEF h
<1>3. sent' = sent \ {h} /\ \A t \in sent' : script'[t] = script[t]
  BY <1>1, AnswerTypes DEF h
<1>4. ASSUME NEW m \in Sidecar  PROVE Waiting(m)'
  <2>1. /\ \A t \in Range(queue[m]) : t \in sent /\ Commands(t, m) /\ t # h
        /\ IsInjective(queue'[m])
    BY <1>1, OneSidecar DEF WaitInv, Waiting
  <2>3. \A t \in Range(queue'[m]) : t \in sent' /\ Commands(t, m)'
    BY <1>3, <2>1 DEF Commands
  <2>5. ASSUME Obeyed(m)'
        PROVE  /\ cmd'[m].from \in sent' /\ Commands(cmd[m].from, m)'
               /\ Head(script'[cmd'[m].from]).do = cmd'[m].op
               /\ cmd'[m].from \notin Range(queue'[m])
               /\ cmd'[m] = cmd[m]
    <3>0. m # n
      BY <2>5
    <3>1. /\ cmd'[m] = cmd[m] /\ cmd[m].from \in sent
          /\ Commands(cmd[m].from, m)
          /\ Head(script[cmd[m].from]).do = cmd[m].op
          /\ cmd[m].from \notin Range(queue[m])
      BY <2>5, <3>0 DEF WaitInv, Waiting
    <3>2. cmd[m].from # h
      BY <1>1, <3>0, <3>1, OneSidecar
    <3>. QED  BY <1>3, <3>1, <3>2 DEF Commands
  <2>. QED  BY <2>1, <2>3, <2>5 DEF Waiting, Commands
<1>. QED  BY <1>4 DEF WaitInv

(* Shutdown, AnnounceShutdown: the task ends with its channel. *)
LEMMA WaitDropped ==
  ASSUME ApiTypes, WaitInv, NEW n \in Sidecar, ~Obeyed(n)', ~Obeyed(n),
         queue' = [queue EXCEPT ![n] = <<>>], Answer(Range(queue[n])),
         \A m \in Sidecar : m # n /\ Obeyed(m)' =>
           Obeyed(m) /\ cmd'[m] = cmd[m]
  PROVE  WaitInv' /\ queue' \in [Sidecar -> Seq(Threads)]
<1>1. \A t \in Range(queue[n]) : t \in sent /\ Commands(t, n)
  BY DEF WaitInv, Waiting
<1>2. /\ queue'[n] = <<>> /\ \A m \in Sidecar : m # n => queue'[m] = queue[m]
      /\ queue' \in [Sidecar -> Seq(Threads)]
  <2>1. <<>> \in Seq(Threads)
    BY EmptySeq
  <2>. QED  BY <2>1 DEF ApiTypes
<1>. DEFINE Q == Range(queue[n])
<1>3. sent' = sent \ Q /\ \A t \in sent' : script'[t] = script[t]
  <2>1. Q \in SUBSET sent
    BY <1>1
  <2>. QED  BY <2>1, AnswerTypes
<1>. HIDE DEF Q
<1>4. ASSUME NEW m \in Sidecar  PROVE Waiting(m)'
  <2>1. CASE m = n
    <3>1. Range(queue'[n]) = {} /\ IsInjective(queue'[n])
      BY <1>2 DEF Range, IsInjective
    <3>. QED  BY <2>1, <3>1 DEF Waiting
  <2>2. CASE m # n
    <3>1. /\ \A t \in Range(queue[m]) :
               t \in sent /\ Commands(t, m) /\ t \notin Q
          /\ IsInjective(queue'[m])
      BY <1>1, <1>2, <2>2, OneSidecar DEF WaitInv, Waiting, Q
    <3>2. ASSUME Obeyed(m)'
          PROVE  /\ cmd'[m] = cmd[m] /\ cmd[m].from \in sent
                 /\ Commands(cmd[m].from, m)
                 /\ Head(script[cmd[m].from]).do = cmd[m].op
                 /\ cmd[m].from \notin Range(queue[m]) /\ cmd[m].from \notin Q
      BY <1>1, <2>2, <3>2, OneSidecar DEF WaitInv, Waiting, Q
    <3>. QED  BY <1>2, <1>3, <2>2, <3>1, <3>2 DEF Waiting, Commands
  <2>. QED  BY <2>1, <2>2
<1>. QED  BY <1>2, <1>4 DEF WaitInv

(* StopMonitored: the command is carried out before it is answered. *)
LEMMA WaitObeyed ==
  ASSUME ApiTypes, WaitInv, TaskTypes, NEW n \in Sidecar, StopMonitored(n)
  PROVE  WaitInv' /\ queue' \in [Sidecar -> Seq(Threads)]
<1>. DEFINE h == Head(queue[n])
<1>0. Taken(n)
  BY DEF StopMonitored, Receive, Taken
<1>1. h \in sent /\ Commands(h, n)
  BY <1>0, TakenHead
<1>2. /\ Range(queue'[n]) = Range(queue[n]) \ {h}
      /\ IsInjective(queue'[n])
      /\ \A m \in Sidecar : m # n => queue'[m] = queue[m]
      /\ queue' \in [Sidecar -> Seq(Threads)]
  BY <1>0, TakenHead
<1>3. /\ cmd'[n].from = h /\ cmd'[n].op = Head(script[h]).do
      /\ \A m \in Sidecar : m # n =>
           cmd'[m] = cmd[m] /\ (Obeyed(m)' <=> Obeyed(m))
      /\ UNCHANGED <<sent, script>>
  BY DEF StopMonitored, Receive, TaskTypes, Goto, api, Obeyed
<1>. HIDE DEF h
<1>4. ASSUME NEW m \in Sidecar  PROVE Waiting(m)'
  <2>1. CASE m = n
    BY <1>1, <1>2, <1>3, <2>1 DEF WaitInv, Waiting, Commands
  <2>2. CASE m # n
    <3>1. Waiting(m)
      BY DEF WaitInv
    <3>2. /\ queue'[m] = queue[m] /\ cmd'[m] = cmd[m]
          /\ (Obeyed(m)' <=> Obeyed(m))
          /\ UNCHANGED <<sent, script>>
      BY <1>2, <1>3, <2>2
    <3>. QED  BY <3>1, <3>2 DEF Waiting, Commands
  <2>. QED  BY <2>1, <2>2
<1>. QED  BY <1>2, <1>4 DEF WaitInv

(* Send: one more in the channel, of a thread that was in none. *)
LEMMA WaitSent ==
  ASSUME ApiTypes, WaitInv, NEW t \in Threads, NEW n \in Sidecar, Send(t, n)
  PROVE  WaitInv' /\ queue' \in [Sidecar -> Seq(Threads)]
<1>1. /\ queue[n] \in Seq(Threads) /\ IsInjective(queue[n])
      /\ t \notin Range(queue[n]) /\ t \notin sent /\ Commands(t, n)
  BY DEF ApiTypes, WaitInv, Waiting, Send
<1>2. /\ Append(queue[n], t) \in Seq(Threads)
      /\ IsInjective(Append(queue[n], t))
      /\ Range(Append(queue[n], t)) = Range(queue[n]) \cup {t}
  BY <1>1, AppendProperties, InjectiveAppend, RangeAppend
<1>3. /\ queue'[n] = Append(queue[n], t)
      /\ queue' \in [Sidecar -> Seq(Threads)]
      /\ \A m \in Sidecar : m # n => queue'[m] = queue[m]
  BY <1>2 DEF Send, ApiTypes
<1>4. /\ sent' = sent \cup {t} /\ UNCHANGED <<script, cmd, task>>
  BY DEF Send
<1>5. ASSUME NEW m \in Sidecar  PROVE Waiting(m)'
  <2>0. Waiting(m)
    BY DEF WaitInv
  <2>1. CASE m = n
    <3>1. /\ Range(queue'[m]) = Range(queue[m]) \cup {t}
          /\ IsInjective(queue'[m])
      BY <1>2, <1>3, <2>1
    <3>2. Obeyed(m) => cmd[m].from # t
      BY <1>1, <2>0 DEF Waiting
    <3>. QED  BY <1>1, <1>4, <2>0, <2>1, <3>1, <3>2
                 DEF Waiting, Commands, Obeyed
  <2>2. CASE m # n
    <3>1. queue'[m] = queue[m]
      BY <1>3, <2>2
    <3>. QED  BY <1>4, <2>0, <3>1 DEF Waiting, Commands, Obeyed
  <2>. QED  BY <2>1, <2>2
<1>. QED  BY <1>3, <1>5 DEF WaitInv

(* Threads that do not wait for an answer may change their scripts. *)
LEMMA WaitOthers ==
  ASSUME WaitInv, UNCHANGED <<sent, queue, cmd, task>>,
         \A t \in sent : script'[t] = script[t]
  PROVE  WaitInv'
BY DEF WaitInv, Waiting, Commands, Obeyed

(* What a step of a task does to the threads is one of five things. *)
LEMMA TaskEffects ==
  ASSUME TaskTypes, StageInv, NEW n \in Sidecar, Lives(n)
  PROVE  \/ UNCHANGED <<api, queue>> /\ Calm
         \/ AnswersHead(n) \/ StopMonitored(n) \/ AnswersObeyed(n)
         \/ AnswersAll(n)
<1>. USE DEF TaskTypes, Goto, api, tasks, Obeyed
<1>1. CASE Start(n) \/ Ignore(n) \/ StopInBackoff(n)
  BY <1>1 DEF Start, Ignore, StopInBackoff, Receive, AnswerAtOnce,
              AnswersHead, Taken, Calm
<1>2. CASE AnnounceStarting(n) \/ Spawn(n) \/ SpawnOrGateFails(n)
             \/ AnnounceHealthy(n) \/ Forgive(n) \/ Crashes(n)
             \/ SustainElapses(n)
  BY <1>2 DEF AnnounceStarting, Spawn, SpawnOrGateFails, AnnounceHealthy,
              Forgive, Crashes, SustainElapses, Calm
<1>3. CASE EnterBackoff(n) \/ EnterFailed(n) \/ BackoffElapses(n)
             \/ AnnounceStopping(n) \/ Kill(n) \/ AnnounceStopped(n)
  BY <1>3 DEF EnterBackoff, EnterFailed, BackoffElapses, AnnounceStopping,
              Kill, AnnounceStopped, Calm
<1>4. CASE AcknowledgeStop(n) \/ AcknowledgeRestart(n)
  BY <1>4 DEF AcknowledgeStop, AcknowledgeRestart, AnswersObeyed, CalmBut,
              Down
<1>5. CASE Shutdown(n) \/ AnnounceShutdown(n)
  BY <1>5 DEF Shutdown, AnnounceShutdown, AnswersAll, CalmBut
<1>. QED  BY <1>1, <1>2, <1>3, <1>4, <1>5 DEF Lives, Supervise, Received

(* A sidecar that is down for a shutdown stays so. *)
LEMMA DownStays ==
  ASSUME TaskTypes, StageInv, [AppNext]_appVars
  PROVE  \A n \in Sidecar : Down(n) => Down(n)'
<1>1. CASE UNCHANGED Local
  BY <1>1 DEF Local, Down
<1>2. ASSUME NEW n \in Sidecar, Lives(n)
      PROVE \A m \in Sidecar : Down(m) => Down(m)'
  <2>. USE DEF TaskTypes, Goto, tasks, api, Down
  <2>1. CASE Received(n)
    BY <2>1 DEF Received, Start, Ignore, StopMonitored, StopInBackoff,
                Shutdown
  <2>2. CASE AnnounceStarting(n) \/ Spawn(n) \/ SpawnOrGateFails(n)
               \/ AnnounceHealthy(n) \/ Forgive(n) \/ Crashes(n)
               \/ SustainElapses(n)
    BY <2>2 DEF AnnounceStarting, Spawn, SpawnOrGateFails, AnnounceHealthy,
                Forgive, Crashes, SustainElapses
  <2>3. CASE EnterBackoff(n) \/ EnterFailed(n) \/ BackoffElapses(n)
               \/ AnnounceStopping(n) \/ Kill(n)
    BY <2>3 DEF EnterBackoff, EnterFailed, BackoffElapses, AnnounceStopping,
                Kill
  <2>4. CASE AcknowledgeStop(n) \/ AcknowledgeRestart(n)
    BY <2>4 DEF AcknowledgeStop, AcknowledgeRestart
  <2>5. CASE AnnounceStopped(n) \/ AnnounceShutdown(n)
    BY <2>5 DEF AnnounceStopped, AnnounceShutdown
  <2>. QED  BY <1>2, <2>1, <2>2, <2>3, <2>4, <2>5 DEF Lives, Supervise
<1>. QED  BY <1>1, <1>2, StepKinds

(* Under a step of a task, scripts stay, advance or end as they should. *)
LEMMA ThreadsOfTask ==
  ASSUME TaskTypes, StageInv, ApiTypes, WaitInv, NEW n \in Sidecar, Lives(n)
  PROVE  WaitInv' /\ ThreadsGoOn /\ SendTypes
<1>1. CASE UNCHANGED <<api, queue>> /\ Calm
  BY <1>1, WaitKept DEF Calm, api, ThreadsGoOn, Stays, SendTypes, ApiTypes
<1>2. CASE AnswersHead(n)
  <2>1. WaitInv' /\ queue' \in [Sidecar -> Seq(Threads)]
    BY <1>2, WaitAnswered DEF AnswersHead, Calm
  <2>. DEFINE h == Head(queue[n])
  <2>2. h \in sent
    BY <1>2, TakenHead DEF AnswersHead
  <2>3. /\ SendTypes
        /\ call' = call
        /\ \A t \in Threads :
             script'[t] = IF t = h THEN Tail(script[t]) ELSE script[t]
    <3>1. {h} \in SUBSET sent /\ Answer({h})
      BY <1>2, <2>2 DEF AnswersHead
    <3>. HIDE DEF h
    <3>. QED  BY <3>1, <2>1, AnswerTypes DEF SendTypes
  <2>4. Advances(h)
    <3>1. script'[h] = Tail(script[h]) /\ script[h] # <<>>
          /\ Head(script[h]).do # "await"
      BY <2>2, <2>3 DEF ApiTypes
    <3>2. \A m : Head(script[h]) # Do("Shutdown", m)
      BY <1>2 DEF AnswersHead, Do
    <3>. QED  BY <3>1, <3>2 DEF Advances
  <2>. QED  BY <2>1, <2>3, <2>4 DEF ThreadsGoOn, Stays
<1>3. CASE StopMonitored(n)
  BY <1>3, WaitObeyed DEF StopMonitored, api, ThreadsGoOn, Stays, SendTypes,
                          ApiTypes
<1>4. CASE AnswersObeyed(n)
  <2>1. WaitInv' /\ queue' \in [Sidecar -> Seq(Threads)]
    BY <1>4, WaitAcknowledged DEF AnswersObeyed, CalmBut, ApiTypes
  <2>. DEFINE h == cmd[n].from
  <2>2. h \in sent /\ Commands(h, n) /\ Head(script[h]).do = cmd[n].op
    BY <1>4 DEF AnswersObeyed, WaitInv, Waiting
  <2>3. /\ SendTypes
        /\ call' = call
        /\ \A t \in Threads :
             script'[t] = IF t = h THEN Tail(script[t]) ELSE script[t]
    <3>1. {h} \in SUBSET sent /\ Answer({h})
      BY <1>4, <2>2 DEF AnswersObeyed
    <3>. HIDE DEF h
    <3>. QED  BY <3>1, <2>1, AnswerTypes DEF SendTypes
  <2>4. Advances(h)
    <3>1. Head(script[h]).to = n
          /\ (Head(script[h]).do = "Shutdown" => Down(n)')
      BY <1>4, <2>2 DEF Commands, AnswersObeyed
    <3>2. script'[h] = Tail(script[h]) /\ script[h] # <<>>
          /\ Head(script[h]).do # "await"
      BY <2>2, <2>3 DEF ApiTypes
    <3>. QED  BY <3>1, <3>2 DEF Advances, Do
  <2>. QED  BY <2>1, <2>3, <2>4 DEF ThreadsGoOn, Stays
<1>5. CASE AnswersAll(n)
  <2>1. WaitInv' /\ queue' \in [Sidecar -> Seq(Threads)]
    BY <1>5, WaitDropped DEF AnswersAll, CalmBut, Obeyed
  <2>. DEFINE Q == Range(queue[n])
  <2>2. \A t \in Q : t \in sent /\ Commands(t, n)
    BY DEF WaitInv, Waiting
  <2>3. /\ SendTypes
        /\ call' = call
        /\ \A t \in Threads :
             script'[t] = IF t \in Q THEN Tail(script[t]) ELSE script[t]
    <3>1. Q \in SUBSET sent /\ Answer(Q)
      BY <1>5, <2>2 DEF AnswersAll
    <3>. HIDE DEF Q
    <3>. QED  BY <3>1, <2>1, AnswerTypes DEF SendTypes
  <2>4. ASSUME NEW t \in Threads, t \in Q  PROVE Advances(t)
    <3>1. script'[t] = Tail(script[t]) /\ script[t] # <<>>
          /\ Head(script[t]).do # "await"
      BY <2>2, <2>3, <2>4 DEF ApiTypes
    <3>2. Head(script[t]).to = n /\ Down(n)'
      BY <1>5, <2>2, <2>4 DEF Commands, Down, AnswersAll
    <3>. QED  BY <3>1, <3>2 DEF Advances, Do
  <2>. HIDE DEF Q
  <2>. QED  BY <2>1, <2>3, <2>4 DEF ThreadsGoOn, Stays
<1>. QED  BY <1>1, <1>2, <1>3, <1>4, <1>5, TaskEffects

(* The same of a step of a thread. *)
LEMMA ThreadsOfCall ==
  ASSUME TaskTypes, ApiTypes, WaitInv, NEW t \in Threads, Proceed(t)
  PROVE  WaitInv' /\ ThreadsGoOn /\ SendTypes
<1>. PICK n \in Sidecar : \/ Send(t, n) \/ SendFails(t, n)
                          \/ AwaitHealthy(t, n) \/ AwaitFails(t, n)
  BY DEF Proceed
<1>1. CASE Send(t, n)
  <2>1. WaitInv' /\ queue' \in [Sidecar -> Seq(Threads)]
    BY <1>1, WaitSent
  <2>2. ThreadsGoOn
    BY <1>1 DEF Send, ThreadsGoOn, Stays
  <2>3. SendTypes
    BY <1>1, <2>1 DEF Send, Commands, SendTypes, ApiTypes
  <2>. QED  BY <2>1, <2>2, <2>3
<1>2. CASE SendFails(t, n) \/ AwaitHealthy(t, n) \/ AwaitFails(t, n)
  <2>1. /\ t \notin sent /\ script[t] # <<>> /\ script[t] \in Seq(Step)
        /\ UNCHANGED <<call, sent, tasks, published>>
    BY <1>2 DEF SendFails, AwaitHealthy, AwaitFails, Commands, Awaits, Do,
                ApiTypes
  <2>2. Tail(script[t]) \in Seq(Step) /\ <<>> \in Seq(Step)
    BY <2>1, HeadTailProperties, EmptySeq
  <2>3. /\ script' \in [Threads -> Seq(Step)]
        /\ \A u \in Threads : u # t => script'[u] = script[u]
    BY <1>2, <2>2 DEF SendFails, AwaitHealthy, AwaitFails, ApiTypes
  <2>4. WaitInv'
    BY <2>1, <2>3, WaitOthers DEF tasks, ApiTypes
  <2>5. Advances(t) \/ GivesUp(t)
    <3>1. CASE SendFails(t, n)
      BY <3>1, <2>1 DEF SendFails, Commands, Do, Advances, Down, ApiTypes,
                        tasks
    <3>2. CASE AwaitHealthy(t, n)
      BY <3>2, <2>1 DEF AwaitHealthy, Awaits, Do, Advances, ApiTypes
    <3>3. CASE AwaitFails(t, n)
      BY <3>3, <2>1 DEF AwaitFails, Awaits, Do, GivesUp, ApiTypes
    <3>. QED  BY <1>2, <3>1, <3>2, <3>3
  <2>6. ThreadsGoOn
    BY <2>1, <2>3, <2>5 DEF ThreadsGoOn, Stays
  <2>7. SendTypes
    BY <2>1, <2>3 DEF SendTypes, ApiTypes, tasks
  <2>. QED  BY <2>4, <2>6, <2>7
<1>. QED  BY <1>1, <1>2

(* The thread a caller calls from is its own. *)
LEMMA CallersThread ==
  ASSUME NEW c \in Callers
  PROVE  <<c>> \in Threads /\ CallerOf(<<c>>) = c /\ Len(<<c>>) = 1
BY DEF Threads, CallerOf

(* A script that has steps, and what is left of it after the first. *)
LEMMA TailOfScript ==
  ASSUME ApiTypes, NEW t \in Threads, script[t] # <<>>
  PROVE  /\ script[t] \in Seq(Step) /\ Len(script[t]) \in Nat \ {0}
         /\ DOMAIN script[t] = 1 .. Len(script[t])
         /\ DOMAIN Tail(script[t]) = 1 .. Len(script[t]) - 1
         /\ Head(script[t]) = script[t][1]
         /\ \A i \in 1 .. Len(script[t]) - 1 :
              Tail(script[t])[i] = script[t][i + 1]
<1>1. script[t] \in Seq(Step)
  BY DEF ApiTypes
<1>. DEFINE s == script[t]
<1>. HIDE DEF s
<1>. SUFFICES ASSUME s \in Seq(Step), s # <<>>
     PROVE  /\ Len(s) \in Nat \ {0}
         /\ DOMAIN s = 1 .. Len(s)
         /\ DOMAIN Tail(s) = 1 .. Len(s) - 1
         /\ Head(s) = s[1]
         /\ \A i \in 1 .. Len(s) - 1 : Tail(s)[i] = s[i + 1]
  BY <1>1 DEF s
<1>. QED  BY EmptySeq

(* Whatever threads do, the order of their shutdowns is kept. *)
LEMMA ScriptsKept ==
  ASSUME ApiTypes, ThreadsGoOn, \A n \in Sidecar : Down(n) => Down(n)',
         ScriptsInv
  PROVE  ScriptsInv'
<1>1. ASSUME NEW t \in Threads  PROVE Ordered(t)'
  <2>0. Ordered(t)
    BY DEF ScriptsInv
  <2>1. CASE Stays(t)
    BY <2>0, <2>1 DEF Ordered, Stays
  <2>2. CASE Advances(t)
    <3>0. script[t] # <<>> /\ script'[t] = Tail(script[t])
      BY <2>2 DEF Advances
    <3>. DEFINE s == script[t]
    <3>1. /\ Len(s) \in Nat \ {0} /\ DOMAIN s = 1 .. Len(s)
          /\ DOMAIN script'[t] = 1 .. Len(s) - 1
          /\ Head(s) = s[1]
          /\ \A i \in 1 .. Len(s) - 1 : script'[t][i] = s[i + 1]
      BY <3>0, TailOfScript
    <3>2. \A n \in Sidecar : s[1] = Do("Shutdown", n) => Down(n)'
      BY <2>2, <3>1 DEF Advances
    <3>3. \A i \in DOMAIN s : \A n \in Sidecar :
            s[i].do = "Shutdown" /\ s[i].to \in Near(n) =>
              Down(n) \/ \E j \in 1 .. i - 1 : s[j] = Do("Shutdown", n)
      BY <2>0 DEF Ordered
    <3>. HIDE DEF s
    <3>4. ASSUME NEW i \in DOMAIN script'[t], NEW n \in Sidecar, ~Down(n)',
                 script'[t][i].do = "Shutdown", script'[t][i].to \in Near(n)
          PROVE  \E j \in 1 .. i - 1 : script'[t][j] = Do("Shutdown", n)
      <4>1. i \in 1 .. Len(s) - 1 /\ i + 1 \in DOMAIN s
            /\ script'[t][i] = s[i + 1] /\ ~Down(n)
        BY <3>1, <3>4
      <4>2. PICK j \in 1 .. (i + 1) - 1 : s[j] = Do("Shutdown", n)
        BY <4>1, <3>3, <3>4
      <4>3. j # 1
        BY <3>2, <3>4, <4>2
      <4>4. j - 1 \in 1 .. i - 1 /\ script'[t][j - 1] = s[j]
        BY <3>1, <4>1, <4>2, <4>3
      <4>. QED  BY <4>2, <4>4
    <3>. QED  BY <3>4 DEF Ordered
  <2>3. CASE GivesUp(t)
    BY <2>3 DEF GivesUp, Ordered
  <2>. QED  BY <2>1, <2>2, <2>3 DEF ThreadsGoOn
<1>2. ASSUME NEW c \in Callers, call'[c].api = "shutdown_all"
      PROVE  Telling(c)'
  <2>. DEFINE t == <<c>>
  <2>0. t \in Threads /\ call[c].api = "shutdown_all" /\ Telling(c)
    BY <1>2, CallersThread DEF ScriptsInv, ThreadsGoOn
  <2>t. /\ \A i \in DOMAIN script[t] : script[t][i].do = "Shutdown"
        /\ \A n \in Sidecar : \/ Down(n)
                              \/ \E i \in DOMAIN script[t] :
                                   script[t][i] = Do("Shutdown", n)
    BY <2>0 DEF Telling
  <2>. SUFFICES 
        /\ \A i \in DOMAIN script'[t] : script'[t][i].do = "Shutdown"
        /\ \A n \in Sidecar : \/ Down(n)'
                              \/ \E i \in DOMAIN script'[t] :
                                   script'[t][i] = Do("Shutdown", n)
    BY DEF Telling
  <2>. HIDE DEF t
  <2>1. CASE Stays(t)
    BY <2>t, <2>1 DEF Stays
  <2>2. CASE Advances(t)
    <3>0. script[t] # <<>> /\ script'[t] = Tail(script[t])
      BY <2>2 DEF Advances
    <3>. DEFINE s == script[t]
    <3>1. /\ Len(s) \in Nat \ {0} /\ DOMAIN s = 1 .. Len(s)
          /\ DOMAIN script'[t] = 1 .. Len(s) - 1
          /\ Head(s) = s[1]
          /\ \A i \in 1 .. Len(s) - 1 : script'[t][i] = s[i + 1]
      BY <2>0, <3>0, TailOfScript
    <3>2. \A n \in Sidecar : s[1] = Do("Shutdown", n) => Down(n)'
      BY <2>2, <3>1 DEF Advances
    <3>3. /\ \A i \in DOMAIN s : s[i].do = "Shutdown"
          /\ \A n \in Sidecar : Down(n) \/ \E i \in DOMAIN s :
               s[i] = Do("Shutdown", n)
      BY <2>t
    <3>. HIDE DEF s
    <3>4. \A i \in DOMAIN script'[t] : script'[t][i].do = "Shutdown"
      BY <3>1, <3>3
    <3>5. ASSUME NEW n \in Sidecar, ~Down(n)'
          PROVE  \E i \in DOMAIN script'[t] :
                   script'[t][i] = Do("Shutdown", n)
      <4>1. PICK i \in DOMAIN s : s[i] = Do("Shutdown", n)
        BY <3>3, <3>5
      <4>2. i # 1
        BY <3>2, <3>5, <4>1
      <4>3. i - 1 \in 1 .. Len(s) - 1 /\ script'[t][i - 1] = s[i]
        BY <3>1, <4>1, <4>2
      <4>. QED  BY <3>1, <4>1, <4>3
    <3>. QED  BY <3>4, <3>5
  <2>3. CASE GivesUp(t)
    <3>1. script[t] # <<>> /\ Head(script[t]).do = "await"
      BY <2>3 DEF GivesUp
    <3>2. Head(script[t]) = script[t][1] /\ 1 \in DOMAIN script[t]
      BY <3>1, <2>0, TailOfScript
    <3>. QED  BY <3>1, <3>2, <2>t
  <2>. QED  BY <2>0, <2>1, <2>2, <2>3 DEF ThreadsGoOn
<1>. QED  BY <1>1, <1>2 DEF ScriptsInv, Telling

(* A call begins with a script that promises what the invariant asks. *)
LEMMA InvokeStep ==
  ASSUME ApiTypes, QuietInv, ScriptsInv, WaitInv,
         NEW c \in Callers, NEW k \in Calls[c], Invoke(c, k)
  PROVE  ApiTypes' /\ WaitInv' /\ QuietInv' /\ ScriptsInv'
<1>1. k \in Call
  BY CallsAssumption
<1>2. \A t \in Threads : CallerOf(t) = c => script[t] = <<>> /\ t \notin sent
  BY DEF QuietInv, Invoke, ApiTypes
<1>3. /\ \A t \in Threads : CallerOf(t) = c => script'[t] = ScriptOf(t, k)
      /\ \A t \in Threads : CallerOf(t) # c => script'[t] = script[t]
      /\ script' \in [Threads -> Seq(Step)]
      /\ call'[c] = k /\ \A e \in Callers \ {c} : call'[e] = call[e]
      /\ call' \in [Callers -> Call \cup {NoCall}]
      /\ UNCHANGED <<sent, queue, cmd, task>>
  BY <1>1, ScriptTypes DEF Invoke, ApiTypes, tasks
<1>4. published' \in [Callers -> SUBSET (Sidecar \X {"Healthy", "Failed"})]
  BY DEF Invoke, ApiTypes
<1>5. \A t \in sent : script'[t] = script[t]
  BY <1>2, <1>3 DEF ApiTypes
<1>6. ApiTypes'
  BY <1>3, <1>4, <1>5 DEF ApiTypes
<1>7. WaitInv'
  BY <1>3, <1>5, WaitOthers
<1>8. QuietInv'
  <2>1. k # NoCall
    BY <1>1 DEF Call, NoCall
  <2>. QED  BY <1>3, <2>1 DEF QuietInv, CallerOf, Threads
<1>9. \A n \in Sidecar : Down(n) <=> Down(n)'
  BY <1>3 DEF Down
<1>10. ASSUME NEW t \in Threads  PROVE Ordered(t)'
  <2>1. CASE CallerOf(t) # c
    BY <1>3, <1>9, <2>1 DEF ScriptsInv, Ordered, Down
  <2>2. CASE CallerOf(t) = c /\ Len(t) = 1 /\ k.api = "shutdown_all"
    <3>1. script'[t] = ShutdownScript
      BY <1>3, <2>2 DEF ScriptOf, CallScript
    <3>. QED  BY <3>1, ShutdownScriptTells DEF Ordered, Near
  <2>3. CASE CallerOf(t) = c /\ ~(Len(t) = 1 /\ k.api = "shutdown_all")
    <3>1. \A i \in DOMAIN script'[t] : script'[t][i].do # "Shutdown"
      BY <1>1, <1>3, <2>3, NoShutdownAmong
    <3>. QED  BY <3>1 DEF Ordered
  <2>. QED  BY <2>1, <2>2, <2>3
<1>11. ASSUME NEW e \in Callers  PROVE Telling(e)'
  <2>0. <<e>> \in Threads /\ CallerOf(<<e>>) = e /\ Len(<<e>>) = 1
    BY CallersThread
  <2>1. CASE e # c
    BY <1>3, <1>9, <2>0, <2>1 DEF ScriptsInv, Telling
  <2>2. CASE e = c /\ k.api = "shutdown_all"
    <3>1. script'[<<e>>] = ShutdownScript
      BY <1>3, <2>0, <2>2 DEF ScriptOf, CallScript
    <3>. QED  BY <3>1, ShutdownScriptTells DEF Telling
  <2>3. CASE e = c /\ k.api # "shutdown_all"
    BY <1>3, <2>3 DEF Telling
  <2>. QED  BY <2>1, <2>2, <2>3
<1>. QED  BY <1>6, <1>7, <1>8, <1>10, <1>11 DEF ScriptsInv

(* A call returns. *)
LEMMA ReturnStep ==
  ASSUME ApiTypes, QuietInv, ScriptsInv, WaitInv, NEW c \in Callers, Return(c)
  PROVE  ApiTypes' /\ WaitInv' /\ QuietInv' /\ ScriptsInv'
<1>1. /\ UNCHANGED <<script, sent, queue, cmd, task>>
      /\ call'[c] = NoCall /\ \A e \in Callers \ {c} : call'[e] = call[e]
      /\ call' \in [Callers -> Call \cup {NoCall}]
      /\ published' \in [Callers -> SUBSET (Sidecar \X {"Healthy", "Failed"})]
      /\ \A t \in Threads : CallerOf(t) = c => script[t] = <<>>
  BY DEF Return, ApiTypes, tasks
<1>2. ApiTypes' /\ WaitInv'
  BY <1>1, WaitOthers DEF ApiTypes
<1>3. QuietInv'
  BY <1>1 DEF QuietInv, CallerOf, Threads
<1>4. \A t \in Threads : Ordered(t)'
  BY <1>1 DEF ScriptsInv, Ordered, Down
<1>5. ASSUME NEW e \in Callers  PROVE Telling(e)'
  <2>1. CASE e = c
    BY <1>1, <2>1 DEF Telling, NoCall
  <2>2. CASE e # c
    BY <1>1, <2>2 DEF ScriptsInv, Telling, Down
  <2>. QED  BY <2>1, <2>2
<1>. QED  BY <1>2, <1>3, <1>4, <1>5 DEF ScriptsInv

(* A task begins to end only when it receives a shutdown. *)
LEMMA EndingStarts ==
  ASSUME TaskTypes, StageInv, NEW m \in Sidecar, Lives(m), NEW d \in Sidecar,
         Ending(d)', ~Ending(d)
  PROVE  queue[d] # <<>> /\ Head(script[Head(queue[d])]).do = "Shutdown"
<1>. USE DEF TaskTypes, Goto, tasks, api, Ending
<1>1. CASE Received(m)
  BY <1>1 DEF Received, Start, Ignore, StopMonitored, StopInBackoff, Shutdown,
              Receive
<1>2. CASE AnnounceStarting(m) \/ Spawn(m) \/ SpawnOrGateFails(m)
             \/ AnnounceHealthy(m) \/ Forgive(m) \/ Crashes(m)
             \/ SustainElapses(m)
  BY <1>2 DEF AnnounceStarting, Spawn, SpawnOrGateFails, AnnounceHealthy,
              Forgive, Crashes, SustainElapses
<1>3. CASE EnterBackoff(m) \/ EnterFailed(m) \/ BackoffElapses(m)
             \/ AnnounceStopping(m) \/ Kill(m)
  BY <1>3 DEF EnterBackoff, EnterFailed, BackoffElapses, AnnounceStopping,
              Kill
<1>4. CASE AcknowledgeStop(m) \/ AcknowledgeRestart(m)
             \/ AnnounceStopped(m) \/ AnnounceShutdown(m)
  BY <1>4 DEF AcknowledgeStop, AcknowledgeRestart, AnnounceStopped,
              AnnounceShutdown, NoCommand
<1>. QED  BY <1>1, <1>2, <1>3, <1>4 DEF Lives, Supervise

(* By then all that depend on its sidecar are down: the order of starts,   *)
(* backwards, is the order of the commands of every shutdown_all.          *)
LEMMA EndingStep ==
  ASSUME TaskTypes, ApiTypes, StageInv, WaitInv, ScriptsInv, EndingInv,
         NEW m \in Sidecar, Lives(m), \A n \in Sidecar : Down(n) => Down(n)'
  PROVE  EndingInv'
<1>. SUFFICES ASSUME NEW n \in Sidecar, NEW d \in Near(n), Ending(d)'
     PROVE  Down(n)'
  BY DEF EndingInv
<1>1. CASE Ending(d)
  BY <1>1 DEF EndingInv
<1>2. CASE ~Ending(d)
  <2>0. d \in Sidecar
    BY NearIsSidecars
  <2>1. queue[d] # <<>> /\ Head(script[Head(queue[d])]).do = "Shutdown"
    BY <1>2, <2>0, EndingStarts
  <2>. DEFINE t == Head(queue[d])
  <2>2. t \in Range(queue[d])
    <3>1. queue[d] \in Seq(Threads) /\ IsInjective(queue[d])
      BY <2>0 DEF ApiTypes, WaitInv, Waiting
    <3>. QED  BY <2>1, <3>1, RangeTail
  <2>3. t \in Threads /\ script[t] # <<>> /\ Head(script[t]).to = d
    BY <2>0, <2>2 DEF WaitInv, Waiting, Commands, ApiTypes
  <2>. HIDE DEF t
  <2>4. 1 \in DOMAIN script[t] /\ Head(script[t]) = script[t][1]
    BY <2>3, TailOfScript
  <2>5. Ordered(t) /\ script[t][1].do = "Shutdown" /\ script[t][1].to = d
    BY <2>1, <2>3, <2>4 DEF ScriptsInv, t
  <2>6. Down(n)
    BY <2>4, <2>5 DEF Ordered
  <2>. QED  BY <2>6
<1>. QED  BY <1>1, <1>2

(* What is published are states of sidecars. *)
LEMMA PublishedTypes ==
  ASSUME ApiTypes, NEW n \in Sidecar, Lives(n)
  PROVE  published' \in [Callers -> SUBSET (Sidecar \X {"Healthy", "Failed"})]
<1>1. ASSUME NEW s, Publish(n, s)
      PROVE  published'
               \in [Callers -> SUBSET (Sidecar \X {"Healthy", "Failed"})]
  <2>. DEFINE E == Sidecar \X {"Healthy", "Failed"}
  <2>1. s \in {"Healthy", "Failed"} => <<n, s>> \in E
    OBVIOUS
  <2>2. published \in [Callers -> SUBSET E]
    BY DEF ApiTypes
  <2>. HIDE DEF E
  <2>3. \A c \in Callers : IF s \in {"Healthy", "Failed"} /\ Waits(call[c])
                             THEN published[c] \cup {<<n, s>>} \in SUBSET E
                             ELSE published[c] \in SUBSET E
    BY <2>1, <2>2
  <2>4. published' \in [Callers -> SUBSET E]
    BY <1>1, <2>3 DEF Publish
  <2>. QED  BY <2>4 DEF E
<1>2. (\E s : Publish(n, s)) \/ UNCHANGED published
  <2>1. CASE Received(n) \/ SustainElapses(n) \/ Crashes(n)
    BY <2>1 DEF Received, Start, Ignore, StopMonitored, StopInBackoff,
                Shutdown, SustainElapses, Crashes
  <2>2. CASE Spawn(n) \/ SpawnOrGateFails(n) \/ Forgive(n)
             \/ BackoffElapses(n)
               \/ Kill(n) \/ AcknowledgeStop(n) \/ AcknowledgeRestart(n)
    BY <2>2 DEF Spawn, SpawnOrGateFails, Forgive, BackoffElapses, Kill,
                AcknowledgeStop, AcknowledgeRestart
  <2>3. CASE AnnounceStarting(n) \/ AnnounceHealthy(n) \/ EnterBackoff(n)
               \/ EnterFailed(n) \/ AnnounceStopping(n) \/ AnnounceStopped(n)
               \/ AnnounceShutdown(n)
    BY <2>3 DEF AnnounceStarting, AnnounceHealthy, EnterBackoff, EnterFailed,
                AnnounceStopping, AnnounceStopped, AnnounceShutdown
  <2>. QED  BY <2>1, <2>2, <2>3 DEF Lives, Supervise
<1>. QED  BY <1>1, <1>2 DEF ApiTypes

(* The invariant holds when the app begins. *)
LEMMA FleetInit == AppInit => FleetInv
<1>. SUFFICES ASSUME AppInit  PROVE FleetInv
  OBVIOUS
<1>. USE DEF AppInit, Init
<1>1. <<>> \in Seq(Step) /\ <<>> \in Seq(Threads)
  BY EmptySeq
<1>2. TaskTypes
  BY RetriesAssumption DEF TaskTypes, Stages, SidecarState
<1>3. ApiTypes
  BY <1>1 DEF ApiTypes
<1>4. StageInv
  BY DEF StageInv
<1>5. WaitInv
  BY DEF WaitInv, Waiting, Obeyed, Range, IsInjective
<1>6. QuietInv /\ ScriptsInv
  BY CallersThread DEF QuietInv, ScriptsInv, Ordered, Telling, NoCall
<1>7. EndingInv
  <2>1. \A n \in Sidecar : Near(n) \subseteq Sidecar
    BY NearIsSidecars
  <2>. QED  BY <2>1 DEF EndingInv, Ending, NoCommand
<1>8. AppInv
  BY DEF AppInv
<1>. QED  BY <1>2, <1>3, <1>4, <1>5, <1>6, <1>7, <1>8 DEF FleetInv

(* The invariant is kept by a step of a task. *)
LEMMA FleetTask ==
  ASSUME FleetInv, Active, UNCHANGED app, NEW n \in Sidecar, Lives(n),
         [AppNext]_appVars
  PROVE  FleetInv'
<1>0. TaskTypes /\ ApiTypes /\ StageInv /\ WaitInv /\ QuietInv
      /\ ScriptsInv /\ EndingInv
  BY DEF FleetInv, Active
<1>1. WaitInv' /\ ThreadsGoOn /\ SendTypes
  BY <1>0, ThreadsOfTask
<1>2. \A m \in Sidecar : Down(m) => Down(m)'
  BY <1>0, DownStays
<1>3. TaskTypes' /\ StageInv'
  BY <1>0, TaskTypesStep, StageStep DEF ApiTypes
<1>4. ApiTypes'
  BY <1>0, <1>1, PublishedTypes DEF ApiTypes, SendTypes, ThreadsGoOn
<1>5. ScriptsInv' /\ EndingInv'
  BY <1>0, <1>1, <1>2, ScriptsKept, EndingStep
<1>6. QuietInv'
  BY <1>0, <1>1 DEF QuietInv, ThreadsGoOn, Stays, Advances, GivesUp
<1>7. AppInv'
  BY <1>1, <1>2 DEF FleetInv, AppInv, Active, ThreadsGoOn
<1>. QED  BY <1>1, <1>3, <1>4, <1>5, <1>6, <1>7 DEF FleetInv

(* The invariant is kept by a step of a thread. *)
LEMMA FleetProceed ==
  ASSUME FleetInv, NEW t \in Threads, InApp(Proceed(t))
  PROVE  FleetInv'
<1>0. TaskTypes /\ ApiTypes /\ StageInv /\ WaitInv /\ QuietInv
      /\ ScriptsInv /\ EndingInv
      /\ app' = app /\ Active
  BY DEF FleetInv, InApp, Active
<1>1. WaitInv' /\ ThreadsGoOn /\ SendTypes
  BY <1>0, ThreadsOfCall DEF InApp
<1>2. UNCHANGED <<Local, published>>
  BY DEF InApp, Proceed, Send, SendFails, AwaitHealthy, AwaitFails, tasks,
         Local
<1>3. TaskTypes' /\ StageInv'
      /\ \A m \in Sidecar :
           (Down(m) <=> Down(m)') /\ (Ending(m) <=> Ending(m)')
  BY <1>0, <1>2 DEF TaskTypes, StageInv, Local, Down, Ending
<1>4. ApiTypes'
  BY <1>0, <1>1, <1>2 DEF ApiTypes, SendTypes, ThreadsGoOn
<1>5. ScriptsInv'
  BY <1>0, <1>1, <1>3, ScriptsKept
<1>6. EndingInv'
  <2>1. \A n \in Sidecar : Near(n) \subseteq Sidecar
    BY NearIsSidecars
  <2>. QED  BY <1>0, <1>3, <2>1 DEF EndingInv
<1>7. QuietInv'
  BY <1>0, <1>1 DEF QuietInv, ThreadsGoOn, Stays, Advances, GivesUp
<1>8. AppInv'
  BY <1>0, <1>1, <1>3 DEF FleetInv, AppInv, Active, ThreadsGoOn
<1>. QED  BY <1>0, <1>1, <1>3, <1>4, <1>5, <1>6, <1>7, <1>8 DEF FleetInv

(* Calls that begin and return leave the tasks alone. *)
LEMMA FleetCalls ==
  ASSUME FleetInv, app # "gone",
         app' \in {"setup", "refused", "running", "exiting"},
         UNCHANGED tasks, ApiTypes', WaitInv', QuietInv', ScriptsInv', AppInv'
  PROVE  FleetInv'
<1>3. TaskTypes' /\ StageInv'
      /\ \A m \in Sidecar :
           (Down(m) <=> Down(m)') /\ (Ending(m) <=> Ending(m)')
  BY DEF FleetInv, TaskTypes, StageInv, tasks, Down, Ending
<1>6. EndingInv'
  <2>1. \A n \in Sidecar : Near(n) \subseteq Sidecar
    BY NearIsSidecars
  <2>. QED  BY <1>3, <2>1 DEF FleetInv, EndingInv
<1>. QED  BY <1>3, <1>6 DEF FleetInv

(* The invariant is kept by every step of the app. *)
LEMMA FleetStep == FleetInv /\ [AppNext]_appVars => FleetInv'
<1>. SUFFICES ASSUME FleetInv, [AppNext]_appVars  PROVE FleetInv'
  OBVIOUS
<1>0. /\ TaskTypes /\ ApiTypes /\ StageInv /\ QuietInv /\ ScriptsInv
      /\ EndingInv /\ AppInv
      /\ app # "gone" => WaitInv
      /\ app \in {"setup", "refused", "running", "exiting", "gone"}
  BY DEF FleetInv
<1>1. CASE UNCHANGED appVars
  <2>1. UNCHANGED <<app, call, script, sent, task, state, running, attempt,
                    sustained, cmd, queue, published>>
    BY <1>1 DEF appVars, vars, tasks, api
  <2>2. TaskTypes' /\ StageInv' /\ ApiTypes' /\ QuietInv' /\ AppInv'
    BY <1>0, <2>1 DEF TaskTypes, StageInv, ApiTypes, QuietInv, AppInv, Down
  <2>3. ScriptsInv' /\ EndingInv'
    BY <1>0, <2>1 DEF ScriptsInv, Ordered, Telling, EndingInv, Ending, Down
  <2>4. (app # "gone" => WaitInv)'
    BY <1>0, <2>1 DEF WaitInv, Waiting, Obeyed, Commands
  <2>. QED  BY <1>0, <2>1, <2>2, <2>3, <2>4 DEF FleetInv
<1>2. CASE SetUp
  <2>1. CASE Autostart
    <3>1. StartAll \in Calls[Setup] /\ Setup \in Callers
      BY <2>1, PluginAssumption DEF Autostart
    <3>2. Invoke(Setup, StartAll) /\ app = "setup" /\ app' = "running"
      BY <1>2, <2>1 DEF SetUp
    <3>3. ApiTypes' /\ WaitInv' /\ QuietInv' /\ ScriptsInv'
      BY <1>0, <3>1, <3>2, InvokeStep
    <3>. QED  BY <3>2, <3>3, FleetCalls DEF AppInv, Invoke
  <2>2. CASE ~Autostart
    <3>1. /\ UNCHANGED <<call, script, sent, task, state, running, attempt,
                         sustained, cmd, queue, published>>
          /\ app = "setup" /\ app' = "running"
      BY <1>2, <2>2 DEF SetUp, vars, tasks, api
    <3>2. ApiTypes' /\ QuietInv' /\ AppInv'
      BY <1>0, <3>1 DEF ApiTypes, QuietInv, AppInv
    <3>3. ScriptsInv' /\ WaitInv'
      BY <1>0, <3>1 DEF ScriptsInv, Ordered, Telling, Down, WaitInv, Waiting,
                        Obeyed, Commands
    <3>. QED  BY <3>1, <3>2, <3>3, FleetCalls DEF tasks
  <2>. QED  BY <2>1, <2>2
<1>3. CASE SetUpFails
  <2>1. /\ UNCHANGED <<call, script, sent, task, state, running, attempt,
                       sustained, cmd, queue, published>>
        /\ app = "setup" /\ app' = "refused"
    BY <1>3 DEF SetUpFails, vars, tasks, api
  <2>2. ApiTypes' /\ QuietInv' /\ AppInv'
    BY <1>0, <2>1 DEF ApiTypes, QuietInv, AppInv
  <2>3. ScriptsInv' /\ WaitInv'
    BY <1>0, <2>1 DEF ScriptsInv, Ordered, Telling, Down, WaitInv, Waiting,
                      Obeyed, Commands
  <2>. QED  BY <2>1, <2>2, <2>3, FleetCalls DEF tasks
<1>4. CASE BeginExit
  <2>1. [api |-> "shutdown_all"] \in Calls[Exit] /\ Exit \in Callers
    BY PluginAssumption
  <2>2. Invoke(Exit, [api |-> "shutdown_all"]) /\ app = "running"
        /\ app' = "exiting"
    BY <1>4 DEF BeginExit
  <2>3. ApiTypes' /\ WaitInv' /\ QuietInv' /\ ScriptsInv'
    BY <1>0, <2>1, <2>2, InvokeStep
  <2>4. call'[Exit].api = "shutdown_all"
    BY <1>0, <2>1, <2>2 DEF Invoke, ApiTypes
  <2>. QED  BY <2>2, <2>3, <2>4, FleetCalls DEF AppInv, Invoke
<1>5. CASE EndExit
  <2>1. /\ call' = [c \in Callers |-> NoCall]
        /\ script' = [t \in Threads |-> <<>>] /\ sent' = {}
        /\ published' = [c \in Callers |-> {}]
        /\ UNCHANGED <<task, state, running, attempt, sustained, cmd, queue>>
        /\ app = "exiting" /\ app' = "gone" /\ script[<<Exit>>] = <<>>
    BY <1>5 DEF EndExit, Cut, tasks
  <2>2. TaskTypes' /\ StageInv'
    BY <1>0, <2>1 DEF TaskTypes, StageInv
  <2>3. ApiTypes' /\ QuietInv'
    BY <1>0, <2>1, EmptySeq DEF ApiTypes, QuietInv
  <2>4. \A n \in Sidecar : Down(n)'
    <3>1. call[Exit].api = "shutdown_all" /\ Exit \in Callers
      BY <1>0, <2>1, PluginAssumption DEF AppInv
    <3>2. Telling(Exit)
      BY <1>0, <3>1 DEF ScriptsInv
    <3>. QED  BY <2>1, <3>1, <3>2 DEF Telling, Down
  <2>5. ScriptsInv' /\ EndingInv' /\ AppInv'
    BY <2>1, <2>4, CallersThread
       DEF ScriptsInv, Ordered, Telling, NoCall, EndingInv, AppInv
  <2>. QED  BY <2>1, <2>2, <2>3, <2>5 DEF FleetInv
<1>6. CASE InApp(UserCalls)
  <2>1. PICK c \in Callers \ {Setup, Exit} : \E k \in Calls[c] : Invoke(c, k)
    BY <1>6 DEF InApp, UserCalls
  <2>. PICK k \in Calls[c] : Invoke(c, k)
    BY <2>1
  <2>2. app' = app /\ app \in {"running", "exiting"} /\ UNCHANGED tasks
    BY <1>6 DEF InApp, Invoke
  <2>3. ApiTypes' /\ WaitInv' /\ QuietInv' /\ ScriptsInv'
    BY <1>0, <2>1, <2>2, InvokeStep
  <2>4. call'[Exit] = call[Exit]
    BY <1>0, <2>1, PluginAssumption DEF Invoke, ApiTypes
  <2>. QED  BY <1>0, <2>2, <2>3, <2>4, FleetCalls DEF AppInv
<1>7. CASE InApp(CallsReturn)
  <2>1. PICK c \in Callers \ {Exit} : Return(c)
    BY <1>7 DEF InApp, CallsReturn
  <2>2. app' = app /\ app \in {"running", "exiting"} /\ UNCHANGED tasks
    BY <1>7, <2>1 DEF InApp, Return
  <2>3. ApiTypes' /\ WaitInv' /\ QuietInv' /\ ScriptsInv'
    BY <1>0, <2>1, <2>2, ReturnStep
  <2>4. call'[Exit] = call[Exit]
    BY <1>0, <2>1, PluginAssumption DEF Return, ApiTypes
  <2>. QED  BY <1>0, <2>2, <2>3, <2>4, FleetCalls DEF AppInv
<1>8. CASE \E t \in Threads : InApp(Proceed(t))
  BY <1>8, FleetProceed
<1>9. CASE \E n \in Sidecar : \/ InApp(Supervise(n))
                              \/ InApp(SustainElapses(n)) \/ InApp(Crashes(n))
  BY <1>9, FleetTask DEF InApp, Active, Lives
<1>10. CASE Over
  BY <1>1, <1>10 DEF Over
<1>. QED  BY <1>1, <1>2, <1>3, <1>4, <1>5, <1>6, <1>7, <1>8, <1>9, <1>10
             DEF AppNext

(* The invariant of the fleet: what each stage of a task means, who waits  *)
(* for whom, and in which order shutdowns go.                              *)
THEOREM FleetInvariant == AppSpec => []FleetInv
BY FleetInit, FleetStep, PTL DEF AppSpec

(* Variables keep their types; in particular a thread that waits for an    *)
(* answer has a command at the head of its script, whatever calls cross.   *)
THEOREM TypeCorrect == AppSpec => []AppTypeOK
<1>1. FleetInv => AppTypeOK
  BY DEF FleetInv, AppTypeOK, TypeOK, TaskTypes, ApiTypes
<1>. QED  BY <1>1, FleetInvariant, PTL

(* Shutdown in reverse order: a sidecar that is told to end is never one   *)
(* another running, or restarting, sidecar depends on.                     *)
THEOREM DownInOrder == AppSpec => []DependentsDownFirst
<1>1. FleetInv => DependentsDownFirst
  BY NearIsSidecars DEF FleetInv, DependentsDownFirst, EndingInv, Ending,
                        Down, StageInv, Near
<1>. QED  BY <1>1, FleetInvariant, PTL

(* No sidecar outlives the app: neither one that was starting nor one that *)
(* was between two restarts when it began to exit.                         *)
THEOREM NothingLeft == AppSpec => []NothingLeftBehind
<1>1. FleetInv => NothingLeftBehind
  BY DEF FleetInv, NothingLeftBehind, AppInv, Down, StageInv
<1>. QED  BY <1>1, FleetInvariant, PTL

(* shutdown_all returns only when no sidecar runs or can be started,       *)
(* whichever of several concurrent calls told it.                          *)
THEOREM ShutdownFinal == AppSpec => ShutdownIsFinal
<1>1. FleetInv /\ [AppNext]_appVars =>
        [\A c \in Callers :
           call[c].api = "shutdown_all" /\ call'[c] = NoCall =>
             \A n \in Sidecar : ~running[n] /\ Ending(n)]_vars
  <2>. SUFFICES ASSUME FleetInv, [AppNext]_appVars, NEW c \in Callers,
                       call[c].api = "shutdown_all", call'[c] = NoCall,
                       NEW n \in Sidecar
       PROVE  ~running[n] /\ Ending(n)
    OBVIOUS
  <2>0. TaskTypes /\ ApiTypes /\ StageInv /\ QuietInv /\ ScriptsInv
    BY DEF FleetInv
  <2>1. Down(n) => ~running[n] /\ Ending(n)
    BY <2>0 DEF Down, StageInv, Ending
  <2>2. ~UNCHANGED call
    BY DEF NoCall
  <2>3. Telling(c) /\ <<c>> \in Threads /\ CallerOf(<<c>>) = c
    BY <2>0, CallersThread DEF ScriptsInv
  <2>4. script[<<c>>] = <<>> => Down(n)
    BY <2>3 DEF Telling
  <2>5. CASE \E e \in Callers : Return(e)
    <3>1. Return(c)
      <4>. PICK e \in Callers : Return(e)
        BY <2>5
      <4>1. call' = [call EXCEPT ![e] = NoCall]
            /\ call \in [Callers -> Call \cup {NoCall}]
        BY <2>0 DEF Return, ApiTypes
      <4>2. call[c] # NoCall
        BY DEF NoCall
      <4>3. e = c
        BY <4>1, <4>2
      <4>. QED  BY <4>3
    <3>. QED  BY <2>1, <2>3, <2>4, <3>1 DEF Return
  <2>6. CASE EndExit
    <3>1. call[Exit].api = "shutdown_all" /\ Exit \in Callers
      BY <2>6, PluginAssumption DEF EndExit, FleetInv, AppInv
    <3>2. Telling(Exit)
      BY <2>0, <3>1 DEF ScriptsInv
    <3>. QED  BY <2>1, <2>6, <3>1, <3>2 DEF Telling, EndExit
  <2>7. CASE \E e \in Callers, k \in Call : Invoke(e, k)
    BY <2>0, <2>7 DEF Invoke, ApiTypes, Call, NoCall
  <2>8. CASE \E m \in Sidecar : Active /\ UNCHANGED app /\ Lives(m)
    <3>1. WaitInv
      BY <2>8 DEF FleetInv, Active
    <3>. QED  BY <2>0, <2>2, <2>8, <3>1, ThreadsOfTask DEF ThreadsGoOn
  <2>9. CASE \E t \in Threads : InApp(Proceed(t))
    BY <2>2, <2>9 DEF InApp, Proceed, Send, SendFails, AwaitHealthy,
                      AwaitFails
  <2>10. CASE UNCHANGED vars
    BY <2>2, <2>10 DEF vars, api
  <2>11. [api |-> "shutdown_all"] \in Call /\ StartAll \in Call
         /\ \A e \in Callers : Calls[e] \subseteq Call
    BY CallsAssumption DEF Call, StartAll
  <2>. QED  BY <2>5, <2>6, <2>7, <2>8, <2>9, <2>10, <2>11, PluginAssumption
               DEF AppNext, appVars, SetUp, SetUpFails, BeginExit, Over,
                   InApp, UserCalls, CallsReturn, Active, Lives
<1>. QED  BY <1>1, FleetInvariant, PTL DEF AppSpec, ShutdownIsFinal

(* A step of a task changes what Lifecycle sees of its own sidecar only. *)
LEMMA OthersStutter ==
  ASSUME TaskTypes, NEW n \in Sidecar, Lives(n), NEW m \in Sidecar, m # n
  PROVE  UNCHANGED L(m)!vars
<1>. USE DEF TaskTypes, Goto, Publish, tasks, api, L!vars, Wanted
<1>1. CASE Received(n)
  BY <1>1 DEF Received, Start, Ignore, StopMonitored, StopInBackoff, Shutdown
<1>2. CASE AnnounceStarting(n) \/ Spawn(n) \/ SpawnOrGateFails(n)
             \/ AnnounceHealthy(n) \/ Forgive(n) \/ Crashes(n)
             \/ SustainElapses(n)
  BY <1>2 DEF AnnounceStarting, Spawn, SpawnOrGateFails, AnnounceHealthy,
              Forgive, Crashes, SustainElapses
<1>3. CASE EnterBackoff(n) \/ EnterFailed(n) \/ BackoffElapses(n)
             \/ AnnounceStopping(n) \/ Kill(n)
  BY <1>3 DEF EnterBackoff, EnterFailed, BackoffElapses, AnnounceStopping,
              Kill
<1>4. CASE AcknowledgeStop(n) \/ AcknowledgeRestart(n)
             \/ AnnounceStopped(n) \/ AnnounceShutdown(n)
  BY <1>4 DEF AcknowledgeStop, AcknowledgeRestart, AnnounceStopped,
              AnnounceShutdown
<1>. QED  BY <1>1, <1>2, <1>3, <1>4 DEF Lives, Supervise

(* A step of a task is one of the abstract diagram, or is not seen there. *)
LEMMA LifeStep ==
  ASSUME TaskTypes, StageInv, NEW n \in Sidecar, Lives(n)
  PROVE  L(n)!Next \/ UNCHANGED L(n)!vars
<1>. USE DEF TaskTypes, StageInv, Goto, Publish, Receive, tasks, api,
             NoCommand, Wanted
<1>1. CASE Start(n)
  <2>1. CASE task[n] = "Idle"
    <3>1. L(n)!Accept
      BY <1>1, <2>1 DEF Start, L!Accept
    <3>. QED  BY <3>1 DEF L!Next
  <2>2. CASE task[n] = "Backoff"
    <3>1. L(n)!Forgive
      BY <1>1, <2>2 DEF Start, L!Forgive
    <3>. QED  BY <3>1 DEF L!Next
  <2>. QED  BY <1>1, <2>1, <2>2 DEF Start
<1>2. CASE Ignore(n)
  BY <1>2 DEF Ignore, L!vars
<1>3. CASE StopMonitored(n)
  <2>1. CASE cmd'[n].op = "Restart"
    BY <1>3, <2>1 DEF StopMonitored, L!vars
  <2>2. CASE cmd'[n].op # "Restart"
    <3>1. L(n)!Withdraw
      BY <1>3, <2>2 DEF StopMonitored, L!Withdraw
    <3>. QED  BY <3>1 DEF L!Next
  <2>. QED  BY <2>1, <2>2
<1>4. CASE StopInBackoff(n)
  <2>1. L(n)!Withdraw
    BY <1>4 DEF StopInBackoff, L!Withdraw
  <2>. QED  BY <2>1 DEF L!Next
<1>5. CASE Shutdown(n)
  <2>1. CASE task[n] = "Idle"
    BY <1>5, <2>1 DEF Shutdown, L!vars
  <2>2. CASE task[n] = "Backoff"
    <3>1. L(n)!Withdraw
      BY <1>5, <2>2 DEF Shutdown, L!Withdraw
    <3>. QED  BY <3>1 DEF L!Next
  <2>. QED  BY <1>5, <2>1, <2>2 DEF Shutdown
<1>6. CASE AnnounceStarting(n)
  <2>1. L(n)!AnnounceStarting
    BY <1>6 DEF AnnounceStarting, L!AnnounceStarting, L!Phases, SidecarState
  <2>. QED  BY <2>1 DEF L!Next
<1>7. CASE Spawn(n)
  <2>1. L(n)!Spawn
    BY <1>7 DEF Spawn, L!Spawn
  <2>. QED  BY <2>1 DEF L!Next
<1>8. CASE SpawnOrGateFails(n)
  <2>1. CASE running[n]
    <3>1. L(n)!Die
      BY <1>8, <2>1 DEF SpawnOrGateFails, L!Die
    <3>. QED  BY <3>1 DEF L!Next
  <2>2. CASE ~running[n]
    BY <1>8, <2>2 DEF SpawnOrGateFails, L!vars
  <2>. QED  BY <2>1, <2>2
<1>9. CASE AnnounceHealthy(n)
  <2>1. L(n)!AnnounceHealthy
    BY <1>9 DEF AnnounceHealthy, L!AnnounceHealthy
  <2>. QED  BY <2>1 DEF L!Next
<1>10. CASE Forgive(n)
  <2>1. CASE sustained[n]
    <3>1. L(n)!Forgive
      BY <1>10, <2>1 DEF Forgive, L!Forgive
    <3>. QED  BY <3>1 DEF L!Next
  <2>2. CASE ~sustained[n]
    BY <1>10, <2>2 DEF Forgive, L!vars
  <2>. QED  BY <2>1, <2>2
<1>11. CASE EnterBackoff(n)
  <2>1. L(n)!AnnounceBackoff
    BY <1>11 DEF EnterBackoff, L!AnnounceBackoff
  <2>. QED  BY <2>1 DEF L!Next
<1>12. CASE EnterFailed(n)
  <2>1. L(n)!GiveUp
    BY <1>12 DEF EnterFailed, L!GiveUp
  <2>. QED  BY <2>1 DEF L!Next
<1>13. CASE BackoffElapses(n)
  BY <1>13 DEF BackoffElapses, L!vars
<1>14. CASE AnnounceStopping(n)
  <2>1. L(n)!AnnounceStopping
    BY <1>14 DEF AnnounceStopping, L!AnnounceStopping
  <2>. QED  BY <2>1 DEF L!Next
<1>15. CASE Kill(n)
  <2>1. CASE running[n]
    <3>1. L(n)!Die
      BY <1>15, <2>1 DEF Kill, L!Die
    <3>. QED  BY <3>1 DEF L!Next
  <2>2. CASE ~running[n]
    BY <1>15, <2>2 DEF Kill, L!vars
  <2>. QED  BY <2>1, <2>2
<1>16. CASE AcknowledgeStop(n)
  BY <1>16 DEF AcknowledgeStop, L!vars
<1>17. CASE AcknowledgeRestart(n)
  <2>1. L(n)!Forgive
    BY <1>17 DEF AcknowledgeRestart, L!Forgive
  <2>. QED  BY <2>1 DEF L!Next
<1>18. CASE AnnounceStopped(n)
  <2>1. L(n)!AnnounceStopped
    BY <1>18 DEF AnnounceStopped, L!AnnounceStopped
  <2>. QED  BY <2>1 DEF L!Next
<1>19. CASE AnnounceShutdown(n)
  <2>1. L(n)!AnnounceStopped
    BY <1>19 DEF AnnounceShutdown, L!AnnounceStopped
  <2>. QED  BY <2>1 DEF L!Next
<1>20. CASE SustainElapses(n)
  <2>1. L(n)!Earn
    BY <1>20 DEF SustainElapses, L!Earn
  <2>. QED  BY <2>1 DEF L!Next
<1>21. CASE Crashes(n)
  <2>1. CASE running[n]
    <3>1. L(n)!Die
      BY <1>21, <2>1 DEF Crashes, L!Die
    <3>. QED  BY <3>1 DEF L!Next
  <2>2. CASE ~running[n]
    BY <1>21, <2>2 DEF Crashes, L!vars
  <2>. QED  BY <2>1, <2>2
<1>. QED  BY <1>1, <1>2, <1>3, <1>4, <1>5, <1>6, <1>7, <1>8, <1>9, <1>10,
             <1>11, <1>12, <1>13, <1>14, <1>15, <1>16, <1>17, <1>18, <1>19,
             <1>20, <1>21 DEF Lives, Supervise, Received

(* Every supervisor of the fleet implements Lifecycle, each by its own     *)
(* step, and none by the step of another.                                  *)
THEOREM FleetLivesLifecycle == AppSpec => FleetLives
<1>1. AppInit => \A n \in Sidecar : L(n)!Init
  BY RetriesAssumption DEF AppInit, Init, L!Init, Wanted
<1>2. FleetInv /\ [AppNext]_appVars =>
        [\A n \in Sidecar : [L(n)!Next]_(L(n)!vars)]_vars
  <2>. SUFFICES ASSUME FleetInv, [AppNext]_appVars, NEW m \in Sidecar
       PROVE  L(m)!Next \/ UNCHANGED L(m)!vars
    OBVIOUS
  <2>1. TaskTypes /\ StageInv
    BY DEF FleetInv
  <2>2. CASE UNCHANGED Local
    BY <2>2 DEF Local, L!vars, Wanted
  <2>3. ASSUME NEW n \in Sidecar, Lives(n)
        PROVE L(m)!Next \/ UNCHANGED L(m)!vars
    BY <2>1, <2>3, OthersStutter, LifeStep
  <2>. QED  BY <2>2, <2>3, StepKinds
<1>. QED  BY <1>1, <1>2, FleetInvariant, PTL DEF AppSpec, FleetLives

(* Threads that go on keep what they have been promised. *)
LEMMA StartThreads ==
  ASSUME ApiTypes, StartInv, ThreadsGoOn, NEW t \in Threads,
         published[CallerOf(t)] \subseteq published'[CallerOf(t)]
  PROVE  Promised(t)' /\ Entitled(t)'
<1>0. Promised(t) /\ Entitled(t) /\ CallerOf(t) \in Callers
  BY DEF StartInv, Threads, CallerOf
<1>1. CASE Stays(t)
  BY <1>0, <1>1 DEF Promised, Entitled, Stays, ThreadsGoOn
<1>2. CASE Advances(t)
  <2>0. script[t] # <<>> /\ script'[t] = Tail(script[t])
    BY <1>2 DEF Advances
  <2>. DEFINE s == script[t]
              p == published[CallerOf(t)]
              q == published'[CallerOf(t)]
  <2>1. /\ s \in Seq(Step) /\ Len(s) \in Nat \ {0} /\ DOMAIN s = 1 .. Len(s)
        /\ DOMAIN script'[t] = 1 .. Len(s) - 1
        /\ Head(s) = s[1] /\ s[1] \in Step
        /\ \A i \in 1 .. Len(s) - 1 : script'[t][i] = s[i + 1]
    BY <2>0, TailOfScript
  <2>2. s[1].do = "await" => <<s[1].to, "Healthy">> \in q
    <3>. SUFFICES ASSUME s[1].do = "await"  PROVE <<s[1].to, "Healthy">> \in q
      OBVIOUS
    <3>1. state[s[1].to] = "Healthy" /\ s[1].to \in Sidecar
      BY <1>2, <2>1 DEF Advances, Step
    <3>2. Waits(call[CallerOf(t)])
      BY <1>0, <2>1 DEF Entitled
    <3>. QED  BY <1>0, <3>1, <3>2 DEF StartInv, Seen
  <2>3. /\ \A i \in DOMAIN s : s[i].do = "Start" =>
             \A d \in Near(s[i].to) :
               <<d, "Healthy">> \in p
               \/ \E j \in 1 .. i - 1 : s[j] = Do("await", d)
        /\ \A i \in DOMAIN s : s[i].do = "await" => Waits(call[CallerOf(t)])
        /\ p \subseteq q
    BY <1>0 DEF Promised, Entitled, Awaited
  <2>. HIDE DEF s, p, q
  <2>4. ASSUME NEW i \in DOMAIN script'[t], script'[t][i].do = "Start",
               NEW d \in Near(script'[t][i].to), <<d, "Healthy">> \notin q
        PROVE  \E j \in 1 .. i - 1 : script'[t][j] = Do("await", d)
    <3>1. i \in 1 .. Len(s) - 1 /\ i + 1 \in DOMAIN s
          /\ script'[t][i] = s[i + 1]
      BY <2>1
    <3>2. PICK j \in 1 .. (i + 1) - 1 : s[j] = Do("await", d)
      BY <3>1, <2>3, <2>4
    <3>3. j # 1
      BY <2>2, <2>4, <3>2 DEF Do
    <3>4. j - 1 \in 1 .. i - 1 /\ script'[t][j - 1] = s[j]
      BY <2>1, <3>1, <3>2, <3>3
    <3>. QED  BY <3>2, <3>4
  <2>5. \A i \in DOMAIN script'[t] : script'[t][i].do = "await" =>
          Waits(call[CallerOf(t)])
    <3>. TAKE i \in DOMAIN script'[t]
    <3>1. i + 1 \in DOMAIN s /\ script'[t][i] = s[i + 1]
      BY <2>1
    <3>. QED  BY <2>3, <3>1
  <2>6. call' = call
    BY DEF ThreadsGoOn
  <2>. QED  BY <2>4, <2>5, <2>6 DEF Promised, Entitled, Awaited, q
<1>3. CASE GivesUp(t)
  BY <1>3 DEF GivesUp, Promised, Entitled
<1>. QED  BY <1>1, <1>2, <1>3 DEF ThreadsGoOn

(* A sidecar that gets healthy is seen by every call that waits. *)
LEMMA PublishSeen ==
  ASSUME ApiTypes, TaskTypes, Seen, UNCHANGED call, NEW n \in Sidecar,
         Lives(n)
  PROVE  Seen' /\ \A c \in Callers : published[c] \subseteq published'[c]
<1>1. ASSUME NEW s, Publish(n, s)
      PROVE  Seen' /\ \A c \in Callers : published[c] \subseteq published'[c]
  <2>1. /\ state'[n] = s /\ \A m \in Sidecar : m # n => state'[m] = state[m]
        /\ \A c \in Callers :
             published'[c] = IF s \in {"Healthy", "Failed"} /\ Waits(call[c])
                  THEN published[c] \cup {<<n, s>>} ELSE published[c]
    BY <1>1 DEF Publish, TaskTypes
  <2>. QED  BY <2>1 DEF Seen
<1>2. (\E s : Publish(n, s)) \/ UNCHANGED <<state, published>>
  <2>1. CASE Received(n) \/ SustainElapses(n) \/ Crashes(n)
    BY <2>1 DEF Received, Start, Ignore, StopMonitored, StopInBackoff,
                Shutdown, SustainElapses, Crashes
  <2>2. CASE Spawn(n) \/ SpawnOrGateFails(n) \/ Forgive(n)
             \/ BackoffElapses(n)
               \/ Kill(n) \/ AcknowledgeStop(n) \/ AcknowledgeRestart(n)
    BY <2>2 DEF Spawn, SpawnOrGateFails, Forgive, BackoffElapses, Kill,
                AcknowledgeStop, AcknowledgeRestart
  <2>3. CASE AnnounceStarting(n) \/ AnnounceHealthy(n) \/ EnterBackoff(n)
               \/ EnterFailed(n) \/ AnnounceStopping(n) \/ AnnounceStopped(n)
               \/ AnnounceShutdown(n)
    BY <2>3 DEF AnnounceStarting, AnnounceHealthy, EnterBackoff, EnterFailed,
                AnnounceStopping, AnnounceStopped, AnnounceShutdown
  <2>. QED  BY <2>1, <2>2, <2>3 DEF Lives, Supervise
<1>. QED  BY <1>1, <1>2 DEF Seen

(* A call begins with what is healthy, and awaits the rest in order. *)
LEMMA StartInvoke ==
  ASSUME ApiTypes, TaskTypes, QuietInv, StartInv,
         NEW c \in Callers, NEW k \in Calls[c], Invoke(c, k)
  PROVE  StartInv'
<1>1. k \in Call
  BY CallsAssumption
<1>2. /\ \A t \in Threads : CallerOf(t) = c => script'[t] = ScriptOf(t, k)
      /\ \A t \in Threads : CallerOf(t) # c => script'[t] = script[t]
      /\ call'[c] = k /\ \A e \in Callers \ {c} : call'[e] = call[e]
      /\ published'[c]
           = {e \in Sidecar \X {"Healthy"} : Waits(k) /\ state[e[1]] = e[2]}
      /\ \A e \in Callers \ {c} : published'[e] = published[e]
      /\ UNCHANGED state
  BY <1>1 DEF Invoke, ApiTypes, tasks
<1>3. Seen'
  <2>. SUFFICES ASSUME NEW e \in Callers, NEW n \in Sidecar, Waits(call'[e]),
                       state[n] = "Healthy"
       PROVE  <<n, "Healthy">> \in published'[e]
    BY <1>2 DEF Seen
  <2>1. CASE e = c
    BY <1>2, <2>1
  <2>2. CASE e # c
    BY <1>2, <2>2 DEF StartInv, Seen
  <2>. QED  BY <2>1, <2>2
<1>4. ASSUME NEW t \in Threads  PROVE Promised(t)' /\ Entitled(t)'
  <2>0. CallerOf(t) \in Callers
    BY DEF Threads, CallerOf
  <2>1. CASE CallerOf(t) = c
    <3>1. script'[t] = ScriptOf(t, k) /\ call'[CallerOf(t)] = k
      BY <1>2, <2>1
    <3>2. Promised(t)'
      BY <1>1, <3>1, ScriptAwaits DEF Promised
    <3>3. Entitled(t)'
      BY <1>1, <3>1, WhoAwaits DEF Entitled
    <3>. QED  BY <3>2, <3>3
  <2>2. CASE CallerOf(t) # c
    BY <1>2, <2>0, <2>2 DEF StartInv, Promised, Entitled
  <2>. QED  BY <2>1, <2>2
<1>. QED  BY <1>3, <1>4 DEF StartInv

(* A call returns, and forgets what it has seen. *)
LEMMA StartReturn ==
  ASSUME ApiTypes, StartInv, NEW c \in Callers, Return(c)
  PROVE  StartInv'
<1>1. /\ \A t \in Threads : CallerOf(t) = c => script[t] = <<>>
      /\ call'[c] = NoCall /\ \A e \in Callers \ {c} : call'[e] = call[e]
      /\ \A e \in Callers \ {c} : published'[e] = published[e]
      /\ UNCHANGED <<script, state>>
  BY DEF Return, ApiTypes, tasks
<1>2. ~Waits(NoCall)
  BY DEF Waits, NoCall
<1>3. Seen'
  BY <1>1, <1>2 DEF StartInv, Seen
<1>4. ASSUME NEW t \in Threads  PROVE Promised(t)' /\ Entitled(t)'
  <2>0. CallerOf(t) \in Callers
    BY DEF Threads, CallerOf
  <2>1. CASE CallerOf(t) = c
    BY <1>1, <2>1 DEF Promised, Entitled
  <2>2. CASE CallerOf(t) # c
    BY <1>1, <2>0, <2>2 DEF StartInv, Promised, Entitled
  <2>. QED  BY <2>1, <2>2
<1>. QED  BY <1>3, <1>4 DEF StartInv

(* Starts stay in order under every step of the app. *)
LEMMA StartStep == FleetInv /\ StartInv /\ [AppNext]_appVars => StartInv'
<1>. SUFFICES ASSUME FleetInv, StartInv, [AppNext]_appVars  PROVE StartInv'
  OBVIOUS
<1>0. TaskTypes /\ ApiTypes /\ StageInv /\ QuietInv
  BY DEF FleetInv
<1>1. CASE UNCHANGED vars
  BY <1>1 DEF vars, api, tasks, StartInv, Seen, Promised, Entitled
<1>2. CASE \E c \in Callers : \E k \in Calls[c] : Invoke(c, k)
  BY <1>0, <1>2, StartInvoke
<1>3. CASE \E c \in Callers : Return(c)
  BY <1>0, <1>3, StartReturn
<1>4. CASE EndExit
  <2>1. /\ call' = [c \in Callers |-> NoCall]
        /\ script' = [t \in Threads |-> <<>>]
    BY <1>4 DEF EndExit, Cut
  <2>. QED  BY <2>1 DEF StartInv, Seen, Promised, Entitled, Waits, NoCall
<1>5. CASE \E n \in Sidecar : Active /\ UNCHANGED app /\ Lives(n)
  <2>. PICK n \in Sidecar : Active /\ Lives(n)
    BY <1>5
  <2>1. ThreadsGoOn
    BY <1>0, ThreadsOfTask DEF FleetInv, Active
  <2>2. Seen' /\ \A c \in Callers : published[c] \subseteq published'[c]
    BY <1>0, <2>1, PublishSeen DEF ThreadsGoOn, StartInv
  <2>3. \A t \in Threads : CallerOf(t) \in Callers
    BY DEF Threads, CallerOf
  <2>. QED  BY <1>0, <2>1, <2>2, <2>3, StartThreads DEF StartInv
<1>6. CASE \E t \in Threads : InApp(Proceed(t))
  <2>. PICK u \in Threads : InApp(Proceed(u))
    BY <1>6
  <2>1. ThreadsGoOn
    BY <1>0, ThreadsOfCall DEF FleetInv, InApp
  <2>2. UNCHANGED <<state, published>>
    BY DEF InApp, Proceed, Send, SendFails, AwaitHealthy, AwaitFails, tasks
  <2>3. Seen'
    BY <2>1, <2>2 DEF StartInv, Seen, ThreadsGoOn
  <2>. QED  BY <1>0, <2>1, <2>2, <2>3, StartThreads DEF StartInv
<1>. QED  BY <1>1, <1>2, <1>3, <1>4, <1>5, <1>6, PluginAssumption
             DEF AppNext, appVars, SetUp, SetUpFails, BeginExit, Over, InApp,
                 UserCalls, CallsReturn, Active, Lives, Autostart

(* Nobody has anything to start when the app begins. *)
LEMMA StartInit == AppInit => StartInv
BY DEF AppInit, Init, StartInv, Seen, Promised, Entitled, Waits, NoCall

(* No sidecar is told to start before each of its dependencies has been    *)
(* healthy since the call began: neither by start, which takes them one by *)
(* one, nor by a thread of start_all, which waits for them.                *)
THEOREM DependenciesFirst == AppSpec => StartedAfterDependencies
<1>1. AppSpec => []StartInv
  BY FleetInvariant, StartInit, StartStep, PTL DEF AppSpec
<1>2. FleetInv /\ StartInv /\ [AppNext]_appVars =>
        [\A t \in sent' \ sent : Head(script[t]).do = "Start" =>
           \A d \in Range(DependsOn[Head(script[t]).to]) :
             <<d, "Healthy">> \in published[CallerOf(t)]]_vars
  <2>. SUFFICES ASSUME FleetInv, StartInv, [AppNext]_appVars,
                       NEW t \in sent' \ sent,
                       Head(script[t]).do = "Start",
                       NEW d \in Near(Head(script[t]).to)
       PROVE  <<d, "Healthy">> \in published[CallerOf(t)]
    BY DEF Near
  <2>0. TaskTypes /\ ApiTypes /\ StageInv /\ QuietInv
    BY DEF FleetInv
  <2>1. t \in Threads /\ script[t] # <<>>
    <3>1. CASE \E n \in Sidecar : Active /\ UNCHANGED app /\ Lives(n)
      <4>. PICK n \in Sidecar : Active /\ Lives(n)
        BY <3>1
      <4>1. sent' \subseteq sent
        BY <2>0, TaskEffects DEF AnswersHead, AnswersObeyed, AnswersAll,
                                 StopMonitored, api, Answer
      <4>. QED  BY <4>1
    <3>2. CASE \E u \in Threads : InApp(Proceed(u))
      BY <3>2 DEF InApp, Proceed, Send, SendFails, AwaitHealthy, AwaitFails,
                  Commands
    <3>3. CASE UNCHANGED sent \/ sent' = {}
      BY <3>3
    <3>. QED  BY <3>1, <3>2, <3>3
                 DEF AppNext, appVars, vars, api, SetUp, SetUpFails,
                     BeginExit, EndExit, Cut, Over, InApp, UserCalls,
                     CallsReturn, Invoke, Return, Active, Lives
  <2>2. Head(script[t]) = script[t][1] /\ 1 \in DOMAIN script[t]
    BY <2>0, <2>1, TailOfScript
  <2>3. Promised(t)
    BY <2>1 DEF StartInv
  <2>. QED  BY <2>2, <2>3 DEF Promised, Awaited
<1>. QED  BY <1>1, <1>2, FleetInvariant, PTL
             DEF AppSpec, StartedAfterDependencies
=============================================================================
