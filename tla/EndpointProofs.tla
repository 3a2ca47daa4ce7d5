--------------------------- MODULE EndpointProofs ---------------------------
(* Proofs of the safety invariants of Endpoint. *)
EXTENDS Endpoint, TLAPS

(* A process is one that the task has spawned and still watches. *)
Watched == {"Gate", "Ready", "Monitor", "Stop", "Hook", "Kill"}

UpInv == up => stage \in Watched

(* From the choice of a port to the end of its process nobody of the past  *)
(* listens on it.                                                          *)
ServedInv ==
  stage \in Watched \cup {"Spawn"} /\ cell # NoPort
    => listener[cell] # "leftover"

(* A port is stored before the process is spawned, and never taken back.   *)
PortInv ==
  config.port # "none" =>
    /\ stage \in Watched \cup {"Spawn"} => cell # NoPort
    /\ event = "Healthy" \/ state = "Healthy" \/ status.state = "Healthy"
         => cell # NoPort

(* A call of status reads the state first. *)
ReadInv == status.state = "unread" => status.port = "unread"

TokenInv == config.auth # "none" => token # NoToken

(* The inductive invariant: each promise with what keeps it. *)
IInv ==
  /\ TypeOK /\ UpInv /\ ServedInv /\ PortInv /\ TokenInv /\ ReadInv
  /\ EnvironmentAgrees /\ NoStaleServer /\ StatusHasPort

(* The types apart from those of the two flags. *)
OtherTypes ==
  /\ config \in Configs /\ token \in Token \cup {NoToken}
  /\ stage \in Stages /\ event \in SidecarState /\ state \in SidecarState
  /\ cell \in Port \cup {NoPort}
  /\ told \in [port : Port \cup {Unset, Preset}, token : Token \cup {Unset}]
  /\ listener \in [Port -> Servers \cup {"nobody"}]
  /\ peer \in Servers \cup {"nobody"}
  /\ call \in {"none", "Start", "Stop", "Restart", "started"}
  /\ status \in [state : SidecarState \cup {"unread"},
                 port  : Port \cup {NoPort, "unread"}]

LEMMA TypeParts ==
  /\ TypeOK <=> OtherTypes /\ up \in BOOLEAN /\ waiting \in BOOLEAN
  /\ TypeOK' <=> OtherTypes' /\ up' \in BOOLEAN /\ waiting' \in BOOLEAN
BY DEF TypeOK, OtherTypes

LEMMA InitEstablishes == Init => IInv
<1>. SUFFICES ASSUME Init PROVE IInv
  OBVIOUS
<1>. USE PortAssumption, ConfigsAssumption DEF Init
<1>1. config \in SidecarConfig
  OBVIOUS
<1>2. TypeOK
  BY <1>1 DEF TypeOK, SidecarConfig, Stages, SidecarState, Servers, Unread,
              Nothing, Unset, Preset, Token, NoToken
<1>3. TokenInv
  BY <1>1 DEF TokenInv, SidecarConfig, NoToken
<1>. QED
  BY <1>2, <1>3 DEF IInv, UpInv, ServedInv, PortInv, ReadInv, Watched, Unread,
                    EnvironmentAgrees, NoStaleServer, StatusHasPort

LEMMA AllocatablePorts ==
  ASSUME TypeOK, config.port # "none", NEW p \in Allocatable
  PROVE  p \in Port /\ listener[p] = "nobody"
<1>. config \in SidecarConfig
  BY ConfigsAssumption DEF TypeOK
<1>. QED
  BY PortAssumption DEF Allocatable, SidecarConfig

LEMMA UserSteps == ASSUME IInv, Users PROVE IInv'
<1>. USE PortAssumption DEF IInv, TypeOK, OtherTypes, setup, task, net
<1>. USE DEF UpInv, ServedInv, PortInv, TokenInv, ReadInv, EnvironmentAgrees,
             NoStaleServer, StatusHasPort
<1>1. ASSUME NEW op \in {"Start", "Stop", "Restart"}, Call(op) PROVE IInv'
  BY <1>1 DEF Call
<1>2. CASE ReadPort
  BY <1>2 DEF ReadPort
<1>3. CASE StatusState
  <2>1. status'.state = state /\ status'.port = status.port
    BY <1>3 DEF StatusState
  <2>2. OtherTypes'
    BY <1>3 DEF StatusState
  <2>3. up' \in BOOLEAN /\ waiting' \in BOOLEAN
    BY <1>3 DEF StatusState
  <2>4. (UpInv /\ ServedInv /\ TokenInv)'
    BY <1>3 DEF StatusState
  <2>5. (EnvironmentAgrees /\ NoStaleServer)'
    BY <1>3 DEF StatusState
  <2>6. PortInv'
    BY <1>3, <2>1 DEF StatusState
  <2>7. (ReadInv /\ StatusHasPort)'
    BY <1>3, <2>1, PortAssumption DEF StatusState, SidecarState
  <2>. QED
    BY <2>2, <2>3, <2>4, <2>5, <2>6, <2>7, TypeParts
<1>4. CASE StatusPort
  BY <1>4 DEF StatusPort
<1>5. CASE StatusReturns
  BY <1>5 DEF StatusReturns, Unread, SidecarState
<1>. QED
  BY <1>1, <1>2, <1>3, <1>4, <1>5 DEF Users

LEMMA WorldSteps == ASSUME IInv, World PROVE IInv'
<1>. USE PortAssumption DEF IInv, TypeOK, OtherTypes, setup, task, net,
                            Servers
<1>. USE DEF UpInv, ServedInv, PortInv, TokenInv, ReadInv, EnvironmentAgrees,
             NoStaleServer, StatusHasPort
<1>1. CASE Listens
  BY <1>1 DEF Listens
<1>2. CASE ProcessExits
  <2>1. up' \in BOOLEAN /\ waiting' \in BOOLEAN
    BY <1>2 DEF ProcessExits, Freed
  <2>2. (UpInv /\ ServedInv /\ PortInv /\ TokenInv /\ ReadInv)'
    BY <1>2 DEF ProcessExits, Freed
  <2>3. (EnvironmentAgrees /\ NoStaleServer /\ StatusHasPort)'
    BY <1>2 DEF ProcessExits, Freed
  <2>4. OtherTypes'
    BY <1>2 DEF ProcessExits, Freed
  <2>. QED
    BY <2>1, <2>2, <2>3, <2>4, TypeParts
<1>3. ASSUME NEW server \in Servers, Leaves(server) PROVE IInv'
  BY <1>3 DEF Leaves, Freed
<1>4. ASSUME NEW p \in Port, OtherListens(p) PROVE IInv'
  BY <1>4 DEF OtherListens
<1>. QED
  BY <1>1, <1>2, <1>3, <1>4 DEF World

LEMMA TaskSteps == ASSUME IInv, Task PROVE IInv'
<1>. USE PortAssumption DEF IInv, TypeOK, OtherTypes, setup, task, net,
         Servers, Stages, SidecarState, Watched, Goto, Publish, Acknowledge
<1>. USE DEF UpInv, ServedInv, PortInv, TokenInv, ReadInv, EnvironmentAgrees,
             NoStaleServer, StatusHasPort
<1>1. CASE Settle
  BY <1>1 DEF Settle
<1>2. CASE Received
  BY <1>2 DEF Received, Start, Ignore, StopInBackoff, StopMonitored
<1>3. CASE AnnounceStarting
  BY <1>3 DEF AnnounceStarting, Nothing, Unset
<1>4. CASE Allocate
  <2>1. CASE config.port # "none"
    BY <1>4, <2>1, AllocatablePorts DEF Allocate
  <2>2. CASE config.port = "none"
    BY <1>4, <2>2 DEF Allocate, Allocatable
  <2>. QED
    BY <2>1, <2>2
<1>5. CASE AllocateFails \/ SpawnFails
  BY <1>5 DEF AllocateFails, SpawnFails
<1>6. CASE Spawn
  <2>1. /\ told' = Environment /\ up' = TRUE
        /\ stage = "Spawn" /\ stage' = "Gate"
    BY <1>6 DEF Spawn
  <2>2. Environment \in
          [port : Port \cup {Unset, Preset}, token : Token \cup {Unset}]
    BY <2>1 DEF Environment
  <2>3. /\ config.port # "none" => Environment.port = cell
        /\ config.auth # "none" => Environment.token = token
    BY DEF Environment
  <2>. QED
    BY <1>6, <2>1, <2>2, <2>3 DEF Spawn
<1>7. CASE Gate
  <2>1. CASE NeedsNoProbe
    BY <2>1 DEF NeedsNoProbe
  <2>2. CASE ProbeTcp \/ ProbeHttp
    <3>1. up' \in BOOLEAN /\ waiting' \in BOOLEAN
      BY <2>2 DEF ProbeTcp, ProbeHttp, Connects
    <3>2. (UpInv /\ ServedInv /\ PortInv /\ TokenInv /\ ReadInv)'
      BY <2>2 DEF ProbeTcp, ProbeHttp, Connects
    <3>3. (EnvironmentAgrees /\ NoStaleServer /\ StatusHasPort)'
      BY <2>2 DEF ProbeTcp, ProbeHttp, Connects
    <3>4. OtherTypes'
      BY <2>2 DEF ProbeTcp, ProbeHttp, Connects
    <3>. QED
      BY <3>1, <3>2, <3>3, <3>4, TypeParts
  <2>3. CASE ProbeAnswered \/ ProbeEnds
    <3>1. up' \in BOOLEAN /\ waiting' \in BOOLEAN
      BY <2>3 DEF ProbeAnswered, ProbeEnds
    <3>2. (UpInv /\ ServedInv /\ PortInv /\ TokenInv /\ ReadInv)'
      BY <2>3 DEF ProbeAnswered, ProbeEnds
    <3>3. (EnvironmentAgrees /\ NoStaleServer /\ StatusHasPort)'
      BY <2>3 DEF ProbeAnswered, ProbeEnds
    <3>4. OtherTypes'
      BY <2>3 DEF ProbeAnswered, ProbeEnds
    <3>. QED
      BY <3>1, <3>2, <3>3, <3>4, TypeParts
  <2>4. CASE GateFails
    <3>1. up' \in BOOLEAN /\ waiting' \in BOOLEAN
      BY <2>4 DEF GateFails, Freed
    <3>2. (UpInv /\ ServedInv /\ PortInv /\ TokenInv /\ ReadInv)'
      BY <2>4 DEF GateFails, Freed
    <3>3. (EnvironmentAgrees /\ NoStaleServer /\ StatusHasPort)'
      BY <2>4 DEF GateFails, Freed
    <3>4. OtherTypes'
      BY <2>4 DEF GateFails, Freed
    <3>. QED
      BY <3>1, <3>2, <3>3, <3>4, TypeParts
  <2>. QED
    BY <1>7, <2>1, <2>2, <2>3, <2>4 DEF Gate
<1>8. CASE AnnounceHealthy \/ NoticeExit
  BY <1>8 DEF AnnounceHealthy, NoticeExit
<1>9. CASE EnterBackoff \/ EnterFailed \/ BackoffElapses
  BY <1>9 DEF EnterBackoff, EnterFailed, BackoffElapses
<1>10. CASE AnnounceStopping \/ AnnounceStopped
  BY <1>10 DEF AnnounceStopping, AnnounceStopped
<1>11. CASE HookConnects
  BY <1>11 DEF HookConnects, Connects
<1>12. CASE HookEnds
  <2>1. up' \in BOOLEAN /\ waiting' \in BOOLEAN
    BY <1>12 DEF HookEnds
  <2>2. (UpInv /\ ServedInv /\ PortInv /\ TokenInv /\ ReadInv)'
    BY <1>12 DEF HookEnds
  <2>3. (EnvironmentAgrees /\ NoStaleServer /\ StatusHasPort)'
    BY <1>12 DEF HookEnds
  <2>4. OtherTypes'
    BY <1>12 DEF HookEnds
  <2>. QED
    BY <2>1, <2>2, <2>3, <2>4, TypeParts
<1>13. CASE Kill
  <2>1. up' \in BOOLEAN /\ waiting' \in BOOLEAN
    BY <1>13 DEF Kill, Freed
  <2>2. (UpInv /\ ServedInv /\ PortInv /\ TokenInv /\ ReadInv)'
    BY <1>13 DEF Kill, Freed
  <2>3. (EnvironmentAgrees /\ NoStaleServer /\ StatusHasPort)'
    BY <1>13 DEF Kill, Freed
  <2>4. OtherTypes'
    BY <1>13 DEF Kill, Freed
  <2>. QED
    BY <2>1, <2>2, <2>3, <2>4, TypeParts
<1>. QED
  BY <1>1, <1>2, <1>3, <1>4, <1>5, <1>6, <1>7, <1>8, <1>9, <1>10, <1>11,
     <1>12, <1>13 DEF Task

(* Every behaviour of the endpoint keeps the inductive invariant. *)
THEOREM Inductive == Spec => []IInv
<1>1. IInv /\ [Next]_vars => IInv'
  <2>. SUFFICES ASSUME IInv, [Next]_vars PROVE IInv'
    OBVIOUS
  <2>1. CASE UNCHANGED vars
    BY <2>1 DEF vars, setup, task, net, IInv, TypeOK, UpInv, ServedInv,
                PortInv, TokenInv, ReadInv, EnvironmentAgrees, NoStaleServer,
                StatusHasPort
  <2>. QED
    BY <2>1, UserSteps, TaskSteps, WorldSteps DEF Next
<1>. QED
  BY InitEstablishes, <1>1, PTL DEF Spec

(* The types of the endpoint's variables, for any ports and configurations. *)
THEOREM TypeCorrect == Spec => []TypeOK
<1>1. IInv => TypeOK
  BY DEF IInv
<1>. QED
  BY Inductive, <1>1, PTL

(* What a process was told is what spawn_once stored and the handle holds.  *)
THEOREM EnvironmentCorrect == Spec => []EnvironmentAgrees
<1>1. IInv => EnvironmentAgrees
  BY DEF IInv
<1>. QED
  BY Inductive, <1>1, PTL

(* No probe and no hook reaches what an earlier process has left behind.   *)
THEOREM NoStaleServerCorrect == Spec => []NoStaleServer
<1>1. IInv => NoStaleServer
  BY DEF IInv
<1>. QED
  BY Inductive, <1>1, PTL

(* A status of Healthy comes with a port if the strategy gives one.        *)
THEOREM StatusCorrect == Spec => []StatusHasPort
<1>1. IInv => StatusHasPort
  BY DEF IInv
<1>. QED
  BY Inductive, <1>1, PTL
=============================================================================
