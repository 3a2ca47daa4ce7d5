-------------------------- MODULE SupervisorProofs --------------------------
(***************************************************************************)
(* Proofs about Supervisor, for any number of callers and trees, any       *)
(* capacity of the channel and any configuration.                          *)
(***************************************************************************)
EXTENDS Supervisor, TLAPS

(* The stages in which the spawned process may still be running. *)
Running == {"Record", "Gate", "Pass", "Monitor", "Stop", "Grace", "Kill"}

(* The stages in which the pid file has an entry. *)
Recorded == {"Gate", "Pass", "Monitor", "Exited", "Stop", "Grace", "Kill",
             "Clear"}

(* Which process there is, and what is known of it, at each stage. *)
TreeInv ==
  /\ \A t \in Tree : leader[t] # "none" => t = held /\ pc \in Running
  /\ pc \in Running \cup Recorded \cup {"Answer"} => held \in Tree
  /\ pc \in {"Idle", "Launch", "Spawn", "Return", "Ended"} => held = NoTree
  /\ recorded = IF pc \in Recorded THEN held ELSE NoTree
  /\ pc \in {"Clear", "Answer"} => ~workers[held]
  /\ config.platform = "windows" => \A t \in Tree : workers[t] => t = held

(* Which state is published at each stage. *)
StateInv ==
  /\ pc \in {"Spawn", "Record", "Gate", "Pass"} => state = "Starting"
  /\ pc \in {"Monitor", "Exited", "Stop"} => state = "Healthy"
  /\ pc \in {"Grace", "Answer"} => state = "Stopping"
  /\ pc \in {"Kill", "Clear"} =>
       state = IF cmd.op = "none" THEN "Starting" ELSE "Stopping"
  /\ pc = "Decide" => state \in {"Starting", "Healthy"}
  /\ pc = "Backoff" => state = "Backoff"
  /\ pc \in {"Stopped", "Retry"} => state \in {"Stopping", "Backoff"}
  /\ pc \in {"Idle", "Launch", "Leave"} => state \notin {"Starting", "Healthy"}

(* What the task is carrying out, and whether the sidecar is wanted. *)
CommandInv ==
  /\ pc \in {"Stop", "Grace", "Answer"} => cmd.op # "none"
  /\ pc \notin {"Stop", "Grace", "Kill", "Clear", "Answer", "Stopped"} =>
       cmd.op = "none"
  /\ pc \in {"Launch", "Spawn", "Record", "Gate", "Pass", "Monitor", "Exited",
             "Decide", "Backoff", "Retry"} => wanted
  /\ pc \in {"Idle", "Stopped", "Leave", "Quit", "Return", "Ended"} => ~wanted
  /\ pc \in {"Stop", "Grace", "Kill", "Clear", "Answer"} =>
       (wanted <=> cmd.op \in {"Restart", "none"})

IInv == TypeOK /\ TreeInv /\ StateInv /\ CommandInv

-----------------------------------------------------------------------------
(* Type correctness.                                                       *)

(* Taking a command off the channel: what is common to all its receivers.  *)
LEMMA ReceiveType ==
  ASSUME TypeOK, NEW op, Receive(op)
  PROVE  /\ Head(queue) \in Callers
         /\ queue' \in Seq(Callers) /\ Len(queue') <= QueueCapacity
         /\ wanted' \in BOOLEAN
         /\ open' = open
BY QueueCapacityAssumption DEF TypeOK, Receive

(* The initial values have their types: an idle task, an empty channel. *)
LEMMA InitType == Init => TypeOK
<1>. SUFFICES ASSUME Init  PROVE TypeOK
  OBVIOUS
<1>1. attempt \in 0 .. config.schedule
  BY ConfigsAssumption DEF Init, SidecarConfig
<1>2. cmd \in Command
  BY DEF Init, Nothing, Command
<1>3. queue \in Seq(Callers) /\ Len(queue) <= QueueCapacity
  BY QueueCapacityAssumption DEF Init
<1>. QED  BY <1>1, <1>2, <1>3 DEF Init, TypeOK, Stages, SidecarState

(* So have the values after a step of a caller... *)
LEMMA UsersType ==
  ASSUME TypeOK, Users
  PROVE  TypeOK'
<1>. USE QueueCapacityAssumption
     DEF TypeOK, progress, channel, tree, output
<1>1. ASSUME NEW c \in Callers, NEW op \in Operation, Call(c, op)
      PROVE  TypeOK'
  BY <1>1 DEF Call
<1>2. ASSUME NEW c \in Callers, Enqueue(c)
      PROVE  TypeOK'
  BY <1>2 DEF Enqueue
<1>3. ASSUME NEW c \in Callers, SendFails(c)
      PROVE  TypeOK'
  BY <1>3 DEF SendFails
<1>4. CASE DropManager
  BY <1>4 DEF DropManager
<1>. QED  BY <1>1, <1>2, <1>3, <1>4 DEF Users

(* ...of a process or a reader... *)
LEMMA ProcessesType ==
  ASSUME TypeOK, Processes
  PROVE  TypeOK'
<1>. USE DEF TypeOK, progress, channel, tree, output
<1>. PICK t \in Tree : \/ LeaderExits(t) \/ WorkersStart(t) \/ WorkersExit(t)
                       \/ Prints(t) \/ ReaderMatches(t)
  BY DEF Processes
<1>1. CASE LeaderExits(t)
  BY <1>1 DEF LeaderExits
<1>2. CASE WorkersStart(t)
  BY <1>2 DEF WorkersStart
<1>3. CASE WorkersExit(t)
  BY <1>3 DEF WorkersExit
<1>4. CASE Prints(t)
  BY <1>4 DEF Prints
<1>5. CASE ReaderMatches(t)
  BY <1>5 DEF ReaderMatches
<1>. QED  BY <1>1, <1>2, <1>3, <1>4, <1>5

(* ...of cmd_rx.recv() at each of its three places... *)
LEMMA ReceivedType ==
  ASSUME TypeOK, Received
  PROVE  TypeOK'
<1>. USE ConfigsAssumption, ReceiveType
     DEF TypeOK, progress, channel, tree, output, Goto, Stages, Command,
         Operation, AnswerAtOnce, SidecarConfig
<1>1. CASE IdleStart
  BY <1>1 DEF IdleStart
<1>2. CASE IdleStop
  BY <1>2 DEF IdleStop
<1>3. CASE IdleShutdown
  BY <1>3 DEF IdleShutdown
<1>4. CASE IdleClosed
  BY <1>4 DEF IdleClosed
<1>5. CASE MonitorStart
  BY <1>5 DEF MonitorStart
<1>6. CASE MonitorStop
  BY <1>6 DEF MonitorStop, Obey
<1>7. CASE MonitorClosed
  BY <1>7 DEF MonitorClosed
<1>8. CASE BackoffStart
  BY <1>8 DEF BackoffStart
<1>9. CASE BackoffStop
  BY <1>9 DEF BackoffStop
<1>10. CASE BackoffShutdown
  BY <1>10 DEF BackoffShutdown
<1>11. CASE BackoffClosed
  BY <1>11 DEF BackoffClosed
<1>. QED  BY <1>1, <1>2, <1>3, <1>4, <1>5, <1>6, <1>7, <1>8, <1>9, <1>10,
             <1>11 DEF Received

(* ...and of the rest of the task. *)
LEMMA TaskType ==
  ASSUME TypeOK, Task
  PROVE  TypeOK'
<1>. USE ConfigsAssumption, QueueCapacityAssumption
     DEF TypeOK, progress, channel, tree, output, Goto, Stages, Command,
         Operation, SidecarState, SidecarConfig
<1>1. CASE Received
  BY <1>1, ReceivedType
<1>2. CASE Return
  BY <1>2 DEF Return
<1>3. CASE AnnounceStarting
  BY <1>3 DEF AnnounceStarting
<1>4. ASSUME NEW t \in Tree, SpawnSucceeds(t)
      PROVE  TypeOK'
  BY <1>4 DEF SpawnSucceeds
<1>5. CASE SpawnFails
  BY <1>5 DEF SpawnFails
<1>6. CASE RecordPid
  BY <1>6 DEF RecordPid
<1>7. CASE HealthPasses
  BY <1>7 DEF HealthPasses
<1>8. CASE HealthFails
  BY <1>8 DEF HealthFails
<1>9. CASE HealthExits
  <2>1. leader' \in [Tree -> {"none", "running", "exited"}]
    BY <1>9 DEF HealthExits
  <2>. QED  BY <1>9, <2>1 DEF HealthExits
<1>10. CASE AnnounceHealthy
  BY <1>10 DEF AnnounceHealthy
<1>11. CASE ProcessExits
  <2>1. leader' \in [Tree -> {"none", "running", "exited"}]
    BY <1>11 DEF ProcessExits
  <2>. QED  BY <1>11, <2>1 DEF ProcessExits
<1>12. CASE ClearExited
  BY <1>12 DEF ClearExited
<1>13. CASE AnnounceStopping
  BY <1>13 DEF AnnounceStopping
<1>14. CASE GraceEnds
  <2>1. leader' \in [Tree -> {"none", "running", "exited"}]
    BY <1>14 DEF GraceEnds
  <2>. QED  BY <1>14, <2>1 DEF GraceEnds
<1>15. CASE KillTree
  <2>1. leader' \in [Tree -> {"none", "running", "exited"}]
    BY <1>15 DEF KillTree
  <2>2. workers' \in [Tree -> BOOLEAN]
    BY <1>15 DEF KillTree
  <2>. QED  BY <1>15, <2>1, <2>2 DEF KillTree
<1>16. CASE ClearPid
  BY <1>16 DEF ClearPid
<1>17. CASE AcknowledgeStop
  BY <1>17 DEF AcknowledgeStop, Acknowledged
<1>18. CASE AcknowledgeRestart
  BY <1>18 DEF AcknowledgeRestart, Acknowledged, Nothing
<1>19. CASE DropStopped
  BY <1>19 DEF DropStopped, Nothing
<1>20. CASE AnnounceStopped
  BY <1>20 DEF AnnounceStopped, Nothing
<1>21. CASE EnterBackoff
  BY <1>21 DEF EnterBackoff
<1>22. CASE EnterFailed
  BY <1>22 DEF EnterFailed
<1>23. CASE BackoffElapses
  BY <1>23 DEF BackoffElapses
<1>24. CASE Release
  <2>1. leader' \in [Tree -> {"none", "running", "exited"}]
    BY <1>24 DEF Release
  <2>2. workers' \in [Tree -> BOOLEAN]
    BY <1>24 DEF Release
  <2>3. pc' \in Stages /\ held' = NoTree
    BY <1>24 DEF Release
  <2>4. UNCHANGED <<config, progress, channel, recorded, output>>
    BY <1>24 DEF Release
  <2>. QED  BY <2>1, <2>2, <2>3, <2>4
<1>. QED  BY <1>1, <1>2, <1>3, <1>4, <1>5, <1>6, <1>7, <1>8, <1>9, <1>10,
             <1>11, <1>12, <1>13, <1>14, <1>15, <1>16, <1>17, <1>18,
             <1>19, <1>20, <1>21, <1>22, <1>23, <1>24 DEF Task

(* Every step preserves the types; in particular attempt stays within      *)
(* backoff_secs and the channel within its capacity.                       *)
LEMMA NextType == TypeOK /\ [Next]_vars => TypeOK'
<1>. SUFFICES ASSUME TypeOK, [Next]_vars  PROVE TypeOK'
  OBVIOUS
<1>1. CASE Users
  BY <1>1, UsersType
<1>2. CASE Processes
  BY <1>2, ProcessesType
<1>3. CASE Task
  BY <1>3, TaskType
<1>4. CASE SustainElapses
  BY <1>4 DEF SustainElapses, TypeOK, channel, tree, output
<1>5. CASE UNCHANGED vars
  BY <1>5 DEF vars, TypeOK, progress, channel, tree, output
<1>. QED  BY <1>1, <1>2, <1>3, <1>4, <1>5 DEF Next

(* The variables keep their types. *)
THEOREM TypeCorrect == Spec => []TypeOK
BY InitType, NextType, PTL DEF Spec

-----------------------------------------------------------------------------
(* The inductive invariant.                                                *)

LEMMA InitInv == Init => TreeInv /\ StateInv /\ CommandInv
BY DEF Init, TreeInv, StateInv, CommandInv, Nothing, Running, Recorded

(* Every step keeps track of the process there is: at each stage of the    *)
(* task only the held tree, and the pid file as the stage says.            *)
LEMMA TreeStep ==
  ASSUME TypeOK, TreeInv, [Next]_vars
  PROVE  TreeInv'
<1>. USE NoTreeAssumption
     DEF TypeOK, TreeInv, Running, Recorded, Goto, progress, channel, tree,
         output
<1>1. CASE Users
  BY <1>1 DEF Users, Call, Enqueue, SendFails, DropManager
<1>2. CASE Processes
  BY <1>2 DEF Processes, LeaderExits, WorkersStart, WorkersExit, Prints,
                   ReaderMatches
<1>3. CASE IdleStart
  BY <1>3 DEF IdleStart, Receive
<1>4. CASE IdleStop
  BY <1>4 DEF IdleStop, Receive
<1>5. CASE IdleShutdown
  BY <1>5 DEF IdleShutdown, Receive
<1>6. CASE IdleClosed
  BY <1>6 DEF IdleClosed
<1>7. CASE MonitorStart
  BY <1>7 DEF MonitorStart, Receive
<1>8. CASE MonitorStop
  BY <1>8 DEF MonitorStop, Receive, Obey
<1>9. CASE MonitorClosed
  BY <1>9 DEF MonitorClosed
<1>10. CASE BackoffStart
  BY <1>10 DEF BackoffStart, Receive
<1>11. CASE BackoffStop
  BY <1>11 DEF BackoffStop, Receive
<1>12. CASE BackoffShutdown
  BY <1>12 DEF BackoffShutdown, Receive
<1>13. CASE BackoffClosed
  BY <1>13 DEF BackoffClosed
<1>14. CASE Return
  BY <1>14 DEF Return
<1>15. CASE AnnounceStarting
  BY <1>15 DEF AnnounceStarting
<1>16. ASSUME NEW t \in Tree, SpawnSucceeds(t)
      PROVE  TreeInv'
  BY <1>16 DEF SpawnSucceeds
<1>17. CASE SpawnFails
  BY <1>17 DEF SpawnFails
<1>18. CASE RecordPid
  BY <1>18 DEF RecordPid
<1>19. CASE HealthPasses
  BY <1>19 DEF HealthPasses
<1>20. CASE HealthFails
  BY <1>20 DEF HealthFails
<1>21. CASE HealthExits
  BY <1>21 DEF HealthExits
<1>22. CASE AnnounceHealthy
  BY <1>22 DEF AnnounceHealthy
<1>23. CASE ProcessExits
  BY <1>23 DEF ProcessExits
<1>24. CASE ClearExited
  BY <1>24 DEF ClearExited
<1>25. CASE AnnounceStopping
  BY <1>25 DEF AnnounceStopping
<1>26. CASE GraceEnds
  BY <1>26 DEF GraceEnds
<1>27. CASE KillTree
  BY <1>27 DEF KillTree
<1>28. CASE ClearPid
  BY <1>28 DEF ClearPid
<1>29. CASE AcknowledgeStop
  BY <1>29 DEF AcknowledgeStop
<1>30. CASE AcknowledgeRestart
  BY <1>30 DEF AcknowledgeRestart
<1>31. CASE DropStopped
  BY <1>31 DEF DropStopped
<1>32. CASE AnnounceStopped
  BY <1>32 DEF AnnounceStopped
<1>33. CASE EnterBackoff
  BY <1>33 DEF EnterBackoff
<1>34. CASE EnterFailed
  BY <1>34 DEF EnterFailed
<1>35. CASE BackoffElapses
  BY <1>35 DEF BackoffElapses
<1>36. CASE Release
  BY <1>36 DEF Release
<1>37. CASE SustainElapses
  BY <1>37 DEF SustainElapses
<1>38. CASE UNCHANGED vars
  BY <1>38 DEF vars
<1>. QED  BY <1>1, <1>2, <1>3, <1>4, <1>5, <1>6, <1>7, <1>8, <1>9, <1>10,
             <1>11, <1>12, <1>13, <1>14, <1>15, <1>16, <1>17, <1>18,
             <1>19, <1>20, <1>21, <1>22, <1>23, <1>24, <1>25, <1>26,
             <1>27, <1>28, <1>29, <1>30, <1>31, <1>32, <1>33, <1>34,
             <1>35, <1>36, <1>37, <1>38 DEF Next, Task, Received

(* Every step publishes the state that belongs to the stage it leads to. *)
LEMMA StateStep ==
  ASSUME StateInv, CommandInv, [Next]_vars
  PROVE  StateInv'
<1>. USE DEF StateInv, CommandInv, Goto, progress, channel, tree, output
<1>1. CASE Users
  BY <1>1 DEF Users, Call, Enqueue, SendFails, DropManager
<1>2. CASE Processes
  BY <1>2 DEF Processes, LeaderExits, WorkersStart, WorkersExit, Prints,
                   ReaderMatches
<1>3. CASE IdleStart
  BY <1>3 DEF IdleStart, Receive, AnswerAtOnce
<1>4. CASE IdleStop
  BY <1>4 DEF IdleStop, Receive, AnswerAtOnce
<1>5. CASE IdleShutdown
  BY <1>5 DEF IdleShutdown, Receive, AnswerAtOnce
<1>6. CASE IdleClosed
  BY <1>6 DEF IdleClosed
<1>7. CASE MonitorStart
  BY <1>7 DEF MonitorStart, Receive, AnswerAtOnce
<1>8. CASE MonitorStop
  BY <1>8 DEF MonitorStop, Receive, Obey
<1>9. CASE MonitorClosed
  BY <1>9 DEF MonitorClosed
<1>10. CASE BackoffStart
  BY <1>10 DEF BackoffStart, Receive, AnswerAtOnce
<1>11. CASE BackoffStop
  BY <1>11 DEF BackoffStop, Receive
<1>12. CASE BackoffShutdown
  BY <1>12 DEF BackoffShutdown, Receive, AnswerAtOnce
<1>13. CASE BackoffClosed
  BY <1>13 DEF BackoffClosed
<1>14. CASE Return
  BY <1>14 DEF Return
<1>15. CASE AnnounceStarting
  BY <1>15 DEF AnnounceStarting
<1>16. ASSUME NEW t \in Tree, SpawnSucceeds(t)
      PROVE  StateInv'
  BY <1>16 DEF SpawnSucceeds
<1>17. CASE SpawnFails
  BY <1>17 DEF SpawnFails
<1>18. CASE RecordPid
  BY <1>18 DEF RecordPid
<1>19. CASE HealthPasses
  BY <1>19 DEF HealthPasses
<1>20. CASE HealthFails
  BY <1>20 DEF HealthFails
<1>21. CASE HealthExits
  BY <1>21 DEF HealthExits
<1>22. CASE AnnounceHealthy
  BY <1>22 DEF AnnounceHealthy
<1>23. CASE ProcessExits
  BY <1>23 DEF ProcessExits
<1>24. CASE ClearExited
  BY <1>24 DEF ClearExited
<1>25. CASE AnnounceStopping
  BY <1>25 DEF AnnounceStopping
<1>26. CASE GraceEnds
  BY <1>26 DEF GraceEnds
<1>27. CASE KillTree
  BY <1>27 DEF KillTree
<1>28. CASE ClearPid
  BY <1>28 DEF ClearPid
<1>29. CASE AcknowledgeStop
  BY <1>29 DEF AcknowledgeStop, Acknowledged
<1>30. CASE AcknowledgeRestart
  BY <1>30 DEF AcknowledgeRestart, Acknowledged, Nothing
<1>31. CASE DropStopped
  BY <1>31 DEF DropStopped, Nothing
<1>32. CASE AnnounceStopped
  BY <1>32 DEF AnnounceStopped, Nothing
<1>33. CASE EnterBackoff
  BY <1>33 DEF EnterBackoff
<1>34. CASE EnterFailed
  BY <1>34 DEF EnterFailed
<1>35. CASE BackoffElapses
  BY <1>35 DEF BackoffElapses
<1>36. CASE Release
  BY <1>36 DEF Release
<1>37. CASE SustainElapses
  BY <1>37 DEF SustainElapses
<1>38. CASE UNCHANGED vars
  BY <1>38 DEF vars
<1>. QED  BY <1>1, <1>2, <1>3, <1>4, <1>5, <1>6, <1>7, <1>8, <1>9, <1>10,
             <1>11, <1>12, <1>13, <1>14, <1>15, <1>16, <1>17, <1>18,
             <1>19, <1>20, <1>21, <1>22, <1>23, <1>24, <1>25, <1>26,
             <1>27, <1>28, <1>29, <1>30, <1>31, <1>32, <1>33, <1>34,
             <1>35, <1>36, <1>37, <1>38 DEF Next, Task, Received

(* A command is carried out in the stages of stop_process only, and the    *)
(* sidecar is wanted unless the last command obeyed was a stop.            *)
LEMMA CommandStep ==
  ASSUME TypeOK, StateInv, CommandInv, [Next]_vars
  PROVE  CommandInv'
<1>. USE DEF TypeOK, StateInv, CommandInv, Command, Goto, progress,
             channel, tree, output
<1>1. CASE Users
  BY <1>1 DEF Users, Call, Enqueue, SendFails, DropManager
<1>2. CASE Processes
  BY <1>2 DEF Processes, LeaderExits, WorkersStart, WorkersExit, Prints,
                   ReaderMatches
<1>3. CASE IdleStart
  BY <1>3 DEF IdleStart, Receive, AnswerAtOnce
<1>4. CASE IdleStop
  BY <1>4 DEF IdleStop, Receive, AnswerAtOnce
<1>5. CASE IdleShutdown
  BY <1>5 DEF IdleShutdown, Receive, AnswerAtOnce
<1>6. CASE IdleClosed
  BY <1>6 DEF IdleClosed
<1>7. CASE MonitorStart
  BY <1>7 DEF MonitorStart, Receive, AnswerAtOnce
<1>8. CASE MonitorStop
  <2>1. PICK op \in {"Stop", "Restart", "Shutdown"} : Receive(op) /\ Obey(op)
    BY <1>8 DEF MonitorStop
  <2>2. wanted' <=> op = "Restart"
    BY <2>1 DEF Receive
  <2>3. cmd'.op = op
    BY <2>1 DEF Obey
  <2>4. pc' = "Stop"
    BY <1>8 DEF MonitorStop
  <2>. QED  BY <2>2, <2>3, <2>4
<1>9. CASE MonitorClosed
  BY <1>9 DEF MonitorClosed
<1>10. CASE BackoffStart
  BY <1>10 DEF BackoffStart, Receive, AnswerAtOnce
<1>11. CASE BackoffStop
  BY <1>11 DEF BackoffStop, Receive
<1>12. CASE BackoffShutdown
  BY <1>12 DEF BackoffShutdown, Receive, AnswerAtOnce
<1>13. CASE BackoffClosed
  BY <1>13 DEF BackoffClosed
<1>14. CASE Return
  BY <1>14 DEF Return
<1>15. CASE AnnounceStarting
  BY <1>15 DEF AnnounceStarting
<1>16. ASSUME NEW t \in Tree, SpawnSucceeds(t)
      PROVE  CommandInv'
  BY <1>16 DEF SpawnSucceeds
<1>17. CASE SpawnFails
  BY <1>17 DEF SpawnFails
<1>18. CASE RecordPid
  BY <1>18 DEF RecordPid
<1>19. CASE HealthPasses
  BY <1>19 DEF HealthPasses
<1>20. CASE HealthFails
  BY <1>20 DEF HealthFails
<1>21. CASE HealthExits
  BY <1>21 DEF HealthExits
<1>22. CASE AnnounceHealthy
  BY <1>22 DEF AnnounceHealthy
<1>23. CASE ProcessExits
  BY <1>23 DEF ProcessExits
<1>24. CASE ClearExited
  BY <1>24 DEF ClearExited
<1>25. CASE AnnounceStopping
  BY <1>25 DEF AnnounceStopping
<1>26. CASE GraceEnds
  BY <1>26 DEF GraceEnds
<1>27. CASE KillTree
  BY <1>27 DEF KillTree
<1>28. CASE ClearPid
  BY <1>28 DEF ClearPid
<1>29. CASE AcknowledgeStop
  BY <1>29 DEF AcknowledgeStop, Acknowledged
<1>30. CASE AcknowledgeRestart
  BY <1>30 DEF AcknowledgeRestart, Acknowledged, Nothing
<1>31. CASE DropStopped
  BY <1>31 DEF DropStopped, Nothing
<1>32. CASE AnnounceStopped
  BY <1>32 DEF AnnounceStopped, Nothing
<1>33. CASE EnterBackoff
  BY <1>33 DEF EnterBackoff
<1>34. CASE EnterFailed
  BY <1>34 DEF EnterFailed
<1>35. CASE BackoffElapses
  BY <1>35 DEF BackoffElapses
<1>36. CASE Release
  BY <1>36 DEF Release
<1>37. CASE SustainElapses
  BY <1>37 DEF SustainElapses
<1>38. CASE UNCHANGED vars
  BY <1>38 DEF vars
<1>. QED  BY <1>1, <1>2, <1>3, <1>4, <1>5, <1>6, <1>7, <1>8, <1>9, <1>10,
             <1>11, <1>12, <1>13, <1>14, <1>15, <1>16, <1>17, <1>18,
             <1>19, <1>20, <1>21, <1>22, <1>23, <1>24, <1>25, <1>26,
             <1>27, <1>28, <1>29, <1>30, <1>31, <1>32, <1>33, <1>34,
             <1>35, <1>36, <1>37, <1>38 DEF Next, Task, Received

(* The invariant holds in every behaviour: what is published, held,        *)
(* recorded and commanded always belongs to where the task stands.         *)
THEOREM Inductive == Spec => []IInv
<1>1. Init => IInv
  BY InitType, InitInv DEF IInv
<1>2. IInv /\ [Next]_vars => IInv'
  BY NextType, TreeStep, StateStep, CommandStep DEF IInv
<1>. QED  BY <1>1, <1>2, PTL DEF Spec

-----------------------------------------------------------------------------
(* What the invariant says of each promise.                                *)

(* The pid file names the running process from the step after its spawn,   *)
(* and never one the task has let go.                                      *)
THEOREM PidFileCorrect == Spec => []PidFileTracks
<1>1. IInv => PidFileTracks
  BY NoTreeAssumption
     DEF IInv, TypeOK, TreeInv, PidFileTracks, Running, Recorded
<1>. QED  BY <1>1, Inductive, PTL

(* A sidecar published as Idle, Backoff, Stopped or Failed has no process. *)
THEOREM DownCorrect == Spec => []DownMeansNoProcess
<1>1. IInv => DownMeansNoProcess
  BY DEF IInv, TreeInv, StateInv, DownMeansNoProcess, Running
<1>. QED  BY <1>1, Inductive, PTL

(* On Windows nothing outlives the job of the tree the task holds.         *)
THEOREM JobCorrect == Spec => []JobContainsTree
<1>1. IInv => JobContainsTree
  BY DEF IInv, TreeInv, JobContainsTree, Alive
<1>. QED  BY <1>1, Inductive, PTL

(* Where a call can return: only a start is answered while the process     *)
(* runs, and no process changes with the answer.                           *)
LEMMA ReturnStages ==
  ASSUME TypeOK, [Next]_vars,
         NEW c \in Callers, call[c] # "none", call'[c] = "none"
  PROVE  /\ \/ pc \in {"Idle", "Backoff", "Answer", "Return", "Ended"}
            \/ call[c] = "Start"
         /\ leader' = leader
<1>. DEFINE Goal == /\ \/ pc \in {"Idle", "Backoff", "Answer", "Return", "Ended"}
                       \/ call[c] = "Start"
                    /\ leader' = leader
<1>. USE DEF TypeOK, Goto, progress, channel, tree, output
<1>1. CASE Users
  BY <1>1 DEF Users, Call, Enqueue, SendFails, DropManager, Operation
<1>2. CASE Processes
  BY <1>2 DEF Processes, LeaderExits, WorkersStart, WorkersExit, Prints,
                   ReaderMatches
<1>3. CASE IdleStart
  BY <1>3 DEF IdleStart, Receive, AnswerAtOnce
<1>4. CASE IdleStop
  BY <1>4 DEF IdleStop, Receive, AnswerAtOnce
<1>5. CASE IdleShutdown
  BY <1>5 DEF IdleShutdown, Receive, AnswerAtOnce
<1>6. CASE IdleClosed
  BY <1>6 DEF IdleClosed
<1>7. CASE MonitorStart
  BY <1>7 DEF MonitorStart, Receive, AnswerAtOnce
<1>8. CASE MonitorStop
  BY <1>8 DEF MonitorStop, Receive, Obey
<1>9. CASE MonitorClosed
  BY <1>9 DEF MonitorClosed
<1>10. CASE BackoffStart
  BY <1>10 DEF BackoffStart, Receive, AnswerAtOnce
<1>11. CASE BackoffStop
  BY <1>11 DEF BackoffStop, Receive
<1>12. CASE BackoffShutdown
  BY <1>12 DEF BackoffShutdown, Receive, AnswerAtOnce
<1>13. CASE BackoffClosed
  BY <1>13 DEF BackoffClosed
<1>14. CASE Return
  BY <1>14 DEF Return
<1>15. CASE AnnounceStarting
  BY <1>15 DEF AnnounceStarting
<1>16. ASSUME NEW t \in Tree, SpawnSucceeds(t)
      PROVE  Goal
  BY <1>16 DEF SpawnSucceeds
<1>17. CASE SpawnFails
  BY <1>17 DEF SpawnFails
<1>18. CASE RecordPid
  BY <1>18 DEF RecordPid
<1>19. CASE HealthPasses
  BY <1>19 DEF HealthPasses
<1>20. CASE HealthFails
  BY <1>20 DEF HealthFails
<1>21. CASE HealthExits
  BY <1>21 DEF HealthExits
<1>22. CASE AnnounceHealthy
  BY <1>22 DEF AnnounceHealthy
<1>23. CASE ProcessExits
  BY <1>23 DEF ProcessExits
<1>24. CASE ClearExited
  BY <1>24 DEF ClearExited
<1>25. CASE AnnounceStopping
  BY <1>25 DEF AnnounceStopping
<1>26. CASE GraceEnds
  BY <1>26 DEF GraceEnds
<1>27. CASE KillTree
  BY <1>27 DEF KillTree
<1>28. CASE ClearPid
  BY <1>28 DEF ClearPid
<1>29. CASE AcknowledgeStop
  BY <1>29 DEF AcknowledgeStop, Acknowledged
<1>30. CASE AcknowledgeRestart
  BY <1>30 DEF AcknowledgeRestart, Acknowledged
<1>31. CASE DropStopped
  BY <1>31 DEF DropStopped
<1>32. CASE AnnounceStopped
  BY <1>32 DEF AnnounceStopped
<1>33. CASE EnterBackoff
  BY <1>33 DEF EnterBackoff
<1>34. CASE EnterFailed
  BY <1>34 DEF EnterFailed
<1>35. CASE BackoffElapses
  BY <1>35 DEF BackoffElapses
<1>36. CASE Release
  BY <1>36 DEF Release
<1>37. CASE SustainElapses
  BY <1>37 DEF SustainElapses
<1>38. CASE UNCHANGED vars
  BY <1>38 DEF vars
<1>. QED  BY <1>1, <1>2, <1>3, <1>4, <1>5, <1>6, <1>7, <1>8, <1>9, <1>10,
             <1>11, <1>12, <1>13, <1>14, <1>15, <1>16, <1>17, <1>18,
             <1>19, <1>20, <1>21, <1>22, <1>23, <1>24, <1>25, <1>26,
             <1>27, <1>28, <1>29, <1>30, <1>31, <1>32, <1>33, <1>34,
             <1>35, <1>36, <1>37, <1>38 DEF Next, Task, Received

(* A stop or a shutdown that returns leaves no process running, in         *)
(* whatever stage the task obeyed it.                                      *)
THEOREM StopCorrect == Spec => StopReturnsDown
<1>1. IInv /\ [Next]_vars =>
        \A c \in Callers :
          call[c] \in {"Stop", "Shutdown"} /\ call'[c] = "none" =>
            \A t \in Tree : leader'[t] # "running"
  BY ReturnStages DEF IInv, TreeInv, Running
<1>. QED  BY <1>1, Inductive, PTL DEF Spec, StopReturnsDown

(* When stop, restart or shutdown of a running sidecar returns, no process *)
(* of its tree is left.                                                    *)
THEOREM TreeGoneCorrect == Spec => TreeGoneOnReturn
<1>1. IInv /\ [Next]_vars =>
        \A c \in Callers :
          /\ call[c] \in {"Stop", "Restart", "Shutdown"} /\ call'[c] = "none"
          /\ state = "Stopping" /\ held # NoTree
          => ~Alive(held)
  BY ReturnStages DEF IInv, TreeInv, StateInv, Running, Alive
<1>. QED  BY <1>1, Inductive, PTL DEF Spec, TreeGoneOnReturn

-----------------------------------------------------------------------------
(* Every behaviour is one of Lifecycle, under the mapping of the instance  *)
(* L.  Most steps of the task are invisible there; each of the others is   *)
(* exactly one step of the abstract diagram.                               *)

(* An idle supervisor is an idle sidecar. *)
LEMMA InitRefines == Init => L!Init
BY ConfigsAssumption DEF Init, L!Init, SidecarConfig

(* Receiving a stop or a shutdown withdraws the request to run. *)
LEMMA StopWithdraws ==
  ASSUME NEW op, op \notin {"Start", "Restart"}, Receive(op)
  PROVE  wanted' = FALSE
<1>1. wanted' = (op \in {"Start", "Restart"})
  BY DEF Receive
<1>2. (op \in {"Start", "Restart"}) = FALSE
  OBVIOUS
<1>. QED  BY <1>1, <1>2, Zenon

(* Every step of a task, its callers, processes and readers is one step of *)
(* the abstract diagram or is not seen there.                              *)
LEMMA StepRefines ==
  ASSUME IInv, [Next]_vars
  PROVE  L!Next \/ UNCHANGED L!vars
<1>. USE NoTreeAssumption
     DEF IInv, TypeOK, TreeInv, StateInv, CommandInv, Running, Goto, progress,
         channel, tree, output
<1>1. CASE Users
  BY <1>1 DEF Users, Call, Enqueue, SendFails, DropManager, L!vars
<1>2. CASE Processes
  <2>. PICK t \in Tree : \/ LeaderExits(t) \/ WorkersStart(t) \/ WorkersExit(t)
                         \/ Prints(t) \/ ReaderMatches(t)
    BY <1>2 DEF Processes
  <2>1. CASE LeaderExits(t)
    <3>1. L!Die
      BY <2>1 DEF LeaderExits, L!Die
    <3>. QED  BY <3>1 DEF L!Next
  <2>2. CASE WorkersStart(t) \/ WorkersExit(t) \/ Prints(t) \/ ReaderMatches(t)
    <3>1. UNCHANGED L!vars
      BY <2>2 DEF WorkersStart, WorkersExit, Prints, ReaderMatches, L!vars
    <3>. QED  BY <3>1
  <2>. QED  BY <2>1, <2>2
<1>3. CASE IdleStart
  <2>1. L!Accept
    BY <1>3 DEF IdleStart, Receive, L!Accept
  <2>. QED  BY <2>1 DEF L!Next
<1>4. CASE IdleStop
  BY <1>4 DEF IdleStop, Receive, L!vars
<1>5. CASE IdleShutdown
  BY <1>5 DEF IdleShutdown, Receive, L!vars
<1>6. CASE IdleClosed
  BY <1>6 DEF IdleClosed, L!vars
<1>7. CASE MonitorStart
  BY <1>7 DEF MonitorStart, Receive, L!vars
<1>8. CASE MonitorStop
  <2>. PICK op \in {"Stop", "Restart", "Shutdown"} : Receive(op) /\ Obey(op)
    BY <1>8 DEF MonitorStop
  <2>1. CASE op = "Restart"
    <3>1. UNCHANGED L!vars
      BY <2>1, <1>8 DEF MonitorStop, Receive, L!vars
    <3>. QED  BY <3>1
  <2>2. CASE op # "Restart"
    <3>1. wanted' = FALSE
      BY <2>2, StopWithdraws
    <3>2. L!Withdraw
      BY <3>1, <1>8 DEF MonitorStop, L!Withdraw
    <3>. QED  BY <3>2 DEF L!Next
  <2>. QED  BY <2>1, <2>2
<1>9. CASE MonitorClosed
  <2>1. L!Withdraw
    BY <1>9 DEF MonitorClosed, L!Withdraw
  <2>. QED  BY <2>1 DEF L!Next
<1>10. CASE BackoffStart
  <2>1. L!Forgive
    BY <1>10 DEF BackoffStart, Receive, L!Forgive
  <2>. QED  BY <2>1 DEF L!Next
<1>11. CASE BackoffStop
  <2>1. wanted' = FALSE
    BY <1>11, StopWithdraws DEF BackoffStop
  <2>2. L!Withdraw
    BY <2>1, <1>11 DEF BackoffStop, L!Withdraw
  <2>. QED  BY <2>2 DEF L!Next
<1>12. CASE BackoffShutdown
  <2>1. wanted' = FALSE
    BY <1>12, StopWithdraws DEF BackoffShutdown
  <2>2. L!Withdraw
    BY <2>1, <1>12 DEF BackoffShutdown, L!Withdraw
  <2>. QED  BY <2>2 DEF L!Next
<1>13. CASE BackoffClosed
  <2>1. L!Withdraw
    BY <1>13 DEF BackoffClosed, L!Withdraw
  <2>. QED  BY <2>1 DEF L!Next
<1>14. CASE Return
  BY <1>14 DEF Return, L!vars
<1>15. CASE AnnounceStarting
  <2>1. L!AnnounceStarting
    BY <1>15 DEF AnnounceStarting, L!AnnounceStarting, L!Phases, SidecarState
  <2>. QED  BY <2>1 DEF L!Next
<1>16. ASSUME NEW t \in Tree, SpawnSucceeds(t)
      PROVE  L!Next \/ UNCHANGED L!vars
  <2>1. L!Spawn
    BY <1>16 DEF SpawnSucceeds, L!Spawn
  <2>. QED  BY <2>1 DEF L!Next
<1>17. CASE SpawnFails
  BY <1>17 DEF SpawnFails, L!vars
<1>18. CASE RecordPid
  BY <1>18 DEF RecordPid, L!vars
<1>19. CASE HealthPasses
  BY <1>19 DEF HealthPasses, L!vars
<1>20. CASE HealthFails
  BY <1>20 DEF HealthFails, L!vars
<1>21. CASE HealthExits
  BY <1>21 DEF HealthExits, L!vars
<1>22. CASE AnnounceHealthy
  <2>1. L!AnnounceHealthy
    BY <1>22 DEF AnnounceHealthy, L!AnnounceHealthy
  <2>. QED  BY <2>1 DEF L!Next
<1>23. CASE ProcessExits
  BY <1>23 DEF ProcessExits, L!vars
<1>24. CASE ClearExited
  <2>1. CASE sustained
    <3>1. L!Forgive
      BY <2>1, <1>24 DEF ClearExited, L!Forgive
    <3>. QED  BY <3>1 DEF L!Next
  <2>2. CASE ~sustained
    <3>1. UNCHANGED L!vars
      BY <2>2, <1>24 DEF ClearExited, L!vars
    <3>. QED  BY <3>1
  <2>. QED  BY <2>1, <2>2
<1>25. CASE AnnounceStopping
  <2>1. L!AnnounceStopping
    BY <1>25 DEF AnnounceStopping, L!AnnounceStopping
  <2>. QED  BY <2>1 DEF L!Next
<1>26. CASE GraceEnds
  BY <1>26 DEF GraceEnds, L!vars
<1>27. CASE KillTree
  <2>1. CASE leader[held] = "running"
    <3>1. L!Die
      BY <2>1, <1>27 DEF KillTree, L!Die
    <3>. QED  BY <3>1 DEF L!Next
  <2>2. CASE leader[held] # "running"
    <3>1. UNCHANGED L!vars
      BY <2>2, <1>27 DEF KillTree, L!vars
    <3>. QED  BY <3>1
  <2>. QED  BY <2>1, <2>2
<1>28. CASE ClearPid
  BY <1>28 DEF ClearPid, L!vars
<1>29. CASE AcknowledgeStop
  BY <1>29 DEF AcknowledgeStop, L!vars
<1>30. CASE AcknowledgeRestart
  <2>1. L!Forgive
    BY <1>30 DEF AcknowledgeRestart, L!Forgive
  <2>. QED  BY <2>1 DEF L!Next
<1>31. CASE DropStopped
  BY <1>31 DEF DropStopped, L!vars
<1>32. CASE AnnounceStopped
  <2>1. L!AnnounceStopped
    BY <1>32 DEF AnnounceStopped, L!AnnounceStopped
  <2>. QED  BY <2>1 DEF L!Next
<1>33. CASE EnterBackoff
  <2>1. L!AnnounceBackoff
    BY <1>33 DEF EnterBackoff, L!AnnounceBackoff
  <2>. QED  BY <2>1 DEF L!Next
<1>34. CASE EnterFailed
  <2>1. L!GiveUp
    BY <1>34 DEF EnterFailed, L!GiveUp
  <2>. QED  BY <2>1 DEF L!Next
<1>35. CASE BackoffElapses
  BY <1>35 DEF BackoffElapses, L!vars
<1>36. CASE Release
  BY <1>36 DEF Release, L!vars
<1>37. CASE SustainElapses
  <2>1. L!Earn
    BY <1>37 DEF SustainElapses, L!Earn
  <2>. QED  BY <2>1 DEF L!Next
<1>38. CASE UNCHANGED vars
  BY <1>38 DEF vars, L!vars
<1>. QED  BY <1>1, <1>2, <1>3, <1>4, <1>5, <1>6, <1>7, <1>8, <1>9, <1>10,
             <1>11, <1>12, <1>13, <1>14, <1>15, <1>16, <1>17, <1>18,
             <1>19, <1>20, <1>21, <1>22, <1>23, <1>24, <1>25, <1>26,
             <1>27, <1>28, <1>29, <1>30, <1>31, <1>32, <1>33, <1>34,
             <1>35, <1>36, <1>37, <1>38 DEF Next, Task, Received

(* A requested stop never restarts, a crash restarts only as often as the  *)
(* schedule allows, and the schedule is fresh again only after a sustained *)
(* healthy run or a request: the supervisor implements Lifecycle.          *)
THEOREM Refinement == Spec => RefinesLifecycle
<1>1. IInv /\ [Next]_vars => [L!Next]_(L!vars)
  BY StepRefines
<1>. QED  BY <1>1, InitRefines, Inductive, PTL
          DEF Spec, RefinesLifecycle, L!Spec
=============================================================================
