------------------------------- MODULE Plugin -------------------------------
(***************************************************************************)
(* The Tauri plugin around the manager (tauri-plugin-sidecar/src/lib.rs,   *)
(* commands.rs): the setup that launches the manager and may start every   *)
(* sidecar, the webview and the Rust code of the app that call it while    *)
(* the app runs, and the exit that waits for shutdown_all.                 *)
(***************************************************************************)
EXTENDS Manager

CONSTANTS
  Setup,  \* the setup of the plugin, which starts all if autostart is set
  Exit    \* the handler of RunEvent::Exit

ASSUME PluginAssumption ==
  /\ {Setup, Exit} \subseteq Callers /\ Setup # Exit
  /\ Calls[Setup] \subseteq {StartAll}
  /\ Calls[Exit] = {[api |-> "shutdown_all"]}

Autostart == Calls[Setup] # {}

VARIABLE app

appVars == <<app, vars>>

AppTypeOK ==
  TypeOK /\ app \in {"setup", "refused", "running", "exiting", "gone"}

AppInit == Init /\ app = "setup"

(* block_on(launch), then start_all in a task nobody waits for *)
SetUp ==
  /\ app = "setup" /\ app' = "running"
  /\ IF Autostart THEN Invoke(Setup, StartAll) ELSE UNCHANGED vars

(* No app data directory, or the manager refuses the configuration: no     *)
(* PluginState is managed, and Tauri does not run the app.                 *)
SetUpFails ==
  /\ app = "setup" /\ app' = "refused"
  /\ UNCHANGED vars

(* RunEvent::Exit.  The tasks of the runtime go on. *)
BeginExit ==
  /\ app = "running" /\ app' = "exiting"
  /\ Invoke(Exit, [api |-> "shutdown_all"])

(* The process ends, and with it every thread that is in a call. *)
Cut ==
  /\ call' = [c \in Callers |-> NoCall]
  /\ script' = [t \in Threads |-> <<>>] /\ sent' = {}
  /\ published' = [c \in Callers |-> {}]
  /\ UNCHANGED tasks

(* Defect: the handler spawns shutdown_all instead of waiting for it. *)
EndExitAtOnce ==
  /\ app = "exiting" /\ app' = "gone"
  /\ Cut

(* The handler returns when shutdown_all does. *)
EndExit ==
  /\ app = "exiting" /\ app' = "gone"
  /\ script[<<Exit>>] = <<>>
  /\ Cut

(* What goes on in the process of the app once it is set up *)
InApp(Action) ==
  /\ app \in {"running", "exiting"}
  /\ Action
  /\ UNCHANGED app

(* The commands of the webview and the calls through SidecarExt *)
UserCalls ==
  \E c \in Callers \ {Setup, Exit} : \E k \in Calls[c] : Invoke(c, k)

CallsReturn == \E c \in Callers \ {Exit} : Return(c)

Over == app \in {"refused", "gone"} /\ UNCHANGED appVars

AppNext ==
  \/ SetUp \/ SetUpFails \/ BeginExit \/ EndExit \/ Over
  \/ InApp(UserCalls) \/ InApp(CallsReturn)
  \/ \E t \in Threads : InApp(Proceed(t))
  \/ \E n \in Sidecar : \/ InApp(Supervise(n))
                         \/ InApp(SustainElapses(n)) \/ InApp(Crashes(n))

AppSpec == AppInit /\ [][AppNext]_appVars

(* The fairness of the manager, while there is a process to run it. *)
AppFairness ==
  /\ \A n \in Sidecar : /\ WF_appVars(InApp(Supervise(n)))
                        /\ SF_appVars(InApp(Received(n)))
  /\ \A t \in Threads : WF_appVars(InApp(Proceed(t)))
  /\ WF_appVars(InApp(CallsReturn)) /\ WF_appVars(EndExit)

AppFairSpec == AppSpec /\ AppFairness

-----------------------------------------------------------------------------
(* "Take the whole fleet down with the app": when the process of the app   *)
(* ends, no sidecar runs, whatever was still starting, restarting or being *)
(* called for when it began to exit.                                       *)
NothingLeftBehind ==
  app \in {"refused", "gone"} => \A n \in Sidecar : ~running[n]

(* The main thread is blocked in shutdown_all, while others go on calling  *)
(* the manager, also shutdown_all: the app still ends.                     *)
ExitEnds == app = "exiting" ~> app = "gone"
=============================================================================
