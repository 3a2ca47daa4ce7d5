----------------------------- MODULE Lifecycle -----------------------------
(***************************************************************************)
(* What a supervised sidecar promises to whoever watches it from outside:  *)
(* the state diagram at the head of runtime/supervisor.rs together with    *)
(* its rules "a requested stop never restarts; a crash restarts per        *)
(* policy; the backoff schedule resets after a sustained healthy period".  *)
(*                                                                         *)
(* No queue, process tree, pid file or probe appears here.  The detailed   *)
(* module Supervisor is shown to implement this one.                       *)
(***************************************************************************)
EXTENDS Naturals

VARIABLES
  retries,  \* restarts in a row the policy allows; never changes
  phase,    \* the published SidecarState
  wanted,   \* the last request obeyed was a start, not a stop
  live,     \* a process of this sidecar is running
  attempt,  \* restarts used since the schedule was last fresh
  earned    \* the current healthy run has lasted reset_after_secs

vars == <<retries, phase, wanted, live, attempt, earned>>

Phases == {"Idle", "Starting", "Healthy", "Backoff", "Stopping", "Stopped",
           "Failed"}

TypeOK ==
  /\ retries \in Nat
  /\ phase \in Phases
  /\ attempt \in Nat
  /\ wanted \in BOOLEAN /\ live \in BOOLEAN /\ earned \in BOOLEAN

Init ==
  /\ retries \in Nat
  /\ phase = "Idle"
  /\ attempt = 0
  /\ ~wanted /\ ~live /\ ~earned

(* A start is obeyed: every run of restarts begins with a fresh schedule. *)
Accept ==
  /\ ~wanted
  /\ wanted' = TRUE
  /\ attempt' = 0
  /\ UNCHANGED <<retries, phase, live, earned>>

(* A stop is obeyed, between two restarts or on a healthy process. *)
Withdraw ==
  /\ wanted
  /\ phase \in {"Healthy", "Backoff"}
  /\ wanted' = FALSE
  /\ UNCHANGED <<retries, phase, live, attempt, earned>>

AnnounceStarting ==
  /\ wanted /\ ~live
  /\ phase \in Phases \ {"Starting", "Healthy"}
  /\ phase' = "Starting"
  /\ UNCHANGED <<retries, wanted, live, attempt, earned>>

Spawn ==
  /\ wanted /\ ~live /\ phase = "Starting"
  /\ live' = TRUE
  /\ UNCHANGED <<retries, phase, wanted, attempt, earned>>

Die ==
  /\ live
  /\ live' = FALSE
  /\ UNCHANGED <<retries, phase, wanted, attempt, earned>>

AnnounceHealthy ==
  /\ wanted /\ phase = "Starting"
  /\ phase' = "Healthy"
  /\ earned' = FALSE
  /\ UNCHANGED <<retries, wanted, live, attempt>>

Earn ==
  /\ phase = "Healthy"
  /\ earned' = TRUE
  /\ UNCHANGED <<retries, phase, wanted, live, attempt>>

(* The schedule is fresh again: the healthy run was long enough, or a      *)
(* start or a restart was requested.                                       *)
Forgive ==
  /\ wanted /\ ~live
  /\ (phase = "Healthy" /\ earned) \/ phase \in {"Backoff", "Stopping"}
  /\ attempt' = 0
  /\ UNCHANGED <<retries, phase, wanted, live, earned>>

AnnounceBackoff ==
  /\ wanted /\ ~live /\ phase \in {"Starting", "Healthy"}
  /\ attempt < retries
  /\ phase' = "Backoff"
  /\ attempt' = attempt + 1
  /\ UNCHANGED <<retries, wanted, live, earned>>

GiveUp ==
  /\ wanted /\ ~live /\ phase \in {"Starting", "Healthy"}
  /\ attempt >= retries
  /\ phase' = "Failed"
  /\ wanted' = FALSE
  /\ UNCHANGED <<retries, live, attempt, earned>>

(* For a stop and for a restart alike. *)
AnnounceStopping ==
  /\ phase = "Healthy"
  /\ phase' = "Stopping"
  /\ UNCHANGED <<retries, wanted, live, attempt, earned>>

AnnounceStopped ==
  /\ ~wanted /\ ~live /\ phase \in {"Stopping", "Backoff"}
  /\ phase' = "Stopped"
  /\ UNCHANGED <<retries, wanted, live, attempt, earned>>

Next ==
  \/ Accept \/ Withdraw
  \/ AnnounceStarting \/ Spawn \/ Die \/ AnnounceHealthy \/ Earn \/ Forgive
  \/ AnnounceBackoff \/ GiveUp \/ AnnounceStopping \/ AnnounceStopped

Spec == Init /\ [][Next]_vars
=============================================================================
