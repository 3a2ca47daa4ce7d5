---------------------------- MODULE MCSupervisor ----------------------------
(* Instances of Supervisor for TLC. *)
EXTENDS Supervisor, TLC

Base == [platform |-> "unix", health |-> "Immediate", port |-> FALSE,
         schedule |-> 1, graceful |-> TRUE]

(* Both platforms, every probe, a policy without restarts, and both ways of *)
(* stopping.                                                                *)
MixedConfigs ==
  {[Base EXCEPT !.platform = p, !.health = "StdoutMarker"] :
     p \in {"unix", "windows"}}
    \cup {[Base EXCEPT !.health = "Http", !.graceful = FALSE],
          [Base EXCEPT !.platform = "windows", !.health = "Tcp",
                       !.port = TRUE, !.schedule = 2],
          [Base EXCEPT !.schedule = 0]}

(* What a single platform or probe does.  The marker gate is the one that   *)
(* may never pass of itself, and that a reader can make pass.               *)
UnixConfigs   == {[Base EXCEPT !.schedule = 0]}
MarkerConfigs == {[Base EXCEPT !.health = "StdoutMarker"]}

Symmetry == Permutations(Callers) \cup Permutations(Tree)
=============================================================================
