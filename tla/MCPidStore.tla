---------------------------- MODULE MCPidStore ----------------------------
(* Instances of PidStore for TLC. *)
EXTENDS PidStore, TLC

(* Two sidecars whose configured binaries have the same name, as have the  *)
(* interpreters of two environments.                                       *)
SameExe == [api |-> "python", worker |-> "python"]

(* One of them is the program itself, the other one a link to it. *)
LinkedImage == [api |-> {"python"}, worker |-> {"python", "python3"}]

Symmetry == Permutations(Pid)
=============================================================================
