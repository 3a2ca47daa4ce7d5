----------------------------- MODULE MCEndpoint -----------------------------
(* Instances of Endpoint for TLC. *)
EXTENDS Endpoint

Base == [port |-> "dynamic", health |-> "Tcp", hook |-> FALSE,
         preset |-> FALSE, unix |-> TRUE, auth |-> "none"]

(* Every port strategy, every probe that connects, both platforms, and the *)
(* hook.                                                                   *)
MixedConfigs ==
  {[Base EXCEPT !.health = "Http", !.hook = TRUE, !.preset = TRUE,
                !.auth = "generated"],
   [Base EXCEPT !.port = "fixed", !.hook = TRUE],
   [Base EXCEPT !.port = "fixed", !.health = "Http", !.unix = FALSE],
   [Base EXCEPT !.port = "none", !.auth = "given"],
   [Base EXCEPT !.port = "none", !.health = "Immediate", !.hook = TRUE]}

DynamicConfigs == {Base}
=============================================================================
