----------------------------- MODULE MCManager -----------------------------
(* Instances of Manager and Plugin for TLC. *)
EXTENDS Plugin

(* A chain of three, in which "top" needs "base" only through "mid". *)
ChainDepends == [base |-> <<>>, mid |-> <<"base">>, top |-> <<"mid">>]
ChainOrder   == <<"base", "mid", "top">>
ChainRetries == [base |-> 1, mid |-> 0, top |-> 0]

(* A sidecar with one dependency. *)
PairDepends == [base |-> <<>>, top |-> <<"base">>]
PairOrder   == <<"base", "top">>
PairRetries == [base |-> 1, top |-> 0]

ShutdownAll == [api |-> "shutdown_all"]
On(a, n)    == [api |-> a, name |-> n]

(* The plugin calls start_all when it is set up, if so configured, and     *)
(* shutdown_all when the app exits; the webview and the app call at any    *)
(* time in between.                                                        *)
ChainCalls == [setup |-> {}, exit |-> {ShutdownAll},
               user |-> {On("start", "top"), On("restart", "base"),
                         On("stop", "base")}]
PairCalls  == [setup |-> {StartAll}, exit |-> {ShutdownAll},
               user |-> {On("stop", "base"), ShutdownAll}]

StartTop   == [setup |-> {}, exit |-> {ShutdownAll},
               user |-> {On("start", "top")}]
=============================================================================
