-------------------------- MODULE MCSimpleWatcher --------------------------
(* Instances of SimpleWatcher for TLC: the signals that Connector passes,  *)
(* and watchers of both policies.                                          *)
EXTENDS SimpleWatcher

CONSTANTS w1, w2

MCReadable == {{"READABLE"}}
MCSignals  == {{"READABLE"}, {"PEER_CLOSED"}}
MCMixed    == [w \in {w1, w2} |-> IF w = w1 THEN "kAutomatic" ELSE "kManual"]
=============================================================================
