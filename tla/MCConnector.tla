---------------------------- MODULE MCConnector ----------------------------
(* An instance of Connector for TLC.                                       *)
EXTENDS Connector

MCPolicy == [w \in 1..(2 * MaxStarts) |-> "kAutomatic"]
=============================================================================
