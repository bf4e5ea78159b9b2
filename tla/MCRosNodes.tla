------------------------------ MODULE MCRosNodes ------------------------------
(* RosNodes for TLC: the three nodes of the launch file. *)
EXTENDS RosNodes
=============================================================================
