---------------------------- MODULE MCEventStream ----------------------------
(* Instances of EventStream.                                               *)
EXTENDS EventStream, TLC
=============================================================================
