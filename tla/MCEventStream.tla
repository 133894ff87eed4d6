---------------------------- MODULE MCEventStream ----------------------------
(* Instances of EventStream for TLC.                                       *)
EXTENDS EventStream

CONSTANTS s1, s2, c1, c2, m1, u1
=============================================================================
