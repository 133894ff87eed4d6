------------------------- MODULE MCLeaderElection -------------------------
(* Instances of LeaderElection for TLC.                                    *)
EXTENDS LeaderElection

CONSTANTS n1, n2
=============================================================================
