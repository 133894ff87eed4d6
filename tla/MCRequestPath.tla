---------------------------- MODULE MCRequestPath ----------------------------
(* Three requests of two addresses for two slots of the guard, one slot in   *)
(* each lane, and room for one address in the limiter's table.               *)
EXTENDS RequestPath, TLC

CONSTANTS r1, r2, r3, i1, i2

MCRequests == {r1, r2, r3}
MCIPs      == {i1, i2}
MCMaxLane  == [l \in Lanes |-> 1]

Symmetry == Permutations(MCRequests) \cup Permutations(MCIPs)

=============================================================================
