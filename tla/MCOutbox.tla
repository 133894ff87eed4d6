------------------------------ MODULE MCOutbox ------------------------------
(* Instances of Outbox for TLC.                                            *)
EXTENDS Outbox, TLC

CONSTANTS h1, h2, n1, n2, a1, c1

\* Processes of one kind are interchangeable.
Symmetric == Permutations(Handlers) \cup Permutations(Nodes)
=============================================================================
