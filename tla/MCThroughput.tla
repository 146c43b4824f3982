---------------------------- MODULE MCThroughput ----------------------------
(* Instances of the network section for TLC. *)
EXTENDS Throughput, TLC

\* Interfaces are alike.
Symmetry == Permutations(Interface)
=============================================================================
