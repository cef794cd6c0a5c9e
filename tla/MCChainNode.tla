---------------------------- MODULE MCChainNode ----------------------------
(* Model checking of ChainNode on small instances.                        *)
EXTENDS ChainNode

\* Builders this node holds no key of can be exchanged for one another.
Others == Permutations(Builders \ (Own \cup Faulty))

=============================================================================
