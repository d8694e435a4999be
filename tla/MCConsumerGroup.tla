-------------------------- MODULE MCConsumerGroup --------------------------
(***************************************************************************)
(* Instances of ConsumerGroup for TLC.  Nodes and entries are              *)
(* interchangeable: symmetry is used in the safety runs only.              *)
(***************************************************************************)
EXTENDS ConsumerGroup, TLC

CONSTANTS n1, n2, n3, e1, e2

Symmetry == Permutations(Node) \cup Permutations(Entry)
=============================================================================
