-------------------------- MODULE MCPrintPipeline --------------------------
(***************************************************************************)
(* Instances of PrintPipeline for TLC.  Goroutines are interchangeable.    *)
(***************************************************************************)
EXTENDS PrintPipeline, TLC

CONSTANTS w1, w2, w3, j1, j2

Symmetry == Permutations(Worker)
=============================================================================
