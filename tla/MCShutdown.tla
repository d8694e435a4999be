---------------------------- MODULE MCShutdown ----------------------------
(***************************************************************************)
(* Instances of Shutdown for TLC.                                          *)
(***************************************************************************)
EXTENDS Shutdown, TLC

CONSTANTS r1, r2, s1, s2, p1, p2

Symmetry == Permutations(Request) \cup Permutations(Stream) \cup Permutations(Printer)
=============================================================================
