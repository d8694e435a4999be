--------------------------- MODULE MCPrinterLink ---------------------------
(***************************************************************************)
(* Instances of PrinterLink for TLC.                                       *)
(***************************************************************************)
EXTENDS PrinterLink, TLC

CONSTANTS n1, n2, j1, j2

Symmetry == Permutations(Job)
=============================================================================
