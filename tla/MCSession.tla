----------------------------- MODULE MCSession -----------------------------
(***************************************************************************)
(* Instances of Session for TLC.  Tabs are interchangeable.                *)
(***************************************************************************)
EXTENDS Session, TLC

CONSTANTS t1, t2, t3

Symmetry == Permutations(Tab)
=============================================================================
