----------------------------- MODULE MCDispatch -----------------------------
(***************************************************************************)
(* Instances of Dispatch for TLC: one mailbox, or one mailbox per job.     *)
(* Nodes are interchangeable, so safety runs use their symmetry; jobs that *)
(* share a mailbox are too.                                                *)
(***************************************************************************)
EXTENDS Dispatch, TLC

CONSTANTS j1, j2, n1, n2, m1, m2

OneMailbox == [j \in Job |-> m1]
OwnMailbox == [j \in Job |-> IF j = j1 THEN m1 ELSE m2]

NodeSymmetry == Permutations(Node)
=============================================================================
