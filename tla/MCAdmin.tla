------------------------------ MODULE MCAdmin ------------------------------
(***************************************************************************)
(* Instances of Admin for TLC.                                             *)
(***************************************************************************)
EXTENDS Admin, TLC

\* Three jobs make a third page, two make the overview's queries disagree.
RowsByPage == [jobs |-> 3, overview |-> 2, mailboxes |-> 0]
MovesByPage == [jobs |-> 1, overview |-> 3, mailboxes |-> 0]
LoadsByPage == [jobs |-> 3, overview |-> 2, mailboxes |-> 2]

CONSTANTS j1, j2, j3

Symmetry == Permutations(Job)
=============================================================================
