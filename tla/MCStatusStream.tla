--------------------------- MODULE MCStatusStream ---------------------------
(***************************************************************************)
(* Instances of StatusStream for TLC.                                      *)
(***************************************************************************)
EXTENDS StatusStream

CONSTANTS v1, v2

\* Two pages of the sender, or one of them and a stranger's.
BothOwner  == [v \in Viewer |-> "owner"]
OneStranger == [v \in Viewer |-> IF v = v1 THEN "owner" ELSE "stranger"]
=============================================================================
