------------------------------ MODULE MCRBTree ------------------------------
(***************************************************************************)
(* RBTree with up to eight nodes: enough for every case of the two         *)
(* fix-ups, and for ranges of one to three addresses.                      *)
(***************************************************************************)
EXTENDS RBTree
=============================================================================
