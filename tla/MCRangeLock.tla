---------------------------- MODULE MCRangeLock -----------------------------
(***************************************************************************)
(* RangeLock on three tasks, three heap cells and three addresses.  The    *)
(* requests hold two disjoint ranges, one that contains another, one that  *)
(* meets another at an end, and one given with its ends swapped.           *)
(***************************************************************************)
EXTENDS RangeLock

MCAddr == 0..2
MCRequest == {[start |-> 0, end |-> 2], [start |-> 1, end |-> 1],
              [start |-> 2, end |-> 1], [start |-> 0, end |-> 0]}
=============================================================================
