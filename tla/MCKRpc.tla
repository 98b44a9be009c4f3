------------------------------ MODULE MCKRpc --------------------------------
(***************************************************************************)
(* KRpc with three commands, two worlds that send and one that handles     *)
(* responses, sockets of one fragment, and pools that hold just enough for *)
(* that: a message for each command and one for the receiver.              *)
(***************************************************************************)
EXTENDS KRpc, TLC
Perms == Permutations(Cmd) \cup Permutations(SendWorker) \cup Permutations(RecvWorker)
=============================================================================
