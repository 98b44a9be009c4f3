------------------------------ MODULE MCMppIo -------------------------------
(* The multipath plugin on a device of two paths. *)
EXTENDS MppIo, TLC

(* commands are interchangeable; paths are not: the failover goes by index *)
Perms == Permutations(Cmd)

(* PSA queues one command as RESERVE or as a read or write, and the others *)
(* as reservation sensitive ones or as RELEASE.                            *)
First == CHOOSE c \in Cmd : TRUE

Mixed ==
  \A c \in Cmd : kind'[c] # "none" => (c = First) = (kind'[c] \in {"reserve", "rw"})
=============================================================================
