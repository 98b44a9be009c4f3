----------------------------- MODULE MCBufPool ------------------------------
(***************************************************************************)
(* BufPool with three tasks that need two buffers each: four buffers from  *)
(* bufpool_init (one more than the tasks) and a fifth by calloc, so that   *)
(* two tasks can sleep while the third holds two buffers.                  *)
(***************************************************************************)
EXTENDS BufPool
=============================================================================
