------------------------------ MODULE KBufPool ------------------------------
(***************************************************************************)
(* The buffer pools of the kernel module: bufpool.c of the multipath       *)
(* plugin.  Unlike the pool of the iosplitter it has a reserve that only   *)
(* some callers may use, a spin lock, and waits that time out and poll.    *)
(*                                                                         *)
(* A critical section of bp->lock is one step.  A world whose get must     *)
(* wait moves to a place of its own, from where it polls (Room) until it   *)
(* may try again.                                                          *)
(***************************************************************************)
EXTENDS Naturals

CONSTANTS
  Reserve,   \* reserve of both pools of a channel
  nmsg,      \* nbufs of the message pool
  nmsg_max,  \* nmax of the message pool
  ndata,     \* nbufs of the payload pool
  ndata_max  \* nmax of the payload pool

BufPool == {"msg", "payload"}
nbufs   == [p \in BufPool |-> IF p = "msg" THEN nmsg ELSE ndata]
nmax    == [p \in BufPool |-> IF p = "msg" THEN nmsg_max ELSE ndata_max]

(* rpc_chan_init: nway + reserve and 3 * nway messages; 2 * nway + reserve *)
(* and three times that many payloads.  The plugin's nway is 128 and its   *)
(* reserve 32.                                                             *)
ASSUME PoolAssumption ==
  /\ {Reserve, nmsg, nmsg_max, ndata, ndata_max} \subseteq Nat
  /\ 0 < Reserve
  /\ nmsg > 0 /\ nmsg + Reserve < nmsg_max
  /\ ndata > 0 /\ ndata + Reserve < ndata_max

VARIABLE bp   \* bufpool_t of the pools of a channel

BufPoolType == [freelist : Nat, owned : Nat, issued : Nat,
                state : {"UNINITIALIZED", "INITIALIZED", "DEINITING", "DEINTED"}]

NoPool == [freelist |-> 0, owned |-> 0, issued |-> 0, state |-> "UNINITIALIZED"]

(* malloc finds the nbufs buffers in a heap just made for nmax of them *)
bufpool_init_reserve(p) ==
  bp' = [bp EXCEPT ![p] = [freelist |-> nbufs[p], owned |-> nbufs[p], issued |-> 0,
                           state |-> "INITIALIZED"]]

(* the test before malloc *)
Grows(p, alloc_reserve) ==
  \/ bp[p].owned + Reserve < nmax[p]
  \/ alloc_reserve /\ bp[p].owned < nmax[p]

(* the test of a waiting world, which does not look at the freelist *)
Room(p, alloc_reserve) ==
  \/ alloc_reserve /\ bp[p].owned < nmax[p]
  \/ bp[p].owned + Reserve < nmax[p]

Reuse(p) ==
  /\ bp[p].freelist > 0
  /\ bp' = [bp EXCEPT ![p].freelist = @ - 1, ![p].issued = @ + 1]

(* malloc of a buffer that _bufpool_get adds to the pool *)
Malloc(p) == bp' = [bp EXCEPT ![p].owned = @ + 1, ![p].issued = @ + 1]

(* _bufpool_get returns a buffer *)
_bufpool_get(p, alloc_reserve) ==
  \/ Reuse(p)
  \/ bp[p].freelist = 0 /\ Grows(p, alloc_reserve) /\ Malloc(p)

(* _bufpool_get has to wait: no buffer is free, and the pool may not grow *)
MustWait(p, alloc_reserve) == bp[p].freelist = 0 /\ ~Grows(p, alloc_reserve)

(* fault: every buffer is kept *)
bufpool_put_keep(b, p) == [b EXCEPT !.issued = @ - 1, !.freelist = @ + 1]

(* bufpool_put, as a function of the pool's record b *)
bufpool_put(b, p) ==
  IF b.owned <= nbufs[p]
  THEN [b EXCEPT !.issued = @ - 1, !.freelist = @ + 1]
  ELSE [b EXCEPT !.issued = @ - 1, !.owned = @ - 1]

(* bufpool_deinit: from here on a get fails its assert *)
DeinitBegin(p) ==
  /\ bp[p].state = "INITIALIZED"
  /\ bp' = [bp EXCEPT ![p].state = "DEINITING"]

(* the rest of bufpool_deinit, once the last buffer is back *)
DeinitEnd(p) ==
  /\ bp[p].state = "DEINITING"
  /\ bp[p].issued = 0
  /\ bp' = [bp EXCEPT ![p].freelist = 0, ![p].owned = @ - bp[p].freelist,
                      ![p].state = "DEINTED"]
=============================================================================
