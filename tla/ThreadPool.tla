----------------------------- MODULE ThreadPool -----------------------------
(***************************************************************************)
(* The thread pools of the kernel module: threadpool.c.  The plugin has    *)
(* two, send_tp that issues commands and the pool of the channel that      *)
(* handles what is received.                                               *)
(*                                                                         *)
(* A step is a critical section of tp->work_lock, or a vmk_WorldWakeup.    *)
(* vmk_WorldWait is external: it releases the lock and sleeps in one step. *)
(* What a work does, between TakeWork and WorkDone, is its caller's.       *)
(***************************************************************************)
EXTENDS Naturals, Sequences, FiniteSets

CONSTANTS
  SendWorker,  \* the worlds of send_tp
  RecvWorker,  \* the worlds of rcp->tp
  NoWork,      \* a world without a work
  WorkMax      \* nmax of the pool of works: nwork * 4

Pool      == {"send", "recv"}
Worker    == SendWorker \cup RecvWorker
PoolOf(w) == IF w \in SendWorker THEN "send" ELSE "recv"
Team(p)   == {w \in Worker : PoolOf(w) = p}

ASSUME WorkerAssumption ==
  /\ IsFiniteSet(Worker) /\ SendWorker # {} /\ RecvWorker # {}
  /\ SendWorker \cap RecvWorker = {}
  /\ WorkMax \in Nat

VARIABLES
  state,      \* tp->state
  active,     \* tp->active
  work_list,  \* tp->work_list, oldest first
  wakeups,    \* the vmk_WorldWakeups still to come from schedule_work
  world,      \* where a worker is
  data        \* w->data of the work a worker has taken

tpVars == <<state, active, work_list, wakeups, world, data>>

(* tp before thread_pool_init, and after its memset *)
TpInit ==
  /\ state     = [p \in Pool |-> "UNINITIALIZED"]
  /\ active    = [p \in Pool |-> 0]
  /\ work_list = [p \in Pool |-> <<>>]
  /\ wakeups   = [p \in Pool |-> 0]
  /\ world     = [w \in Worker |-> "none"]
  /\ data      = [w \in Worker |-> NoWork]

(* every pthread_create succeeds *)
thread_pool_init(p) ==
  /\ state[p] = "UNINITIALIZED"
  /\ state'  = [state EXCEPT ![p] = "INITIALIZED"]
  /\ active' = [active EXCEPT ![p] = Cardinality(Team(p))]
  /\ world'  = [w \in Worker |-> IF w \in Team(p) THEN "look" ELSE world[w]]
  /\ UNCHANGED <<work_list, wakeups, data>>

(* the buffers of works not given back *)
Works(p) == Len(work_list[p]) + Cardinality({w \in Team(p) : world[w] = "work"})

(* fault: the wake-up comes first, the work after it *)
schedule_work_early(p, x) ==
  /\ work_list' = [work_list EXCEPT ![p] = Append(@, x)]
  /\ UNCHANGED <<state, active, wakeups, world, data>>

(* new_work, which waits for a buffer, and schedule_work up to its wake-up *)
schedule_work(p, x) ==
  /\ work_list' = [work_list EXCEPT ![p] = Append(@, x)]
  /\ wakeups'   = [wakeups EXCEPT ![p] = @ + 1]
  /\ UNCHANGED <<state, active, world, data>>

Woken(p) == [w \in Worker |-> IF w \in Team(p) /\ world[w] = "asleep" THEN "look"
                              ELSE world[w]]

Wakeup(p) ==
  /\ wakeups[p] > 0
  /\ wakeups' = [wakeups EXCEPT ![p] = @ - 1]
  /\ world'   = Woken(p)
  /\ UNCHANGED <<state, active, work_list, data>>

(* _worker_thread with an empty list: leave, or sleep *)
Idle(w) ==
  LET p == PoolOf(w)
  IN  /\ world[w] = "look"
      /\ work_list[p] = <<>>
      /\ IF state[p] = "SHUTTING"
         THEN /\ world'  = [world EXCEPT ![w] = "exit"]
              /\ active' = [active EXCEPT ![p] = @ - 1]
         ELSE world' = [world EXCEPT ![w] = "asleep"] /\ UNCHANGED active
      /\ UNCHANGED <<state, work_list, wakeups, data>>

(* _worker_thread takes the oldest work *)
TakeWork(w) ==
  LET p == PoolOf(w)
  IN  /\ world[w] = "look"
      /\ work_list[p] # <<>>
      /\ world'     = [world EXCEPT ![w] = "work"]
      /\ data'      = [data EXCEPT ![w] = Head(work_list[p])]
      /\ work_list' = [work_list EXCEPT ![p] = Tail(@)]
      /\ UNCHANGED <<state, active, wakeups>>

(* work_fn has returned and the work's buffer is given back *)
WorkDone(w) ==
  /\ world' = [world EXCEPT ![w] = "look"]
  /\ data'  = [data EXCEPT ![w] = NoWork]
  /\ UNCHANGED <<state, active, work_list, wakeups>>

(* _thread_pool_deinit: announce the end, ... *)
Shut(p) ==
  /\ state' = [state EXCEPT ![p] = "SHUTTING"]
  /\ UNCHANGED <<active, work_list, wakeups, world, data>>

(* ... wake the workers, ... *)
ShutWake(p) ==
  /\ world' = Woken(p)
  /\ UNCHANGED <<state, active, work_list, wakeups, data>>

(* ... and join them *)
Joined(p) == \A w \in Team(p) : world[w] = "exit"
=============================================================================
