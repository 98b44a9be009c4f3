------------------------------ MODULE BufPool -------------------------------
(***************************************************************************)
(* The buffer pool of iosplitter/common/bufpool.c, as the message and data *)
(* pools of an RPC channel use it (rpc_chan_init, rpc_chan_deinit).        *)
(*                                                                         *)
(* Tasks are libtask coroutines: the code between two tasksleep() calls is *)
(* one step.  Buffers are heap cells; a cell freed by the pool may be      *)
(* handed out again by a later calloc.  malloc and calloc may fail at any  *)
(* call.  A failing call of bufpool_get with noblock set returns -1 and    *)
(* changes nothing, so it is not an action.                                *)
(***************************************************************************)
EXTENDS Naturals, Sequences, FiniteSets

CONSTANTS
  Task,     \* the tasks that get and put buffers
  NoTask,   \* the holder of a buffer no task has
  Buf,      \* the heap cells
  nbufs,    \* buffers allocated by bufpool_init
  nmax      \* the most buffers the pool may own

ASSUME TaskAssumption == IsFiniteSet(Task) /\ NoTask \notin Task
ASSUME BufAssumption == IsFiniteSet(Buf)
ASSUME SizeAssumption == nbufs \in Nat \ {0} /\ nmax \in Nat /\ nmax >= nbufs

(* The data buffers one request needs: the bound of rpc.txt on each task.  *)
MaxHeld == 2

VARIABLES
  state,     \* bp->state
  freelist,  \* the buffers in bp->freelist (their order does not matter)
  owned,     \* bp->owned
  issued,    \* bp->issued
  holder,    \* the task a buffer is issued to
  rendez,    \* the tasks waiting in bp->rendez, oldest first
  pc,        \* where task t is in bufpool_get
  closer,    \* where the caller of bufpool_deinit is
  open,      \* the owner of the pool hands it to its tasks
  abort      \* an assert has failed: the process is gone

vars == <<state, freelist, owned, issued, holder, rendez, pc, closer, open, abort>>

(* run: not in bufpool_get; sleep: in tasksleep; ready: woken, not resumed *)
PC == {"run", "sleep", "ready"}

Held(t) == {b \in Buf : holder[b] = t}
Issued  == {b \in Buf : holder[b] # NoTask}

Init ==
  /\ state    = "UNINITIALIZED"
  /\ freelist = {}
  /\ owned    = 0
  /\ issued   = 0
  /\ holder   = [b \in Buf |-> NoTask]
  /\ rendez   = <<>>
  /\ pc       = [t \in Task |-> "run"]
  /\ closer   = "none"
  /\ open     = FALSE
  /\ abort    = FALSE

(***************************************************************************)
(* bufpool_init from rpc_chan_init.  If malloc fails part way the channel  *)
(* is not opened, and rpc_chan_deinit gives the pool back.                 *)
(***************************************************************************)
bufpool_init ==
  /\ ~abort
  /\ state \in {"UNINITIALIZED", "DEINTED"}
  /\ \E bufs \in SUBSET Buf :
       /\ Cardinality(bufs) <= nbufs
       /\ freelist' = bufs
       /\ owned'    = Cardinality(bufs)
       /\ open'     = (Cardinality(bufs) = nbufs)
  /\ state'  = "INITIALIZED"
  /\ issued' = 0
  /\ closer' = "none"
  /\ UNCHANGED <<holder, rendez, pc, abort>>

(* the loop body of bufpool_get, up to its return or to tasksleep *)
Reuse(t) ==
  \E b \in freelist :
    /\ freelist' = freelist \ {b}
    /\ holder'   = [holder EXCEPT ![b] = t]
    /\ issued'   = issued + 1
    /\ pc'       = [pc EXCEPT ![t] = "run"]
    /\ UNCHANGED <<owned, rendez>>

Grow(t) ==
  /\ freelist = {}
  /\ owned < nmax
  /\ \E b \in Buf \ Issued : holder' = [holder EXCEPT ![b] = t]
  /\ owned'  = owned + 1
  /\ issued' = issued + 1
  /\ pc'     = [pc EXCEPT ![t] = "run"]
  /\ UNCHANGED <<freelist, rendez>>

Sleep(t) ==
  /\ freelist = {}
  /\ rendez' = Append(rendez, t)
  /\ pc'     = [pc EXCEPT ![t] = "sleep"]
  /\ UNCHANGED <<freelist, owned, issued, holder>>

Attempt(t) ==
  /\ Reuse(t) \/ Grow(t) \/ Sleep(t)
  /\ UNCHANGED <<state, closer, open, abort>>

Crash ==
  /\ abort' = TRUE
  /\ UNCHANGED <<state, freelist, owned, issued, holder, rendez, pc, closer, open>>

bufpool_get(t) ==
  /\ ~abort
  /\ open
  /\ pc[t] = "run"
  /\ Cardinality(Held(t)) < MaxHeld
  /\ IF state = "INITIALIZED" THEN Attempt(t) ELSE Crash

bufpool_get_wakeup(t) ==
  /\ ~abort
  /\ pc[t] = "ready"
  /\ Attempt(t)

(* fault: no waiter is woken *)
WakeOne_none == UNCHANGED <<rendez, pc>>

(* fault: the newest waiter is woken *)
WakeOne_newest ==
  LET n == Len(rendez)
  IN  IF rendez = <<>> THEN UNCHANGED <<rendez, pc>>
      ELSE /\ rendez' = SubSeq(rendez, 1, n - 1)
           /\ pc'     = [pc EXCEPT ![rendez[n]] = "ready"]

(* TASKWAKEUP(&bp->rendez): the oldest waiter, if any *)
WakeOne ==
  IF rendez = <<>> THEN UNCHANGED <<rendez, pc>>
  ELSE /\ rendez' = Tail(rendez)
       /\ pc'     = [pc EXCEPT ![Head(rendez)] = "ready"]

(* fault: a buffer of the initial nbufs is freed too *)
bufpool_put_shrink(t, b) ==
  /\ ~abort
  /\ pc[t] = "run"
  /\ holder[b] = t
  /\ holder' = [holder EXCEPT ![b] = NoTask]
  /\ issued' = issued - 1
  /\ IF owned < nbufs
     THEN freelist' = freelist \cup {b} /\ UNCHANGED owned
     ELSE owned' = owned - 1 /\ UNCHANGED freelist
  /\ WakeOne
  /\ closer' = IF issued' = 0 /\ state = "DEINITING" /\ closer = "sleep"
               THEN "ready" ELSE closer
  /\ UNCHANGED <<state, open, abort>>

(* fault: the last put does not wake bufpool_deinit *)
bufpool_put_forget(t, b) ==
  /\ ~abort
  /\ pc[t] = "run"
  /\ holder[b] = t
  /\ holder' = [holder EXCEPT ![b] = NoTask]
  /\ issued' = issued - 1
  /\ IF owned <= nbufs
     THEN freelist' = freelist \cup {b} /\ UNCHANGED owned
     ELSE owned' = owned - 1 /\ UNCHANGED freelist
  /\ WakeOne
  /\ UNCHANGED <<state, closer, open, abort>>

bufpool_put(t, b) ==
  /\ ~abort
  /\ pc[t] = "run"
  /\ holder[b] = t
  /\ holder' = [holder EXCEPT ![b] = NoTask]
  /\ issued' = issued - 1
  /\ IF owned <= nbufs
     THEN freelist' = freelist \cup {b} /\ UNCHANGED owned
     ELSE owned' = owned - 1 /\ UNCHANGED freelist
  /\ WakeOne
  /\ closer' = IF issued' = 0 /\ state = "DEINITING" /\ closer = "sleep"
               THEN "ready" ELSE closer
  /\ UNCHANGED <<state, open, abort>>

(* fault: nbufs buffers are counted as freed, however many there were *)
FreeAll_nbufs ==
  /\ freelist' = {}
  /\ owned'    = owned - nbufs
  /\ state'    = "DEINTED"
  /\ closer'   = "none"
  /\ UNCHANGED abort

(* the free() loop at the end of bufpool_deinit *)
FreeAll ==
  /\ freelist' = {}
  /\ owned'    = owned - Cardinality(freelist)
  /\ state'    = "DEINTED"
  /\ closer'   = "none"
  /\ UNCHANGED abort

(* fault: bufpool_deinit does not wait for the buffers *)
bufpool_deinit_nowait ==
  /\ ~abort
  /\ state = "INITIALIZED"
  /\ \A t \in Task : pc[t] = "run"
  /\ open'   = FALSE
  /\ state'  = "DEINITING"
  /\ closer' = "ready"
  /\ UNCHANGED <<freelist, owned, issued, holder, rendez, pc, abort>>

(***************************************************************************)
(* bufpool_deinit from rpc_chan_deinit.  The channel calls it when no task *)
(* is in bufpool_get and none will call it: its receiver has ended, and    *)
(* the pools are torn down one after the other, the data pool once every   *)
(* handler has put its message.  (Module Rpc checks this of the channel.)  *)
(***************************************************************************)
bufpool_deinit ==
  /\ ~abort
  /\ state = "INITIALIZED"
  /\ \A t \in Task : pc[t] = "run"
  /\ open' = FALSE
  /\ IF issued # 0
     THEN /\ state' = "DEINITING"
          /\ closer' = "sleep"
          /\ UNCHANGED <<freelist, owned, abort>>
     ELSE FreeAll
  /\ UNCHANGED <<issued, holder, rendez, pc>>

(* bufpool_deinit resumes: assert(bp->issued == 0) *)
bufpool_deinit_wakeup ==
  /\ ~abort
  /\ closer = "ready"
  /\ IF issued = 0
     THEN FreeAll /\ UNCHANGED <<issued, holder, rendez, pc, open>>
     ELSE Crash

Next ==
  \/ bufpool_init \/ bufpool_deinit \/ bufpool_deinit_wakeup
  \/ \E t \in Task : \/ bufpool_get(t) \/ bufpool_get_wakeup(t)
                     \/ \E b \in Buf : bufpool_put(t, b)

Spec == Init /\ [][Next]_vars

(***************************************************************************)
(* The run queue is FIFO, so a woken task runs; a handler that is not      *)
(* waiting for a buffer ends and puts the buffers it holds.                *)
(***************************************************************************)
Fairness ==
  /\ \A t \in Task : /\ WF_vars(bufpool_get_wakeup(t))
                     /\ WF_vars(\E b \in Buf : bufpool_put(t, b))
  /\ WF_vars(bufpool_deinit_wakeup)

FairSpec == Spec /\ Fairness
-----------------------------------------------------------------------------
(* Types of the variables. *)
TypeOK ==
  /\ state    \in {"UNINITIALIZED", "INITIALIZED", "DEINITING", "DEINTED"}
  /\ freelist \in SUBSET Buf
  /\ owned    \in Nat
  /\ issued   \in Nat
  /\ holder   \in [Buf -> Task \cup {NoTask}]
  /\ rendez   \in Seq(Task)
  /\ pc       \in [Task -> PC]
  /\ closer   \in {"none", "sleep", "ready"}
  /\ open     \in BOOLEAN
  /\ abort    \in BOOLEAN

(* The counters the pool decides by are right whatever gets, puts, sleeps  *)
(* and failed callocs went before: issued is the number of buffers the     *)
(* tasks hold, owned adds the freelist, a buffer on the freelist is in no  *)
(* task's hands, owned never passes nmax, and the nbufs buffers of         *)
(* bufpool_init are never freed by bufpool_put.                            *)
Accounting ==
  /\ issued = Cardinality(Issued)
  /\ owned = issued + Cardinality(freelist)
  /\ Issued \cap freelist = {}
  /\ owned <= nmax
  /\ open => owned >= nbufs

(* Nobody waits on everybody: while a task sleeps in bufpool_get, a woken  *)
(* task is about to run or a task that does not sleep holds a buffer it    *)
(* will put.  rpc.txt asks for more buffers than requests "to avoid        *)
(* deadlock"; the count that matters is nbufs, as calloc may fail.         *)
Progress ==
  (\E t \in Task : pc[t] = "sleep") =>
     \E u \in Task : pc[u] = "ready" \/ (pc[u] = "run" /\ Held(u) # {})

NoHoldAndWait == nbufs > Cardinality(Task) => Progress

(* The asserts of bufpool_get and bufpool_deinit hold: no get reaches a    *)
(* pool being torn down, and when bufpool_deinit resumes all buffers are   *)
(* back ("block deinit until last buffer is freed").                       *)
AssertsHold == ~abort

(* A task asleep in bufpool_get is woken: bufpool_put wakes one waiter for *)
(* each buffer, in the order they came.                                    *)
SleeperIsWoken == \A t \in Task : pc[t] = "sleep" ~> pc[t] = "ready"

(* bufpool_deinit returns once the buffers out are put. *)
DeinitEnds == state = "DEINITING" ~> state = "DEINTED"
=============================================================================
