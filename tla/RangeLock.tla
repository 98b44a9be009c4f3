----------------------------- MODULE RangeLock ------------------------------
(***************************************************************************)
(* The byte-range lock of common/range_lock.c.                             *)
(*                                                                         *)
(* Tasks are libtask coroutines: the code between two suspension points    *)
(* (here the one tasksleep() of range_lock) is one atomic step.  Any ready *)
(* task may run next; libtask's FIFO run queue is one such schedule.       *)
(*                                                                         *)
(* The red-black tree is abstracted to the set of nodes linked in it:      *)
(* rb_search returns some node that overlaps the range, if there is one.   *)
(* Module RBTree checks that the tree code does that.  Nodes are heap      *)
(* cells: a freed cell may be handed out again by the next malloc.         *)
(***************************************************************************)
EXTENDS Naturals, FiniteSets

CONSTANTS
  Task,    \* the tasks that call range_lock
  Node,    \* the heap cells malloc can return for a struct rb_node
  NoNode,  \* the NULL pointer
  NoRange, \* the content of a variable or cell that holds no range
  Addr,    \* the addresses
  Request  \* the ranges the callers ask for; start and end in either order

ASSUME TaskAssumption == IsFiniteSet(Task)
ASSUME NodeAssumption == NoNode \notin Node
ASSUME AddrAssumption == Addr \subseteq Nat
ASSUME RangeAssumption == NoRange \notin [start : Addr, end : Addr]
ASSUME RequestAssumption == Request \subseteq [start : Addr, end : Addr]

VARIABLES
  pc,        \* where task t is: see PC
  want,      \* the range of t's call of range_lock
  at,        \* the local variable n of range_lock, or r->node of the holder
  tree,      \* the nodes linked in rl->root
  alloc,     \* the nodes malloc has returned and free has not taken back
  rng,       \* start and end of a node
  refcount   \* refcount of a node

vars == <<pc, want, at, tree, alloc, rng, refcount>>

Ranges == [start : Addr, end : Addr]


(* idle: outside the lock; sleep: in tasksleep(&n->rendez);               *)
(* ready: woken by taskwakeupall, still inside tasksleep; hold: returned   *)
PC == {"idle", "sleep", "ready", "hold"}

-----------------------------------------------------------------------------
(* SWAP(s, e) if s > e *)
Normalize(r) ==
  IF r.start > r.end THEN [start |-> r.end, end |-> r.start] ELSE r

(* fault: no test for one range containing the other *)
check_overlap_ends(a, b) ==
  LET p == Normalize(a)
      q == Normalize(b)
  IN  \/ p.start >= q.start /\ p.start <= q.end
      \/ p.end   >= q.start /\ p.end   <= q.end

check_overlap(a, b) ==
  LET p == Normalize(a)
      q == Normalize(b)
  IN  \/ p.start >= q.start /\ p.start <= q.end
      \/ p.end   >= q.start /\ p.end   <= q.end
      \/ q.start >= p.start /\ q.start <= p.end
      \/ q.end   >= p.start /\ q.end   <= p.end

(* rb_search: the nodes that the search for r may stop at *)
rb_search(r) == {n \in tree : check_overlap(rng[n], r)}

Init ==
  /\ pc       = [t \in Task |-> "idle"]
  /\ want     = [t \in Task |-> NoRange]
  /\ at       = [t \in Task |-> NoNode]
  /\ tree     = {}
  /\ alloc    = {}
  /\ rng      = [n \in Node |-> NoRange]
  /\ refcount = [n \in Node |-> 0]

(* free_node(n) when its reference count rc[n] has dropped to zero *)
HeapAfter(n, rc) == IF rc[n] = 0 THEN alloc \ {n} ELSE alloc
RngAfter(n, rc)  == IF rc[n] = 0 THEN [rng EXCEPT ![n] = NoRange] ELSE rng

(* fault: the waiter takes no reference *)
WaitFor_noref(t, r, rc, heap, cells) ==
  \E n \in rb_search(r) :
    /\ refcount' = rc
    /\ pc'       = [pc EXCEPT ![t] = "sleep"]
    /\ at'       = [at EXCEPT ![t] = n]
    /\ want'     = [want EXCEPT ![t] = r]
    /\ alloc'    = heap
    /\ rng'      = cells
    /\ UNCHANGED tree

(***************************************************************************)
(* One turn of the while(1) loop of range_lock, from the search to the     *)
(* sleep or to the return.  rc, heap and cells are the reference counts,   *)
(* the allocated nodes and their ranges when the turn begins.              *)
(***************************************************************************)
WaitFor(t, r, rc, heap, cells) ==
  \E n \in rb_search(r) :
    /\ refcount' = [rc EXCEPT ![n] = @ + 1]
    /\ pc'       = [pc EXCEPT ![t] = "sleep"]
    /\ at'       = [at EXCEPT ![t] = n]
    /\ want'     = [want EXCEPT ![t] = r]
    /\ alloc'    = heap
    /\ rng'      = cells
    /\ UNCHANGED tree

Insert(t, r, rc, heap, cells) ==
  \E n \in Node \ heap :
    /\ alloc'    = heap \cup {n}
    /\ tree'     = tree \cup {n}
    /\ rng'      = [cells EXCEPT ![n] = Normalize(r)]
    /\ refcount' = [rc EXCEPT ![n] = 1]
    /\ pc'       = [pc EXCEPT ![t] = "hold"]
    /\ at'       = [at EXCEPT ![t] = n]
    /\ want'     = [want EXCEPT ![t] = NoRange]

Turn(t, r, rc, heap, cells) ==
  \/ WaitFor(t, r, rc, heap, cells)
  \/ rb_search(r) = {} /\ Insert(t, r, rc, heap, cells)

(* a call of range_lock(rl, s, e), up to its first suspension or return *)
range_lock(t) ==
  /\ pc[t] = "idle"
  /\ \E r \in Request : Turn(t, r, refcount, alloc, rng)

(* fault: no new search after the sleep *)
range_lock_wakeup_blind(t) ==
  LET n  == at[t]
      rc == [refcount EXCEPT ![n] = @ - 1]
  IN  /\ pc[t] = "ready"
      /\ Insert(t, want[t], rc, HeapAfter(n, rc), RngAfter(n, rc))

(* the rest of the loop body after tasksleep returns, then the next turn *)
range_lock_wakeup(t) ==
  LET n  == at[t]
      rc == [refcount EXCEPT ![n] = @ - 1]
  IN  /\ pc[t] = "ready"
      /\ Turn(t, want[t], rc, HeapAfter(n, rc), RngAfter(n, rc))

(* fault: taskwakeup, which wakes one waiter *)
WakeAll_one(f, n) ==
  LET asleep == {u \in Task : pc[u] = "sleep" /\ at[u] = n}
  IN  IF asleep = {} THEN f ELSE [f EXCEPT ![CHOOSE u \in asleep : TRUE] = "ready"]

(* taskwakeupall(&n->rendez) *)
WakeAll(f, n) ==
  [u \in Task |-> IF pc[u] = "sleep" /\ at[u] = n THEN "ready" ELSE f[u]]

(* fault: a second reference is dropped for the tree *)
range_unlock_twice(t) ==
  LET n  == at[t]
      rc == [refcount EXCEPT ![n] = @ - 2]
  IN  /\ pc[t] = "hold"
      /\ tree'     = tree \ {n}
      /\ refcount' = rc
      /\ alloc'    = HeapAfter(n, rc)
      /\ rng'      = RngAfter(n, rc)
      /\ pc'       = WakeAll([pc EXCEPT ![t] = "idle"], n)
      /\ at'       = [at EXCEPT ![t] = NoNode]
      /\ UNCHANGED want

range_unlock(t) ==
  LET n    == at[t]
      rc   == [refcount EXCEPT ![n] = @ - 1]
      quit == [pc EXCEPT ![t] = "idle"]
  IN  /\ pc[t] = "hold"
      /\ tree'     = tree \ {n}
      /\ refcount' = rc
      /\ alloc'    = HeapAfter(n, rc)
      /\ rng'      = RngAfter(n, rc)
      /\ pc'       = IF rc[n] = 0 THEN quit ELSE WakeAll(quit, n)
      /\ at'       = [at EXCEPT ![t] = NoNode]
      /\ UNCHANGED want

Next == \E t \in Task : range_lock(t) \/ range_lock_wakeup(t) \/ range_unlock(t)

Spec == Init /\ [][Next]_vars

(***************************************************************************)
(* The run queue is FIFO, so a ready task runs (taskscheduler takes its    *)
(* head); a holder is a request handler that ends and unlocks its range.   *)
(***************************************************************************)
Fairness == \A t \in Task : WF_vars(range_lock_wakeup(t)) /\ WF_vars(range_unlock(t))

FairSpec == Spec /\ Fairness
-----------------------------------------------------------------------------
(* Types of the variables. *)
TypeOK ==
  /\ pc       \in [Task -> PC]
  /\ want     \in [Task -> Request \cup {NoRange}]
  /\ at       \in [Task -> Node \cup {NoNode}]
  /\ tree     \in SUBSET Node
  /\ alloc    \in SUBSET Node
  /\ rng      \in [Node -> Ranges \cup {NoRange}]
  /\ refcount \in [Node -> Nat]

(* Two holders never have a common address, whatever sleeps, wake-ups and  *)
(* retries lie between their calls: range_lock searches again after every  *)
(* tasksleep and inserts with no suspension in between.                    *)
MutualExclusion ==
  \A t, u \in Task :
    t # u /\ pc[t] = "hold" /\ pc[u] = "hold"
      => \A a \in Addr : ~ /\ rng[at[t]].start <= a /\ a <= rng[at[t]].end
                           /\ rng[at[u]].start <= a /\ a <= rng[at[u]].end

(* The tasks that will still dereference node n. *)
Users(n) == {t \in Task : pc[t] # "idle" /\ at[t] = n}

(* The reference count of a node is the number of tasks that will still    *)
(* touch it, so range_unlock and range_lock free a node exactly when its   *)
(* last user leaves: no task resumes on a freed node, and none is leaked.  *)
NodeLifetime ==
  /\ \A n \in alloc : refcount[n] = Cardinality(Users(n))
  /\ alloc = {n \in Node : Users(n) # {}}
  /\ \A t \in Task : pc[t] # "idle" => at[t] \in alloc

(* A task asleep in range_lock sleeps on a node that is still locked by    *)
(* some task: a node never leaves the tree with a sleeper left behind.     *)
SleepersHaveHolder ==
  \A t \in Task : pc[t] = "sleep" =>
    at[t] \in tree /\ \E u \in Task : pc[u] = "hold" /\ at[u] = at[t]

(* Every task asleep in range_lock is woken.  (That it then gets the range *)
(* is not promised: a running task may lock the range first.)              *)
AsleepIsWoken == \A t \in Task : pc[t] = "sleep" ~> pc[t] = "ready"

(* Each task's locked addresses; range_lock implements RangeMutex. *)
OwnedBy(t) ==
  IF pc[t] = "hold"
  THEN {a \in Addr : rng[at[t]].start <= a /\ a <= rng[at[t]].end}
  ELSE {}

Abstract == INSTANCE RangeMutex WITH owned <- [t \in Task |-> OwnedBy(t)]

(* Every behaviour of the lock, seen through the ranges its callers hold,  *)
(* is one of the abstract range mutex.                                     *)
ImplementsRangeMutex == Abstract!Spec
=============================================================================
