-------------------------- MODULE RangeLockProofs ---------------------------
(***************************************************************************)
(* Proofs about RangeLock for any finite set of tasks and any heap: the    *)
(* inductive invariant IInv, mutual exclusion, the lifetime of the nodes   *)
(* and the refinement of RangeMutex.                                       *)
(***************************************************************************)
EXTENDS RangeLock, FiniteSetTheorems, TLAPS

USE TaskAssumption, NodeAssumption, AddrAssumption, RangeAssumption,
    RequestAssumption
    DEF TaskAssumption, NodeAssumption, AddrAssumption, RangeAssumption,
        RequestAssumption

(* Every address of [start, end]. *)
Covers(p, a) == p.start <= a /\ a <= p.end

(* The ends of a range are addresses. *)
LEMMA RangeEnds ==
  ASSUME NEW r \in Ranges
  PROVE  r.start \in Addr /\ r.end \in Addr /\ r.start \in Nat /\ r.end \in Nat
BY DEF Ranges

(* A normalised range is a range with its ends in order. *)
LEMMA NormalizeRange ==
  ASSUME NEW r \in Ranges
  PROVE  Normalize(r) \in Ranges /\ Normalize(r).start <= Normalize(r).end
<1>1. CASE r.start > r.end
  <2>1. Normalize(r) = [start |-> r.end, end |-> r.start]
    BY <1>1 DEF Normalize
  <2> QED
    BY <2>1, <1>1, RangeEnds DEF Ranges
<1>2. CASE ~(r.start > r.end)
  BY <1>2, RangeEnds DEF Normalize
<1> QED
  BY <1>1, <1>2

(* A range with its ends in order is normalised. *)
LEMMA NormalizeId ==
  ASSUME NEW r \in Ranges, r.start <= r.end
  PROVE  Normalize(r) = r
BY RangeEnds DEF Normalize

(* check_overlap is exactly "the two ranges have a common address", for    *)
(* ranges given with their ends in either order.                           *)
LEMMA OverlapIsIntersection ==
  ASSUME NEW p \in Ranges, NEW q \in Ranges
  PROVE  check_overlap(p, q) <=>
           \E a \in Addr : Covers(Normalize(p), a) /\ Covers(Normalize(q), a)
<1> DEFINE x == Normalize(p)
           y == Normalize(q)
<1>1. /\ x \in Ranges /\ x.start \in Addr /\ x.end \in Addr
      /\ y \in Ranges /\ y.start \in Addr /\ y.end \in Addr
      /\ x.start <= x.end /\ y.start <= y.end
      /\ x.start \in Nat /\ x.end \in Nat /\ y.start \in Nat /\ y.end \in Nat
  BY NormalizeRange, RangeEnds
<1>2. ASSUME NEW a \in Addr, Covers(x, a), Covers(y, a)
      PROVE  check_overlap(p, q)
  BY <1>1, <1>2 DEF Covers, check_overlap
<1>3. ASSUME check_overlap(p, q)
      PROVE  \E a \in Addr : Covers(x, a) /\ Covers(y, a)
  <2>1. \/ x.start >= y.start /\ x.start <= y.end
        \/ x.end   >= y.start /\ x.end   <= y.end
        \/ y.start >= x.start /\ y.start <= x.end
        \/ y.end   >= x.start /\ y.end   <= x.end
    BY <1>3 DEF check_overlap
  <2> HIDE DEF x, y
  <2>2. CASE x.start >= y.start /\ x.start <= y.end
    BY <1>1, <2>2 DEF Covers
  <2>3. CASE x.end >= y.start /\ x.end <= y.end
    BY <1>1, <2>3 DEF Covers
  <2>4. CASE y.start >= x.start /\ y.start <= x.end
    BY <1>1, <2>4 DEF Covers
  <2>5. CASE y.end >= x.start /\ y.end <= x.end
    BY <1>1, <2>5 DEF Covers
  <2> QED
    BY <2>1, <2>2, <2>3, <2>4, <2>5
<1> QED
  BY <1>2, <1>3

-----------------------------------------------------------------------------
(* A node in the tree belongs to exactly one holder. *)
TreeHeld ==
  /\ \A n \in tree : \E u \in Task : pc[u] = "hold" /\ at[u] = n
  /\ \A u \in Task : pc[u] = "hold" => at[u] \in tree
  /\ \A t, u \in Task :
       pc[t] = "hold" /\ pc[u] = "hold" /\ at[t] = at[u] => t = u

(* Allocated nodes hold normalised ranges, and those in the tree are       *)
(* pairwise disjoint.                                                      *)
TreeDisjoint ==
  /\ \A n \in alloc : rng[n] \in Ranges /\ rng[n].start <= rng[n].end
  /\ \A m, n \in tree : m # n => ~check_overlap(rng[m], rng[n])

(* A task in the loop knows which range it wants. *)
WantKnown == \A t \in Task : pc[t] \in {"sleep", "ready"} => want[t] \in Request

AsleepInTree == \A t \in Task : pc[t] = "sleep" => at[t] \in tree

(* The inductive invariant.  MutualExclusion needs TreeDisjoint, which     *)
(* needs that malloc returns no node of the tree, hence NodeLifetime.      *)
IInv ==
  /\ TypeOK
  /\ NodeLifetime
  /\ TreeHeld
  /\ TreeDisjoint
  /\ WantKnown
  /\ AsleepInTree

(* The users of a node other than the task t that is running. *)
Others(n, t) == Users(n) \ {t}

(* What a turn of the loop may rely on: rc, heap and cells describe the    *)
(* nodes as they are with t gone from the node it slept on.                *)
TurnPre(t, r, rc, heap, cells) ==
  /\ pc[t] \in {"idle", "ready"}
  /\ r \in Request
  /\ rc \in [Node -> Nat]
  /\ heap = {n \in Node : Others(n, t) # {}}
  /\ cells \in [Node -> Ranges \cup {NoRange}]
  /\ \A n \in heap : rc[n] = Cardinality(Others(n, t)) /\ cells[n] = rng[n]

(* The users of a node can be counted. *)
LEMMA UsersFinite == \A n : IsFiniteSet(Users(n)) /\ Cardinality(Users(n)) \in Nat
BY FS_Subset, FS_CardinalityType DEF Users

(* Overlap of a normalised range does not depend on the order of r's ends. *)
LEMMA OverlapSymmetric ==
  ASSUME NEW p \in Ranges, NEW r \in Ranges
  PROVE  /\ check_overlap(p, r) <=> check_overlap(p, Normalize(r))
         /\ check_overlap(p, r) <=> check_overlap(Normalize(r), p)
<1>1. Normalize(Normalize(r)) = Normalize(r)
  BY NormalizeRange, NormalizeId
<1>2. Normalize(r) \in Ranges
  BY NormalizeRange
<1> QED
  BY <1>1, <1>2, OverlapIsIntersection

-----------------------------------------------------------------------------
(* Before the first call nobody holds or waits. *)
LEMMA InitInv == Init => IInv
<1> SUFFICES ASSUME Init PROVE IInv
  OBVIOUS
<1>1. \A n : Users(n) = {}
  BY DEF Init, Users
<1> QED
  BY <1>1 DEF Init, IInv, TypeOK, PC, NodeLifetime, TreeHeld, TreeDisjoint,
              WantKnown, AsleepInTree

(* What the users of the nodes are after t has moved to node n. *)
LEMMA UsersAfterMove ==
  ASSUME TypeOK, NEW t \in Task, NEW n \in Node, NEW k \in {"sleep", "hold"},
         pc' = [pc EXCEPT ![t] = k], at' = [at EXCEPT ![t] = n]
  PROVE  /\ Users(n)' = Others(n, t) \cup {t}
         /\ \A m : m # n => Users(m)' = Others(m, t)
         /\ Cardinality(Users(n)') = Cardinality(Others(n, t)) + 1
<1>1. /\ Users(n)' = Others(n, t) \cup {t}
      /\ \A m : m # n => Users(m)' = Others(m, t)
  BY DEF TypeOK, Users, Others
<1>2. IsFiniteSet(Others(n, t)) /\ t \notin Others(n, t)
  BY UsersFinite, FS_Subset DEF Others
<1>3. Cardinality(Others(n, t) \cup {t}) = Cardinality(Others(n, t)) + 1
  BY ONLY <1>2, FS_AddElement
<1> QED
  BY ONLY <1>1, <1>3

(* A turn that finds an overlapping node and sleeps on it. *)
LEMMA WaitForInv ==
  ASSUME IInv, NEW t \in Task, NEW r, NEW rc, NEW heap, NEW cells,
         TurnPre(t, r, rc, heap, cells), WaitFor(t, r, rc, heap, cells)
  PROVE  IInv'
<1> USE DEF IInv, TurnPre
<1>1. PICK n \in rb_search(r) :
        /\ refcount' = [rc EXCEPT ![n] = @ + 1]
        /\ pc'       = [pc EXCEPT ![t] = "sleep"]
        /\ at'       = [at EXCEPT ![t] = n]
        /\ want'     = [want EXCEPT ![t] = r]
        /\ alloc'    = heap
        /\ rng'      = cells
        /\ tree'     = tree
  BY DEF WaitFor
<1>2. n \in tree /\ n \in Node
  BY DEF rb_search, TypeOK
<1>3. PICK u \in Task : pc[u] = "hold" /\ at[u] = n
  BY <1>2 DEF TreeHeld
<1>4. tree \subseteq heap
  <2> SUFFICES ASSUME NEW m \in tree PROVE m \in heap
    OBVIOUS
  <2>1. PICK v \in Task : pc[v] = "hold" /\ at[v] = m
    BY DEF TreeHeld
  <2>2. v \in Others(m, t)
    BY <2>1 DEF Others, Users
  <2> QED
    BY <2>2 DEF TypeOK
<1>5. /\ Users(n)' = Others(n, t) \cup {t}
      /\ \A m : m # n => Users(m)' = Others(m, t)
      /\ Cardinality(Users(n)') = Cardinality(Others(n, t)) + 1
  BY <1>1, <1>2, UsersAfterMove
<1>6. TypeOK'
  BY <1>1, <1>2 DEF TypeOK, PC
<1>7. NodeLifetime'
  <2>1. n \in heap
    BY <1>2, <1>4
  <2>2. \A m \in heap : refcount'[m] = Cardinality(Users(m)')
    <3> SUFFICES ASSUME NEW m \in heap PROVE refcount'[m] = Cardinality(Users(m)')
      OBVIOUS
    <3>1. CASE m = n
      BY <1>1, <1>2, <1>5, <2>1, <3>1
    <3>2. CASE m # n
      BY <1>1, <1>2, <1>5, <3>2
    <3> QED
      BY <3>1, <3>2
  <2>3. heap = {m \in Node : Users(m)' # {}}
    BY <1>2, <1>5, <2>1
  <2>4. ASSUME NEW v \in Task, pc'[v] # "idle" PROVE at'[v] \in heap
    <3>1. CASE v = t
      BY <1>1, <2>1, <3>1 DEF TypeOK
    <3>2. CASE v # t
      <4>1. v \in Users(at[v]) /\ at'[v] = at[v] /\ at[v] \in alloc
        BY <1>1, <2>4, <3>2 DEF TypeOK, Users, NodeLifetime
      <4> QED
        BY <4>1, <3>2 DEF Others, TypeOK
    <3> QED
      BY <3>1, <3>2
  <2> QED
    BY <1>1, <2>2, <2>3, <2>4 DEF NodeLifetime
<1>8. TreeHeld'
  BY <1>1 DEF TreeHeld, TypeOK
<1>9. TreeDisjoint'
  <2>1. heap \subseteq alloc
    BY DEF NodeLifetime, Others
  <2> QED
    BY <1>1, <1>4, <2>1 DEF TreeDisjoint
<1>10. WantKnown'
  BY <1>1 DEF WantKnown, TypeOK
<1>11. AsleepInTree'
  BY <1>1, <1>2 DEF AsleepInTree, TypeOK
<1> QED
  BY <1>6, <1>7, <1>8, <1>9, <1>10, <1>11

(* A turn that finds no overlap and inserts a new node. *)
LEMMA InsertInv ==
  ASSUME IInv, NEW t \in Task, NEW r, NEW rc, NEW heap, NEW cells,
         TurnPre(t, r, rc, heap, cells), rb_search(r) = {},
         Insert(t, r, rc, heap, cells)
  PROVE  IInv'
<1> USE DEF IInv, TurnPre
<1>1. PICK n \in Node \ heap :
        /\ alloc'    = heap \cup {n}
        /\ tree'     = tree \cup {n}
        /\ rng'      = [cells EXCEPT ![n] = Normalize(r)]
        /\ refcount' = [rc EXCEPT ![n] = 1]
        /\ pc'       = [pc EXCEPT ![t] = "hold"]
        /\ at'       = [at EXCEPT ![t] = n]
        /\ want'     = [want EXCEPT ![t] = NoRange]
  BY DEF Insert
<1>2. tree \subseteq heap
  <2> SUFFICES ASSUME NEW m \in tree PROVE m \in heap
    OBVIOUS
  <2>1. PICK v \in Task : pc[v] = "hold" /\ at[v] = m
    BY DEF TreeHeld
  <2>2. v \in Others(m, t)
    BY <2>1 DEF Others, Users
  <2> QED
    BY <2>2 DEF TypeOK
<1>3. Others(n, t) = {}
  BY <1>1
<1>4. /\ Users(n)' = {t}
      /\ \A m : m # n => Users(m)' = Others(m, t)
      /\ Cardinality(Users(n)') = 1
  <2>1. /\ Users(n)' = Others(n, t) \cup {t}
        /\ \A m : m # n => Users(m)' = Others(m, t)
        /\ Cardinality(Users(n)') = Cardinality(Others(n, t)) + 1
    BY <1>1, UsersAfterMove
  <2>2. Cardinality(Others(n, t)) = 0
    BY <1>3, FS_EmptySet
  <2> QED
    BY <1>3, <2>1, <2>2
<1>5. r \in Ranges /\ Normalize(r) \in Ranges
      /\ Normalize(r).start <= Normalize(r).end
  BY NormalizeRange DEF Ranges
<1>6. TypeOK'
  BY <1>1, <1>5 DEF TypeOK, PC
<1>7. NodeLifetime'
  <2>1. ASSUME NEW m \in alloc' PROVE refcount'[m] = Cardinality(Users(m)')
    <3>1. CASE m = n
      BY <1>1, <1>4, <3>1
    <3>2. CASE m # n
      BY <1>1, <1>4, <2>1, <3>2
    <3> QED
      BY <3>1, <3>2
  <2>2. alloc' = {m \in Node : Users(m)' # {}}
    BY <1>1, <1>4
  <2>3. ASSUME NEW v \in Task, pc'[v] # "idle" PROVE at'[v] \in alloc'
    <3>1. CASE v = t
      BY <1>1, <3>1 DEF TypeOK
    <3>2. CASE v # t
      <4>1. v \in Users(at[v]) /\ at'[v] = at[v] /\ at[v] \in alloc
        BY <1>1, <2>3, <3>2 DEF TypeOK, Users, NodeLifetime
      <4> QED
        BY <1>1, <4>1, <3>2 DEF Others, TypeOK
    <3> QED
      BY <3>1, <3>2
  <2> QED
    BY <2>1, <2>2, <2>3 DEF NodeLifetime
<1>8. TreeHeld'
  <2>1. \A u \in Task : pc[u] = "hold" => at[u] # n
    BY <1>1, <1>2 DEF TreeHeld
  <2> QED
    BY <1>1, <2>1 DEF TreeHeld, TypeOK
<1>9. TreeDisjoint'
  <2>1. heap \subseteq alloc
    BY DEF NodeLifetime, Others
  <2>2. rng'[n] = Normalize(r) /\ \A m \in heap : rng'[m] = rng[m]
    BY <1>1
  <2>3. \A m \in alloc' : rng'[m] \in Ranges /\ rng'[m].start <= rng'[m].end
    BY <1>1, <1>5, <2>1, <2>2 DEF TreeDisjoint
  <2>4. \A m \in tree : /\ ~check_overlap(rng[m], Normalize(r))
                         /\ ~check_overlap(Normalize(r), rng[m])
    BY <1>2, <1>5, <2>1, OverlapSymmetric DEF rb_search, TreeDisjoint
  <2>5. ASSUME NEW k \in tree', NEW m \in tree', k # m
        PROVE  ~check_overlap(rng'[k], rng'[m])
    <3>1. CASE k \in tree /\ m \in tree
      BY <1>2, <2>2, <2>5, <3>1 DEF TreeDisjoint
    <3>2. CASE k = n
      BY <1>1, <1>2, <2>2, <2>4, <2>5, <3>2
    <3>3. CASE m = n
      BY <1>1, <1>2, <2>2, <2>4, <2>5, <3>3
    <3> QED
      BY <1>1, <3>1, <3>2, <3>3
  <2> QED
    BY <2>3, <2>5 DEF TreeDisjoint, check_overlap, Normalize
<1>10. WantKnown'
  BY <1>1 DEF WantKnown, TypeOK
<1>11. AsleepInTree'
  BY <1>1 DEF AsleepInTree, TypeOK
<1> QED
  BY <1>6, <1>7, <1>8, <1>9, <1>10, <1>11

(* What a turn relies on holds when range_lock is called ... *)
LEMMA LockPre ==
  ASSUME IInv, NEW t \in Task, pc[t] = "idle", NEW r \in Request
  PROVE  TurnPre(t, r, refcount, alloc, rng)
<1>1. \A n : Others(n, t) = Users(n)
  BY DEF Others, Users
<1> QED
  BY <1>1 DEF TurnPre, IInv, TypeOK, NodeLifetime

(* ... and when tasksleep has returned and t has dropped its reference. *)
LEMMA WakeupPre ==
  ASSUME IInv, NEW t \in Task, pc[t] = "ready"
  PROVE  LET rc == [refcount EXCEPT ![at[t]] = @ - 1]
         IN  TurnPre(t, want[t], rc, HeapAfter(at[t], rc), RngAfter(at[t], rc))
<1> DEFINE n  == at[t]
           rc == [refcount EXCEPT ![n] = @ - 1]
           heap == HeapAfter(n, rc)
           cells == RngAfter(n, rc)
<1>2. n \in alloc /\ n \in Node /\ t \in Users(n)
  BY DEF IInv, NodeLifetime, TypeOK, Users
<1>3. /\ Cardinality(Others(n, t)) = Cardinality(Users(n)) - 1
      /\ IsFiniteSet(Others(n, t)) /\ Cardinality(Others(n, t)) \in Nat
  BY <1>2, UsersFinite, FS_RemoveElement, FS_CardinalityType DEF Others
<1>4. \A m : m # n => Others(m, t) = Users(m)
  BY DEF Others, Users
<1>5. rc \in [Node -> Nat] /\ rc[n] = Cardinality(Others(n, t))
      /\ \A m \in Node : m # n => rc[m] = refcount[m]
  BY <1>2, <1>3 DEF IInv, TypeOK, NodeLifetime
<1>6. rc[n] = 0 <=> Others(n, t) = {}
  BY <1>3, <1>5, FS_EmptySet
<1>7. heap = {m \in Node : Others(m, t) # {}}
  BY <1>2, <1>4, <1>6 DEF HeapAfter, IInv, NodeLifetime
<1>8. \A m \in heap : rc[m] = Cardinality(Others(m, t)) /\ cells[m] = rng[m]
  <2> SUFFICES ASSUME NEW m \in heap
               PROVE  rc[m] = Cardinality(Others(m, t)) /\ cells[m] = rng[m]
    OBVIOUS
  <2>1. m \in alloc /\ m \in Node
    BY DEF HeapAfter, IInv, TypeOK
  <2>2. CASE m = n
    BY <1>2, <1>5, <1>6, <1>7, <2>2 DEF RngAfter
  <2>3. CASE m # n
    BY <1>2, <1>4, <1>5, <2>1, <2>3 DEF RngAfter, IInv, TypeOK, NodeLifetime
  <2> QED
    BY <2>2, <2>3
<1>9. want[t] \in Request /\ cells \in [Node -> Ranges \cup {NoRange}]
  BY <1>2 DEF IInv, WantKnown, TypeOK, RngAfter
<1> QED
  BY <1>5, <1>7, <1>8, <1>9 DEF TurnPre

(* range_lock up to its sleep or insertion keeps the invariant. *)
LEMMA RangeLockInv ==
  ASSUME IInv, NEW t \in Task, range_lock(t)
  PROVE  IInv'
<1>1. PICK r \in Request : Turn(t, r, refcount, alloc, rng)
  BY DEF range_lock
<1>2. TurnPre(t, r, refcount, alloc, rng)
  BY LockPre DEF range_lock
<1> QED
  BY <1>1, <1>2, WaitForInv, InsertInv DEF Turn

(* range_lock after its sleep keeps the invariant. *)
LEMMA WakeupInv ==
  ASSUME IInv, NEW t \in Task, range_lock_wakeup(t)
  PROVE  IInv'
<1> DEFINE rc == [refcount EXCEPT ![at[t]] = @ - 1]
           heap == HeapAfter(at[t], rc)
           cells == RngAfter(at[t], rc)
<1>1. Turn(t, want[t], rc, heap, cells)
  BY DEF range_lock_wakeup
<1>2. TurnPre(t, want[t], rc, heap, cells)
  BY WakeupPre DEF range_lock_wakeup
<1> HIDE DEF rc, heap, cells
<1> QED
  BY <1>1, <1>2, WaitForInv, InsertInv DEF Turn

(* range_unlock keeps the invariant. *)
LEMMA UnlockInv ==
  ASSUME IInv, NEW t \in Task, range_unlock(t)
  PROVE  IInv'
<1> DEFINE n  == at[t]
           rc == [refcount EXCEPT ![n] = @ - 1]
<1>1. /\ pc[t] = "hold"
      /\ tree' = tree \ {n} /\ refcount' = rc
      /\ alloc' = HeapAfter(n, rc) /\ rng' = RngAfter(n, rc)
      /\ at' = [at EXCEPT ![t] = NoNode] /\ want' = want
  BY DEF range_unlock
<1>2. n \in alloc /\ n \in tree /\ n \in Node /\ t \in Users(n) /\ TypeOK
  BY <1>1 DEF IInv, NodeLifetime, TreeHeld, TypeOK, Users
<1>3. /\ Cardinality(Others(n, t)) = Cardinality(Users(n)) - 1
      /\ IsFiniteSet(Others(n, t)) /\ Cardinality(Others(n, t)) \in Nat
  BY <1>2, UsersFinite, FS_RemoveElement, FS_CardinalityType DEF Others
<1>4. rc \in [Node -> Nat] /\ rc[n] = Cardinality(Others(n, t))
      /\ \A m \in Node : m # n => rc[m] = refcount[m]
  BY <1>2, <1>3 DEF IInv, TypeOK, NodeLifetime
<1>5. rc[n] = 0 <=> Others(n, t) = {}
  BY <1>3, <1>4, FS_EmptySet
<1>6. /\ pc' \in [Task -> PC] /\ pc'[t] = "idle"
      /\ \A u \in Task : u # t =>
           pc'[u] = IF pc[u] = "sleep" /\ at[u] = n THEN "ready" ELSE pc[u]
  <2>1. CASE rc[n] = 0
    <3>1. \A u \in Task : u # t => ~(pc[u] = "sleep" /\ at[u] = n)
      BY <1>5, <2>1 DEF Others, Users
    <3>2. pc' = [pc EXCEPT ![t] = "idle"]
      BY <2>1 DEF range_unlock
    <3> QED
      BY <1>2, <3>1, <3>2 DEF TypeOK, PC
  <2>2. CASE rc[n] # 0
    <3>1. pc' = WakeAll([pc EXCEPT ![t] = "idle"], n)
      BY <2>2 DEF range_unlock
    <3> QED
      BY <1>1, <1>2, <3>1 DEF WakeAll, TypeOK, PC
  <2> QED
    BY <2>1, <2>2
<1>7. \A m \in Node : Users(m)' = Others(m, t)
  BY <1>1, <1>2, <1>6 DEF Users, Others, TypeOK
<1>8. \A m : m # n => Others(m, t) = Users(m)
  BY DEF Others, Users
<1>9. TypeOK'
  BY <1>1, <1>2, <1>4, <1>6 DEF TypeOK, HeapAfter, RngAfter
<1>10. NodeLifetime'
  <2>1. alloc' = {m \in Node : Users(m)' # {}}
    BY <1>1, <1>2, <1>5, <1>7, <1>8 DEF HeapAfter, IInv, NodeLifetime
  <2>2. ASSUME NEW m \in alloc' PROVE refcount'[m] = Cardinality(Users(m)')
    <3>1. m \in alloc /\ m \in Node
      BY <1>1, <1>2, <2>2 DEF HeapAfter, TypeOK
    <3>2. CASE m = n
      BY <1>1, <1>4, <1>7, <3>1, <3>2
    <3>3. CASE m # n
      BY <1>1, <1>4, <1>7, <1>8, <3>1, <3>3 DEF IInv, NodeLifetime
    <3> QED
      BY <3>2, <3>3
  <2>3. ASSUME NEW v \in Task, pc'[v] # "idle" PROVE at'[v] \in alloc'
    <3>1. v # t /\ pc[v] # "idle" /\ at'[v] = at[v]
      BY <1>1, <1>2, <1>6, <2>3 DEF TypeOK
    <3>2. at[v] \in alloc /\ at[v] \in Node
      BY <1>2, <3>1 DEF IInv, NodeLifetime, TypeOK
    <3>3. v \in Users(at[v])'
      BY <3>1, <3>2, <1>7 DEF Others, Users
    <3> QED
      BY <2>1, <3>1, <3>2, <3>3
  <2> QED
    BY <2>1, <2>2, <2>3 DEF NodeLifetime
<1>11. TreeHeld'
  BY <1>1, <1>2, <1>6 DEF IInv, TreeHeld, TypeOK
<1>12. TreeDisjoint'
  <2>1. alloc' \subseteq alloc /\ \A m \in alloc' : rng'[m] = rng[m]
    BY <1>1, <1>2 DEF HeapAfter, RngAfter, TypeOK
  <2>2. \A m \in tree' : rng'[m] = rng[m]
    BY <1>1, <1>2 DEF RngAfter, TypeOK
  <2>3. \A k, m \in tree' : k # m => ~check_overlap(rng'[k], rng'[m])
    BY <1>1, <2>2 DEF IInv, TreeDisjoint
  <2>4. \A m \in alloc' : rng'[m] \in Ranges /\ rng'[m].start <= rng'[m].end
    BY <2>1 DEF IInv, TreeDisjoint
  <2> QED
    BY <2>3, <2>4 DEF TreeDisjoint, check_overlap, Normalize
<1>13. WantKnown'
  BY <1>1, <1>6 DEF IInv, WantKnown
<1>14. AsleepInTree'
  BY <1>1, <1>2, <1>6 DEF IInv, AsleepInTree, TypeOK
<1> QED
  BY <1>9, <1>10, <1>11, <1>12, <1>13, <1>14 DEF IInv

(* Every step keeps the invariant. *)
LEMMA NextInv == IInv /\ [Next]_vars => IInv'
<1> SUFFICES ASSUME IInv, [Next]_vars PROVE IInv'
  OBVIOUS
<1>1. ASSUME NEW t \in Task, range_lock(t) PROVE IInv'
  BY <1>1, RangeLockInv
<1>2. ASSUME NEW t \in Task, range_lock_wakeup(t) PROVE IInv'
  BY <1>2, WakeupInv
<1>3. ASSUME NEW t \in Task, range_unlock(t) PROVE IInv'
  BY <1>3, UnlockInv
<1>4. CASE UNCHANGED vars
  BY <1>4 DEF vars, IInv, TypeOK, NodeLifetime, Users, TreeHeld, TreeDisjoint,
              check_overlap, Normalize, WantKnown, AsleepInTree
<1> QED
  BY <1>1, <1>2, <1>3, <1>4 DEF Next

(* The inductive invariant holds in every behaviour of range_lock.c. *)
THEOREM Invariance == Spec => []IInv
BY InitInv, NextInv, PTL DEF Spec

(* The variables keep their types: no reference count goes negative, and   *)
(* only nodes of the heap are linked, allocated or waited for.             *)
THEOREM TypeCorrect == Spec => []TypeOK
<1>1. IInv => TypeOK
  BY DEF IInv
<1> QED
  BY <1>1, Invariance, PTL

(* Disjoint ranges in the tree mean that no address is held twice. *)
LEMMA InvMutualExclusion == IInv => MutualExclusion
<1> SUFFICES ASSUME IInv, NEW t \in Task, NEW u \in Task, t # u,
                    pc[t] = "hold", pc[u] = "hold", NEW a \in Addr,
                    Covers(rng[at[t]], a), Covers(rng[at[u]], a)
             PROVE  FALSE
  BY DEF MutualExclusion, Covers
<1>1. /\ at[t] \in tree /\ at[u] \in tree /\ at[t] # at[u]
      /\ at[t] \in alloc /\ at[u] \in alloc
  BY DEF IInv, TreeHeld, NodeLifetime
<1>2. /\ rng[at[t]] \in Ranges /\ rng[at[u]] \in Ranges
      /\ Normalize(rng[at[t]]) = rng[at[t]] /\ Normalize(rng[at[u]]) = rng[at[u]]
      /\ ~check_overlap(rng[at[t]], rng[at[u]])
  BY <1>1, NormalizeId DEF IInv, TreeDisjoint
<1> QED
  BY <1>2, OverlapIsIntersection

(* Two tasks never hold ranges with a common address. *)
THEOREM Exclusion == Spec => []MutualExclusion
BY InvMutualExclusion, Invariance, PTL

(* A node is freed exactly when its last user leaves: no task resumes from *)
(* tasksleep on a freed node, and no node is leaked.                       *)
THEOREM Lifetime == Spec => []NodeLifetime
<1>1. IInv => NodeLifetime
  BY DEF IInv
<1> QED
  BY <1>1, Invariance, PTL

(* A sleeper always has a holder that will wake it. *)
THEOREM NoForgottenSleeper == Spec => []SleepersHaveHolder
<1>1. IInv => SleepersHaveHolder
  BY DEF IInv, TreeHeld, AsleepInTree, SleepersHaveHolder
<1> QED
  BY <1>1, Invariance, PTL

-----------------------------------------------------------------------------
(* The refinement of RangeMutex. *)
Owned == [t \in Task |-> OwnedBy(t)]

(* Only an action that makes t a holder, or ends its hold, changes the     *)
(* addresses anyone owns.                                                  *)
LEMMA OwnedOfHolder ==
  ASSUME IInv, NEW t \in Task
  PROVE  /\ pc[t] = "hold" => /\ Owned[t] # {}
                             /\ rng[at[t]] \in Ranges
                             /\ Owned[t] = Abstract!Points(rng[at[t]].start, rng[at[t]].end)
         /\ pc[t] # "hold" => Owned[t] = {}
<1>1. CASE pc[t] = "hold"
  <2>1. rng[at[t]] \in Ranges /\ rng[at[t]].start <= rng[at[t]].end
    BY <1>1 DEF IInv, NodeLifetime, TreeDisjoint
  <2>2. rng[at[t]].start \in Owned[t]
    BY <1>1, <2>1, RangeEnds DEF Owned, OwnedBy
  <2> QED
    BY <1>1, <2>1, <2>2 DEF Owned, OwnedBy, Abstract!Points
<1>2. CASE pc[t] # "hold"
  BY <1>2 DEF Owned, OwnedBy
<1> QED
  BY <1>1, <1>2

(* The same after a step. *)
LEMMA InvMutualExclusionNext == IInv' => MutualExclusion'
BY InvMutualExclusion, PTL

(* Nobody but the running task t starts or stops holding, and a node that  *)
(* stays held keeps its range.                                             *)
OthersKeep(t) ==
  \A u \in Task : u # t =>
    /\ pc[u] = "hold" <=> pc'[u] = "hold"
    /\ pc[u] = "hold" => at'[u] = at[u] /\ rng'[at[u]] = rng[at[u]]

(* What another task owns does not change. *)
LEMMA OthersKeepOwned ==
  ASSUME IInv, NEW t \in Task, OthersKeep(t), NEW u \in Task, u # t
  PROVE  Owned'[u] = Owned[u]
BY DEF OthersKeep, Owned, OwnedBy

(* The insertion of rb_insert is an Acquire. *)
LEMMA InsertAcquires ==
  ASSUME IInv, IInv', NEW t \in Task, NEW r, NEW rc, NEW heap, NEW cells,
         TurnPre(t, r, rc, heap, cells), Insert(t, r, rc, heap, cells)
  PROVE  Abstract!Acquire(t)
<1> USE DEF TurnPre
<1>1. PICK n \in Node \ heap :
        /\ rng' = [cells EXCEPT ![n] = Normalize(r)]
        /\ pc'  = [pc EXCEPT ![t] = "hold"]
        /\ at'  = [at EXCEPT ![t] = n]
  BY DEF Insert
<1>2. OthersKeep(t)
  <2> SUFFICES ASSUME NEW u \in Task, u # t
               PROVE  /\ pc[u] = "hold" <=> pc'[u] = "hold"
                      /\ pc[u] = "hold" => at'[u] = at[u] /\ rng'[at[u]] = rng[at[u]]
    BY DEF OthersKeep
  <2>1. pc'[u] = pc[u] /\ at'[u] = at[u]
    BY <1>1 DEF IInv, TypeOK
  <2>2. ASSUME pc[u] = "hold" PROVE at[u] \in heap
    BY <2>2 DEF Others, Users, IInv, NodeLifetime, TypeOK
  <2> QED
    BY <1>1, <2>1, <2>2
<1>3. pc'[t] = "hold" /\ rng'[at'[t]] = Normalize(r) /\ pc[t] # "hold"
  BY <1>1 DEF IInv, TypeOK
<1>4. Normalize(r) \in Ranges /\ Normalize(r).start <= Normalize(r).end
      /\ Normalize(r).start \in Addr /\ Normalize(r).end \in Addr
  BY NormalizeRange, RangeEnds DEF Ranges
<1>5. Owned[t] = {}
  BY <1>3, OwnedOfHolder
<1>6. Owned'[t] = Abstract!Points(Normalize(r).start, Normalize(r).end)
  BY <1>3 DEF Owned, OwnedBy, Abstract!Points
<1>7. \A u \in Task : u # t => Owned'[u] = Owned[u]
  BY <1>2, OthersKeepOwned
<1>8. MutualExclusion'
  BY InvMutualExclusionNext
<1>9. \A u \in Task : u # t => Owned'[u] \cap Owned'[t] = {}
  BY <1>8 DEF MutualExclusion, Owned, OwnedBy
<1>10. \A u \in Task :
         Owned[u] \cap Abstract!Points(Normalize(r).start, Normalize(r).end) = {}
  BY <1>5, <1>6, <1>7, <1>9
<1>11. Owned' = [Owned EXCEPT ![t] =
                  Abstract!Points(Normalize(r).start, Normalize(r).end)]
  BY <1>6, <1>7 DEF Owned
<1> QED
  BY <1>4, <1>5, <1>10, <1>11 DEF Abstract!Acquire, Owned

(* Going to sleep changes no owner. *)
LEMMA WaitForStutters ==
  ASSUME IInv, NEW t \in Task, NEW r, NEW rc, NEW heap, NEW cells,
         TurnPre(t, r, rc, heap, cells), WaitFor(t, r, rc, heap, cells)
  PROVE  Owned' = Owned
<1> USE DEF TurnPre
<1>1. PICK n \in rb_search(r) :
        /\ rng' = cells
        /\ pc'  = [pc EXCEPT ![t] = "sleep"]
        /\ at'  = [at EXCEPT ![t] = n]
  BY DEF WaitFor
<1>2. OthersKeep(t)
  <2> SUFFICES ASSUME NEW u \in Task, u # t
               PROVE  /\ pc[u] = "hold" <=> pc'[u] = "hold"
                      /\ pc[u] = "hold" => at'[u] = at[u] /\ rng'[at[u]] = rng[at[u]]
    BY DEF OthersKeep
  <2>1. pc'[u] = pc[u] /\ at'[u] = at[u]
    BY <1>1 DEF IInv, TypeOK
  <2>2. ASSUME pc[u] = "hold" PROVE at[u] \in heap
    BY <2>2 DEF Others, Users, IInv, NodeLifetime, TypeOK
  <2> QED
    BY <1>1, <2>1, <2>2
<1>3. pc[t] # "hold" /\ pc'[t] # "hold"
  BY <1>1 DEF IInv, TypeOK
<1>4. Owned'[t] = Owned[t]
  BY <1>3 DEF Owned, OwnedBy
<1>5. \A u \in Task : u # t => Owned'[u] = Owned[u]
  BY <1>2, OthersKeepOwned
<1> QED
  BY <1>4, <1>5 DEF Owned

(* range_unlock is a Release. *)
LEMMA UnlockReleases ==
  ASSUME IInv, NEW t \in Task, range_unlock(t)
  PROVE  Abstract!Release(t)
<1> DEFINE n  == at[t]
           rc == [refcount EXCEPT ![n] = @ - 1]
<1>1. /\ pc[t] = "hold" /\ rng' = RngAfter(n, rc)
      /\ at' = [at EXCEPT ![t] = NoNode]
      /\ \/ pc' = [pc EXCEPT ![t] = "idle"]
         \/ pc' = WakeAll([pc EXCEPT ![t] = "idle"], n)
  BY DEF range_unlock
<1>2. OthersKeep(t)
  <2> SUFFICES ASSUME NEW u \in Task, u # t
               PROVE  /\ pc[u] = "hold" <=> pc'[u] = "hold"
                      /\ pc[u] = "hold" => at'[u] = at[u] /\ rng'[at[u]] = rng[at[u]]
    BY DEF OthersKeep
  <2>1. pc[u] = "hold" => at[u] # n /\ at[u] \in Node
    BY <1>1 DEF IInv, TreeHeld, TypeOK
  <2>2. at'[u] = at[u] /\ (pc[u] = "hold" <=> pc'[u] = "hold")
    BY <1>1 DEF IInv, TypeOK, WakeAll
  <2> QED
    BY <1>1, <2>1, <2>2 DEF RngAfter, IInv, TypeOK
<1>3. pc'[t] # "hold"
  BY <1>1 DEF IInv, TypeOK, WakeAll
<1>4. Owned[t] # {} /\ Owned'[t] = {}
  BY <1>1, <1>3, OwnedOfHolder DEF Owned, OwnedBy
<1>5. \A u \in Task : u # t => Owned'[u] = Owned[u]
  BY <1>2, OthersKeepOwned
<1>6. Owned' = [Owned EXCEPT ![t] = {}]
  BY <1>4, <1>5 DEF Owned
<1> QED
  BY <1>4, <1>6 DEF Abstract!Release, Owned

(* Every behaviour of range_lock and range_unlock implements the abstract  *)
(* range mutex: a call that returns is an Acquire, an unlock a Release,    *)
(* and sleeping, waking and retrying change nothing its callers see.       *)
THEOREM Refinement == Spec => ImplementsRangeMutex
<1>1. Init => Abstract!Init
  BY DEF Init, Abstract!Init, OwnedBy
<1>2. IInv /\ IInv' /\ [Next]_vars => [Abstract!Next]_Owned
  <2> SUFFICES ASSUME IInv, IInv', [Next]_vars PROVE [Abstract!Next]_Owned
    OBVIOUS
  <2>1. ASSUME NEW t \in Task, range_lock(t)
        PROVE  Abstract!Acquire(t) \/ Owned' = Owned
    <3>1. PICK r \in Request : Turn(t, r, refcount, alloc, rng)
      BY <2>1 DEF range_lock
    <3>2. TurnPre(t, r, refcount, alloc, rng)
      BY <2>1, LockPre DEF range_lock
    <3> QED
      BY <3>1, <3>2, WaitForStutters, InsertAcquires DEF Turn
  <2>2. ASSUME NEW t \in Task, range_lock_wakeup(t)
        PROVE  Abstract!Acquire(t) \/ Owned' = Owned
    <3> DEFINE rc == [refcount EXCEPT ![at[t]] = @ - 1]
               heap == HeapAfter(at[t], rc)
               cells == RngAfter(at[t], rc)
    <3>1. Turn(t, want[t], rc, heap, cells)
      BY <2>2 DEF range_lock_wakeup
    <3>2. TurnPre(t, want[t], rc, heap, cells)
      BY <2>2, WakeupPre DEF range_lock_wakeup
    <3> HIDE DEF rc, heap, cells
    <3> QED
      BY <3>1, <3>2, WaitForStutters, InsertAcquires DEF Turn
  <2>3. ASSUME NEW t \in Task, range_unlock(t) PROVE Abstract!Release(t)
    BY <2>3, UnlockReleases
  <2>4. CASE UNCHANGED vars
    BY <2>4 DEF vars, Owned, OwnedBy
  <2> QED
    BY <2>1, <2>2, <2>3, <2>4 DEF Next, Abstract!Next
<1>3. []IInv /\ [][Next]_vars => [][Abstract!Next]_Owned
  BY <1>2, PTL
<1> QED
  BY <1>1, <1>3, Invariance, PTL DEF Spec, ImplementsRangeMutex, Abstract!Spec, Owned
=============================================================================
