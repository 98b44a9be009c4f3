--------------------------- MODULE BufPoolProofs ----------------------------
(***************************************************************************)
(* Proofs about BufPool for any number of tasks, buffers and any sizes:    *)
(* the counters are exact, the asserts hold, and with more buffers than    *)
(* tasks no state has every task waiting for another.                      *)
(***************************************************************************)
EXTENDS BufPool, FiniteSetTheorems, TLAPS

USE TaskAssumption, BufAssumption, SizeAssumption
    DEF TaskAssumption, BufAssumption, SizeAssumption

(* A task that asked for a buffer held at most one when it asked. *)
HoldsOne(t) == \A b, d \in Buf : holder[b] = t /\ holder[d] = t => b = d
AsleepHoldsOne == \A t \in Task : pc[t] # "run" => HoldsOne(t)

(* The queue that bufpool_put wakes from holds the sleeping tasks, once. *)
AsleepQueued ==
  /\ \A t \in Task : pc[t] = "sleep" => \E i \in 1..Len(rendez) : rendez[i] = t
  /\ \A i \in 1..Len(rendez) : pc[rendez[i]] = "sleep"
  /\ \A i, j \in 1..Len(rendez) : rendez[i] = rendez[j] => i = j

(* The states of the pool between bufpool_init and bufpool_deinit. *)
Lifecycle ==
  /\ ~abort
  /\ open => state = "INITIALIZED"
  /\ ~open => \A t \in Task : pc[t] = "run"
  /\ state \in {"UNINITIALIZED", "DEINTED"} => issued = 0 /\ owned = 0
  /\ closer = "ready" => issued = 0
  /\ closer # "none" => state = "DEINITING"
  /\ state = "INITIALIZED" /\ ~open => owned = Cardinality(freelist)

IInv ==
  /\ TypeOK
  /\ Accounting
  /\ AsleepHoldsOne
  /\ AsleepQueued
  /\ Lifecycle
  /\ NoHoldAndWait
-----------------------------------------------------------------------------
(* A set of buffers is finite. *)
LEMMA BufSubset ==
  ASSUME NEW S \in SUBSET Buf
  PROVE  IsFiniteSet(S) /\ Cardinality(S) \in Nat
BY FS_Subset, FS_CardinalityType

(* So are the buffers that are out. *)
LEMMA IssuedFinite ==
  /\ Issued \in SUBSET Buf
  /\ IsFiniteSet(Issued)
  /\ Cardinality(Issued) \in Nat
BY BufSubset DEF Issued

(* The tasks can be counted. *)
LEMMA TaskFinite == Cardinality(Task) \in Nat
BY FS_CardinalityType

(* A set of buffers is empty when its count is zero. *)
LEMMA EmptyIsZero ==
  ASSUME NEW S \in SUBSET Buf
  PROVE  Cardinality(S) = 0 <=> S = {}
BY BufSubset, FS_EmptySet

(* The guard of bufpool_get on the buffers a task holds. *)
LEMMA FewHeld ==
  ASSUME NEW t, Cardinality(Held(t)) < MaxHeld
  PROVE  HoldsOne(t)
<1> SUFFICES ASSUME NEW b \in Buf, NEW d \in Buf, holder[b] = t, holder[d] = t
             PROVE  b = d
  BY DEF HoldsOne
<1>1. Held(t) \in SUBSET Buf /\ b \in Held(t) /\ d \in Held(t)
  BY DEF Held
<1>2. IsFiniteSet(Held(t)) /\ Cardinality(Held(t)) \in Nat
  BY <1>1, BufSubset
<1>3. Held(t) \ {b} \in SUBSET Buf
  BY <1>1
<1>4. Cardinality(Held(t) \ {b}) = Cardinality(Held(t)) - 1
  BY <1>1, <1>2, FS_RemoveElement
<1>5. Cardinality(Held(t) \ {b}) = 0
  BY <1>2, <1>3, <1>4, BufSubset DEF MaxHeld
<1>6. Held(t) \ {b} = {}
  BY <1>3, <1>5, EmptyIsZero
<1> QED
  BY <1>1, <1>6

(* With more buffers out than tasks, some task holds two. *)
LEMMA SomeHoldsTwo ==
  ASSUME TypeOK, Cardinality(Task) < Cardinality(Issued)
  PROVE  \E u \in Task : ~HoldsOne(u) /\ Held(u) # {}
<1> DEFINE f == [b \in Issued |-> holder[b]]
<1>1. f \in [Issued -> Task]
  BY DEF TypeOK, Issued
<1>2. \E x, y \in Issued : x # y /\ f[x] = f[y]
  <2>1. IsFiniteSet(Issued) /\ IsFiniteSet(Task)
    BY IssuedFinite
  <2> HIDE DEF f
  <2> QED
    BY <1>1, <2>1, FS_PigeonHole
<1>3. PICK x \in Issued, y \in Issued : x # y /\ f[x] = f[y]
  BY <1>2
<1>4. holder[x] \in Task /\ x \in Buf /\ y \in Buf /\ holder[x] = holder[y]
  BY <1>1, <1>3 DEF Issued
<1> QED
  BY <1>3, <1>4 DEF HoldsOne, Held
-----------------------------------------------------------------------------
(* A pool that is not made yet is in order. *)
LEMMA InitIInv == Init => IInv
<1> SUFFICES ASSUME Init PROVE IInv
  OBVIOUS
<1>1. TypeOK
  <2>1. rendez \in Seq(Task) /\ pc \in [Task -> PC]
    BY DEF Init, PC
  <2>2. holder \in [Buf -> Task \cup {NoTask}] /\ freelist \in SUBSET Buf
    BY DEF Init
  <2>3. open \in BOOLEAN /\ abort \in BOOLEAN
    BY Zenon DEF Init
  <2> QED
    BY <2>1, <2>2, <2>3 DEF Init, TypeOK
<1>2. Issued = {}
  BY DEF Init, Issued
<1>3. Accounting
  BY <1>2, FS_EmptySet DEF Init, Accounting
<1>4. AsleepHoldsOne /\ AsleepQueued /\ Lifecycle /\ NoHoldAndWait
  BY <1>1 DEF Init, AsleepHoldsOne, AsleepQueued, Lifecycle, NoHoldAndWait, Progress
<1> QED
  BY <1>1, <1>3, <1>4 DEF IInv

(* bufpool_init keeps the invariant, also when calloc fails half way. *)
LEMMA InitPreserves == IInv /\ bufpool_init => IInv'
<1> SUFFICES ASSUME IInv, bufpool_init PROVE IInv'
  OBVIOUS
<1>1. PICK bufs \in SUBSET Buf :
        /\ Cardinality(bufs) <= nbufs
        /\ freelist' = bufs
        /\ owned' = Cardinality(bufs)
        /\ open' = (Cardinality(bufs) = nbufs)
  BY DEF bufpool_init
<1>2. Cardinality(bufs) \in Nat
  BY BufSubset
<1>3. issued = 0 /\ Issued = {} /\ ~open
  BY IssuedFinite, EmptyIsZero DEF bufpool_init, IInv, Lifecycle, Accounting
<1>4. Issued' = {}
  BY <1>3 DEF Issued, bufpool_init
<1>5. \A t \in Task : pc[t] = "run"
  BY <1>3 DEF IInv, Lifecycle
<1>6. TypeOK'
  BY <1>1, <1>2 DEF IInv, TypeOK, bufpool_init
<1>7. Accounting'
  <2>1. issued' = 0 /\ Cardinality(Issued') = 0
    BY <1>4, FS_EmptySet DEF bufpool_init
  <2>2. owned' <= nmax
    BY <1>1, <1>2
  <2>3. open' => owned' >= nbufs
    <3>1. open' => Cardinality(bufs) = nbufs
      BY <1>1, Zenon
    <3> QED
      BY <1>1, <3>1
  <2> QED
    BY <1>1, <1>2, <1>4, <2>1, <2>2, <2>3 DEF Accounting
<1>8. AsleepHoldsOne' /\ AsleepQueued' /\ NoHoldAndWait'
  BY <1>5 DEF bufpool_init, IInv, AsleepHoldsOne, AsleepQueued, NoHoldAndWait, Progress
<1>9. Lifecycle'
  BY <1>1, <1>5 DEF bufpool_init, IInv, Lifecycle
<1> QED
  BY <1>6, <1>7, <1>8, <1>9 DEF IInv
-----------------------------------------------------------------------------
(* What bufpool_get and its resumption have in common. *)
GetPre(t) == open /\ HoldsOne(t) /\ pc[t] # "sleep"

(* b is handed to t: the steps Reuse and Grow *)
LEMMA IssueCounts ==
  ASSUME TypeOK, NEW t \in Task, NEW b \in Buf \ Issued,
         holder' = [holder EXCEPT ![b] = t]
  PROVE  /\ Issued' = Issued \cup {b}
         /\ Cardinality(Issued') = Cardinality(Issued) + 1
         /\ holder' \in [Buf -> Task \cup {NoTask}]
         /\ holder'[b] = t
         /\ \A d \in Buf : d # b => holder'[d] = holder[d]
<1>1. Issued' = Issued \cup {b}
  BY DEF TypeOK, Issued
<1>2. Cardinality(Issued \cup {b}) = Cardinality(Issued) + 1
  BY IssuedFinite, FS_AddElement
<1> QED
  BY <1>1, <1>2 DEF TypeOK

(* A buffer issued to a running task leaves nobody waiting with two. *)
LEMMA IssuePreserves ==
  ASSUME IInv, NEW t \in Task, GetPre(t), NEW b \in Buf \ Issued,
         holder' = [holder EXCEPT ![b] = t],
         pc' = [pc EXCEPT ![t] = "run"], UNCHANGED rendez
  PROVE  AsleepHoldsOne' /\ AsleepQueued' /\ NoHoldAndWait'
<1>1. /\ holder'[b] = t /\ b \in Buf
      /\ \A d \in Buf : d # b => holder'[d] = holder[d]
  BY IssueCounts DEF IInv
<1>2. pc'[t] = "run" /\ \A u \in Task : u # t => pc'[u] = pc[u]
  BY DEF IInv, TypeOK
<1>3. AsleepHoldsOne'
  <2> SUFFICES ASSUME NEW u \in Task, pc'[u] # "run",
                      NEW x \in Buf, NEW y \in Buf, holder'[x] = u, holder'[y] = u
               PROVE  x = y
    BY DEF AsleepHoldsOne, HoldsOne
  <2>1. u # t /\ pc[u] # "run"
    BY <1>2
  <2>2. x # b /\ y # b
    BY <1>1, <2>1
  <2> QED
    BY <1>1, <2>1, <2>2 DEF IInv, AsleepHoldsOne, HoldsOne
<1>4. AsleepQueued'
  <2>1. \A i \in 1..Len(rendez) : rendez[i] \in Task /\ rendez[i] # t
    BY DEF IInv, TypeOK, AsleepQueued, GetPre
  <2> QED
    BY <1>2, <2>1 DEF IInv, AsleepQueued
<1>5. Held(t)' # {}
  BY <1>1 DEF Held
<1>6. NoHoldAndWait'
  BY <1>2, <1>5 DEF NoHoldAndWait, Progress
<1> QED
  BY <1>3, <1>4, <1>6

(* bufpool_get from the freelist keeps the invariant. *)
LEMMA ReusePreserves ==
  ASSUME IInv, NEW t \in Task, GetPre(t), Reuse(t),
         UNCHANGED <<state, closer, open, abort>>
  PROVE  IInv'
<1>1. PICK b \in freelist :
        /\ freelist' = freelist \ {b}
        /\ holder' = [holder EXCEPT ![b] = t]
  BY DEF Reuse
<1>2. /\ issued' = issued + 1 /\ pc' = [pc EXCEPT ![t] = "run"]
      /\ UNCHANGED <<owned, rendez>>
  BY DEF Reuse
<1>3. b \in Buf \ Issued /\ freelist \in SUBSET Buf
  BY DEF IInv, Accounting, TypeOK
<1>4. /\ Issued' = Issued \cup {b}
      /\ Cardinality(Issued') = Cardinality(Issued) + 1
      /\ holder' \in [Buf -> Task \cup {NoTask}]
  BY <1>1, <1>3, IssueCounts DEF IInv
<1>5. IsFiniteSet(freelist) /\ Cardinality(freelist) \in Nat
  BY <1>3, BufSubset
<1>6. Cardinality(freelist') = Cardinality(freelist) - 1
  BY <1>1, <1>5, FS_RemoveElement
<1>7. TypeOK'
  BY <1>1, <1>2, <1>4 DEF IInv, TypeOK, PC
<1>8. Accounting'
  <2>1. issued' = Cardinality(Issued')
    BY <1>2, <1>4 DEF IInv, Accounting
  <2>2. owned' = issued' + Cardinality(freelist')
    BY <1>2, <1>5, <1>6 DEF IInv, Accounting, TypeOK
  <2>3. Issued' \cap freelist' = {}
    BY <1>1, <1>4 DEF IInv, Accounting
  <2> QED
    BY <1>2, <2>1, <2>2, <2>3 DEF IInv, Accounting
<1>9. AsleepHoldsOne' /\ AsleepQueued' /\ NoHoldAndWait'
  BY <1>1, <1>2, <1>3, IssuePreserves
<1>10. Lifecycle'
  BY DEF IInv, Lifecycle, GetPre
<1> QED
  BY <1>7, <1>8, <1>9, <1>10 DEF IInv

(* bufpool_get with a new buffer, below nmax, keeps the invariant. *)
LEMMA GrowPreserves ==
  ASSUME IInv, NEW t \in Task, GetPre(t), Grow(t),
         UNCHANGED <<state, closer, open, abort>>
  PROVE  IInv'
<1>1. PICK b \in Buf \ Issued : holder' = [holder EXCEPT ![b] = t]
  BY DEF Grow
<1>2. /\ freelist = {} /\ freelist' = {} /\ owned < nmax
      /\ owned' = owned + 1 /\ issued' = issued + 1
      /\ pc' = [pc EXCEPT ![t] = "run"] /\ UNCHANGED rendez
  BY DEF Grow
<1>3. /\ Cardinality(Issued') = Cardinality(Issued) + 1
      /\ holder' \in [Buf -> Task \cup {NoTask}]
  BY <1>1, IssueCounts DEF IInv
<1>4. TypeOK'
  BY <1>2, <1>3 DEF IInv, TypeOK, PC
<1>5. Accounting'
  <2>1. issued' = Cardinality(Issued')
    BY <1>2, <1>3 DEF IInv, Accounting
  <2>2. Cardinality(freelist) = 0 /\ Cardinality(freelist') = 0
    BY <1>2, FS_EmptySet
  <2>3. /\ owned \in Nat /\ issued \in Nat /\ owned = issued + Cardinality(freelist)
        /\ open => owned >= nbufs
    BY DEF IInv, Accounting, TypeOK
  <2>4. owned' = issued' + Cardinality(freelist')
    BY <1>2, <2>2, <2>3
  <2>5. owned' <= nmax /\ (open' => owned' >= nbufs)
    BY <1>2, <2>3
  <2> QED
    BY <1>2, <2>1, <2>4, <2>5 DEF Accounting
<1>6. AsleepHoldsOne' /\ AsleepQueued' /\ NoHoldAndWait'
  BY <1>1, <1>2, IssuePreserves
<1>7. Lifecycle'
  BY DEF IInv, Lifecycle, GetPre
<1> QED
  BY <1>4, <1>5, <1>6, <1>7 DEF IInv

(* The step that could leave everyone asleep: the freelist is empty, so    *)
(* all owned >= nbufs buffers are out, more than there are tasks.          *)
LEMMA SleepPreserves ==
  ASSUME IInv, NEW t \in Task, GetPre(t), Sleep(t),
         UNCHANGED <<state, closer, open, abort>>
  PROVE  IInv'
<1>1. /\ freelist = {} /\ rendez' = Append(rendez, t)
      /\ pc' = [pc EXCEPT ![t] = "sleep"]
      /\ UNCHANGED <<freelist, owned, issued, holder>>
  BY DEF Sleep
<1>2. TypeOK'
  BY <1>1 DEF IInv, TypeOK, PC
<1>3. Issued' = Issued
  BY <1>1 DEF Issued
<1>4. Accounting'
  BY <1>1, <1>3 DEF IInv, Accounting
<1>5. pc'[t] = "sleep" /\ \A u \in Task : u # t => pc'[u] = pc[u]
  BY <1>1 DEF IInv, TypeOK
<1>6. AsleepHoldsOne'
  BY <1>1, <1>5 DEF IInv, AsleepHoldsOne, HoldsOne, GetPre
<1>7. AsleepQueued'
  <2>1. rendez \in Seq(Task)
    BY DEF IInv, TypeOK
  <2>2. /\ Len(rendez') = Len(rendez) + 1 /\ rendez'[Len(rendez) + 1] = t
        /\ \A i \in 1..Len(rendez) : rendez'[i] = rendez[i]
        /\ Len(rendez) \in Nat
    BY <1>1, <2>1
  <2>3. \A i \in 1..Len(rendez) : rendez[i] \in Task /\ rendez[i] # t
    BY <2>1 DEF IInv, AsleepQueued, GetPre
  <2>4. ASSUME NEW u \in Task, pc'[u] = "sleep"
        PROVE  \E i \in 1..Len(rendez') : rendez'[i] = u
    <3>1. CASE u = t
      BY <2>2, <3>1
    <3>2. CASE u # t
      <4>1. PICK i \in 1..Len(rendez) : rendez[i] = u
        BY <1>5, <2>4, <3>2 DEF IInv, AsleepQueued
      <4> QED
        BY <2>2, <4>1
    <3> QED
      BY <3>1, <3>2
  <2>5. \A i \in 1..Len(rendez') : pc'[rendez'[i]] = "sleep"
    BY <1>5, <2>2, <2>3 DEF IInv, AsleepQueued
  <2>6. \A i, j \in 1..Len(rendez') : rendez'[i] = rendez'[j] => i = j
    BY <2>2, <2>3 DEF IInv, AsleepQueued
  <2> QED
    BY <2>4, <2>5, <2>6 DEF AsleepQueued
<1>8. Lifecycle'
  BY <1>1 DEF IInv, Lifecycle, GetPre
<1>9. NoHoldAndWait'
  <2> SUFFICES ASSUME nbufs > Cardinality(Task)
               PROVE  \E u \in Task : pc'[u] = "run" /\ Held(u)' # {}
    BY DEF NoHoldAndWait, Progress
  <2>1. owned = issued + 0 /\ owned >= nbufs /\ issued = Cardinality(Issued)
    BY <1>1, FS_EmptySet DEF IInv, Accounting, GetPre
  <2>2. Cardinality(Task) < Cardinality(Issued)
    BY <2>1, TaskFinite, IssuedFinite
  <2>3. PICK u \in Task : ~HoldsOne(u) /\ Held(u) # {}
    BY <2>2, SomeHoldsTwo DEF IInv
  <2>4. u # t /\ pc[u] = "run"
    BY <2>3 DEF IInv, AsleepHoldsOne, GetPre
  <2>5. Held(u)' = Held(u)
    BY <1>1 DEF Held
  <2> QED
    BY <1>5, <2>3, <2>4, <2>5
<1> QED
  BY <1>2, <1>4, <1>6, <1>7, <1>8, <1>9 DEF IInv

(* One turn of the loop of bufpool_get keeps the invariant. *)
LEMMA AttemptPreserves ==
  ASSUME IInv, NEW t \in Task, GetPre(t), Attempt(t)
  PROVE  IInv'
BY ReusePreserves, GrowPreserves, SleepPreserves DEF Attempt

(* bufpool_get up to its first sleep keeps the invariant. *)
LEMMA GetPreserves == ASSUME IInv, NEW t \in Task, bufpool_get(t) PROVE IInv'
<1>1. GetPre(t)
  BY FewHeld DEF bufpool_get, GetPre
<1>2. Attempt(t)
  BY DEF bufpool_get, IInv, Lifecycle
<1> QED
  BY <1>1, <1>2, AttemptPreserves

(* bufpool_get after a sleep keeps the invariant. *)
LEMMA WakeupPreserves ==
  ASSUME IInv, NEW t \in Task, bufpool_get_wakeup(t) PROVE IInv'
<1>1. GetPre(t)
  BY DEF bufpool_get_wakeup, GetPre, IInv, AsleepHoldsOne, Lifecycle
<1> QED
  BY <1>1, AttemptPreserves DEF bufpool_get_wakeup
-----------------------------------------------------------------------------
(* TASKWAKEUP takes the head of the queue and readies it. *)
LEMMA WakeOneFacts ==
  ASSUME IInv, WakeOne
  PROVE  /\ rendez' \in Seq(Task) /\ pc' \in [Task -> PC]
         /\ \A u \in Task : pc'[u] # "run" <=> pc[u] # "run"
         /\ \A u \in Task : pc'[u] = "sleep" => pc[u] = "sleep"
         /\ AsleepQueued'
         /\ (\E u \in Task : pc[u] = "sleep") => \E u \in Task : pc'[u] = "ready"
<1>1. rendez \in Seq(Task) /\ pc \in [Task -> PC] /\ AsleepQueued
  BY DEF IInv, TypeOK
<1>2. CASE rendez = <<>>
  <2>1. UNCHANGED <<rendez, pc>>
    BY <1>2 DEF WakeOne
  <2>2. \A u \in Task : pc[u] # "sleep"
    BY <1>1, <1>2 DEF AsleepQueued
  <2> QED
    BY <1>1, <2>1, <2>2 DEF AsleepQueued
<1>3. CASE rendez # <<>>
  <2> DEFINE h == Head(rendez)
  <2>1. rendez' = Tail(rendez) /\ pc' = [pc EXCEPT ![h] = "ready"]
    BY <1>3 DEF WakeOne
  <2>2. /\ h \in Task /\ Tail(rendez) \in Seq(Task)
        /\ Len(rendez) \in Nat /\ 1 \in 1..Len(rendez)
    BY <1>1, <1>3
  <2>3. /\ Len(Tail(rendez)) = Len(rendez) - 1
        /\ rendez[1] = h
        /\ \A i \in 2..Len(rendez) : Tail(rendez)[i - 1] = rendez[i]
    BY <1>1, <1>3
  <2>4. /\ pc'[h] = "ready" /\ pc[h] = "sleep"
        /\ \A u \in Task : u # h => pc'[u] = pc[u]
    BY <1>1, <2>1, <2>2, <2>3 DEF AsleepQueued
  <2>5. AsleepQueued'
    <3>1. ASSUME NEW u \in Task, pc'[u] = "sleep"
          PROVE  \E i \in 1..Len(rendez') : rendez'[i] = u
      <4>1. u # h /\ pc[u] = "sleep"
        BY <2>4, <3>1
      <4>2. PICK i \in 1..Len(rendez) : rendez[i] = u
        BY <1>1, <4>1 DEF AsleepQueued
      <4>3. i \in 2..Len(rendez)
        BY <2>2, <2>3, <4>1, <4>2
      <4>4. Tail(rendez)[i - 1] = u /\ i - 1 \in 1..Len(Tail(rendez))
        BY <2>2, <2>3, <4>2, <4>3
      <4> QED
        BY <2>1, <4>4
    <3>2. \A i \in 1..Len(rendez') :
            /\ i + 1 \in 1..Len(rendez) /\ rendez'[i] = rendez[i + 1]
            /\ i + 1 # 1
      BY <1>1, <1>3, <2>1, <2>2, <2>3
    <3>3. \A i \in 1..Len(rendez') : rendez'[i] \in Task /\ rendez'[i] # h
      BY <1>1, <2>2, <2>3, <3>2 DEF AsleepQueued
    <3>4. \A i \in 1..Len(rendez') : pc'[rendez'[i]] = "sleep"
      BY <1>1, <2>4, <3>2, <3>3 DEF AsleepQueued
    <3>5. \A i, j \in 1..Len(rendez') : rendez'[i] = rendez'[j] => i = j
      <4> SUFFICES ASSUME NEW i \in 1..Len(rendez'), NEW j \in 1..Len(rendez'),
                          rendez'[i] = rendez'[j]
                   PROVE  i = j
        OBVIOUS
      <4>1. i + 1 = j + 1
        BY <1>1, <3>2 DEF AsleepQueued
      <4> QED
        BY <4>1
    <3> QED
      BY <3>1, <3>4, <3>5 DEF AsleepQueued
  <2>6. pc' \in [Task -> PC]
    BY <1>1, <2>1, <2>2 DEF PC
  <2> QED
    BY <2>1, <2>2, <2>4, <2>5, <2>6
<1> QED
  BY <1>2, <1>3

(* bufpool_put, with its wake-up, keeps the invariant. *)
LEMMA PutPreserves ==
  ASSUME IInv, NEW t \in Task, NEW b \in Buf, bufpool_put(t, b) PROVE IInv'
<1>1. /\ pc[t] = "run" /\ holder[b] = t
      /\ holder' = [holder EXCEPT ![b] = NoTask]
      /\ issued' = issued - 1
      /\ WakeOne
      /\ UNCHANGED <<state, open, abort>>
  BY DEF bufpool_put
<1>2. /\ owned <= nbufs => freelist' = freelist \cup {b} /\ owned' = owned
      /\ ~(owned <= nbufs) => owned' = owned - 1 /\ freelist' = freelist
  BY DEF bufpool_put
<1>3. closer' = IF issued' = 0 /\ state = "DEINITING" /\ closer = "sleep"
                THEN "ready" ELSE closer
  BY DEF bufpool_put
<1>4. /\ owned \in Nat /\ issued \in Nat /\ freelist \in SUBSET Buf
      /\ issued = Cardinality(Issued)
      /\ owned = issued + Cardinality(freelist)
      /\ owned <= nmax /\ (open => owned >= nbufs)
  BY DEF IInv, TypeOK, Accounting
<1>5. b \in Issued /\ b \notin freelist
  BY <1>1 DEF IInv, Accounting, Issued
<1>6. Issued' = Issued \ {b}
  BY <1>1 DEF IInv, TypeOK, Issued
<1>7. Cardinality(Issued') = Cardinality(Issued) - 1 /\ issued > 0
  <2>1. Cardinality(Issued \ {b}) = Cardinality(Issued) - 1
    BY <1>5, IssuedFinite, FS_RemoveElement
  <2>2. Cardinality(Issued) # 0
    BY <1>5, IssuedFinite, EmptyIsZero
  <2> QED
    BY <1>4, <1>6, <2>1, <2>2
<1>8. /\ IsFiniteSet(freelist) /\ Cardinality(freelist) \in Nat
      /\ Cardinality(freelist \cup {b}) = Cardinality(freelist) + 1
  BY <1>4, <1>5, BufSubset, FS_AddElement
<1>9. Accounting'
  <2>1. issued' = Cardinality(Issued')
    BY <1>1, <1>4, <1>7
  <2>2. CASE owned <= nbufs
    <3>1. freelist' = freelist \cup {b} /\ owned' = owned
      BY <1>2, <2>2
    <3>2. owned' = issued' + Cardinality(freelist')
      BY <1>1, <1>4, <1>8, <3>1
    <3>3. Issued' \cap freelist' = {}
      BY <1>6, <3>1 DEF IInv, Accounting
    <3> QED
      BY <1>1, <1>4, <2>1, <3>1, <3>2, <3>3 DEF Accounting
  <2>3. CASE ~(owned <= nbufs)
    <3>1. owned' = owned - 1 /\ freelist' = freelist
      BY <1>2, <2>3
    <3>2. owned' = issued' + Cardinality(freelist')
      BY <1>1, <1>4, <1>8, <3>1
    <3>3. Issued' \cap freelist' = {}
      BY <1>6, <3>1 DEF IInv, Accounting
    <3>4. owned' <= nmax /\ owned' >= nbufs
      BY <1>4, <2>3, <3>1
    <3> QED
      BY <2>1, <3>2, <3>3, <3>4 DEF Accounting
  <2> QED
    BY <2>2, <2>3
<1>10. /\ rendez' \in Seq(Task) /\ pc' \in [Task -> PC]
       /\ \A u \in Task : pc'[u] # "run" <=> pc[u] # "run"
       /\ \A u \in Task : pc'[u] = "sleep" => pc[u] = "sleep"
       /\ AsleepQueued'
       /\ (\E u \in Task : pc[u] = "sleep") => \E u \in Task : pc'[u] = "ready"
  BY <1>1, WakeOneFacts
<1>11. TypeOK'
  <2>1. holder' \in [Buf -> Task \cup {NoTask}]
    BY <1>1 DEF IInv, TypeOK
  <2>2. issued' \in Nat /\ owned' \in Nat /\ freelist' \in SUBSET Buf
    BY <1>1, <1>2, <1>4, <1>7
  <2>3. closer' \in {"none", "sleep", "ready"}
    BY <1>3 DEF IInv, TypeOK
  <2> QED
    BY <1>1, <1>10, <2>1, <2>2, <2>3 DEF IInv, TypeOK
<1>12. NoHoldAndWait'
  BY <1>10 DEF NoHoldAndWait, Progress
<1>13. Lifecycle'
  <2>1. state \notin {"UNINITIALIZED", "DEINTED"}
    BY <1>7 DEF IInv, Lifecycle
  <2>2. closer # "ready"
    BY <1>7 DEF IInv, Lifecycle
  <2>3. state = "INITIALIZED" => open
    BY <1>4, <1>7, <1>8 DEF IInv, Lifecycle
  <2>4. ~open => \A u \in Task : pc'[u] = "run"
    BY <1>10 DEF IInv, Lifecycle
  <2> QED
    BY <1>1, <1>3, <2>1, <2>2, <2>3, <2>4 DEF IInv, Lifecycle
<1>14. AsleepHoldsOne'
  <2> SUFFICES ASSUME NEW u \in Task, pc'[u] # "run",
                      NEW x \in Buf, NEW y \in Buf, holder'[x] = u, holder'[y] = u
               PROVE  x = y
    BY DEF AsleepHoldsOne, HoldsOne
  <2>1. x # b /\ y # b /\ holder[x] = u /\ holder[y] = u
    BY <1>1 DEF IInv, TypeOK
  <2>2. pc[u] # "run"
    BY <1>10
  <2> QED
    BY <2>1, <2>2 DEF IInv, AsleepHoldsOne, HoldsOne
<1> QED
  BY <1>9, <1>10, <1>11, <1>12, <1>13, <1>14 DEF IInv
-----------------------------------------------------------------------------
(* The end of bufpool_deinit, with all buffers back. *)
LEMMA FreeAllPreserves ==
  ASSUME IInv, issued = 0, FreeAll, UNCHANGED <<issued, holder, rendez, pc>>,
         open' = FALSE, \A t \in Task : pc[t] = "run"
  PROVE  IInv'
<1>1. /\ freelist' = {} /\ owned' = owned - Cardinality(freelist)
      /\ state' = "DEINTED" /\ closer' = "none" /\ abort' = abort
  BY DEF FreeAll
<1>2. owned' = 0
  <2>1. owned = issued + Cardinality(freelist) /\ Cardinality(freelist) \in Nat
    BY BufSubset DEF IInv, Accounting, TypeOK
  <2> QED
    BY <1>1, <2>1
<1>3. Issued' = Issued
  BY DEF Issued
<1>4. TypeOK'
  <2>1. open' \in BOOLEAN
    BY Zenon
  <2> QED
    BY <1>1, <1>2, <2>1 DEF IInv, TypeOK
<1>5. Accounting'
  <2>1. issued' = Cardinality(Issued') /\ Cardinality(freelist') = 0
    BY <1>1, <1>3, FS_EmptySet DEF IInv, Accounting
  <2> QED
    BY <1>1, <1>2, <2>1 DEF Accounting
<1>6. AsleepHoldsOne' /\ AsleepQueued' /\ NoHoldAndWait'
  BY DEF IInv, AsleepHoldsOne, AsleepQueued, NoHoldAndWait, Progress
<1>7. Lifecycle'
  BY <1>1, <1>2 DEF IInv, Lifecycle
<1> QED
  BY <1>4, <1>5, <1>6, <1>7 DEF IInv

(* bufpool_deinit up to its sleep keeps the invariant. *)
LEMMA DeinitPreserves == IInv /\ bufpool_deinit => IInv'
<1> SUFFICES ASSUME IInv, bufpool_deinit PROVE IInv'
  OBVIOUS
<1>1. /\ open' = FALSE /\ \A t \in Task : pc[t] = "run"
      /\ UNCHANGED <<issued, holder, rendez, pc>>
  BY DEF bufpool_deinit
<1>2. CASE issued = 0
  <2>1. FreeAll
    BY <1>2 DEF bufpool_deinit
  <2> QED
    BY <1>1, <1>2, <2>1, FreeAllPreserves
<1>3. CASE issued # 0
  <2>1. /\ state' = "DEINITING" /\ closer' = "sleep"
        /\ UNCHANGED <<freelist, owned, abort>>
    BY <1>3 DEF bufpool_deinit
  <2>2. TypeOK'
    <3>1. open' \in BOOLEAN
      BY <1>1, Zenon
    <3> QED
      BY <1>1, <2>1, <3>1 DEF IInv, TypeOK
  <2>3. Issued' = Issued
    BY <1>1 DEF Issued
  <2>4. Accounting'
    BY <1>1, <2>1, <2>3 DEF IInv, Accounting
  <2>5. AsleepHoldsOne' /\ AsleepQueued' /\ NoHoldAndWait' /\ Lifecycle'
    BY <1>1, <2>1 DEF IInv, AsleepHoldsOne, AsleepQueued, NoHoldAndWait, Progress,
                      Lifecycle
  <2> QED
    BY <2>2, <2>4, <2>5 DEF IInv
<1> QED
  BY <1>2, <1>3

(* bufpool_deinit after its sleep keeps the invariant. *)
LEMMA DeinitWakeupPreserves == IInv /\ bufpool_deinit_wakeup => IInv'
<1> SUFFICES ASSUME IInv, bufpool_deinit_wakeup PROVE IInv'
  OBVIOUS
<1>1. issued = 0 /\ state = "DEINITING"
  BY DEF bufpool_deinit_wakeup, IInv, Lifecycle
<1>2. FreeAll /\ UNCHANGED <<issued, holder, rendez, pc, open>>
  BY <1>1 DEF bufpool_deinit_wakeup
<1>3. ~open
  BY <1>1 DEF IInv, Lifecycle
<1>4. open' = FALSE /\ \A t \in Task : pc[t] = "run"
  <2>1. open \in BOOLEAN
    BY DEF IInv, TypeOK
  <2>2. open = FALSE
    BY <1>3, <2>1, Zenon
  <2> QED
    BY <1>2, <1>3, <2>2 DEF IInv, Lifecycle
<1> QED
  BY <1>1, <1>2, <1>4, FreeAllPreserves

(* The inductive invariant holds of every state the pool reaches. *)
THEOREM Invariance == Spec => []IInv
<1>1. IInv /\ [Next]_vars => IInv'
  <2> SUFFICES ASSUME IInv, [Next]_vars PROVE IInv'
    OBVIOUS
  <2>1. CASE UNCHANGED vars
    BY <2>1 DEF vars, IInv, TypeOK, Accounting, Issued, AsleepHoldsOne, HoldsOne,
                AsleepQueued, Lifecycle, NoHoldAndWait, Progress, Held
  <2>2. CASE Next
    BY <2>2, InitPreserves, DeinitPreserves, DeinitWakeupPreserves, GetPreserves,
       WakeupPreserves, PutPreserves DEF Next
  <2> QED
    BY <2>1, <2>2
<1> QED
  BY <1>1, InitIInv, PTL DEF Spec

(* Type correctness of the pool. *)
THEOREM TypeCorrect == Spec => []TypeOK
BY Invariance, PTL DEF IInv

(* For every number of tasks and every nbufs <= nmax, the counters         *)
(* bufpool_get and bufpool_put decide by agree with the buffers in the     *)
(* tasks' hands, and the pool never owns more than nmax.                   *)
THEOREM CountersExact == Spec => []Accounting
BY Invariance, PTL DEF IInv

(* With more buffers allocated by bufpool_init than tasks, each needing at *)
(* most two, no state has every holder waiting for another: the sizing     *)
(* rule of rpc.txt, for every number of tasks, and calloc failing at will. *)
THEOREM DeadlockFree == Spec => []NoHoldAndWait
BY Invariance, PTL DEF IInv

(* The asserts of bufpool_get and bufpool_deinit never fail. *)
THEOREM NoAssertFails == Spec => []AssertsHold
<1>1. IInv => AssertsHold
  BY DEF IInv, Lifecycle, AssertsHold
<1> QED
  BY <1>1, Invariance, PTL
=============================================================================
