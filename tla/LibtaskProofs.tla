--------------------------- MODULE LibtaskProofs ----------------------------
(***************************************************************************)
(* Proofs about a thread of the task library, for any number of tasks.     *)
(* First the scheduler of task.c: each of its functions keeps every task   *)
(* in one place and taskcount right.  Then the locks: no task is lost,     *)
(* nobody waits for a lock that is to be had, and the asserts of qlock.c   *)
(* hold.  Then the channels: no value is lost or delivered twice, and no   *)
(* Alt is queued that could be executed.  Last the timers: who waits for   *)
(* the timer waits for an armed one, and its asserts fail only when it was *)
(* closed or unset under its task, or its callback sleeps.                 *)
(***************************************************************************)
EXTENDS Libtask, Counting, FiniteSetTheorems, SequenceTheorems, TLAPS

(***************************************************************************)
(* Counts and queues.                                                      *)
(***************************************************************************)

(* The size of a subset of a finite set is a natural number. *)
LEMMA SubsetCount ==
  ASSUME NEW S, IsFiniteSet(S), NEW T \in SUBSET S
  PROVE  IsFiniteSet(T) /\ Cardinality(T) \in Nat
BY FS_Subset, FS_CardinalityType

(* A step that changes the membership of one element only changes the size *)
(* by as much.                                                             *)
LEMMA CountStep ==
  ASSUME NEW S, IsFiniteSet(S), NEW T \in SUBSET S, NEW U \in SUBSET S, NEW x \in S,
         \A y \in S : y # x => (y \in T <=> y \in U)
  PROVE  /\ Cardinality(T) \in Nat /\ Cardinality(U) \in Nat
         /\ Cardinality(U) = Cardinality(T) + (IF x \in U THEN 1 ELSE 0)
                                           - (IF x \in T THEN 1 ELSE 0)
         /\ x \in T => Cardinality(T) >= 1
         /\ x \in U => Cardinality(U) >= 1
<1>1. /\ IsFiniteSet(T) /\ Cardinality(T) \in Nat
      /\ IsFiniteSet(U) /\ Cardinality(U) \in Nat
  BY SubsetCount
<1>2. T \ {x} = U \ {x}
  OBVIOUS
<1>3. Cardinality(T \ {x}) = IF x \in T THEN Cardinality(T)-1 ELSE Cardinality(T)
  BY <1>1, FS_RemoveElement
<1>4. Cardinality(U \ {x}) = IF x \in U THEN Cardinality(U)-1 ELSE Cardinality(U)
  BY <1>1, FS_RemoveElement
<1>5. Cardinality(T \ {x}) \in Nat
  BY <1>1, FS_RemoveElement, FS_CardinalityType
<1> QED
  BY <1>1, <1>2, <1>3, <1>4, <1>5

(* That is how it changes. *)
LEMMA CountMove ==
  ASSUME NEW S, IsFiniteSet(S), NEW T \in SUBSET S, NEW U \in SUBSET S, NEW x \in S,
         \A y \in S : y # x => (y \in T <=> y \in U)
  PROVE  Moved(x, T, U)
<1>1. /\ Cardinality(T) \in Nat /\ Cardinality(U) \in Nat
      /\ Cardinality(U) = Cardinality(T) + (IF x \in U THEN 1 ELSE 0)
                                           - (IF x \in T THEN 1 ELSE 0)
      /\ x \in T => Cardinality(T) >= 1
  BY CountStep
<1>2. CASE x \in U /\ x \in T
  BY <1>1, <1>2 DEF Moved
<1>3. CASE x \in U /\ x \notin T
  BY <1>1, <1>3 DEF Moved
<1>4. CASE x \notin U /\ x \in T
  BY <1>1, <1>4 DEF Moved
<1>5. CASE x \notin U /\ x \notin T
  BY <1>1, <1>5 DEF Moved
<1> QED
  BY <1>2, <1>3, <1>4, <1>5

(* A set has no members exactly when its size is zero. *)
LEMMA CountZero ==
  ASSUME NEW S, IsFiniteSet(S), NEW T \in SUBSET S
  PROVE  Cardinality(T) = 0 <=> T = {}
BY SubsetCount, FS_EmptySet

(* A queue whose entries are exactly the members of T, each once, is as    *)
(* long as T is large.                                                     *)
LEMMA QueueLength ==
  ASSUME NEW S, IsFiniteSet(S), NEW T \in SUBSET S, NEW q \in Seq(S),
         \A i \in 1..Len(q) : q[i] \in T,
         \A t \in T : \E i \in 1..Len(q) : q[i] = t,
         \A i, j \in 1..Len(q) : q[i] = q[j] => i = j
  PROVE  Len(q) = Cardinality(T)
<1> DEFINE f == [i \in 1..Len(q) |-> q[i]]
<1>1. f \in Bijection(1..Len(q), T)
  <2>1. f \in [1..Len(q) -> T]
    OBVIOUS
  <2>2. f \in Injection(1..Len(q), T)
    BY <2>1 DEF Injection, IsInjective
  <2>3. f \in Surjection(1..Len(q), T)
    BY <2>1 DEF Surjection
  <2> QED
    BY <2>2, <2>3 DEF Bijection
<1>2. ExistsBijection(1..Len(q), T)
  BY <1>1 DEF ExistsBijection
<1>3. Len(q) \in Nat
  OBVIOUS
<1> QED
  BY <1>2, <1>3, FS_CountingElements

(* A non-empty set of naturals has a least element. *)
LEMMA LeastNat ==
  ASSUME NEW T \in SUBSET Nat, T # {}
  PROVE  \E x \in T : \A y \in T : x <= y
<1> DEFINE R == OpToRel(<, Nat)
<1>1. IsWellFoundedOn(R, Nat)
  BY NatLessThanWellFounded
<1>2. \A x, y \in Nat : <<y, x>> \in R <=> y < x
  BY DEF OpToRel
<1> HIDE DEF R
<1>3. PICK x \in T : \A y \in T : ~ (<<y, x>> \in R)
  BY <1>1, WFMin
<1>4. \A y \in T : x <= y
  <2> TAKE y \in T
  <2>1. x \in Nat /\ y \in Nat /\ ~(y < x)
    BY <1>2, <1>3
  <2> QED
    BY <2>1
<1> QED
  BY <1>4

(* What is in a queue after an entry is added. *)
LEMMA AppendTo ==
  ASSUME NEW S, NEW q \in Seq(S), NEW x \in S, NEW T
  PROVE  /\ Append(q, x) \in Seq(S) /\ Len(Append(q, x)) = Len(q) + 1
         /\ \A y : InQueue(y, Append(q, x)) <=> InQueue(y, q) \/ y = x
         /\ Distinct(q, T) /\ ~InQueue(x, q) => Distinct(Append(q, x), T)
         /\ Distinct(q, T) /\ x \notin T => Distinct(Append(q, x), T)
<1>1. /\ Append(q, x) \in Seq(S) /\ Len(q) \in Nat /\ Len(Append(q, x)) = Len(q) + 1
      /\ \A i \in 1..Len(q) : Append(q, x)[i] = q[i]
      /\ Append(q, x)[Len(q) + 1] = x
  OBVIOUS
<1>2. \A i : i \in 1..Len(Append(q, x)) <=> i \in 1..Len(q) \/ i = Len(q) + 1
  BY <1>1
<1>3. \A y : InQueue(y, Append(q, x)) <=> InQueue(y, q) \/ y = x
  BY <1>1, <1>2 DEF InQueue
<1>4. Distinct(q, T) /\ (~InQueue(x, q) \/ x \notin T) => Distinct(Append(q, x), T)
  BY <1>1, <1>2 DEF Distinct, InQueue
<1> QED
  BY <1>1, <1>3, <1>4

(* What is in a queue before and after its first entry is taken. *)
LEMMA TailOf ==
  ASSUME NEW S, NEW q \in Seq(S), q # <<>>, NEW T
  PROVE  /\ Head(q) \in S /\ Tail(q) \in Seq(S)
         /\ Len(q) \in Nat /\ Len(q) >= 1 /\ Len(Tail(q)) = Len(q) - 1
         /\ \A y : InQueue(y, q) <=> y = Head(q) \/ InQueue(y, Tail(q))
         /\ Distinct(q, T) => /\ Distinct(Tail(q), T)
                              /\ Head(q) \in T => ~InQueue(Head(q), Tail(q))
<1>1. /\ Head(q) \in S /\ Tail(q) \in Seq(S) /\ Len(q) \in Nat /\ Len(q) >= 1
      /\ Len(Tail(q)) = Len(q) - 1 /\ Head(q) = q[1]
      /\ \A i \in 1..(Len(q) - 1) : Tail(q)[i] = q[i + 1]
  OBVIOUS
<1>2. \A i \in 1..Len(q) : i = 1 \/ (i - 1 \in 1..(Len(q) - 1) /\ Tail(q)[i - 1] = q[i])
  BY <1>1
<1>3. \A y : InQueue(y, q) <=> y = Head(q) \/ InQueue(y, Tail(q))
  <2> TAKE y
  <2>1. InQueue(y, q) => y = Head(q) \/ InQueue(y, Tail(q))
    BY <1>1, <1>2 DEF InQueue
  <2>2. InQueue(y, Tail(q)) => InQueue(y, q)
    <3>1. \A i \in 1..(Len(q) - 1) : i + 1 \in 1..Len(q)
      BY <1>1
    <3> QED
      BY <1>1, <3>1 DEF InQueue
  <2>3. InQueue(Head(q), q)
    BY <1>1 DEF InQueue
  <2> QED
    BY <2>1, <2>2, <2>3
<1>4. \A i \in 1..(Len(q) - 1) : i + 1 \in 1..Len(q) /\ i + 1 # 1
  BY <1>1
<1>5. 1 \in 1..Len(q)
  BY <1>1
<1>6. Distinct(q, T) => Distinct(Tail(q), T)
  <2> SUFFICES ASSUME Distinct(q, T), NEW i \in 1..Len(Tail(q)), NEW j \in 1..Len(Tail(q)),
                      Tail(q)[i] = Tail(q)[j], Tail(q)[i] \in T
               PROVE  i = j
    BY DEF Distinct
  <2>1. i + 1 = j + 1
    BY <1>1, <1>4 DEF Distinct
  <2> QED
    BY <2>1
<1>7. Distinct(q, T) /\ Head(q) \in T => ~InQueue(Head(q), Tail(q))
  BY <1>1, <1>4, <1>5 DEF Distinct, InQueue
<1> QED
  BY <1>1, <1>3, <1>6, <1>7

(* Nothing is in an empty queue. *)
LEMMA EmptyQueue ==
  (\A y : ~InQueue(y, <<>>)) /\ \A T : Distinct(<<>>, T)
BY DEF InQueue, Distinct

(* What tasks of the programs at hand do, and the state of their thread.   *)
Pcs == {"", "run", "qlock", "rlock", "wlock", "slept", "chan", "alt",
        "main", "timer", "timer_func", "tread", "treading", "fired", "deinited",
        "aiotask", "yielded", "poll",
        "session", "init", "done", "recv", "receive", "reading", "handler", "locked", "write",
        "writing", "unlock", "closed", "close in", "close out", "dereg in", "dereg out",
        "close end", "deinit", "drained"}
Whys == {"", "cache", "reader", "writer", "timer_func", "timer_unset", "sockio_done",
         "hello", "register", "foreign", "sigpipe", "qlock", "qunlock", "bufpool_deinit",
         "device"}
Thread ==
  [running : Tasks \cup {Nobody}, runq : Seq(Tasks), cache : Seq(Tasks), count : Int,
   st : [Tasks -> {"none", "live", "cached"}], system : [Tasks -> BOOLEAN],
   small : [Tasks -> BOOLEAN], pc : [Tasks -> Pcs], nswitch : 0..2,
   thread : {"on", "exited", "stalled", "aborted"}, why : Whys]

(***************************************************************************)
(* The scheduler.  W are the tasks that wait for somebody, r is the task   *)
(* that runs.                                                              *)
(***************************************************************************)
Owned(s) == {t \in Tasks : s.st[t] # "none" /\ ~s.system[t]}
Placed(s, r, W) ==
  \A t \in Tasks :
    /\ s.st[t] = "live" <=> t = r \/ InQueue(t, s.runq) \/ t \in W
    /\ t = r => ~InQueue(t, s.runq) /\ t \notin W
    /\ ~(InQueue(t, s.runq) /\ t \in W)
    /\ s.st[t] = "cached" <=> InQueue(t, s.cache)
    /\ s.st[t] # "live" => ~s.system[t] /\ s.pc[t] = ""
PlacedAt(s, r, W, t) ==
  /\ s.st[t] = "live" <=> t = r \/ InQueue(t, s.runq) \/ t \in W
  /\ t = r => ~InQueue(t, s.runq) /\ t \notin W
  /\ ~(InQueue(t, s.runq) /\ t \in W)
  /\ s.st[t] = "cached" <=> InQueue(t, s.cache)
  /\ s.st[t] # "live" => ~s.system[t] /\ s.pc[t] = ""
Acc(s, r, W) ==
  /\ s \in Thread
  /\ r \in Tasks \cup {Nobody} /\ W \in SUBSET Tasks
  /\ Distinct(s.runq, Tasks) /\ Distinct(s.cache, Tasks)
  /\ Placed(s, r, W)
  /\ s.count = Cardinality(Owned(s))

(* The names of the tasks. *)
LEMMA TaskNames ==
  /\ Nobody \notin Tasks /\ IsFiniteSet(Tasks) /\ 1 \in Tasks /\ Tasks \in SUBSET Nat
  /\ MaxTask \in Nat /\ Cardinality(Tasks) = MaxTask
<1>1. MaxTask \in Nat \ {0}
  BY TaskAssumption
<1>2. IsFiniteSet(1..MaxTask) /\ Cardinality(1..MaxTask) = MaxTask
  BY <1>1, FS_Interval
<1> QED
  BY <1>1, <1>2 DEF Tasks, Nobody

(* What the operators of task.c make of the fields of the scheduler. *)
LEMMA SchedFields ==
  ASSUME NEW s \in Thread
  PROVE  /\ s.runq \in Seq(Tasks) /\ s.cache \in Seq(Tasks) /\ s.count \in Int
         /\ s.st \in [Tasks -> {"none", "live", "cached"}]
         /\ s.system \in [Tasks -> BOOLEAN] /\ s.small \in [Tasks -> BOOLEAN]
         /\ s.pc \in [Tasks -> Pcs]
         /\ s.running \in Tasks \cup {Nobody} /\ s.nswitch \in 0..2
         /\ s.thread \in {"on", "exited", "stalled", "aborted"}
BY DEF Thread

(* A task is made ready. *)
LEMMA ReadyOut ==
  ASSUME NEW s \in Thread, NEW t \in Tasks
  PROVE  LET x == taskready(s, t)
         IN  /\ x \in Thread /\ x.runq = Append(s.runq, t) /\ x.cache = s.cache
             /\ x.count = s.count /\ x.st = s.st /\ x.system = s.system /\ x.pc = s.pc
             /\ x.thread = s.thread /\ x.running = s.running /\ x.why = s.why
             /\ x.small = s.small /\ x.nswitch = s.nswitch
<1>1. Append(s.runq, t) \in Seq(Tasks)
  BY SchedFields, AppendProperties
<1> DEFINE q == Append(s.runq, t)
<1>2. taskready(s, t) = [s EXCEPT !.runq = q]
  BY DEF taskready
<1> HIDE DEF q
<1>3. LET x == taskready(s, t)
      IN  /\ x \in Thread /\ x.runq = q /\ x.cache = s.cache
          /\ x.count = s.count /\ x.st = s.st /\ x.system = s.system /\ x.pc = s.pc
          /\ x.thread = s.thread /\ x.running = s.running /\ x.why = s.why
          /\ x.small = s.small /\ x.nswitch = s.nswitch
  BY <1>1, <1>2 DEF Thread, q
<1> QED
  BY <1>3 DEF q

(* Who runs waits now. *)
LEMMA Parked ==
  ASSUME NEW s, NEW r \in Tasks, NEW W, Acc(s, r, W)
  PROVE  Acc(s, Nobody, W \cup {r})
<1>1. Placed(s, Nobody, W \cup {r})
  BY TaskNames DEF Acc, Placed
<1> QED
  BY <1>1 DEF Acc

(* A task that waits is made ready, ... *)
LEMMA WokenUp ==
  ASSUME NEW s, NEW r, NEW W, Acc(s, r, W), NEW t \in W
  PROVE  Acc(taskready(s, t), r, W \ {t})
<1> DEFINE x == taskready(s, t)
<1>0. t \in Tasks /\ s \in Thread
  BY DEF Acc
<1>1. /\ x \in Thread /\ x.runq = Append(s.runq, t) /\ x.cache = s.cache
      /\ x.count = s.count /\ x.st = s.st /\ x.system = s.system /\ x.pc = s.pc
  BY <1>0, ReadyOut
<1>2. ~InQueue(t, s.runq)
  BY <1>0 DEF Acc, Placed
<1>3. /\ \A y : InQueue(y, Append(s.runq, t)) <=> InQueue(y, s.runq) \/ y = t
      /\ Distinct(Append(s.runq, t), Tasks)
  BY <1>0, <1>2, SchedFields, AppendTo DEF Acc
<1> HIDE DEF x
<1>4. Placed(x, r, W \ {t})
  <2>1. Placed(s, r, W)
    BY DEF Acc
  <2>2. ASSUME NEW u \in Tasks PROVE PlacedAt(x, r, W \ {t}, u)
    <3>1. PlacedAt(s, r, W, u) /\ (InQueue(u, x.runq) <=> InQueue(u, s.runq) \/ u = t)
      BY <1>1, <1>3, <2>1 DEF Placed, PlacedAt
    <3> QED
      BY ONLY t \in W, <1>1, <1>2, <3>1 DEF PlacedAt
  <2> QED
    BY ONLY <2>2 DEF Placed, PlacedAt
<1>5. Owned(x) = Owned(s)
  BY <1>1 DEF Owned
<1>6. Acc(x, r, W \ {t})
  BY <1>1, <1>3, <1>4, <1>5 DEF Acc
<1> QED
  BY <1>6 DEF x

(* ... or the one that runs is, when it yields. *)
LEMMA Yielded ==
  ASSUME NEW s, NEW r \in Tasks, NEW W, Acc(s, r, W)
  PROVE  Acc(taskready(s, r), Nobody, W)
<1>1. Acc(s, Nobody, W \cup {r})
  BY Parked
<1>2. Acc(taskready(s, r), Nobody, (W \cup {r}) \ {r})
  BY <1>1, WokenUp
<1>3. (W \cup {r}) \ {r} = W
  BY DEF Acc, Placed
<1> QED
  BY <1>2, <1>3

(* A task goes on elsewhere. *)
LEMMA GoneOn ==
  ASSUME NEW s, NEW r, NEW W, Acc(s, r, W), NEW t \in Tasks, s.st[t] = "live",
         NEW l \in Pcs
  PROVE  LET x == Goto(s, t, l)
         IN  /\ Acc(x, r, W) /\ x \in Thread
             /\ x.runq = s.runq /\ x.st = s.st /\ x.thread = s.thread
             /\ x.running = s.running /\ x.why = s.why /\ x.system = s.system
             /\ x.nswitch = s.nswitch
             /\ x.pc[t] = l /\ \A u \in Tasks \ {t} : x.pc[u] = s.pc[u]
<1> DEFINE x == Goto(s, t, l)
           f == [s.pc EXCEPT ![t] = l]
<1>0. s \in Thread /\ s.pc \in [Tasks -> Pcs]
  BY SchedFields DEF Acc
<1>1. f \in [Tasks -> Pcs] /\ f[t] = l /\ \A u \in Tasks \ {t} : f[u] = s.pc[u]
  BY <1>0
<1>2. x = [s EXCEPT !.pc = f]
  BY <1>0 DEF Goto
<1> HIDE DEF f
<1>3. /\ x \in Thread /\ x.runq = s.runq /\ x.cache = s.cache
      /\ x.count = s.count /\ x.st = s.st /\ x.system = s.system /\ x.pc = f
      /\ x.thread = s.thread /\ x.running = s.running /\ x.why = s.why
      /\ x.nswitch = s.nswitch
  BY <1>0, <1>1, <1>2 DEF Thread
<1> HIDE DEF x
<1>4. Placed(x, r, W)
  BY <1>1, <1>3, ZenonT(60) DEF Acc, Placed
<1>5. Owned(x) = Owned(s)
  BY <1>3 DEF Owned
<1>6. Acc(x, r, W)
  BY <1>3, <1>4, <1>5 DEF Acc
<1> QED
  BY <1>1, <1>3, <1>6 DEF x

(* The turn of the scheduler: the thread ends, or the first ready task     *)
(* runs.                                                                   *)
LEMMA Switched ==
  ASSUME NEW s, NEW W, Acc(s, Nobody, W), On(s)
  PROVE  LET x == taskscheduler(s)
         IN  /\ x \in Thread
             /\ On(x) => /\ Acc(x, x.running, W) /\ x.running \in Tasks
                         /\ x.st = s.st /\ x.pc = s.pc /\ x.system = s.system
                         /\ InQueue(x.running, s.runq)
             /\ x.thread # "aborted"
<1> DEFINE x == taskscheduler(s)
<1>0. s \in Thread /\ s.runq \in Seq(Tasks)
  BY SchedFields DEF Acc
<1>1. CASE s.count = 0
  <2>1. x = [s EXCEPT !.thread = "exited", !.running = Nobody]
    BY <1>1 DEF taskscheduler, End
  <2>2. x \in Thread /\ x.thread = "exited"
    BY <1>0, <2>1 DEF Thread
  <2> QED
    BY <2>2 DEF On
<1>2. CASE s.count # 0 /\ s.runq = <<>>
  <2> DEFINE f == taskcachefree(s)
  <2>1. x = End(f, IF f.count = 0 THEN "exited" ELSE "stalled")
    BY <1>2 DEF taskscheduler
  <2>2. f \in Thread
    <3> DEFINE a == s.count - Len(s.cache)
               b == [t \in Tasks |-> IF t \in SetOf(s.cache) THEN "none" ELSE s.st[t]]
               c == [t \in Tasks |-> s.small[t] /\ t \notin SetOf(s.cache)]
    <3>1. f = [s EXCEPT !.count = a, !.cache = <<>>, !.st = b, !.small = c]
      BY DEF taskcachefree
    <3>2. a \in Int
      BY <1>0, SchedFields
    <3>3. b \in [Tasks -> {"none", "live", "cached"}]
      BY <1>0, SchedFields
    <3>4. c \in [Tasks -> BOOLEAN]
      OBVIOUS
    <3>5. <<>> \in Seq(Tasks)
      OBVIOUS
    <3> HIDE DEF a, b, c
    <3> QED
      BY <1>0, <3>1, <3>2, <3>3, <3>4, <3>5, ZenonT(60) DEF Thread
  <2> HIDE DEF f
  <2>3. x \in Thread /\ x.thread \in {"exited", "stalled"}
    BY <2>1, <2>2 DEF End, Thread
  <2> QED
    BY <2>3 DEF On
<1>3. CASE s.count # 0 /\ s.runq # <<>>
  <2> DEFINE h == Head(s.runq)
             q == Tail(s.runq)
             n == IF s.nswitch = 2 THEN 2 ELSE s.nswitch + 1
  <2>1. x = [s EXCEPT !.running = h, !.runq = q, !.nswitch = n]
    BY <1>3 DEF taskscheduler
  <2>2. /\ h \in Tasks /\ q \in Seq(Tasks) /\ Distinct(q, Tasks) /\ ~InQueue(h, q)
        /\ \A y : InQueue(y, s.runq) <=> y = h \/ InQueue(y, q)
    BY <1>0, <1>3, TailOf DEF Acc
  <2>3. n \in 0..2
    BY <1>0, SchedFields
  <2> HIDE DEF h, q, n
  <2>4. /\ x \in Thread /\ x.runq = q /\ x.running = h /\ x.cache = s.cache
        /\ x.count = s.count /\ x.st = s.st /\ x.system = s.system /\ x.pc = s.pc
        /\ x.thread = s.thread
    BY <1>0, <2>1, <2>2, <2>3 DEF Thread
  <2> HIDE DEF x
  <2>5. Placed(x, h, W)
    BY <2>2, <2>4, TaskNames, ZenonT(60) DEF Acc, Placed
  <2>6. Owned(x) = Owned(s)
    BY <2>4 DEF Owned
  <2>7. Acc(x, h, W)
    BY <2>2, <2>4, <2>5, <2>6 DEF Acc
  <2>8. InQueue(h, s.runq)
    BY <2>2
  <2> QED
    BY <2>2, <2>4, <2>7, <2>8 DEF x, On
<1> QED
  BY <1>1, <1>2, <1>3

(* What a switch of t, which will go on at l, leads to. *)
SwitchedTo(s, t, W, l, x) ==
  /\ x.thread # "aborted"
  /\ On(x) => /\ Acc(x, x.running, W \cup {t}) /\ x.st = s.st /\ x.pc[t] = l
              /\ \A u \in Tasks \ {t} : x.pc[u] = s.pc[u]

(* It leads there. *)
LEMMA Switches ==
  ASSUME NEW s, NEW r \in Tasks, NEW W, Acc(s, r, W), On(s), NEW l \in Pcs
  PROVE  SwitchedTo(s, r, W, l, taskswitch(s, r, l))
<1> DEFINE y == Goto(s, r, l)
<1>1. s.st[r] = "live"
  BY DEF Acc, Placed
<1>2. /\ Acc(y, r, W) /\ y.st = s.st /\ y.thread = s.thread
      /\ y.pc[r] = l /\ \A u \in Tasks \ {r} : y.pc[u] = s.pc[u]
  BY <1>1, GoneOn
<1>3. On(y)
  BY <1>2 DEF On
<1> HIDE DEF y
<1>4. Acc(y, Nobody, W \cup {r})
  BY <1>2, Parked
<1> DEFINE x == taskscheduler(y)
<1>5. /\ x.thread # "aborted"
      /\ On(x) => Acc(x, x.running, W \cup {r}) /\ x.st = y.st /\ x.pc = y.pc
  BY <1>3, <1>4, Switched
<1> HIDE DEF x
<1>6. SwitchedTo(s, r, W, l, x)
  BY <1>2, <1>5 DEF SwitchedTo
<1> QED
  BY <1>6 DEF taskswitch, x, y

(* Two queues, one behind the other. *)
LEMMA ConcatTo ==
  ASSUME NEW S, NEW p \in Seq(S), NEW q \in Seq(S)
  PROVE  /\ p \o q \in Seq(S)
         /\ \A y : InQueue(y, p \o q) <=> InQueue(y, p) \/ InQueue(y, q)
         /\ Distinct(p, S) /\ Distinct(q, S) /\ (\A y \in S : ~(InQueue(y, p) /\ InQueue(y, q)))
              => Distinct(p \o q, S)
<1> DEFINE c == p \o q
           m == Len(p)
           n == Len(q)
<1>1. /\ c \in Seq(S) /\ m \in Nat /\ n \in Nat /\ Len(c) = m + n
      /\ \A i \in 1..(m + n) : c[i] = IF i <= m THEN p[i] ELSE q[i - m]
  BY ConcatProperties
<1> HIDE DEF c, m, n
<1>2. /\ \A i \in 1..m : i \in 1..(m + n) /\ c[i] = p[i]
      /\ \A i \in 1..n : i + m \in 1..(m + n) /\ c[i + m] = q[i]
      /\ \A i \in 1..(m + n) : \/ i \in 1..m /\ c[i] = p[i]
                               \/ i - m \in 1..n /\ c[i] = q[i - m] /\ ~(i <= m)
  <2>1. \A i \in 1..m : i \in 1..(m + n) /\ i <= m
    BY <1>1
  <2>2. \A i \in 1..n : i + m \in 1..(m + n) /\ ~(i + m <= m) /\ (i + m) - m = i
    BY <1>1
  <2>3. \A i \in 1..(m + n) : (i <= m => i \in 1..m) /\ (~(i <= m) => i - m \in 1..n)
    BY <1>1
  <2>4. \A i \in 1..n : c[i + m] = q[(i + m) - m]
    BY <1>1, <2>2
  <2> QED
    BY <1>1, <2>1, <2>2, <2>3, <2>4
<1>3. \A y : InQueue(y, c) <=> InQueue(y, p) \/ InQueue(y, q)
  BY <1>1, <1>2, ZenonT(60) DEF InQueue, m, n
<1>4. ASSUME Distinct(p, S), Distinct(q, S), \A y \in S : ~(InQueue(y, p) /\ InQueue(y, q))
      PROVE  Distinct(c, S)
  <2> SUFFICES ASSUME NEW i \in 1..(m + n), NEW j \in 1..(m + n), c[i] = c[j], c[i] \in S
               PROVE  i = j
    BY <1>1 DEF Distinct
  <2>1. CASE i \in 1..m /\ j \in 1..m /\ c[i] = p[i] /\ c[j] = p[j]
    BY <1>4, <2>1 DEF Distinct, m
  <2>2. CASE i - m \in 1..n /\ j - m \in 1..n /\ c[i] = q[i - m] /\ c[j] = q[j - m]
    <3>1. i - m = j - m
      BY <1>4, <2>2 DEF Distinct, n
    <3> QED
      BY <1>1, <3>1
  <2>3. CASE i \in 1..m /\ j - m \in 1..n /\ c[i] = p[i] /\ c[j] = q[j - m]
    BY <1>4, <2>3 DEF InQueue, m, n
  <2>4. CASE i - m \in 1..n /\ j \in 1..m /\ c[i] = q[i - m] /\ c[j] = p[j]
    BY <1>4, <2>4 DEF InQueue, m, n
  <2> QED
    BY <1>2, <2>1, <2>2, <2>3, <2>4
<1> QED
  BY <1>1, <1>3, <1>4 DEF c

(* The oldest of those that wait in a list is made ready, ... *)
LEMMA HeadWoken ==
  ASSUME NEW s, NEW r, NEW W, Acc(s, r, W), NEW q \in Seq(Tasks), q # <<>>, Head(q) \in W
  PROVE  LET x == ReadyHead(s, q)
         IN  /\ Acc(x, r, W \ {Head(q)}) /\ x.st = s.st /\ x.pc = s.pc
             /\ x.system = s.system /\ x.thread = s.thread /\ x.why = s.why
             /\ x.running = s.running
<1> DEFINE h == Head(q)
<1>1. ReadyHead(s, q) = taskready(s, h)
  BY DEF ReadyHead
<1>2. s \in Thread /\ h \in Tasks /\ h \in W
  BY TailOf DEF Acc
<1> HIDE DEF h
<1>3. Acc(taskready(s, h), r, W \ {h})
  BY <1>2, WokenUp
<1>4. LET x == taskready(s, h)
      IN  /\ x.st = s.st /\ x.pc = s.pc /\ x.system = s.system
          /\ x.thread = s.thread /\ x.why = s.why /\ x.running = s.running
  BY <1>2, ReadyOut
<1>5. LET x == ReadyHead(s, q)
      IN  /\ Acc(x, r, W \ {h}) /\ x.st = s.st /\ x.pc = s.pc
          /\ x.system = s.system /\ x.thread = s.thread /\ x.why = s.why
          /\ x.running = s.running
  BY <1>1, <1>3, <1>4
<1> QED
  BY <1>5 DEF h

(* ... or all of them are: the thread is as before, but for the queues. *)
WokenTo(s, r, W, x) ==
  /\ Acc(x, r, W) /\ x.st = s.st /\ x.pc = s.pc
  /\ x.thread = s.thread /\ x.running = s.running

(* That is what becomes of it. *)
LEMMA AllWoken ==
  ASSUME NEW s, NEW r, NEW W, Acc(s, r, W), NEW q \in Seq(Tasks), Distinct(q, Tasks),
         NEW V \in SUBSET W, \A t \in Tasks : InQueue(t, q) <=> t \in V
  PROVE  WokenTo(s, r, W \ V, ReadyAll(s, q))
<1> DEFINE c == s.runq \o q
           x == ReadyAll(s, q)
<1>0. s \in Thread /\ s.runq \in Seq(Tasks) /\ V \in SUBSET Tasks /\ W \in SUBSET Tasks
  BY SchedFields DEF Acc
<1>1. \A t \in Tasks : ~(InQueue(t, s.runq) /\ InQueue(t, q))
  BY DEF Acc, Placed
<1>2. c \in Seq(Tasks) /\ \A y : InQueue(y, c) <=> InQueue(y, s.runq) \/ InQueue(y, q)
  BY <1>0, ConcatTo
<1>3. Distinct(c, Tasks)
  BY <1>0, <1>1, ConcatTo DEF Acc
<1>4. x = [s EXCEPT !.runq = c]
  BY DEF ReadyAll
<1> HIDE DEF c
<1>5. /\ x \in Thread /\ x.runq = c /\ x.cache = s.cache
      /\ x.count = s.count /\ x.st = s.st /\ x.system = s.system /\ x.pc = s.pc
      /\ x.thread = s.thread /\ x.running = s.running /\ x.why = s.why
  BY <1>0, <1>2, <1>4 DEF Thread
<1> HIDE DEF x
<1>6. Placed(x, r, W \ V)
  BY <1>0, <1>2, <1>5 DEF Acc, Placed
<1>7. Owned(x) = Owned(s)
  BY <1>5 DEF Owned
<1>8. Acc(x, r, W \ V)
  BY <1>0, <1>3, <1>5, <1>6, <1>7 DEF Acc
<1> QED
  BY <1>5, <1>8 DEF x, WokenTo

(* A task yields. *)
LEMMA YieldedAt ==
  ASSUME NEW s, NEW r \in Tasks, NEW W, Acc(s, r, W), On(s), NEW l \in Pcs
  PROVE  LET x == taskyield(s, r, l)
         IN  /\ x \in Thread
             /\ On(x) => /\ Acc(x, x.running, W) /\ x.running \in Tasks
                         /\ x.st = s.st /\ x.system = s.system /\ x.pc[r] = l
                         /\ \A u \in Tasks \ {r} : x.pc[u] = s.pc[u]
             /\ x.thread # "aborted"
<1> DEFINE y == taskready(s, r)
           z == Goto(y, r, l)
<1>0. s \in Thread
  BY DEF Acc
<1>1. /\ Acc(y, Nobody, W) /\ y.st = s.st /\ y.pc = s.pc /\ y.thread = s.thread
      /\ y.system = s.system
  BY <1>0, Yielded, ReadyOut
<1>2. y.st[r] = "live"
  BY <1>1 DEF Acc, Placed
<1> HIDE DEF y
<1>3. /\ Acc(z, Nobody, W) /\ z.st = y.st /\ z.thread = y.thread /\ z.system = y.system
      /\ z.pc[r] = l /\ \A u \in Tasks \ {r} : z.pc[u] = y.pc[u]
  BY <1>1, <1>2, GoneOn
<1>4. On(z)
  BY <1>1, <1>3 DEF On
<1> HIDE DEF z
<1>5. taskyield(s, r, l) = taskscheduler(z)
  BY DEF taskyield, taskswitch, y, z
<1> QED
  BY <1>1, <1>3, <1>4, <1>5, Switched

(* A task is created, unless the assert on the cache fails. *)
CreatedIn(s, r, W, fn, x) ==
  /\ x \in Thread
  /\ x.thread = "aborted" => x.why = "cache"
  /\ On(x) => /\ Acc(x, r, W) /\ x.running = s.running /\ x.nswitch = s.nswitch
              /\ \E t \in Tasks :
                   /\ s.st[t] # "live" /\ x.st[t] = "live" /\ x.pc[t] = fn
                   /\ \A u \in Tasks \ {t} : x.st[u] = s.st[u] /\ x.pc[u] = s.pc[u]

(* That is what taskcreate makes. *)
LEMMA Created ==
  ASSUME NEW s, NEW r, NEW W, Acc(s, r, W), On(s), Cardinality(Live(s)) < MaxTask,
         NEW fn \in Pcs, NEW small \in BOOLEAN
  PROVE  CreatedIn(s, r, W, fn, taskcreate(s, fn, small))
<1> DEFINE x == taskcreate(s, fn, small)
<1>0. /\ s \in Thread /\ s.cache \in Seq(Tasks) /\ s.runq \in Seq(Tasks)
      /\ s.count \in Int /\ s.thread = "on"
      /\ s.st \in [Tasks -> {"none", "live", "cached"}]
      /\ s.system \in [Tasks -> BOOLEAN] /\ s.small \in [Tasks -> BOOLEAN]
      /\ s.pc \in [Tasks -> Pcs]
  BY SchedFields DEF Acc, On
<1>1. CASE s.cache = <<>>
  <2> DEFINE t == Min(Unused(s))
             a == [s.st EXCEPT ![t] = "live"]
             b == [s.small EXCEPT ![t] = small]
             c == [s.pc EXCEPT ![t] = fn]
             n == s.count + 1
             y == [s EXCEPT !.st = a, !.small = b, !.pc = c, !.count = n]
  <2>1. Unused(s) # {}
    <3> SUFFICES ASSUME Unused(s) = {} PROVE FALSE
      OBVIOUS
    <3>1. \A u \in Tasks : ~InQueue(u, s.cache)
      BY <1>1, EmptyQueue
    <3>2. Live(s) = Tasks
      BY <1>0, <3>1 DEF Live, Unused, Acc, Placed
    <3> QED
      BY <3>2, TaskNames
  <2>2. t \in Tasks /\ s.st[t] = "none"
    <3>1. Unused(s) \in SUBSET Nat
      BY TaskNames DEF Unused
    <3>2. \E u \in Unused(s) : \A v \in Unused(s) : u <= v
      BY <2>1, <3>1, LeastNat
    <3>3. t \in Unused(s)
      BY <3>2 DEF Min
    <3> QED
      BY <3>3 DEF Unused
  <2>3. x = taskready(y, t)
    <3>1. y = [s EXCEPT !.st[t] = "live", !.small[t] = small, !.pc[t] = fn,
                        !.count = @ + 1]
      BY <1>0
    <3>2. taskalloc(s, fn, small) = taskready(y, t)
      BY <3>1 DEF taskalloc
    <3>3. x = taskalloc(s, fn, small)
      BY <1>1 DEF taskcreate, On
    <3> QED
      BY <3>2, <3>3
  <2>4. /\ a \in [Tasks -> {"none", "live", "cached"}] /\ a[t] = "live"
        /\ \A u \in Tasks \ {t} : a[u] = s.st[u]
        /\ b \in [Tasks -> BOOLEAN]
        /\ c \in [Tasks -> Pcs] /\ c[t] = fn /\ \A u \in Tasks \ {t} : c[u] = s.pc[u]
        /\ n \in Int /\ n = s.count + 1
    BY <1>0, <2>2
  <2> HIDE DEF t, a, b, c, n
  <2>5. /\ y \in Thread /\ y.runq = s.runq /\ y.cache = s.cache /\ y.count = n
        /\ y.st = a /\ y.pc = c /\ y.system = s.system /\ y.thread = s.thread
        /\ y.running = s.running /\ y.nswitch = s.nswitch
    BY <1>0, <2>4 DEF Thread
  <2> HIDE DEF y
  <2>6. /\ s.st[t] # "live" /\ t # r /\ ~InQueue(t, s.runq) /\ t \notin W
        /\ ~InQueue(t, s.cache) /\ ~s.system[t]
    BY <2>2 DEF Acc, Placed
  <2>7. Acc(y, r, W \cup {t})
    <3>1. Placed(y, r, W \cup {t})
      <4> SUFFICES ASSUME NEW u \in Tasks
                   PROVE  PlacedAt(y, r, W \cup {t}, u)
        BY DEF Placed, PlacedAt
      <4>1. PlacedAt(s, r, W, u)
        BY DEF Acc, Placed, PlacedAt
      <4>2. CASE u = t
        BY <2>2, <2>4, <2>5, <2>6, <4>2 DEF PlacedAt
      <4>3. CASE u # t
        BY <2>4, <2>5, <4>1, <4>3 DEF PlacedAt
      <4> QED
        BY <4>2, <4>3
    <3>2. y.count = Cardinality(Owned(y))
      <4>1. Owned(s) \in SUBSET Tasks /\ Owned(y) \in SUBSET Tasks
        BY DEF Owned
      <4>2. t \in Owned(y) /\ t \notin Owned(s)
        BY <2>2, <2>4, <2>5, <2>6 DEF Owned
      <4>3. \A u \in Tasks : u # t => (u \in Owned(s) <=> u \in Owned(y))
        BY <2>4, <2>5 DEF Owned
      <4>4. Moved(t, Owned(s), Owned(y))
        BY <2>2, <4>1, <4>2, <4>3, TaskNames, CountMove
      <4> QED
        BY <2>4, <2>5, <4>2, <4>4 DEF Moved, Acc
    <3> QED
      BY <2>2, <2>5, <3>1, <3>2 DEF Acc
  <2>8. Acc(taskready(y, t), r, (W \cup {t}) \ {t})
    BY <2>7, WokenUp
  <2>9. (W \cup {t}) \ {t} = W
    BY <2>6
  <2>10. LET z == taskready(y, t)
         IN  /\ z.st = a /\ z.pc = c /\ z.thread = "on" /\ z.running = s.running
             /\ z.nswitch = s.nswitch
    BY <1>0, <2>2, <2>5, ReadyOut
  <2>11. /\ Acc(x, r, W) /\ x.st = a /\ x.pc = c /\ x.thread = "on" /\ x.running = s.running
         /\ x \in Thread /\ x.nswitch = s.nswitch
    BY <2>3, <2>8, <2>9, <2>10 DEF Acc
  <2> HIDE DEF x
  <2>12. CreatedIn(s, r, W, fn, x)
    BY <2>2, <2>4, <2>6, <2>11 DEF CreatedIn
  <2> QED
    BY <2>12 DEF x
<1>2. CASE s.cache # <<>> /\ ~small
  <2>1. x = [s EXCEPT !.thread = "aborted", !.why = "cache"]
    BY <1>0, <1>2 DEF taskcreate, Abort, On
  <2>2. x.thread = "aborted" /\ x.why = "cache" /\ x \in Thread
    BY <1>0, <2>1 DEF Thread, Whys
  <2> HIDE DEF x
  <2>3. CreatedIn(s, r, W, fn, x)
    BY <2>2 DEF On, CreatedIn
  <2> QED
    BY <2>3 DEF x
<1>3. CASE s.cache # <<>> /\ small
  <2> DEFINE t == Head(s.cache)
             q == Tail(s.cache)
             a == [s.st EXCEPT ![t] = "live"]
             c == [s.pc EXCEPT ![t] = fn]
             y == [s EXCEPT !.cache = q, !.st = a, !.pc = c]
  <2>1. /\ t \in Tasks /\ q \in Seq(Tasks) /\ Distinct(q, Tasks) /\ ~InQueue(t, q)
        /\ \A u : InQueue(u, s.cache) <=> u = t \/ InQueue(u, q)
    BY <1>0, <1>3, TailOf DEF Acc
  <2>2. s.st[t] = "cached"
    BY <2>1 DEF Acc, Placed
  <2>3. x = taskready(y, t)
    <3>1. y = [s EXCEPT !.cache = Tail(@), !.st[t] = "live", !.pc[t] = fn]
      BY <1>0
    <3> HIDE DEF y
    <3>2. x = taskready([s EXCEPT !.cache = Tail(@), !.st[t] = "live", !.pc[t] = fn], t)
      BY <1>0, <1>3 DEF taskcreate, On
    <3> QED
      BY <3>1, <3>2
  <2>4. /\ a \in [Tasks -> {"none", "live", "cached"}] /\ a[t] = "live"
        /\ \A u \in Tasks \ {t} : a[u] = s.st[u]
        /\ c \in [Tasks -> Pcs] /\ c[t] = fn /\ \A u \in Tasks \ {t} : c[u] = s.pc[u]
    BY <1>0, <2>1
  <2> HIDE DEF t, a, q, c
  <2>5. /\ y \in Thread /\ y.runq = s.runq /\ y.cache = q /\ y.count = s.count
        /\ y.st = a /\ y.pc = c /\ y.system = s.system /\ y.thread = s.thread
        /\ y.running = s.running /\ y.nswitch = s.nswitch
    BY <1>0, <2>1, <2>4 DEF Thread
  <2> HIDE DEF y
  <2>6. /\ s.st[t] # "live" /\ t # r /\ ~InQueue(t, s.runq) /\ t \notin W /\ ~s.system[t]
    BY <2>1, <2>2 DEF Acc, Placed
  <2>7. Acc(y, r, W \cup {t})
    <3>1. Placed(y, r, W \cup {t})
      <4> SUFFICES ASSUME NEW u \in Tasks
                   PROVE  PlacedAt(y, r, W \cup {t}, u)
        BY DEF Placed, PlacedAt
      <4>1. PlacedAt(s, r, W, u)
        BY DEF Acc, Placed, PlacedAt
      <4>2. CASE u = t
        BY <2>1, <2>4, <2>5, <2>6, <4>2 DEF PlacedAt
      <4>3. CASE u # t
        BY <2>1, <2>4, <2>5, <4>1, <4>3 DEF PlacedAt
      <4> QED
        BY <4>2, <4>3
    <3>2. Owned(y) = Owned(s)
      BY <2>2, <2>4, <2>5 DEF Owned
    <3> QED
      BY <2>1, <2>5, <3>1, <3>2 DEF Acc
  <2>8. Acc(taskready(y, t), r, (W \cup {t}) \ {t})
    BY <2>7, WokenUp
  <2>9. (W \cup {t}) \ {t} = W
    BY <2>6
  <2>10. LET z == taskready(y, t)
         IN  /\ z.st = a /\ z.pc = c /\ z.thread = "on" /\ z.running = s.running
             /\ z.nswitch = s.nswitch
    BY <1>0, <2>1, <2>5, ReadyOut
  <2>11. /\ Acc(x, r, W) /\ x.st = a /\ x.pc = c /\ x.thread = "on" /\ x.running = s.running
         /\ x \in Thread /\ x.nswitch = s.nswitch
    BY <2>3, <2>8, <2>9, <2>10 DEF Acc
  <2> HIDE DEF x
  <2>12. CreatedIn(s, r, W, fn, x)
    BY <2>1, <2>4, <2>6, <2>11 DEF CreatedIn
  <2> QED
    BY <2>12 DEF x
<1> QED
  BY <1>1, <1>2, <1>3

(* A task that has exited is cached or freed. *)
RetiredTo(s, r, W, y) ==
  /\ Acc(y, Nobody, W) /\ y.thread = s.thread /\ y.st[r] # "live" /\ y.pc[r] = ""
  /\ y.nswitch = s.nswitch
  /\ \A u \in Tasks \ {r} : y.pc[u] = s.pc[u] /\ y.st[u] = s.st[u]

(* That is what the scheduler makes of it. *)
LEMMA Retired ==
  ASSUME NEW s, NEW r \in Tasks, NEW W, Acc(s, r, W), On(s)
  PROVE  RetiredTo(s, r, W, Retire(s, r))
<1> DEFINE y == Retire(s, r)
<1>0. /\ s \in Thread /\ s.cache \in Seq(Tasks) /\ s.runq \in Seq(Tasks)
      /\ s.count \in Int /\ s.thread = "on"
      /\ s.st \in [Tasks -> {"none", "live", "cached"}]
      /\ s.system \in [Tasks -> BOOLEAN] /\ s.small \in [Tasks -> BOOLEAN]
      /\ s.pc \in [Tasks -> Pcs]
  BY SchedFields DEF Acc, On
<1>1. /\ s.st[r] = "live" /\ ~InQueue(r, s.runq) /\ r \notin W /\ ~InQueue(r, s.cache)
  BY DEF Acc, Placed
<1> DEFINE d == [s.system EXCEPT ![r] = FALSE]
           c == [s.pc EXCEPT ![r] = ""]
<1>2. /\ d \in [Tasks -> BOOLEAN] /\ ~d[r] /\ \A u \in Tasks \ {r} : d[u] = s.system[u]
      /\ c \in [Tasks -> Pcs] /\ c[r] = "" /\ \A u \in Tasks \ {r} : c[u] = s.pc[u]
  <2>1. d \in [Tasks -> BOOLEAN] /\ ~d[r] /\ \A u \in Tasks \ {r} : d[u] = s.system[u]
    BY <1>0
  <2>2. "" \in Pcs
    BY DEF Pcs
  <2>3. c \in [Tasks -> Pcs] /\ c[r] = "" /\ \A u \in Tasks \ {r} : c[u] = s.pc[u]
    BY <1>0, <2>2
  <2> QED
    BY <2>1, <2>3
<1>3. ASSUME ~s.small[r] \/ Len(s.cache) >= TASKS_CACHE_MAX
      PROVE  RetiredTo(s, r, W, y)
  <2> DEFINE a == [s.st EXCEPT ![r] = "none"]
             b == [s.small EXCEPT ![r] = FALSE]
             n == IF s.system[r] THEN s.count ELSE s.count - 1
  <2>1. y = [s EXCEPT !.count = n, !.st = a, !.system = d, !.small = b, !.pc = c]
    BY <1>0, <1>3 DEF Retire, taskfree
  <2>2. /\ a \in [Tasks -> {"none", "live", "cached"}] /\ a[r] = "none"
        /\ \A u \in Tasks \ {r} : a[u] = s.st[u]
        /\ b \in [Tasks -> BOOLEAN] /\ n \in Int
        /\ n = IF s.system[r] THEN s.count ELSE s.count - 1
    BY <1>0
  <2> HIDE DEF a, b, c, d, n
  <2>3. /\ y \in Thread /\ y.runq = s.runq /\ y.cache = s.cache /\ y.count = n
        /\ y.st = a /\ y.pc = c /\ y.system = d /\ y.thread = s.thread
        /\ y.nswitch = s.nswitch
    BY <1>0, <1>2, <2>1, <2>2, ZenonT(60) DEF Thread
  <2> HIDE DEF y
  <2>4. Placed(y, Nobody, W)
    <3> SUFFICES ASSUME NEW u \in Tasks
                 PROVE  PlacedAt(y, Nobody, W, u)
      BY DEF Placed, PlacedAt
    <3>1. PlacedAt(s, r, W, u)
      BY DEF Acc, Placed, PlacedAt
    <3>2. u # Nobody
      BY TaskNames
    <3>3. CASE u = r
      BY <1>1, <1>2, <2>2, <2>3, <3>2, <3>3 DEF PlacedAt
    <3>4. CASE u # r
      BY <1>1, <1>2, <2>2, <2>3, <3>1, <3>2, <3>4 DEF PlacedAt
    <3> QED
      BY <3>3, <3>4
  <2>5. y.count = Cardinality(Owned(y))
    <3>1. Owned(s) \in SUBSET Tasks /\ Owned(y) \in SUBSET Tasks
      BY DEF Owned
    <3>2. r \notin Owned(y) /\ (r \in Owned(s) <=> ~s.system[r])
      BY <1>1, <1>2, <2>2, <2>3 DEF Owned
    <3>3. \A u \in Tasks : u # r => (u \in Owned(s) <=> u \in Owned(y))
      BY <1>2, <2>2, <2>3 DEF Owned
    <3>4. Moved(r, Owned(s), Owned(y))
      BY <3>1, <3>2, <3>3, TaskNames, CountMove
    <3> QED
      BY <2>2, <2>3, <3>2, <3>4 DEF Moved, Acc
  <2>6. Acc(y, Nobody, W)
    BY <2>3, <2>4, <2>5 DEF Acc
  <2> QED
    BY <1>2, <2>2, <2>3, <2>6 DEF RetiredTo
<1>4. ASSUME ~(~s.small[r] \/ Len(s.cache) >= TASKS_CACHE_MAX)
      PROVE  RetiredTo(s, r, W, y)
  <2> DEFINE a == [s.st EXCEPT ![r] = "cached"]
             q == Append(s.cache, r)
             n == IF s.system[r] THEN s.count + 1 ELSE s.count
  <2>1. y = [s EXCEPT !.count = n, !.system = d, !.st = a, !.pc = c, !.cache = q]
    BY <1>0, <1>4 DEF Retire
  <2>2. /\ a \in [Tasks -> {"none", "live", "cached"}] /\ a[r] = "cached"
        /\ \A u \in Tasks \ {r} : a[u] = s.st[u]
        /\ n \in Int /\ n = IF s.system[r] THEN s.count + 1 ELSE s.count
    BY <1>0
  <2>3. /\ q \in Seq(Tasks) /\ Distinct(q, Tasks)
        /\ \A u : InQueue(u, q) <=> InQueue(u, s.cache) \/ u = r
    BY <1>0, <1>1, AppendTo DEF Acc
  <2> HIDE DEF a, c, d, n, q
  <2>4. /\ y \in Thread /\ y.runq = s.runq /\ y.cache = q /\ y.count = n
        /\ y.st = a /\ y.pc = c /\ y.system = d /\ y.thread = s.thread
        /\ y.nswitch = s.nswitch
    BY <1>0, <1>2, <2>1, <2>2, <2>3, ZenonT(60) DEF Thread
  <2> HIDE DEF y
  <2>5. Placed(y, Nobody, W)
    <3> SUFFICES ASSUME NEW u \in Tasks
                 PROVE  PlacedAt(y, Nobody, W, u)
      BY DEF Placed, PlacedAt
    <3>1. PlacedAt(s, r, W, u)
      BY DEF Acc, Placed, PlacedAt
    <3>2. u # Nobody
      BY TaskNames
    <3>3. CASE u = r
      BY <1>1, <1>2, <2>2, <2>3, <2>4, <3>2, <3>3 DEF PlacedAt
    <3>4. CASE u # r
      BY <1>1, <1>2, <2>2, <2>3, <2>4, <3>1, <3>2, <3>4 DEF PlacedAt
    <3> QED
      BY <3>3, <3>4
  <2>6. y.count = Cardinality(Owned(y))
    <3>1. Owned(s) \in SUBSET Tasks /\ Owned(y) \in SUBSET Tasks
      BY DEF Owned
    <3>2. r \in Owned(y) /\ (r \in Owned(s) <=> ~s.system[r])
      BY <1>1, <1>2, <2>2, <2>4 DEF Owned
    <3>3. \A u \in Tasks : u # r => (u \in Owned(s) <=> u \in Owned(y))
      BY <1>2, <2>2, <2>4 DEF Owned
    <3>4. Moved(r, Owned(s), Owned(y))
      BY <3>1, <3>2, <3>3, TaskNames, CountMove
    <3> QED
      BY <2>2, <2>4, <3>2, <3>4 DEF Moved, Acc
  <2>7. Acc(y, Nobody, W)
    BY <2>3, <2>4, <2>5, <2>6 DEF Acc
  <2> QED
    BY <1>2, <2>2, <2>4, <2>7 DEF RetiredTo
<1> QED
  BY <1>3, <1>4

(* A task exits. *)
LEMMA Exited ==
  ASSUME NEW s, NEW r \in Tasks, NEW W, Acc(s, r, W), On(s)
  PROVE  LET x == taskexit(s, r)
         IN  /\ On(x) => /\ Acc(x, x.running, W) /\ x.running \in Tasks
                         /\ x.st[r] # "live" /\ x.pc[r] = ""
                         /\ \A u \in Tasks \ {r} : x.pc[u] = s.pc[u] /\ x.st[u] = s.st[u]
             /\ x.thread # "aborted"
<1> DEFINE y == Retire(s, r)
<1>5. RetiredTo(s, r, W, y)
  BY Retired
<1> HIDE DEF y
<1>6. On(y) /\ Acc(y, Nobody, W)
  BY <1>5 DEF On, RetiredTo
<1>7. taskexit(s, r) = taskscheduler(y)
  BY DEF taskexit, y
<1> DEFINE x == taskscheduler(y)
<1>8. /\ x.thread # "aborted"
      /\ On(x) => Acc(x, x.running, W) /\ x.running \in Tasks /\ x.st = y.st /\ x.pc = y.pc
  BY <1>6, Switched
<1> HIDE DEF x
<1>9. On(x) => /\ x.st[r] # "live" /\ x.pc[r] = ""
               /\ \A u \in Tasks \ {r} : x.pc[u] = s.pc[u] /\ x.st[u] = s.st[u]
  BY <1>5, <1>8 DEF RetiredTo
<1>10. taskexit(s, r) = x
  BY <1>7 DEF x
<1> QED
  BY <1>8, <1>9, <1>10

(***************************************************************************)
(* The locks, by the fields of lk: o and qw of the lock, n, w, rq and wq   *)
(* of the readers and writers, z of the rendez, and h, what tasks hold.    *)
(***************************************************************************)
WaitersOf(qw, rq, wq, z) ==
  {t \in Tasks : InQueue(t, qw) \/ InQueue(t, rq) \/ InQueue(t, wq) \/ InQueue(t, z)}

ReadersOf(pc, rq, h) ==
  {t \in Tasks : h[t] = "r" \/ (pc[t] = "rlock" /\ ~InQueue(t, rq))}

(* Where a task is and what it waits for, owns and holds. *)
Agrees(pc, o, qw, w, rq, wq, z, h, t) ==
  /\ InQueue(t, rq) => pc[t] = "rlock"
  /\ InQueue(t, z) => pc[t] = "slept"
  /\ pc[t] = "qlock" <=> InQueue(t, qw) \/ (o = t /\ h[t] = "none")
  /\ o = t => ~InQueue(t, qw)
  /\ h[t] = "q" <=> o = t /\ pc[t] # "qlock"
  /\ pc[t] = "wlock" <=> InQueue(t, wq) \/ (w = t /\ h[t] = "none")
  /\ w = t => ~InQueue(t, wq)
  /\ h[t] = "w" <=> w = t /\ pc[t] # "wlock"
  /\ h[t] # "none" => pc[t] = "run"

(* Nobody waits for what is to be had. *)
HandedOn(o, qw, n, w, rq, wq) ==
  /\ qw # <<>> => o # Nobody
  /\ wq # <<>> => w # Nobody \/ n # 0
  /\ rq # <<>> => w # Nobody \/ wq # <<>>
  /\ w # Nobody => n = 0

LockTypes(o, qw, w, rq, wq, z, h) ==
  /\ o \in Tasks \cup {Nobody} /\ w \in Tasks \cup {Nobody}
  /\ qw \in Seq(Tasks) /\ rq \in Seq(Tasks) /\ wq \in Seq(Tasks) /\ z \in Seq(Tasks)
  /\ h \in [Tasks -> {"none", "q", "r", "w"}]

Locked4(qw, rq, wq, z) ==
  /\ Distinct(qw, Tasks) /\ Distinct(rq, Tasks) /\ Distinct(wq, Tasks) /\ Distinct(z, Tasks)

Lk(s, o, qw, n, w, rq, wq, z, h) ==
  /\ LockTypes(o, qw, w, rq, wq, z, h)
  /\ Acc(s, s.running, WaitersOf(qw, rq, wq, z))
  /\ Locked4(qw, rq, wq, z)
  /\ \A t \in Tasks :
       s.st[t] = "live" => s.pc[t] \in {"run", "qlock", "rlock", "wlock", "slept"}
  /\ \A t \in Tasks : Agrees(s.pc, o, qw, w, rq, wq, z, h, t)
  /\ n = Cardinality(ReadersOf(s.pc, rq, h))
  /\ HandedOn(o, qw, n, w, rq, wq)

(* What a step leads to: a cached stack of the wrong size, the end of the  *)
(* thread, or a state like that.                                           *)
Good(s, o, qw, n, w, rq, wq, z, h) ==
  /\ s.thread = "aborted" => s.why = "cache"
  /\ On(s) => Lk(s, o, qw, n, w, rq, wq, z, h)

(* t runs and is at l. *)
RunsAt(s, t, l) == s.running = t /\ s.pc[t] = l /\ On(s)

(* The task that runs is in no list. *)
LEMMA RunsOnly ==
  ASSUME NEW s, NEW o, NEW qw, NEW n, NEW w, NEW rq, NEW wq, NEW z, NEW h,
         Lk(s, o, qw, n, w, rq, wq, z, h), NEW t \in Tasks, NEW l, RunsAt(s, t, l)
  PROVE  /\ ~InQueue(t, qw) /\ ~InQueue(t, rq) /\ ~InQueue(t, wq) /\ ~InQueue(t, z)
         /\ s.st[t] = "live" /\ Acc(s, t, WaitersOf(qw, rq, wq, z)) /\ On(s)
BY DEF RunsAt, Lk, Acc, Placed, WaitersOf

(* _qlock of a free lock, ... *)
LEMMA TakesLock ==
  ASSUME NEW s, NEW o, NEW qw, NEW n, NEW w, NEW rq, NEW wq, NEW z, NEW h,
         Lk(s, o, qw, n, w, rq, wq, z, h), NEW t \in Tasks, RunsAt(s, t, "run"),
         h[t] = "none", o = Nobody,
         NEW g, g = [h EXCEPT ![t] = "q"]
  PROVE  Good(s, t, qw, n, w, rq, wq, z, g)
<1>1. /\ g[t] = "q" /\ (\A u \in Tasks \ {t} : g[u] = h[u])
      /\ g \in [Tasks -> {"none", "q", "r", "w"}]
  BY DEF Lk, LockTypes
<1>2. LockTypes(t, qw, w, rq, wq, z, g)
  BY <1>1 DEF Lk, LockTypes
<1>3. ASSUME NEW u \in Tasks
      PROVE  Agrees(s.pc, t, qw, w, rq, wq, z, g, u)
  <2>1. Agrees(s.pc, o, qw, w, rq, wq, z, h, u)
    BY DEF Lk
  <2>2. CASE u = t
    BY <1>1, <2>1, <2>2, RunsOnly, TaskNames DEF Agrees, RunsAt
  <2>3. CASE u # t
    BY <1>1, <2>1, <2>3, TaskNames DEF Agrees
  <2> QED
    BY <2>2, <2>3
<1>4. ReadersOf(s.pc, rq, g) = ReadersOf(s.pc, rq, h)
  BY <1>1 DEF ReadersOf
<1>5. HandedOn(t, qw, n, w, rq, wq)
  BY TaskNames DEF Lk, HandedOn
<1> QED
  BY <1>2, <1>3, <1>4, <1>5 DEF Lk, Good, RunsAt, On

(* ... or of one that is taken. *)
LEMMA WaitsForLock ==
  ASSUME NEW s, NEW o, NEW qw, NEW n, NEW w, NEW rq, NEW wq, NEW z, NEW h,
         Lk(s, o, qw, n, w, rq, wq, z, h), NEW t \in Tasks,
         NEW f \in {"run", "slept"}, RunsAt(s, t, f),
         h[t] = "none", o # Nobody
  PROVE  Good(taskswitch(s, t, "qlock"), o, Append(qw, t), n, w, rq, wq, z, h)
<1> DEFINE x == taskswitch(s, t, "qlock")
           q == Append(qw, t)
           W == WaitersOf(qw, rq, wq, z)
<1>0. "qlock" \in Pcs /\ ~InQueue(t, qw) /\ ~InQueue(t, rq) /\ ~InQueue(t, wq) /\ ~InQueue(t, z)
  BY RunsOnly DEF Pcs
<1>1. /\ q \in Seq(Tasks) /\ Distinct(q, Tasks) /\ q # <<>>
      /\ \A u : InQueue(u, q) <=> InQueue(u, qw) \/ u = t
  <2>1. qw \in Seq(Tasks) /\ Distinct(qw, Tasks)
    BY DEF Lk, LockTypes, Locked4
  <2>2. /\ q \in Seq(Tasks) /\ Distinct(q, Tasks)
        /\ \A u : InQueue(u, q) <=> InQueue(u, qw) \/ u = t
    BY <1>0, <2>1, AppendTo
  <2>3. q # <<>>
    BY <2>2, EmptyQueue
  <2> QED
    BY <2>2, <2>3
<1>2. WaitersOf(q, rq, wq, z) = W \cup {t}
  BY <1>1 DEF WaitersOf
<1>3. /\ x.thread # "aborted"
      /\ On(x) => /\ Acc(x, x.running, W \cup {t}) /\ x.st = s.st /\ x.pc[t] = "qlock"
                  /\ \A u \in Tasks \ {t} : x.pc[u] = s.pc[u]
  <2>1. Acc(s, t, W) /\ On(s)
    BY RunsOnly
  <2>2. SwitchedTo(s, t, W, "qlock", x)
    BY <1>0, <2>1, Switches
  <2> QED
    BY <2>2 DEF SwitchedTo
<1> HIDE DEF x, q, W
<1> SUFFICES ASSUME On(x)
             PROVE  Lk(x, o, q, n, w, rq, wq, z, h)
  BY <1>3 DEF Good, x, q
<1>4. LockTypes(o, q, w, rq, wq, z, h) /\ Locked4(q, rq, wq, z)
  BY <1>1 DEF Lk, LockTypes, Locked4
<1>5. ASSUME NEW u \in Tasks
      PROVE  /\ Agrees(x.pc, o, q, w, rq, wq, z, h, u)
             /\ x.st[u] = "live" => x.pc[u] \in {"run", "qlock", "rlock", "wlock", "slept"}
  <2>1. /\ Agrees(s.pc, o, qw, w, rq, wq, z, h, u)
        /\ s.st[u] = "live" => s.pc[u] \in {"run", "qlock", "rlock", "wlock", "slept"}
    BY DEF Lk
  <2>2. CASE u = t
    BY <1>0, <1>1, <1>3, <2>1, <2>2, TaskNames DEF Agrees, RunsAt
  <2>3. CASE u # t
    BY <1>1, <1>3, <2>1, <2>3, TaskNames DEF Agrees
  <2> QED
    BY <2>2, <2>3
<1>6. ReadersOf(x.pc, rq, h) = ReadersOf(s.pc, rq, h)
  BY <1>3 DEF ReadersOf, RunsAt
<1>7. HandedOn(o, q, n, w, rq, wq)
  BY DEF Lk, HandedOn
<1> QED
  BY <1>2, <1>3, <1>4, <1>5, <1>6, <1>7 DEF Lk, W

(* The second half of _qlock. *)
LEMMA GetsLock ==
  ASSUME NEW s, NEW o, NEW qw, NEW n, NEW w, NEW rq, NEW wq, NEW z, NEW h,
         Lk(s, o, qw, n, w, rq, wq, z, h), NEW t \in Tasks, RunsAt(s, t, "qlock"),
         NEW g, g = [h EXCEPT ![t] = "q"]
  PROVE  o = t /\ Good(Goto(s, t, "run"), o, qw, n, w, rq, wq, z, g)
<1> DEFINE x == Goto(s, t, "run")
           W == WaitersOf(qw, rq, wq, z)
<1>0. "run" \in Pcs /\ s.st[t] = "live" /\ Acc(s, t, W)
  BY RunsOnly DEF Pcs
<1>1. /\ g[t] = "q" /\ (\A u \in Tasks \ {t} : g[u] = h[u])
      /\ g \in [Tasks -> {"none", "q", "r", "w"}]
  BY DEF Lk, LockTypes
<1>2. Agrees(s.pc, o, qw, w, rq, wq, z, h, t)
  BY DEF Lk
<1>3. o = t /\ h[t] = "none"
  BY <1>2, RunsOnly DEF Agrees, RunsAt
<1>4. /\ Acc(x, t, W) /\ x.st = s.st /\ x.pc[t] = "run" /\ x.thread = s.thread
      /\ x.running = s.running /\ \A u \in Tasks \ {t} : x.pc[u] = s.pc[u]
  BY <1>0, GoneOn
<1> HIDE DEF x, W
<1>5. LockTypes(o, qw, w, rq, wq, z, g)
  BY <1>1 DEF Lk, LockTypes
<1>6. ASSUME NEW u \in Tasks
      PROVE  /\ Agrees(x.pc, o, qw, w, rq, wq, z, g, u)
             /\ x.st[u] = "live" => x.pc[u] \in {"run", "qlock", "rlock", "wlock", "slept"}
  <2>1. /\ Agrees(s.pc, o, qw, w, rq, wq, z, h, u)
        /\ s.st[u] = "live" => s.pc[u] \in {"run", "qlock", "rlock", "wlock", "slept"}
    BY DEF Lk
  <2>2. CASE u = t
    BY <1>1, <1>2, <1>3, <1>4, <2>2, RunsOnly, TaskNames DEF Agrees, RunsAt
  <2>3. CASE u # t
    BY <1>1, <1>4, <2>1, <2>3, TaskNames DEF Agrees
  <2> QED
    BY <2>2, <2>3
<1>7. ReadersOf(x.pc, rq, g) = ReadersOf(s.pc, rq, h)
  BY <1>1, <1>3, <1>4 DEF ReadersOf, RunsAt
<1>8. Acc(x, x.running, W)
  BY <1>4 DEF RunsAt
<1>9. Lk(x, o, qw, n, w, rq, wq, z, g)
  BY <1>5, <1>6, <1>7, <1>8 DEF Lk, W
<1> QED
  BY <1>3, <1>4, <1>9 DEF Good, x, RunsAt, On

(* qunlock of a lock nobody waits for, ... *)
LEMMA FreesLock ==
  ASSUME NEW s, NEW o, NEW n, NEW w, NEW rq, NEW wq, NEW z, NEW h,
         Lk(s, o, <<>>, n, w, rq, wq, z, h), NEW t \in Tasks, RunsAt(s, t, "run"),
         h[t] = "q", NEW g, g = [h EXCEPT ![t] = "none"]
  PROVE  Lk(s, Nobody, <<>>, n, w, rq, wq, z, g)
<1>1. /\ g[t] = "none" /\ (\A u \in Tasks \ {t} : g[u] = h[u])
      /\ g \in [Tasks -> {"none", "q", "r", "w"}]
  BY DEF Lk, LockTypes
<1>2. Agrees(s.pc, o, <<>>, w, rq, wq, z, h, t)
  BY DEF Lk
<1>3. LockTypes(Nobody, <<>>, w, rq, wq, z, g)
  BY <1>1 DEF Lk, LockTypes
<1>4. ASSUME NEW u \in Tasks
      PROVE  Agrees(s.pc, Nobody, <<>>, w, rq, wq, z, g, u)
  <2>1. Agrees(s.pc, o, <<>>, w, rq, wq, z, h, u)
    BY DEF Lk
  <2>2. CASE u = t
    BY <1>1, <1>2, <2>2, RunsOnly, TaskNames DEF Agrees, RunsAt
  <2>3. CASE u # t
    BY <1>1, <1>2, <2>1, <2>3, TaskNames DEF Agrees
  <2> QED
    BY <2>2, <2>3
<1>5. ReadersOf(s.pc, rq, g) = ReadersOf(s.pc, rq, h)
  BY <1>1 DEF ReadersOf, RunsAt
<1>6. HandedOn(Nobody, <<>>, n, w, rq, wq)
  BY DEF Lk, HandedOn
<1> QED
  BY <1>3, <1>4, <1>5, <1>6 DEF Lk

(* ... and of one that others wait for. *)
LEMMA HandsLock ==
  ASSUME NEW s, NEW o, NEW qw, NEW n, NEW w, NEW rq, NEW wq, NEW z, NEW h,
         Lk(s, o, qw, n, w, rq, wq, z, h), NEW t \in Tasks, RunsAt(s, t, "run"),
         h[t] = "q", NEW g, g = [h EXCEPT ![t] = "none"], qw # <<>>
  PROVE  /\ Lk(ReadyHead(s, qw), Head(qw), Tail(qw), n, w, rq, wq, z, g)
         /\ RunsAt(ReadyHead(s, qw), t, "run")
<1> DEFINE x == ReadyHead(s, qw)
           a == Head(qw)
           q == Tail(qw)
           W == WaitersOf(qw, rq, wq, z)
<1>1. /\ g[t] = "none" /\ (\A u \in Tasks \ {t} : g[u] = h[u])
      /\ g \in [Tasks -> {"none", "q", "r", "w"}]
  BY DEF Lk, LockTypes
<1>2. Agrees(s.pc, o, qw, w, rq, wq, z, h, t) /\ ~InQueue(t, qw) /\ Acc(s, t, W)
  BY RunsOnly DEF Lk
<1>3. qw \in Seq(Tasks) /\ Distinct(qw, Tasks)
  BY DEF Lk, LockTypes, Locked4
<1>4. /\ a \in Tasks /\ q \in Seq(Tasks) /\ Distinct(q, Tasks) /\ ~InQueue(a, q)
      /\ \A u : InQueue(u, qw) <=> u = a \/ InQueue(u, q)
  BY <1>3, TailOf
<1>5. Agrees(s.pc, o, qw, w, rq, wq, z, h, a)
  BY <1>4 DEF Lk
<1>6. /\ s.pc[a] = "qlock" /\ h[a] = "none" /\ a # t
      /\ ~InQueue(a, rq) /\ ~InQueue(a, wq) /\ ~InQueue(a, z)
  BY <1>2, <1>4, <1>5 DEF Agrees
<1>7. a \in W
  BY <1>4 DEF WaitersOf
<1>8. WaitersOf(q, rq, wq, z) = W \ {a}
  BY <1>4, <1>6 DEF WaitersOf
<1>9. /\ Acc(x, t, W \ {a}) /\ x.st = s.st /\ x.pc = s.pc /\ x.thread = s.thread
      /\ x.running = s.running
  <2> HIDE DEF W
  <2> QED
    BY <1>2, <1>3, <1>7, HeadWoken
<1> HIDE DEF x, a, q, W
<1>10. LockTypes(a, q, w, rq, wq, z, g) /\ Locked4(q, rq, wq, z)
  BY <1>1, <1>4 DEF Lk, LockTypes, Locked4
<1>11. ASSUME NEW u \in Tasks
       PROVE  Agrees(s.pc, a, q, w, rq, wq, z, g, u)
  <2>1. Agrees(s.pc, o, qw, w, rq, wq, z, h, u)
    BY DEF Lk
  <2>2. CASE u = t
    BY <1>1, <1>2, <1>4, <1>6, <2>2, TaskNames DEF Agrees, RunsAt
  <2>3. CASE u = a
    BY <1>1, <1>4, <1>5, <1>6, <2>3, TaskNames DEF Agrees
  <2>4. CASE u # t /\ u # a
    BY <1>1, <1>2, <1>4, <2>1, <2>4, TaskNames DEF Agrees
  <2> QED
    BY <2>2, <2>3, <2>4
<1>12. ReadersOf(s.pc, rq, g) = ReadersOf(s.pc, rq, h)
  BY <1>1 DEF ReadersOf, RunsAt
<1>13. HandedOn(a, q, n, w, rq, wq)
  BY <1>4, TaskNames DEF Lk, HandedOn
<1>14. Acc(x, x.running, W \ {a})
  BY <1>9 DEF RunsAt
<1>15. Lk(x, a, q, n, w, rq, wq, z, g)
  BY <1>8, <1>9, <1>10, <1>11, <1>12, <1>13, <1>14 DEF Lk
<1>16. RunsAt(x, t, "run")
  BY <1>9 DEF RunsAt, On
<1> QED
  BY <1>15, <1>16 DEF x, a, q

(* _rlock, when a writer is in or waits. *)
LEMMA WaitsToRead ==
  ASSUME NEW s, NEW o, NEW qw, NEW n, NEW w, NEW rq, NEW wq, NEW z, NEW h,
         Lk(s, o, qw, n, w, rq, wq, z, h), NEW t \in Tasks, RunsAt(s, t, "run"),
         h[t] = "none",
         w # Nobody \/ wq # <<>>
  PROVE  Good(taskswitch(s, t, "rlock"), o, qw, n, w, Append(rq, t), wq, z, h)
<1> DEFINE x == taskswitch(s, t, "rlock")
           q == Append(rq, t)
           W == WaitersOf(qw, rq, wq, z)
<1>0. /\ "rlock" \in Pcs /\ ~InQueue(t, qw) /\ ~InQueue(t, rq) /\ ~InQueue(t, wq)
      /\ ~InQueue(t, z)
  BY RunsOnly DEF Pcs
<1>1. /\ q \in Seq(Tasks) /\ Distinct(q, Tasks) /\ q # <<>>
      /\ \A u : InQueue(u, q) <=> InQueue(u, rq) \/ u = t
  <2>1. rq \in Seq(Tasks) /\ Distinct(rq, Tasks)
    BY DEF Lk, LockTypes, Locked4
  <2>2. /\ q \in Seq(Tasks) /\ Distinct(q, Tasks)
        /\ \A u : InQueue(u, q) <=> InQueue(u, rq) \/ u = t
    BY <1>0, <2>1, AppendTo
  <2>3. q # <<>>
    BY <2>2, EmptyQueue
  <2> QED
    BY <2>2, <2>3
<1>2. WaitersOf(qw, q, wq, z) = W \cup {t}
  BY <1>1 DEF WaitersOf
<1>3. /\ x.thread # "aborted"
      /\ On(x) => /\ Acc(x, x.running, W \cup {t}) /\ x.st = s.st /\ x.pc[t] = "rlock"
                  /\ \A u \in Tasks \ {t} : x.pc[u] = s.pc[u]
  <2>1. Acc(s, t, W) /\ On(s)
    BY RunsOnly
  <2>2. SwitchedTo(s, t, W, "rlock", x)
    BY <1>0, <2>1, Switches
  <2> QED
    BY <2>2 DEF SwitchedTo
<1> HIDE DEF x, q, W
<1> SUFFICES ASSUME On(x)
             PROVE  Lk(x, o, qw, n, w, q, wq, z, h)
  BY <1>3 DEF Good, x, q
<1>4. LockTypes(o, qw, w, q, wq, z, h) /\ Locked4(qw, q, wq, z)
  BY <1>1 DEF Lk, LockTypes, Locked4
<1>5. ASSUME NEW u \in Tasks
      PROVE  /\ Agrees(x.pc, o, qw, w, q, wq, z, h, u)
             /\ x.st[u] = "live" => x.pc[u] \in {"run", "qlock", "rlock", "wlock", "slept"}
  <2>1. /\ Agrees(s.pc, o, qw, w, rq, wq, z, h, u)
        /\ s.st[u] = "live" => s.pc[u] \in {"run", "qlock", "rlock", "wlock", "slept"}
    BY DEF Lk
  <2>2. CASE u = t
    BY <1>0, <1>1, <1>3, <2>1, <2>2, TaskNames DEF Agrees, RunsAt
  <2>3. CASE u # t
    BY <1>1, <1>3, <2>1, <2>3, TaskNames DEF Agrees
  <2> QED
    BY <2>2, <2>3
<1>6. ReadersOf(x.pc, q, h) = ReadersOf(s.pc, rq, h)
  BY <1>1, <1>3 DEF ReadersOf, RunsAt
<1>7. HandedOn(o, qw, n, w, q, wq)
  BY <1>1 DEF Lk, HandedOn
<1> QED
  BY <1>2, <1>3, <1>4, <1>5, <1>6, <1>7 DEF Lk, W

(* _wlock, when a reader or a writer is in. *)
LEMMA WaitsToWrite ==
  ASSUME NEW s, NEW o, NEW qw, NEW n, NEW w, NEW rq, NEW wq, NEW z, NEW h,
         Lk(s, o, qw, n, w, rq, wq, z, h), NEW t \in Tasks, RunsAt(s, t, "run"),
         h[t] = "none",
         w # Nobody \/ n # 0
  PROVE  Good(taskswitch(s, t, "wlock"), o, qw, n, w, rq, Append(wq, t), z, h)
<1> DEFINE x == taskswitch(s, t, "wlock")
           q == Append(wq, t)
           W == WaitersOf(qw, rq, wq, z)
<1>0. /\ "wlock" \in Pcs /\ ~InQueue(t, qw) /\ ~InQueue(t, rq) /\ ~InQueue(t, wq)
      /\ ~InQueue(t, z)
  BY RunsOnly DEF Pcs
<1>1. /\ q \in Seq(Tasks) /\ Distinct(q, Tasks) /\ q # <<>>
      /\ \A u : InQueue(u, q) <=> InQueue(u, wq) \/ u = t
  <2>1. wq \in Seq(Tasks) /\ Distinct(wq, Tasks)
    BY DEF Lk, LockTypes, Locked4
  <2>2. /\ q \in Seq(Tasks) /\ Distinct(q, Tasks)
        /\ \A u : InQueue(u, q) <=> InQueue(u, wq) \/ u = t
    BY <1>0, <2>1, AppendTo
  <2>3. q # <<>>
    BY <2>2, EmptyQueue
  <2> QED
    BY <2>2, <2>3
<1>2. WaitersOf(qw, rq, q, z) = W \cup {t}
  BY <1>1 DEF WaitersOf
<1>3. /\ x.thread # "aborted"
      /\ On(x) => /\ Acc(x, x.running, W \cup {t}) /\ x.st = s.st /\ x.pc[t] = "wlock"
                  /\ \A u \in Tasks \ {t} : x.pc[u] = s.pc[u]
  <2>1. Acc(s, t, W) /\ On(s)
    BY RunsOnly
  <2>2. SwitchedTo(s, t, W, "wlock", x)
    BY <1>0, <2>1, Switches
  <2> QED
    BY <2>2 DEF SwitchedTo
<1> HIDE DEF x, q, W
<1> SUFFICES ASSUME On(x)
             PROVE  Lk(x, o, qw, n, w, rq, q, z, h)
  BY <1>3 DEF Good, x, q
<1>4. LockTypes(o, qw, w, rq, q, z, h) /\ Locked4(qw, rq, q, z)
  BY <1>1 DEF Lk, LockTypes, Locked4
<1>5. ASSUME NEW u \in Tasks
      PROVE  /\ Agrees(x.pc, o, qw, w, rq, q, z, h, u)
             /\ x.st[u] = "live" => x.pc[u] \in {"run", "qlock", "rlock", "wlock", "slept"}
  <2>1. /\ Agrees(s.pc, o, qw, w, rq, wq, z, h, u)
        /\ s.st[u] = "live" => s.pc[u] \in {"run", "qlock", "rlock", "wlock", "slept"}
    BY DEF Lk
  <2>2. CASE u = t
    BY <1>0, <1>1, <1>3, <2>1, <2>2, TaskNames DEF Agrees, RunsAt
  <2>3. CASE u # t
    BY <1>1, <1>3, <2>1, <2>3, TaskNames DEF Agrees
  <2> QED
    BY <2>2, <2>3
<1>6. ReadersOf(x.pc, rq, h) = ReadersOf(s.pc, rq, h)
  BY <1>1, <1>3 DEF ReadersOf, RunsAt
<1>7. HandedOn(o, qw, n, w, rq, q)
  BY <1>1 DEF Lk, HandedOn
<1> QED
  BY <1>2, <1>3, <1>4, <1>5, <1>6, <1>7 DEF Lk, W

(* A task sleeps on the rendez. *)
LEMMA GoesToSleep ==
  ASSUME NEW s, NEW o, NEW qw, NEW n, NEW w, NEW rq, NEW wq, NEW z, NEW h,
         Lk(s, o, qw, n, w, rq, wq, z, h), NEW t \in Tasks, RunsAt(s, t, "run"),
         h[t] = "none"
  PROVE  Good(taskswitch(s, t, "slept"), o, qw, n, w, rq, wq, Append(z, t), h)
<1> DEFINE x == taskswitch(s, t, "slept")
           q == Append(z, t)
           W == WaitersOf(qw, rq, wq, z)
<1>0. /\ "slept" \in Pcs /\ ~InQueue(t, qw) /\ ~InQueue(t, rq) /\ ~InQueue(t, wq)
      /\ ~InQueue(t, z)
  BY RunsOnly DEF Pcs
<1>1. /\ q \in Seq(Tasks) /\ Distinct(q, Tasks) /\ q # <<>>
      /\ \A u : InQueue(u, q) <=> InQueue(u, z) \/ u = t
  <2>1. z \in Seq(Tasks) /\ Distinct(z, Tasks)
    BY DEF Lk, LockTypes, Locked4
  <2>2. /\ q \in Seq(Tasks) /\ Distinct(q, Tasks)
        /\ \A u : InQueue(u, q) <=> InQueue(u, z) \/ u = t
    BY <1>0, <2>1, AppendTo
  <2>3. q # <<>>
    BY <2>2, EmptyQueue
  <2> QED
    BY <2>2, <2>3
<1>2. WaitersOf(qw, rq, wq, q) = W \cup {t}
  BY <1>1 DEF WaitersOf
<1>3. /\ x.thread # "aborted"
      /\ On(x) => /\ Acc(x, x.running, W \cup {t}) /\ x.st = s.st /\ x.pc[t] = "slept"
                  /\ \A u \in Tasks \ {t} : x.pc[u] = s.pc[u]
  <2>1. Acc(s, t, W) /\ On(s)
    BY RunsOnly
  <2>2. SwitchedTo(s, t, W, "slept", x)
    BY <1>0, <2>1, Switches
  <2> QED
    BY <2>2 DEF SwitchedTo
<1> HIDE DEF x, q, W
<1> SUFFICES ASSUME On(x)
             PROVE  Lk(x, o, qw, n, w, rq, wq, q, h)
  BY <1>3 DEF Good, x, q
<1>4. LockTypes(o, qw, w, rq, wq, q, h) /\ Locked4(qw, rq, wq, q)
  BY <1>1 DEF Lk, LockTypes, Locked4
<1>5. ASSUME NEW u \in Tasks
      PROVE  /\ Agrees(x.pc, o, qw, w, rq, wq, q, h, u)
             /\ x.st[u] = "live" => x.pc[u] \in {"run", "qlock", "rlock", "wlock", "slept"}
  <2>1. /\ Agrees(s.pc, o, qw, w, rq, wq, z, h, u)
        /\ s.st[u] = "live" => s.pc[u] \in {"run", "qlock", "rlock", "wlock", "slept"}
    BY DEF Lk
  <2>2. CASE u = t
    BY <1>0, <1>1, <1>3, <2>1, <2>2, TaskNames DEF Agrees, RunsAt
  <2>3. CASE u # t
    BY <1>1, <1>3, <2>1, <2>3, TaskNames DEF Agrees
  <2> QED
    BY <2>2, <2>3
<1>6. ReadersOf(x.pc, rq, h) = ReadersOf(s.pc, rq, h)
  BY <1>1, <1>3 DEF ReadersOf, RunsAt
<1>7. HandedOn(o, qw, n, w, rq, wq)
  BY <1>1 DEF Lk, HandedOn
<1> QED
  BY <1>2, <1>3, <1>4, <1>5, <1>6, <1>7 DEF Lk, W

(* _rlock, when it is free to read, ... *)
LEMMA TakesRead ==
  ASSUME NEW s, NEW o, NEW qw, NEW n, NEW w, NEW rq, NEW wq, NEW z, NEW h,
         Lk(s, o, qw, n, w, rq, wq, z, h), NEW t \in Tasks, RunsAt(s, t, "run"),
         h[t] = "none", w = Nobody, wq = <<>>, NEW g, g = [h EXCEPT ![t] = "r"]
  PROVE  Good(s, o, qw, n + 1, w, rq, wq, z, g)
<1>1. /\ g[t] = "r" /\ (\A u \in Tasks \ {t} : g[u] = h[u])
      /\ g \in [Tasks -> {"none", "q", "r", "w"}]
  BY DEF Lk, LockTypes
<1>2. Agrees(s.pc, o, qw, w, rq, wq, z, h, t)
  BY DEF Lk
<1>3. LockTypes(o, qw, w, rq, wq, z, g)
  BY <1>1 DEF Lk, LockTypes
<1>4. ASSUME NEW u \in Tasks
      PROVE  Agrees(s.pc, o, qw, w, rq, wq, z, g, u)
  <2>1. Agrees(s.pc, o, qw, w, rq, wq, z, h, u)
    BY DEF Lk
  <2>2. CASE u = t
    BY <1>1, <1>2, <2>2, RunsOnly, TaskNames DEF Agrees, RunsAt
  <2>3. CASE u # t
    BY <1>1, <1>2, <2>1, <2>3, TaskNames DEF Agrees
  <2> QED
    BY <2>2, <2>3
<1>5. n + 1 = Cardinality(ReadersOf(s.pc, rq, g)) /\ n \in Nat
  <2> DEFINE R == ReadersOf(s.pc, rq, h)
             S == ReadersOf(s.pc, rq, g)
  <2>1. R \in SUBSET Tasks /\ S \in SUBSET Tasks
    BY DEF ReadersOf
  <2>2. t \in S /\ t \notin R /\ \A u \in Tasks : u # t => (u \in R <=> u \in S)
    BY <1>1 DEF ReadersOf, RunsAt
  <2>3. n = Cardinality(R)
    BY DEF Lk
  <2> HIDE DEF R, S
  <2>4. Moved(t, R, S)
    BY <2>1, <2>2, TaskNames, CountMove
  <2>5. n + 1 = Cardinality(S) /\ n \in Nat
    BY <2>2, <2>3, <2>4 DEF Moved
  <2> QED
    BY <2>5 DEF S
<1>6. HandedOn(o, qw, n + 1, w, rq, wq)
  BY DEF Lk, HandedOn
<1> QED
  BY <1>3, <1>4, <1>5, <1>6 DEF Lk, Good, RunsAt, On

(* ... and _wlock, when it is free to write. *)
LEMMA TakesWrite ==
  ASSUME NEW s, NEW o, NEW qw, NEW n, NEW w, NEW rq, NEW wq, NEW z, NEW h,
         Lk(s, o, qw, n, w, rq, wq, z, h), NEW t \in Tasks, RunsAt(s, t, "run"),
         h[t] = "none", w = Nobody, n = 0, NEW g, g = [h EXCEPT ![t] = "w"]
  PROVE  Good(s, o, qw, n, t, rq, wq, z, g)
<1>1. /\ g[t] = "w" /\ (\A u \in Tasks \ {t} : g[u] = h[u])
      /\ g \in [Tasks -> {"none", "q", "r", "w"}]
  BY DEF Lk, LockTypes
<1>2. Agrees(s.pc, o, qw, w, rq, wq, z, h, t)
  BY DEF Lk
<1>3. LockTypes(o, qw, t, rq, wq, z, g)
  BY <1>1 DEF Lk, LockTypes
<1>4. ASSUME NEW u \in Tasks
      PROVE  Agrees(s.pc, o, qw, t, rq, wq, z, g, u)
  <2>1. Agrees(s.pc, o, qw, w, rq, wq, z, h, u)
    BY DEF Lk
  <2>2. CASE u = t
    BY <1>1, <1>2, <2>2, RunsOnly, TaskNames DEF Agrees, RunsAt
  <2>3. CASE u # t
    BY <1>1, <1>2, <2>1, <2>3, TaskNames DEF Agrees
  <2> QED
    BY <2>2, <2>3
<1>5. ReadersOf(s.pc, rq, g) = ReadersOf(s.pc, rq, h)
  BY <1>1 DEF ReadersOf, RunsAt
<1>6. HandedOn(o, qw, n, t, rq, wq)
  BY TaskNames DEF Lk, HandedOn
<1> QED
  BY <1>3, <1>4, <1>5, <1>6 DEF Lk, Good, RunsAt, On

(* Back in _rlock or _wlock. *)
LEMMA GetsRW ==
  ASSUME NEW s, NEW o, NEW qw, NEW n, NEW w, NEW rq, NEW wq, NEW z, NEW h,
         Lk(s, o, qw, n, w, rq, wq, z, h), NEW t \in Tasks, NEW l \in {"rlock", "wlock"},
         RunsAt(s, t, l), NEW g, g = [h EXCEPT ![t] = IF l = "rlock" THEN "r" ELSE "w"]
  PROVE  Good(Goto(s, t, "run"), o, qw, n, w, rq, wq, z, g)
<1> DEFINE x == Goto(s, t, "run")
           W == WaitersOf(qw, rq, wq, z)
<1>0. "run" \in Pcs /\ s.st[t] = "live" /\ Acc(s, t, W)
  BY RunsOnly DEF Pcs
<1>1. /\ g[t] = (IF l = "rlock" THEN "r" ELSE "w") /\ (\A u \in Tasks \ {t} : g[u] = h[u])
      /\ g \in [Tasks -> {"none", "q", "r", "w"}]
  BY DEF Lk, LockTypes
<1>2. Agrees(s.pc, o, qw, w, rq, wq, z, h, t)
  BY DEF Lk
<1>4. /\ Acc(x, t, W) /\ x.st = s.st /\ x.pc[t] = "run" /\ x.thread = s.thread
      /\ x.running = s.running /\ \A u \in Tasks \ {t} : x.pc[u] = s.pc[u]
  BY <1>0, GoneOn
<1> HIDE DEF x, W
<1>5. LockTypes(o, qw, w, rq, wq, z, g)
  BY <1>1 DEF Lk, LockTypes
<1>6. ASSUME NEW u \in Tasks
      PROVE  /\ Agrees(x.pc, o, qw, w, rq, wq, z, g, u)
             /\ x.st[u] = "live" => x.pc[u] \in {"run", "qlock", "rlock", "wlock", "slept"}
  <2>1. /\ Agrees(s.pc, o, qw, w, rq, wq, z, h, u)
        /\ s.st[u] = "live" => s.pc[u] \in {"run", "qlock", "rlock", "wlock", "slept"}
    BY DEF Lk
  <2>2. CASE u = t
    BY <1>1, <1>2, <1>4, <2>2, RunsOnly, TaskNames DEF Agrees, RunsAt
  <2>3. CASE u # t
    BY <1>1, <1>4, <2>1, <2>3, TaskNames DEF Agrees
  <2> QED
    BY <2>2, <2>3
<1>7. ReadersOf(x.pc, rq, g) = ReadersOf(s.pc, rq, h)
  <2>1. ~InQueue(t, rq)
    BY RunsOnly
  <2>2. h[t] = "none"
    BY <1>2 DEF Agrees, RunsAt
  <2> QED
    BY <1>1, <1>4, <2>1, <2>2 DEF ReadersOf, RunsAt
<1>8. Acc(x, x.running, W)
  BY <1>4 DEF RunsAt
<1>9. Lk(x, o, qw, n, w, rq, wq, z, g)
  BY <1>5, <1>6, <1>7, <1>8 DEF Lk, W
<1> QED
  BY <1>4, <1>9 DEF Good, x, RunsAt, On

(* One reader less. *)
OneLess(n, S) == n - 1 = Cardinality(S) /\ n \in Nat /\ n >= 1

(* The count and the readers go together. *)
LEMMA ReaderLeaves ==
  ASSUME NEW s, NEW o, NEW qw, NEW n, NEW w, NEW rq, NEW wq, NEW z, NEW h,
         Lk(s, o, qw, n, w, rq, wq, z, h), NEW t \in Tasks, RunsAt(s, t, "run"),
         h[t] = "r", NEW g, g = [h EXCEPT ![t] = "none"]
  PROVE  OneLess(n, ReadersOf(s.pc, rq, g))
<1> DEFINE R == ReadersOf(s.pc, rq, h)
           S == ReadersOf(s.pc, rq, g)
<1>1. g[t] = "none" /\ (\A u \in Tasks \ {t} : g[u] = h[u])
  BY DEF Lk, LockTypes
<1>2. R \in SUBSET Tasks /\ S \in SUBSET Tasks
  BY DEF ReadersOf
<1>3. t \notin S /\ t \in R /\ \A u \in Tasks : u # t => (u \in R <=> u \in S)
  BY <1>1 DEF ReadersOf, RunsAt
<1>4. n = Cardinality(R)
  BY DEF Lk
<1> HIDE DEF R, S
<1>5. Moved(t, R, S)
  BY <1>2, <1>3, TaskNames, CountMove
<1>6. n - 1 = Cardinality(S) /\ n \in Nat /\ n >= 1
  BY <1>3, <1>4, <1>5 DEF Moved
<1> QED
  BY <1>6 DEF S, OneLess

(* runlock that hands nothing on, ... *)
LEMMA FreesRead ==
  ASSUME NEW s, NEW o, NEW qw, NEW n, NEW w, NEW rq, NEW wq, NEW z, NEW h,
         Lk(s, o, qw, n, w, rq, wq, z, h), NEW t \in Tasks, RunsAt(s, t, "run"),
         h[t] = "r", NEW g, g = [h EXCEPT ![t] = "none"], n - 1 # 0 \/ wq = <<>>
  PROVE  Good(s, o, qw, n - 1, w, rq, wq, z, g)
<1>1. /\ g[t] = "none" /\ (\A u \in Tasks \ {t} : g[u] = h[u])
      /\ g \in [Tasks -> {"none", "q", "r", "w"}]
  BY DEF Lk, LockTypes
<1>2. Agrees(s.pc, o, qw, w, rq, wq, z, h, t)
  BY DEF Lk
<1>3. LockTypes(o, qw, w, rq, wq, z, g)
  BY <1>1 DEF Lk, LockTypes
<1>4. ASSUME NEW u \in Tasks
      PROVE  Agrees(s.pc, o, qw, w, rq, wq, z, g, u)
  <2>1. Agrees(s.pc, o, qw, w, rq, wq, z, h, u)
    BY DEF Lk
  <2>2. CASE u = t
    BY <1>1, <1>2, <2>2, RunsOnly, TaskNames DEF Agrees, RunsAt
  <2>3. CASE u # t
    BY <1>1, <1>2, <2>1, <2>3, TaskNames DEF Agrees
  <2> QED
    BY <2>2, <2>3
<1>5. n - 1 = Cardinality(ReadersOf(s.pc, rq, g)) /\ n \in Nat /\ n >= 1
  <2>1. OneLess(n, ReadersOf(s.pc, rq, g))
    BY ReaderLeaves
  <2> QED
    BY <2>1 DEF OneLess
<1>6. HandedOn(o, qw, n - 1, w, rq, wq)
  BY <1>5 DEF Lk, HandedOn
<1> QED
  BY <1>3, <1>4, <1>5, <1>6 DEF Lk, Good, RunsAt, On

(* ... wunlock that hands nothing on, ... *)
LEMMA FreesWrite ==
  ASSUME NEW s, NEW o, NEW qw, NEW n, NEW w, NEW z, NEW h,
         Lk(s, o, qw, n, w, <<>>, <<>>, z, h), NEW t \in Tasks, RunsAt(s, t, "run"),
         h[t] = "w", NEW g, g = [h EXCEPT ![t] = "none"]
  PROVE  Good(s, o, qw, n, Nobody, <<>>, <<>>, z, g)
<1>1. /\ g[t] = "none" /\ (\A u \in Tasks \ {t} : g[u] = h[u])
      /\ g \in [Tasks -> {"none", "q", "r", "w"}]
  BY DEF Lk, LockTypes
<1>2. Agrees(s.pc, o, qw, w, <<>>, <<>>, z, h, t)
  BY DEF Lk
<1>3. LockTypes(o, qw, Nobody, <<>>, <<>>, z, g)
  BY <1>1 DEF Lk, LockTypes
<1>4. ASSUME NEW u \in Tasks
      PROVE  Agrees(s.pc, o, qw, Nobody, <<>>, <<>>, z, g, u)
  <2>1. Agrees(s.pc, o, qw, w, <<>>, <<>>, z, h, u)
    BY DEF Lk
  <2>2. CASE u = t
    BY <1>1, <1>2, <2>2, RunsOnly, TaskNames DEF Agrees, RunsAt
  <2>3. CASE u # t
    BY <1>1, <1>2, <2>1, <2>3, TaskNames DEF Agrees
  <2> QED
    BY <2>2, <2>3
<1>5. ReadersOf(s.pc, <<>>, g) = ReadersOf(s.pc, <<>>, h)
  BY <1>1 DEF ReadersOf, RunsAt
<1>6. HandedOn(o, qw, n, Nobody, <<>>, <<>>)
  BY DEF Lk, HandedOn
<1> QED
  BY <1>3, <1>4, <1>5, <1>6 DEF Lk, Good, RunsAt, On

(* ... and either of them, when a writer is next. *)
LastIn(n, l) == (l = "r" /\ n = 1) \/ (l = "w" /\ n = 0)

(* The writer that waits longest has the lock then. *)
LEMMA HandsWrite ==
  ASSUME NEW s, NEW o, NEW qw, NEW n, NEW w, NEW rq, NEW wq, NEW z, NEW h,
         Lk(s, o, qw, n, w, rq, wq, z, h), NEW t \in Tasks, RunsAt(s, t, "run"),
         LastIn(n, h[t]),
         NEW g, g = [h EXCEPT ![t] = "none"], wq # <<>>
  PROVE  Good(ReadyHead(s, wq), o, qw, 0, Head(wq), rq, Tail(wq), z, g)
<1> DEFINE x == ReadyHead(s, wq)
           a == Head(wq)
           q == Tail(wq)
           W == WaitersOf(qw, rq, wq, z)
<1>1. /\ g[t] = "none" /\ (\A u \in Tasks \ {t} : g[u] = h[u])
      /\ g \in [Tasks -> {"none", "q", "r", "w"}]
  BY DEF Lk, LockTypes
<1>2. Agrees(s.pc, o, qw, w, rq, wq, z, h, t) /\ ~InQueue(t, wq) /\ Acc(s, t, W)
  BY RunsOnly DEF Lk
<1>3. wq \in Seq(Tasks) /\ Distinct(wq, Tasks)
  BY DEF Lk, LockTypes, Locked4
<1>4. /\ a \in Tasks /\ q \in Seq(Tasks) /\ Distinct(q, Tasks) /\ ~InQueue(a, q)
      /\ \A u : InQueue(u, wq) <=> u = a \/ InQueue(u, q)
  BY <1>3, TailOf
<1>5. Agrees(s.pc, o, qw, w, rq, wq, z, h, a)
  BY <1>4 DEF Lk
<1>6. /\ s.pc[a] = "wlock" /\ h[a] = "none" /\ a # t
      /\ ~InQueue(a, rq) /\ ~InQueue(a, qw) /\ ~InQueue(a, z)
  BY <1>2, <1>4, <1>5 DEF Agrees
<1>7. a \in W
  BY <1>4 DEF WaitersOf
<1>8. WaitersOf(qw, rq, q, z) = W \ {a}
  BY <1>4, <1>6 DEF WaitersOf
<1>9. /\ Acc(x, t, W \ {a}) /\ x.st = s.st /\ x.pc = s.pc /\ x.thread = s.thread
      /\ x.running = s.running
  <2> HIDE DEF W
  <2> QED
    BY <1>2, <1>3, <1>7, HeadWoken
<1> HIDE DEF x, a, q, W
<1>10. LockTypes(o, qw, a, rq, q, z, g) /\ Locked4(qw, rq, q, z)
  BY <1>1, <1>4 DEF Lk, LockTypes, Locked4
<1>16. w = t \/ w = Nobody
  BY <1>2 DEF Agrees, Lk, HandedOn, LastIn
<1>11. ASSUME NEW u \in Tasks
       PROVE  Agrees(s.pc, o, qw, a, rq, q, z, g, u)
  <2>1. Agrees(s.pc, o, qw, w, rq, wq, z, h, u)
    BY DEF Lk
  <2>2. CASE u = t
    BY <1>1, <1>2, <1>4, <1>6, <2>2, RunsOnly, TaskNames DEF Agrees, RunsAt, LastIn
  <2>3. CASE u = a
    BY <1>1, <1>4, <1>5, <1>6, <2>3, TaskNames DEF Agrees
  <2>4. CASE u # t /\ u # a
    BY <1>1, <1>2, <1>4, <1>16, <2>1, <2>4, TaskNames DEF Agrees
  <2> QED
    BY <2>2, <2>3, <2>4
<1>12. 0 = Cardinality(ReadersOf(s.pc, rq, g))
  <2>1. CASE h[t] = "r" /\ n = 1
    <3>1. OneLess(n, ReadersOf(s.pc, rq, g))
      BY <2>1, ReaderLeaves
    <3> QED
      BY <2>1, <3>1 DEF OneLess
  <2>2. CASE h[t] = "w" /\ n = 0
    <3>1. ReadersOf(s.pc, rq, g) = ReadersOf(s.pc, rq, h)
      BY <1>1, <2>2 DEF ReadersOf, RunsAt
    <3> QED
      BY <2>2, <3>1 DEF Lk
  <2> QED
    BY <2>1, <2>2 DEF LastIn
<1>13. HandedOn(o, qw, 0, a, rq, q)
  BY <1>4, TaskNames DEF Lk, HandedOn
<1>14. Acc(x, x.running, W \ {a})
  BY <1>9 DEF RunsAt
<1>15. Lk(x, o, qw, 0, a, rq, q, z, g)
  BY <1>8, <1>9, <1>10, <1>11, <1>12, <1>13, <1>14 DEF Lk
<1> QED
  BY <1>9, <1>15 DEF x, a, q, Good, RunsAt, On

(* wunlock lets all readers in. *)
LEMMA LetsReadersIn ==
  ASSUME NEW s, NEW o, NEW qw, NEW n, NEW w, NEW rq, NEW wq, NEW z, NEW h,
         Lk(s, o, qw, n, w, rq, wq, z, h), NEW t \in Tasks, RunsAt(s, t, "run"),
         h[t] = "w", n = 0, NEW g, g = [h EXCEPT ![t] = "none"], rq # <<>>
  PROVE  /\ Good(ReadyAll(s, rq), o, qw, Len(rq), Nobody, <<>>, wq, z, g)
         /\ Len(rq) # 0
<1> DEFINE x == ReadyAll(s, rq)
           W == WaitersOf(qw, rq, wq, z)
           V == {u \in Tasks : InQueue(u, rq)}
<1>1. /\ g[t] = "none" /\ (\A u \in Tasks \ {t} : g[u] = h[u])
      /\ g \in [Tasks -> {"none", "q", "r", "w"}]
  BY DEF Lk, LockTypes
<1>2. Agrees(s.pc, o, qw, w, rq, wq, z, h, t) /\ ~InQueue(t, rq) /\ Acc(s, t, W)
  BY RunsOnly DEF Lk
<1>3. rq \in Seq(Tasks) /\ Distinct(rq, Tasks)
  BY DEF Lk, LockTypes, Locked4
<1>4. V \in SUBSET W /\ \A u \in Tasks : InQueue(u, rq) <=> u \in V
  BY DEF WaitersOf
<1>5. ASSUME NEW u \in V
      PROVE  ~InQueue(u, qw) /\ ~InQueue(u, wq) /\ ~InQueue(u, z) /\ s.pc[u] = "rlock"
  <2>1. Agrees(s.pc, o, qw, w, rq, wq, z, h, u)
    BY DEF Lk
  <2> QED
    BY <2>1 DEF Agrees
<1>6. WaitersOf(qw, <<>>, wq, z) = W \ V
  <2> SUFFICES ASSUME NEW u \in Tasks
               PROVE  u \in WaitersOf(qw, <<>>, wq, z) <=> u \in W \ V
    BY DEF WaitersOf
  <2> QED
    BY <1>4, <1>5, EmptyQueue DEF WaitersOf
<1>7. /\ Acc(x, t, W \ V) /\ x.st = s.st /\ x.pc = s.pc /\ x.thread = s.thread
      /\ x.running = s.running
  <2>1. V \in SUBSET W /\ \A u \in Tasks : InQueue(u, rq) <=> u \in V
    BY <1>4
  <2> HIDE DEF W, V
  <2>2. WokenTo(s, t, W \ V, x)
    BY <1>2, <1>3, <2>1, AllWoken
  <2> QED
    BY <2>2 DEF WokenTo
<1>8. Len(rq) = Cardinality(V)
  <2>1. \A i \in 1..Len(rq) : rq[i] \in V
    <3> TAKE i \in 1..Len(rq)
    <3>1. rq[i] \in Tasks
      BY <1>3
    <3> QED
      BY <3>1 DEF InQueue
  <2>2. \A u \in V : \E i \in 1..Len(rq) : rq[i] = u
    BY DEF InQueue
  <2>3. \A i, j \in 1..Len(rq) : rq[i] = rq[j] => i = j
    <3> TAKE i, j \in 1..Len(rq)
    <3>1. rq[i] \in Tasks
      BY <1>3
    <3> QED
      BY <1>3, <3>1 DEF Distinct
  <2>4. V \in SUBSET Tasks
    OBVIOUS
  <2> HIDE DEF V
  <2>5. IsFiniteSet(Tasks)
    BY TaskNames
  <2> QED
    BY <1>3, <2>1, <2>2, <2>3, <2>4, <2>5, QueueLength
<1>9. ReadersOf(s.pc, <<>>, g) = V
  <2>1. ReadersOf(s.pc, rq, h) = {}
    <3>1. ReadersOf(s.pc, rq, h) \in SUBSET Tasks
      BY DEF ReadersOf
    <3>2. 0 = Cardinality(ReadersOf(s.pc, rq, h))
      BY DEF Lk
    <3> QED
      BY <3>1, <3>2, TaskNames, CountZero
  <2> SUFFICES ASSUME NEW u \in Tasks
               PROVE  u \in ReadersOf(s.pc, <<>>, g) <=> u \in V
    BY DEF ReadersOf
  <2>2. CASE u = t
    BY <1>1, <1>2, <2>2, EmptyQueue DEF ReadersOf, RunsAt
  <2>3. CASE u # t
    BY <1>1, <1>5, <2>1, <2>3, EmptyQueue DEF ReadersOf
  <2> QED
    BY <2>2, <2>3
<1> HIDE DEF x, W, V
<1>10. LockTypes(o, qw, Nobody, <<>>, wq, z, g) /\ Locked4(qw, <<>>, wq, z)
  BY <1>1, EmptyQueue DEF Lk, LockTypes, Locked4
<1>11. ASSUME NEW u \in Tasks
       PROVE  Agrees(s.pc, o, qw, Nobody, <<>>, wq, z, g, u)
  <2>1. Agrees(s.pc, o, qw, w, rq, wq, z, h, u)
    BY DEF Lk
  <2>2. CASE u = t
    BY <1>1, <1>2, <2>2, EmptyQueue, RunsOnly, TaskNames DEF Agrees, RunsAt
  <2>3. CASE u # t
    BY <1>1, <1>2, <2>1, <2>3, EmptyQueue, TaskNames DEF Agrees
  <2> QED
    BY <2>2, <2>3
<1>12. Len(rq) # 0
  BY <1>3
<1>13. HandedOn(o, qw, Len(rq), Nobody, <<>>, wq)
  BY <1>12 DEF Lk, HandedOn
<1>14. Acc(x, x.running, W \ V)
  BY <1>7 DEF RunsAt
<1>15. Lk(x, o, qw, Len(rq), Nobody, <<>>, wq, z, g)
  BY <1>6, <1>7, <1>8, <1>9, <1>10, <1>11, <1>13, <1>14 DEF Lk
<1> QED
  BY <1>7, <1>12, <1>15 DEF x, Good, RunsAt, On

(* A task that slept goes on. *)
LEMMA ComesBack ==
  ASSUME NEW s, NEW o, NEW qw, NEW n, NEW w, NEW rq, NEW wq, NEW z, NEW h,
         Lk(s, o, qw, n, w, rq, wq, z, h), NEW t \in Tasks, RunsAt(s, t, "slept")
  PROVE  /\ Lk(Goto(s, t, "run"), o, qw, n, w, rq, wq, z, h)
         /\ RunsAt(Goto(s, t, "run"), t, "run") /\ h[t] = "none"
<1> DEFINE x == Goto(s, t, "run")
           W == WaitersOf(qw, rq, wq, z)
<1>0. "run" \in Pcs /\ s.st[t] = "live" /\ Acc(s, t, W)
  BY RunsOnly DEF Pcs
<1>2. Agrees(s.pc, o, qw, w, rq, wq, z, h, t)
  BY DEF Lk
<1>3. h[t] = "none"
  BY <1>2 DEF Agrees, RunsAt
<1>4. /\ Acc(x, t, W) /\ x.st = s.st /\ x.pc[t] = "run" /\ x.thread = s.thread
      /\ x.running = s.running /\ \A u \in Tasks \ {t} : x.pc[u] = s.pc[u]
  BY <1>0, GoneOn
<1> HIDE DEF x, W
<1>6. ASSUME NEW u \in Tasks
      PROVE  /\ Agrees(x.pc, o, qw, w, rq, wq, z, h, u)
             /\ x.st[u] = "live" => x.pc[u] \in {"run", "qlock", "rlock", "wlock", "slept"}
  <2>1. /\ Agrees(s.pc, o, qw, w, rq, wq, z, h, u)
        /\ s.st[u] = "live" => s.pc[u] \in {"run", "qlock", "rlock", "wlock", "slept"}
    BY DEF Lk
  <2>2. CASE u = t
    BY <1>2, <1>3, <1>4, <2>2, RunsOnly, TaskNames DEF Agrees, RunsAt
  <2>3. CASE u # t
    BY <1>4, <2>1, <2>3, TaskNames DEF Agrees
  <2> QED
    BY <2>2, <2>3
<1>7. ReadersOf(x.pc, rq, h) = ReadersOf(s.pc, rq, h)
  BY <1>4 DEF ReadersOf, RunsAt
<1>8. Acc(x, x.running, W)
  BY <1>4 DEF RunsAt
<1>9. Lk(x, o, qw, n, w, rq, wq, z, h)
  BY <1>6, <1>7, <1>8 DEF Lk, W
<1>10. RunsAt(x, t, "run")
  BY <1>4 DEF RunsAt, On
<1> QED
  BY <1>3, <1>9, <1>10 DEF x

(* taskwakeup and taskwakeupall: those woken leave the rendez at once. *)
LEMMA Wakes ==
  ASSUME NEW s, NEW o, NEW qw, NEW n, NEW w, NEW rq, NEW wq, NEW z, NEW h,
         Lk(s, o, qw, n, w, rq, wq, z, h), On(s), NEW y \in Seq(Tasks), Distinct(y, Tasks),
         NEW V \in SUBSET Tasks,
         \A u \in Tasks : /\ InQueue(u, z) <=> InQueue(u, y) \/ u \in V
                          /\ ~(InQueue(u, y) /\ u \in V),
         NEW x, WokenTo(s, s.running, WaitersOf(qw, rq, wq, z) \ V, x)
  PROVE  Good(x, o, qw, n, w, rq, wq, y, h)
<1>1. /\ Acc(x, s.running, WaitersOf(qw, rq, wq, z) \ V) /\ x.st = s.st /\ x.pc = s.pc
      /\ x.thread = s.thread /\ x.running = s.running
  BY DEF WokenTo
<1>2. \A u \in Tasks : Agrees(s.pc, o, qw, w, rq, wq, z, h, u)
  BY DEF Lk
<1>3. \A u \in Tasks : Agrees(s.pc, o, qw, w, rq, wq, y, h, u)
  BY <1>2 DEF Agrees
<1>4. WaitersOf(qw, rq, wq, y) = WaitersOf(qw, rq, wq, z) \ V
  <2> SUFFICES ASSUME NEW u \in Tasks
               PROVE  u \in WaitersOf(qw, rq, wq, y) <=> u \in WaitersOf(qw, rq, wq, z) \ V
    BY DEF WaitersOf
  <2>1. Agrees(s.pc, o, qw, w, rq, wq, z, h, u)
    BY <1>2
  <2>2. u \in V => ~InQueue(u, qw) /\ ~InQueue(u, rq) /\ ~InQueue(u, wq)
    BY <2>1 DEF Agrees
  <2> QED
    BY <2>2 DEF WaitersOf
<1>5. LockTypes(o, qw, w, rq, wq, y, h) /\ Locked4(qw, rq, wq, y)
  BY DEF Lk, LockTypes, Locked4
<1>6. Lk(x, o, qw, n, w, rq, wq, y, h)
  BY <1>1, <1>3, <1>4, <1>5 DEF Lk
<1> QED
  BY <1>1, <1>6 DEF Good, On

(* The oldest sleeper, ... *)
LEMMA WakesOne ==
  ASSUME NEW s, NEW o, NEW qw, NEW n, NEW w, NEW rq, NEW wq, NEW z, NEW h,
         Lk(s, o, qw, n, w, rq, wq, z, h), On(s), z # <<>>
  PROVE  Good(ReadyHead(s, z), o, qw, n, w, rq, wq, Tail(z), h)
<1> DEFINE a == Head(z)
           y == Tail(z)
           W == WaitersOf(qw, rq, wq, z)
           x == ReadyHead(s, z)
           r == s.running
<1>1. z \in Seq(Tasks) /\ Distinct(z, Tasks) /\ Acc(s, r, W)
  BY DEF Lk, LockTypes, Locked4
<1>2. /\ a \in Tasks /\ y \in Seq(Tasks) /\ Distinct(y, Tasks) /\ ~InQueue(a, y)
      /\ \A u : InQueue(u, z) <=> u = a \/ InQueue(u, y)
  BY <1>1, TailOf
<1>3. a \in W
  BY <1>2 DEF WaitersOf
<1>4. WokenTo(s, r, W \ {a}, x)
  <2> HIDE DEF W, r
  <2> QED
    BY <1>1, <1>3, HeadWoken DEF WokenTo
<1> HIDE DEF a, x, y
<1>5. Good(x, o, qw, n, w, rq, wq, y, h)
  BY <1>2, <1>4, Wakes
<1> QED
  BY <1>5 DEF x, y

(* ... and all of them. *)
LEMMA WakesAll ==
  ASSUME NEW s, NEW o, NEW qw, NEW n, NEW w, NEW rq, NEW wq, NEW z, NEW h,
         Lk(s, o, qw, n, w, rq, wq, z, h), On(s)
  PROVE  Good(ReadyAll(s, z), o, qw, n, w, rq, wq, <<>>, h)
<1> DEFINE V == {u \in Tasks : InQueue(u, z)}
           W == WaitersOf(qw, rq, wq, z)
           x == ReadyAll(s, z)
           r == s.running
<1>1. z \in Seq(Tasks) /\ Distinct(z, Tasks) /\ Acc(s, r, W)
  BY DEF Lk, LockTypes, Locked4
<1>2. V \in SUBSET W /\ V \in SUBSET Tasks /\ \A u \in Tasks : InQueue(u, z) <=> u \in V
  BY DEF WaitersOf
<1>3. WokenTo(s, r, W \ V, x)
  <2> HIDE DEF W, r, V
  <2> QED
    BY <1>1, <1>2, AllWoken
<1>4. /\ <<>> \in Seq(Tasks) /\ Distinct(<<>>, Tasks)
      /\ \A u \in Tasks : /\ InQueue(u, z) <=> InQueue(u, <<>>) \/ u \in V
                          /\ ~(InQueue(u, <<>>) /\ u \in V)
  BY <1>2, EmptyQueue
<1> HIDE DEF V, x
<1>5. Good(x, o, qw, n, w, rq, wq, <<>>, h)
  BY <1>2, <1>3, <1>4, Wakes
<1> QED
  BY <1>5 DEF x

(* A task creates another, ... *)
LEMMA Creates ==
  ASSUME NEW s, NEW o, NEW qw, NEW n, NEW w, NEW rq, NEW wq, NEW z, NEW h,
         Lk(s, o, qw, n, w, rq, wq, z, h), NEW small \in BOOLEAN,
         Cardinality(Live(s)) < MaxTask, On(s)
  PROVE  Good(taskcreate(s, "run", small), o, qw, n, w, rq, wq, z, h)
<1> DEFINE x == taskcreate(s, "run", small)
           W == WaitersOf(qw, rq, wq, z)
           r == s.running
<1>1. "run" \in Pcs /\ Acc(s, r, W)
  BY DEF Lk, Pcs
<1>2. /\ x.thread = "aborted" => x.why = "cache"
      /\ On(x) => /\ Acc(x, r, W) /\ x.running = r
                  /\ \E t \in Tasks :
                       /\ s.st[t] # "live" /\ x.st[t] = "live" /\ x.pc[t] = "run"
                       /\ \A u \in Tasks \ {t} : x.st[u] = s.st[u] /\ x.pc[u] = s.pc[u]
  <2> HIDE DEF W, r
  <2> QED
    <3>1. CreatedIn(s, r, W, "run", x)
      BY <1>1, Created
    <3> HIDE DEF x
    <3> QED
      BY <3>1 DEF CreatedIn, r
<1> HIDE DEF x
<1> SUFFICES ASSUME On(x)
             PROVE  Lk(x, o, qw, n, w, rq, wq, z, h)
  BY <1>2 DEF Good, x
<1>3. PICK t \in Tasks :
        /\ s.st[t] # "live" /\ x.st[t] = "live" /\ x.pc[t] = "run"
        /\ \A u \in Tasks \ {t} : x.st[u] = s.st[u] /\ x.pc[u] = s.pc[u]
  BY <1>2
<1>4. s.pc[t] = ""
  BY <1>3 DEF Lk, Acc, Placed
<1>5. ASSUME NEW u \in Tasks
      PROVE  /\ Agrees(x.pc, o, qw, w, rq, wq, z, h, u)
             /\ x.st[u] = "live" => x.pc[u] \in {"run", "qlock", "rlock", "wlock", "slept"}
  <2>1. /\ Agrees(s.pc, o, qw, w, rq, wq, z, h, u)
        /\ s.st[u] = "live" => s.pc[u] \in {"run", "qlock", "rlock", "wlock", "slept"}
    BY DEF Lk
  <2>2. CASE u = t
    BY <1>3, <1>4, <2>1, <2>2 DEF Agrees
  <2>3. CASE u # t
    BY <1>3, <2>1, <2>3 DEF Agrees
  <2> QED
    BY <2>2, <2>3
<1>6. ReadersOf(x.pc, rq, h) = ReadersOf(s.pc, rq, h)
  BY <1>3, <1>4 DEF ReadersOf
<1>7. Acc(x, x.running, W)
  BY <1>2
<1> QED
  BY <1>5, <1>6, <1>7 DEF Lk

(* ... yields, ... *)
LEMMA GivesWay ==
  ASSUME NEW s, NEW o, NEW qw, NEW n, NEW w, NEW rq, NEW wq, NEW z, NEW h,
         Lk(s, o, qw, n, w, rq, wq, z, h), NEW t \in Tasks, RunsAt(s, t, "run")
  PROVE  Good(taskyield(s, t, "run"), o, qw, n, w, rq, wq, z, h)
<1> DEFINE x == taskyield(s, t, "run")
           W == WaitersOf(qw, rq, wq, z)
<1>1. "run" \in Pcs /\ Acc(s, t, W) /\ On(s)
  BY RunsOnly DEF Pcs
<1>2. /\ x.thread # "aborted"
      /\ On(x) => /\ Acc(x, x.running, W) /\ x.st = s.st /\ x.pc[t] = "run"
                  /\ \A u \in Tasks \ {t} : x.pc[u] = s.pc[u]
  <2> HIDE DEF W
  <2> QED
    BY <1>1, YieldedAt
<1> HIDE DEF x, W
<1> SUFFICES ASSUME On(x)
             PROVE  Lk(x, o, qw, n, w, rq, wq, z, h)
  BY <1>2 DEF Good, x
<1>3. \A u \in Tasks : x.pc[u] = s.pc[u]
  BY <1>2 DEF RunsAt
<1>4. \A u \in Tasks : Agrees(s.pc, o, qw, w, rq, wq, z, h, u)
  BY DEF Lk
<1>5. \A u \in Tasks : Agrees(x.pc, o, qw, w, rq, wq, z, h, u)
  BY <1>3, <1>4 DEF Agrees
<1>6. ReadersOf(x.pc, rq, h) = ReadersOf(s.pc, rq, h)
  BY <1>3 DEF ReadersOf
<1>7. \A u \in Tasks :
        x.st[u] = "live" => x.pc[u] \in {"run", "qlock", "rlock", "wlock", "slept"}
  BY <1>2, <1>3 DEF Lk
<1> QED
  BY <1>2, <1>5, <1>6, <1>7 DEF Lk, W

(* ... or exits. *)
LEMMA GoesAway ==
  ASSUME NEW s, NEW o, NEW qw, NEW n, NEW w, NEW rq, NEW wq, NEW z, NEW h,
         Lk(s, o, qw, n, w, rq, wq, z, h), NEW t \in Tasks, RunsAt(s, t, "run"),
         h[t] = "none"
  PROVE  Good(taskexit(s, t), o, qw, n, w, rq, wq, z, h)
<1> DEFINE x == taskexit(s, t)
           W == WaitersOf(qw, rq, wq, z)
<1>1. Acc(s, t, W) /\ On(s)
  BY RunsOnly
<1>2. /\ x.thread # "aborted"
      /\ On(x) => /\ Acc(x, x.running, W) /\ x.st[t] # "live" /\ x.pc[t] = ""
                  /\ \A u \in Tasks \ {t} : x.pc[u] = s.pc[u] /\ x.st[u] = s.st[u]
  <2> HIDE DEF W
  <2> QED
    BY <1>1, Exited
<1> HIDE DEF x, W
<1> SUFFICES ASSUME On(x)
             PROVE  Lk(x, o, qw, n, w, rq, wq, z, h)
  BY <1>2 DEF Good, x
<1>3. ASSUME NEW u \in Tasks
      PROVE  /\ Agrees(x.pc, o, qw, w, rq, wq, z, h, u)
             /\ x.st[u] = "live" => x.pc[u] \in {"run", "qlock", "rlock", "wlock", "slept"}
  <2>1. /\ Agrees(s.pc, o, qw, w, rq, wq, z, h, u)
        /\ s.st[u] = "live" => s.pc[u] \in {"run", "qlock", "rlock", "wlock", "slept"}
    BY DEF Lk
  <2>2. CASE u = t
    BY <1>2, <2>1, <2>2, RunsOnly DEF Agrees, RunsAt
  <2>3. CASE u # t
    BY <1>2, <2>1, <2>3 DEF Agrees
  <2> QED
    BY <2>2, <2>3
<1>4. ReadersOf(x.pc, rq, h) = ReadersOf(s.pc, rq, h)
  BY <1>2 DEF ReadersOf, RunsAt
<1> QED
  BY <1>2, <1>3, <1>4 DEF Lk, W

(***************************************************************************)
(* The steps.  lk is put together from its fields.                         *)
(***************************************************************************)
MakeLk(o, qw, n, w, rq, wq, z, h) ==
  [q |-> [owner |-> o, waiting |-> qw],
   rw |-> [readers |-> n, writer |-> w, rwaiting |-> rq, wwaiting |-> wq],
   rendez |-> z, holds |-> h]

InLocks(s, k) ==
  /\ s.thread = "aborted" => s.why = "cache"
  /\ On(s) => \E o, qw, n, w, rq, wq, z, h :
                /\ k = MakeLk(o, qw, n, w, rq, wq, z, h)
                /\ Lk(s, o, qw, n, w, rq, wq, z, h)

(* From the fields to the record. *)
LEMMA Assemble ==
  ASSUME NEW s, NEW k, NEW o, NEW qw, NEW n, NEW w, NEW rq, NEW wq, NEW z, NEW h,
         Good(s, o, qw, n, w, rq, wq, z, h), k = MakeLk(o, qw, n, w, rq, wq, z, h)
  PROVE  InLocks(s, k)
<1>1. On(s) => k = MakeLk(o, qw, n, w, rq, wq, z, h) /\ Lk(s, o, qw, n, w, rq, wq, z, h)
  BY DEF Good
<1>2. s.thread = "aborted" => s.why = "cache"
  BY DEF Good
<1> QED
  BY <1>1, <1>2, Zenon DEF InLocks

(* _qlock *)
LEMMA QLockStep ==
  ASSUME InLocks(sch, lk), NEW t \in Tasks, _qlock(t)
  PROVE  InLocks(sch', lk')
<1>1. On(sch) /\ RunsAt(sch, t, "run") /\ lk.holds[t] = "none"
  BY DEF _qlock, At, RunsAt
<1>2. PICK o, qw, n, w, rq, wq, z, h : /\ lk = MakeLk(o, qw, n, w, rq, wq, z, h)
                                       /\ Lk(sch, o, qw, n, w, rq, wq, z, h)
  BY <1>1 DEF InLocks
<1>3. lk.q.owner = o /\ lk.q = [owner |-> o, waiting |-> qw] /\ lk.holds = h
  BY <1>2 DEF MakeLk
<1>4. CASE o = Nobody
  <2> DEFINE g == [h EXCEPT ![t] = "q"]
  <2>1. sch' = sch
    BY <1>3, <1>4 DEF _qlock
  <2>2. lk' = MakeLk(t, qw, n, w, rq, wq, z, g)
    BY <1>2, <1>3, <1>4 DEF _qlock, MakeLk, Lock
  <2>3. Good(sch, t, qw, n, w, rq, wq, z, g)
    BY <1>1, <1>2, <1>3, <1>4, TakesLock
  <2> QED
    BY <2>1, <2>2, <2>3, Assemble
<1>5. CASE o # Nobody
  <2>1. sch' = taskswitch(sch, t, "qlock")
    BY <1>3, <1>5 DEF _qlock
  <2>2. lk' = MakeLk(o, Append(qw, t), n, w, rq, wq, z, h)
    <3>1. [h EXCEPT ![t] = h[t]] = h
      BY <1>2 DEF Lk, LockTypes
    <3> QED
      BY <1>2, <1>3, <1>5, <3>1 DEF _qlock, MakeLk, Lock
  <2>3. Good(sch', o, Append(qw, t), n, w, rq, wq, z, h)
    BY <1>1, <1>2, <1>3, <1>5, <2>1, WaitsForLock
  <2> QED
    BY <2>2, <2>3, Assemble
<1> QED
  BY <1>4, <1>5

(* The second half of _qlock: its assert holds. *)
LEMMA LockedStep ==
  ASSUME InLocks(sch, lk), NEW t \in Tasks, Locked(t)
  PROVE  InLocks(sch', lk')
<1>1. On(sch) /\ RunsAt(sch, t, "qlock")
  BY DEF Locked, At, RunsAt
<1>2. PICK o, qw, n, w, rq, wq, z, h : /\ lk = MakeLk(o, qw, n, w, rq, wq, z, h)
                                       /\ Lk(sch, o, qw, n, w, rq, wq, z, h)
  BY <1>1 DEF InLocks
<1>3. /\ lk.q.owner = o /\ lk.q = [owner |-> o, waiting |-> qw] /\ lk.holds = h
      /\ lk.rw = [readers |-> n, writer |-> w, rwaiting |-> rq, wwaiting |-> wq]
      /\ lk.rendez = z /\ lk.q.waiting = qw
  BY <1>2 DEF MakeLk
<1> DEFINE g == [h EXCEPT ![t] = "q"]
<1>4. o = t /\ Good(Goto(sch, t, "run"), o, qw, n, w, rq, wq, z, g)
  BY <1>1, <1>2, GetsLock
<1>5. sch' = Goto(sch, t, "run")
  BY <1>3, <1>4 DEF Locked
<1>6. lk' = MakeLk(o, qw, n, w, rq, wq, z, g)
  BY <1>2, <1>3 DEF Locked, MakeLk
<1> QED
  BY <1>4, <1>5, <1>6, Assemble

(* What qunlock does to the lock and to the thread. *)
UnlockedTo(s, t, q, n, w, rq, wq, z, g) ==
  \E p, r : /\ Unlock(q) = [owner |-> p, waiting |-> r]
            /\ Lk(AfterUnlock(s, q), p, r, n, w, rq, wq, z, g)
            /\ RunsAt(AfterUnlock(s, q), t, "run")

(* Either way of qunlock leads there. *)
LEMMA Unlocks ==
  ASSUME NEW s, NEW o, NEW qw, NEW n, NEW w, NEW rq, NEW wq, NEW z, NEW h,
         Lk(s, o, qw, n, w, rq, wq, z, h), NEW t \in Tasks, RunsAt(s, t, "run"),
         h[t] = "q", NEW g, g = [h EXCEPT ![t] = "none"],
         NEW q, q = [owner |-> o, waiting |-> qw]
  PROVE  UnlockedTo(s, t, q, n, w, rq, wq, z, g)
<1>1. Agrees(s.pc, o, qw, w, rq, wq, z, h, t)
  BY DEF Lk
<1>2. o # Nobody
  BY <1>1, TaskNames DEF Agrees
<1>3. AfterUnlock(s, q) = ReadyHead(s, qw)
  BY <1>2 DEF AfterUnlock
<1>4. CASE qw = <<>>
  <2>1. Unlock(q) = [owner |-> Nobody, waiting |-> <<>>]
    BY <1>4 DEF Unlock, NoQLock
  <2>2. AfterUnlock(s, q) = s
    BY <1>3, <1>4 DEF ReadyHead
  <2>3. Lk(s, Nobody, <<>>, n, w, rq, wq, z, g)
    BY <1>4, FreesLock
  <2> QED
    BY <2>1, <2>2, <2>3 DEF UnlockedTo
<1>5. CASE qw # <<>>
  <2>1. Unlock(q) = [owner |-> Head(qw), waiting |-> Tail(qw)]
    BY <1>5 DEF Unlock
  <2>2. /\ Lk(ReadyHead(s, qw), Head(qw), Tail(qw), n, w, rq, wq, z, g)
        /\ RunsAt(ReadyHead(s, qw), t, "run")
    BY <1>5, HandsLock
  <2> QED
    BY <1>3, <2>1, <2>2 DEF UnlockedTo
<1> QED
  BY <1>4, <1>5

(* qunlock *)
LEMMA QUnlockStep ==
  ASSUME InLocks(sch, lk), NEW t \in Tasks, qunlock(t)
  PROVE  InLocks(sch', lk')
<1>1. On(sch) /\ RunsAt(sch, t, "run") /\ lk.holds[t] = "q"
  BY DEF qunlock, At, RunsAt
<1>2. PICK o, qw, n, w, rq, wq, z, h : /\ lk = MakeLk(o, qw, n, w, rq, wq, z, h)
                                       /\ Lk(sch, o, qw, n, w, rq, wq, z, h)
  BY <1>1 DEF InLocks
<1>3. /\ lk.q.owner = o /\ lk.q = [owner |-> o, waiting |-> qw] /\ lk.holds = h
      /\ lk.rw = [readers |-> n, writer |-> w, rwaiting |-> rq, wwaiting |-> wq]
      /\ lk.rendez = z /\ lk.q.waiting = qw
  BY <1>2 DEF MakeLk
<1> DEFINE g == [h EXCEPT ![t] = "none"]
           y == AfterUnlock(sch, lk.q)
<1>4. PICK p, r : /\ Unlock(lk.q) = [owner |-> p, waiting |-> r]
                  /\ Lk(y, p, r, n, w, rq, wq, z, g) /\ RunsAt(y, t, "run")
  <2>1. h[t] = "q"
    BY <1>1, <1>3
  <2> HIDE DEF g, y
  <2>2. g = [h EXCEPT ![t] = "none"] /\ y = AfterUnlock(sch, lk.q)
    BY DEF g, y
  <2>3. UnlockedTo(sch, t, lk.q, n, w, rq, wq, z, g)
    BY <1>1, <1>2, <1>3, <2>1, <2>2, Unlocks
  <2> QED
    BY <2>2, <2>3 DEF UnlockedTo
<1>5. sch' = y /\ lk' = MakeLk(p, r, n, w, rq, wq, z, g)
  BY <1>2, <1>3, <1>4 DEF qunlock, MakeLk
<1>6. Good(y, p, r, n, w, rq, wq, z, g)
  BY <1>4 DEF Good, RunsAt, On
<1> QED
  BY <1>5, <1>6, Assemble

(* tasksleep: the lock is handed on before the task switches. *)
LEMMA SleepStep ==
  ASSUME InLocks(sch, lk), NEW t \in Tasks, tasksleep(t)
  PROVE  InLocks(sch', lk')
<1>1. On(sch) /\ RunsAt(sch, t, "run") /\ lk.holds[t] = "q"
  BY DEF tasksleep, At, RunsAt
<1>2. PICK o, qw, n, w, rq, wq, z, h : /\ lk = MakeLk(o, qw, n, w, rq, wq, z, h)
                                       /\ Lk(sch, o, qw, n, w, rq, wq, z, h)
  BY <1>1 DEF InLocks
<1>3. /\ lk.q.owner = o /\ lk.q = [owner |-> o, waiting |-> qw] /\ lk.holds = h
      /\ lk.rw = [readers |-> n, writer |-> w, rwaiting |-> rq, wwaiting |-> wq]
      /\ lk.rendez = z /\ lk.q.waiting = qw
  BY <1>2 DEF MakeLk
<1> DEFINE g == [h EXCEPT ![t] = "none"]
           y == AfterUnlock(sch, lk.q)
<1>4. PICK p, r : /\ Unlock(lk.q) = [owner |-> p, waiting |-> r]
                  /\ Lk(y, p, r, n, w, rq, wq, z, g) /\ RunsAt(y, t, "run")
  <2>1. h[t] = "q"
    BY <1>1, <1>3
  <2> HIDE DEF g, y
  <2>2. g = [h EXCEPT ![t] = "none"] /\ y = AfterUnlock(sch, lk.q)
    BY DEF g, y
  <2>3. UnlockedTo(sch, t, lk.q, n, w, rq, wq, z, g)
    BY <1>1, <1>2, <1>3, <2>1, <2>2, Unlocks
  <2> QED
    BY <2>2, <2>3 DEF UnlockedTo
<1>5. sch' = taskswitch(y, t, "slept")
  BY DEF tasksleep
<1>6. lk' = MakeLk(p, r, n, w, rq, wq, Append(z, t), g)
  BY <1>2, <1>3, <1>4 DEF tasksleep, MakeLk
<1>7. g[t] = "none"
  BY <1>2 DEF Lk, LockTypes
<1> HIDE DEF g, y
<1>8. Good(taskswitch(y, t, "slept"), p, r, n, w, rq, wq, Append(z, t), g)
  BY <1>4, <1>7, GoesToSleep
<1> QED
  BY <1>5, <1>6, <1>8, Assemble

(* tasksleep takes the lock again. *)
LEMMA SleptStep ==
  ASSUME InLocks(sch, lk), NEW t \in Tasks, Slept(t)
  PROVE  InLocks(sch', lk')
<1>1. On(sch) /\ RunsAt(sch, t, "slept")
  BY DEF Slept, At, RunsAt
<1>2. PICK o, qw, n, w, rq, wq, z, h : /\ lk = MakeLk(o, qw, n, w, rq, wq, z, h)
                                       /\ Lk(sch, o, qw, n, w, rq, wq, z, h)
  BY <1>1 DEF InLocks
<1>3. /\ lk.q.owner = o /\ lk.q = [owner |-> o, waiting |-> qw] /\ lk.holds = h
      /\ lk.rw = [readers |-> n, writer |-> w, rwaiting |-> rq, wwaiting |-> wq]
      /\ lk.rendez = z /\ lk.q.waiting = qw
  BY <1>2 DEF MakeLk
<1>4. /\ Lk(Goto(sch, t, "run"), o, qw, n, w, rq, wq, z, h)
      /\ RunsAt(Goto(sch, t, "run"), t, "run") /\ h[t] = "none"
  BY <1>1, <1>2, ComesBack
<1>5. CASE o = Nobody
  <2> DEFINE g == [h EXCEPT ![t] = "q"]
             y == Goto(sch, t, "run")
  <2>1. sch' = y
    BY <1>3, <1>5 DEF Slept
  <2>2. lk' = MakeLk(t, qw, n, w, rq, wq, z, g)
    BY <1>2, <1>3, <1>5 DEF Slept, MakeLk, Lock
  <2> HIDE DEF y
  <2>3. Good(y, t, qw, n, w, rq, wq, z, g)
    BY <1>4, <1>5, TakesLock DEF y
  <2> QED
    BY <2>1, <2>2, <2>3, Assemble
<1>6. CASE o # Nobody
  <2>1. sch' = taskswitch(sch, t, "qlock")
    BY <1>3, <1>6 DEF Slept
  <2>2. lk' = MakeLk(o, Append(qw, t), n, w, rq, wq, z, h)
    <3>1. [h EXCEPT ![t] = h[t]] = h
      BY <1>2 DEF Lk, LockTypes
    <3> QED
      BY <1>2, <1>3, <1>6, <3>1 DEF Slept, MakeLk, Lock
  <2>3. Good(sch', o, Append(qw, t), n, w, rq, wq, z, h)
    BY <1>1, <1>2, <1>4, <1>6, <2>1, WaitsForLock
  <2> QED
    BY <2>2, <2>3, Assemble
<1> QED
  BY <1>5, <1>6

(* _rlock *)
LEMMA RLockStep ==
  ASSUME InLocks(sch, lk), NEW t \in Tasks, _rlock(t)
  PROVE  InLocks(sch', lk')
<1>1. On(sch) /\ RunsAt(sch, t, "run") /\ lk.holds[t] = "none"
  BY DEF _rlock, At, RunsAt
<1>2. PICK o, qw, n, w, rq, wq, z, h : /\ lk = MakeLk(o, qw, n, w, rq, wq, z, h)
                                       /\ Lk(sch, o, qw, n, w, rq, wq, z, h)
  BY <1>1 DEF InLocks
<1>3. /\ lk.q.owner = o /\ lk.q = [owner |-> o, waiting |-> qw] /\ lk.holds = h
      /\ lk.rw = [readers |-> n, writer |-> w, rwaiting |-> rq, wwaiting |-> wq]
      /\ lk.rendez = z /\ lk.q.waiting = qw
  BY <1>2 DEF MakeLk
<1>4. CASE w = Nobody /\ wq = <<>>
  <2> DEFINE g == [h EXCEPT ![t] = "r"]
  <2>1. CanRead(lk.rw)
    BY <1>3, <1>4 DEF CanRead
  <2>2. sch' = sch
    BY <2>1 DEF _rlock
  <2>3. lk' = MakeLk(o, qw, n + 1, w, rq, wq, z, g)
    <3>1. lk' = [lk EXCEPT !.rw.readers = @ + 1, !.holds[t] = "r"]
      BY <2>1 DEF _rlock
    <3>2. lk = MakeLk(o, qw, n, w, rq, wq, z, h)
      BY <1>2
    <3> QED
      BY ONLY <3>1, <3>2 DEF MakeLk
  <2>4. Good(sch, o, qw, n + 1, w, rq, wq, z, g)
    BY <1>1, <1>2, <1>3, <1>4, TakesRead
  <2> QED
    BY <2>2, <2>3, <2>4, Assemble
<1>5. CASE ~(w = Nobody /\ wq = <<>>)
  <2>1. ~CanRead(lk.rw)
    BY <1>3, <1>5 DEF CanRead
  <2>2. sch' = taskswitch(sch, t, "rlock")
    BY <2>1 DEF _rlock
  <2>3. lk' = MakeLk(o, qw, n, w, Append(rq, t), wq, z, h)
    BY <1>2, <1>3, <2>1 DEF _rlock, MakeLk
  <2>4. Good(sch', o, qw, n, w, Append(rq, t), wq, z, h)
    BY <1>1, <1>2, <1>3, <1>5, <2>2, WaitsToRead
  <2> QED
    BY <2>3, <2>4, Assemble
<1> QED
  BY <1>4, <1>5

(* _wlock *)
LEMMA WLockStep ==
  ASSUME InLocks(sch, lk), NEW t \in Tasks, _wlock(t)
  PROVE  InLocks(sch', lk')
<1>1. On(sch) /\ RunsAt(sch, t, "run") /\ lk.holds[t] = "none"
  BY DEF _wlock, At, RunsAt
<1>2. PICK o, qw, n, w, rq, wq, z, h : /\ lk = MakeLk(o, qw, n, w, rq, wq, z, h)
                                       /\ Lk(sch, o, qw, n, w, rq, wq, z, h)
  BY <1>1 DEF InLocks
<1>3. /\ lk.q.owner = o /\ lk.q = [owner |-> o, waiting |-> qw] /\ lk.holds = h
      /\ lk.rw = [readers |-> n, writer |-> w, rwaiting |-> rq, wwaiting |-> wq]
      /\ lk.rendez = z /\ lk.q.waiting = qw
  BY <1>2 DEF MakeLk
<1>4. CASE w = Nobody /\ n = 0
  <2> DEFINE g == [h EXCEPT ![t] = "w"]
  <2>1. CanWrite(lk.rw)
    BY <1>3, <1>4 DEF CanWrite
  <2>2. sch' = sch
    BY <2>1 DEF _wlock
  <2>3. lk' = MakeLk(o, qw, n, t, rq, wq, z, g)
    BY <1>2, <1>3, <2>1 DEF _wlock, MakeLk
  <2>4. Good(sch, o, qw, n, t, rq, wq, z, g)
    BY <1>1, <1>2, <1>3, <1>4, TakesWrite
  <2> QED
    BY <2>2, <2>3, <2>4, Assemble
<1>5. CASE ~(w = Nobody /\ n = 0)
  <2>1. ~CanWrite(lk.rw)
    BY <1>3, <1>5 DEF CanWrite
  <2>2. sch' = taskswitch(sch, t, "wlock")
    BY <2>1 DEF _wlock
  <2>3. lk' = MakeLk(o, qw, n, w, rq, Append(wq, t), z, h)
    BY <1>2, <1>3, <2>1 DEF _wlock, MakeLk
  <2>4. Good(sch', o, qw, n, w, rq, Append(wq, t), z, h)
    BY <1>1, <1>2, <1>3, <1>5, <2>2, WaitsToWrite
  <2> QED
    BY <2>3, <2>4, Assemble
<1> QED
  BY <1>4, <1>5

(* Back from the taskswitch of _rlock or _wlock. *)
LEMMA RWLockedStep ==
  ASSUME InLocks(sch, lk), NEW t \in Tasks, RWLocked(t)
  PROVE  InLocks(sch', lk')
<1>0. PICK l \in {"rlock", "wlock"} :
        /\ At(t, l) /\ sch' = Goto(sch, t, "run")
        /\ lk' = [lk EXCEPT !.holds[t] = IF l = "rlock" THEN "r" ELSE "w"]
  BY DEF RWLocked
<1>1. On(sch) /\ RunsAt(sch, t, l)
  BY <1>0 DEF At, RunsAt
<1>2. PICK o, qw, n, w, rq, wq, z, h : /\ lk = MakeLk(o, qw, n, w, rq, wq, z, h)
                                       /\ Lk(sch, o, qw, n, w, rq, wq, z, h)
  BY <1>1 DEF InLocks
<1>3. /\ lk.q.owner = o /\ lk.q = [owner |-> o, waiting |-> qw] /\ lk.holds = h
      /\ lk.rw = [readers |-> n, writer |-> w, rwaiting |-> rq, wwaiting |-> wq]
      /\ lk.rendez = z /\ lk.q.waiting = qw
  BY <1>2 DEF MakeLk
<1> DEFINE g == [h EXCEPT ![t] = IF l = "rlock" THEN "r" ELSE "w"]
<1>4. Good(Goto(sch, t, "run"), o, qw, n, w, rq, wq, z, g)
  BY <1>1, <1>2, GetsRW
<1>5. lk' = MakeLk(o, qw, n, w, rq, wq, z, g)
  BY <1>0, <1>2, <1>3 DEF MakeLk
<1> QED
  BY <1>0, <1>4, <1>5, Assemble

(* runlock *)
LEMMA RUnlockStep ==
  ASSUME InLocks(sch, lk), NEW t \in Tasks, runlock(t)
  PROVE  InLocks(sch', lk')
<1>1. On(sch) /\ RunsAt(sch, t, "run") /\ lk.holds[t] = "r"
  BY DEF runlock, At, RunsAt
<1>2. PICK o, qw, n, w, rq, wq, z, h : /\ lk = MakeLk(o, qw, n, w, rq, wq, z, h)
                                       /\ Lk(sch, o, qw, n, w, rq, wq, z, h)
  BY <1>1 DEF InLocks
<1>3. /\ lk.q.owner = o /\ lk.q = [owner |-> o, waiting |-> qw] /\ lk.holds = h
      /\ lk.rw = [readers |-> n, writer |-> w, rwaiting |-> rq, wwaiting |-> wq]
      /\ lk.rendez = z /\ lk.q.waiting = qw
  BY <1>2 DEF MakeLk
<1> DEFINE g == [h EXCEPT ![t] = "none"]
           rw == [lk.rw EXCEPT !.readers = @ - 1]
<1>4. rw = [readers |-> n - 1, writer |-> w, rwaiting |-> rq, wwaiting |-> wq]
  BY <1>3
<1>5. /\ lk' = [lk EXCEPT !.rw = HandToWriter(rw), !.holds[t] = "none"]
      /\ sch' = IF rw.readers = 0 THEN ReadyHead(sch, rw.wwaiting) ELSE sch
  BY DEF runlock
<1> HIDE DEF rw
<1>6. CASE n - 1 = 0 /\ wq # <<>>
  <2>1. HandToWriter(rw) = [readers |-> 0, writer |-> Head(wq), rwaiting |-> rq,
                            wwaiting |-> Tail(wq)]
    BY <1>4, <1>6 DEF HandToWriter
  <2>2. sch' = ReadyHead(sch, wq)
    BY <1>4, <1>5, <1>6
  <2>3. lk' = MakeLk(o, qw, 0, Head(wq), rq, Tail(wq), z, g)
    BY <1>2, <1>3, <1>5, <2>1 DEF MakeLk
  <2>4. h[t] = "r" /\ n = 1
    <3>1. OneLess(n, ReadersOf(sch.pc, rq, g))
      BY <1>1, <1>2, <1>3, ReaderLeaves
    <3> QED
      BY <1>1, <1>3, <1>6, <3>1 DEF OneLess
  <2>5. LastIn(n, h[t])
    BY <2>4 DEF LastIn
  <2>6. Good(ReadyHead(sch, wq), o, qw, 0, Head(wq), rq, Tail(wq), z, g)
    BY <1>1, <1>2, <1>6, <2>5, HandsWrite
  <2> QED
    BY <2>2, <2>3, <2>6, Assemble
<1>7. CASE ~(n - 1 = 0 /\ wq # <<>>)
  <2>1. HandToWriter(rw) = rw
    BY <1>4, <1>7 DEF HandToWriter
  <2>2. sch' = sch
    BY <1>4, <1>5, <1>7 DEF ReadyHead
  <2>3. lk' = MakeLk(o, qw, n - 1, w, rq, wq, z, g)
    BY <1>2, <1>3, <1>4, <1>5, <2>1 DEF MakeLk
  <2>4. Good(sch, o, qw, n - 1, w, rq, wq, z, g)
    BY <1>1, <1>2, <1>3, <1>7, FreesRead
  <2> QED
    BY <2>2, <2>3, <2>4, Assemble
<1> QED
  BY <1>6, <1>7

(* The readers and writers after wunlock, before a writer is picked. *)
Freed(rw, v, m, e) == [rw EXCEPT !.writer = v, !.readers = m, !.rwaiting = e]

(* Field by field. *)
LEMMA FreedRecord ==
  ASSUME NEW n, NEW w, NEW rq, NEW wq, NEW m, NEW v, NEW e, NEW rw,
         rw = [readers |-> n, writer |-> w, rwaiting |-> rq, wwaiting |-> wq]
  PROVE  Freed(rw, v, m, e)
           = [readers |-> m, writer |-> v, rwaiting |-> e, wwaiting |-> wq]
<1>1. [rw EXCEPT !.writer = v]
        = [readers |-> n, writer |-> v, rwaiting |-> rq, wwaiting |-> wq]
  OBVIOUS
<1>2. [[readers |-> n, writer |-> v, rwaiting |-> rq, wwaiting |-> wq] EXCEPT !.readers = m]
        = [readers |-> m, writer |-> v, rwaiting |-> rq, wwaiting |-> wq]
  OBVIOUS
<1>3. [[readers |-> m, writer |-> v, rwaiting |-> rq, wwaiting |-> wq] EXCEPT !.rwaiting = e]
        = [readers |-> m, writer |-> v, rwaiting |-> e, wwaiting |-> wq]
  OBVIOUS
<1>4. [[[rw EXCEPT !.writer = v] EXCEPT !.readers = m] EXCEPT !.rwaiting = e]
        = [readers |-> m, writer |-> v, rwaiting |-> e, wwaiting |-> wq]
  BY <1>1, <1>2, <1>3
<1>5. [[[rw EXCEPT !.writer = v] EXCEPT !.readers = m] EXCEPT !.rwaiting = e]
        = [rw EXCEPT !.writer = v, !.readers = m, !.rwaiting = e]
  BY Zenon
<1> QED
  BY <1>4, <1>5 DEF Freed

(* wunlock: its assert holds. *)
LEMMA WUnlockStep ==
  ASSUME InLocks(sch, lk), NEW t \in Tasks, wunlock(t)
  PROVE  InLocks(sch', lk')
<1>1. On(sch) /\ RunsAt(sch, t, "run") /\ lk.holds[t] = "w"
  BY DEF wunlock, At, RunsAt
<1>2. PICK o, qw, n, w, rq, wq, z, h : /\ lk = MakeLk(o, qw, n, w, rq, wq, z, h)
                                       /\ Lk(sch, o, qw, n, w, rq, wq, z, h)
  BY <1>1 DEF InLocks
<1>3. /\ lk.q.owner = o /\ lk.q = [owner |-> o, waiting |-> qw] /\ lk.holds = h
      /\ lk.rw = [readers |-> n, writer |-> w, rwaiting |-> rq, wwaiting |-> wq]
      /\ lk.rendez = z /\ lk.q.waiting = qw
  BY <1>2 DEF MakeLk
<1> DEFINE g == [h EXCEPT ![t] = "none"]
           freed == [lk.rw EXCEPT !.writer = Nobody, !.readers = @ + Len(lk.rw.rwaiting),
                                  !.rwaiting = <<>>]
<1>4. w = t /\ w # Nobody /\ n = 0
  <2>1. Agrees(sch.pc, o, qw, w, rq, wq, z, h, t)
    BY <1>2 DEF Lk
  <2>2. w = t
    BY <1>1, <1>3, <2>1 DEF Agrees
  <2> QED
    BY <1>2, <2>2, TaskNames DEF Lk, HandedOn
<1>5. freed = [readers |-> n + Len(rq), writer |-> Nobody, rwaiting |-> <<>>, wwaiting |-> wq]
  <2>1. /\ lk.rw.rwaiting = rq /\ lk.rw.readers = n
        /\ lk.rw = [readers |-> n, writer |-> w, rwaiting |-> rq, wwaiting |-> wq]
    BY <1>3
  <2> DEFINE a == Len(rq)
  <2>2. freed = [lk.rw EXCEPT !.writer = Nobody, !.readers = @ + a, !.rwaiting = <<>>]
    BY <2>1
  <2> HIDE DEF a, freed
  <2> DEFINE m == n + a
  <2> DEFINE rw == lk.rw
             b == rw.readers + a
  <2>3. freed = [rw EXCEPT !.writer = Nobody, !.readers = b, !.rwaiting = <<>>]
    BY <2>2, Zenon
  <2>5. b = m /\ rw = lk.rw
    BY <2>1, Zenon
  <2> DEFINE e == <<>>
  <2> HIDE DEF b, rw, m, e
  <2>4. [rw EXCEPT !.writer = Nobody, !.readers = b, !.rwaiting = e]
          = [readers |-> b, writer |-> Nobody, rwaiting |-> e, wwaiting |-> wq]
    <3>1. rw = [readers |-> n, writer |-> w, rwaiting |-> rq, wwaiting |-> wq]
      BY <2>1, <2>5
    <3>2. Freed(rw, Nobody, b, e)
            = [readers |-> b, writer |-> Nobody, rwaiting |-> e, wwaiting |-> wq]
      BY <3>1, FreedRecord
    <3> QED
      BY <3>2 DEF Freed
  <2>6. freed = [rw EXCEPT !.writer = Nobody, !.readers = b, !.rwaiting = e]
    BY <2>3 DEF e
  <2> QED
    BY <2>4, <2>5, <2>6 DEF a, m, e
<1>6. /\ lk' = [lk EXCEPT !.rw = HandToWriter(freed), !.holds[t] = "none"]
      /\ rq # <<>> => sch' = ReadyAll(sch, rq)
      /\ rq = <<>> => sch' = ReadyHead(sch, wq)
  <2>1. /\ lk' = [lk EXCEPT !.rw = HandToWriter(freed), !.holds[t] = "none"]
        /\ sch' = CASE lk.rw.writer = Nobody \/ lk.rw.readers # 0 -> Abort(sch, "wunlock")
                  [] lk.rw.writer # Nobody /\ lk.rw.readers = 0 /\ lk.rw.rwaiting # <<>> ->
                       ReadyAll(sch, lk.rw.rwaiting)
                  [] lk.rw.writer # Nobody /\ lk.rw.readers = 0 /\ lk.rw.rwaiting = <<>> ->
                       ReadyHead(sch, lk.rw.wwaiting)
    BY DEF wunlock
  <2> HIDE DEF freed
  <2>2. /\ lk.rw.writer = w /\ lk.rw.readers = n /\ lk.rw.rwaiting = rq
        /\ lk.rw.wwaiting = wq
    BY <1>3
  <2> QED
    BY <1>4, <2>1, <2>2
<1>7. rq \in Seq(Tasks)
  BY <1>2 DEF Lk, LockTypes
<1> HIDE DEF freed
<1>8. CASE rq # <<>>
  <2>1. Good(ReadyAll(sch, rq), o, qw, Len(rq), Nobody, <<>>, wq, z, g) /\ Len(rq) # 0
    BY <1>1, <1>2, <1>3, <1>4, <1>8, LetsReadersIn
  <2>2. n + Len(rq) = Len(rq)
    BY <1>4, <1>7
  <2>3. HandToWriter(freed) = [readers |-> Len(rq), writer |-> Nobody, rwaiting |-> <<>>,
                               wwaiting |-> wq]
    BY <1>5, <2>1, <2>2 DEF HandToWriter
  <2>4. lk' = MakeLk(o, qw, Len(rq), Nobody, <<>>, wq, z, g)
    BY <1>2, <1>3, <1>6, <2>3 DEF MakeLk
  <2> QED
    BY <1>6, <1>8, <2>1, <2>4, Assemble
<1>9. CASE rq = <<>> /\ wq # <<>>
  <2>1. freed = [readers |-> 0, writer |-> Nobody, rwaiting |-> <<>>, wwaiting |-> wq]
    BY <1>4, <1>5, <1>9
  <2>2. HandToWriter(freed) = [readers |-> 0, writer |-> Head(wq), rwaiting |-> rq,
                               wwaiting |-> Tail(wq)]
    BY <1>9, <2>1 DEF HandToWriter
  <2>3. lk' = MakeLk(o, qw, 0, Head(wq), rq, Tail(wq), z, g)
    BY <1>2, <1>3, <1>6, <2>2 DEF MakeLk
  <2>4. LastIn(n, h[t])
    BY <1>1, <1>3, <1>4 DEF LastIn
  <2>5. Good(ReadyHead(sch, wq), o, qw, 0, Head(wq), rq, Tail(wq), z, g)
    BY <1>1, <1>2, <1>9, <2>4, HandsWrite
  <2> QED
    BY <1>6, <1>9, <2>3, <2>5, Assemble
<1>10. CASE rq = <<>> /\ wq = <<>>
  <2>1. freed = [readers |-> 0, writer |-> Nobody, rwaiting |-> <<>>, wwaiting |-> <<>>]
    BY <1>4, <1>5, <1>10
  <2>2. HandToWriter(freed) = freed
    BY <2>1 DEF HandToWriter
  <2>3. lk' = MakeLk(o, qw, n, Nobody, <<>>, <<>>, z, g)
    BY <1>2, <1>3, <1>4, <1>6, <2>1, <2>2 DEF MakeLk
  <2>4. sch' = sch
    BY <1>6, <1>10 DEF ReadyHead
  <2>5. Good(sch, o, qw, n, Nobody, <<>>, <<>>, z, g)
    BY <1>1, <1>2, <1>3, <1>10, FreesWrite
  <2> QED
    BY <2>3, <2>4, <2>5, Assemble
<1> QED
  BY <1>8, <1>9, <1>10

(* taskwakeup and taskwakeupall *)
LEMMA WakeupStep ==
  ASSUME InLocks(sch, lk), NEW t \in Tasks, NEW all \in BOOLEAN, taskwakeup(t, all)
  PROVE  InLocks(sch', lk')
<1>1. On(sch) /\ RunsAt(sch, t, "run")
  BY DEF taskwakeup, At, RunsAt
<1>2. PICK o, qw, n, w, rq, wq, z, h : /\ lk = MakeLk(o, qw, n, w, rq, wq, z, h)
                                       /\ Lk(sch, o, qw, n, w, rq, wq, z, h)
  BY <1>1 DEF InLocks
<1>3. /\ lk.q.owner = o /\ lk.q = [owner |-> o, waiting |-> qw] /\ lk.holds = h
      /\ lk.rw = [readers |-> n, writer |-> w, rwaiting |-> rq, wwaiting |-> wq]
      /\ lk.rendez = z /\ lk.q.waiting = qw
  BY <1>2 DEF MakeLk
<1>4. CASE all
  <2>1. sch' = ReadyAll(sch, z) /\ lk' = MakeLk(o, qw, n, w, rq, wq, <<>>, h)
    BY <1>2, <1>3, <1>4 DEF taskwakeup, MakeLk
  <2>2. Good(ReadyAll(sch, z), o, qw, n, w, rq, wq, <<>>, h)
    BY <1>1, <1>2, WakesAll
  <2> QED
    BY <2>1, <2>2, Assemble
<1>5. CASE ~all
  <2>1. /\ z # <<>> /\ sch' = ReadyHead(sch, z)
        /\ lk' = MakeLk(o, qw, n, w, rq, wq, Tail(z), h)
    BY <1>2, <1>3, <1>5 DEF taskwakeup, MakeLk
  <2>2. Good(ReadyHead(sch, z), o, qw, n, w, rq, wq, Tail(z), h)
    BY <1>1, <1>2, <2>1, WakesOne
  <2> QED
    BY <2>1, <2>2, Assemble
<1> QED
  BY <1>4, <1>5

(* A task creates another or yields. *)
LEMMA WorkerStep ==
  ASSUME InLocks(sch, lk), NEW t \in Tasks, Worker(t, "run", Workers), lk' = lk
  PROVE  InLocks(sch', lk')
<1>1. On(sch) /\ RunsAt(sch, t, "run")
  BY DEF Worker, At, RunsAt
<1>2. PICK o, qw, n, w, rq, wq, z, h : /\ lk = MakeLk(o, qw, n, w, rq, wq, z, h)
                                       /\ Lk(sch, o, qw, n, w, rq, wq, z, h)
  BY <1>1 DEF InLocks
<1>3. /\ lk.q.owner = o /\ lk.q = [owner |-> o, waiting |-> qw] /\ lk.holds = h
      /\ lk.rw = [readers |-> n, writer |-> w, rwaiting |-> rq, wwaiting |-> wq]
      /\ lk.rendez = z /\ lk.q.waiting = qw
  BY <1>2 DEF MakeLk
<1>4. ASSUME NEW small \in BOOLEAN, Cardinality(Live(sch)) < Workers,
             sch' = taskcreate(sch, "run", small)
      PROVE  InLocks(sch', lk')
  <2>1. Cardinality(Live(sch)) < MaxTask
    <3>1. Live(sch) \in SUBSET Tasks
      BY DEF Live
    <3>2. Cardinality(Live(sch)) \in Nat
      BY <3>1, TaskNames, SubsetCount
    <3>3. Workers \in 1..MaxTask /\ MaxTask \in Nat
      BY LocksAssumption, TaskNames
    <3> QED
      BY <1>4, <3>2, <3>3
  <2>2. Good(taskcreate(sch, "run", small), o, qw, n, w, rq, wq, z, h)
    BY <1>1, <1>2, <2>1, Creates
  <2> QED
    BY <1>2, <1>4, <2>2, Assemble
<1>5. ASSUME sch' = taskyield(sch, t, "run")
      PROVE  InLocks(sch', lk')
  <2>1. Good(taskyield(sch, t, "run"), o, qw, n, w, rq, wq, z, h)
    BY <1>1, <1>2, GivesWay
  <2> QED
    BY <1>2, <1>5, <2>1, Assemble
<1> QED
  BY <1>4, <1>5 DEF Worker

(* A task exits. *)
LEMMA LeaveStep ==
  ASSUME InLocks(sch, lk), NEW t \in Tasks, Leave(t, "run"), lk.holds[t] = "none", lk' = lk
  PROVE  InLocks(sch', lk')
<1>1. On(sch) /\ RunsAt(sch, t, "run")
  BY DEF Leave, At, RunsAt
<1>2. PICK o, qw, n, w, rq, wq, z, h : /\ lk = MakeLk(o, qw, n, w, rq, wq, z, h)
                                       /\ Lk(sch, o, qw, n, w, rq, wq, z, h)
  BY <1>1 DEF InLocks
<1>3. /\ lk.q.owner = o /\ lk.q = [owner |-> o, waiting |-> qw] /\ lk.holds = h
      /\ lk.rw = [readers |-> n, writer |-> w, rwaiting |-> rq, wwaiting |-> wq]
      /\ lk.rendez = z /\ lk.q.waiting = qw
  BY <1>2 DEF MakeLk
<1>4. sch' = taskexit(sch, t)
  BY DEF Leave
<1>5. Good(taskexit(sch, t), o, qw, n, w, rq, wq, z, h)
  BY <1>1, <1>2, <1>3, GoesAway
<1> QED
  BY <1>2, <1>4, <1>5, Assemble

(***************************************************************************)
(* The program of the locks, and what follows.                             *)
(***************************************************************************)
(* A state of the program: an inductive invariant of Spec. *)
LocksInv == prog = "locks" => InLocks(sch, lk)

(* The first task of a thread. *)
FirstRuns(x, fn) ==
  /\ x.thread = "aborted" => x.why = "cache"
  /\ On(x) => /\ Acc(x, x.running, {})
              /\ \A u \in Tasks : /\ x.pc[u] \in {"", fn}
                                  /\ x.st[u] = "live" => x.pc[u] = fn /\ u = x.running

(* It runs, or the thread has ended. *)
LEMMA FirstTask ==
  ASSUME NEW fn \in Pcs
  PROVE  FirstRuns(libtask_start(fn), fn)
<1> DEFINE s == NoTasks
           y == taskcreate(s, fn, FALSE)
           x == taskscheduler(y)
<1>1. /\ s \in Thread /\ s.runq = <<>> /\ s.cache = <<>> /\ s.count = 0 /\ On(s)
      /\ \A t \in Tasks : s.st[t] = "none" /\ s.system[t] = FALSE /\ s.pc[t] = ""
  <2> DEFINE a == [t \in Tasks |-> "none"]
             b == [t \in Tasks |-> FALSE]
             c == [t \in Tasks |-> ""]
  <2>1. /\ a \in [Tasks -> {"none", "live", "cached"}] /\ \A t \in Tasks : a[t] = "none"
        /\ b \in [Tasks -> BOOLEAN] /\ \A t \in Tasks : b[t] = FALSE
        /\ c \in [Tasks -> Pcs] /\ \A t \in Tasks : c[t] = ""
    BY DEF Pcs
  <2>2. s = [running |-> Nobody, runq |-> <<>>, cache |-> <<>>, count |-> 0, st |-> a,
             system |-> b, small |-> b, pc |-> c, nswitch |-> 0, thread |-> "on", why |-> ""]
    BY DEF NoTasks
  <2>3. <<>> \in Seq(Tasks)
    OBVIOUS
  <2> HIDE DEF s, a, b, c
  <2>4. /\ s.runq = <<>> /\ s.cache = <<>> /\ s.count = 0 /\ s.thread = "on"
        /\ s.st = a /\ s.system = b /\ s.pc = c
    BY <2>2
  <2>5. s \in Thread
    <3> DEFINE e == <<>>
    <3>1. e \in Seq(Tasks)
      BY <2>3
    <3>2. s = [running |-> Nobody, runq |-> e, cache |-> e, count |-> 0, st |-> a,
               system |-> b, small |-> b, pc |-> c, nswitch |-> 0, thread |-> "on",
               why |-> ""]
      BY <2>2
    <3> HIDE DEF e
    <3>3. a \in [Tasks -> {"none", "live", "cached"}] /\ b \in [Tasks -> BOOLEAN]
          /\ c \in [Tasks -> Pcs]
      BY <2>1
    <3>4. Nobody \in Tasks \cup {Nobody} /\ 0 \in Int /\ 0 \in 0..2
      OBVIOUS
    <3> QED
      BY <3>1, <3>2, <3>3, <3>4 DEF Thread, Whys
  <2>6. \A t \in Tasks : s.st[t] = "none" /\ s.pc[t] = ""
    BY <2>1, <2>4
  <2>7. \A t \in Tasks : s.system[t] = FALSE
    BY <2>1, <2>4
  <2> QED
    BY <2>4, <2>5, <2>6, <2>7 DEF On
<1> HIDE DEF s
<1>2. Acc(s, Nobody, {})
  <2>1. Placed(s, Nobody, {})
    BY <1>1, EmptyQueue, TaskNames DEF Placed
  <2>2. Owned(s) = {}
    BY <1>1 DEF Owned
  <2> QED
    BY <1>1, <2>1, <2>2, EmptyQueue, FS_EmptySet DEF Acc
<1>3. Cardinality(Live(s)) < MaxTask
  <2>1. Live(s) = {}
    BY <1>1 DEF Live
  <2>2. MaxTask >= 1 /\ Cardinality({}) = 0
    BY TaskAssumption, FS_EmptySet
  <2> QED
    BY <2>1, <2>2, TaskNames
<1>4. CreatedIn(s, Nobody, {}, fn, y)
  BY <1>1, <1>2, <1>3, Created
<1> HIDE DEF y
<1>5. On(y) => /\ Acc(y, Nobody, {})
               /\ \A u \in Tasks : /\ y.pc[u] \in {"", fn}
                                   /\ y.st[u] = "live" => y.pc[u] = fn
               /\ \A u, v \in Tasks : y.st[u] = "live" /\ y.st[v] = "live" => u = v
  <2> SUFFICES ASSUME On(y)
               PROVE  /\ Acc(y, Nobody, {})
                      /\ \A u \in Tasks : /\ y.pc[u] \in {"", fn}
                                          /\ y.st[u] = "live" => y.pc[u] = fn
                      /\ \A u, v \in Tasks :
                           y.st[u] = "live" /\ y.st[v] = "live" => u = v
    OBVIOUS
  <2>1. PICK t \in Tasks :
          /\ s.st[t] # "live" /\ y.st[t] = "live" /\ y.pc[t] = fn
          /\ \A u \in Tasks \ {t} : y.st[u] = s.st[u] /\ y.pc[u] = s.pc[u]
    BY <1>4 DEF CreatedIn
  <2>2. Acc(y, Nobody, {})
    BY <1>4 DEF CreatedIn
  <2> QED
    BY <1>1, <2>1, <2>2
<1>6. On(y) => FirstRuns(x, fn)
  <2> SUFFICES ASSUME On(y) PROVE FirstRuns(x, fn)
    OBVIOUS
  <2>1. /\ x.thread # "aborted"
        /\ On(x) => /\ Acc(x, x.running, {}) /\ x.st = y.st /\ x.pc = y.pc
                    /\ x.running \in Tasks
    BY <1>5, Switched
  <2> HIDE DEF x
  <2>2. On(x) => x.st[x.running] = "live"
    BY <2>1 DEF Acc, Placed
  <2> QED
    BY <1>5, <2>1, <2>2 DEF FirstRuns
<1>7. ~On(y) => FirstRuns(x, fn)
  <2> SUFFICES ASSUME ~On(y) PROVE FirstRuns(x, fn)
    OBVIOUS
  <2>1. x = y
    BY DEF taskscheduler
  <2> HIDE DEF x
  <2> QED
    BY <1>4, <2>1 DEF CreatedIn, FirstRuns
<1>8. libtask_start(fn) = x
  BY DEF libtask_start, y, s
<1> HIDE DEF x
<1>9. FirstRuns(x, fn)
  BY <1>6, <1>7
<1> QED
  BY <1>8, <1>9

(* Init of the locks. *)
LEMMA LocksInit == Init => LocksInv
<1> SUFFICES ASSUME Init, prog = "locks"
             PROVE  InLocks(sch, lk)
  BY DEF LocksInv
<1> DEFINE x == libtask_start("run")
           g == [t \in Tasks |-> "none"]
<1>1. "run" \in Pcs
  BY DEF Pcs
<1>2. /\ x.thread = "aborted" => x.why = "cache"
      /\ On(x) => /\ Acc(x, x.running, {})
                  /\ \A u \in Tasks : /\ x.pc[u] \in {"", "run"}
                                      /\ x.st[u] = "live" => x.pc[u] = "run"
  <2>1. FirstRuns(x, "run")
    BY <1>1, FirstTask
  <2> HIDE DEF x
  <2> QED
    BY <2>1 DEF FirstRuns
<1>3. First[prog] = "run"
  BY DEF First
<1>4. sch = x
  BY <1>3 DEF Init
<1>5. lk = MakeLk(Nobody, <<>>, 0, Nobody, <<>>, <<>>, <<>>, g)
  BY DEF Init, NoLocks, NoQLock, NoRWLock, MakeLk
<1>6. g \in [Tasks -> {"none", "q", "r", "w"}] /\ \A t \in Tasks : g[t] = "none"
  OBVIOUS
<1> HIDE DEF x, g
<1>7. ASSUME On(x)
      PROVE  Lk(x, Nobody, <<>>, 0, Nobody, <<>>, <<>>, <<>>, g)
  <2>1. WaitersOf(<<>>, <<>>, <<>>, <<>>) = {}
    BY EmptyQueue DEF WaitersOf
  <2>2. LockTypes(Nobody, <<>>, Nobody, <<>>, <<>>, <<>>, g)
    BY <1>6 DEF LockTypes
  <2>3. Locked4(<<>>, <<>>, <<>>, <<>>)
    BY EmptyQueue DEF Locked4
  <2>4. \A t \in Tasks : Agrees(x.pc, Nobody, <<>>, Nobody, <<>>, <<>>, <<>>, g, t)
    BY <1>2, <1>6, <1>7, EmptyQueue, TaskNames DEF Agrees
  <2>5. ReadersOf(x.pc, <<>>, g) = {}
    BY <1>2, <1>6, <1>7 DEF ReadersOf
  <2>6. 0 = Cardinality(ReadersOf(x.pc, <<>>, g))
    BY <2>5, FS_EmptySet
  <2>7. HandedOn(Nobody, <<>>, 0, Nobody, <<>>, <<>>)
    BY DEF HandedOn
  <2> QED
    BY <1>2, <1>7, <2>1, <2>2, <2>3, <2>4, <2>6, <2>7 DEF Lk
<1>8. Good(x, Nobody, <<>>, 0, Nobody, <<>>, <<>>, <<>>, g)
  BY <1>2, <1>7 DEF Good
<1> QED
  BY <1>4, <1>5, <1>8, Assemble

(* Every step keeps the invariant, ... *)
LEMMA LocksStep == LocksInv /\ [Next]_vars => LocksInv'
<1> SUFFICES ASSUME LocksInv, [Next]_vars
             PROVE  LocksInv'
  OBVIOUS
<1>1. CASE UNCHANGED vars
  BY <1>1 DEF vars, LocksInv
<1>2. CASE Next /\ prog = "locks"
  <2>0. InLocks(sch, lk)
    BY <1>2 DEF LocksInv
  <2>1. PICK t \in Tasks :
          \/ _qlock(t) \/ Locked(t) \/ qunlock(t)
          \/ _rlock(t) \/ _wlock(t) \/ RWLocked(t) \/ runlock(t) \/ wunlock(t)
          \/ tasksleep(t) \/ Slept(t) \/ \E all \in BOOLEAN : taskwakeup(t, all)
          \/ Worker(t, "run", Workers) /\ UNCHANGED lk
          \/ lk.holds[t] = "none" /\ Leave(t, "run") /\ UNCHANGED lk
    BY <1>2 DEF Next, LocksNext
  <2>2. InLocks(sch', lk')
    <3>1. CASE _qlock(t)
      BY <2>0, <3>1, QLockStep
    <3>2. CASE Locked(t)
      BY <2>0, <3>2, LockedStep
    <3>3. CASE qunlock(t)
      BY <2>0, <3>3, QUnlockStep
    <3>4. CASE _rlock(t)
      BY <2>0, <3>4, RLockStep
    <3>5. CASE _wlock(t)
      BY <2>0, <3>5, WLockStep
    <3>6. CASE RWLocked(t)
      BY <2>0, <3>6, RWLockedStep
    <3>7. CASE runlock(t)
      BY <2>0, <3>7, RUnlockStep
    <3>8. CASE wunlock(t)
      BY <2>0, <3>8, WUnlockStep
    <3>9. CASE tasksleep(t)
      BY <2>0, <3>9, SleepStep
    <3>10. CASE Slept(t)
      BY <2>0, <3>10, SleptStep
    <3>11. CASE \E all \in BOOLEAN : taskwakeup(t, all)
      <4>1. PICK all \in BOOLEAN : taskwakeup(t, all)
        BY <3>11
      <4> QED
        BY <2>0, <4>1, WakeupStep
    <3>12. CASE Worker(t, "run", Workers) /\ UNCHANGED lk
      BY <2>0, <3>12, WorkerStep
    <3>13. CASE lk.holds[t] = "none" /\ Leave(t, "run") /\ UNCHANGED lk
      BY <2>0, <3>13, LeaveStep
    <3> QED
      BY <2>1, <3>1, <3>2, <3>3, <3>4, <3>5, <3>6, <3>7, <3>8, <3>9, <3>10, <3>11,
         <3>12, <3>13
  <2> QED
    BY <2>2 DEF LocksInv
<1>3. CASE Next /\ prog # "locks"
  BY <1>3 DEF Next, LocksInv
<1> QED
  BY <1>1, <1>2, <1>3

(* ... so that it holds throughout. *)
THEOREM LocksInvariance == Spec => []LocksInv
BY LocksInit, LocksStep, PTL DEF Spec

(* A list without repetitions. *)
LEMMA ListOf ==
  ASSUME NEW q \in Seq(Tasks), Distinct(q, Tasks)
  PROVE  /\ \A t : t \in SetOf(q) <=> InQueue(t, q)
         /\ SetOf(q) \in SUBSET Tasks
         /\ Cardinality(SetOf(q)) = Len(q)
<1>1. \A t : t \in SetOf(q) <=> InQueue(t, q)
  BY DEF SetOf, InQueue
<1>2. \A i \in 1..Len(q) : q[i] \in Tasks
  OBVIOUS
<1>3. SetOf(q) \in SUBSET Tasks
  BY <1>2 DEF SetOf
<1>4. \A i \in 1..Len(q) : q[i] \in SetOf(q)
  BY DEF SetOf
<1>5. \A t \in SetOf(q) : \E i \in 1..Len(q) : q[i] = t
  BY DEF SetOf
<1>6. \A i, j \in 1..Len(q) : q[i] = q[j] => i = j
  BY <1>2 DEF Distinct
<1> DEFINE T == SetOf(q)
<1> HIDE DEF T
<1>7. Len(q) = Cardinality(T)
  BY <1>3, <1>4, <1>5, <1>6, TaskNames, QueueLength DEF T
<1> QED
  BY <1>1, <1>3, <1>7 DEF T

(* taskcount counts, and each task is in one place, when those of W wait   *)
(* in the lists L, each in one.                                            *)
WaitIn(L, W) ==
  /\ \A i \in 1..Len(L) : L[i] \in Seq(Tasks) /\ Distinct(L[i], Tasks)
  /\ \A t \in Tasks : t \in W <=> \E i \in 1..Len(L) : t \in SetOf(L[i])
  /\ \A t \in Tasks : \A i, j \in 1..Len(L) :
       t \in SetOf(L[i]) /\ t \in SetOf(L[j]) => i = j

(* So it is by the count of the scheduler. *)
LEMMA InPlaces ==
  ASSUME NEW W, Acc(sch, sch.running, W), NEW L, WaitIn(L, W)
  PROVE  OnePlace(L) /\ Counted
<1>1. Acc(sch, sch.running, W)
  OBVIOUS
<1>2. /\ sch \in Thread /\ sch.runq \in Seq(Tasks) /\ sch.cache \in Seq(Tasks)
      /\ Distinct(sch.runq, Tasks) /\ Distinct(sch.cache, Tasks)
  BY <1>1, SchedFields DEF Acc
<1>3. Counted
  BY <1>1 DEF Counted, Acc, Owned
<1>5. \A i \in 1..Len(L) : L[i] \in Seq(Tasks) /\ Distinct(L[i], Tasks)
  BY DEF WaitIn
<1>7. \A t \in Tasks : t \in W <=> \E i \in 1..Len(L) : t \in SetOf(L[i])
  BY DEF WaitIn
<1>8. \A t \in Tasks : \A i, j \in 1..Len(L) :
        t \in SetOf(L[i]) /\ t \in SetOf(L[j]) => i = j
  BY DEF WaitIn
<1>9. \A t \in Tasks : t \in SetOf(sch.runq) <=> InQueue(t, sch.runq)
  BY <1>2, ListOf
<1>10. ASSUME NEW t \in Tasks, sch.st[t] = "live"
       PROVE  LET places == {p \in {"running", "ready"} :
                               IF p = "running" THEN t = sch.running
                               ELSE t \in SetOf(sch.runq)}
                  m      == Cardinality({i \in 1..Len(L) : t \in SetOf(L[i])})
              IN  Cardinality(places) + m = 1
  <2> DEFINE P == {p \in {"running", "ready"} :
                     IF p = "running" THEN t = sch.running ELSE t \in SetOf(sch.runq)}
             I == {i \in 1..Len(L) : t \in SetOf(L[i])}
  <2>1. PlacedAt(sch, sch.running, W, t)
    BY <1>1 DEF Acc, Placed, PlacedAt
  <2>2. CASE t = sch.running
    <3>1. ~InQueue(t, sch.runq) /\ t \notin W
      BY <2>1, <2>2 DEF PlacedAt
    <3>2. P = {"running"}
      BY <1>9, <2>2, <3>1
    <3>3. I = {}
      BY <1>7, <3>1
    <3> HIDE DEF P, I
    <3>4. Cardinality(P) = 1 /\ Cardinality(I) = 0
      BY <3>2, <3>3, FS_Singleton, FS_EmptySet
    <3> QED
      BY <3>4 DEF P, I
  <2>3. CASE t # sch.running /\ InQueue(t, sch.runq)
    <3>1. t \notin W
      BY <2>1, <2>3 DEF PlacedAt
    <3>2. P = {"ready"}
      BY <1>9, <2>3
    <3>3. I = {}
      BY <1>7, <3>1
    <3> HIDE DEF P, I
    <3>4. Cardinality(P) = 1 /\ Cardinality(I) = 0
      BY <3>2, <3>3, FS_Singleton, FS_EmptySet
    <3> QED
      BY <3>4 DEF P, I
  <2>4. CASE t # sch.running /\ ~InQueue(t, sch.runq)
    <3>1. t \in W
      BY <1>10, <2>1, <2>4 DEF PlacedAt
    <3>2. P = {}
      BY <1>9, <2>4
    <3>3. PICK i \in 1..Len(L) : t \in SetOf(L[i])
      BY <1>7, <3>1
    <3>4. I = {i}
      BY <1>8, <3>3
    <3> HIDE DEF P, I
    <3>5. Cardinality(P) = 0 /\ Cardinality(I) = 1
      BY <3>2, <3>4, FS_Singleton, FS_EmptySet
    <3> QED
      BY <3>5 DEF P, I
  <2> QED
    BY <2>2, <2>3, <2>4
<1>11. ASSUME NEW i \in 1..Len(L)
       PROVE  /\ Cardinality(SetOf(L[i])) = Len(L[i])
              /\ \A t \in SetOf(L[i]) : sch.st[t] = "live"
  <2> DEFINE q == L[i]
  <2>1. q \in Seq(Tasks) /\ Distinct(q, Tasks)
    BY <1>5
  <2> HIDE DEF q
  <2>2. Cardinality(SetOf(q)) = Len(q) /\ SetOf(q) \in SUBSET Tasks
    BY <2>1, ListOf
  <2>3. \A t \in SetOf(q) : t \in W
    BY <1>7, <2>2 DEF q
  <2>4. \A t \in SetOf(q) : sch.st[t] = "live"
    BY <1>1, <2>2, <2>3 DEF Acc, Placed
  <2> QED
    BY <2>2, <2>4 DEF q
<1>12. /\ Cardinality(SetOf(sch.runq)) = Len(sch.runq)
       /\ \A t \in SetOf(sch.runq) : sch.st[t] = "live"
  <2>1. Cardinality(SetOf(sch.runq)) = Len(sch.runq) /\ SetOf(sch.runq) \in SUBSET Tasks
    BY <1>2, ListOf
  <2> QED
    BY <1>1, <1>9, <2>1 DEF Acc, Placed
<1>13. /\ SetOf(sch.cache) = {t \in Tasks : sch.st[t] = "cached"}
       /\ Cardinality(SetOf(sch.cache)) = Len(sch.cache)
  <2>1. /\ \A t : t \in SetOf(sch.cache) <=> InQueue(t, sch.cache)
        /\ SetOf(sch.cache) \in SUBSET Tasks
        /\ Cardinality(SetOf(sch.cache)) = Len(sch.cache)
    BY <1>2, ListOf
  <2>2. \A t \in Tasks : sch.st[t] = "cached" <=> InQueue(t, sch.cache)
    BY <1>1 DEF Acc, Placed
  <2> QED
    BY <2>1, <2>2
<1>14. OnePlace(L)
  BY <1>10, <1>11, <1>12, <1>13 DEF OnePlace
<1> QED
  BY <1>3, <1>14

(* The lists of the locks. *)
LEMMA LocksInPlace ==
  ASSUME NEW o, NEW qw, NEW n, NEW w, NEW rq, NEW wq, NEW z, NEW h,
         Lk(sch, o, qw, n, w, rq, wq, z, h)
  PROVE  OnePlace(<<qw, rq, wq, z>>) /\ Counted
<1> DEFINE W == WaitersOf(qw, rq, wq, z)
           L == <<qw, rq, wq, z>>
<1>1. Acc(sch, sch.running, W)
  BY DEF Lk
<1>4. /\ Len(L) = 4 /\ 1..Len(L) = {1, 2, 3, 4}
      /\ L[1] = qw /\ L[2] = rq /\ L[3] = wq /\ L[4] = z
  OBVIOUS
<1>5. \A i \in 1..Len(L) : L[i] \in Seq(Tasks) /\ Distinct(L[i], Tasks)
  <2>1. /\ qw \in Seq(Tasks) /\ rq \in Seq(Tasks) /\ wq \in Seq(Tasks) /\ z \in Seq(Tasks)
    BY DEF Lk, LockTypes
  <2>2. Locked4(qw, rq, wq, z)
    BY DEF Lk
  <2> HIDE DEF L
  <2> QED
    BY <1>4, <2>1, <2>2 DEF Locked4
<1>6. \A i \in 1..Len(L) : \A t : t \in SetOf(L[i]) <=> InQueue(t, L[i])
  BY <1>5, ListOf
<1> HIDE DEF L
<1>7. \A t \in Tasks : t \in W <=> \E i \in 1..Len(L) : t \in SetOf(L[i])
  BY <1>4, <1>6 DEF WaitersOf
<1>8. ASSUME NEW t \in Tasks, NEW i \in 1..Len(L), NEW j \in 1..Len(L),
             t \in SetOf(L[i]), t \in SetOf(L[j])
      PROVE  i = j
  <2>1. Agrees(sch.pc, o, qw, w, rq, wq, z, h, t)
    BY DEF Lk
  <2>2. /\ InQueue(t, qw) => sch.pc[t] = "qlock"
        /\ InQueue(t, rq) => sch.pc[t] = "rlock"
        /\ InQueue(t, wq) => sch.pc[t] = "wlock"
        /\ InQueue(t, z) => sch.pc[t] = "slept"
    BY <2>1 DEF Agrees
  <2>3. InQueue(t, L[i]) /\ InQueue(t, L[j])
    BY <1>6, <1>8
  <2> QED
    BY <1>4, <2>2, <2>3
<1>9. WaitIn(L, W)
  BY <1>5, <1>7, <1>8 DEF WaitIn
<1> QED
  BY <1>1, <1>9, InPlaces DEF L

(* No task of the locks is lost or queued twice. *)
THEOREM LockTasksAccounted == Spec => [](prog = "locks" => TasksAccounted)
<1>1. LocksInv => (prog = "locks" => TasksAccounted)
  <2> SUFFICES ASSUME LocksInv, prog = "locks", On(sch)
               PROVE  OnePlace(Waits) /\ Counted
    BY DEF TasksAccounted
  <2>1. PICK o, qw, n, w, rq, wq, z, h : /\ lk = MakeLk(o, qw, n, w, rq, wq, z, h)
                                         /\ Lk(sch, o, qw, n, w, rq, wq, z, h)
    BY DEF LocksInv, InLocks
  <2>2. LockWaits = <<qw, rq, wq, z>>
    BY <2>1 DEF LockWaits, MakeLk
  <2>3. Waits = LockWaits
    BY DEF Waits
  <2> QED
    BY <2>1, <2>2, <2>3, LocksInPlace
<1> QED
  BY <1>1, LocksInvariance, PTL

(* Nobody waits for a lock that is to be had. *)
THEOREM LockWaitersBlocked == Spec => [](prog = "locks" => WaitersBlocked)
<1>1. LocksInv => (prog = "locks" => WaitersBlocked)
  <2> SUFFICES ASSUME LocksInv, prog = "locks", On(sch)
               PROVE  LocksHandedOn
    BY DEF WaitersBlocked
  <2>1. PICK o, qw, n, w, rq, wq, z, h : /\ lk = MakeLk(o, qw, n, w, rq, wq, z, h)
                                         /\ Lk(sch, o, qw, n, w, rq, wq, z, h)
    BY DEF LocksInv, InLocks
  <2>2. /\ lk.q.owner = o /\ lk.q.waiting = qw /\ lk.holds = h
        /\ lk.rw.readers = n /\ lk.rw.writer = w /\ lk.rw.rwaiting = rq /\ lk.rw.wwaiting = wq
    BY <2>1 DEF MakeLk
  <2>3. HandedOn(o, qw, n, w, rq, wq)
    BY <2>1 DEF Lk
  <2>4. \A t \in Tasks : Agrees(sch.pc, o, qw, w, rq, wq, z, h, t)
    BY <2>1 DEF Lk
  <2>5. \A t \in Tasks : /\ h[t] = "q" <=> (o = t /\ sch.pc[t] # "qlock")
                         /\ h[t] = "w" <=> (w = t /\ sch.pc[t] # "wlock")
    BY <2>4 DEF Agrees
  <2>6. /\ lk.q.waiting # <<>> => lk.q.owner # Nobody
        /\ lk.rw.wwaiting # <<>> => ~CanWrite(lk.rw)
        /\ lk.rw.rwaiting # <<>> => ~CanRead(lk.rw)
        /\ lk.rw.writer # Nobody => lk.rw.readers = 0
    BY <2>2, <2>3 DEF HandedOn, CanWrite, CanRead
  <2> QED
    BY <2>2, <2>5, <2>6 DEF LocksHandedOn
<1> QED
  BY <1>1, LocksInvariance, PTL

(* The asserts of the locks hold. *)
THEOREM LockAbortsExplained == Spec => [](prog = "locks" => AbortsExplained)
<1>1. LocksInv => (prog = "locks" => AbortsExplained)
  BY DEF LocksInv, InLocks, AbortsExplained
<1> QED
  BY <1>1, LocksInvariance, PTL

(***************************************************************************)
(* The channels, by the fields of ch: the rings buf with off and nb, what  *)
(* was sent and got.                                                       *)
(***************************************************************************)
Value0 == Value \cup {NoValue}
Slots(c) == 0..(bufsize[c] - 1)

(* slot i of a ring of size b is one of the n that follow o *)
InWindow(o, n, b, i) == (o <= i /\ i < o + n) \/ i + b < o + n

Rings(buf, off, nb) ==
  /\ buf \in [Chan -> UNION {[Slots(c) -> Value0] : c \in Chan}]
  /\ off \in [Chan -> Nat] /\ nb \in [Chan -> Nat]
  /\ \A c \in Chan :
       /\ buf[c] \in [Slots(c) -> Value0]
       /\ nb[c] <= bufsize[c] /\ (off[c] = 0 \/ off[c] < bufsize[c])
       /\ \A i \in Slots(c) :
            buf[c][i] # NoValue <=> InWindow(off[c], nb[c], bufsize[c], i)

(* Every value that was sent is in one place: with who got it, or in one   *)
(* slot of one ring.                                                       *)
Kept(buf, sent, got) ==
  /\ sent \in SUBSET Value /\ got \in [Value0 -> Nat] /\ got[NoValue] = 0
  /\ \A v \in Value :
       /\ v \notin sent => got[v] = 0
       /\ v \in sent => \/ got[v] = 1
                        \/ got[v] = 0 /\ \E c \in Chan : \E i \in Slots(c) : buf[c][i] = v
  /\ \A c \in Chan : \A i \in Slots(c) :
       buf[c][i] # NoValue =>
         /\ buf[c][i] \in sent /\ got[buf[c][i]] = 0
         /\ \A d \in Chan : \A j \in Slots(d) : buf[d][j] = buf[c][i] => d = c /\ j = i

Data(buf, off, nb, sent, got) == Rings(buf, off, nb) /\ Kept(buf, sent, got)

(* The rest of a division. *)
LEMMA Rest ==
  ASSUME NEW b \in Nat, NEW x \in Nat, b > 0, x < 2 * b
  PROVE  x % b = IF x < b THEN x ELSE x - b
<1>1. CASE x < b
  BY <1>1, SMT
<1>2. CASE b <= x
  BY <1>2, SMT
<1> QED
  BY <1>1, <1>2

(* The sizes and the slots of the rings. *)
LEMMA Sizes ==
  ASSUME NEW c \in Chan
  PROVE  /\ bufsize[c] \in Nat /\ MaxSend \in Nat /\ Value \in SUBSET Nat
         /\ NoValue \notin Value
         /\ \A i : i \in Slots(c) <=> i \in Nat /\ i < bufsize[c]
BY ChanAssumption DEF Value, NoValue, Slots

(* How the window of a ring moves when its first slot is given up, and     *)
(* grows when the slot behind it is taken.                                 *)
TurnsTo(o, n, b, i, p) ==
  /\ o \in Nat /\ n \in Nat /\ b \in Nat /\ i \in Nat /\ p \in Nat
  /\ n >= 1 /\ n <= b /\ o < b /\ i < b /\ p = IF o + 1 = b THEN 0 ELSE o + 1
Narrows(o, n, b, i, p) == InWindow(p, n - 1, b, i) <=> InWindow(o, n, b, i) /\ i # o

(* The window narrows by its first slot. *)
LEMMA WindowTaken ==
  ASSUME NEW o, NEW n, NEW b, NEW i, NEW p, TurnsTo(o, n, b, i, p)
  PROVE  Narrows(o, n, b, i, p)
<1> USE DEF TurnsTo, Narrows
<1>1. CASE o + 1 = b
  <2>1. p = 0
    BY <1>1
  <2>2. InWindow(p, n - 1, b, i) <=> i < n - 1
    BY <2>1 DEF InWindow
  <2>3. InWindow(o, n, b, i) <=> i = o \/ i + b < o + n
    BY <1>1 DEF InWindow
  <2>4. i + b < o + n <=> i < n - 1
    BY <1>1
  <2>5. i < n - 1 => i # o
    BY <1>1
  <2> QED
    BY <2>2, <2>3, <2>4, <2>5
<1>2. CASE o + 1 # b
  <2>1. p = o + 1
    BY <1>2
  <2>2. InWindow(p, n - 1, b, i) <=> (o + 1 <= i /\ i < o + n) \/ i + b < o + n
    BY <2>1 DEF InWindow
  <2>3. i + b < o + n => i # o
    OBVIOUS
  <2>4. o + 1 <= i <=> o <= i /\ i # o
    OBVIOUS
  <2>5. InWindow(o, n, b, i) <=> (o <= i /\ i < o + n) \/ i + b < o + n
    BY DEF InWindow
  <2> QED
    BY <2>2, <2>3, <2>4, <2>5
<1> QED
  BY <1>1, <1>2

(* It grows by the slot behind it. *)
LEMMA WindowPut ==
  ASSUME NEW o \in Nat, NEW n \in Nat, NEW b \in Nat, NEW i \in Nat, NEW k \in Nat,
         n < b, o < b, i < b, k = IF o + n < b THEN o + n ELSE (o + n) - b
  PROVE  /\ k < b /\ ~InWindow(o, n, b, k)
         /\ InWindow(o, n + 1, b, i) <=> InWindow(o, n, b, i) \/ i = k
<1>1. CASE o + n < b
  <2>1. k = o + n
    BY <1>1
  <2> QED
    BY <1>1, <2>1 DEF InWindow
<1>2. CASE ~(o + n < b)
  <2>1. k = (o + n) - b
    BY <1>2
  <2> QED
    BY <1>2, <2>1 DEF InWindow
<1> QED
  BY <1>1, <1>2

(* Only slot i of channel c differs. *)
Differ(buf, buf2, c, i) ==
  \A d \in Chan : \A j \in Slots(d) : d # c \/ j # i => buf2[d][j] = buf[d][j]

(* The fields that the copies change. *)
SlotSet(buf, c, i, v) == [buf EXCEPT ![c][i] = v]
Onward(off, c)        == [off EXCEPT ![c] = IF off[c] + 1 = bufsize[c] THEN 0 ELSE off[c] + 1]
Less(nb, c)           == [nb EXCEPT ![c] = @ - 1]
More(nb, c)           == [nb EXCEPT ![c] = @ + 1]
OneMore(got, v)       == [got EXCEPT ![v] = @ + 1]
Behind(off, nb, c)    == (off[c] + nb[c]) % bufsize[c]

(* The rings, of which slot i of channel c was v and is w now. *)
RingsTo(buf, buf2, off2, nb2, c, i, v, w) ==
  /\ Rings(buf2, off2, nb2) /\ i \in Slots(c) /\ buf2[c][i] = w /\ Differ(buf, buf2, c, i)
  /\ v = NoValue <=> buf[c][i] = NoValue

(* FromRing takes the oldest value of a ring, ... *)
LEMMA TakenRings ==
  ASSUME NEW buf, NEW off, NEW nb, Rings(buf, off, nb), NEW c \in Chan, nb[c] # 0,
         NEW o, o = off[c],
         NEW buf2, NEW off2, NEW nb2,
         buf2 = SlotSet(buf, c, o, NoValue), off2 = Onward(off, c), nb2 = Less(nb, c)
  PROVE  /\ RingsTo(buf, buf2, off2, nb2, c, o, buf[c][o], NoValue)
         /\ buf[c][o] # NoValue
<1>1. /\ buf \in [Chan -> UNION {[Slots(d) -> Value0] : d \in Chan}]
      /\ off \in [Chan -> Nat] /\ nb \in [Chan -> Nat]
      /\ buf[c] \in [Slots(c) -> Value0] /\ o \in Nat /\ nb[c] \in Nat
      /\ nb[c] <= bufsize[c] /\ (o = 0 \/ o < bufsize[c]) /\ nb[c] >= 1
      /\ bufsize[c] \in Nat
  BY Sizes DEF Rings
<1>2. o \in Slots(c)
  BY <1>1, Sizes
<1>3. InWindow(o, nb[c], bufsize[c], o)
  BY <1>1 DEF InWindow
<1>4. buf[c][o] # NoValue
  BY <1>2, <1>3 DEF Rings
<1> DEFINE r == [buf[c] EXCEPT ![o] = NoValue]
           p == IF o + 1 = bufsize[c] THEN 0 ELSE o + 1
<1>5. r \in [Slots(c) -> Value0] /\ r[o] = NoValue /\ \A i \in Slots(c) \ {o} : r[i] = buf[c][i]
  BY <1>1, <1>2 DEF Value0
<1>6. buf2 = [buf EXCEPT ![c] = r]
  BY DEF SlotSet
<1> HIDE DEF r
<1>7. /\ buf2 \in [Chan -> UNION {[Slots(d) -> Value0] : d \in Chan}]
      /\ buf2[c] = r /\ \A d \in Chan \ {c} : buf2[d] = buf[d]
  BY <1>1, <1>5, <1>6
<1>8. /\ off2 \in [Chan -> Nat] /\ off2[c] = p /\ \A d \in Chan \ {c} : off2[d] = off[d]
  BY <1>1 DEF Onward
<1>9. /\ nb2 \in [Chan -> Nat] /\ nb2[c] = nb[c] - 1 /\ \A d \in Chan \ {c} : nb2[d] = nb[d]
  BY <1>1 DEF Less
<1>10. p \in Nat /\ (p = 0 \/ p < bufsize[c])
  <2> DEFINE b == bufsize[c]
  <2>1. o \in Nat /\ b \in Nat /\ o < b
    BY <1>1
  <2> HIDE DEF b
  <2>2. (IF o + 1 = b THEN 0 ELSE o + 1) \in Nat
    BY <2>1
  <2>3. o + 1 = b \/ o + 1 < b
    BY <2>1
  <2> QED
    BY <2>2, <2>3 DEF b
<1>11. ASSUME NEW i \in Slots(c)
       PROVE  InWindow(p, nb[c] - 1, bufsize[c], i)
               <=> InWindow(o, nb[c], bufsize[c], i) /\ i # o
  <2>1. i \in Nat /\ i < bufsize[c]
    BY Sizes
  <2>2. o < bufsize[c]
    BY <1>1
  <2> DEFINE b == bufsize[c]
             m == nb[c]
  <2>3. TurnsTo(o, m, b, i, p)
    <3>1. /\ o \in Nat /\ m \in Nat /\ b \in Nat /\ i \in Nat /\ p \in Nat
          /\ m >= 1 /\ m <= b /\ o < b /\ i < b
      BY <1>1, <1>10, <2>1, <2>2
    <3>2. p = IF o + 1 = b THEN 0 ELSE o + 1
      OBVIOUS
    <3> HIDE DEF b, m, p
    <3> QED
      BY <3>1, <3>2 DEF TurnsTo
  <2> HIDE DEF b, m, p
  <2>4. Narrows(o, m, b, i, p)
    BY <2>3, WindowTaken
  <2> QED
    BY <2>4 DEF b, m, Narrows
<1> HIDE DEF p
<1>12. ASSUME NEW d \in Chan
       PROVE  /\ buf2[d] \in [Slots(d) -> Value0]
              /\ nb2[d] <= bufsize[d] /\ (off2[d] = 0 \/ off2[d] < bufsize[d])
              /\ \A i \in Slots(d) :
                   buf2[d][i] # NoValue <=> InWindow(off2[d], nb2[d], bufsize[d], i)
  <2>1. CASE d # c
    BY <1>7, <1>8, <1>9, <2>1, ZenonT(60) DEF Rings
  <2>2. CASE d = c
    <3>1. \A i \in Slots(c) :
            buf2[c][i] # NoValue <=> InWindow(off2[c], nb2[c], bufsize[c], i)
      <4> TAKE i \in Slots(c)
      <4>1. InWindow(off2[c], nb2[c], bufsize[c], i)
              <=> InWindow(o, nb[c], bufsize[c], i) /\ i # o
        BY <1>8, <1>9, <1>11
      <4>2. buf[c][i] # NoValue <=> InWindow(o, nb[c], bufsize[c], i)
        BY DEF Rings
      <4> QED
        BY <1>5, <1>7, <4>1, <4>2
    <3>2. nb2[c] <= bufsize[c]
      BY <1>1, <1>9
    <3> QED
      BY <1>5, <1>7, <1>8, <1>10, <2>2, <3>1, <3>2
  <2> QED
    BY <2>1, <2>2
<1>13. Rings(buf2, off2, nb2)
  BY <1>7, <1>8, <1>9, <1>12 DEF Rings
<1>14. buf2[c][o] = NoValue /\ Differ(buf, buf2, c, o)
  BY <1>5, <1>7 DEF Differ
<1> QED
  BY <1>2, <1>4, <1>13, <1>14 DEF RingsTo

(* ... and ToRing adds one behind the newest. *)
LEMMA PutRings ==
  ASSUME NEW buf, NEW off, NEW nb, Rings(buf, off, nb), NEW c \in Chan, nb[c] < bufsize[c],
         NEW v \in Value, NEW k, k = Behind(off, nb, c),
         NEW buf2, NEW nb2,
         buf2 = SlotSet(buf, c, k, v), nb2 = More(nb, c)
  PROVE  RingsTo(buf, buf2, off, nb2, c, k, NoValue, v)
<1> DEFINE o == off[c]
           n == nb[c]
           b == bufsize[c]
<1>1. /\ buf \in [Chan -> UNION {[Slots(d) -> Value0] : d \in Chan}]
      /\ off \in [Chan -> Nat] /\ nb \in [Chan -> Nat]
      /\ buf[c] \in [Slots(c) -> Value0] /\ o \in Nat /\ n \in Nat
      /\ n < b /\ o < b /\ b \in Nat
  BY Sizes DEF Rings
<1>2. k \in Nat /\ k = IF o + n < b THEN o + n ELSE (o + n) - b
  <2> DEFINE x == o + n
  <2>0. o \in Nat /\ n \in Nat /\ b \in Nat /\ n < b /\ o < b
    BY <1>1
  <2>1. x \in Nat /\ x < 2 * b /\ b > 0
    <3> HIDE DEF o, n, b
    <3> QED
      BY <2>0
  <2> HIDE DEF x
  <2>2. x % b = IF x < b THEN x ELSE x - b
    BY <1>1, <2>1, Rest
  <2>3. k = x % b
    BY DEF x, Behind
  <2> QED
    BY <1>1, <2>1, <2>2, <2>3 DEF x
<1>3. k < b /\ ~InWindow(o, n, b, k)
  BY <1>1, <1>2, WindowPut
<1>4. k \in Slots(c)
  BY <1>2, <1>3, Sizes
<1>5. buf[c][k] = NoValue
  BY <1>3, <1>4 DEF Rings
<1>6. ASSUME NEW i \in Slots(c)
      PROVE  InWindow(o, n + 1, b, i) <=> InWindow(o, n, b, i) \/ i = k
  <2>1. i \in Nat /\ i < b
    BY Sizes
  <2> QED
    BY <1>1, <1>2, <2>1, WindowPut
<1> DEFINE r == [buf[c] EXCEPT ![k] = v]
<1>7. v \in Value0 /\ v # NoValue
  BY Sizes DEF Value0
<1>8. r \in [Slots(c) -> Value0] /\ r[k] = v /\ \A i \in Slots(c) \ {k} : r[i] = buf[c][i]
  BY <1>1, <1>4, <1>7
<1>9. buf2 = [buf EXCEPT ![c] = r]
  BY DEF SlotSet
<1> HIDE DEF r
<1>10. /\ buf2 \in [Chan -> UNION {[Slots(d) -> Value0] : d \in Chan}]
       /\ buf2[c] = r /\ \A d \in Chan \ {c} : buf2[d] = buf[d]
  <2>1. r \in UNION {[Slots(d) -> Value0] : d \in Chan}
    BY <1>8
  <2> DEFINE B == UNION {[Slots(d) -> Value0] : d \in Chan}
  <2>2. r \in B /\ buf \in [Chan -> B]
    BY <1>1, <2>1
  <2> HIDE DEF B
  <2>3. /\ buf2 \in [Chan -> B]
        /\ buf2[c] = r /\ \A d \in Chan \ {c} : buf2[d] = buf[d]
    BY <1>9, <2>2
  <2> QED
    BY <2>3 DEF B
<1>11. /\ nb2 \in [Chan -> Nat] /\ nb2[c] = n + 1 /\ \A d \in Chan \ {c} : nb2[d] = nb[d]
  BY <1>1 DEF More
<1>12. ASSUME NEW d \in Chan
       PROVE  /\ buf2[d] \in [Slots(d) -> Value0]
              /\ nb2[d] <= bufsize[d] /\ (off[d] = 0 \/ off[d] < bufsize[d])
              /\ \A i \in Slots(d) :
                   buf2[d][i] # NoValue <=> InWindow(off[d], nb2[d], bufsize[d], i)
  <2>1. CASE d # c
    BY <1>10, <1>11, <2>1, ZenonT(60) DEF Rings
  <2>2. CASE d = c
    <3>1. \A i \in Slots(c) :
            buf2[c][i] # NoValue <=> InWindow(off[c], nb2[c], bufsize[c], i)
      <4> TAKE i \in Slots(c)
      <4>1. InWindow(off[c], nb2[c], bufsize[c], i)
              <=> InWindow(off[c], nb[c], bufsize[c], i) \/ i = k
        BY <1>6, <1>11
      <4>2. buf[c][i] # NoValue <=> InWindow(off[c], nb[c], bufsize[c], i)
        BY DEF Rings
      <4> QED
        BY <1>7, <1>8, <1>10, <4>1, <4>2
    <3>2. nb2[c] <= bufsize[c]
      BY <1>1, <1>11
    <3> QED
      BY <1>1, <1>8, <1>10, <2>2, <3>1, <3>2
  <2> QED
    BY <2>1, <2>2
<1>13. Rings(buf2, off, nb2)
  BY <1>1, <1>10, <1>11, <1>12 DEF Rings
<1>14. buf2[c][k] = v /\ Differ(buf, buf2, c, k)
  BY <1>8, <1>10 DEF Differ
<1> QED
  BY <1>4, <1>5, <1>13, <1>14 DEF RingsTo

(* A value that leaves a ring is received, ... *)
LEMMA TakenKept ==
  ASSUME NEW buf, NEW sent, NEW got, Kept(buf, sent, got),
         NEW c \in Chan, NEW i \in Slots(c), buf[c][i] # NoValue,
         NEW buf2, buf2[c][i] = NoValue, Differ(buf, buf2, c, i),
         NEW got2, got2 = OneMore(got, buf[c][i])
  PROVE  Kept(buf2, sent, got2)
<1> DEFINE v == buf[c][i]
<1>1. /\ v \in sent /\ got[v] = 0 /\ sent \in SUBSET Value /\ got \in [Value0 -> Nat]
      /\ got[NoValue] = 0
      /\ \A d \in Chan : \A j \in Slots(d) : buf[d][j] = v => d = c /\ j = i
  BY DEF Kept
<1>2. v \in Value /\ v # NoValue /\ v \in Value0 /\ NoValue \in Value0
  BY <1>1, Sizes DEF Value0
<1> HIDE DEF v
<1>3. /\ got2 \in [Value0 -> Nat] /\ got2[v] = 1
      /\ \A w \in Value0 \ {v} : got2[w] = got[w]
  BY <1>1, <1>2 DEF v, OneMore
<1>4. \A w \in Value \ {v} : w \in Value0
  BY DEF Value0
<1>5. ASSUME NEW w \in Value
      PROVE  /\ w \notin sent => got2[w] = 0
             /\ w \in sent => \/ got2[w] = 1
                              \/ /\ got2[w] = 0
                                 /\ \E d \in Chan : \E j \in Slots(d) : buf2[d][j] = w
  <2>1. CASE w = v
    BY <1>1, <1>3, <2>1
  <2>2. CASE w # v
    <3>1. got2[w] = got[w]
      BY <1>3, <1>4, <2>2
    <3>2. \A d \in Chan : \A j \in Slots(d) : buf[d][j] = w => buf2[d][j] = w
      BY <2>2 DEF Differ, v
    <3> QED
      BY <3>1, <3>2 DEF Kept
  <2> QED
    BY <2>1, <2>2
<1>6. ASSUME NEW d \in Chan, NEW j \in Slots(d), buf2[d][j] # NoValue
      PROVE  /\ buf2[d][j] \in sent /\ got2[buf2[d][j]] = 0
             /\ \A e \in Chan : \A k \in Slots(e) : buf2[e][k] = buf2[d][j] => e = d /\ k = j
  <2> DEFINE w == buf2[d][j]
  <2>1. (d # c \/ j # i) /\ w = buf[d][j]
    BY <1>6 DEF Differ
  <2>2. /\ w \in sent /\ got[w] = 0 /\ w # v /\ w \in Value0
        /\ \A e \in Chan : \A k \in Slots(e) : buf[e][k] = w => e = d /\ k = j
    BY <1>1, <1>6, <2>1 DEF Kept, v, Value0
  <2>3. \A e \in Chan : \A k \in Slots(e) : buf2[e][k] = w => buf[e][k] = w
    BY <1>6 DEF Differ
  <2> HIDE DEF w
  <2>4. w \in sent /\ got2[w] = 0
    BY <1>3, <2>2
  <2> QED
    BY <2>2, <2>3, <2>4 DEF w
<1> QED
  BY <1>1, <1>2, <1>3, <1>5, <1>6 DEF Kept

(* ... one that is sent enters a free slot, ... *)
LEMMA PutKept ==
  ASSUME NEW buf, NEW sent, NEW got, Kept(buf, sent, got),
         NEW c \in Chan, NEW i \in Slots(c), buf[c][i] = NoValue,
         NEW v \in Value, v \notin sent,
         NEW buf2, buf2[c][i] = v, Differ(buf, buf2, c, i),
         NEW sent2, sent2 = sent \cup {v}
  PROVE  Kept(buf2, sent2, got)
<1>1. /\ sent \in SUBSET Value /\ got \in [Value0 -> Nat] /\ got[NoValue] = 0 /\ got[v] = 0
      /\ v # NoValue
  BY Sizes DEF Kept
<1>2. \A d \in Chan : \A j \in Slots(d) : buf[d][j] # NoValue => buf2[d][j] = buf[d][j]
  BY DEF Differ
<1>3. \A d \in Chan : \A j \in Slots(d) : buf[d][j] # v
  BY <1>1 DEF Kept
<1>4. ASSUME NEW w \in Value
      PROVE  /\ w \notin sent2 => got[w] = 0
             /\ w \in sent2 => \/ got[w] = 1
                               \/ /\ got[w] = 0
                                  /\ \E d \in Chan : \E j \in Slots(d) : buf2[d][j] = w
  <2>1. CASE w = v
    BY <1>1, <2>1
  <2>2. CASE w # v
    BY <1>2, <2>2, Sizes DEF Kept
  <2> QED
    BY <2>1, <2>2
<1>5. ASSUME NEW d \in Chan, NEW j \in Slots(d), buf2[d][j] # NoValue
      PROVE  /\ buf2[d][j] \in sent2 /\ got[buf2[d][j]] = 0
             /\ \A e \in Chan : \A k \in Slots(e) : buf2[e][k] = buf2[d][j] => e = d /\ k = j
  <2>1. CASE d = c /\ j = i
    <3>1. \A e \in Chan : \A k \in Slots(e) : buf2[e][k] = v => e = c /\ k = i
      BY <1>3 DEF Differ
    <3> QED
      BY <1>1, <2>1, <3>1
  <2>2. CASE d # c \/ j # i
    <3>1. buf2[d][j] = buf[d][j]
      BY <2>2 DEF Differ
    <3>2. /\ buf[d][j] \in sent /\ got[buf[d][j]] = 0 /\ buf[d][j] # v
          /\ \A e \in Chan : \A k \in Slots(e) : buf[e][k] = buf[d][j] => e = d /\ k = j
      BY <1>5, <3>1 DEF Kept
    <3>3. \A e \in Chan : \A k \in Slots(e) : buf2[e][k] = buf2[d][j] => buf[e][k] = buf[d][j]
      BY <3>1, <3>2 DEF Differ
    <3> QED
      BY <3>1, <3>2, <3>3
  <2> QED
    BY <2>1, <2>2
<1> QED
  BY <1>1, <1>4, <1>5 DEF Kept

(* ... or goes to its receiver at once. *)
LEMMA DirectKept ==
  ASSUME NEW buf, NEW sent, NEW got, Kept(buf, sent, got),
         NEW v \in Value, v \notin sent,
         NEW sent2, sent2 = sent \cup {v}, NEW got2, got2 = OneMore(got, v)
  PROVE  Kept(buf, sent2, got2)
<1>1. /\ sent \in SUBSET Value /\ got \in [Value0 -> Nat] /\ got[NoValue] = 0 /\ got[v] = 0
      /\ v # NoValue /\ v \in Value0 /\ NoValue \in Value0
  <2>1. v # NoValue /\ v \in Value0 /\ NoValue \in Value0
    BY ChanAssumption DEF Value0, Value, NoValue
  <2>2. got[v] = 0
    BY DEF Kept
  <2> QED
    BY <2>1, <2>2 DEF Kept
<1>2. /\ got2 \in [Value0 -> Nat] /\ got2[v] = 1
      /\ \A w \in Value0 \ {v} : got2[w] = got[w]
  BY <1>1 DEF OneMore
<1>3. \A w \in Value \ {v} : w \in Value0
  BY DEF Value0
<1>4. ASSUME NEW w \in Value
      PROVE  /\ w \notin sent2 => got2[w] = 0
             /\ w \in sent2 => \/ got2[w] = 1
                               \/ /\ got2[w] = 0
                                  /\ \E d \in Chan : \E j \in Slots(d) : buf[d][j] = w
  <2>1. CASE w = v
    BY <1>1, <1>2, <2>1
  <2>2. CASE w # v
    BY <1>2, <1>3, <2>2 DEF Kept
  <2> QED
    BY <2>1, <2>2
<1>5. ASSUME NEW d \in Chan, NEW j \in Slots(d), buf[d][j] # NoValue
      PROVE  /\ buf[d][j] \in sent2 /\ got2[buf[d][j]] = 0
             /\ \A e \in Chan : \A k \in Slots(e) : buf[e][k] = buf[d][j] => e = d /\ k = j
  <2>1. /\ buf[d][j] \in sent /\ got[buf[d][j]] = 0 /\ buf[d][j] # v
        /\ \A e \in Chan : \A k \in Slots(e) : buf[e][k] = buf[d][j] => e = d /\ k = j
    BY <1>5 DEF Kept
  <2>2. buf[d][j] \in Value0
    BY <1>1, <2>1 DEF Value0
  <2> QED
    BY <1>2, <2>1, <2>2
<1> QED
  BY <1>1, <1>2, <1>4, <1>5 DEF Kept

(* The channels by their fields, and what the copies make of them. *)
MakeCh(b, o, n, q, x, s, g) ==
  [buf |-> b, off |-> o, nbuf |-> n, queue |-> q, next |-> x, sent |-> s, got |-> g]

(* One field is set. *)
LEMMA SetField ==
  ASSUME NEW b, NEW o, NEW n, NEW q, NEW x, NEW s, NEW g, NEW a, NEW m,
         m = MakeCh(b, o, n, q, x, s, g)
  PROVE  /\ [m EXCEPT !.buf = a]   = MakeCh(a, o, n, q, x, s, g)
         /\ [m EXCEPT !.off = a]   = MakeCh(b, a, n, q, x, s, g)
         /\ [m EXCEPT !.nbuf = a]  = MakeCh(b, o, a, q, x, s, g)
         /\ [m EXCEPT !.queue = a] = MakeCh(b, o, n, a, x, s, g)
         /\ [m EXCEPT !.next = a]  = MakeCh(b, o, n, q, a, s, g)
         /\ [m EXCEPT !.sent = a]  = MakeCh(b, o, n, q, x, a, g)
         /\ [m EXCEPT !.got = a]   = MakeCh(b, o, n, q, x, s, a)
         /\ m.buf = b /\ m.off = o /\ m.nbuf = n /\ m.queue = q /\ m.next = x
         /\ m.sent = s /\ m.got = g
<1>1. [m EXCEPT !.buf = a] = MakeCh(a, o, n, q, x, s, g)
  BY DEF MakeCh
<1>2. [m EXCEPT !.off = a] = MakeCh(b, a, n, q, x, s, g)
  BY DEF MakeCh
<1>3. [m EXCEPT !.nbuf = a] = MakeCh(b, o, a, q, x, s, g)
  BY DEF MakeCh
<1>4. [m EXCEPT !.queue = a] = MakeCh(b, o, n, a, x, s, g)
  BY DEF MakeCh
<1>5. [m EXCEPT !.next = a] = MakeCh(b, o, n, q, a, s, g)
  BY DEF MakeCh
<1>6. [m EXCEPT !.sent = a] = MakeCh(b, o, n, q, x, a, g)
  BY DEF MakeCh
<1>7. [m EXCEPT !.got = a] = MakeCh(b, o, n, q, x, s, a)
  BY DEF MakeCh
<1>8. /\ m.buf = b /\ m.off = o /\ m.nbuf = n /\ m.queue = q /\ m.next = x
      /\ m.sent = s /\ m.got = g
  BY DEF MakeCh
<1> QED
  BY <1>1, <1>2, <1>3, <1>4, <1>5, <1>6, <1>7, <1>8

(* A value is received. *)
LEMMA GotFields ==
  ASSUME NEW b, NEW o, NEW n, NEW q, NEW x, NEW s, NEW g, NEW v, NEW m,
         m = MakeCh(b, o, n, q, x, s, g)
  PROVE  Got(m, v) = MakeCh(b, o, n, q, x, s, OneMore(g, v))
<1>1. Got(m, v) = [m EXCEPT !.got = [m.got EXCEPT ![v] = @ + 1]]
  BY Zenon DEF Got
<1>2. m.got = g
  BY SetField
<1> DEFINE h == [g EXCEPT ![v] = @ + 1]
<1>3. Got(m, v) = [m EXCEPT !.got = h]
  BY <1>1, <1>2
<1> HIDE DEF h
<1>4. [m EXCEPT !.got = h] = MakeCh(b, o, n, q, x, s, h)
  BY SetField
<1>5. h = OneMore(g, v)
  BY DEF h, OneMore
<1> QED
  BY <1>3, <1>4, <1>5

(* The oldest value leaves the ring, ... *)
LEMMA FromRingFields ==
  ASSUME NEW b, NEW o, NEW n, NEW q, NEW x, NEW s, NEW g, NEW c, NEW m,
         m = MakeCh(b, o, n, q, x, s, g)
  PROVE  FromRing(m, c)
           = MakeCh(SlotSet(b, c, o[c], NoValue), Onward(o, c), Less(n, c), q, x, s,
                    OneMore(g, b[c][o[c]]))
<1> DEFINE i  == o[c]
           p  == IF i + 1 = bufsize[c] THEN 0 ELSE i + 1
           b1 == [b EXCEPT ![c][i] = NoValue]
           o1 == [o EXCEPT ![c] = p]
           n1 == [n EXCEPT ![c] = @ - 1]
           v  == b[c][i]
           y  == [m EXCEPT !.nbuf[c] = @ - 1, !.buf[c][i] = NoValue, !.off[c] = p]
<1>1. m.off[c] = i /\ m.buf[c][i] = v
  BY SetField
<1>2. FromRing(m, c) = Got(y, v)
  BY <1>1 DEF FromRing
<1> HIDE DEF i, p, v
<1>3. y = [[[m EXCEPT !.nbuf[c] = @ - 1] EXCEPT !.buf[c][i] = NoValue] EXCEPT !.off[c] = p]
  BY Zenon
<1> HIDE DEF y
<1>4. [m EXCEPT !.nbuf[c] = @ - 1] = MakeCh(b, o, n1, q, x, s, g)
  <2>1. [m EXCEPT !.nbuf[c] = @ - 1] = [m EXCEPT !.nbuf = [m.nbuf EXCEPT ![c] = @ - 1]]
    BY Zenon
  <2>2. m.nbuf = n
    BY SetField
  <2>3. [m EXCEPT !.nbuf[c] = @ - 1] = [m EXCEPT !.nbuf = n1]
    BY <2>1, <2>2
  <2> HIDE DEF n1
  <2>4. [m EXCEPT !.nbuf = n1] = MakeCh(b, o, n1, q, x, s, g)
    BY SetField
  <2> QED
    BY <2>3, <2>4
<1> DEFINE k == MakeCh(b, o, n1, q, x, s, g)
<1>5. [k EXCEPT !.buf[c][i] = NoValue] = MakeCh(b1, o, n1, q, x, s, g)
  <2> DEFINE z == k
  <2>0. z = MakeCh(b, o, n1, q, x, s, g)
    OBVIOUS
  <2> HIDE DEF z, k
  <2>1. [z EXCEPT !.buf[c][i] = NoValue] = [z EXCEPT !.buf = [z.buf EXCEPT ![c][i] = NoValue]]
    BY Zenon
  <2>2. z.buf = b
    BY <2>0, SetField
  <2>3. [z EXCEPT !.buf[c][i] = NoValue] = [z EXCEPT !.buf = b1]
    BY <2>1, <2>2
  <2> HIDE DEF b1, n1
  <2>4. [z EXCEPT !.buf = b1] = MakeCh(b1, o, n1, q, x, s, g)
    BY <2>0, SetField
  <2> QED
    BY <2>3, <2>4 DEF z
<1> DEFINE j == MakeCh(b1, o, n1, q, x, s, g)
<1>6. [j EXCEPT !.off[c] = p] = MakeCh(b1, o1, n1, q, x, s, g)
  <2> DEFINE z == j
  <2>0. z = MakeCh(b1, o, n1, q, x, s, g)
    OBVIOUS
  <2> HIDE DEF z, j, b1
  <2>1. [z EXCEPT !.off[c] = p] = [z EXCEPT !.off = [z.off EXCEPT ![c] = p]]
    BY Zenon
  <2>2. z.off = o
    BY <2>0, SetField
  <2>3. [z EXCEPT !.off[c] = p] = [z EXCEPT !.off = o1]
    BY <2>1, <2>2
  <2> HIDE DEF o1, n1
  <2>4. [z EXCEPT !.off = o1] = MakeCh(b1, o1, n1, q, x, s, g)
    BY <2>0, SetField
  <2> QED
    BY <2>3, <2>4 DEF z
<1>7. y = MakeCh(b1, o1, n1, q, x, s, g)
  <2> HIDE DEF k, j, b1, o1, n1
  <2> QED
    BY <1>3, <1>4, <1>5, <1>6, Zenon DEF k, j
<1>8. Got(y, v) = MakeCh(b1, o1, n1, q, x, s, OneMore(g, v))
  <2> HIDE DEF b1, o1, n1
  <2> QED
    BY <1>7, GotFields
<1>9. b1 = SlotSet(b, c, i, NoValue) /\ o1 = Onward(o, c) /\ n1 = Less(n, c)
  BY DEF SlotSet, Onward, Less, i, p
<1> QED
  <2> HIDE DEF b1, o1, n1
  <2> QED
    BY <1>2, <1>8, <1>9 DEF i, v

(* ... and a new one enters it. *)
LEMMA ToRingFields ==
  ASSUME NEW b, NEW o, NEW n, NEW q, NEW x, NEW s, NEW g, NEW c, NEW v, NEW m,
         m = MakeCh(b, o, n, q, x, s, g)
  PROVE  ToRing(m, c, v)
           = MakeCh(SlotSet(b, c, Behind(o, n, c), v), o, More(n, c), q, x,
                    s \cup {v}, g)
<1> DEFINE i  == (o[c] + n[c]) % bufsize[c]
           b1 == [b EXCEPT ![c][i] = v]
           n1 == [n EXCEPT ![c] = @ + 1]
           s1 == s \cup {v}
           y  == [m EXCEPT !.buf[c][i] = v, !.nbuf[c] = @ + 1, !.sent = @ \cup {v}]
<1>1. m.off[c] = o[c] /\ m.nbuf[c] = n[c]
  BY SetField
<1>2. ToRing(m, c, v) = y
  BY <1>1 DEF ToRing
<1> HIDE DEF i
<1>3. y = [[[m EXCEPT !.buf[c][i] = v] EXCEPT !.nbuf[c] = @ + 1] EXCEPT !.sent = @ \cup {v}]
  BY Zenon
<1> HIDE DEF y
<1>4. [m EXCEPT !.buf[c][i] = v] = MakeCh(b1, o, n, q, x, s, g)
  <2>1. [m EXCEPT !.buf[c][i] = v] = [m EXCEPT !.buf = [m.buf EXCEPT ![c][i] = v]]
    BY Zenon
  <2>2. m.buf = b
    BY SetField
  <2>3. [m EXCEPT !.buf[c][i] = v] = [m EXCEPT !.buf = b1]
    BY <2>1, <2>2
  <2> HIDE DEF b1
  <2>4. [m EXCEPT !.buf = b1] = MakeCh(b1, o, n, q, x, s, g)
    BY SetField
  <2> QED
    BY <2>3, <2>4
<1> DEFINE k == MakeCh(b1, o, n, q, x, s, g)
<1>5. [k EXCEPT !.nbuf[c] = @ + 1] = MakeCh(b1, o, n1, q, x, s, g)
  <2> DEFINE z == k
  <2>0. z = MakeCh(b1, o, n, q, x, s, g)
    OBVIOUS
  <2> HIDE DEF z, k, b1
  <2>1. [z EXCEPT !.nbuf[c] = @ + 1] = [z EXCEPT !.nbuf = [z.nbuf EXCEPT ![c] = @ + 1]]
    BY Zenon
  <2>2. z.nbuf = n
    BY <2>0, SetField
  <2>3. [z EXCEPT !.nbuf[c] = @ + 1] = [z EXCEPT !.nbuf = n1]
    BY <2>1, <2>2
  <2> HIDE DEF n1
  <2>4. [z EXCEPT !.nbuf = n1] = MakeCh(b1, o, n1, q, x, s, g)
    <3> HIDE DEF i
    <3>1. [MakeCh(b1, o, n, q, x, s, g) EXCEPT !.nbuf = n1] = MakeCh(b1, o, n1, q, x, s, g)
      BY SetField
    <3> QED
      BY <2>0, <3>1, Zenon
  <2> QED
    BY <2>3, <2>4 DEF z
<1> DEFINE j == MakeCh(b1, o, n1, q, x, s, g)
<1>6. [j EXCEPT !.sent = @ \cup {v}] = MakeCh(b1, o, n1, q, x, s1, g)
  <2> DEFINE z == j
  <2>0. z = MakeCh(b1, o, n1, q, x, s, g)
    OBVIOUS
  <2> HIDE DEF z, j, b1, n1
  <2>1. [z EXCEPT !.sent = @ \cup {v}] = [z EXCEPT !.sent = z.sent \cup {v}]
    BY Zenon
  <2>2. z.sent = s
    BY <2>0, SetField
  <2>3. [z EXCEPT !.sent = @ \cup {v}] = [z EXCEPT !.sent = s1]
    BY <2>1, <2>2
  <2> HIDE DEF s1
  <2>4. [z EXCEPT !.sent = s1] = MakeCh(b1, o, n1, q, x, s1, g)
    BY <2>0, SetField
  <2> QED
    BY <2>3, <2>4 DEF z
<1>7. y = MakeCh(b1, o, n1, q, x, s1, g)
  <2> HIDE DEF k, j, b1, s1, n1
  <2> QED
    BY <1>3, <1>4, <1>5, <1>6, Zenon DEF k, j
<1>8. b1 = SlotSet(b, c, i, v) /\ n1 = More(n, c)
  BY DEF SlotSet, More
<1> QED
  <2> HIDE DEF b1, n1
  <2>1. i = Behind(o, n, c)
    BY DEF i, Behind
  <2> QED
    BY <1>2, <1>7, <1>8, <2>1

(* A value goes from sender to receiver at once, or the oldest makes room  *)
(* for it.                                                                 *)
Handed(x, v)     == Got([x EXCEPT !.sent = @ \cup {v}], v)
Through(x, c, v) == ToRing(FromRing(x, c), c, v)

(* What altcopy leads to: n places in channel c, and the values V sent. *)
Copied(y, q, x, c, n, s, V, m) ==
  \E b2, o2, n2, g2 :
    /\ y = MakeCh(b2, o2, n2, q, x, s \cup V, g2)
    /\ Data(b2, o2, n2, s \cup V, g2)
    /\ n2[c] = m /\ \A d \in Chan \ {c} : n2[d] = n[d]

(* It ends in these places of the rings. *)
LEMMA CopiedBy ==
  ASSUME NEW b2, NEW o2, NEW n2, NEW s2, NEW g2, Data(b2, o2, n2, s2, g2),
         NEW y, NEW q, NEW x, NEW c \in Chan, NEW n, NEW s, NEW V, NEW m,
         y = MakeCh(b2, o2, n2, q, x, s2, g2), s2 = s \cup V,
         n2[c] = m, \A d \in Chan \ {c} : n2[d] = n[d]
  PROVE  Copied(y, q, x, c, n, s, V, m)
BY Zenon DEF Copied

(* A receiver and the ring, ... *)
LEMMA CopiedFrom ==
  ASSUME NEW b, NEW o, NEW n, NEW q, NEW x, NEW s, NEW g, Data(b, o, n, s, g),
         NEW c \in Chan, n[c] # 0, NEW y, y = FromRing(MakeCh(b, o, n, q, x, s, g), c)
  PROVE  Copied(y, q, x, c, n, s, {}, n[c] - 1)
<1> DEFINE i  == o[c]
           v  == b[c][i]
           b2 == SlotSet(b, c, i, NoValue)
           o2 == Onward(o, c)
           n2 == Less(n, c)
           g2 == OneMore(g, v)
           m  == MakeCh(b, o, n, q, x, s, g)
<1>0. Rings(b, o, n) /\ Kept(b, s, g)
  BY DEF Data
<1>1. FromRing(m, c) = MakeCh(b2, o2, n2, q, x, s, g2)
  <2> HIDE DEF m
  <2>1. m = MakeCh(b, o, n, q, x, s, g)
    BY DEF m
  <2> QED
    BY <2>1, FromRingFields
<1>2. n2[c] = n[c] - 1 /\ \A d \in Chan \ {c} : n2[d] = n[d]
  BY <1>0 DEF Rings, Less
<1>3. RingsTo(b, b2, o2, n2, c, i, v, NoValue) /\ v # NoValue
  BY <1>0, TakenRings
<1>4. Rings(b2, o2, n2) /\ i \in Slots(c) /\ b2[c][i] = NoValue /\ Differ(b, b2, c, i)
  BY <1>3 DEF RingsTo
<1>5. Kept(b2, s, g2)
  BY <1>0, <1>3, <1>4, TakenKept
<1>6. Data(b2, o2, n2, s, g2)
  BY <1>4, <1>5 DEF Data
<1>7. s = s \cup {}
  OBVIOUS
<1> HIDE DEF i, v, b2, o2, n2, g2
<1> QED
  BY <1>1, <1>2, <1>6, <1>7, CopiedBy

(* ... a sender and the ring, ... *)
LEMMA CopiedTo ==
  ASSUME NEW b, NEW o, NEW n, NEW q, NEW x, NEW s, NEW g, Data(b, o, n, s, g),
         NEW c \in Chan, n[c] < bufsize[c], NEW v \in Value, v \notin s,
         NEW y, y = ToRing(MakeCh(b, o, n, q, x, s, g), c, v)
  PROVE  Copied(y, q, x, c, n, s, {v}, n[c] + 1)
<1> DEFINE i  == Behind(o, n, c)
           b2 == SlotSet(b, c, i, v)
           n2 == More(n, c)
           s2 == s \cup {v}
           m  == MakeCh(b, o, n, q, x, s, g)
<1>0. Rings(b, o, n) /\ Kept(b, s, g)
  BY DEF Data
<1>1. ToRing(m, c, v) = MakeCh(b2, o, n2, q, x, s2, g)
  <2> HIDE DEF m
  <2>1. m = MakeCh(b, o, n, q, x, s, g)
    BY DEF m
  <2> QED
    BY <2>1, ToRingFields
<1>2. n2[c] = n[c] + 1 /\ \A d \in Chan \ {c} : n2[d] = n[d]
  BY <1>0 DEF Rings, More
<1>3. RingsTo(b, b2, o, n2, c, i, NoValue, v)
  BY <1>0, PutRings
<1> HIDE DEF i
<1>4. /\ Rings(b2, o, n2) /\ i \in Slots(c) /\ b2[c][i] = v /\ Differ(b, b2, c, i)
      /\ b[c][i] = NoValue
  BY <1>3 DEF RingsTo
<1> HIDE DEF b2, n2, s2
<1>5. s2 = s \cup {v}
  BY DEF s2
<1>6. Kept(b2, s2, g)
  BY <1>0, <1>4, <1>5, PutKept
<1>7. Data(b2, o, n2, s2, g)
  BY <1>4, <1>6 DEF Data
<1> QED
  BY <1>1, <1>2, <1>5, <1>7, CopiedBy

(* ... a sender and a receiver without the ring, ... *)
LEMMA CopiedAtOnce ==
  ASSUME NEW b, NEW o, NEW n, NEW q, NEW x, NEW s, NEW g, Data(b, o, n, s, g),
         NEW c \in Chan, NEW v \in Value, v \notin s,
         NEW y, y = Handed(MakeCh(b, o, n, q, x, s, g), v)
  PROVE  Copied(y, q, x, c, n, s, {v}, n[c])
<1> DEFINE s2 == s \cup {v}
           g2 == OneMore(g, v)
           m  == MakeCh(b, o, n, q, x, s, g)
           k  == MakeCh(b, o, n, q, x, s2, g)
<1>1. [m EXCEPT !.sent = @ \cup {v}] = k
  <2> DEFINE z == m
  <2>0. z = MakeCh(b, o, n, q, x, s, g)
    OBVIOUS
  <2> HIDE DEF z, m
  <2>1. [z EXCEPT !.sent = @ \cup {v}] = [z EXCEPT !.sent = z.sent \cup {v}]
    BY Zenon
  <2>2. z.sent = s
    BY <2>0, SetField
  <2>3. [z EXCEPT !.sent = @ \cup {v}] = [z EXCEPT !.sent = s2]
    BY <2>1, <2>2
  <2> HIDE DEF s2
  <2>4. [z EXCEPT !.sent = s2] = k
    BY <2>0, SetField
  <2> QED
    BY <2>3, <2>4 DEF z
<1>2. Got(k, v) = MakeCh(b, o, n, q, x, s2, g2)
  <2> HIDE DEF k, s2
  <2>1. k = MakeCh(b, o, n, q, x, s2, g)
    BY DEF k
  <2> QED
    BY <2>1, GotFields
<1>3. y = MakeCh(b, o, n, q, x, s2, g2)
  BY <1>1, <1>2, Zenon DEF Handed
<1> HIDE DEF s2, g2
<1>4. Kept(b, s2, g2)
  BY DirectKept DEF Data, s2, g2
<1>5. Data(b, o, n, s2, g2)
  BY <1>4 DEF Data
<1>6. s2 = s \cup {v}
  BY DEF s2
<1> QED
  BY <1>3, <1>5, <1>6, CopiedBy

(* The oldest value makes room for another. *)
LEMMA CopiedThrough ==
  ASSUME NEW b, NEW o, NEW n, NEW q, NEW x, NEW s, NEW g, Data(b, o, n, s, g),
         NEW c \in Chan, n[c] # 0, NEW v \in Value, v \notin s,
         NEW y, y = Through(MakeCh(b, o, n, q, x, s, g), c, v)
  PROVE  Copied(y, q, x, c, n, s, {v}, n[c])
<1> DEFINE m == FromRing(MakeCh(b, o, n, q, x, s, g), c)
<1>1. Copied(m, q, x, c, n, s, {}, n[c] - 1)
  BY CopiedFrom
<1>2. y = ToRing(m, c, v)
  BY DEF Through
<1> HIDE DEF m
<1>3. PICK b2, o2, n2, g2 :
        /\ m = MakeCh(b2, o2, n2, q, x, s \cup {}, g2)
        /\ Data(b2, o2, n2, s \cup {}, g2)
        /\ n2[c] = n[c] - 1 /\ \A d \in Chan \ {c} : n2[d] = n[d]
  BY <1>1 DEF Copied
<1>4. s \cup {} = s
  OBVIOUS
<1>5. n[c] \in Nat /\ n[c] <= bufsize[c] /\ bufsize[c] \in Nat
  BY Sizes DEF Data, Rings
<1>6. n2[c] < bufsize[c] /\ n2[c] + 1 = n[c]
  BY <1>3, <1>5
<1>7. Copied(y, q, x, c, n2, s, {v}, n2[c] + 1)
  BY <1>2, <1>3, <1>4, <1>6, CopiedTo
<1>8. PICK b3, o3, n3, g3 :
        /\ y = MakeCh(b3, o3, n3, q, x, s \cup {v}, g3)
        /\ Data(b3, o3, n3, s \cup {v}, g3)
        /\ n3[c] = n2[c] + 1 /\ \A d \in Chan \ {c} : n3[d] = n2[d]
  BY <1>7 DEF Copied
<1>9. n3[c] = n[c] /\ \A d \in Chan \ {c} : n3[d] = n[d]
  BY <1>3, <1>6, <1>8
<1> QED
  BY <1>8, <1>9, CopiedBy

(* Who is served by altcopy: a sender and the ring, the ring and a         *)
(* receiver, or a sender, a receiver and the ring, if it is not empty.     *)
CopyWith(x, a, r) == IF a.op = "snd" THEN altcopy(x, a.c, {a}, r) ELSE altcopy(x, a.c, r, {a})

(* Only a sender. *)
LEMMA SendsAlone ==
  ASSUME NEW x, NEW a, a.op = "snd"
  PROVE  CopyWith(x, a, {}) = ToRing(x, a.c, a.v)
<1>1. (CHOOSE z \in {a} : TRUE) = a
  OBVIOUS
<1>2. altcopy(x, a.c, {a}, {}) = ToRing(x, a.c, a.v)
  BY <1>1 DEF altcopy
<1> QED
  BY <1>2 DEF CopyWith

(* Only a receiver. *)
LEMMA ReceivesAlone ==
  ASSUME NEW x, NEW a, a.op = "rcv"
  PROVE  CopyWith(x, a, {}) = FromRing(x, a.c)
<1>1. altcopy(x, a.c, {}, {a}) = FromRing(x, a.c)
  BY DEF altcopy
<1> QED
  BY <1>1 DEF CopyWith

(* Both, by whether the ring is empty: ... *)
LEMMA BothCopy ==
  ASSUME NEW x, NEW c, NEW a, NEW r
  PROVE  /\ x.nbuf[c] = 0 => altcopy(x, c, {a}, {r}) = Handed(x, a.v)
         /\ x.nbuf[c] # 0 => altcopy(x, c, {a}, {r}) = Through(x, c, a.v)
<1>1. (CHOOSE z \in {a} : TRUE) = a
  OBVIOUS
<1>2. CASE x.nbuf[c] = 0
  <2>1. altcopy(x, c, {a}, {r}) = Got([x EXCEPT !.sent = @ \cup {a.v}], a.v)
    BY <1>1, <1>2, Zenon DEF altcopy
  <2> QED
    BY <1>2, <2>1 DEF Handed
<1>3. CASE x.nbuf[c] # 0
  <2>1. altcopy(x, c, {a}, {r}) = ToRing(FromRing(x, c), c, a.v)
    BY <1>1, <1>3 DEF altcopy
  <2> QED
    BY <1>3, <2>1 DEF Through
<1> QED
  BY <1>2, <1>3

(* ... who sends finds a receiver at an empty ring, ... *)
LEMMA Sends ==
  ASSUME NEW x, NEW a, NEW e, a.op = "snd"
  PROVE  x.nbuf[a.c] = 0 => CopyWith(x, a, {e}) = Handed(x, a.v)
<1> DEFINE c == a.c
<1>1. CopyWith(x, a, {e}) = altcopy(x, c, {a}, {e})
  BY DEF CopyWith
<1> HIDE DEF c
<1>2. x.nbuf[c] = 0 => altcopy(x, c, {a}, {e}) = Handed(x, a.v)
  BY BothCopy, ZenonT(60)
<1> QED
  BY <1>1, <1>2 DEF c

(* ... who receives finds a sender at any. *)
LEMMA Receives ==
  ASSUME NEW x, NEW a, NEW e, a.op = "rcv"
  PROVE  /\ x.nbuf[a.c] = 0 => CopyWith(x, a, {e}) = Handed(x, e.v)
         /\ x.nbuf[a.c] # 0 => CopyWith(x, a, {e}) = Through(x, a.c, e.v)
<1> DEFINE c == a.c
<1>1. CopyWith(x, a, {e}) = altcopy(x, c, {e}, {a})
  BY DEF CopyWith
<1> HIDE DEF c
<1>2. /\ x.nbuf[c] = 0 => altcopy(x, c, {e}, {a}) = Handed(x, e.v)
      /\ x.nbuf[c] # 0 => altcopy(x, c, {e}, {a}) = Through(x, c, e.v)
  BY BothCopy, ZenonT(60)
<1> QED
  BY <1>1, <1>2 DEF c

(***************************************************************************)
(* The Alts in the queues: none could be executed.  n are the values in    *)
(* the rings, x is the next value and s are the values sent.               *)
(***************************************************************************)
TasksOf(q) == {a.task : a \in q}

Blocked(q, n) ==
  \A a \in q : /\ a.op = "snd" => n[a.c] = bufsize[a.c]
               /\ a.op = "rcv" => n[a.c] = 0
OneWay(q)      == \A a, b \in q : a.c = b.c => a.op = b.op
Unsent(q, x, s) ==
  /\ \A a \in q : a.op = "snd" => a.v \in Value /\ a.v < x /\ a.v \notin s
  /\ \A a, b \in q : a.op = "snd" /\ b.op = "snd" /\ a.v = b.v => a.task = b.task
Queued(q, n, x, s) ==
  /\ q \in SUBSET Alt /\ x \in Nat /\ \A v \in s : v < x
  /\ Blocked(q, n) /\ OneWay(q) /\ Unsent(q, x, s)

(* Everything: k is the record ch, z the state of the thread. *)
Talk(z, k) ==
  \E b, o, n, q, x, s, g :
    /\ k = MakeCh(b, o, n, q, x, s, g)
    /\ Data(b, o, n, s, g) /\ Queued(q, n, x, s)
    /\ Acc(z, z.running, TasksOf(q))

InChans(z, k) ==
  /\ z.thread = "aborted" => z.why = "cache"
  /\ On(z) => Talk(z, k)

(* The types of an Alt. *)
LEMMA AltFields ==
  ASSUME NEW a \in Alt
  PROVE  a.task \in Tasks /\ a.c \in Chan /\ a.op \in {"snd", "rcv"} /\ a.v \in Value0
BY DEF Alt, Value0

(* After a copy the Alts that are left, q2, are as they should be, if      *)
(* those on the channel still cannot be executed and their values are      *)
(* others than V.                                                          *)
Elsewhere(n, n2, c, m) == n2[c] = m /\ \A d \in Chan \ {c} : n2[d] = n[d]
Unlike(q, V, x) == (\A v \in V : v < x) /\ \A a \in q : a.op = "snd" => a.v \notin V
StillBlocked(q, c, m) ==
  \A a \in q : a.c = c => (a.op = "snd" => m = bufsize[c]) /\ (a.op = "rcv" => m = 0)

(* They are in order after the copy. *)
LEMMA Settled ==
  ASSUME NEW q, NEW n, NEW x, NEW s, Queued(q, n, x, s), NEW c \in Chan, NEW n2, NEW m,
         Elsewhere(n, n2, c, m), NEW q2 \in SUBSET q, NEW V \in SUBSET Value,
         Unlike(q2, V, x), StillBlocked(q2, c, m)
  PROVE  Queued(q2, n2, x, s \cup V)
<1>1. q2 \in SUBSET Alt /\ x \in Nat /\ \A v \in s \cup V : v < x
  BY DEF Queued, Unlike
<1>2. Blocked(q2, n2)
  <2> SUFFICES ASSUME NEW a \in q2
               PROVE  /\ a.op = "snd" => n2[a.c] = bufsize[a.c]
                      /\ a.op = "rcv" => n2[a.c] = 0
    BY DEF Blocked
  <2>1. a.c \in Chan /\ a \in q
    BY <1>1, AltFields
  <2> QED
    BY <2>1 DEF Queued, Blocked, Elsewhere, StillBlocked
<1>3. OneWay(q2)
  BY DEF Queued, OneWay
<1>4. Unsent(q2, x, s \cup V)
  BY DEF Queued, Unsent, Unlike
<1> QED
  BY <1>1, <1>2, <1>3, <1>4 DEF Queued

(* The Alts as that t brings to chanalt, one for a channel; the value it   *)
(* sends is new.                                                           *)
Asked(as, t, q, x, s) ==
  /\ as \in SUBSET Alt /\ as # {} /\ \A a \in as : a.task = t
  /\ \A a, e \in as : a.c = e.c => a = e
  /\ \A a, e \in as : a.op = "snd" /\ e.op = "snd" => a.v = e.v
  /\ \A a \in as : a.op = "snd" => /\ a.v \in Value /\ a.v < x /\ a.v \notin s
                                   /\ \A e \in q : e.op = "snd" => e.v # a.v

(* What is left of the channels after an Alt was executed. *)
Left(y, q, x) ==
  \E b, o, n, s, g : /\ y = MakeCh(b, o, n, q, x, s, g)
                     /\ Data(b, o, n, s, g) /\ Queued(q, n, x, s)

(* From the copy to what is left. *)
LEMMA LeftBy ==
  ASSUME NEW q, NEW n, NEW x, NEW s, Queued(q, n, x, s), NEW c \in Chan, NEW m,
         NEW q2 \in SUBSET q, NEW V \in SUBSET Value,
         NEW y, Copied(y, q, x, c, n, s, V, m),
         Unlike(q2, V, x), StillBlocked(q2, c, m)
  PROVE  Left([y EXCEPT !.queue = q2], q2, x)
<1>1. PICK b2, o2, n2, g2 :
        /\ y = MakeCh(b2, o2, n2, q, x, s \cup V, g2)
        /\ Data(b2, o2, n2, s \cup V, g2)
        /\ n2[c] = m /\ \A d \in Chan \ {c} : n2[d] = n[d]
  BY DEF Copied
<1>2. Queued(q2, n2, x, s \cup V)
  <2>1. Elsewhere(n, n2, c, m)
    BY <1>1 DEF Elsewhere
  <2> QED
    BY <2>1, Settled
<1> DEFINE s2 == s \cup V
<1> HIDE DEF s2
<1>3. [y EXCEPT !.queue = q2] = MakeCh(b2, o2, n2, q2, x, s2, g2)
  <2>1. y = MakeCh(b2, o2, n2, q, x, s2, g2)
    BY <1>1 DEF s2
  <2> QED
    BY <2>1, SetField
<1>4. Data(b2, o2, n2, s2, g2) /\ Queued(q2, n2, x, s2)
  BY <1>1, <1>2 DEF s2
<1> QED
  BY <1>3, <1>4, Zenon DEF Left

(* altexec without a partner in the queues: the ring is the partner. *)
LEMMA ExecAlone ==
  ASSUME NEW b, NEW o, NEW n, NEW q, NEW x, NEW s, NEW g, NEW m,
         m = MakeCh(b, o, n, q, x, s, g), Data(b, o, n, s, g), Queued(q, n, x, s),
         NEW as, NEW t, Asked(as, t, q, x, s), NEW a \in as,
         altcanexec(m, a), Others(m, a) = {}
  PROVE  Left(CopyWith(m, a, {}), q, x)
<1> DEFINE c == a.c
           y == CopyWith(m, a, {})
<1>0. m.nbuf = n /\ m.queue = q
  BY SetField
<1>1. a \in Alt /\ c \in Chan /\ a.op \in {"snd", "rcv"} /\ m.nbuf = n /\ m.queue = q
  <2>1. a \in Alt
    BY DEF Asked
  <2> QED
    BY <1>0, <2>1, AltFields
<1>2. /\ bufsize[c] \in Nat /\ bufsize[c] > 0
      /\ a.op = "snd" => n[c] < bufsize[c]
      /\ a.op = "rcv" => n[c] # 0
  <2>1. bufsize[c] \in Nat
    BY <1>1, Sizes
  <2>2. ASSUME bufsize[c] = 0 PROVE FALSE
    <3>1. altcanexec(m, a) = (Others(m, a) # {})
      BY <2>2 DEF altcanexec
    <3> QED
      BY <3>1
  <2>3. bufsize[c] > 0
    BY <2>1, <2>2
  <2>4. ASSUME a.op = "snd" PROVE n[c] < bufsize[c]
    <3>1. altcanexec(m, a) = (m.nbuf[c] < bufsize[c])
      BY <2>3, <2>4 DEF altcanexec
    <3> QED
      BY <1>1, <3>1
  <2>5. ASSUME a.op = "rcv" PROVE n[c] # 0
    <3>1. altcanexec(m, a) = (m.nbuf[c] > 0)
      BY <2>3, <2>5 DEF altcanexec
    <3>2. m.nbuf[c] > 0
      BY <3>1
    <3> QED
      BY <1>1, <3>2
  <2> QED
    BY <2>1, <2>3, <2>4, <2>5
<1>3. n[c] \in Nat
  BY <1>1 DEF Data, Rings
<1>4. \A e \in q : e.c # c
  <2> SUFFICES ASSUME NEW e \in q, e.c = c PROVE FALSE
    OBVIOUS
  <2>1. e.op \in {"snd", "rcv"}
    BY AltFields DEF Queued
  <2>2. e.op # otherop(a.op)
    BY <1>1 DEF Others
  <2>3. e.op = a.op
    BY <1>1, <2>1, <2>2 DEF otherop
  <2>4. (e.op = "snd" => n[c] = bufsize[c]) /\ (e.op = "rcv" => n[c] = 0)
    BY DEF Queued, Blocked
  <2> QED
    BY <1>1, <1>2, <1>3, <2>3, <2>4
<1>5. \E V \in SUBSET Value : \E p : Copied(y, q, x, c, n, s, V, p) /\ Unlike(q, V, x)
  <2>1. CASE a.op = "snd"
    <3>1. a.v \in Value /\ a.v < x /\ a.v \notin s /\ \A e \in q : e.op = "snd" => e.v # a.v
      BY <2>1 DEF Asked
    <3>2. y = ToRing(m, c, a.v)
      BY <2>1, SendsAlone
    <3> HIDE DEF y, c
    <3>3. Copied(y, q, x, c, n, s, {a.v}, n[c] + 1)
      BY <1>1, <1>2, <2>1, <3>1, <3>2, CopiedTo
    <3>4. {a.v} \in SUBSET Value /\ Unlike(q, {a.v}, x)
      BY <3>1 DEF Unlike
    <3> QED
      BY <3>1, <3>3, <3>4
  <2>2. CASE a.op = "rcv"
    <3>1. y = FromRing(m, c)
      BY <2>2, ReceivesAlone
    <3> HIDE DEF y, c
    <3>2. Copied(y, q, x, c, n, s, {}, n[c] - 1)
      BY <1>1, <1>2, <2>2, <3>1, CopiedFrom
    <3>3. {} \in SUBSET Value /\ Unlike(q, {}, x)
      BY DEF Unlike
    <3> QED
      BY <3>2, <3>3
  <2> QED
    BY <1>1, <2>1, <2>2
<1> HIDE DEF y, c
<1>6. PICK V \in SUBSET Value : \E p : Copied(y, q, x, c, n, s, V, p) /\ Unlike(q, V, x)
  BY <1>5
<1>7. PICK p : Copied(y, q, x, c, n, s, V, p) /\ Unlike(q, V, x)
  BY <1>6
<1>8. Left([y EXCEPT !.queue = q], q, x)
  <2>1. StillBlocked(q, c, p) /\ q \in SUBSET q
    BY <1>4 DEF StillBlocked
  <2> QED
    BY <1>1, <1>7, <2>1, LeftBy
<1>9. [y EXCEPT !.queue = q] = y
  <2>1. PICK b2, o2, n2, g2 : y = MakeCh(b2, o2, n2, q, x, s \cup V, g2)
    BY <1>7 DEF Copied
  <2> DEFINE s2 == s \cup V
  <2> HIDE DEF s2
  <2>2. y = MakeCh(b2, o2, n2, q, x, s2, g2)
    BY <2>1 DEF s2
  <2> QED
    BY <2>2, SetField
<1> QED
  BY <1>8, <1>9 DEF y

(* altexec with partner e, whose Alts leave the queues: no receiver waits  *)
(* at a ring that is not empty, and a sender that waits at a full ring     *)
(* gets the place of its oldest value.                                     *)
LEMMA ExecWith ==
  ASSUME NEW b, NEW o, NEW n, NEW q, NEW x, NEW s, NEW g, NEW m,
         m = MakeCh(b, o, n, q, x, s, g), Data(b, o, n, s, g), Queued(q, n, x, s),
         NEW as, NEW t, Asked(as, t, q, x, s), NEW a \in as,
         NEW e \in Others(m, a), NEW q2, q2 = {d \in q : d.task # e.task}
  PROVE  Left(altalldequeue(CopyWith(m, a, {e}), e), q2, x)
<1> DEFINE c == a.c
           y == CopyWith(m, a, {e})
<1>0. m.nbuf = n /\ m.queue = q
  BY SetField
<1>1. a \in Alt /\ c \in Chan /\ a.op \in {"snd", "rcv"} /\ m.nbuf = n /\ m.queue = q
  <2>1. a \in Alt
    BY DEF Asked
  <2> QED
    BY <1>0, <2>1, AltFields
<1>2. e \in q /\ e.c = c /\ e.op = otherop(a.op)
  BY <1>1 DEF Others
<1>3. (e.op = "snd" => n[c] = bufsize[c]) /\ (e.op = "rcv" => n[c] = 0)
  BY <1>2 DEF Queued, Blocked
<1>4. \E v \in Value : /\ Copied(y, q, x, c, n, s, {v}, n[c]) /\ v < x
                       /\ \A d \in q2 : d.op = "snd" => d.v # v
  <2>1. CASE a.op = "snd"
    <3>1. a.v \in Value /\ a.v < x /\ a.v \notin s /\ \A d \in q : d.op = "snd" => d.v # a.v
      BY <2>1 DEF Asked
    <3>2. n[c] = 0
      BY <1>2, <1>3, <2>1 DEF otherop
    <3>3. y = Handed(m, a.v)
      BY <1>1, <2>1, <3>2, Sends
    <3> HIDE DEF y, c
    <3>4. Copied(y, q, x, c, n, s, {a.v}, n[c])
      BY <1>1, <3>1, <3>3, CopiedAtOnce
    <3> QED
      BY <3>1, <3>4
  <2>2. CASE a.op = "rcv"
    <3>0. e.op = "snd"
      BY <1>2, <2>2 DEF otherop
    <3>1. e.v \in Value /\ e.v < x /\ e.v \notin s /\ \A d \in q2 : d.op = "snd" => d.v # e.v
      BY <1>2, <3>0 DEF Queued, Unsent
    <3>2. /\ n[c] = 0 => y = Handed(m, e.v)
          /\ n[c] # 0 => y = Through(m, c, e.v)
      BY <1>1, <2>2, Receives
    <3> HIDE DEF y, c
    <3>3. Copied(y, q, x, c, n, s, {e.v}, n[c])
      <4>1. CASE n[c] = 0
        <5>1. y = Handed(m, e.v)
          BY <3>2, <4>1
        <5> QED
          BY <1>1, <3>1, <5>1, CopiedAtOnce
      <4>2. CASE n[c] # 0
        <5>1. y = Through(m, c, e.v)
          BY <3>2, <4>2
        <5> QED
          BY <1>1, <3>1, <4>2, <5>1, CopiedThrough
      <4> QED
        BY <4>1, <4>2
    <3> QED
      BY <3>1, <3>3
  <2> QED
    BY <1>1, <2>1, <2>2
<1> HIDE DEF y, c
<1>5. PICK v \in Value : /\ Copied(y, q, x, c, n, s, {v}, n[c]) /\ v < x
                         /\ \A d \in q2 : d.op = "snd" => d.v # v
  BY <1>4
<1>6. StillBlocked(q2, c, n[c])
  BY DEF Queued, Blocked, StillBlocked
<1>7. q2 \in SUBSET q /\ {v} \in SUBSET Value /\ Unlike(q2, {v}, x)
  BY <1>5 DEF Unlike
<1>8. Left([y EXCEPT !.queue = q2], q2, x)
  BY <1>1, <1>5, <1>6, <1>7, LeftBy
<1>9. altalldequeue(y, e) = [y EXCEPT !.queue = q2]
  <2>1. PICK b2, o2, n2, g2 : y = MakeCh(b2, o2, n2, q, x, s \cup {v}, g2)
    BY <1>5 DEF Copied
  <2> DEFINE s2 == s \cup {v}
  <2> HIDE DEF s2
  <2>2. y = MakeCh(b2, o2, n2, q, x, s2, g2)
    BY <2>1 DEF s2
  <2>3. y.queue = q
    BY <2>2, SetField
  <2>4. altalldequeue(y, e) = [y EXCEPT !.queue = {d \in y.queue : d.task # e.task}]
    BY Zenon DEF altalldequeue
  <2> QED
    BY <2>3, <2>4
<1> QED
  BY <1>8, <1>9 DEF y

(* Who is left of the tasks that wait, when one was served. *)
LEMMA WithoutTask ==
  ASSUME NEW q, NEW u, NEW q2, q2 = {d \in q : d.task # u}
  PROVE  TasksOf(q2) = TasksOf(q) \ {u}
BY DEF TasksOf

(* What is left is what the invariant asks for. *)
LEMMA TalkOn ==
  ASSUME NEW z, NEW y, NEW q, NEW x, Left(y, q, x), Acc(z, z.running, TasksOf(q))
  PROVE  Talk(z, y)
BY Zenon DEF Left, Talk

(* A value for the next send is taken. *)
LEMMA TakesNext ==
  ASSUME NEW q, NEW n, NEW x, NEW s \in SUBSET Value, Queued(q, n, x, s),
         NEW x2, x2 = x \/ x2 = x + 1
  PROVE  Queued(q, n, x2, s)
<1>1. x \in Nat /\ x2 \in Nat /\ x <= x2
  BY DEF Queued
<1>2. Value \in SUBSET Nat
  BY DEF Value
<1>3. \A v \in s : v < x2
  BY <1>1, <1>2 DEF Queued
<1>4. Unsent(q, x2, s)
  <2>1. Unsent(q, x, s)
    BY DEF Queued
  <2>2. ASSUME NEW a \in q, a.op = "snd"
        PROVE  a.v \in Value /\ a.v < x2 /\ a.v \notin s
    <3>1. a.v \in Value /\ a.v < x /\ a.v \notin s
      BY <2>1, <2>2 DEF Unsent
    <3>2. a.v \in Nat
      BY <1>2, <3>1
    <3> QED
      BY <1>1, <3>1, <3>2
  <2> QED
    BY <2>1, <2>2 DEF Unsent
<1> QED
  BY <1>1, <1>3, <1>4 DEF Queued

(* What altexec makes of the thread, z, and of the channels, y. *)
ExecTo(m, a, z, y) ==
  \/ Others(m, a) = {} /\ y = CopyWith(m, a, {}) /\ z = sch
  \/ \E e \in Others(m, a) :
       y = altalldequeue(CopyWith(m, a, {e}), e) /\ z = taskready(sch, e.task)

(* One Alt of the chanalt is executed: its partner, if there is one, is    *)
(* made ready.                                                             *)
LEMMA AltExecutes ==
  ASSUME NEW b, NEW o, NEW n, NEW q, NEW x, NEW s, NEW g, NEW m,
         m = MakeCh(b, o, n, q, x, s, g), Data(b, o, n, s, g), Queued(q, n, x, s),
         NEW as, NEW t \in Tasks, Asked(as, t, q, x, s), NEW a \in as,
         Acc(sch, t, TasksOf(q)), sch.running = t, On(sch),
         altcanexec(m, a), NEW z, NEW k, ExecTo(m, a, z, k)
  PROVE  InChans(z, k)
<1>1. \/ /\ Others(m, a) = {}
         /\ k = CopyWith(m, a, {}) /\ z = sch
      \/ \E e \in Others(m, a) :
           /\ k = altalldequeue(CopyWith(m, a, {e}), e)
           /\ z = taskready(sch, e.task)
  BY DEF ExecTo
<1>2. CASE Others(m, a) = {} /\ k = CopyWith(m, a, {}) /\ z = sch
  <2>1. Left(CopyWith(m, a, {}), q, x)
    BY <1>2, ExecAlone
  <2>2. Talk(z, k)
    BY <1>2, <2>1, TalkOn
  <2> QED
    BY <1>2, <2>2 DEF InChans, On
<1>3. CASE \E e \in Others(m, a) :
             /\ k = altalldequeue(CopyWith(m, a, {e}), e)
             /\ z = taskready(sch, e.task)
  <2>1. PICK e \in Others(m, a) :
          /\ k = altalldequeue(CopyWith(m, a, {e}), e)
          /\ z = taskready(sch, e.task)
    BY <1>3
  <2> DEFINE q2 == {d \in q : d.task # e.task}
             u  == e.task
             W  == TasksOf(q)
             y  == taskready(sch, u)
  <2>2. Left(k, q2, x)
    <3> DEFINE p == q2
    <3>1. p = {d \in q : d.task # e.task}
      OBVIOUS
    <3> HIDE DEF p
    <3>2. Left(altalldequeue(CopyWith(m, a, {e}), e), p, x)
      BY <3>1, ExecWith
    <3> QED
      BY <2>1, <3>2 DEF p
  <2>3. m.queue = q
    BY SetField
  <2>4. u \in W
    BY <2>3 DEF Others, TasksOf
  <2>5. TasksOf(q2) = W \ {u}
    BY WithoutTask
  <2> HIDE DEF q2, W, u, y
  <2>6. Acc(sch, t, W)
    BY DEF W
  <2>7. u \in Tasks /\ sch \in Thread
    BY <2>4, <2>6 DEF Acc
  <2>8. Acc(y, t, W \ {u})
    BY <2>4, <2>6, WokenUp DEF y
  <2>9. y.running = sch.running /\ y.thread = sch.thread
    BY <2>7, ReadyOut DEF y
  <2>10. z = y
    BY <2>1 DEF u, y
  <2>11. Acc(y, y.running, TasksOf(q2))
    BY <2>5, <2>8, <2>9
  <2>12. Talk(z, k)
    BY <2>2, <2>10, <2>11, TalkOn
  <2> QED
    BY <2>9, <2>10, <2>12 DEF InChans, On
<1> QED
  BY <1>1, <1>2, <1>3

(* Or all Alts of the chanalt are queued: on no channel do two wait for    *)
(* each other.                                                             *)
LEMMA AllQueued ==
  ASSUME NEW b, NEW o, NEW n, NEW q, NEW x, NEW s, NEW g, NEW m,
         m = MakeCh(b, o, n, q, x, s, g), Data(b, o, n, s, g), Queued(q, n, x, s),
         NEW as, NEW t, Asked(as, t, q, x, s),
         \A a \in as : ~altcanexec(m, a)
  PROVE  Queued(q \cup as, n, x, s)
<1>0. m.nbuf = n /\ m.queue = q
  BY SetField
<1>1. ASSUME NEW a \in as
      PROVE  /\ a \in Alt /\ a.c \in Chan /\ a.op \in {"snd", "rcv"}
             /\ bufsize[a.c] \in Nat /\ n[a.c] \in Nat /\ n[a.c] <= bufsize[a.c]
  <2>1. a \in Alt /\ a.c \in Chan /\ a.op \in {"snd", "rcv"}
    BY AltFields DEF Asked
  <2> QED
    BY <2>1, Sizes DEF Data, Rings
<1>2. ASSUME NEW a \in as
      PROVE  /\ bufsize[a.c] = 0 => \A e \in q : e.c = a.c => e.op # otherop(a.op)
             /\ bufsize[a.c] # 0 /\ a.op = "snd" => n[a.c] = bufsize[a.c]
             /\ bufsize[a.c] # 0 /\ a.op = "rcv" => n[a.c] = 0
  <2>0. /\ bufsize[a.c] \in Nat /\ n[a.c] \in Nat /\ n[a.c] <= bufsize[a.c]
        /\ a.op \in {"snd", "rcv"}
    BY <1>1
  <2>1. ~altcanexec(m, a)
    OBVIOUS
  <2>2. CASE bufsize[a.c] = 0
    <3>1. altcanexec(m, a) = (Others(m, a) # {})
      BY <2>2 DEF altcanexec
    <3>2. Others(m, a) = {}
      BY <2>1, <3>1
    <3> QED
      BY <1>0, <2>2, <3>2 DEF Others
  <2>3. CASE bufsize[a.c] > 0 /\ a.op = "snd"
    <3>1. altcanexec(m, a) = (m.nbuf[a.c] < bufsize[a.c])
      BY <2>3 DEF altcanexec
    <3>2. ~(n[a.c] < bufsize[a.c])
      BY <1>0, <2>1, <3>1
    <3> QED
      BY <2>0, <2>3, <3>2
  <2>4. CASE bufsize[a.c] > 0 /\ a.op = "rcv"
    <3>1. altcanexec(m, a) = (m.nbuf[a.c] > 0)
      BY <2>4 DEF altcanexec
    <3>2. ~(n[a.c] > 0)
      BY <1>0, <2>1, <3>1
    <3> QED
      BY <2>0, <2>4, <3>2
  <2> QED
    BY <2>0, <2>2, <2>3, <2>4
<1>3. q \cup as \in SUBSET Alt /\ x \in Nat /\ \A v \in s : v < x
  BY <1>1 DEF Queued
<1>4. ASSUME NEW a \in as
      PROVE  /\ a.op = "snd" => n[a.c] = bufsize[a.c]
             /\ a.op = "rcv" => n[a.c] = 0
  <2>1. bufsize[a.c] = 0 => n[a.c] = 0
    <3>1. bufsize[a.c] \in Nat /\ n[a.c] \in Nat /\ n[a.c] <= bufsize[a.c]
      BY <1>1
    <3> QED
      BY <3>1
  <2> QED
    BY <1>2, <2>1
<1>5. Blocked(q \cup as, n)
  BY <1>4 DEF Queued, Blocked
<1>6. ASSUME NEW a \in as, NEW e \in q, a.c = e.c
      PROVE  a.op = e.op
  <2>1. e.op \in {"snd", "rcv"}
    BY AltFields DEF Queued
  <2>2. (e.op = "snd" => n[e.c] = bufsize[e.c]) /\ (e.op = "rcv" => n[e.c] = 0)
    BY DEF Queued, Blocked
  <2>3. CASE bufsize[a.c] = 0
    BY <1>1, <1>2, <1>6, <2>1, <2>3 DEF otherop
  <2>4. CASE bufsize[a.c] # 0
    BY <1>1, <1>4, <1>6, <2>1, <2>2, <2>4
  <2> QED
    BY <2>3, <2>4
<1>7. OneWay(q \cup as)
  <2>1. \A a, e \in q : a.c = e.c => a.op = e.op
    BY DEF Queued, OneWay
  <2>2. \A a, e \in as : a.c = e.c => a.op = e.op
    BY DEF Asked
  <2> QED
    BY <1>6, <2>1, <2>2 DEF OneWay
<1>8. Unsent(q \cup as, x, s)
  <2>1. Unsent(q, x, s)
    BY DEF Queued
  <2>2. \A a \in as : a.op = "snd" => /\ a.v \in Value /\ a.v < x /\ a.v \notin s
                                      /\ \A e \in q : e.op = "snd" => e.v # a.v
    BY DEF Asked
  <2>3. \A a, e \in as : a.task = e.task
    BY DEF Asked
  <2> QED
    BY <2>1, <2>2, <2>3 DEF Unsent
<1> QED
  BY <1>3, <1>5, <1>7, <1>8 DEF Queued

(* The Alts of one call of chanalt. *)
AltsOf(t, ops, v) ==
  {[task |-> t, c |-> c, op |-> ops[c], v |-> IF ops[c] = "snd" THEN v ELSE NoValue] :
     c \in DOMAIN ops}

(* They are what a task may ask for. *)
LEMMA AltsAsked ==
  ASSUME NEW q, NEW n, NEW x, NEW s \in SUBSET Value, Queued(q, n, x, s),
         NEW t \in Tasks, NEW D \in (SUBSET Chan) \ {{}}, NEW ops \in [D -> {"snd", "rcv"}],
         NEW x2, (\E c \in D : ops[c] = "snd") => x \in Value /\ x2 = x + 1
  PROVE  Asked(AltsOf(t, ops, x), t, q, x2, s)
<1> DEFINE A(c) == [task |-> t, c |-> c, op |-> ops[c],
                    v |-> IF ops[c] = "snd" THEN x ELSE NoValue]
           as == AltsOf(t, ops, x)
<1>1. \A a : a \in as <=> \E c \in D : a = A(c)
  BY DEF AltsOf
<1>2. ASSUME NEW c \in D
      PROVE  /\ A(c).task = t /\ A(c).c = c /\ A(c).op = ops[c] /\ A(c) \in Alt
             /\ ops[c] = "snd" => A(c).v = x
  <2>1. ops[c] \in {"snd", "rcv"} /\ c \in Chan
    OBVIOUS
  <2>2. (IF ops[c] = "snd" THEN x ELSE NoValue) \in Value \cup {NoValue}
    OBVIOUS
  <2>3. A(c) \in Alt
    BY <2>1, <2>2 DEF Alt
  <2> QED
    BY <2>3
<1>3. ASSUME NEW a \in as
      PROVE  \E c \in D : /\ a = A(c) /\ a.task = t /\ a.c = c /\ a.op = ops[c] /\ a \in Alt
                          /\ ops[c] = "snd" => a.v = x
  <2>1. PICK c \in D : a = A(c)
    BY <1>1
  <2> QED
    BY <1>2, <2>1
<1>4. /\ as \in SUBSET Alt /\ as # {} /\ \A a \in as : a.task = t
      /\ \A a, e \in as : a.c = e.c => a = e
  <2>1. as # {}
    <3>1. PICK c \in D : TRUE
      OBVIOUS
    <3> QED
      BY <1>1, <3>1
  <2> HIDE DEF A, as
  <2> QED
    BY <1>3, <2>1
<1> HIDE DEF A, as
<1>5. \A a \in as : a.op = "snd" => a.v = x /\ x \in Value /\ x2 = x + 1
  <2> SUFFICES ASSUME NEW a \in as, a.op = "snd"
               PROVE  a.v = x /\ x \in Value /\ x2 = x + 1
    OBVIOUS
  <2>1. PICK c \in D : a.op = ops[c] /\ (ops[c] = "snd" => a.v = x)
    BY <1>3
  <2> QED
    BY <2>1
<1>6. \A a \in as : a.op = "snd" => a.v \notin s /\ \A e \in q : e.op = "snd" => e.v # a.v
  <2> SUFFICES ASSUME NEW a \in as, a.op = "snd"
               PROVE  a.v \notin s /\ \A e \in q : e.op = "snd" => e.v # a.v
    OBVIOUS
  <2>1. a.v = x /\ x \in Nat
    BY <1>5 DEF Queued
  <2>2. \A v \in s : v < x
    BY DEF Queued
  <2>3. \A e \in q : e.op = "snd" => e.v < x
    BY DEF Queued, Unsent
  <2>4. ~(x < x)
    BY <2>1
  <2> QED
    BY <2>1, <2>2, <2>3, <2>4
<1>7. \A a \in as : a.op = "snd" => a.v \in Value /\ a.v < x2
  <2> SUFFICES ASSUME NEW a \in as, a.op = "snd"
               PROVE  a.v \in Value /\ a.v < x2
    OBVIOUS
  <2>1. a.v = x /\ x \in Value /\ x2 = x + 1
    BY <1>5
  <2>2. x \in Int
    BY <2>1 DEF Value
  <2> QED
    BY <2>1, <2>2
<1>8. \A a, e \in as : a.op = "snd" /\ e.op = "snd" => a.v = e.v
  BY <1>5
<1>9. Asked(as, t, q, x2, s)
  BY <1>4, <1>6, <1>7, <1>8, Zenon DEF Asked
<1> QED
  BY <1>9 DEF as

(* All Alts of t are queued, and t waits. *)
LEMMA AltWaitsFor ==
  ASSUME NEW b, NEW o, NEW n, NEW q, NEW x, NEW s, NEW g, NEW m,
         m = MakeCh(b, o, n, q, x, s, g), Data(b, o, n, s, g), Queued(q, n, x, s),
         NEW as, NEW t \in Tasks, Asked(as, t, q, x, s),
         Acc(sch, t, TasksOf(q)), sch.running = t, On(sch),
         \A a \in as : ~altcanexec(m, a),
         ch' = [m EXCEPT !.queue = @ \cup as], sch' = taskswitch(sch, t, "alt")
  PROVE  InChans(sch', ch')
<1> DEFINE q2 == q \cup as
           W  == TasksOf(q)
<1>1. ch' = [m EXCEPT !.queue = q2]
  <2>1. m.queue = q
    BY SetField
  <2> QED
    BY <2>1
<1>2. TasksOf(q2) = W \cup {t}
  <2>1. \A a \in as : a.task = t
    BY DEF Asked
  <2>2. PICK a \in as : TRUE
    BY DEF Asked
  <2>3. TasksOf(q2) = W \cup TasksOf(as)
    BY DEF TasksOf
  <2>4. TasksOf(as) = {t}
    BY <2>1, <2>2 DEF TasksOf
  <2> QED
    BY <2>3, <2>4
<1>3. Queued(q2, n, x, s)
  BY AllQueued
<1> HIDE DEF q2, W
<1>4. ch' = MakeCh(b, o, n, q2, x, s, g)
  <2>1. [m EXCEPT !.queue = q2] = MakeCh(b, o, n, q2, x, s, g)
    BY SetField
  <2> QED
    BY <1>1, <2>1
<1>5. "alt" \in Pcs /\ Acc(sch, t, W)
  BY DEF Pcs, W
<1>6. SwitchedTo(sch, t, W, "alt", sch')
  <2>1. SwitchedTo(sch, t, W, "alt", taskswitch(sch, t, "alt"))
    BY <1>5, Switches
  <2> QED
    BY <2>1
<1>7. sch'.thread # "aborted" /\ (On(sch') => Acc(sch', sch'.running, TasksOf(q2)))
  BY <1>2, <1>6 DEF SwitchedTo
<1>8. Left(ch', q2, x)
  BY <1>3, <1>4, Zenon DEF Left
<1> QED
  BY <1>7, <1>8, TalkOn DEF InChans

(* What chanalt finds. *)
LEMMA Found ==
  ASSUME InChans(sch, ch), On(sch)
  PROVE  \E b, o, n, q, x, s, g :
           /\ ch = MakeCh(b, o, n, q, x, s, g) /\ Data(b, o, n, s, g) /\ Queued(q, n, x, s)
           /\ s \in SUBSET Value /\ Acc(sch, sch.running, TasksOf(q))
<1>1. Talk(sch, ch)
  BY DEF InChans
<1>2. PICK b, o, n, q, x, s, g :
        /\ ch = MakeCh(b, o, n, q, x, s, g)
        /\ Data(b, o, n, s, g) /\ Queued(q, n, x, s)
        /\ Acc(sch, sch.running, TasksOf(q))
  BY <1>1 DEF Talk
<1>3. s \in SUBSET Value
  BY <1>2 DEF Data, Kept
<1> QED
  BY <1>2, <1>3, Zenon

(* chanalt, and all that is made of it. *)
LEMMA ChanOpStep ==
  ASSUME InChans(sch, ch), NEW t \in Tasks, NEW D \in (SUBSET Chan) \ {{}},
         NEW ops \in [D -> {"snd", "rcv"}], _chanop(t, ops)
  PROVE  InChans(sch', ch')
<1>1. On(sch) /\ sch.running = t
  BY DEF _chanop, At
<1>2. PICK b, o, n, q, x, s, g :
        /\ ch = MakeCh(b, o, n, q, x, s, g) /\ Data(b, o, n, s, g) /\ Queued(q, n, x, s)
        /\ s \in SUBSET Value /\ Acc(sch, sch.running, TasksOf(q))
  BY <1>1, Found
<1> DEFINE snds == {c \in DOMAIN ops : ops[c] = "snd"}
           x2   == IF snds = {} THEN x ELSE x + 1
           m    == [ch EXCEPT !.next = x2]
           as   == AltsOf(t, ops, x)
<1>3. ch.next = x
  BY <1>2, SetField
<1>4. /\ snds # {} => x \in Value
      /\ chanalt(t, m, as)
  <2>1. as = {[task |-> t, c |-> c, op |-> ops[c],
               v |-> IF c \in snds THEN ch.next ELSE NoValue] : c \in DOMAIN ops}
    BY <1>3 DEF AltsOf
  <2>2. [ch EXCEPT !.next = IF snds = {} THEN @ ELSE @ + 1] = m
    BY <1>3
  <2> QED
    BY <1>3, <2>1, <2>2 DEF _chanop
<1>5. x2 = x \/ x2 = x + 1
  OBVIOUS
<1>6. (\E c \in D : ops[c] = "snd") => x \in Value /\ x2 = x + 1
  BY <1>4
<1> HIDE DEF snds, x2
<1>7. m = MakeCh(b, o, n, q, x2, s, g)
  BY <1>2, SetField
<1>8. Queued(q, n, x2, s)
  BY <1>2, <1>5, TakesNext
<1>9. Asked(as, t, q, x2, s)
  BY <1>2, <1>6, AltsAsked
<1> HIDE DEF m, as
<1>10. Acc(sch, t, TasksOf(q))
  BY <1>1, <1>2
<1>11. ASSUME NEW a \in as, altcanexec(m, a), altexec(m, a)
       PROVE  InChans(sch', ch')
  <2>1. ExecTo(m, a, sch', ch')
    BY <1>11 DEF altexec, CopyWith, ExecTo
  <2> QED
    BY <1>1, <1>2, <1>7, <1>8, <1>9, <1>10, <1>11, <2>1, AltExecutes
<1>12. ASSUME \A a \in as : ~altcanexec(m, a),
              ch' = [m EXCEPT !.queue = @ \cup as], sch' = taskswitch(sch, t, "alt")
       PROVE  InChans(sch', ch')
  BY <1>1, <1>2, <1>7, <1>8, <1>9, <1>10, <1>12, AltWaitsFor
<1> QED
  BY <1>4, <1>11, <1>12 DEF chanalt

(* The steps of the tasks that leave the channels as they are. *)
LEMMA StillTalk ==
  ASSUME NEW z, NEW b, NEW o, NEW n, NEW q, NEW x, NEW s, NEW g,
         ch = MakeCh(b, o, n, q, x, s, g), Data(b, o, n, s, g), Queued(q, n, x, s),
         On(z) => Acc(z, z.running, TasksOf(q)), z.thread = "aborted" => z.why = "cache"
  PROVE  InChans(z, ch)
BY Zenon DEF InChans, Talk

(* A task comes back from chanalt, ... *)
LEMMA ChosenStep ==
  ASSUME InChans(sch, ch), NEW t \in Tasks, Chosen(t)
  PROVE  InChans(sch', ch')
<1>1. On(sch) /\ sch.running = t /\ sch' = Goto(sch, t, "chan") /\ ch' = ch
  BY DEF Chosen, At
<1>2. PICK b, o, n, q, x, s, g :
        /\ ch = MakeCh(b, o, n, q, x, s, g) /\ Data(b, o, n, s, g) /\ Queued(q, n, x, s)
        /\ s \in SUBSET Value /\ Acc(sch, sch.running, TasksOf(q))
  BY <1>1, Found
<1> DEFINE y == Goto(sch, t, "chan")
           W == TasksOf(q)
<1>3. Acc(sch, t, W) /\ sch.st[t] = "live" /\ "chan" \in Pcs
  BY <1>1, <1>2 DEF Acc, Placed, Pcs
<1> HIDE DEF W
<1>4. Acc(y, t, W) /\ y.running = sch.running /\ y.thread = sch.thread
  BY <1>3, GoneOn
<1> HIDE DEF y
<1>5. Acc(y, y.running, TasksOf(q)) /\ y.thread # "aborted"
  BY <1>1, <1>4 DEF W, On
<1>6. InChans(y, ch)
  BY <1>2, <1>5, StillTalk
<1> QED
  BY <1>1, <1>6 DEF y

(* ... creates another, yields or exits. *)
LEMMA TalkerStep ==
  ASSUME InChans(sch, ch), NEW t \in Tasks,
         Worker(t, "chan", Talkers) \/ Leave(t, "chan"), ch' = ch
  PROVE  InChans(sch', ch')
<1>1. On(sch) /\ sch.running = t
  BY DEF Worker, Leave, At
<1>2. PICK b, o, n, q, x, s, g :
        /\ ch = MakeCh(b, o, n, q, x, s, g) /\ Data(b, o, n, s, g) /\ Queued(q, n, x, s)
        /\ s \in SUBSET Value /\ Acc(sch, sch.running, TasksOf(q))
  BY <1>1, Found
<1> DEFINE W == TasksOf(q)
<1>3. Acc(sch, t, W) /\ "chan" \in Pcs
  BY <1>1, <1>2 DEF Pcs
<1> SUFFICES /\ On(sch') => Acc(sch', sch'.running, W)
             /\ sch'.thread = "aborted" => sch'.why = "cache"
  BY <1>2, StillTalk
<1> HIDE DEF W
<1>4. ASSUME NEW small \in BOOLEAN, Cardinality(Live(sch)) < Talkers,
             sch' = taskcreate(sch, "chan", small)
      PROVE  /\ On(sch') => Acc(sch', sch'.running, W)
             /\ sch'.thread = "aborted" => sch'.why = "cache"
  <2>1. Cardinality(Live(sch)) < MaxTask
    <3>1. Live(sch) \in SUBSET Tasks
      BY DEF Live
    <3>2. Cardinality(Live(sch)) \in Nat
      BY <3>1, TaskNames, SubsetCount
    <3>3. Talkers \in 1..MaxTask /\ MaxTask \in Nat
      BY ChanAssumption, TaskNames
    <3> QED
      BY <1>4, <3>2, <3>3
  <2>2. CreatedIn(sch, t, W, "chan", sch')
    BY <1>1, <1>3, <1>4, <2>1, Created
  <2> QED
    BY <1>1, <2>2 DEF CreatedIn
<1>5. ASSUME sch' = taskyield(sch, t, "chan")
      PROVE  /\ On(sch') => Acc(sch', sch'.running, W)
             /\ sch'.thread = "aborted" => sch'.why = "cache"
  BY <1>1, <1>3, <1>5, YieldedAt
<1>6. ASSUME sch' = taskexit(sch, t)
      PROVE  /\ On(sch') => Acc(sch', sch'.running, W)
             /\ sch'.thread = "aborted" => sch'.why = "cache"
  BY <1>1, <1>3, <1>6, Exited
<1> QED
  BY <1>4, <1>5, <1>6 DEF Worker, Leave

(* A state of the program of the channels: an inductive invariant of Spec. *)
ChansInv == prog = "channels" => InChans(sch, ch)

(* Init of the channels. *)
LEMMA ChansInit == Init => ChansInv
<1> SUFFICES ASSUME Init, prog = "channels"
             PROVE  InChans(sch, ch)
  BY DEF ChansInv
<1> DEFINE z == libtask_start("chan")
           b == [c \in Chan |-> [i \in 0..(bufsize[c] - 1) |-> NoValue]]
           o == [c \in Chan |-> 0]
           g == [v \in Value \cup {NoValue} |-> 0]
<1>1. FirstRuns(z, "chan")
  <2>1. "chan" \in Pcs
    BY DEF Pcs
  <2> QED
    BY <2>1, FirstTask
<1>2. First[prog] = "chan"
  BY DEF First
<1>3. sch = z
  BY <1>2 DEF Init
<1>4. ch = MakeCh(b, o, o, {}, 1, {}, g)
  BY DEF Init, NoChans, MakeCh
<1>5. /\ \A c \in Chan : o[c] = 0 /\ b[c] \in [Slots(c) -> Value0]
                         /\ \A i \in Slots(c) : b[c][i] = NoValue
      /\ b \in [Chan -> UNION {[Slots(c) -> Value0] : c \in Chan}]
      /\ o \in [Chan -> Nat]
      /\ g \in [Value0 -> Nat] /\ \A v \in Value0 : g[v] = 0
  <2>1. \A c \in Chan : b[c] \in [Slots(c) -> Value0]
                        /\ \A i \in Slots(c) : b[c][i] = NoValue
    BY DEF Slots, Value0
  <2>2. b \in [Chan -> UNION {[Slots(c) -> Value0] : c \in Chan}]
    BY <2>1
  <2>3. g \in [Value0 -> Nat] /\ \A v \in Value0 : g[v] = 0
    BY DEF Value0
  <2> QED
    BY <2>1, <2>2, <2>3
<1> HIDE DEF z, b, o, g
<1>6. Rings(b, o, o)
  <2>1. ASSUME NEW c \in Chan
        PROVE  /\ b[c] \in [Slots(c) -> Value0]
               /\ o[c] <= bufsize[c] /\ (o[c] = 0 \/ o[c] < bufsize[c])
               /\ \A i \in Slots(c) :
                    b[c][i] # NoValue <=> InWindow(o[c], o[c], bufsize[c], i)
    <3>1. o[c] = 0 /\ bufsize[c] \in Nat
      BY <1>5, Sizes
    <3>2. \A i \in Slots(c) : i \in Nat /\ i < bufsize[c] /\ b[c][i] = NoValue
      BY <1>5, Sizes
    <3>3. \A i \in Slots(c) : ~InWindow(o[c], o[c], bufsize[c], i)
      BY <3>1, <3>2 DEF InWindow
    <3> QED
      BY <1>5, <3>1, <3>2, <3>3
  <2> QED
    BY <1>5, <2>1 DEF Rings
<1>7. Kept(b, {}, g)
  <2>1. g[NoValue] = 0 /\ \A v \in Value : g[v] = 0
    BY <1>5 DEF Value0
  <2>2. \A c \in Chan : \A i \in Slots(c) : b[c][i] = NoValue
    BY <1>5
  <2> QED
    BY <1>5, <2>1, <2>2 DEF Kept
<1>8. Data(b, o, o, {}, g)
  BY <1>6, <1>7 DEF Data
<1>9. Queued({}, o, 1, {})
  BY DEF Queued, Blocked, OneWay, Unsent
<1>10. TasksOf({}) = {}
  BY DEF TasksOf
<1>11. /\ On(z) => Acc(z, z.running, TasksOf({}))
       /\ z.thread = "aborted" => z.why = "cache"
  BY <1>1, <1>10 DEF FirstRuns
<1> QED
  BY <1>3, <1>4, <1>8, <1>9, <1>11, StillTalk

(* Every step keeps this one too. *)
LEMMA ChansStep == ChansInv /\ [Next]_vars => ChansInv'
<1> SUFFICES ASSUME ChansInv, [Next]_vars
             PROVE  ChansInv'
  OBVIOUS
<1>1. CASE UNCHANGED vars
  BY <1>1 DEF vars, ChansInv
<1>2. CASE Next /\ prog = "channels"
  <2>0. InChans(sch, ch)
    BY <1>2 DEF ChansInv
  <2>1. PICK t \in Tasks :
          \/ \E D \in (SUBSET Chan) \ {{}} : \E ops \in [D -> {"snd", "rcv"}] :
               _chanop(t, ops)
          \/ Chosen(t)
          \/ (Worker(t, "chan", Talkers) \/ Leave(t, "chan")) /\ UNCHANGED ch
    BY <1>2 DEF Next, ChannelNext
  <2>2. InChans(sch', ch')
    <3>1. CASE \E D \in (SUBSET Chan) \ {{}} : \E ops \in [D -> {"snd", "rcv"}] :
                 _chanop(t, ops)
      <4>1. PICK D \in (SUBSET Chan) \ {{}} :
              \E ops \in [D -> {"snd", "rcv"}] : _chanop(t, ops)
        BY <3>1
      <4>2. PICK ops \in [D -> {"snd", "rcv"}] : _chanop(t, ops)
        BY <4>1
      <4> QED
        BY <2>0, <4>2, ChanOpStep
    <3>2. CASE Chosen(t)
      BY <2>0, <3>2, ChosenStep
    <3>3. CASE (Worker(t, "chan", Talkers) \/ Leave(t, "chan")) /\ UNCHANGED ch
      BY <2>0, <3>3, TalkerStep
    <3> QED
      BY <2>1, <3>1, <3>2, <3>3
  <2> QED
    BY <2>2 DEF ChansInv
<1>3. CASE Next /\ prog # "channels"
  BY <1>3 DEF Next, ChansInv
<1> QED
  BY <1>1, <1>2, <1>3

(* It holds throughout. *)
THEOREM ChansInvariance == Spec => []ChansInv
BY ChansInit, ChansStep, PTL DEF Spec

(* The list of a set of tasks. *)
LEMMA ListOfSet ==
  ASSUME NEW T \in SUBSET Tasks
  PROVE  /\ SetToSeq(T) \in Seq(Tasks) /\ Distinct(SetToSeq(T), Tasks)
         /\ SetOf(SetToSeq(T)) = T
<1> DEFINE n == Cardinality(T)
           f == SetToSeq(T)
<1>1. n \in Nat /\ ExistsBijection(1..n, T)
  <2>1. IsFiniteSet(T)
    BY TaskNames, SubsetCount
  <2> QED
    BY <2>1, FS_CardinalityType
<1>2. f \in [1..n -> T] /\ IsInjective(f) /\ IsFiniteSet(T)
  <2>1. PICK g \in Bijection(1..n, T) : TRUE
    BY <1>1 DEF ExistsBijection
  <2>2. g \in [1..n -> T] /\ IsInjective(g)
    BY <2>1 DEF Bijection, Injection, IsInjective
  <2>3. IsFiniteSet(T)
    BY TaskNames, SubsetCount
  <2> QED
    BY <2>2, <2>3 DEF SetToSeq
<1> HIDE DEF f
<1>3. f \in Injection(1..n, T)
  BY <1>2 DEF Injection
<1>4. f \in Surjection(1..n, T)
  <2>1. IsFiniteSet(1..n) /\ Cardinality(1..n) = n
    BY <1>1, FS_Interval
  <2> HIDE DEF n
  <2> QED
    BY <1>2, <1>3, <2>1, FS_Injection DEF n
<1>5. \A t \in T : \E i \in 1..n : f[i] = t
  BY <1>4 DEF Surjection
<1> HIDE DEF n
<1>6. f \in Seq(T) /\ Len(f) = n
  BY <1>1, <1>2
<1>7. f \in Seq(Tasks)
  BY <1>1, <1>2
<1>8. SetOf(f) = T
  BY <1>2, <1>5, <1>6 DEF SetOf
<1>9. Distinct(f, Tasks)
  BY <1>2, <1>6 DEF Distinct, IsInjective
<1> QED
  BY <1>7, <1>8, <1>9 DEF f

(* No task of the channels is lost or queued twice. *)
THEOREM ChannelTasksAccounted == Spec => [](prog = "channels" => TasksAccounted)
<1>1. ChansInv => (prog = "channels" => TasksAccounted)
  <2> SUFFICES ASSUME ChansInv, prog = "channels", On(sch)
               PROVE  OnePlace(Waits) /\ Counted
    BY DEF TasksAccounted
  <2>1. InChans(sch, ch)
    BY DEF ChansInv
  <2>2. PICK b, o, n, q, x, s, g :
          /\ ch = MakeCh(b, o, n, q, x, s, g) /\ Data(b, o, n, s, g) /\ Queued(q, n, x, s)
          /\ s \in SUBSET Value /\ Acc(sch, sch.running, TasksOf(q))
    BY <2>1, Found
  <2> DEFINE W == TasksOf(q)
             f == SetToSeq(W)
             L == <<f>>
  <2>3. ch.queue = q
    BY <2>2, SetField
  <2>4. Waits = L
    BY <2>3 DEF Waits, AltWaits, TasksOf
  <2>5. Acc(sch, sch.running, W)
    BY <2>2
  <2> HIDE DEF W
  <2>6. f \in Seq(Tasks) /\ Distinct(f, Tasks) /\ SetOf(f) = W
    <3>1. W \in SUBSET Tasks
      BY <2>5 DEF Acc
    <3> QED
      BY <3>1, ListOfSet
  <2> HIDE DEF f
  <2>7. 1..Len(L) = {1} /\ L[1] = f
    OBVIOUS
  <2> HIDE DEF L
  <2>8. WaitIn(L, W)
    BY <2>6, <2>7 DEF WaitIn
  <2>9. OnePlace(L) /\ Counted
    BY <2>5, <2>8, InPlaces
  <2> QED
    BY <2>4, <2>9
<1> QED
  BY <1>1, ChansInvariance, PTL

(* The places of a value in the rings. *)
PlacesIn(b, v) == UNION {{<<c, i>> : i \in {j \in DOMAIN b[c] : b[c][j] = v}} : c \in Chan}

(* There is one, unless it was received. *)
LEMMA ValueInOnePlace ==
  ASSUME NEW b, NEW o, NEW n, NEW s, NEW g, Data(b, o, n, s, g), NEW v \in Value
  PROVE  g[v] + Cardinality(PlacesIn(b, v)) = IF v \in s THEN 1 ELSE 0
<1> DEFINE P == PlacesIn(b, v)
<1>1. \A c \in Chan : DOMAIN b[c] = Slots(c)
  BY DEF Data, Rings
<1>2. \A p : p \in P <=> \E c \in Chan : \E i \in Slots(c) : p = <<c, i>> /\ b[c][i] = v
  BY <1>1 DEF PlacesIn
<1>3. /\ v # NoValue
      /\ v \notin s => g[v] = 0
      /\ v \in s => \/ g[v] = 1
                    \/ g[v] = 0 /\ \E c \in Chan : \E i \in Slots(c) : b[c][i] = v
  BY Sizes DEF Data, Kept, Value, NoValue
<1>4. ASSUME NEW c \in Chan, NEW i \in Slots(c), b[c][i] = v
      PROVE  /\ v \in s /\ g[v] = 0
             /\ \A d \in Chan : \A j \in Slots(d) : b[d][j] = v => d = c /\ j = i
  BY <1>3, <1>4 DEF Data, Kept
<1> HIDE DEF P
<1>5. CASE \E c \in Chan : \E i \in Slots(c) : b[c][i] = v
  <2>1. PICK c \in Chan : \E i \in Slots(c) : b[c][i] = v
    BY <1>5
  <2>2. PICK i \in Slots(c) : b[c][i] = v
    BY <2>1
  <2>3. P = {<<c, i>>}
    BY <1>2, <1>4, <2>2
  <2>4. Cardinality(P) = 1
    BY <2>3, FS_Singleton
  <2> QED
    BY <1>4, <2>2, <2>4 DEF P
<1>6. CASE ~\E c \in Chan : \E i \in Slots(c) : b[c][i] = v
  <2>1. P = {}
    BY <1>2, <1>6
  <2>2. Cardinality(P) = 0
    BY <2>1, FS_EmptySet
  <2> QED
    BY <1>3, <1>6, <2>2 DEF P
<1> QED
  BY <1>5, <1>6

(* No Alt that is queued could be executed. *)
LEMMA NoneCanExec ==
  ASSUME NEW b, NEW o, NEW n, NEW q, NEW x, NEW s, NEW g, NEW m,
         m = MakeCh(b, o, n, q, x, s, g), Data(b, o, n, s, g), Queued(q, n, x, s),
         NEW a \in q
  PROVE  ~altcanexec(m, a)
<1>0. m.nbuf = n /\ m.queue = q
  BY SetField
<1>1. a.c \in Chan /\ a.op \in {"snd", "rcv"}
  BY AltFields DEF Queued
<1>2. bufsize[a.c] \in Nat /\ n[a.c] \in Nat
  BY <1>1, Sizes DEF Data, Rings
<1>3. /\ a.op = "snd" => n[a.c] = bufsize[a.c]
      /\ a.op = "rcv" => n[a.c] = 0
  BY DEF Queued, Blocked
<1>4. CASE bufsize[a.c] = 0
  <2>1. altcanexec(m, a) = (Others(m, a) # {})
    BY <1>4 DEF altcanexec
  <2>2. \A e \in q : e.c = a.c => e.op = a.op
    BY DEF Queued, OneWay
  <2>3. a.op # otherop(a.op)
    BY DEF otherop
  <2>4. Others(m, a) = {}
    BY <1>0, <2>2, <2>3 DEF Others
  <2> QED
    BY <2>1, <2>4
<1>5. CASE bufsize[a.c] > 0 /\ a.op = "snd"
  <2>1. altcanexec(m, a) = (m.nbuf[a.c] < bufsize[a.c])
    BY <1>5 DEF altcanexec
  <2>2. ~(n[a.c] < bufsize[a.c])
    BY <1>2, <1>3, <1>5
  <2> QED
    BY <1>0, <2>1, <2>2
<1>6. CASE bufsize[a.c] > 0 /\ a.op = "rcv"
  <2>1. altcanexec(m, a) = (m.nbuf[a.c] > 0)
    BY <1>6 DEF altcanexec
  <2>2. ~(n[a.c] > 0)
    BY <1>2, <1>3, <1>6
  <2> QED
    BY <1>0, <2>1, <2>2
<1> QED
  BY <1>1, <1>2, <1>4, <1>5, <1>6

(* No value is lost or delivered twice, and nobody waits for a channel     *)
(* that could serve him.                                                   *)
THEOREM ChannelWaitersBlocked == Spec => [](prog = "channels" => WaitersBlocked)
<1>1. ChansInv => (prog = "channels" => WaitersBlocked)
  <2> SUFFICES ASSUME ChansInv, prog = "channels", On(sch)
               PROVE  ValuesDelivered
    BY DEF WaitersBlocked
  <2>1. InChans(sch, ch)
    BY DEF ChansInv
  <2>2. PICK b, o, n, q, x, s, g :
          /\ ch = MakeCh(b, o, n, q, x, s, g) /\ Data(b, o, n, s, g) /\ Queued(q, n, x, s)
          /\ s \in SUBSET Value /\ Acc(sch, sch.running, TasksOf(q))
    BY <2>1, Found
  <2>3. ch.buf = b /\ ch.queue = q /\ ch.sent = s /\ ch.got = g
    BY <2>2, SetField
  <2>4. g[NoValue] = 0
    BY <2>2 DEF Data, Kept
  <2>5. \A v \in Value : g[v] + Cardinality(PlacesIn(b, v)) = IF v \in s THEN 1 ELSE 0
    BY <2>2, ValueInOnePlace
  <2>6. \A a, e \in q : a.c = e.c => a.op = e.op
    BY <2>2 DEF Queued, OneWay
  <2>7. \A a \in q : ~altcanexec(ch, a)
    BY <2>2, NoneCanExec
  <2> QED
    BY <2>3, <2>4, <2>5, <2>6, <2>7 DEF ValuesDelivered, PlacesIn
<1> QED
  BY <1>1, ChansInvariance, PTL

(* The asserts of the scheduler hold under the channels. *)
THEOREM ChannelAbortsExplained == Spec => [](prog = "channels" => AbortsExplained)
<1>1. ChansInv => (prog = "channels" => AbortsExplained)
  BY DEF ChansInv, InChans, AbortsExplained
<1> QED
  BY <1>1, ChansInvariance, PTL

(***************************************************************************)
(* aiotask.  It polls when nobody else is ready: it is back from its       *)
(* taskyield with nswitch = 1 only if it was the only task in the queue.   *)
(***************************************************************************)
AioPcs     == {"aiotask", "yielded", "poll"}
OneAio(pc) == \A t, u \in Tasks : pc[t] \in AioPcs /\ pc[u] \in AioPcs => t = u

(* What holds of it while another task runs or none, ... *)
AioIdle(s) ==
  /\ OneAio(s.pc)
  /\ \A t \in Tasks : s.pc[t] # "poll" /\ (s.pc[t] = "yielded" => s.nswitch >= 1)
(* ... and whoever runs. *)
AioOk(s) ==
  /\ OneAio(s.pc)
  /\ \A t \in Tasks :
       /\ s.pc[t] = "poll" => t = s.running /\ s.runq = <<>>
       /\ s.pc[t] = "yielded" =>
            s.nswitch >= 1 /\ (t = s.running /\ s.nswitch <= 1 => s.runq = <<>>)

(* In the middle of a step of t, and after a step. *)
Mid(s, t, W) ==
  s \in Thread /\ On(s) /\ s.running = t /\ t \in Tasks /\ Acc(s, t, W) /\ AioIdle(s)
After(x, W) ==
  /\ x \in Thread /\ x.thread # "aborted"
  /\ On(x) => Acc(x, x.running, W) /\ AioOk(x)

(* What the other tasks do stays as it is. *)
Others1(s, x, t) == x.st = s.st /\ \A u \in Tasks \ {t} : x.pc[u] = s.pc[u]

(* Who runs is live, and neither ready nor waiting. *)
LEMMA RunnerLive ==
  ASSUME NEW s, NEW t, NEW W, Mid(s, t, W)
  PROVE  /\ s.st[t] = "live" /\ ~InQueue(t, s.runq) /\ t \notin W
         /\ W \in SUBSET Tasks /\ t \in Tasks
BY DEF Mid, Acc, Placed

(* A step starts with a task that is not aiotask, ... *)
LEMMA MidStart ==
  ASSUME NEW s, NEW t \in Tasks, NEW W, On(s), s.running = t, Acc(s, s.running, W), AioOk(s),
         s.pc[t] \notin AioPcs \/ s.pc[t] = "aiotask"
  PROVE  Mid(s, t, W)
<1>1. \A u \in Tasks : s.pc[u] # "poll"
  BY DEF AioOk, AioPcs
<1> QED
  BY <1>1 DEF Mid, Acc, AioOk, AioIdle

(* ... and may end without a switch. *)
LEMMA MidEnd ==
  ASSUME NEW s, NEW t, NEW W, Mid(s, t, W), s.pc[t] \notin AioPcs
  PROVE  After(s, W)
<1>1. s.thread = "on"
  BY DEF Mid, On
<1>2. AioOk(s)
  BY DEF Mid, AioIdle, AioOk, AioPcs
<1> QED
  BY <1>1, <1>2 DEF Mid, After

(* The functions of the scheduler in the middle of a step: Goto, ... *)
LEMMA MidGoto ==
  ASSUME NEW s, NEW t, NEW W, Mid(s, t, W), NEW l \in Pcs \ AioPcs
  PROVE  LET x == Goto(s, t, l)
         IN  Mid(x, t, W) /\ Others1(s, x, t) /\ x.pc[t] = l
<1> DEFINE x == Goto(s, t, l)
<1>1. t \in Tasks /\ s.st[t] = "live" /\ Acc(s, t, W)
  BY RunnerLive DEF Mid
<1>2. /\ Acc(x, t, W) /\ x \in Thread /\ x.st = s.st /\ x.thread = s.thread
      /\ x.running = s.running /\ x.nswitch = s.nswitch
      /\ x.pc[t] = l /\ \A u \in Tasks \ {t} : x.pc[u] = s.pc[u]
  BY <1>1, GoneOn
<1> HIDE DEF x
<1>3. l # "poll" /\ l # "yielded"
  BY DEF AioPcs
<1>4. AioIdle(x)
  <2>1. AioIdle(s)
    BY DEF Mid
  <2>2. OneAio(x.pc)
    BY <1>2, <2>1 DEF AioIdle, OneAio
  <2>3. \A u \in Tasks : x.pc[u] # "poll" /\ (x.pc[u] = "yielded" => x.nswitch >= 1)
    BY <1>2, <1>3, <2>1 DEF AioIdle
  <2> QED
    BY <2>2, <2>3 DEF AioIdle
<1>5. Mid(x, t, W)
  BY <1>1, <1>2, <1>4 DEF Mid, On
<1> QED
  BY <1>2, <1>5 DEF x, Others1

(* ... taskready of a task that waits, or of all in a list, ... *)
LEMMA MidReady ==
  ASSUME NEW s, NEW t, NEW W, Mid(s, t, W), NEW u \in W
  PROVE  LET x == taskready(s, u)
         IN  Mid(x, t, W \ {u}) /\ x.st = s.st /\ x.pc = s.pc
<1> DEFINE x == taskready(s, u)
<1>1. u \in Tasks /\ s \in Thread /\ Acc(s, t, W)
  BY RunnerLive DEF Mid
<1>2. /\ x \in Thread /\ x.st = s.st /\ x.pc = s.pc /\ x.thread = s.thread
      /\ x.running = s.running /\ x.nswitch = s.nswitch
  BY <1>1, ReadyOut
<1>3. Acc(x, t, W \ {u})
  BY <1>1, WokenUp
<1> HIDE DEF x
<1>4. Mid(x, t, W \ {u})
  BY <1>2, <1>3 DEF Mid, AioIdle, On
<1> QED
  BY <1>2, <1>4 DEF x

(* ... or of all in a list, ... *)
LEMMA MidReadyAll ==
  ASSUME NEW s, NEW t, NEW W, Mid(s, t, W), NEW q \in Seq(Tasks), Distinct(q, Tasks),
         NEW V \in SUBSET W, \A u \in Tasks : InQueue(u, q) <=> u \in V
  PROVE  LET x == ReadyAll(s, q)
         IN  Mid(x, t, W \ V) /\ x.st = s.st /\ x.pc = s.pc
<1> DEFINE x == ReadyAll(s, q)
<1>1. s \in Thread /\ Acc(s, t, W)
  BY DEF Mid
<1>2. WokenTo(s, t, W \ V, x)
  BY <1>1, AllWoken
<1>3. x.nswitch = s.nswitch
  BY <1>1 DEF ReadyAll, Thread
<1> HIDE DEF x
<1>4. Mid(x, t, W \ V)
  BY <1>2, <1>3 DEF Mid, AioIdle, On, WokenTo, Acc
<1> QED
  BY <1>2, <1>4 DEF x, WokenTo

(* ... taskcreate and tasksystem. *)
MadeIn(s, t, W, fn, x) ==
  /\ x \in Thread /\ (x.thread = "aborted" => x.why = "cache")
  /\ On(x) => /\ Mid(x, t, W)
              /\ \E u \in Tasks :
                   /\ s.st[u] # "live" /\ x.st[u] = "live" /\ x.pc[u] = fn
                   /\ s.pc[u] = "" /\ u # t /\ u \notin W
                   /\ \A v \in Tasks \ {u} : x.st[v] = s.st[v] /\ x.pc[v] = s.pc[v]

(* A task is created while t runs, ... *)
LEMMA MidCreate ==
  ASSUME NEW s, NEW t, NEW W, Mid(s, t, W), Cardinality(Live(s)) < MaxTask,
         NEW fn \in Pcs, NEW small \in BOOLEAN,
         fn \notin AioPcs \/ (fn = "aiotask" /\ \A u \in Tasks : s.pc[u] \notin AioPcs)
  PROVE  MadeIn(s, t, W, fn, taskcreate(s, fn, small))
<1> DEFINE x == taskcreate(s, fn, small)
<1>1. Acc(s, t, W) /\ On(s) /\ t \in Tasks /\ AioIdle(s) /\ s.running = t
  BY DEF Mid
<1>2. CreatedIn(s, t, W, fn, x)
  BY <1>1, Created
<1> HIDE DEF x
<1>3. x \in Thread /\ (x.thread = "aborted" => x.why = "cache")
  BY <1>2 DEF CreatedIn
<1>4. ASSUME On(x)
      PROVE  /\ Mid(x, t, W)
             /\ \E u \in Tasks :
                  /\ s.st[u] # "live" /\ x.st[u] = "live" /\ x.pc[u] = fn
                  /\ s.pc[u] = "" /\ u # t /\ u \notin W
                  /\ \A v \in Tasks \ {u} : x.st[v] = s.st[v] /\ x.pc[v] = s.pc[v]
  <2>1. Acc(x, t, W) /\ x.running = s.running /\ x.nswitch = s.nswitch
    BY <1>2, <1>4 DEF CreatedIn
  <2>2. PICK u \in Tasks :
          /\ s.st[u] # "live" /\ x.st[u] = "live" /\ x.pc[u] = fn
          /\ \A v \in Tasks \ {u} : x.st[v] = s.st[v] /\ x.pc[v] = s.pc[v]
    BY <1>2, <1>4 DEF CreatedIn
  <2>3. s.pc[u] = "" /\ u # t /\ u \notin W
    BY <1>1, <2>2 DEF Acc, Placed
  <2>4. AioIdle(x)
    <3>1. OneAio(x.pc)
      BY <1>1, <2>2 DEF AioIdle, OneAio
    <3>2. fn # "poll" /\ fn # "yielded"
      BY DEF AioPcs
    <3> QED
      BY <1>1, <2>1, <2>2, <3>1, <3>2 DEF AioIdle
  <2>5. Mid(x, t, W)
    BY <1>1, <1>3, <1>4, <2>1, <2>4 DEF Mid
  <2> QED
    BY <2>2, <2>3, <2>5
<1>5. MadeIn(s, t, W, fn, x)
  BY <1>3, <1>4 DEF MadeIn
<1> QED
  BY <1>5 DEF x

(* ... or t becomes a system task. *)
LEMMA MidSystem ==
  ASSUME NEW s, NEW t, NEW W, Mid(s, t, W)
  PROVE  LET x == tasksystem(s, t)
         IN  Mid(x, t, W) /\ x.st = s.st /\ x.pc = s.pc
<1> DEFINE x == tasksystem(s, t)
           y == [s.system EXCEPT ![t] = TRUE]
           n == s.count - 1
<1>1. /\ t \in Tasks /\ s \in Thread /\ s.system \in [Tasks -> BOOLEAN] /\ s.count \in Int
      /\ s.st[t] = "live" /\ Acc(s, t, W)
  <2>1. t \in Tasks /\ s \in Thread /\ s.st[t] = "live" /\ Acc(s, t, W)
    BY RunnerLive DEF Mid
  <2> QED
    BY <2>1, SchedFields
<1>2. CASE s.system[t]
  BY <1>2 DEF tasksystem
<1>3. CASE ~s.system[t]
  <2>1. x = [s EXCEPT !.system = y, !.count = n]
    BY <1>1, <1>3 DEF tasksystem
  <2>2. /\ y \in [Tasks -> BOOLEAN] /\ y[t] /\ n \in Int
        /\ \A u \in Tasks \ {t} : y[u] = s.system[u]
    BY <1>1
  <2>3. n = s.count - 1
    OBVIOUS
  <2> HIDE DEF y, n
  <2>4. /\ x \in Thread /\ x.runq = s.runq /\ x.cache = s.cache /\ x.count = n /\ x.st = s.st
        /\ x.system = y /\ x.pc = s.pc /\ x.thread = s.thread /\ x.running = s.running
        /\ x.nswitch = s.nswitch
    BY <1>1, <2>1, <2>2 DEF Thread
  <2> HIDE DEF x
  <2>5. Placed(x, t, W)
    <3> SUFFICES ASSUME NEW u \in Tasks
                 PROVE  PlacedAt(x, t, W, u)
      BY DEF Placed, PlacedAt
    <3>1. PlacedAt(s, t, W, u)
      BY <1>1 DEF Acc, Placed, PlacedAt
    <3>2. CASE u = t
      BY <1>1, <2>4, <3>1, <3>2 DEF PlacedAt
    <3>3. CASE u # t
      <4>1. y[u] = s.system[u]
        BY <2>2, <3>3
      <4> QED
        BY <2>4, <3>1, <4>1, Zenon DEF PlacedAt
    <3> QED
      BY <3>2, <3>3
  <2>6. x.count = Cardinality(Owned(x))
    <3>1. Owned(s) \in SUBSET Tasks /\ Owned(x) \in SUBSET Tasks
      BY DEF Owned
    <3>2. t \in Owned(s) /\ t \notin Owned(x)
      BY <1>1, <1>3, <2>2, <2>4 DEF Owned
    <3>3. \A u \in Tasks : u # t => (u \in Owned(s) <=> u \in Owned(x))
      BY <2>2, <2>4 DEF Owned
    <3>4. Moved(t, Owned(s), Owned(x))
      BY <1>1, <3>1, <3>2, <3>3, TaskNames, CountMove
    <3> QED
      BY <1>1, <2>3, <2>4, <3>2, <3>4 DEF Moved, Acc
  <2>7. Acc(x, t, W)
    BY <1>1, <2>4, <2>5, <2>6 DEF Acc
  <2>8. Mid(x, t, W)
    BY <2>4, <2>7 DEF Mid, AioIdle, On
  <2> QED
    BY <2>4, <2>8 DEF x
<1> QED
  BY <1>2, <1>3

(* The turn of the scheduler: nswitch grows. *)
LEMMA AioSwitched ==
  ASSUME NEW s, NEW W, Acc(s, Nobody, W), On(s), AioIdle(s)
  PROVE  After(taskscheduler(s), W)
<1> DEFINE x == taskscheduler(s)
<1>1. /\ x \in Thread /\ x.thread # "aborted"
      /\ On(x) => Acc(x, x.running, W) /\ x.pc = s.pc
  BY Switched
<1>2. ASSUME On(x) PROVE AioOk(x)
  <2>1. s.count # 0 /\ s.runq # <<>>
    <3>1. s.count = 0 => x = [s EXCEPT !.thread = "exited", !.running = Nobody]
      BY DEF taskscheduler, End
    <3>2. s.count # 0 /\ s.runq = <<>> =>
            \E f : x = End(f, IF f.count = 0 THEN "exited" ELSE "stalled")
      BY DEF taskscheduler
    <3>3. s \in Thread
      BY DEF Acc
    <3>4. s.count = 0 => x.thread = "exited"
      BY <3>1, <3>3 DEF Thread
    <3>5. ASSUME s.count # 0, s.runq = <<>> PROVE FALSE
      <4>1. PICK f : x = End(f, IF f.count = 0 THEN "exited" ELSE "stalled")
        BY <3>2, <3>5
      <4>2. x.thread # "on"
        BY <1>1, <4>1 DEF End, Thread
      <4> QED
        BY <1>2, <4>2 DEF On
    <3> QED
      BY <1>2, <3>4, <3>5 DEF On
  <2> DEFINE n == IF s.nswitch = 2 THEN 2 ELSE s.nswitch + 1
             h == Head(s.runq)
             q == Tail(s.runq)
  <2>2. x = [s EXCEPT !.running = h, !.runq = q, !.nswitch = n]
    BY <2>1 DEF taskscheduler
  <2>3. s \in Thread /\ s.nswitch \in 0..2
    BY SchedFields DEF Acc
  <2>4. n \in 0..2 /\ (s.nswitch >= 1 => n = 2)
    BY <2>3
  <2> HIDE DEF n, h, q
  <2>5. x.nswitch = n /\ x.pc = s.pc
    BY <2>2, <2>3 DEF Thread
  <2> HIDE DEF x
  <2>6. \A t \in Tasks : x.pc[t] # "poll" /\ (x.pc[t] = "yielded" => x.nswitch = 2)
    BY <2>4, <2>5 DEF AioIdle
  <2> QED
    BY <2>5, <2>6 DEF AioIdle, AioOk
<1> HIDE DEF x
<1>3. After(x, W)
  BY <1>1, <1>2 DEF After
<1> QED
  BY <1>3 DEF x

(* A step ends with a switch, ... *)
MidTo(s, t, l, x) ==
  On(x) => x.st = s.st /\ x.pc[t] = l /\ \A u \in Tasks \ {t} : x.pc[u] = s.pc[u]

(* It goes on at l when it runs again. *)
LEMMA MidSwitch ==
  ASSUME NEW s, NEW t, NEW W, Mid(s, t, W), NEW l \in Pcs \ AioPcs
  PROVE  /\ After(taskswitch(s, t, l), W \cup {t})
         /\ MidTo(s, t, l, taskswitch(s, t, l))
<1> DEFINE y == Goto(s, t, l)
           x == taskscheduler(y)
<1>1. t \in Tasks
  BY DEF Mid
<1>2. Mid(y, t, W) /\ Others1(s, y, t) /\ y.pc[t] = l
  BY MidGoto
<1> HIDE DEF y
<1>3. Acc(y, Nobody, W \cup {t}) /\ On(y) /\ AioIdle(y)
  BY <1>1, <1>2, Parked DEF Mid
<1>4. After(x, W \cup {t})
  BY <1>3, AioSwitched
<1>5. On(x) => x.st = y.st /\ x.pc = y.pc
  BY <1>3, Switched
<1> HIDE DEF x
<1>6. MidTo(s, t, l, x)
  BY <1>2, <1>5 DEF MidTo, Others1
<1>7. taskswitch(s, t, l) = x
  BY DEF taskswitch, x, y
<1> QED
  BY <1>4, <1>6, <1>7

(* ... by a yield ... *)
LEMMA MidYield ==
  ASSUME NEW s, NEW t, NEW W, Mid(s, t, W), NEW l \in Pcs \ AioPcs
  PROVE  /\ After(taskyield(s, t, l), W)
         /\ MidTo(s, t, l, taskyield(s, t, l))
<1> DEFINE y == taskready(s, t)
           z == Goto(y, t, l)
           x == taskscheduler(z)
<1>1. t \in Tasks /\ s \in Thread /\ Acc(s, t, W) /\ s.st[t] = "live"
  BY RunnerLive DEF Mid
<1>2. /\ Acc(y, Nobody, W) /\ y.st = s.st /\ y.pc = s.pc /\ y.thread = s.thread
      /\ y.nswitch = s.nswitch
  BY <1>1, Yielded, ReadyOut
<1> HIDE DEF y
<1>3. /\ Acc(z, Nobody, W) /\ z.st = y.st /\ z.thread = y.thread /\ z.nswitch = y.nswitch
      /\ z.pc[t] = l /\ \A u \in Tasks \ {t} : z.pc[u] = y.pc[u]
  BY <1>1, <1>2, GoneOn
<1> HIDE DEF z
<1>4. AioIdle(z)
  <2>1. AioIdle(s) /\ l # "poll" /\ l # "yielded"
    BY DEF Mid, AioPcs
  <2>2. OneAio(z.pc)
    BY <1>2, <1>3, <2>1 DEF AioIdle, OneAio
  <2>3. \A u \in Tasks : z.pc[u] # "poll" /\ (z.pc[u] = "yielded" => z.nswitch >= 1)
    BY <1>2, <1>3, <2>1 DEF AioIdle
  <2> QED
    BY <2>2, <2>3 DEF AioIdle
<1>5. On(z)
  BY <1>2, <1>3 DEF Mid, On
<1>6. After(x, W)
  BY <1>3, <1>4, <1>5, AioSwitched
<1>7. On(x) => x.st = z.st /\ x.pc = z.pc
  BY <1>3, <1>5, Switched
<1> HIDE DEF x
<1>8. MidTo(s, t, l, x)
  BY <1>2, <1>3, <1>7 DEF MidTo
<1>9. taskyield(s, t, l) = x
  BY DEF taskyield, taskswitch, x, y, z
<1> QED
  BY <1>6, <1>8, <1>9

(* ... or by an exit. *)
GoneTo(s, t, x) ==
  On(x) => /\ x.st[t] # "live" /\ x.pc[t] = ""
           /\ \A u \in Tasks \ {t} : x.pc[u] = s.pc[u] /\ x.st[u] = s.st[u]

(* Whoever exits, aiotask included. *)
LEMMA MidExit ==
  ASSUME NEW s, NEW t \in Tasks, NEW W, Acc(s, t, W), On(s), OneAio(s.pc),
         \A u \in Tasks \ {t} : s.pc[u] # "poll" /\ (s.pc[u] = "yielded" => s.nswitch >= 1)
  PROVE  After(taskexit(s, t), W) /\ GoneTo(s, t, taskexit(s, t))
<1> DEFINE y == Retire(s, t)
           x == taskscheduler(y)
<1>1. RetiredTo(s, t, W, y)
  BY Retired
<1> HIDE DEF y
<1>2. Acc(y, Nobody, W) /\ On(y)
  BY <1>1 DEF RetiredTo, On
<1>3. AioIdle(y)
  <2>1. OneAio(y.pc)
    BY <1>1 DEF RetiredTo, OneAio, AioPcs
  <2>2. \A u \in Tasks : y.pc[u] # "poll" /\ (y.pc[u] = "yielded" => y.nswitch >= 1)
    BY <1>1 DEF RetiredTo
  <2> QED
    BY <2>1, <2>2 DEF AioIdle
<1>4. After(x, W)
  BY <1>2, <1>3, AioSwitched
<1>5. On(x) => x.st = y.st /\ x.pc = y.pc
  BY <1>2, Switched
<1> HIDE DEF x
<1>6. GoneTo(s, t, x)
  BY <1>1, <1>5 DEF GoneTo, RetiredTo
<1>7. taskexit(s, t) = x
  BY DEF taskexit, x, y
<1> QED
  BY <1>4, <1>6, <1>7

(* The exit of a task in the middle of its step. *)
LEMMA MidExits ==
  ASSUME NEW s, NEW t, NEW W, Mid(s, t, W)
  PROVE  After(taskexit(s, t), W) /\ GoneTo(s, t, taskexit(s, t))
<1>1. t \in Tasks /\ Acc(s, t, W) /\ On(s) /\ AioIdle(s)
  BY DEF Mid
<1>2. /\ OneAio(s.pc)
      /\ \A u \in Tasks \ {t} : s.pc[u] # "poll" /\ (s.pc[u] = "yielded" => s.nswitch >= 1)
  BY <1>1 DEF AioIdle
<1> QED
  BY <1>1, <1>2, MidExit

(* The yield of aiotask: if the others are not ready it is back at once. *)
LEMMA AioYields ==
  ASSUME NEW s, NEW t \in Tasks, NEW W, Acc(s, t, W), On(s), OneAio(s.pc), s.pc[t] \in AioPcs
  PROVE  After(AioYield(s, t), W) /\ MidTo(s, t, "yielded", AioYield(s, t))
<1> DEFINE p == [s EXCEPT !.nswitch = 0]
           y == taskready(p, t)
           z == Goto(y, t, "yielded")
           x == taskscheduler(z)
<1>1. s \in Thread /\ s.st[t] = "live" /\ s.runq \in Seq(Tasks)
  BY SchedFields DEF Acc, Placed
<1>2. /\ p \in Thread /\ p.nswitch = 0 /\ p.runq = s.runq /\ p.cache = s.cache
      /\ p.count = s.count /\ p.st = s.st /\ p.system = s.system /\ p.pc = s.pc
      /\ p.thread = s.thread
  BY <1>1 DEF Thread
<1> HIDE DEF p
<1>3. Acc(p, t, W)
  <2>1. Placed(p, t, W)
    BY <1>2 DEF Acc, Placed
  <2>2. Owned(p) = Owned(s)
    BY <1>2 DEF Owned
  <2> QED
    BY <1>2, <2>1, <2>2 DEF Acc
<1>4. /\ Acc(y, Nobody, W) /\ y.st = s.st /\ y.pc = s.pc /\ y.thread = s.thread
      /\ y.nswitch = 0 /\ y.runq = Append(s.runq, t)
  BY <1>2, <1>3, Yielded, ReadyOut
<1> HIDE DEF y
<1>5. "yielded" \in Pcs
  BY DEF Pcs
<1>6. /\ Acc(z, Nobody, W) /\ z \in Thread /\ z.st = s.st /\ z.thread = s.thread
      /\ z.nswitch = 0 /\ z.runq = Append(s.runq, t)
      /\ z.pc[t] = "yielded" /\ \A u \in Tasks \ {t} : z.pc[u] = s.pc[u]
  BY <1>1, <1>4, <1>5, GoneOn
<1> HIDE DEF z
<1>7. On(z)
  BY <1>6 DEF On
<1>8. /\ x \in Thread /\ x.thread # "aborted"
      /\ On(x) => Acc(x, x.running, W) /\ x.pc = z.pc /\ x.st = z.st
  BY <1>6, <1>7, Switched
<1>9. ASSUME On(x) PROVE AioOk(x)
  <2> DEFINE h == Head(z.runq)
             q == Tail(z.runq)
             n == 1
  <2>1. z.runq # <<>> /\ z.runq \in Seq(Tasks) /\ z.nswitch = 0
    BY <1>1, <1>6, AppendProperties, SchedFields
  <2>2. x = [z EXCEPT !.running = h, !.runq = q, !.nswitch = n]
    <3>1. z.count # 0
      <4>1. z.count = 0 => x = [z EXCEPT !.thread = "exited", !.running = Nobody]
        BY <1>7 DEF taskscheduler, End
      <4>2. z.count = 0 => x.thread = "exited"
        BY <1>6, <4>1 DEF Thread
      <4> QED
        BY <1>9, <4>2 DEF On
    <3> QED
      BY <1>7, <2>1, <3>1 DEF taskscheduler
  <2>3. (t = h => q = <<>>)
    <3>1. \A i \in 1..Len(s.runq) : s.runq[i] # t
      BY DEF Acc, Placed, InQueue
    <3>2. s.runq = <<>> => q = <<>>
      BY <1>6
    <3>3. s.runq # <<>> => h = s.runq[1] /\ 1 \in 1..Len(s.runq)
      BY <1>1, <1>6
    <3> QED
      BY <3>1, <3>2, <3>3
  <2> HIDE DEF h, q, n
  <2>4. x.running = h /\ x.runq = q /\ x.nswitch = 1
    BY <1>6, <2>2 DEF Thread, n
  <2> HIDE DEF x
  <2>5. x.pc[t] = "yielded" /\ \A u \in Tasks \ {t} : x.pc[u] = s.pc[u]
    BY <1>6, <1>8, <1>9
  <2>6. \A u \in Tasks \ {t} : x.pc[u] \notin AioPcs
    BY <2>5 DEF OneAio
  <2>7. OneAio(x.pc)
    BY <2>6 DEF OneAio
  <2>8. ASSUME NEW u \in Tasks
        PROVE  /\ x.pc[u] = "poll" => u = x.running /\ x.runq = <<>>
               /\ x.pc[u] = "yielded" =>
                    x.nswitch >= 1 /\ (u = x.running /\ x.nswitch <= 1 => x.runq = <<>>)
    BY <2>3, <2>4, <2>5, <2>6 DEF AioPcs
  <2> QED
    BY <2>7, <2>8 DEF AioOk
<1> HIDE DEF x
<1>10. After(x, W)
  BY <1>8, <1>9 DEF After
<1>11. MidTo(s, t, "yielded", x)
  BY <1>6, <1>8 DEF MidTo
<1>12. AioYield(s, t) = x
  BY DEF AioYield, taskyield, taskswitch, x, y, z, p
<1> QED
  BY <1>10, <1>11, <1>12

(* It polls when it is the only one. *)
LEMMA AioPolls ==
  ASSUME NEW s, NEW t \in Tasks, NEW W, Acc(s, s.running, W), On(s), s.running = t, AioOk(s),
         s.pc[t] = "yielded", s.nswitch <= 1
  PROVE  After(Goto(s, t, "poll"), W) /\ MidTo(s, t, "poll", Goto(s, t, "poll"))
<1> DEFINE x == Goto(s, t, "poll")
<1>1. s.st[t] = "live" /\ "poll" \in Pcs
  BY DEF Acc, Placed, Pcs
<1>2. /\ Acc(x, t, W) /\ x \in Thread /\ x.runq = s.runq /\ x.st = s.st
      /\ x.thread = s.thread /\ x.running = s.running
      /\ x.pc[t] = "poll" /\ \A u \in Tasks \ {t} : x.pc[u] = s.pc[u]
  BY <1>1, GoneOn
<1> HIDE DEF x
<1>3. x.runq = <<>>
  BY <1>2 DEF AioOk
<1>4. \A u \in Tasks \ {t} : x.pc[u] \notin AioPcs
  BY <1>2 DEF AioOk, OneAio, AioPcs
<1>5. OneAio(x.pc)
  BY <1>4 DEF OneAio
<1>6. AioOk(x)
  BY <1>2, <1>3, <1>4, <1>5 DEF AioOk, AioPcs
<1>7. After(x, W)
  BY <1>2, <1>6 DEF After, On
<1> QED
  BY <1>2, <1>7 DEF MidTo, x

(* When the process has aborted, nothing follows. *)
LEMMA OffTo ==
  ASSUME NEW s \in Thread, ~On(s), NEW t, NEW l
  PROVE  /\ ~On(taskswitch(s, t, l)) /\ taskswitch(s, t, l).thread = s.thread
         /\ taskswitch(s, t, l).why = s.why
         /\ taskexit(s, t) = s
         /\ AioYield(s, t).thread = s.thread /\ AioYield(s, t).why = s.why
<1>1. taskexit(s, t) = s
  BY DEF taskexit
<1> DEFINE y == Goto(s, t, l)
<1>2. y.thread = s.thread /\ y.why = s.why
  BY DEF Goto, Thread
<1> HIDE DEF y
<1>3. taskscheduler(y) = y
  BY <1>2 DEF taskscheduler, On
<1>4. taskswitch(s, t, l) = y
  BY <1>3 DEF taskswitch, y
<1> DEFINE z == Goto(taskready([s EXCEPT !.nswitch = 0], t), t, "yielded")
<1>5. z.thread = s.thread /\ z.why = s.why
  BY DEF Goto, taskready, Thread
<1> HIDE DEF z
<1>6. taskscheduler(z) = z
  BY <1>5 DEF taskscheduler, On
<1>7. AioYield(s, t) = z
  BY <1>6 DEF AioYield, taskyield, taskswitch, z
<1> QED
  BY <1>1, <1>2, <1>4, <1>5, <1>7 DEF On

(***************************************************************************)
(* The timers.                                                             *)
(***************************************************************************)
TimerRec ==
  [cbfn : {"quick", "sleeps"}, init : BOOLEAN, closed : BOOLEAN, timer_set : BOOLEAN,
   repeat : Int, fd : BOOLEAN, armed : {"off", "once", "often"}, ticks : BOOLEAN,
   ctx : BOOLEAN, reader : Tasks \cup {Nobody}, writer : {Nobody},
   rendez : Seq(Tasks), away : Seq(Tasks), unset : BOOLEAN]
FuncPcs  == {"timer_func", "tread", "treading", "fired"}
TimerPcs == {"timer", "deinited"} \cup FuncPcs \cup AioPcs

TimerWaiting(x) == {t \in Tasks : t = x.reader \/ InQueue(t, x.rendez) \/ InQueue(t, x.away)}
Func(pc) == {t \in Tasks : pc[t] \in FuncPcs}

(* Who waits is where he waits. *)
TaskAt(pc, st, x, u) ==
  /\ u = x.reader => pc[u] = "treading"
  /\ InQueue(u, x.rendez) => pc[u] = "timer"
  /\ InQueue(u, x.away) => pc[u] = "fired"
  /\ st[u] = "live" => pc[u] \in TimerPcs
  /\ pc[u] = "deinited" => x.closed
  /\ pc[u] = "fired" => x.cbfn = "sleeps"
Tasked(pc, st, x) == \A u \in Tasks : TaskAt(pc, st, x, u)

(* A timer that is set has one task, unless it was unset or closed. *)
HasTask(F, x) ==
  /\ ~x.unset => \A t, u \in F : t = u
  /\ ~x.unset /\ ~x.timer_set => F = {}
  /\ x.timer_set /\ ~x.closed => F # {}
  /\ F # {} => x.init \/ x.closed
(* Its descriptor, and who it will wake. *)
Set(x) ==
  /\ x.init => ~x.closed /\ x.fd /\ x.ctx
  /\ x.armed # "off" \/ x.ticks => x.timer_set /\ ~x.closed
  /\ x.cbfn = "quick" => x.away = <<>>
  /\ x.cbfn = "quick" /\ ~x.unset /\ ~x.closed /\ x.rendez # <<>> =>
       x.armed # "off" \/ x.ticks

Timers(pc, st, x) ==
  /\ x \in TimerRec /\ Distinct(x.rendez, Tasks) /\ Distinct(x.away, Tasks)
  /\ Tasked(pc, st, x) /\ HasTask(Func(pc), x) /\ Set(x)

Explained(s, x) ==
  CASE s.why = "reader" -> x.unset
    [] s.why \in {"timer_func", "timer_unset"} -> x.closed
    [] s.why = "sockio_done" -> x.cbfn = "sleeps"
    [] OTHER -> s.why = "cache"

(* The first task has not run yet, or the timer is in use. *)
Fresh(s, x) ==
  /\ Acc(s, s.running, {}) /\ \E cb \in {"quick", "sleeps"} : x = NewTimer(cb)
  /\ \A u \in Tasks : /\ s.pc[u] \in {"", "main"}
                      /\ s.st[u] = "live" => s.pc[u] = "main" /\ u = s.running
InUse(s, x) == Acc(s, s.running, TimerWaiting(x)) /\ AioOk(s) /\ Timers(s.pc, s.st, x)

InTimer(s, x) ==
  /\ s.thread = "aborted" => Explained(s, x)
  /\ On(s) => Fresh(s, x) \/ InUse(s, x)

(* A state of the program: an inductive invariant of Spec. *)
TimersInv == prog = "timer" => InTimer(sch, tm)

(* What a step may end with. *)
LEMMA Ends ==
  ASSUME NEW z, NEW y, After(z, TimerWaiting(y)), On(z) => Timers(z.pc, z.st, y)
  PROVE  InTimer(z, y)
BY DEF After, InTimer, InUse

(* Who runs is not at main once the timer is in use. *)
LEMMA IsInUse ==
  ASSUME NEW s, NEW x, NEW t \in Tasks, InTimer(s, x), On(s), s.running = t, s.pc[t] # "main"
  PROVE  InUse(s, x)
<1>1. ASSUME Fresh(s, x) PROVE FALSE
  <2>1. s.st[t] = "live"
    BY <1>1 DEF Fresh, Acc, Placed
  <2> QED
    BY <1>1, <2>1 DEF Fresh
<1> QED
  BY <1>1 DEF InTimer

(* The step of a task other than aiotask. *)
LEMMA InUseMid ==
  ASSUME NEW s, NEW x, NEW t \in Tasks, InUse(s, x), On(s), s.running = t,
         s.pc[t] \notin AioPcs \/ s.pc[t] = "aiotask"
  PROVE  Mid(s, t, TimerWaiting(x)) /\ Timers(s.pc, s.st, x)
BY MidStart DEF InUse

(* The task of a step moves, the others stay where they are, and the timer *)
(* keeps no more of them than before.                                      *)
Keeps(t, x, y) ==
  /\ y.cbfn = x.cbfn /\ (x.closed => y.closed)
  /\ \A u \in Tasks \ {t} : /\ u = y.reader => u = x.reader
                            /\ InQueue(u, y.rendez) => InQueue(u, x.rendez)
                            /\ InQueue(u, y.away) => InQueue(u, x.away)

(* Then everybody is still where he waits. *)
LEMMA Tasking ==
  ASSUME NEW pc, NEW st, NEW x, Tasked(pc, st, x), NEW t \in Tasks, NEW pc2, NEW st2, NEW y,
         \A u \in Tasks \ {t} : pc2[u] = pc[u] /\ st2[u] = st[u],
         Keeps(t, x, y), TaskAt(pc2, st2, y, t)
  PROVE  Tasked(pc2, st2, y)
<1> SUFFICES ASSUME NEW u \in Tasks, u # t
             PROVE  TaskAt(pc2, st2, y, u)
  BY DEF Tasked
<1>1. TaskAt(pc, st, x, u) /\ u \in Tasks \ {t}
  BY DEF Tasked
<1> QED
  BY <1>1 DEF TaskAt, Keeps

(* The fields of a timer. *)
LEMMA TimerFields ==
  ASSUME NEW x \in TimerRec
  PROVE  /\ x.cbfn \in {"quick", "sleeps"} /\ x.init \in BOOLEAN /\ x.closed \in BOOLEAN
         /\ x.timer_set \in BOOLEAN /\ x.repeat \in Int /\ x.fd \in BOOLEAN
         /\ x.armed \in {"off", "once", "often"} /\ x.ticks \in BOOLEAN /\ x.ctx \in BOOLEAN
         /\ x.reader \in Tasks \cup {Nobody} /\ x.writer = Nobody
         /\ x.rendez \in Seq(Tasks) /\ x.away \in Seq(Tasks) /\ x.unset \in BOOLEAN
BY DEF TimerRec

(* Time. *)
LEMMA ExpireStep ==
  ASSUME InTimer(sch, tm), Expire
  PROVE  InTimer(sch', tm')
<1>1. On(sch) /\ tm.armed # "off" /\ sch' = sch
  BY DEF Expire, TStep
<1> DEFINE a == IF tm.armed = "once" THEN "off" ELSE tm.armed
<1>2. tm' = [tm EXCEPT !.ticks = TRUE, !.armed = a]
  BY DEF Expire, TStep
<1>3. InUse(sch, tm)
  <2>1. ASSUME Fresh(sch, tm) PROVE FALSE
    <3>1. PICK cb : tm = NewTimer(cb)
      BY <2>1 DEF Fresh
    <3>2. tm.armed = "off"
      BY <3>1 DEF NewTimer
    <3> QED
      BY <1>1, <3>2
  <2> QED
    BY <1>1, <2>1 DEF InTimer
<1>4. tm \in TimerRec /\ a \in {"off", "once", "often"}
  BY <1>3 DEF InUse, Timers, TimerRec
<1> HIDE DEF a
<1>5. /\ tm' \in TimerRec /\ tm'.ticks /\ tm'.armed = a
      /\ tm'.cbfn = tm.cbfn /\ tm'.init = tm.init /\ tm'.closed = tm.closed
      /\ tm'.timer_set = tm.timer_set /\ tm'.fd = tm.fd /\ tm'.ctx = tm.ctx
      /\ tm'.reader = tm.reader /\ tm'.rendez = tm.rendez /\ tm'.away = tm.away
      /\ tm'.unset = tm.unset
  BY <1>2, <1>4 DEF TimerRec
<1>6. TimerWaiting(tm') = TimerWaiting(tm)
  BY <1>5 DEF TimerWaiting
<1>7. Timers(sch.pc, sch.st, tm')
  <2>1. Tasked(sch.pc, sch.st, tm')
    BY <1>3, <1>5 DEF InUse, Timers, Tasked, TaskAt
  <2>2. HasTask(Func(sch.pc), tm')
    BY <1>3, <1>5 DEF InUse, Timers, HasTask
  <2>3. Set(tm')
    BY <1>1, <1>3, <1>5 DEF InUse, Timers, Set
  <2> QED
    BY <1>3, <1>5, <2>1, <2>2, <2>3 DEF InUse, Timers
<1>8. InUse(sch, tm')
  BY <1>3, <1>6, <1>7 DEF InUse
<1>9. sch'.thread # "aborted"
  BY <1>1 DEF On
<1> QED
  BY <1>1, <1>8, <1>9 DEF InTimer

(* The first task starts aiotask. *)
LEMMA MainStep ==
  ASSUME InTimer(sch, tm), NEW t \in Tasks, TimerMain(t)
  PROVE  InTimer(sch', tm')
<1> DEFINE y == Goto(sch, t, "timer")
           z == taskcreate(y, "aiotask", TRUE)
<1>1. On(sch) /\ sch.running = t /\ sch.pc[t] = "main" /\ sch' = z /\ tm' = tm
  BY DEF TimerMain, At, TStep, taskio_start
<1>2. Fresh(sch, tm)
  <2>1. ASSUME InUse(sch, tm) PROVE FALSE
    <3>1. sch.st[t] = "live"
      BY <1>1, <2>1 DEF InUse, Acc, Placed
    <3> QED
      BY <1>1, <2>1, <3>1 DEF InUse, Timers, Tasked, TaskAt, TimerPcs, FuncPcs, AioPcs
  <2> QED
    BY <1>1, <2>1 DEF InTimer
<1>3. PICK cb \in {"quick", "sleeps"} : tm = NewTimer(cb)
  BY <1>2 DEF Fresh
<1>4. /\ Acc(sch, t, {}) /\ sch.st[t] = "live"
      /\ \A u \in Tasks \ {t} : sch.st[u] # "live" /\ sch.pc[u] = ""
  BY <1>1, <1>2 DEF Fresh, Acc, Placed
<1>5. "timer" \in Pcs \ AioPcs /\ "aiotask" \in Pcs
  BY DEF Pcs, AioPcs
<1>6. Mid(sch, t, {})
  <2>1. AioIdle(sch)
    BY <1>2 DEF Fresh, AioIdle, OneAio, AioPcs
  <2> QED
    BY <1>1, <1>4, <2>1 DEF Mid, Acc
<1>7. Mid(y, t, {}) /\ Others1(sch, y, t) /\ y.pc[t] = "timer"
  BY <1>5, <1>6, MidGoto
<1> HIDE DEF y
<1>8. \A u \in Tasks : y.pc[u] \in {"timer", ""}
  BY <1>4, <1>7 DEF Others1
<1>9. Cardinality(Live(y)) < MaxTask
  <2>1. Live(y) = {t}
    BY <1>4, <1>7 DEF Others1, Live
  <2>2. Cardinality({t}) = 1 /\ MaxTask >= 2
    BY FS_Singleton, TimerAssumption
  <2> QED
    BY <2>1, <2>2, TaskNames
<1>10. MadeIn(y, t, {}, "aiotask", z)
  BY <1>5, <1>7, <1>8, <1>9, MidCreate DEF AioPcs
<1> HIDE DEF z
<1>11. /\ tm \in TimerRec /\ tm.reader = Nobody /\ tm.rendez = <<>> /\ tm.away = <<>>
       /\ tm.timer_set = FALSE /\ tm.closed = FALSE /\ tm.init = FALSE /\ tm.armed = "off"
       /\ tm.ticks = FALSE
  <2> DEFINE e == <<>>
             n == 0
  <2>1. e \in Seq(Tasks) /\ n \in Int
    OBVIOUS
  <2>2. tm = [cbfn |-> cb, init |-> FALSE, closed |-> FALSE, timer_set |-> FALSE, repeat |-> n,
              fd |-> FALSE, armed |-> "off", ticks |-> FALSE, ctx |-> FALSE,
              reader |-> Nobody, writer |-> Nobody, rendez |-> e, away |-> e,
              unset |-> FALSE]
    BY <1>3 DEF NewTimer
  <2> HIDE DEF e, n
  <2>3. /\ tm \in TimerRec /\ tm.reader = Nobody /\ tm.rendez = e /\ tm.away = e
        /\ tm.timer_set = FALSE /\ tm.closed = FALSE /\ tm.init = FALSE /\ tm.armed = "off"
        /\ tm.ticks = FALSE
    BY <2>1, <2>2 DEF TimerRec
  <2> QED
    BY <2>3 DEF e
<1>12. TimerWaiting(tm) = {}
  BY <1>11, EmptyQueue, TaskNames DEF TimerWaiting
<1>13. ASSUME On(z) PROVE InUse(z, tm)
  <2>1. Mid(z, t, {})
    BY <1>10, <1>13 DEF MadeIn
  <2>2. \A u \in Tasks : /\ z.pc[u] \in {"timer", "", "aiotask"}
                         /\ z.st[u] = "live" => z.pc[u] # ""
    <3>1. PICK u \in Tasks :
                 /\ z.st[u] = "live" /\ z.pc[u] = "aiotask" /\ u # t
                 /\ \A v \in Tasks \ {u} : z.st[v] = y.st[v] /\ z.pc[v] = y.pc[v]
      BY <1>10, <1>13 DEF MadeIn
    <3>2. \A v \in Tasks \ {u} : y.st[v] = "live" => v = t
      BY <1>4, <1>7 DEF Others1
    <3> QED
      BY <1>7, <1>8, <3>1, <3>2
  <2>3. After(z, {})
    <3>1. \A u \in Tasks : z.pc[u] # "poll" /\ z.pc[u] # "yielded"
      BY <2>2
    <3>2. AioOk(z)
      BY <2>1, <3>1 DEF Mid, AioIdle, AioOk
    <3> QED
      BY <2>1, <3>2 DEF Mid, After, On
  <2>4. Tasked(z.pc, z.st, tm)
    BY <1>11, <2>2, EmptyQueue, TaskNames DEF Tasked, TaskAt, TimerPcs, AioPcs
  <2>5. Func(z.pc) = {}
    BY <2>2 DEF Func, FuncPcs
  <2>6. HasTask(Func(z.pc), tm) /\ Set(tm)
    BY <1>11, <2>5 DEF HasTask, Set
  <2>7. Timers(z.pc, z.st, tm)
    BY <1>11, <2>4, <2>6, EmptyQueue DEF Timers
  <2> QED
    BY <1>12, <1>13, <2>3, <2>7 DEF After, InUse
<1>14. z.thread = "aborted" => Explained(z, tm)
  BY <1>10 DEF MadeIn, Explained
<1> QED
  BY <1>1, <1>13, <1>14 DEF InTimer

(* A step without the scheduler. *)
LEMMA StillInUse ==
  ASSUME NEW s, NEW x, InUse(s, x), On(s), NEW y, TimerWaiting(y) = TimerWaiting(x),
         Timers(s.pc, s.st, y)
  PROVE  InTimer(s, y)
BY DEF InTimer, InUse, On

(* timer_init ... *)
LEMMA InitStep ==
  ASSUME InTimer(sch, tm), NEW t \in Tasks, timer_init(t)
  PROVE  InTimer(sch', tm')
<1>1. /\ On(sch) /\ sch.running = t /\ sch.pc[t] = "timer" /\ sch' = sch
      /\ ~tm.closed /\ tm' = [tm EXCEPT !.init = TRUE, !.fd = TRUE, !.ctx = TRUE]
  BY DEF timer_init, At, TStep
<1>2. InUse(sch, tm)
  BY <1>1, IsInUse
<1>3. tm \in TimerRec
  BY <1>2 DEF InUse, Timers
<1>4. /\ tm' \in TimerRec /\ tm'.init /\ tm'.fd /\ tm'.ctx
      /\ tm'.cbfn = tm.cbfn /\ tm'.closed = tm.closed /\ tm'.timer_set = tm.timer_set
      /\ tm'.armed = tm.armed /\ tm'.ticks = tm.ticks /\ tm'.reader = tm.reader
      /\ tm'.rendez = tm.rendez /\ tm'.away = tm.away /\ tm'.unset = tm.unset
  BY <1>1, <1>3 DEF TimerRec
<1>5. TimerWaiting(tm') = TimerWaiting(tm)
  BY <1>4 DEF TimerWaiting
<1>6. Tasked(sch.pc, sch.st, tm')
  BY <1>2, <1>4 DEF InUse, Timers, Tasked, TaskAt
<1>7. HasTask(Func(sch.pc), tm') /\ Set(tm')
  BY <1>1, <1>2, <1>4 DEF InUse, Timers, HasTask, Set
<1>8. Timers(sch.pc, sch.st, tm')
  BY <1>2, <1>4, <1>6, <1>7 DEF InUse, Timers
<1> QED
  BY <1>1, <1>2, <1>5, <1>8, StillInUse

(* ... and timer_unset. *)
LEMMA UnsetStep ==
  ASSUME InTimer(sch, tm), NEW t \in Tasks, timer_unset(t)
  PROVE  InTimer(sch', tm')
<1>1. /\ On(sch) /\ sch.running = t /\ sch.pc[t] = "timer" /\ sch' = sch
      /\ tm' = [Disarmed(tm) EXCEPT !.unset = TRUE]
  BY DEF timer_unset, Usable, At, TStep
<1>2. InUse(sch, tm)
  BY <1>1, IsInUse
<1>3. tm \in TimerRec
  BY <1>2 DEF InUse, Timers
<1>4. /\ tm' \in TimerRec /\ tm'.armed = "off" /\ ~tm'.ticks /\ ~tm'.timer_set /\ tm'.unset
      /\ tm'.cbfn = tm.cbfn /\ tm'.closed = tm.closed /\ tm'.init = tm.init
      /\ tm'.fd = tm.fd /\ tm'.ctx = tm.ctx /\ tm'.reader = tm.reader
      /\ tm'.rendez = tm.rendez /\ tm'.away = tm.away
  BY <1>1, <1>3 DEF TimerRec, Disarmed, settime
<1>5. TimerWaiting(tm') = TimerWaiting(tm)
  BY <1>4 DEF TimerWaiting
<1>6. Tasked(sch.pc, sch.st, tm')
  BY <1>2, <1>4 DEF InUse, Timers, Tasked, TaskAt
<1>7. HasTask(Func(sch.pc), tm') /\ Set(tm')
  BY <1>2, <1>4 DEF InUse, Timers, HasTask, Set
<1>8. Timers(sch.pc, sch.st, tm')
  BY <1>2, <1>4, <1>6, <1>7 DEF InUse, Timers
<1> QED
  BY <1>1, <1>2, <1>5, <1>8, StillInUse

(* The timer gets a task when it is set, or has one. *)
Hired(s, x, t, z) ==
  /\ z \in Thread /\ (z.thread = "aborted" => z.why = "cache")
  /\ On(z) => /\ Mid(z, t, TimerWaiting(x)) /\ z.pc[t] = s.pc[t]
              /\ Tasked(z.pc, z.st, x)
              /\ ~x.unset => \A u, v \in Func(z.pc) : u = v
              /\ Func(z.pc) # {}

(* So it is in timer_set and timer_wait. *)
LEMMA StartedOr ==
  ASSUME NEW t \in Tasks, InUse(sch, tm), On(sch), sch.running = t, sch.pc[t] = "timer",
         ~tm.closed, RoomForTask
  PROVE  Hired(sch, tm, t, Started(sch))
<1> DEFINE z == Started(sch)
           W == TimerWaiting(tm)
<1>1. Mid(sch, t, W) /\ Timers(sch.pc, sch.st, tm)
  BY InUseMid DEF AioPcs
<1>2. CASE tm.timer_set
  <2>1. z = sch
    BY <1>2 DEF Started
  <2>2. Func(sch.pc) # {} /\ (~tm.unset => \A u, v \in Func(sch.pc) : u = v)
    BY <1>1, <1>2 DEF Timers, HasTask
  <2>3. sch.thread # "aborted" /\ sch \in Thread /\ Tasked(sch.pc, sch.st, tm)
    BY <1>1 DEF On, Mid, Timers
  <2> QED
    BY <1>1, <2>1, <2>2, <2>3 DEF Hired
<1>3. CASE ~tm.timer_set
  <2>1. z = taskcreate(sch, "timer_func", TRUE)
    BY <1>3 DEF Started
  <2>2. Cardinality(Live(sch)) < MaxTask
    <3>1. Live(sch) \in SUBSET Tasks
      BY DEF Live
    <3>2. Cardinality(Live(sch)) \in Nat
      BY <3>1, TaskNames, SubsetCount
    <3>3. Workers \in 1..MaxTask /\ MaxTask \in Nat
      BY LocksAssumption, TaskNames
    <3>4. Cardinality(Live(sch)) < Workers
      BY <1>3 DEF RoomForTask
    <3> QED
      BY <3>2, <3>3, <3>4
  <2>3. "timer_func" \in Pcs /\ "timer_func" \notin AioPcs
    BY DEF Pcs, AioPcs
  <2>4. MadeIn(sch, t, W, "timer_func", z)
    BY <1>1, <2>1, <2>2, <2>3, MidCreate
  <2> HIDE DEF z, W
  <2>5. ASSUME On(z)
        PROVE  /\ Mid(z, t, W) /\ z.pc[t] = sch.pc[t]
               /\ Tasked(z.pc, z.st, tm)
               /\ ~tm.unset => \A u, v \in Func(z.pc) : u = v
               /\ Func(z.pc) # {}
    <3>1. PICK u \in Tasks :
            /\ z.st[u] = "live" /\ z.pc[u] = "timer_func" /\ u # t /\ u \notin W
            /\ \A v \in Tasks \ {u} : z.st[v] = sch.st[v] /\ z.pc[v] = sch.pc[v]
      BY <2>4, <2>5 DEF MadeIn
    <3>2. Keeps(u, tm, tm)
      BY DEF Keeps
    <3>3. u # tm.reader /\ ~InQueue(u, tm.rendez) /\ ~InQueue(u, tm.away)
      BY <3>1 DEF W, TimerWaiting
    <3>4. TaskAt(z.pc, z.st, tm, u)
      BY <3>1, <3>3 DEF TaskAt, TimerPcs, FuncPcs
    <3>5. Tasked(sch.pc, sch.st, tm)
      BY <1>1 DEF Timers
    <3>6. Tasked(z.pc, z.st, tm)
      BY <3>1, <3>2, <3>4, <3>5, Tasking
    <3>7. u \in Func(z.pc) /\ \A v \in Func(z.pc) : v = u \/ v \in Func(sch.pc)
      BY <3>1 DEF Func, FuncPcs
    <3>8. ~tm.unset => Func(sch.pc) = {}
      BY <1>1, <1>3 DEF Timers, HasTask
    <3> QED
      BY <2>4, <2>5, <3>1, <3>6, <3>7, <3>8 DEF MadeIn
  <2> QED
    BY <2>4, <2>5 DEF Hired, MadeIn, W, z
<1> QED
  BY <1>2, <1>3

(* The timer is armed. *)
ArmedTo(x, y) ==
  /\ y \in TimerRec /\ y.armed # "off" /\ y.timer_set
  /\ y.cbfn = x.cbfn /\ y.init = x.init /\ y.closed = x.closed /\ y.fd = x.fd
  /\ y.ctx = x.ctx /\ y.reader = x.reader /\ y.away = x.away /\ y.unset = x.unset

(* That is what settime and the fields set with it do. *)
LEMMA Arms ==
  ASSUME NEW x \in TimerRec, NEW r \in Int
  PROVE  ArmedTo(x, Armed(x, r)) /\ Armed(x, r).rendez = x.rendez
<1> DEFINE h == IF r = 0 THEN "once" ELSE "often"
<1>1. Armed(x, r) = [[x EXCEPT !.armed = h, !.ticks = FALSE]
                       EXCEPT !.repeat = r, !.timer_set = TRUE]
  BY DEF Armed, settime
<1>2. h \in {"once", "often"}
  OBVIOUS
<1> HIDE DEF h
<1> QED
  BY <1>1, <1>2, ZenonT(60) DEF TimerRec, ArmedTo

(* An armed timer may be waited for. *)
LEMMA ArmedSet ==
  ASSUME NEW x, NEW y, NEW F, ArmedTo(x, y), Set(x), HasTask(F, x), x.init, NEW G,
         G # {}, ~x.unset => \A u, v \in G : u = v
  PROVE  Set(y) /\ HasTask(G, y)
BY DEF ArmedTo, Set, HasTask

(* timer_set, ... *)
LEMMA SetStep ==
  ASSUME InTimer(sch, tm), NEW t \in Tasks, NEW r \in Repeat, timer_set(t, r)
  PROVE  InTimer(sch', tm')
<1> DEFINE z == Started(sch)
           y == Armed(tm, r)
           W == TimerWaiting(tm)
<1>1. /\ On(sch) /\ sch.running = t /\ sch.pc[t] = "timer" /\ sch' = z /\ tm' = y
      /\ tm.init /\ ~tm.closed /\ RoomForTask
  BY DEF timer_set, Usable, At, TStep
<1>2. InUse(sch, tm)
  BY <1>1, IsInUse
<1>3. tm \in TimerRec /\ r \in Int /\ Timers(sch.pc, sch.st, tm)
  BY <1>2, TimerAssumption DEF InUse, Timers
<1>4. Hired(sch, tm, t, z)
  BY <1>1, <1>2, StartedOr
<1>5. ArmedTo(tm, y) /\ y.rendez = tm.rendez
  BY <1>3, Arms
<1> HIDE DEF z, y
<1>6. TimerWaiting(y) = W
  BY <1>5 DEF TimerWaiting, ArmedTo
<1> HIDE DEF W
<1>7. ASSUME On(z) PROVE InTimer(z, y)
  <2>1. Mid(z, t, W) /\ z.pc[t] = "timer"
    BY <1>1, <1>4, <1>7 DEF Hired, W
  <2>2. After(z, W)
    BY <2>1, MidEnd DEF AioPcs
  <2>3. Tasked(z.pc, z.st, y)
    BY <1>4, <1>5, <1>7 DEF Hired, Tasked, TaskAt, ArmedTo
  <2>4. Set(y) /\ HasTask(Func(z.pc), y)
    BY <1>1, <1>3, <1>4, <1>5, <1>7, ArmedSet DEF Hired, Timers
  <2>5. Timers(z.pc, z.st, y)
    BY <1>3, <1>5, <2>3, <2>4 DEF Timers, ArmedTo
  <2> QED
    BY <1>6, <2>2, <2>5, Ends
<1>8. ASSUME ~On(z) PROVE InTimer(z, y)
  BY <1>4, <1>8 DEF Hired, InTimer, Explained
<1> QED
  BY <1>1, <1>7, <1>8

(* ... and timer_wait, in which the task goes to sleep. *)
LEMMA WaitStep ==
  ASSUME InTimer(sch, tm), NEW t \in Tasks, timer_wait(t)
  PROVE  InTimer(sch', tm')
<1> DEFINE z == Started(sch)
           x == Armed(tm, 0)
           q == Append(tm.rendez, t)
           y == [x EXCEPT !.rendez = q]
           W == TimerWaiting(tm)
           p == taskswitch(z, t, "timer")
<1>1. /\ On(sch) /\ sch.running = t /\ sch.pc[t] = "timer" /\ sch' = p
      /\ tm.init /\ ~tm.closed /\ RoomForTask
  BY DEF timer_wait, Usable, At, TStep
<1>2. InUse(sch, tm)
  BY <1>1, IsInUse
<1>3. tm \in TimerRec /\ Timers(sch.pc, sch.st, tm) /\ Acc(sch, t, W) /\ 0 \in Int
  BY <1>1, <1>2 DEF InUse, Timers
<1>4. Hired(sch, tm, t, z)
  BY <1>1, <1>2, StartedOr
<1>5. ArmedTo(tm, x) /\ x.rendez = tm.rendez
  BY <1>3, Arms
<1>6. tm' = y
  BY <1>5 DEF timer_wait, TStep
<1>7. tm.rendez \in Seq(Tasks) /\ Distinct(tm.rendez, Tasks)
  BY <1>3, TimerFields DEF Timers
<1>8. t \notin W /\ ~InQueue(t, tm.rendez) /\ t # tm.reader /\ ~InQueue(t, tm.away)
  BY <1>3 DEF Acc, Placed, TimerWaiting
<1>9. /\ q \in Seq(Tasks) /\ Distinct(q, Tasks)
      /\ \A u : InQueue(u, q) <=> InQueue(u, tm.rendez) \/ u = t
  BY <1>7, <1>8, AppendTo
<1> HIDE DEF z, x, q
<1>10. ArmedTo(tm, y) /\ y.rendez = q
  BY <1>5, <1>9 DEF ArmedTo, TimerRec
<1> HIDE DEF y
<1>11. TimerWaiting(y) = W \cup {t}
  BY <1>9, <1>10 DEF TimerWaiting, ArmedTo
<1> HIDE DEF W
<1>12. ASSUME On(z) PROVE InTimer(p, y)
  <2>1. Mid(z, t, W) /\ z.pc[t] = "timer" /\ Tasked(z.pc, z.st, tm)
    BY <1>1, <1>4, <1>12 DEF Hired, W
  <2>2. "timer" \in Pcs \ AioPcs
    BY DEF Pcs, AioPcs
  <2>3. After(p, W \cup {t}) /\ MidTo(z, t, "timer", p)
    BY <2>1, <2>2, MidSwitch
  <2> HIDE DEF p
  <2>4. ASSUME On(p) PROVE Timers(p.pc, p.st, y)
    <3>1. p.st = z.st /\ p.pc[t] = "timer" /\ \A u \in Tasks \ {t} : p.pc[u] = z.pc[u]
      BY <2>3, <2>4 DEF MidTo
    <3>2. Func(p.pc) = Func(z.pc)
      BY <2>1, <3>1 DEF Func
    <3>3. Keeps(t, tm, y)
      BY <1>9, <1>10 DEF Keeps, ArmedTo
    <3>4. TaskAt(p.pc, p.st, y, t)
      BY <1>8, <1>10, <3>1 DEF TaskAt, TimerPcs, ArmedTo
    <3>5. Tasked(p.pc, p.st, y)
      BY <2>1, <3>1, <3>3, <3>4, Tasking
    <3>6. Set(y) /\ HasTask(Func(z.pc), y)
      BY <1>1, <1>3, <1>4, <1>10, <1>12, ArmedSet DEF Hired, Timers
    <3> QED
      BY <1>3, <1>9, <1>10, <3>2, <3>5, <3>6 DEF Timers, ArmedTo
  <2> QED
    BY <1>11, <2>3, <2>4, Ends
<1>13. ASSUME ~On(z) PROVE InTimer(p, y)
  <2>1. z \in Thread
    BY <1>4 DEF Hired
  <2>2. ~On(p) /\ p.thread = z.thread /\ p.why = z.why
    BY <1>13, <2>1, OffTo
  <2> HIDE DEF p
  <2> QED
    BY <1>4, <2>2 DEF Hired, InTimer, Explained
<1> QED
  BY <1>1, <1>6, <1>12, <1>13

(* timer_deinit wakes the task that reads the timer, ... *)
LEMMA DeinitStep ==
  ASSUME InTimer(sch, tm), NEW t \in Tasks, timer_deinit(t)
  PROVE  InTimer(sch', tm')
<1> DEFINE W == TimerWaiting(tm)
           r == tm.reader
           z == task_fd_deregister(sch, tm, t, "deinited")
           y == [Forgotten(settime(tm, "off")) EXCEPT !.closed = TRUE, !.init = FALSE]
<1>1. /\ On(sch) /\ sch.running = t /\ sch.pc[t] = "timer" /\ sch' = z /\ tm' = y
      /\ tm.init /\ ~tm.closed
  BY DEF timer_deinit, Usable, At, TStep
<1>2. InUse(sch, tm)
  BY <1>1, IsInUse
<1>3. tm \in TimerRec /\ Timers(sch.pc, sch.st, tm) /\ Mid(sch, t, W)
  BY <1>1, <1>2, InUseMid DEF InUse, Timers, AioPcs
<1>4. /\ y \in TimerRec /\ y.closed /\ ~y.init /\ y.armed = "off" /\ ~y.ticks
      /\ y.reader = Nobody /\ y.cbfn = tm.cbfn /\ y.timer_set = tm.timer_set
      /\ y.rendez = tm.rendez /\ y.away = tm.away /\ y.unset = tm.unset
  BY <1>3 DEF TimerRec, Forgotten, settime
<1> HIDE DEF y
<1>5. "deinited" \in Pcs \ AioPcs
  BY DEF Pcs, AioPcs
<1>6. tm.writer = Nobody /\ r \in Tasks \cup {Nobody}
  BY <1>3, TimerFields
<1>7. t \notin W /\ W \in SUBSET Tasks
  BY <1>3, RunnerLive
<1>8. t # r /\ ~InQueue(t, tm.rendez) /\ ~InQueue(t, tm.away)
  BY <1>7 DEF TimerWaiting
<1>9. TimerWaiting(y) = W \ {r}
  <2>1. \A u \in Tasks : u = tm.reader => ~InQueue(u, tm.rendez) /\ ~InQueue(u, tm.away)
    BY <1>3 DEF Timers, Tasked, TaskAt
  <2> QED
    BY <1>4, <2>1, TaskNames DEF TimerWaiting
<1>10. After(z, W \ {r}) /\ MidTo(sch, t, "deinited", z)
  <2>1. CASE r = Nobody
    <3>1. z = Goto(sch, t, "deinited")
      BY <1>6, <2>1 DEF task_fd_deregister
    <3>2. Mid(z, t, W) /\ Others1(sch, z, t) /\ z.pc[t] = "deinited"
      BY <1>3, <1>5, <3>1, MidGoto
    <3>3. W \ {r} = W
      BY <1>7, <2>1, TaskNames
    <3> HIDE DEF z, W
    <3>4. After(z, W)
      BY <1>5, <3>2, MidEnd
    <3> QED
      BY <3>2, <3>3, <3>4 DEF MidTo, Others1
  <2>2. CASE r # Nobody
    <3> DEFINE v == taskready(sch, r)
    <3>1. z = taskyield(v, t, "deinited")
      BY <1>6, <2>2 DEF task_fd_deregister, ReadyIf
    <3>2. r \in W
      BY <1>6, <2>2 DEF TimerWaiting
    <3> HIDE DEF W, z
    <3>3. Mid(v, t, W \ {r}) /\ v.st = sch.st /\ v.pc = sch.pc
      BY <1>3, <3>2, MidReady
    <3> HIDE DEF v
    <3>4. After(z, W \ {r}) /\ MidTo(v, t, "deinited", z)
      BY <1>5, <3>1, <3>3, MidYield
    <3> QED
      BY <3>3, <3>4 DEF MidTo
  <2> QED
    BY <2>1, <2>2
<1> HIDE DEF z, W
<1>11. ASSUME On(z) PROVE Timers(z.pc, z.st, y)
  <2>1. z.st = sch.st /\ z.pc[t] = "deinited" /\ \A u \in Tasks \ {t} : z.pc[u] = sch.pc[u]
    BY <1>10, <1>11 DEF MidTo
  <2>2. Func(z.pc) = Func(sch.pc)
    BY <1>1, <2>1 DEF Func, FuncPcs
  <2>3. Keeps(t, tm, y)
    BY <1>4, TaskNames DEF Keeps
  <2>4. TaskAt(z.pc, z.st, y, t)
    BY <1>4, <1>8, <2>1, TaskNames DEF TaskAt, TimerPcs
  <2>5. Tasked(z.pc, z.st, y)
    BY <1>3, <2>1, <2>3, <2>4, Tasking DEF Timers
  <2>6. Set(y) /\ HasTask(Func(sch.pc), y)
    BY <1>3, <1>4 DEF Timers, Set, HasTask
  <2> QED
    BY <1>3, <1>4, <2>2, <2>5, <2>6 DEF Timers
<1> QED
  BY <1>1, <1>9, <1>10, <1>11, Ends

(* ... and lets go of the descriptor when it is back. *)
LEMMA DeinitedStep ==
  ASSUME InTimer(sch, tm), NEW t \in Tasks, Deinited(t)
  PROVE  InTimer(sch', tm')
<1> DEFINE W == TimerWaiting(tm)
           z == Goto(sch, t, "timer")
           y == [tm EXCEPT !.fd = FALSE]
<1>1. On(sch) /\ sch.running = t /\ sch.pc[t] = "deinited" /\ sch' = z /\ tm' = y
  BY DEF Deinited, At, TStep
<1>2. InUse(sch, tm)
  BY <1>1, IsInUse
<1>3. tm \in TimerRec /\ Timers(sch.pc, sch.st, tm) /\ Mid(sch, t, W)
  BY <1>1, <1>2, InUseMid DEF InUse, Timers, AioPcs
<1>4. /\ y \in TimerRec /\ y.closed = tm.closed /\ y.init = tm.init /\ y.armed = tm.armed
      /\ y.ticks = tm.ticks /\ y.reader = tm.reader /\ y.cbfn = tm.cbfn
      /\ y.timer_set = tm.timer_set /\ y.rendez = tm.rendez /\ y.away = tm.away
      /\ y.unset = tm.unset
  BY <1>3 DEF TimerRec
<1> HIDE DEF y
<1>5. "timer" \in Pcs \ AioPcs
  BY DEF Pcs, AioPcs
<1>6. TimerWaiting(y) = W
  BY <1>4 DEF TimerWaiting
<1>7. t \notin W
  BY <1>3, RunnerLive
<1>8. t # tm.reader /\ ~InQueue(t, tm.rendez) /\ ~InQueue(t, tm.away)
  BY <1>7 DEF TimerWaiting
<1> HIDE DEF W
<1>9. Mid(z, t, W) /\ Others1(sch, z, t) /\ z.pc[t] = "timer"
  BY <1>3, <1>5, MidGoto
<1> HIDE DEF z
<1>10. After(z, W)
  BY <1>5, <1>9, MidEnd
<1>11. tm.closed
  BY <1>1, <1>3 DEF Timers, Tasked, TaskAt
<1>12. Timers(z.pc, z.st, y)
  <2>1. z.st = sch.st /\ z.pc[t] = "timer" /\ \A u \in Tasks \ {t} : z.pc[u] = sch.pc[u]
    BY <1>9 DEF Others1
  <2>2. Func(z.pc) = Func(sch.pc)
    BY <1>1, <2>1 DEF Func, FuncPcs
  <2>3. Keeps(t, tm, y)
    BY <1>4 DEF Keeps
  <2>4. TaskAt(z.pc, z.st, y, t)
    BY <1>4, <1>8, <2>1 DEF TaskAt, TimerPcs
  <2>5. Tasked(z.pc, z.st, y)
    BY <1>3, <2>1, <2>3, <2>4, Tasking DEF Timers
  <2>6. Set(y) /\ HasTask(Func(sch.pc), y)
    BY <1>3, <1>4, <1>11 DEF Timers, Set, HasTask
  <2> QED
    BY <1>3, <1>4, <2>2, <2>5, <2>6 DEF Timers
<1> QED
  BY <1>1, <1>6, <1>10, <1>12, Ends

(* _timer_func: its task t goes on at l or ends, ... *)
LEMMA FuncGoes ==
  ASSUME NEW pc, NEW st, NEW x, Timers(pc, st, x), NEW t \in Tasks, pc[t] \in FuncPcs,
         t \notin TimerWaiting(x), NEW pc2, NEW st2,
         \A u \in Tasks \ {t} : pc2[u] = pc[u] /\ st2[u] = st[u],
         pc2[t] \in {"tread", "treading"}
  PROVE  Tasked(pc2, st2, x) /\ Func(pc2) = Func(pc)
<1>1. t # x.reader /\ ~InQueue(t, x.rendez) /\ ~InQueue(t, x.away)
  BY DEF TimerWaiting
<1>2. TaskAt(pc2, st2, x, t)
  BY <1>1 DEF TaskAt, TimerPcs, FuncPcs
<1>3. Keeps(t, x, x) /\ Tasked(pc, st, x)
  BY DEF Keeps, Timers
<1>4. Tasked(pc2, st2, x)
  BY <1>2, <1>3, Tasking
<1>5. Func(pc2) = Func(pc)
  BY DEF Func, FuncPcs
<1> QED
  BY <1>4, <1>5

WithoutIt(pc, st, t, pc2, st2) ==
  /\ \A u \in Tasks \ {t} : pc2[u] = pc[u] /\ st2[u] = st[u]
  /\ pc2[t] = "" /\ st2[t] # "live"
LeftBehind(x, y) ==
  /\ y.cbfn = x.cbfn /\ (x.closed => y.closed) /\ y.unset = x.unset /\ y.init = x.init
  /\ y.reader = x.reader /\ y.rendez = x.rendez /\ y.away = x.away
  /\ ~y.timer_set \/ y.closed

(* ... or ends, when the timer is no longer set or is closed. *)
LEMMA FuncEnds ==
  ASSUME NEW pc, NEW st, NEW x, Timers(pc, st, x), NEW t \in Tasks, pc[t] \in FuncPcs,
         t \notin TimerWaiting(x), NEW pc2, NEW st2, WithoutIt(pc, st, t, pc2, st2),
         NEW y, LeftBehind(x, y)
  PROVE  Tasked(pc2, st2, y) /\ HasTask(Func(pc2), y)
<1>1. t # y.reader /\ ~InQueue(t, y.rendez) /\ ~InQueue(t, y.away)
  BY DEF TimerWaiting, LeftBehind
<1>2. TaskAt(pc2, st2, y, t)
  BY <1>1 DEF TaskAt, WithoutIt
<1>3. Tasked(pc, st, x) /\ HasTask(Func(pc), x)
  BY DEF Timers
<1>4. Tasked(pc2, st2, y)
  <2>1. t \in Tasks /\ Keeps(t, x, y) /\ Tasked(pc, st, x)
    BY <1>3 DEF Keeps, LeftBehind
  <2>2. \A u \in Tasks \ {t} : pc2[u] = pc[u] /\ st2[u] = st[u]
    BY DEF WithoutIt
  <2> QED
    BY ONLY <1>2, <2>1, <2>2, Tasking
<1>5. t \in Func(pc) /\ t \notin Func(pc2) /\ \A u \in Func(pc2) : u \in Func(pc)
  BY DEF Func, FuncPcs, WithoutIt
<1>6. HasTask(Func(pc2), y)
  BY <1>3, <1>5 DEF HasTask, LeftBehind
<1> QED
  BY <1>4, <1>6

(* ... behind the callback ... *)
FiredOn(s, x, t, z, y) ==
  LET n == IF x.repeat > 0 THEN x.repeat - 1 ELSE x.repeat
      w == [x EXCEPT !.repeat = n]
  IN  CASE n # 0 -> z = Goto(s, t, "tread") /\ y = w
        [] n = 0 /\ (~x.init \/ x.closed) -> z = Abort(s, "timer_unset") /\ y = w
        [] n = 0 /\ x.init /\ ~x.closed ->
             z = taskexit(s, t) /\ y = (IF w.timer_set THEN Disarmed(w) ELSE w)

(* The timer as it was but for repeat. *)
SameBut(x, w) ==
  /\ w \in TimerRec /\ w.cbfn = x.cbfn /\ w.init = x.init /\ w.closed = x.closed
  /\ w.timer_set = x.timer_set /\ w.fd = x.fd /\ w.armed = x.armed /\ w.ticks = x.ticks
  /\ w.ctx = x.ctx /\ w.reader = x.reader /\ w.rendez = x.rendez /\ w.away = x.away
  /\ w.unset = x.unset

(* An assert fails. *)
LEMMA Aborted ==
  ASSUME NEW s \in Thread, NEW why \in Whys
  PROVE  LET z == Abort(s, why)
         IN  z \in Thread /\ z.thread = "aborted" /\ z.why = why /\ ~On(z)
BY DEF Abort, Thread, On

(* The task goes on, aborts or ends. *)
LEMMA FiredTo ==
  ASSUME NEW s, NEW t, NEW x, Mid(s, t, TimerWaiting(x)), Timers(s.pc, s.st, x),
         s.pc[t] \in FuncPcs, x.cbfn = "quick" => x.rendez = <<>>,
         NEW z, NEW y, FiredOn(s, x, t, z, y)
  PROVE  InTimer(z, y)
<1> DEFINE n == IF x.repeat > 0 THEN x.repeat - 1 ELSE x.repeat
           w == [x EXCEPT !.repeat = n]
           W == TimerWaiting(x)
<1>1. x \in TimerRec /\ n \in Int
  <2>1. x \in TimerRec
    BY DEF Timers
  <2> QED
    BY <2>1, TimerFields
<1>2. \/ n # 0 /\ z = Goto(s, t, "tread") /\ y = w
      \/ n = 0 /\ (~x.init \/ x.closed) /\ z = Abort(s, "timer_unset") /\ y = w
      \/ /\ n = 0 /\ x.init /\ ~x.closed /\ z = taskexit(s, t)
         /\ y = (IF w.timer_set THEN Disarmed(w) ELSE w)
  BY DEF FiredOn
<1> HIDE DEF n
<1>3. SameBut(x, w)
  BY <1>1 DEF SameBut, TimerRec
<1> HIDE DEF w
<1>4. t \in Tasks /\ t \notin W /\ s \in Thread /\ Func(s.pc) # {}
  BY RunnerLive DEF Mid, Func
<1>5. TimerWaiting(w) = W
  BY <1>3 DEF SameBut, TimerWaiting
<1>6. CASE n # 0 /\ z = Goto(s, t, "tread") /\ y = w
  <2>1. "tread" \in Pcs \ AioPcs
    BY DEF Pcs, AioPcs
  <2>2. Mid(z, t, W) /\ Others1(s, z, t) /\ z.pc[t] = "tread"
    BY <1>6, <2>1, MidGoto
  <2>3. After(z, W)
    BY <2>1, <2>2, MidEnd
  <2>4. \A u \in Tasks \ {t} : z.pc[u] = s.pc[u] /\ z.st[u] = s.st[u]
    BY <2>2 DEF Others1
  <2>5. Tasked(z.pc, z.st, x) /\ Func(z.pc) = Func(s.pc)
    BY <1>4, <2>2, <2>4, FuncGoes
  <2>6. Timers(z.pc, z.st, w)
    <3>1. Tasked(z.pc, z.st, w)
      BY <1>3, <2>5 DEF SameBut, Tasked, TaskAt
    <3>2. HasTask(Func(s.pc), w) /\ Set(w)
      BY <1>3 DEF SameBut, Timers, HasTask, Set
    <3>3. w \in TimerRec /\ Distinct(w.rendez, Tasks) /\ Distinct(w.away, Tasks)
      BY <1>3 DEF SameBut, Timers
    <3> QED
      BY <2>5, <3>1, <3>2, <3>3 DEF Timers
  <2> QED
    BY <1>5, <1>6, <2>3, <2>6, Ends
<1>7. CASE n = 0 /\ (~x.init \/ x.closed) /\ z = Abort(s, "timer_unset") /\ y = w
  <2>1. x.closed
    BY <1>4, <1>7 DEF Timers, HasTask
  <2>2. z.thread = "aborted" /\ z.why = "timer_unset" /\ ~On(z)
    BY <1>4, <1>7, Aborted DEF Whys
  <2> QED
    BY <1>3, <1>7, <2>1, <2>2 DEF SameBut, InTimer, Explained
<1>8. CASE n = 0 /\ x.init /\ ~x.closed /\ z = taskexit(s, t)
           /\ y = (IF w.timer_set THEN Disarmed(w) ELSE w)
  <2>1. After(z, W) /\ GoneTo(s, t, z)
    BY <1>8, MidExits
  <2>2. /\ y \in TimerRec /\ y.cbfn = x.cbfn /\ y.init /\ x.init /\ ~y.closed /\ ~x.closed
        /\ y.fd = x.fd /\ y.ctx = x.ctx /\ y.reader = x.reader /\ y.rendez = x.rendez
        /\ y.away = x.away /\ y.unset = x.unset
        /\ ~y.timer_set
        /\ x.timer_set => y.armed = "off" /\ ~y.ticks
        /\ ~x.timer_set => y.armed = x.armed /\ y.ticks = x.ticks
    <3>1. CASE w.timer_set
      <4>1. y = Disarmed(w) /\ w \in TimerRec
        BY <1>3, <1>8, <3>1 DEF SameBut
      <4>2. /\ y \in TimerRec /\ y.cbfn = w.cbfn /\ y.init = w.init /\ y.closed = w.closed
            /\ y.fd = w.fd /\ y.ctx = w.ctx /\ y.reader = w.reader /\ y.rendez = w.rendez
            /\ y.away = w.away /\ y.unset = w.unset
            /\ ~y.timer_set /\ y.armed = "off" /\ ~y.ticks
        BY <4>1 DEF TimerRec, Disarmed, settime
      <4> QED
        BY <1>3, <1>8, <3>1, <4>2 DEF SameBut
    <3>2. CASE ~w.timer_set
      BY <1>3, <1>8, <3>2 DEF SameBut
    <3> QED
      BY <3>1, <3>2
  <2>3. TimerWaiting(y) = W
    BY <2>2 DEF TimerWaiting
  <2>4. ASSUME On(z) PROVE Timers(z.pc, z.st, y)
    <3>1. /\ z.st[t] # "live" /\ z.pc[t] = ""
          /\ \A u \in Tasks \ {t} : z.pc[u] = s.pc[u] /\ z.st[u] = s.st[u]
      BY <2>1, <2>4 DEF GoneTo
    <3>2. WithoutIt(s.pc, s.st, t, z.pc, z.st)
      BY <3>1 DEF WithoutIt
    <3>3. Tasked(z.pc, z.st, y) /\ HasTask(Func(z.pc), y)
      <4>1. LeftBehind(x, y)
        BY <2>2 DEF LeftBehind
      <4>2. t \in Tasks /\ t \notin TimerWaiting(x)
        BY <1>4
      <4> QED
        BY <3>2, <4>1, <4>2, FuncEnds
    <3>4. Set(y)
      BY <2>2 DEF Timers, Set
    <3>5. Distinct(y.rendez, Tasks) /\ Distinct(y.away, Tasks)
      BY <2>2 DEF Timers
    <3> QED
      BY <2>2, <3>3, <3>4, <3>5 DEF Timers
  <2> QED
    BY <2>1, <2>3, <2>4, Ends
<1> QED
  BY <1>2, <1>6, <1>7, <1>8

(* ... and when its read returns. *)
LEMMA ExpiredStep ==
  ASSUME NEW t \in Tasks, Mid(sch, t, TimerWaiting(tm)), Timers(sch.pc, sch.st, tm),
         sch.pc[t] \in FuncPcs, ~tm.closed, tm.ticks, Expired(t)
  PROVE  InTimer(sch', tm')
<1> DEFINE W == TimerWaiting(tm)
           R == {u \in Tasks : InQueue(u, tm.rendez)}
           s == ReadyAll(sch, tm.rendez)
           e == <<>>
           x == [tm EXCEPT !.ticks = FALSE, !.rendez = e]
           V == W \ R
<1>1. tm \in TimerRec /\ tm.rendez \in Seq(Tasks) /\ Distinct(tm.rendez, Tasks)
      /\ tm.away \in Seq(Tasks) /\ Distinct(tm.away, Tasks)
  BY TimerFields DEF Timers
<1>2. Mid(s, t, V) /\ s.st = sch.st /\ s.pc = sch.pc
  <2>1. R \in SUBSET W /\ \A u \in Tasks : InQueue(u, tm.rendez) <=> u \in R
    BY DEF TimerWaiting
  <2> HIDE DEF R, W
  <2>2. Mid(sch, t, W)
    BY DEF W
  <2> QED
    BY <1>1, <2>1, <2>2, MidReadyAll, ZenonT(60)
<1>3. e \in Seq(Tasks) /\ e = <<>>
  OBVIOUS
<1>4. IF tm.cbfn = "quick" THEN Fired(s, x, t)
      ELSE TStep(taskswitch(s, t, "fired"), [x EXCEPT !.away = Append(@, t)])
  BY DEF Expired
<1> HIDE DEF e, s
<1>5. /\ x \in TimerRec /\ ~x.ticks /\ x.rendez = e /\ x.cbfn = tm.cbfn /\ x.init = tm.init
      /\ x.closed = tm.closed /\ x.timer_set = tm.timer_set /\ x.fd = tm.fd
      /\ x.armed = tm.armed /\ x.ctx = tm.ctx /\ x.reader = tm.reader /\ x.away = tm.away
      /\ x.unset = tm.unset
  BY <1>1, <1>3 DEF TimerRec
<1> HIDE DEF x
<1>6. TimerWaiting(x) = V
  <2>1. \A u \in Tasks : InQueue(u, tm.rendez) => u # tm.reader /\ ~InQueue(u, tm.away)
    BY DEF Timers, Tasked, TaskAt
  <2> QED
    BY <1>3, <1>5, <2>1, EmptyQueue DEF TimerWaiting
<1>7. Timers(s.pc, s.st, x)
  <2>1. Tasked(sch.pc, sch.st, x)
    BY <1>3, <1>5, EmptyQueue DEF Timers, Tasked, TaskAt
  <2>2. HasTask(Func(sch.pc), x) /\ Set(x)
    BY <1>3, <1>5 DEF Timers, HasTask, Set
  <2>3. Distinct(x.rendez, Tasks) /\ Distinct(x.away, Tasks)
    BY <1>1, <1>3, <1>5, EmptyQueue
  <2> QED
    BY <1>2, <1>5, <2>1, <2>2, <2>3 DEF Timers
<1> HIDE DEF V
<1>8. CASE tm.cbfn = "quick"
  <2>1. FiredOn(s, x, t, sch', tm')
    BY <1>4, <1>8 DEF Fired, FiredOn, TStep
  <2> QED
    BY <1>2, <1>3, <1>5, <1>6, <1>7, <2>1, FiredTo
<1>9. CASE tm.cbfn # "quick"
  <2> DEFINE q == Append(tm.away, t)
             y == [x EXCEPT !.away = q]
             z == taskswitch(s, t, "fired")
  <2>1. sch' = z /\ tm' = y
    BY <1>4, <1>5, <1>9 DEF TStep
  <2>2. t \notin V
    BY <1>2, RunnerLive
  <2>3. ~InQueue(t, x.away) /\ t # x.reader
    BY <1>6, <2>2 DEF TimerWaiting
  <2>4. /\ q \in Seq(Tasks) /\ Distinct(q, Tasks)
        /\ \A u : InQueue(u, q) <=> InQueue(u, tm.away) \/ u = t
    BY <1>1, <1>5, <2>3, AppendTo
  <2> HIDE DEF q
  <2>5. /\ y \in TimerRec /\ y.away = q /\ ~y.ticks /\ y.rendez = e /\ y.cbfn = x.cbfn
        /\ y.init = x.init /\ y.closed = x.closed /\ y.timer_set = x.timer_set
        /\ y.fd = x.fd /\ y.armed = x.armed /\ y.ctx = x.ctx /\ y.reader = x.reader
        /\ y.unset = x.unset
    BY <1>5, <2>4 DEF TimerRec
  <2> HIDE DEF y
  <2>6. TimerWaiting(y) = V \cup {t}
    <3>1. TimerWaiting(y) = TimerWaiting(x) \cup {t}
      BY <1>5, <2>4, <2>5 DEF TimerWaiting
    <3> QED
      BY <1>6, <3>1
  <2>7. "fired" \in Pcs \ AioPcs
    BY DEF Pcs, AioPcs
  <2>8. After(z, V \cup {t}) /\ MidTo(s, t, "fired", z)
    BY <1>2, <2>7, MidSwitch
  <2> HIDE DEF z
  <2>9. ASSUME On(z) PROVE Timers(z.pc, z.st, y)
    <3>1. z.st = s.st /\ z.pc[t] = "fired" /\ \A u \in Tasks \ {t} : z.pc[u] = s.pc[u]
      BY <2>8, <2>9 DEF MidTo
    <3>2. Func(z.pc) = Func(s.pc)
      BY <1>2, <3>1 DEF Func, FuncPcs
    <3>3. Keeps(t, x, y)
      BY <1>5, <2>4, <2>5 DEF Keeps
    <3>4. TaskAt(z.pc, z.st, y, t)
      <4>1. y.cbfn = "sleeps"
        BY <1>1, <1>5, <1>9, <2>5, TimerFields
      <4> QED
        BY <1>3, <2>3, <2>5, <3>1, <4>1, EmptyQueue DEF TaskAt, TimerPcs, FuncPcs
    <3>5. Tasked(z.pc, z.st, y)
      <4>1. Tasked(s.pc, s.st, x)
        BY <1>7 DEF Timers
      <4>2. \A u \in Tasks \ {t} : z.pc[u] = s.pc[u] /\ z.st[u] = s.st[u]
        BY <3>1
      <4> QED
        BY <3>3, <3>4, <4>1, <4>2, Tasking
    <3>6. HasTask(Func(s.pc), y) /\ Set(y)
      BY <1>5, <1>7, <1>9, <2>5 DEF Timers, HasTask, Set
    <3>7. Distinct(y.rendez, Tasks) /\ Distinct(y.away, Tasks)
      BY <1>3, <2>4, <2>5, EmptyQueue
    <3> QED
      BY <2>5, <3>2, <3>5, <3>6, <3>7 DEF Timers
  <2> QED
    BY <2>1, <2>6, <2>8, <2>9, Ends
<1> QED
  BY <1>8, <1>9

(* A task that reads the timer. *)
LEMMA ReadStep ==
  ASSUME NEW t \in Tasks, Mid(sch, t, TimerWaiting(tm)), Timers(sch.pc, sch.st, tm),
         sch.pc[t] \in FuncPcs, TimerRead(t)
  PROVE  InTimer(sch', tm')
<1> DEFINE W == TimerWaiting(tm)
<1>1. t \notin W /\ sch \in Thread /\ tm \in TimerRec
  BY RunnerLive DEF Mid, Timers
<1>2. CASE tm.closed
  <2> DEFINE z == taskexit(sch, t)
  <2>1. sch' = z /\ tm' = tm
    BY <1>2 DEF TimerRead, TStep
  <2>2. After(z, W) /\ GoneTo(sch, t, z)
    BY MidExits
  <2> HIDE DEF z
  <2>3. ASSUME On(z) PROVE Timers(z.pc, z.st, tm)
    <3>1. WithoutIt(sch.pc, sch.st, t, z.pc, z.st)
      BY <2>2, <2>3 DEF GoneTo, WithoutIt
    <3>2. LeftBehind(tm, tm)
      BY <1>2 DEF LeftBehind
    <3>3. Tasked(z.pc, z.st, tm) /\ HasTask(Func(z.pc), tm)
      BY <1>1, <3>1, <3>2, FuncEnds
    <3> QED
      BY <3>3 DEF Timers
  <2> QED
    BY <2>1, <2>2, <2>3, Ends
<1>3. CASE ~tm.closed /\ tm.ticks
  <2>1. Expired(t)
    BY <1>3 DEF TimerRead
  <2> QED
    BY <1>3, <2>1, ExpiredStep
<1>4. CASE ~tm.closed /\ ~tm.ticks /\ tm.reader # Nobody
  <2>1. sch' = Abort(sch, "reader") /\ tm' = tm
    BY <1>4 DEF TimerRead, TStep
  <2>2. tm.reader \in Tasks /\ tm.reader # t
    BY <1>1, <1>4, TimerFields DEF TimerWaiting
  <2>3. sch.pc[tm.reader] = "treading"
    BY <2>2 DEF Timers, Tasked, TaskAt
  <2>4. t \in Func(sch.pc) /\ tm.reader \in Func(sch.pc)
    BY <2>2, <2>3 DEF Func, FuncPcs
  <2>5. tm.unset
    BY <2>2, <2>4 DEF Timers, HasTask
  <2>6. sch'.thread = "aborted" /\ sch'.why = "reader" /\ ~On(sch')
    BY <1>1, <2>1, Aborted DEF Whys
  <2> QED
    BY <2>1, <2>5, <2>6 DEF InTimer, Explained
<1>5. CASE ~tm.closed /\ ~tm.ticks /\ tm.reader = Nobody
  <2> DEFINE z == taskswitch(sch, t, "treading")
             y == [tm EXCEPT !.reader = t]
  <2>1. sch' = z /\ tm' = y
    BY <1>5 DEF TimerRead, TStep
  <2>2. "treading" \in Pcs \ AioPcs
    BY DEF Pcs, AioPcs
  <2>3. After(z, W \cup {t}) /\ MidTo(sch, t, "treading", z)
    BY <2>2, MidSwitch
  <2>4. /\ y \in TimerRec /\ y.reader = t /\ y.cbfn = tm.cbfn /\ y.init = tm.init
        /\ y.closed = tm.closed /\ y.timer_set = tm.timer_set /\ y.fd = tm.fd
        /\ y.armed = tm.armed /\ y.ticks = tm.ticks /\ y.ctx = tm.ctx
        /\ y.rendez = tm.rendez /\ y.away = tm.away /\ y.unset = tm.unset
    BY <1>1 DEF TimerRec
  <2> HIDE DEF z, y
  <2>5. TimerWaiting(y) = W \cup {t}
    BY <1>5, <2>4, TaskNames DEF TimerWaiting
  <2>6. ASSUME On(z) PROVE Timers(z.pc, z.st, y)
    <3>1. z.st = sch.st /\ z.pc[t] = "treading" /\ \A u \in Tasks \ {t} : z.pc[u] = sch.pc[u]
      BY <2>3, <2>6 DEF MidTo
    <3>2. Func(z.pc) = Func(sch.pc)
      BY <3>1 DEF Func, FuncPcs
    <3>3. Keeps(t, tm, y)
      BY <2>4 DEF Keeps
    <3>4. TaskAt(z.pc, z.st, y, t)
      BY <1>1, <2>4, <3>1 DEF TaskAt, TimerPcs, FuncPcs, TimerWaiting
    <3>5. Tasked(z.pc, z.st, y)
      BY <3>1, <3>3, <3>4, Tasking DEF Timers
    <3>6. HasTask(Func(sch.pc), y) /\ Set(y)
      BY <2>4 DEF Timers, HasTask, Set
    <3> QED
      BY <2>4, <3>2, <3>5, <3>6 DEF Timers
  <2> QED
    BY <2>1, <2>3, <2>5, <2>6, Ends
<1> QED
  BY <1>1, <1>2, <1>3, <1>4, <1>5, TimerFields DEF TimerRead

(* The task of the timer. *)
LEMMA FuncStep ==
  ASSUME InTimer(sch, tm), NEW t \in Tasks, _timer_func(t)
  PROVE  InTimer(sch', tm')
<1> DEFINE W == TimerWaiting(tm)
<1>1. On(sch) /\ sch.running = t /\ sch.pc[t] \in FuncPcs
  BY DEF _timer_func, At, FuncPcs
<1>2. InUse(sch, tm)
  BY <1>1, IsInUse DEF FuncPcs
<1>3. Mid(sch, t, W) /\ Timers(sch.pc, sch.st, tm)
  BY <1>1, <1>2, InUseMid DEF FuncPcs, AioPcs
<1>4. t \notin W /\ sch \in Thread /\ tm \in TimerRec /\ Func(sch.pc) # {}
  BY <1>1, <1>3, RunnerLive DEF Mid, Timers, Func
<1>5. CASE sch.pc[t] = "timer_func" /\ TStep(Goto(tasksystem(sch, t), t, "tread"), tm)
  <2> DEFINE s == tasksystem(sch, t)
             z == Goto(s, t, "tread")
  <2>1. sch' = z /\ tm' = tm
    BY <1>5 DEF TStep
  <2>2. "tread" \in Pcs \ AioPcs
    BY DEF Pcs, AioPcs
  <2>3. Mid(s, t, W) /\ s.st = sch.st /\ s.pc = sch.pc
    BY <1>3, MidSystem
  <2> HIDE DEF s
  <2>4. Mid(z, t, W) /\ Others1(s, z, t) /\ z.pc[t] = "tread"
    BY <2>2, <2>3, MidGoto
  <2> HIDE DEF z
  <2>5. After(z, W)
    BY <2>2, <2>4, MidEnd
  <2>6. \A u \in Tasks \ {t} : z.pc[u] = sch.pc[u] /\ z.st[u] = sch.st[u]
    BY <2>3, <2>4 DEF Others1
  <2>7. Tasked(z.pc, z.st, tm) /\ Func(z.pc) = Func(sch.pc)
    BY <1>1, <1>3, <1>4, <2>4, <2>6, FuncGoes
  <2>8. Timers(z.pc, z.st, tm)
    BY <1>3, <2>7 DEF Timers
  <2> QED
    BY <2>1, <2>5, <2>8, Ends
<1>6. CASE TimerRead(t)
  BY <1>1, <1>3, <1>6, ReadStep
<1>7. CASE ~(tm.fd /\ tm.ctx) /\ TStep(Abort(sch, "timer_func"), tm)
  <2>1. tm.closed
    BY <1>3, <1>4, <1>7 DEF Timers, HasTask, Set
  <2>2. sch' = Abort(sch, "timer_func") /\ tm' = tm
    BY <1>7 DEF TStep
  <2>3. sch'.thread = "aborted" /\ sch'.why = "timer_func" /\ ~On(sch')
    BY <1>4, <2>2, Aborted DEF Whys
  <2> QED
    BY <2>1, <2>2, <2>3 DEF InTimer, Explained
<1>8. CASE sch.pc[t] = "fired" /\ Fired(sch, tm, t)
  <2>1. FiredOn(sch, tm, t, sch', tm')
    BY <1>8 DEF Fired, FiredOn, TStep
  <2>2. tm.cbfn = "sleeps"
    BY <1>3, <1>8 DEF Timers, Tasked, TaskAt
  <2>3. tm.cbfn = "quick" => tm.rendez = <<>>
    BY <2>2
  <2> QED
    BY <1>1, <1>3, <2>1, <2>3, FiredTo
<1> QED
  BY <1>5, <1>6, <1>7, <1>8 DEF _timer_func, At

(* A turn of aiotask: the timer y keeps some of those that waited. *)
LEMMA AioTurn ==
  ASSUME NEW s, NEW x, NEW t \in Tasks, Timers(s.pc, s.st, x), s.pc[t] \in AioPcs,
         t \notin TimerWaiting(x), NEW l \in AioPcs, NEW z, On(z), MidTo(s, t, l, z),
         NEW y, Keeps(t, x, y), y \in TimerRec, Distinct(y.rendez, Tasks),
         Distinct(y.away, Tasks), HasTask(Func(s.pc), y), Set(y),
         t \notin TimerWaiting(y)
  PROVE  Timers(z.pc, z.st, y)
<1>1. z.st = s.st /\ z.pc[t] = l /\ \A u \in Tasks \ {t} : z.pc[u] = s.pc[u]
  BY DEF MidTo
<1>2. Func(z.pc) = Func(s.pc)
  BY <1>1 DEF Func, FuncPcs, AioPcs
<1>3. t # y.reader /\ ~InQueue(t, y.rendez) /\ ~InQueue(t, y.away)
  BY DEF TimerWaiting
<1>4. TaskAt(z.pc, z.st, y, t)
  BY <1>1, <1>3 DEF TaskAt, TimerPcs, AioPcs
<1>5. Tasked(s.pc, s.st, x)
  BY DEF Timers
<1>6. Tasked(z.pc, z.st, y)
  <2>1. \A u \in Tasks \ {t} : z.pc[u] = s.pc[u] /\ z.st[u] = s.st[u]
    BY <1>1
  <2> QED
    BY <1>4, <1>5, <2>1, Tasking
<1> QED
  BY <1>2, <1>6 DEF Timers

(* aiotask starts, ... *)
LEMMA AioStep ==
  ASSUME InTimer(sch, tm), NEW t \in Tasks, aiotask(t), tm' = tm
  PROVE  InTimer(sch', tm')
<1> DEFINE W == TimerWaiting(tm)
           s == tasksystem(sch, t)
           z == AioYield(s, t)
<1>1. On(sch) /\ sch.running = t /\ sch.pc[t] = "aiotask" /\ sch' = z
  BY DEF aiotask, At
<1>2. InUse(sch, tm)
  BY <1>1, IsInUse
<1>3. Mid(sch, t, W) /\ Timers(sch.pc, sch.st, tm)
  BY <1>1, <1>2, InUseMid
<1>4. Mid(s, t, W) /\ s.st = sch.st /\ s.pc = sch.pc /\ t \notin W
  BY <1>3, MidSystem, RunnerLive
<1> HIDE DEF s
<1>5. Acc(s, t, W) /\ On(s) /\ OneAio(s.pc) /\ s.pc[t] \in AioPcs
  BY <1>1, <1>4 DEF Mid, AioIdle, AioPcs
<1>6. After(z, W) /\ MidTo(s, t, "yielded", z)
  BY <1>5, AioYields
<1> HIDE DEF z
<1>7. ASSUME On(z) PROVE Timers(z.pc, z.st, tm)
  <2>1. "yielded" \in AioPcs /\ Keeps(t, tm, tm)
    BY DEF AioPcs, Keeps
  <2>2. /\ tm \in TimerRec /\ Distinct(tm.rendez, Tasks) /\ Distinct(tm.away, Tasks)
        /\ HasTask(Func(s.pc), tm) /\ Set(tm)
    BY <1>3, <1>4 DEF Timers
  <2> QED
    BY <1>3, <1>4, <1>5, <1>6, <1>7, <2>1, <2>2, AioTurn
<1> QED
  BY <1>1, <1>6, <1>7, Ends

(* ... yields again or polls. *)
LEMMA AioYieldedStep ==
  ASSUME InTimer(sch, tm), NEW t \in Tasks, AioYielded(t, FALSE), tm' = tm
  PROVE  InTimer(sch', tm')
<1> DEFINE W == TimerWaiting(tm)
<1>1. On(sch) /\ sch.running = t /\ sch.pc[t] = "yielded"
  BY DEF AioYielded, At
<1>2. InUse(sch, tm)
  BY <1>1, IsInUse
<1>3. Acc(sch, t, W) /\ AioOk(sch) /\ Timers(sch.pc, sch.st, tm) /\ sch \in Thread
  BY <1>1, <1>2 DEF InUse, Acc
<1>4. t \notin W /\ sch.pc[t] \in AioPcs /\ OneAio(sch.pc) /\ sch.nswitch \in 0..2
  BY <1>1, <1>3, SchedFields DEF Acc, Placed, AioPcs, AioOk
<1>5. PICK l \in AioPcs : After(sch', W) /\ MidTo(sch, t, l, sch')
  <2>1. CASE sch.nswitch > 1
    <3>1. sch' = AioYield(sch, t)
      BY <1>4, <2>1 DEF AioYielded
    <3>2. After(AioYield(sch, t), W) /\ MidTo(sch, t, "yielded", AioYield(sch, t))
      BY <1>1, <1>3, <1>4, AioYields
    <3> QED
      BY <3>1, <3>2 DEF AioPcs
  <2>2. CASE sch.nswitch <= 1
    <3>1. sch' = Goto(sch, t, "poll")
      BY <1>4, <2>2 DEF AioYielded
    <3>2. After(Goto(sch, t, "poll"), W) /\ MidTo(sch, t, "poll", Goto(sch, t, "poll"))
      BY <1>1, <1>3, <1>4, <2>2, AioPolls
    <3> QED
      BY <3>1, <3>2 DEF AioPcs
  <2> QED
    BY <1>4, <2>1, <2>2
<1>6. ASSUME On(sch') PROVE Timers(sch'.pc, sch'.st, tm)
  <2>1. Keeps(t, tm, tm)
    BY DEF Keeps
  <2>2. /\ tm \in TimerRec /\ Distinct(tm.rendez, Tasks) /\ Distinct(tm.away, Tasks)
        /\ HasTask(Func(sch.pc), tm) /\ Set(tm)
    BY <1>3 DEF Timers
  <2> QED
    BY <1>3, <1>4, <1>5, <1>6, <2>1, <2>2, AioTurn
<1> QED
  BY <1>5, <1>6, Ends

(* While aiotask polls, the task of a timer that rings waits for it, ...   *)
LEMMA PolledStep ==
  ASSUME InTimer(sch, tm), NEW t \in Tasks, TimerPolled(t)
  PROVE  InTimer(sch', tm')
<1> DEFINE W == TimerWaiting(tm)
           r == tm.reader
<1>1. On(sch) /\ sch.running = t /\ sch.pc[t] = "poll"
  BY DEF TimerPolled, At
<1>2. InUse(sch, tm)
  BY <1>1, IsInUse
<1>3. Acc(sch, t, W) /\ AioOk(sch) /\ Timers(sch.pc, sch.st, tm) /\ sch \in Thread
      /\ tm \in TimerRec
  BY <1>1, <1>2 DEF InUse, Acc, Timers
<1>4. /\ t \notin W /\ sch.pc[t] \in AioPcs /\ OneAio(sch.pc) /\ sch.runq = <<>>
      /\ W \in SUBSET Tasks
  BY <1>1, <1>3 DEF Acc, Placed, AioPcs, AioOk
<1>5. ASSUME tm.ticks, r = Nobody PROVE tm.cbfn = "sleeps"
  <2> SUFFICES ASSUME tm.cbfn = "quick" PROVE FALSE
    BY <1>3, TimerFields
  <2>1. tm.away = <<>> /\ Func(sch.pc) # {}
    BY <1>3, <1>5 DEF Timers, Set, HasTask
  <2>2. PICK f \in Tasks : sch.pc[f] \in FuncPcs
    BY <2>1 DEF Func
  <2>3. sch.st[f] = "live"
    BY <1>3, <2>2 DEF Acc, Placed, FuncPcs
  <2>4. f = t \/ InQueue(f, sch.runq) \/ f \in W
    BY <1>3, <2>3 DEF Acc, Placed
  <2>5. f # t
    BY <1>1, <2>2 DEF FuncPcs
  <2>6. f # Nobody /\ ~InQueue(f, sch.runq) /\ ~InQueue(f, tm.away)
    BY <1>4, <2>1, EmptyQueue, TaskNames
  <2>7. InQueue(f, tm.rendez)
    BY <1>5, <2>4, <2>5, <2>6 DEF TimerWaiting
  <2> QED
    BY <1>3, <2>2, <2>7 DEF Timers, Tasked, TaskAt, FuncPcs
<1>6. ASSUME NEW s, NEW y, NEW u \in W, s = taskready(sch, u), sch' = AioYield(s, t), tm' = y,
             Keeps(t, tm, y), y \in TimerRec, Distinct(y.rendez, Tasks),
             Distinct(y.away, Tasks), HasTask(Func(sch.pc), y), Set(y),
             TimerWaiting(y) = W \ {u}
      PROVE  InTimer(sch', tm')
  <2> HIDE DEF W
  <2>1. Acc(s, t, W \ {u})
    BY <1>3, <1>6, WokenUp
  <2>2. s.pc = sch.pc /\ s.st = sch.st /\ s.thread = sch.thread
    BY <1>3, <1>4, <1>6, ReadyOut
  <2>3. On(s) /\ OneAio(s.pc) /\ s.pc[t] \in AioPcs
    BY <1>1, <1>4, <2>2 DEF On
  <2> DEFINE z == AioYield(s, t)
  <2>4. After(z, W \ {u}) /\ MidTo(s, t, "yielded", z)
    BY <2>1, <2>3, AioYields
  <2> HIDE DEF z
  <2>5. ASSUME On(z) PROVE Timers(z.pc, z.st, y)
    <3>1. "yielded" \in AioPcs /\ t \notin TimerWaiting(tm) /\ t \notin TimerWaiting(y)
      BY <1>4, <1>6 DEF AioPcs, W
    <3>2. Timers(s.pc, s.st, tm) /\ HasTask(Func(s.pc), y)
      BY <1>3, <1>6, <2>2
    <3> QED
      BY <1>6, <2>3, <2>4, <2>5, <3>1, <3>2, AioTurn
  <2>6. InTimer(z, y)
    BY <1>6, <2>4, <2>5, Ends
  <2> QED
    BY <1>6, <2>6 DEF z
<1>7. CASE tm.ticks /\ TStep(AioYield(sockio_done(sch, tm, {"in"}), t), Served(tm, {"in"}))
  <2> DEFINE y == Served(tm, {"in"})
             s == sockio_done(sch, tm, {"in"})
  <2>0. {"in"} \cap {"in", "hup"} # {} /\ {"in"} \cap {"out", "hup"} = {}
    OBVIOUS
  <2>1. y = [tm EXCEPT !.reader = Nobody, !.writer = tm.writer]
    BY <2>0 DEF Served, ForReader, ForWriter
  <2>2. /\ y \in TimerRec /\ y.reader = Nobody /\ y.cbfn = tm.cbfn /\ y.init = tm.init
        /\ y.closed = tm.closed /\ y.timer_set = tm.timer_set /\ y.fd = tm.fd
        /\ y.armed = tm.armed /\ y.ticks = tm.ticks /\ y.ctx = tm.ctx
        /\ y.rendez = tm.rendez /\ y.away = tm.away /\ y.unset = tm.unset
    BY <1>3, <2>1 DEF TimerRec
  <2>3. sch' = AioYield(s, t) /\ tm' = y
    BY <1>7 DEF TStep
  <2> HIDE DEF y
  <2>4. CASE r = Nobody
    <3>1. s = Abort(sch, "sockio_done")
      BY <1>3, <2>4, TimerFields DEF sockio_done
    <3>2. "sockio_done" \in Whys
      BY DEF Whys
    <3> HIDE DEF s
    <3>3. s \in Thread /\ s.thread = "aborted" /\ s.why = "sockio_done" /\ ~On(s)
      BY <1>3, <3>1, <3>2, Aborted
    <3>4. sch'.thread = "aborted" /\ sch'.why = "sockio_done"
      BY <2>3, <3>3, OffTo
    <3>5. y.cbfn = "sleeps"
      BY <1>5, <1>7, <2>2, <2>4
    <3> QED
      BY <2>3, <3>4, <3>5 DEF InTimer, Explained, On
  <2>5. CASE r # Nobody
    <3>1. s = taskready(sch, r)
      BY <1>3, <2>0, <2>5, TimerFields DEF sockio_done, ReadyIf, ForReader, ForWriter
    <3>2. r \in Tasks
      BY <1>3, <2>5, TimerFields
    <3>3. r \in W
      BY <3>2 DEF TimerWaiting
    <3>4. ~InQueue(r, tm.rendez) /\ ~InQueue(r, tm.away)
      BY <1>3, <3>2 DEF Timers, Tasked, TaskAt
    <3>5. TimerWaiting(y) = W \ {r}
      BY <2>2, <3>4, TaskNames DEF TimerWaiting
    <3>6. Keeps(t, tm, y)
      BY <2>2, TaskNames DEF Keeps
    <3>7. HasTask(Func(sch.pc), y) /\ Set(y)
      BY <1>3, <2>2 DEF Timers, HasTask, Set
    <3>8. Distinct(y.rendez, Tasks) /\ Distinct(y.away, Tasks)
      BY <1>3, <2>2 DEF Timers
    <3> HIDE DEF s, W
    <3> QED
      BY <1>6, <2>2, <2>3, <3>1, <3>3, <3>5, <3>6, <3>7, <3>8
  <2> QED
    BY <2>4, <2>5
<1>8. CASE tm.away # <<>> /\ TStep(AioYield(ReadyHead(sch, tm.away), t),
                                   [tm EXCEPT !.away = Tail(@)])
  <2> DEFINE q == Tail(tm.away)
             u == Head(tm.away)
             y == [tm EXCEPT !.away = q]
             s == taskready(sch, u)
  <2>1. tm.away \in Seq(Tasks) /\ Distinct(tm.away, Tasks)
    BY <1>3, TimerFields DEF Timers
  <2>2. /\ u \in Tasks /\ q \in Seq(Tasks) /\ Distinct(q, Tasks) /\ ~InQueue(u, q)
        /\ \A v : InQueue(v, tm.away) <=> v = u \/ InQueue(v, q)
    BY <1>8, <2>1, TailOf
  <2>3. ReadyHead(sch, tm.away) = s
    BY <1>8 DEF ReadyHead
  <2>4. sch' = AioYield(s, t) /\ tm' = y
    BY <1>8, <2>3 DEF TStep
  <2> HIDE DEF q, u
  <2>5. /\ y \in TimerRec /\ y.reader = tm.reader /\ y.cbfn = tm.cbfn /\ y.init = tm.init
        /\ y.closed = tm.closed /\ y.timer_set = tm.timer_set /\ y.fd = tm.fd
        /\ y.armed = tm.armed /\ y.ticks = tm.ticks /\ y.ctx = tm.ctx
        /\ y.rendez = tm.rendez /\ y.away = q /\ y.unset = tm.unset
    BY <1>3, <2>2 DEF TimerRec
  <2> HIDE DEF y
  <2>6. u \in W /\ InQueue(u, tm.away)
    BY <2>2 DEF TimerWaiting
  <2>7. u # tm.reader /\ ~InQueue(u, tm.rendez)
    BY <1>3, <2>2, <2>6 DEF Timers, Tasked, TaskAt
  <2>8. TimerWaiting(y) = W \ {u}
    BY <2>2, <2>5, <2>7 DEF TimerWaiting
  <2>9. Keeps(t, tm, y)
    BY <2>2, <2>5 DEF Keeps
  <2>10. HasTask(Func(sch.pc), y)
    BY <1>3, <2>5 DEF Timers, HasTask
  <2>11. Set(y)
    <3>1. y.cbfn = "quick" => FALSE
      BY <1>3, <1>8, <2>5 DEF Timers, Set
    <3> QED
      BY <1>3, <2>5, <3>1 DEF Timers, Set
  <2>12. Distinct(y.rendez, Tasks) /\ Distinct(y.away, Tasks)
    BY <1>3, <2>2, <2>5 DEF Timers
  <2> HIDE DEF s, W
  <2>13. s = taskready(sch, u)
    BY DEF s
  <2> QED
    BY <1>6, <2>4, <2>5, <2>6, <2>8, <2>9, <2>10, <2>11, <2>12, <2>13
<1> QED
  BY <1>7, <1>8 DEF TimerPolled

(* A task that uses the timer creates another, yields or ends. *)
LEMMA UserStep ==
  ASSUME InTimer(sch, tm), NEW t \in Tasks, Worker(t, "timer", Workers) \/ Leave(t, "timer"),
         tm' = tm
  PROVE  InTimer(sch', tm')
<1> DEFINE W == TimerWaiting(tm)
<1>1. On(sch) /\ sch.running = t /\ sch.pc[t] = "timer"
  BY DEF Worker, Leave, At
<1>2. InUse(sch, tm)
  BY <1>1, IsInUse
<1>3. Mid(sch, t, W) /\ Timers(sch.pc, sch.st, tm)
  BY <1>1, <1>2, InUseMid DEF AioPcs
<1>4. t \notin W /\ tm \in TimerRec
  BY <1>3, RunnerLive DEF Timers
<1>5. t # tm.reader /\ ~InQueue(t, tm.rendez) /\ ~InQueue(t, tm.away)
  BY <1>4 DEF TimerWaiting
<1>6. "timer" \in Pcs /\ "timer" \notin AioPcs
  BY DEF Pcs, AioPcs
<1>7. Keeps(t, tm, tm)
  BY DEF Keeps
<1>8. Tasked(sch.pc, sch.st, tm)
  BY <1>3 DEF Timers
<1>9. ASSUME NEW small \in BOOLEAN, Cardinality(Live(sch)) < Workers,
             sch' = taskcreate(sch, "timer", small)
      PROVE  InTimer(sch', tm')
  <2> DEFINE z == taskcreate(sch, "timer", small)
  <2>1. Cardinality(Live(sch)) < MaxTask
    <3>1. Live(sch) \in SUBSET Tasks
      BY DEF Live
    <3>2. Cardinality(Live(sch)) \in Nat
      BY <3>1, TaskNames, SubsetCount
    <3>3. Workers \in 1..MaxTask /\ MaxTask \in Nat
      BY LocksAssumption, TaskNames
    <3> QED
      BY <1>9, <3>2, <3>3
  <2>2. MadeIn(sch, t, W, "timer", z)
    BY <1>3, <1>6, <2>1, MidCreate
  <2> HIDE DEF z, W
  <2>3. ASSUME On(z) PROVE InTimer(z, tm)
    <3>1. PICK u \in Tasks :
            /\ z.pc[u] = "timer" /\ u # t /\ u \notin W /\ sch.pc[u] = ""
            /\ \A v \in Tasks \ {u} : z.st[v] = sch.st[v] /\ z.pc[v] = sch.pc[v]
      BY <2>2, <2>3 DEF MadeIn
    <3>2. Mid(z, t, W) /\ z.pc[t] \notin AioPcs
      BY <1>1, <1>6, <2>2, <2>3, <3>1 DEF MadeIn
    <3>3. After(z, W)
      BY <3>2, MidEnd
    <3>4. TaskAt(z.pc, z.st, tm, u)
      <4>1. u # tm.reader /\ ~InQueue(u, tm.rendez) /\ ~InQueue(u, tm.away)
        BY <3>1 DEF W, TimerWaiting
      <4> QED
        BY <3>1, <4>1 DEF TaskAt, TimerPcs
    <3>5. Keeps(u, tm, tm)
      BY DEF Keeps
    <3>6. Tasked(z.pc, z.st, tm)
      <4>1. \A v \in Tasks \ {u} : z.pc[v] = sch.pc[v] /\ z.st[v] = sch.st[v]
        BY <3>1
      <4> QED
        BY ONLY <1>8, <3>4, <3>5, <4>1, Tasking
    <3>7. Func(z.pc) = Func(sch.pc)
      BY <3>1 DEF Func, FuncPcs
    <3>8. Timers(z.pc, z.st, tm)
      BY <1>3, <3>6, <3>7 DEF Timers
    <3> QED
      BY <3>3, <3>8, Ends DEF W
  <2>4. ASSUME ~On(z) PROVE InTimer(z, tm)
    BY <2>2, <2>4 DEF MadeIn, InTimer, Explained
  <2> QED
    BY <1>9, <2>3, <2>4 DEF z
<1>10. ASSUME sch' = taskyield(sch, t, "timer") PROVE InTimer(sch', tm')
  <2> DEFINE z == taskyield(sch, t, "timer")
  <2>1. After(z, W) /\ MidTo(sch, t, "timer", z)
    BY <1>3, <1>6, MidYield
  <2> HIDE DEF z
  <2>2. ASSUME On(z) PROVE Timers(z.pc, z.st, tm)
    <3>1. z.st = sch.st /\ z.pc[t] = "timer" /\ \A u \in Tasks \ {t} : z.pc[u] = sch.pc[u]
      BY <2>1, <2>2 DEF MidTo
    <3>2. TaskAt(z.pc, z.st, tm, t)
      BY <1>5, <3>1 DEF TaskAt, TimerPcs
    <3>3. Tasked(z.pc, z.st, tm)
      <4>1. \A u \in Tasks \ {t} : z.pc[u] = sch.pc[u] /\ z.st[u] = sch.st[u]
        BY <3>1
      <4> QED
        BY ONLY <1>7, <1>8, <3>2, <4>1, Tasking
    <3>4. Func(z.pc) = Func(sch.pc)
      BY <1>1, <3>1 DEF Func, FuncPcs
    <3> QED
      BY <1>3, <3>3, <3>4 DEF Timers
  <2> QED
    BY <1>10, <2>1, <2>2, Ends DEF z
<1>11. ASSUME sch' = taskexit(sch, t) PROVE InTimer(sch', tm')
  <2> DEFINE z == taskexit(sch, t)
  <2>1. After(z, W) /\ GoneTo(sch, t, z)
    BY <1>3, MidExits
  <2> HIDE DEF z
  <2>2. ASSUME On(z) PROVE Timers(z.pc, z.st, tm)
    <3>1. /\ z.st[t] # "live" /\ z.pc[t] = ""
          /\ \A u \in Tasks \ {t} : z.pc[u] = sch.pc[u] /\ z.st[u] = sch.st[u]
      BY <2>1, <2>2 DEF GoneTo
    <3>2. TaskAt(z.pc, z.st, tm, t)
      BY <1>5, <3>1 DEF TaskAt
    <3>3. Tasked(z.pc, z.st, tm)
      <4>1. \A u \in Tasks \ {t} : z.pc[u] = sch.pc[u] /\ z.st[u] = sch.st[u]
        BY <3>1
      <4> QED
        BY ONLY <1>7, <1>8, <3>2, <4>1, Tasking
    <3>4. Func(z.pc) = Func(sch.pc)
      BY <1>1, <3>1 DEF Func, FuncPcs
    <3> QED
      BY <1>3, <3>3, <3>4 DEF Timers
  <2> QED
    BY <1>11, <2>1, <2>2, Ends DEF z
<1> QED
  BY <1>9, <1>10, <1>11 DEF Worker, Leave

(***************************************************************************)
(* The program of the timers, and what follows.                            *)
(***************************************************************************)
LEMMA TimersInit == Init => TimersInv
<1> SUFFICES ASSUME Init, prog = "timer"
             PROVE  InTimer(sch, tm)
  BY DEF TimersInv
<1> DEFINE x == libtask_start("main")
<1>1. sch = x
  BY DEF Init, First
<1>2. FirstRuns(x, "main")
  BY FirstTask DEF Pcs
<1> HIDE DEF x
<1>3. \E cb \in {"quick", "sleeps"} : tm = NewTimer(cb)
  BY TimerAssumption DEF Init
<1>4. x.thread = "aborted" => Explained(x, tm)
  BY <1>2 DEF FirstRuns, Explained
<1>5. On(x) => Fresh(x, tm)
  BY <1>2, <1>3 DEF FirstRuns, Fresh
<1> QED
  BY <1>1, <1>4, <1>5 DEF InTimer

(* Every step keeps the invariant of the timers, ... *)
LEMMA TimersStep == TimersInv /\ [Next]_vars => TimersInv'
<1> SUFFICES ASSUME TimersInv, [Next]_vars
             PROVE  TimersInv'
  OBVIOUS
<1>1. CASE UNCHANGED vars
  BY <1>1 DEF vars, TimersInv
<1>2. CASE Next /\ prog = "timer"
  <2>0. InTimer(sch, tm)
    BY <1>2 DEF TimersInv
  <2>1. CASE Expire
    BY <1>2, <2>0, <2>1, ExpireStep DEF TimersInv
  <2>2. ASSUME NEW t \in Tasks,
               \/ TimerMain(t) \/ timer_init(t) \/ \E r \in Repeat : timer_set(t, r)
               \/ timer_wait(t) \/ timer_unset(t) \/ timer_deinit(t) \/ Deinited(t)
               \/ _timer_func(t) \/ TimerPolled(t)
               \/ (aiotask(t) \/ AioYielded(t, FALSE)) /\ UNCHANGED tm
               \/ (Worker(t, "timer", Workers) \/ Leave(t, "timer")) /\ UNCHANGED tm
        PROVE  InTimer(sch', tm')
    <3>1. CASE TimerMain(t)
      BY <2>0, <3>1, MainStep
    <3>2. CASE timer_init(t)
      BY <2>0, <3>2, InitStep
    <3>3. CASE \E r \in Repeat : timer_set(t, r)
      BY <2>0, <3>3, SetStep
    <3>4. CASE timer_wait(t)
      BY <2>0, <3>4, WaitStep
    <3>5. CASE timer_unset(t)
      BY <2>0, <3>5, UnsetStep
    <3>6. CASE timer_deinit(t)
      BY <2>0, <3>6, DeinitStep
    <3>7. CASE Deinited(t)
      BY <2>0, <3>7, DeinitedStep
    <3>8. CASE _timer_func(t)
      BY <2>0, <3>8, FuncStep
    <3>9. CASE TimerPolled(t)
      BY <2>0, <3>9, PolledStep
    <3>10. CASE aiotask(t) /\ UNCHANGED tm
      BY <2>0, <3>10, AioStep
    <3>11. CASE AioYielded(t, FALSE) /\ UNCHANGED tm
      BY <2>0, <3>11, AioYieldedStep
    <3>12. CASE (Worker(t, "timer", Workers) \/ Leave(t, "timer")) /\ UNCHANGED tm
      BY <2>0, <3>12, UserStep
    <3> QED
      BY <2>2, <3>1, <3>2, <3>3, <3>4, <3>5, <3>6, <3>7, <3>8, <3>9, <3>10, <3>11, <3>12
  <2>3. TimerNext /\ prog' = prog
    BY <1>2 DEF Next
  <2> QED
    BY <2>1, <2>2, <2>3 DEF TimerNext, TimersInv
<1>3. CASE Next /\ prog # "timer"
  BY <1>3 DEF Next, TimersInv
<1> QED
  BY <1>1, <1>2, <1>3

(* ... which therefore holds throughout. *)
THEOREM TimersInvariance == Spec => []TimersInv
BY TimersInit, TimersStep, PTL DEF Spec

(* No task that uses the timer is lost or queued twice. *)
THEOREM TimerTasksAccounted == Spec => [](prog = "timer" => TasksAccounted)
<1>1. TimersInv => (prog = "timer" => TasksAccounted)
  <2> SUFFICES ASSUME TimersInv, prog = "timer", On(sch)
               PROVE  OnePlace(Waits) /\ Counted
    BY DEF TasksAccounted
  <2> DEFINE L == <<One(tm.reader), tm.rendez, tm.away>>
             W == TimerWaiting(tm)
  <2>1. Waits = L
    BY DEF Waits, TimerWaits
  <2>2. /\ tm.reader \in Tasks \cup {Nobody} /\ tm.rendez \in Seq(Tasks)
        /\ tm.away \in Seq(Tasks) /\ Distinct(tm.rendez, Tasks) /\ Distinct(tm.away, Tasks)
        /\ \A t \in Tasks : /\ t = tm.reader => ~InQueue(t, tm.rendez) /\ ~InQueue(t, tm.away)
                            /\ InQueue(t, tm.rendez) => ~InQueue(t, tm.away)
        /\ Acc(sch, sch.running, W)
    <3>1. CASE Fresh(sch, tm)
      <4>1. tm.reader = Nobody /\ tm.rendez = <<>> /\ tm.away = <<>>
        <5>1. PICK cb : tm = NewTimer(cb)
          BY <3>1 DEF Fresh
        <5> QED
          BY <5>1 DEF NewTimer
      <4>2. W = {}
        BY <4>1, EmptyQueue, TaskNames DEF TimerWaiting
      <4>3. <<>> \in Seq(Tasks)
        OBVIOUS
      <4>4. Acc(sch, sch.running, W)
        BY <3>1, <4>2 DEF Fresh
      <4> QED
        BY <4>1, <4>3, <4>4, EmptyQueue, TaskNames
    <3>2. CASE InUse(sch, tm)
      <4>1. Timers(sch.pc, sch.st, tm) /\ tm \in TimerRec /\ Acc(sch, sch.running, W)
        BY <3>2 DEF InUse, Timers
      <4>2. tm.reader \in Tasks \cup {Nobody} /\ tm.rendez \in Seq(Tasks)
            /\ tm.away \in Seq(Tasks)
        BY <4>1, TimerFields
      <4>3. \A t \in Tasks : TaskAt(sch.pc, sch.st, tm, t)
        BY <4>1 DEF Timers, Tasked
      <4>4. \A t \in Tasks :
              /\ t = tm.reader => ~InQueue(t, tm.rendez) /\ ~InQueue(t, tm.away)
              /\ InQueue(t, tm.rendez) => ~InQueue(t, tm.away)
        BY <4>3 DEF TaskAt
      <4>5. Distinct(tm.rendez, Tasks) /\ Distinct(tm.away, Tasks)
        BY <4>1 DEF Timers
      <4> QED
        BY <4>1, <4>2, <4>4, <4>5
    <3> QED
      BY <3>1, <3>2 DEF TimersInv, InTimer
  <2> DEFINE q == One(tm.reader)
  <2>3. /\ q \in Seq(Tasks) /\ Distinct(q, Tasks)
        /\ \A t \in Tasks : InQueue(t, q) <=> t = tm.reader
    <3>1. CASE tm.reader = Nobody
      <4>1. q = <<>>
        BY <3>1 DEF One
      <4> QED
        BY <3>1, <4>1, EmptyQueue, TaskNames
    <3>2. CASE tm.reader \in Tasks
      <4>1. q = <<tm.reader>>
        BY <3>2, TaskNames DEF One
      <4> HIDE DEF q
      <4>2. q \in Seq(Tasks) /\ Len(q) = 1 /\ q[1] = tm.reader
        BY <3>2, <4>1
      <4>3. 1..Len(q) = {1}
        BY <4>2
      <4> QED
        BY <4>2, <4>3 DEF Distinct, InQueue
    <3> QED
      BY <2>2, <3>1, <3>2
  <2>4. /\ Len(L) = 3 /\ 1..Len(L) = {1, 2, 3}
        /\ L[1] = q /\ L[2] = tm.rendez /\ L[3] = tm.away
    OBVIOUS
  <2> HIDE DEF L, q
  <2>5. \A i \in 1..Len(L) : L[i] \in Seq(Tasks) /\ Distinct(L[i], Tasks)
    BY <2>2, <2>3, <2>4
  <2>6. \A i \in 1..Len(L) : \A t : t \in SetOf(L[i]) <=> InQueue(t, L[i])
    BY <2>5, ListOf
  <2>7. \A t \in Tasks : t \in W <=> \E i \in 1..Len(L) : t \in SetOf(L[i])
    BY <2>3, <2>4, <2>6 DEF TimerWaiting
  <2>8. ASSUME NEW t \in Tasks, NEW i \in 1..Len(L), NEW j \in 1..Len(L),
               t \in SetOf(L[i]), t \in SetOf(L[j])
        PROVE  i = j
    <3>1. InQueue(t, L[i]) /\ InQueue(t, L[j])
      BY <2>6, <2>8
    <3> QED
      BY <2>2, <2>3, <2>4, <3>1
  <2>9. WaitIn(L, W)
    BY <2>5, <2>7, <2>8 DEF WaitIn
  <2> HIDE DEF W
  <2>10. OnePlace(L) /\ Counted
    BY <2>2, <2>9, InPlaces
  <2> QED
    BY <2>1, <2>10
<1> QED
  BY <1>1, TimersInvariance, PTL

(* Who waits for the timer waits for an armed one. *)
THEOREM TimerWaitersBlocked == Spec => [](prog = "timer" => WaitersBlocked)
<1>1. TimersInv => (prog = "timer" => WaitersBlocked)
  <2> SUFFICES ASSUME TimersInv, prog = "timer", On(sch), tm.rendez # <<>>, ~tm.ticks
               PROVE  tm.armed # "off" \/ tm.unset \/ tm.closed \/ tm.cbfn = "sleeps"
    BY DEF WaitersBlocked, TimerWillRing
  <2>1. CASE Fresh(sch, tm)
    <3>1. tm.rendez = <<>>
      <4>1. PICK cb : tm = NewTimer(cb)
        BY <2>1 DEF Fresh
      <4> QED
        BY <4>1 DEF NewTimer
    <3> QED
      BY <3>1
  <2>2. CASE InUse(sch, tm)
    <3>1. tm \in TimerRec /\ Set(tm)
      BY <2>2 DEF InUse, Timers
    <3>2. tm.cbfn \in {"quick", "sleeps"}
      BY <3>1, TimerFields
    <3> QED
      BY <3>1, <3>2 DEF Set
  <2> QED
    BY <2>1, <2>2 DEF TimersInv, InTimer
<1> QED
  BY <1>1, TimersInvariance, PTL

(* The asserts of the timer hold, but for the causes named. *)
THEOREM TimerAbortsExplained == Spec => [](prog = "timer" => AbortsExplained)
<1>1. TimersInv => (prog = "timer" => AbortsExplained)
  BY DEF TimersInv, InTimer, Explained, AbortsExplained, TimerAborts
<1> QED
  BY <1>1, TimersInvariance, PTL
=============================================================================
