----------------------------- MODULE KRpcProofs -----------------------------
(***************************************************************************)
(* Proofs about KRpc for any number of commands, worlds and buffers: no    *)
(* message is put back while its sender reads it, the buffers of both      *)
(* pools are accounted for, the pools' sizes go together, and no assert    *)
(* fails unless the connection is lost or an initialisation fails.         *)
(***************************************************************************)
EXTENDS KRpc, Counting, FiniteSetTheorems, TLAPS

(***************************************************************************)
(* Counts and queues.                                                      *)
(***************************************************************************)

(* The size of a subset of a finite set is a natural number. *)
LEMMA SubsetCount ==
  ASSUME NEW S, IsFiniteSet(S), NEW T \in SUBSET S
  PROVE  IsFiniteSet(T) /\ Cardinality(T) \in Nat
BY FS_Subset, FS_CardinalityType

(* A step that changes the membership of one element only changes the size *)
(* by as much.                                                             *)
LEMMA CountStep ==
  ASSUME NEW S, IsFiniteSet(S), NEW T \in SUBSET S, NEW U \in SUBSET S, NEW x \in S,
         \A y \in S : y # x => (y \in T <=> y \in U)
  PROVE  /\ Cardinality(T) \in Nat /\ Cardinality(U) \in Nat
         /\ Cardinality(U) = Cardinality(T) + (IF x \in U THEN 1 ELSE 0)
                                           - (IF x \in T THEN 1 ELSE 0)
         /\ x \in T => Cardinality(T) >= 1
         /\ x \in U => Cardinality(U) >= 1
<1>1. /\ IsFiniteSet(T) /\ Cardinality(T) \in Nat
      /\ IsFiniteSet(U) /\ Cardinality(U) \in Nat
  BY SubsetCount
<1>2. T \ {x} = U \ {x}
  OBVIOUS
<1>3. Cardinality(T \ {x}) = IF x \in T THEN Cardinality(T)-1 ELSE Cardinality(T)
  BY <1>1, FS_RemoveElement
<1>4. Cardinality(U \ {x}) = IF x \in U THEN Cardinality(U)-1 ELSE Cardinality(U)
  BY <1>1, FS_RemoveElement
<1>5. Cardinality(T \ {x}) \in Nat
  BY <1>1, FS_RemoveElement, FS_CardinalityType
<1> QED
  BY <1>1, <1>2, <1>3, <1>4, <1>5

(* That is how it changes. *)
LEMMA CountMove ==
  ASSUME NEW S, IsFiniteSet(S), NEW T \in SUBSET S, NEW U \in SUBSET S, NEW x \in S,
         \A y \in S : y # x => (y \in T <=> y \in U)
  PROVE  Moved(x, T, U)
<1>1. /\ Cardinality(T) \in Nat /\ Cardinality(U) \in Nat
      /\ Cardinality(U) = Cardinality(T) + (IF x \in U THEN 1 ELSE 0)
                                           - (IF x \in T THEN 1 ELSE 0)
      /\ x \in T => Cardinality(T) >= 1
  BY CountStep
<1>2. CASE x \in U /\ x \in T
  BY <1>1, <1>2 DEF Moved
<1>3. CASE x \in U /\ x \notin T
  BY <1>1, <1>3 DEF Moved
<1>4. CASE x \notin U /\ x \in T
  BY <1>1, <1>4 DEF Moved
<1>5. CASE x \notin U /\ x \notin T
  BY <1>1, <1>5 DEF Moved
<1> QED
  BY <1>2, <1>3, <1>4, <1>5

(* A subset is taken out of a set. *)
LEMMA CountWithout ==
  ASSUME NEW S, IsFiniteSet(S), NEW T \in SUBSET S, NEW A \in SUBSET T
  PROVE  /\ Cardinality(T) \in Nat /\ Cardinality(A) \in Nat
         /\ Cardinality(T \ A) = Cardinality(T) - Cardinality(A)
         /\ Cardinality(A) <= Cardinality(T)
<1>1. IsFiniteSet(T) /\ Cardinality(T) \in Nat /\ Cardinality(A) \in Nat
  BY SubsetCount
<1>2. T \cap A = A
  OBVIOUS
<1>3. Cardinality(T \ A) = Cardinality(T) - Cardinality(T \cap A)
  BY <1>1, FS_Difference
<1>4. Cardinality(A) <= Cardinality(T)
  BY <1>1, FS_Subset
<1> QED
  BY ONLY <1>1, <1>2, <1>3, <1>4

(* What is in a queue after an entry is added. *)
LEMMA AppendTo ==
  ASSUME NEW S, NEW q \in Seq(S), NEW x \in S, NEW T
  PROVE  /\ Append(q, x) \in Seq(S) /\ Len(Append(q, x)) = Len(q) + 1
         /\ \A y : InQueue(y, Append(q, x)) <=> InQueue(y, q) \/ y = x
         /\ Distinct(q, T) /\ ~InQueue(x, q) => Distinct(Append(q, x), T)
         /\ Distinct(q, T) /\ x \notin T => Distinct(Append(q, x), T)
<1>1. /\ Append(q, x) \in Seq(S) /\ Len(q) \in Nat /\ Len(Append(q, x)) = Len(q) + 1
      /\ \A i \in 1..Len(q) : Append(q, x)[i] = q[i]
      /\ Append(q, x)[Len(q) + 1] = x
  OBVIOUS
<1>2. \A i : i \in 1..Len(Append(q, x)) <=> i \in 1..Len(q) \/ i = Len(q) + 1
  BY <1>1
<1>3. \A y : InQueue(y, Append(q, x)) <=> InQueue(y, q) \/ y = x
  BY <1>1, <1>2 DEF InQueue
<1>4. Distinct(q, T) /\ (~InQueue(x, q) \/ x \notin T) => Distinct(Append(q, x), T)
  BY <1>1, <1>2 DEF Distinct, InQueue
<1> QED
  BY <1>1, <1>3, <1>4

(* What is in a queue before and after its first entry is taken. *)
LEMMA TailOf ==
  ASSUME NEW S, NEW q \in Seq(S), q # <<>>, NEW T
  PROVE  /\ Head(q) \in S /\ Tail(q) \in Seq(S)
         /\ Len(q) \in Nat /\ Len(q) >= 1 /\ Len(Tail(q)) = Len(q) - 1
         /\ \A y : InQueue(y, q) <=> y = Head(q) \/ InQueue(y, Tail(q))
         /\ Distinct(q, T) => /\ Distinct(Tail(q), T)
                              /\ Head(q) \in T => ~InQueue(Head(q), Tail(q))
<1>1. /\ Head(q) \in S /\ Tail(q) \in Seq(S) /\ Len(q) \in Nat /\ Len(q) >= 1
      /\ Len(Tail(q)) = Len(q) - 1 /\ Head(q) = q[1]
      /\ \A i \in 1..(Len(q) - 1) : Tail(q)[i] = q[i + 1]
  OBVIOUS
<1>2. \A i \in 1..Len(q) : i = 1 \/ (i - 1 \in 1..(Len(q) - 1) /\ Tail(q)[i - 1] = q[i])
  BY <1>1
<1>3. \A y : InQueue(y, q) <=> y = Head(q) \/ InQueue(y, Tail(q))
  <2> TAKE y
  <2>1. InQueue(y, q) => y = Head(q) \/ InQueue(y, Tail(q))
    BY <1>1, <1>2 DEF InQueue
  <2>2. InQueue(y, Tail(q)) => InQueue(y, q)
    <3>1. \A i \in 1..(Len(q) - 1) : i + 1 \in 1..Len(q)
      BY <1>1
    <3> QED
      BY <1>1, <3>1 DEF InQueue
  <2>3. InQueue(Head(q), q)
    BY <1>1 DEF InQueue
  <2> QED
    BY <2>1, <2>2, <2>3
<1>4. \A i \in 1..(Len(q) - 1) : i + 1 \in 1..Len(q) /\ i + 1 # 1
  BY <1>1
<1>5. 1 \in 1..Len(q)
  BY <1>1
<1>6. Distinct(q, T) => Distinct(Tail(q), T)
  <2> SUFFICES ASSUME Distinct(q, T), NEW i \in 1..Len(Tail(q)), NEW j \in 1..Len(Tail(q)),
                      Tail(q)[i] = Tail(q)[j], Tail(q)[i] \in T
               PROVE  i = j
    BY DEF Distinct
  <2>1. i + 1 = j + 1
    BY <1>1, <1>4 DEF Distinct
  <2> QED
    BY <2>1
<1>7. Distinct(q, T) /\ Head(q) \in T => ~InQueue(Head(q), Tail(q))
  BY <1>1, <1>4, <1>5 DEF Distinct, InQueue
<1> QED
  BY <1>1, <1>3, <1>6, <1>7

(* The places of q where there is a member of T. *)
PlacesOf(T, q) == {i \in 1..Len(q) : q[i] \in T}

(* Nothing is in an empty queue. *)
LEMMA EmptyQueue ==
  /\ \A y : ~InQueue(y, <<>>)
  /\ \A T : Distinct(<<>>, T) /\ PlacesOf(T, <<>>) = {}
BY DEF InQueue, Distinct, PlacesOf

(* How many entries are members of T after an entry is added. *)
LEMMA PlacesAppend ==
  ASSUME NEW S, NEW q \in Seq(S), NEW x \in S, NEW T
  PROVE  /\ Cardinality(PlacesOf(T, q)) \in Nat
         /\ Cardinality(PlacesOf(T, Append(q, x)))
              = Cardinality(PlacesOf(T, q)) + (IF x \in T THEN 1 ELSE 0)
<1> DEFINE n == Len(q) + 1
<1>1. /\ Len(q) \in Nat /\ Len(Append(q, x)) = n
      /\ \A i \in 1..Len(q) : Append(q, x)[i] = q[i]
      /\ Append(q, x)[n] = x
  OBVIOUS
<1>2. /\ PlacesOf(T, q) \in SUBSET (1..n) /\ PlacesOf(T, Append(q, x)) \in SUBSET (1..n)
      /\ n \in 1..n /\ n \notin PlacesOf(T, q)
      /\ n \in PlacesOf(T, Append(q, x)) <=> x \in T
      /\ \A i \in 1..n : i # n => (i \in PlacesOf(T, q) <=> i \in PlacesOf(T, Append(q, x)))
  BY <1>1 DEF PlacesOf
<1>3. IsFiniteSet(1..n)
  BY <1>1, FS_Interval
<1> HIDE DEF n
<1>4. /\ Cardinality(PlacesOf(T, q)) \in Nat
      /\ Cardinality(PlacesOf(T, Append(q, x))) = Cardinality(PlacesOf(T, q))
           + (IF n \in PlacesOf(T, Append(q, x)) THEN 1 ELSE 0)
           - (IF n \in PlacesOf(T, q) THEN 1 ELSE 0)
  BY <1>2, <1>3, CountStep
<1> QED
  BY <1>2, <1>4

(* How many entries are members of T after the first is taken. *)
LEMMA PlacesTail ==
  ASSUME NEW S, NEW q \in Seq(S), q # <<>>, NEW T
  PROVE  /\ Cardinality(PlacesOf(T, q)) \in Nat /\ Cardinality(PlacesOf(T, Tail(q))) \in Nat
         /\ Cardinality(PlacesOf(T, q))
              = Cardinality(PlacesOf(T, Tail(q))) + (IF Head(q) \in T THEN 1 ELSE 0)
<1> DEFINE A == PlacesOf(T, Tail(q))
           B == PlacesOf(T, q) \ {1}
           f == [i \in A |-> i + 1]
<1>1. /\ Len(q) \in Nat /\ Len(q) >= 1 /\ Len(Tail(q)) = Len(q) - 1 /\ Head(q) = q[1]
      /\ \A i \in 1..(Len(q) - 1) : Tail(q)[i] = q[i + 1]
  OBVIOUS
<1>2. IsFiniteSet(1..Len(q)) /\ IsFiniteSet(1..(Len(q) - 1))
  BY <1>1, FS_Interval
<1>3. /\ PlacesOf(T, q) \in SUBSET (1..Len(q))
      /\ A \in SUBSET (1..(Len(q) - 1))
      /\ 1 \in PlacesOf(T, q) <=> Head(q) \in T
  BY <1>1 DEF PlacesOf
<1>4. /\ IsFiniteSet(PlacesOf(T, q)) /\ Cardinality(PlacesOf(T, q)) \in Nat
      /\ IsFiniteSet(A) /\ Cardinality(A) \in Nat
  BY <1>2, <1>3, SubsetCount
<1>5. Cardinality(B) = IF 1 \in PlacesOf(T, q) THEN Cardinality(PlacesOf(T, q)) - 1
                       ELSE Cardinality(PlacesOf(T, q))
  BY <1>4, FS_RemoveElement
<1>6. f \in Bijection(A, B)
  <2>1. \A i \in A : i \in Nat /\ i + 1 \in B
    BY <1>1 DEF PlacesOf
  <2>2. \A j \in B : j - 1 \in A /\ (j - 1) + 1 = j
    BY <1>1 DEF PlacesOf
  <2>3. f \in [A -> B]
    BY <2>1
  <2>4. f \in Injection(A, B)
    BY <2>1, <2>3 DEF Injection, IsInjective
  <2>5. f \in Surjection(A, B)
    <3>1. \A j \in B : \E i \in A : f[i] = j
      BY <2>2
    <3> QED
      BY <2>3, <3>1 DEF Surjection
  <2> QED
    BY <2>4, <2>5 DEF Bijection
<1>7. ExistsBijection(A, B)
  BY <1>6 DEF ExistsBijection
<1>8. Cardinality(B) = Cardinality(A)
  BY <1>4, <1>7, FS_Bijection
<1> HIDE DEF A, B, f
<1>9. Cardinality(PlacesOf(T, q)) = Cardinality(A) + (IF Head(q) \in T THEN 1 ELSE 0)
  BY <1>3, <1>4, <1>5, <1>8
<1> QED
  BY <1>4, <1>9 DEF A

(* A function does not have more values than arguments. *)
LEMMA CountImage ==
  ASSUME NEW S, IsFiniteSet(S), NEW T, NEW f,
         \A t \in T : \E s \in S : f[s] = t
  PROVE  IsFiniteSet(T) /\ Cardinality(T) <= Cardinality(S)
<1> DEFINE V == {f[s] : s \in S}
           g == [s \in S |-> f[s]]
<1>1. g \in Surjection(S, V)
  BY DEF Surjection
<1>2. IsFiniteSet(V) /\ Cardinality(V) <= Cardinality(S)
  BY <1>1, FS_Surjection
<1>3. T \in SUBSET V
  OBVIOUS
<1>4. IsFiniteSet(T) /\ Cardinality(T) <= Cardinality(V)
  BY <1>2, <1>3, FS_Subset
<1>5. Cardinality(T) \in Nat /\ Cardinality(V) \in Nat /\ Cardinality(S) \in Nat
  BY <1>2, <1>4, FS_CardinalityType
<1> QED
  BY <1>2, <1>4, <1>5

(* Where a sender is before, and after, it has taken the lock. *)
Early  == {"msg", "msgwait", "payload", "enabled", "lock", "error"}
Locked == {"hdr", "body", "unlock", "close", "closing", "closed"}
Closing == {"close", "closing", "closed"}

(* The places of main while the receiver runs. *)
Running == {"loaded", "closing", "join"}

(* The fragments of requests and responses. *)
Fragment == Cmd \X {"hdr", "body"}

(***************************************************************************)
(* The stations of a request and its response after the sender: on the way *)
(* to the server, in the server or on the way back, received, in the list  *)
(* of works, with a handler before and after the table is searched.        *)
(***************************************************************************)
Asked(c)  == InQueue(<<c, "hdr">>, out) \/ InQueue(<<c, "body">>, out) \/ srvIn = c
Served(c) == \/ c \in srv \/ InQueue(<<c, "hdr">>, in) \/ InQueue(<<c, "body">>, in)
             \/ rm = c /\ recv \in {"payload", "body"}
Arrived(c) == rm = c /\ recv = "work"
Listed(c)  == InQueue(c, work_list["recv"])
Handled(c) == \E w \in RecvWorker : pc[w] = "handle" /\ data[w] = c
Responding(c) == \E w \in RecvWorker : pc[w] = "resp" /\ data[w] = c

(* The server has or will get all of the request c. *)
Answered(c) == Served(c) \/ Arrived(c) \/ Listed(c) \/ Handled(c)
Complete(c) == \/ isRead[c] /\ InQueue(<<c, "hdr">>, out)
               \/ InQueue(<<c, "body">>, out)
               \/ Answered(c)

(* A command that no sender has brought to the table yet. *)
Fresh(c) == \/ cmd[c] = "new" \/ InQueue(c, work_list["send"])
            \/ \E w \in SendWorker : pc[w] \in Early /\ data[w] = c

(* The causes of a crash, and "no". *)
Cause == {"no", "init", "pool", "socket", "payload", "orphan", "stale", "table", "works",
          "copy"}

(* The types of all variables, in groups that go together. *)
TypeBuf == bp \in [BufPool -> BufPoolType]
TypeCmd ==
  /\ cmd \in [Cmd -> {"new", "queued", "done", "failed"}] /\ isRead \in [Cmd -> BOOLEAN]
TypeChan ==
  /\ hash \in SUBSET Cmd /\ lock \in SendWorker \cup {NoWork} /\ enabled \in BOOLEAN
TypeSrv ==
  /\ srv \in SUBSET Cmd /\ srvIn \in Cmd \cup {NoCmd} /\ srvOut \in Cmd \cup {NoCmd}
TypeNet == out \in Seq(Fragment) /\ in \in Seq(Fragment) /\ up \in BOOLEAN
TypeRecv ==
  /\ recv \in {"none", "get", "getwait", "hdr", "payload", "body", "work", "wake", "exit"}
  /\ rm \in Cmd \cup {NoCmd, CLOSED}
TypeEnd == faults \in SUBSET FaultKind /\ crash \in Cause
TypeWork ==
  /\ pc \in [Worker -> {"none", "handle", "resp"} \cup Early \cup Locked]
  /\ data \in [Worker -> Cmd \cup {NoWork, CLOSED}]
TypePool ==
  /\ world \in [Worker -> {"none", "look", "asleep", "work", "exit"}]
  /\ state \in [Pool -> {"UNINITIALIZED", "INITIALIZED", "SHUTTING"}]
  /\ active \in [Pool -> Nat] /\ wakeups \in [Pool -> Nat]
TypeList ==
  /\ DOMAIN work_list = Pool /\ work_list = [p \in Pool |-> work_list[p]]
  /\ work_list["send"] \in Seq(Cmd) /\ work_list["recv"] \in Seq(Cmd \cup {CLOSED})

Types ==
  /\ TypeBuf /\ TypeCmd /\ TypeChan /\ TypeSrv /\ TypeNet /\ TypeRecv /\ TypeEnd
  /\ TypeWork /\ TypePool /\ TypeList

(* What the workers do. *)
Workers ==
  /\ \A w \in Worker : pc[w] # "none" => world[w] = "work"
  /\ \A w \in SendWorker :
       /\ pc[w] \in {"none"} \cup Early \cup Locked
       /\ pc[w] # "none" => data[w] \in Cmd /\ cmd[data[w]] = "queued"
       /\ pc[w] \in {"payload", "body"} => ~isRead[data[w]]
  /\ \A w \in RecvWorker :
       /\ pc[w] \in {"none", "handle", "resp"} \cup Closing
       /\ pc[w] = "handle" => data[w] \in Cmd \cup {CLOSED}
       /\ pc[w] = "resp" => data[w] \in Cmd
       /\ pc[w] \in Closing => data[w] = CLOSED

(* A command is queued once, and sent by one worker. *)
SendersApart ==
  /\ \A c \in Cmd : InQueue(c, work_list["send"]) => cmd[c] = "queued"
  /\ Distinct(work_list["send"], Cmd)
  /\ \A w \in SendWorker : pc[w] # "none" => ~InQueue(data[w], work_list["send"])
  /\ \A w, v \in SendWorker :
       pc[w] # "none" /\ pc[v] # "none" /\ data[w] = data[v] => w = v

LockHeld ==
  \A w \in SendWorker : /\ lock = w <=> pc[w] \in Locked
                        /\ pc[w] \in Locked => data[w] \in hash

(* What is not, or not wholly, sent has no response. *)
FreshUnsent ==
  /\ \A c \in Cmd : Fresh(c) => c \notin hash /\ ~Asked(c) /\ ~Responding(c)
  /\ \A w \in SendWorker :
       /\ pc[w] \in Locked \ {"unlock"} => ~Complete(data[w])
       /\ pc[w] = "hdr" => ~Asked(data[w])

(* A request that will be answered is in the table until it is. *)
InTable ==
  /\ \A c \in Cmd : Complete(c) => c \in hash /\ cmd[c] = "queued"
  /\ \A c \in Cmd : Responding(c) => c \notin hash /\ cmd[c] = "queued"
  /\ \A c \in hash : cmd[c] \in {"queued", "failed"}

(* A request or response is at one station at a time ... *)
Exclusive ==
  \A c \in Cmd :
    /\ Served(c)  => ~Asked(c)
    /\ Arrived(c) => ~Asked(c) /\ ~Served(c)
    /\ Listed(c)  => ~Asked(c) /\ ~Served(c) /\ ~Arrived(c)
    /\ Handled(c) => ~Asked(c) /\ ~Served(c) /\ ~Arrived(c) /\ ~Listed(c)
    /\ Responding(c) => ~Asked(c)

(* ... once, ... *)
Once ==
  /\ Distinct(out, Fragment) /\ Distinct(in, Fragment) /\ Distinct(work_list["recv"], Cmd)
  /\ \A w, v \in RecvWorker :
       /\ pc[w] \in {"handle", "resp"} /\ pc[v] \in {"handle", "resp"}
       /\ data[w] = data[v] /\ data[w] # CLOSED
       => w = v

(* ... and its parts follow one another. *)
Parts ==
  /\ \A c \in Cmd :
       /\ srvIn = c => ~isRead[c] /\ ~InQueue(<<c, "hdr">>, out)
       /\ InQueue(<<c, "body">>, out) => ~isRead[c]
       /\ InQueue(<<c, "body">>, in) => isRead[c] /\ c \notin srv
       /\ srvOut = c => c \in srv /\ isRead[c]
       /\ c \in srv /\ srvOut # c =>
            ~InQueue(<<c, "hdr">>, in) /\ ~(rm = c /\ recv \in {"payload", "body"})
       /\ rm = c /\ recv \in {"payload", "body"} => ~InQueue(<<c, "hdr">>, in)
  /\ recv \in {"payload", "body"} => rm \in Cmd /\ isRead[rm]
  /\ recv = "work" => rm \in Cmd \cup {CLOSED}
  /\ recv = "wake" => rm \in Cmd \cup {CLOSED}

(* How init_cachebox and deinit_cachebox go along with the others. *)
Lifecycle ==
  /\ main \in Boot => /\ recv = "none" /\ work_list["recv"] = <<>>
                      /\ \A c \in Cmd : cmd[c] = "new"
                      /\ \A w \in Worker : pc[w] = "none"
  /\ main \notin Boot \cup {"loaded"} => \A c \in Cmd : cmd[c] # "queued"
  /\ main \in {"ploadpool", "tp", "recv_thread"} \cup Running
       => bp["msg"].state = "INITIALIZED"
  /\ main \in {"tp", "recv_thread"} \cup Running => bp["payload"].state = "INITIALIZED"
  /\ recv \notin {"none", "exit"} => main \in Running

(* The connection is lost by a fault only, or closed by the unload. *)
Connection ==
  /\ "link" \notin faults =>
       /\ main \in {"hash_init", "msgpool", "ploadpool", "tp", "recv_thread", "loaded",
                    "closing"} => up /\ sock = "open"
       /\ enabled => up /\ sock = "open"
       /\ \A c \in hash : cmd[c] = "queued"
       /\ \A w \in Worker : pc[w] # "closing"
  /\ \/ \E w \in Worker : pc[w] \in Closing \/ (pc[w] # "none" /\ data[w] = CLOSED)
     \/ InQueue(CLOSED, work_list["recv"]) \/ (recv = "work" /\ rm = CLOSED)
     => ~up
  /\ up => \A c \in Cmd : Asked(c) => c \in hash /\ cmd[c] = "queued"

ThreadPools ==
  \A p \in Pool :
    /\ active[p] = Cardinality({w \in Team(p) : world[w] \notin {"none", "exit"}})
    /\ state[p] = "UNINITIALIZED" => \A w \in Team(p) : world[w] = "none"
    /\ \A w \in Team(p) : world[w] = "exit" => state[p] = "SHUTTING" /\ work_list[p] = <<>>
    /\ state[p] = "SHUTTING" => main \notin Boot \cup {"loaded"}
    /\ p = "recv" /\ state[p] = "SHUTTING" => main \notin Running

(* A pool with free buffers is not larger than it was made. *)
Pools ==
  /\ \A p \in BufPool : bp[p].freelist > 0 => bp[p].owned <= nbufs[p]
  /\ Works("recv") <= WorkMax
  /\ Cardinality(srv) + One(srvIn # NoCmd) + 1 <= SrvMax

IInv ==
  /\ Types /\ Workers /\ SendersApart /\ LockHeld /\ FreshUnsent /\ InTable /\ Exclusive
  /\ Once /\ Parts /\ Lifecycle /\ Connection /\ ThreadPools /\ Pools
  /\ BuffersAccounted
-----------------------------------------------------------------------------
USE NameAssumption
USE DEF cmdVars, chanVars, netVars, recvVars, srvVars, endVars, tpVars

(* The parts of the counts of messages and payloads. *)
SendingWrites == {w \in Sending : ~isRead[data[w]] /\ pc[w] # "payload"}
PendingWrites == {c \in Pending : ~isRead[c]}
ListedReads   == {i \in Received : isRead[work_list["recv"][i]]}
HandledReads  == {w \in At("handle") : data[w] # CLOSED /\ isRead[data[w]]}

NSend    == Cardinality(Sending)
NPend    == Cardinality(Pending)
NList    == Len(work_list["recv"])
NHandle  == Cardinality(At("handle"))
NResp    == Cardinality(At("resp"))
NSendW   == Cardinality(SendingWrites)
NPendW   == Cardinality(PendingWrites)
NListR   == Cardinality(ListedReads)
NHandleR == Cardinality(HandledReads)

(* A pool with its counts in order. *)
Sound(b, p) ==
  /\ b.owned = b.freelist + b.issued /\ b.owned <= nmax[p]
  /\ b.freelist > 0 => b.owned <= nbufs[p]

BuffersSound == \A p \in BufPool : Sound(bp[p], p)
MsgsAccounted == bp["msg"].issued = MsgsHeld
PayloadsAccounted == bp["payload"].issued = PayloadsHeld
WorksBounded == Works("recv") <= WorkMax
ServerBounded == Cardinality(srv) + One(srvIn # NoCmd) + 1 <= SrvMax

(* The teams of the two thread pools. *)
LEMMA Teams ==
  /\ Team("send") = SendWorker /\ Team("recv") = RecvWorker
  /\ IsFiniteSet(SendWorker) /\ IsFiniteSet(RecvWorker)
  /\ \A w \in SendWorker : w \in Worker /\ PoolOf(w) = "send"
  /\ \A w \in RecvWorker : w \in Worker /\ PoolOf(w) = "recv" /\ w \notin SendWorker
<1>1. /\ Team("send") = SendWorker /\ Team("recv") = RecvWorker
      /\ \A w \in SendWorker : w \in Worker /\ PoolOf(w) = "send"
      /\ \A w \in RecvWorker : w \in Worker /\ PoolOf(w) = "recv" /\ w \notin SendWorker
  BY WorkerAssumption DEF Team, PoolOf, Worker
<1> QED
  BY <1>1, FS_Subset, WorkerAssumption DEF Worker

(* The last part of the invariant in terms of its parts. *)
LEMMA PartsOfPools ==
  /\ Pools /\ BuffersAccounted
       <=> /\ BuffersSound /\ MsgsAccounted /\ PayloadsAccounted
           /\ WorksBounded /\ ServerBounded
  /\ (Pools /\ BuffersAccounted)'
       <=> (BuffersSound /\ MsgsAccounted /\ PayloadsAccounted /\ WorksBounded
            /\ ServerBounded)'
BY DEF Pools, BuffersAccounted, BuffersSound, Sound, MsgsAccounted, PayloadsAccounted,
       WorksBounded, ServerBounded

(* bufpool_put keeps a pool's counts in order. *)
LEMMA PutSound ==
  ASSUME NEW p \in BufPool, NEW b \in BufPoolType, Sound(b, p), b.issued >= 1
  PROVE  /\ bufpool_put(b, p) \in BufPoolType /\ Sound(bufpool_put(b, p), p)
         /\ bufpool_put(b, p).issued = b.issued - 1
         /\ bufpool_put(b, p).state = b.state
<1> DEFINE c == bufpool_put(b, p)
<1>1. /\ b.freelist \in Nat /\ b.owned \in Nat /\ b.issued \in Nat
      /\ nmax[p] \in Nat /\ nbufs[p] \in Nat
  BY PoolAssumption DEF BufPoolType, nmax, nbufs, BufPool
<1>2. /\ c.issued = b.issued - 1 /\ c.state = b.state
      /\ c.freelist = IF b.owned <= nbufs[p] THEN b.freelist + 1 ELSE b.freelist
      /\ c.owned = IF b.owned <= nbufs[p] THEN b.owned ELSE b.owned - 1
  BY DEF bufpool_put, BufPoolType
<1>3. /\ c.issued \in Nat /\ c.freelist \in Nat /\ c.owned \in Nat
      /\ c.owned = c.freelist + c.issued /\ c.owned <= nmax[p]
      /\ c.freelist > 0 => c.owned <= nbufs[p]
  BY <1>1, <1>2 DEF Sound
<1>4. c \in BufPoolType
  BY <1>1, <1>3 DEF bufpool_put, BufPoolType
<1> QED
  BY <1>2, <1>3, <1>4 DEF Sound

(* ... and so does a successful _bufpool_get. *)
LEMMA GetSound ==
  ASSUME TypeBuf, BuffersSound, NEW p \in BufPool, NEW r, _bufpool_get(p, r)
  PROVE  /\ TypeBuf' /\ BuffersSound'
         /\ bp'[p].issued = bp[p].issued + 1
         /\ \A q \in BufPool : q # p => bp'[q] = bp[q]
         /\ \A q \in BufPool : bp'[q].state = bp[q].state
<1> DEFINE b == bp[p]
<1>1. b \in BufPoolType
  BY DEF TypeBuf
<1> HIDE DEF b
<1>2. /\ b.freelist \in Nat /\ b.owned \in Nat /\ b.issued \in Nat
      /\ nmax[p] \in Nat /\ nbufs[p] \in Nat
  BY <1>1, PoolAssumption DEF BufPoolType, nmax, nbufs, BufPool
<1>0. Sound(b, p)
  BY DEF BuffersSound, b
<1>3. CASE Reuse(p)
  <2> DEFINE n == [b EXCEPT !.freelist = b.freelist - 1, !.issued = b.issued + 1]
  <2>1. bp' = [bp EXCEPT ![p] = n] /\ b.freelist > 0
    BY <1>3 DEF TypeBuf, Reuse, b
  <2>2. /\ n \in BufPoolType /\ n.issued = b.issued + 1
        /\ n.freelist = b.freelist - 1 /\ n.owned = b.owned /\ n.state = b.state
    <3>1. b.freelist - 1 \in Nat /\ b.issued + 1 \in Nat
      BY <1>2, <2>1
    <3> QED
      BY <1>1, <3>1 DEF BufPoolType
  <2> HIDE DEF n
  <2>3. Sound(n, p)
    BY <1>0, <1>2, <2>1, <2>2 DEF Sound
  <2> QED
    BY <2>1, <2>2, <2>3 DEF TypeBuf, BuffersSound, b
<1>4. CASE bp[p].freelist = 0 /\ Grows(p, r) /\ Malloc(p)
  <2> DEFINE m == [b EXCEPT !.owned = b.owned + 1, !.issued = b.issued + 1]
  <2>1. bp' = [bp EXCEPT ![p] = m] /\ b.freelist = 0
    BY <1>4 DEF TypeBuf, Malloc, b
  <2>2. b.owned < nmax[p]
    BY <1>2, <1>4, PoolAssumption DEF Grows, b
  <2>3. /\ m \in BufPoolType /\ m.issued = b.issued + 1
        /\ m.freelist = b.freelist /\ m.owned = b.owned + 1 /\ m.state = b.state
    <3>1. b.owned + 1 \in Nat /\ b.issued + 1 \in Nat
      BY <1>2
    <3> QED
      BY <1>1, <3>1 DEF BufPoolType
  <2> HIDE DEF m
  <2>4. Sound(m, p)
    BY <1>0, <1>2, <2>1, <2>2, <2>3 DEF Sound
  <2> QED
    BY <2>1, <2>3, <2>4 DEF TypeBuf, BuffersSound, b
<1> QED
  BY <1>3, <1>4 DEF _bufpool_get

(* A part of the invariant is not disturbed by a step that leaves the      *)
(* variables it is about alone.                                            *)
LEMMA Unaffected ==
  /\ Workers /\ UNCHANGED <<pc, world, data, cmd, isRead>> => Workers'
  /\ SendersApart /\ UNCHANGED <<work_list, cmd, pc, data>> => SendersApart'
  /\ LockHeld /\ UNCHANGED <<lock, hash, pc, data>> => LockHeld'
  /\ FreshUnsent /\ UNCHANGED <<cmdVars, work_list, pc, data, hash, out, in, srv, srvIn,
                                recvVars>> => FreshUnsent'
  /\ InTable /\ UNCHANGED <<cmdVars, work_list, pc, data, hash, out, in, srv, srvIn,
                            recvVars>> => InTable'
  /\ Exclusive /\ UNCHANGED <<work_list, pc, data, out, in, srv, srvIn, recvVars>>
       => Exclusive'
  /\ Once /\ UNCHANGED <<out, in, work_list, pc, data>> => Once'
  /\ Parts /\ UNCHANGED <<isRead, srvVars, out, in, recvVars>> => Parts'
  /\ Lifecycle /\ UNCHANGED <<main, recv, work_list, cmd, pc, bp>> => Lifecycle'
  /\ Connection /\ UNCHANGED <<faults, main, up, sock, enabled, hash, cmd, pc, data,
                               work_list, recvVars, out, srvIn>> => Connection'
  /\ ThreadPools /\ UNCHANGED <<state, active, world, work_list, main>> => ThreadPools'
  /\ BuffersSound /\ UNCHANGED bp => BuffersSound'
  /\ WorksBounded /\ UNCHANGED <<work_list, world>> => WorksBounded'
  /\ ServerBounded /\ UNCHANGED <<srv, srvIn>> => ServerBounded'
<1>1. Workers /\ UNCHANGED <<pc, world, data, cmd, isRead>> => Workers'
  BY DEF Workers
<1>2. SendersApart /\ UNCHANGED <<work_list, cmd, pc, data>> => SendersApart'
  BY DEF SendersApart
<1>3. LockHeld /\ UNCHANGED <<lock, hash, pc, data>> => LockHeld'
  BY DEF LockHeld
<1>4. UNCHANGED <<out, in, srv, srvIn, work_list, pc, data, recvVars>>
        => \A c : /\ Asked(c)' = Asked(c) /\ Served(c)' = Served(c)
                  /\ Arrived(c)' = Arrived(c) /\ Listed(c)' = Listed(c)
                  /\ Handled(c)' = Handled(c) /\ Responding(c)' = Responding(c)
  BY DEF Asked, Served, Arrived, Listed, Handled, Responding
<1>5. UNCHANGED <<cmdVars, out, in, srv, srvIn, work_list, pc, data, recvVars>>
        => \A c : Complete(c)' = Complete(c) /\ Fresh(c)' = Fresh(c)
  BY <1>4 DEF Complete, Answered, Fresh
<1>6. FreshUnsent /\ UNCHANGED <<cmdVars, work_list, pc, data, hash, out, in, srv, srvIn,
                                 recvVars>> => FreshUnsent'
  BY <1>4, <1>5 DEF FreshUnsent
<1>7. InTable /\ UNCHANGED <<cmdVars, work_list, pc, data, hash, out, in, srv, srvIn,
                            recvVars>> => InTable'
  BY <1>4, <1>5 DEF InTable
<1>8. Exclusive /\ UNCHANGED <<work_list, pc, data, out, in, srv, srvIn, recvVars>>
        => Exclusive'
  BY <1>4 DEF Exclusive
<1>9. Once /\ UNCHANGED <<out, in, work_list, pc, data>> => Once'
  BY DEF Once
<1>10. Parts /\ UNCHANGED <<isRead, srvVars, out, in, recvVars>> => Parts'
  BY DEF Parts
<1>11. Lifecycle /\ UNCHANGED <<main, recv, work_list, cmd, pc, bp>> => Lifecycle'
  BY DEF Lifecycle
<1>12. Connection /\ UNCHANGED <<faults, main, up, sock, enabled, hash, cmd, pc, data,
                                 work_list, recvVars, out, srvIn>> => Connection'
  BY DEF Connection, Asked
<1>13. ThreadPools /\ UNCHANGED <<state, active, world, work_list, main>> => ThreadPools'
  BY DEF ThreadPools
<1>14. /\ BuffersSound /\ UNCHANGED bp => BuffersSound'
       /\ WorksBounded /\ UNCHANGED <<work_list, world>> => WorksBounded'
       /\ ServerBounded /\ UNCHANGED <<srv, srvIn>> => ServerBounded'
  BY DEF BuffersSound, WorksBounded, Works, ServerBounded
<1> QED
  BY <1>1, <1>2, <1>3, <1>6, <1>7, <1>8, <1>9, <1>10, <1>11, <1>12, <1>13, <1>14

(* So for the types ... *)
LEMMA TypesUnaffected ==
  /\ TypeBuf /\ UNCHANGED bp => TypeBuf'
  /\ TypeCmd /\ UNCHANGED cmdVars => TypeCmd'
  /\ TypeChan /\ UNCHANGED chanVars => TypeChan'
  /\ TypeSrv /\ UNCHANGED srvVars => TypeSrv'
  /\ TypeNet /\ UNCHANGED netVars => TypeNet'
  /\ TypeRecv /\ UNCHANGED recvVars => TypeRecv'
  /\ TypeEnd /\ UNCHANGED <<crash, faults>> => TypeEnd'
  /\ TypeWork /\ UNCHANGED <<pc, data>> => TypeWork'
  /\ TypePool /\ UNCHANGED <<world, state, active, wakeups>> => TypePool'
  /\ TypeList /\ UNCHANGED work_list => TypeList'
BY DEF TypeBuf, TypeCmd, TypeChan, TypeSrv, TypeNet, TypeRecv, TypeEnd, TypeWork, TypePool,
       TypeList

(* ... and for the counts. *)
LEMMA CountsUnaffected ==
  /\ UNCHANGED <<pc, data>> => Sending' = Sending /\ \A l : At(l)' = At(l)
  /\ UNCHANGED <<pc, data, hash, cmd>> => Pending' = Pending
  /\ UNCHANGED <<pc, data, isRead>> => /\ SendingWrites' = SendingWrites
                                       /\ HandledReads' = HandledReads
  /\ UNCHANGED <<pc, data, hash, cmd, isRead>> => PendingWrites' = PendingWrites
  /\ UNCHANGED <<work_list, isRead>> => ListedReads' = ListedReads
  /\ MsgsAccounted /\ UNCHANGED <<bp, pc, data, hash, cmd, work_list, recv>>
       => MsgsAccounted'
  /\ PayloadsAccounted /\ UNCHANGED <<bp, pc, data, hash, cmd, isRead, work_list, recv, rm>>
       => PayloadsAccounted'
<1> USE DEF Sending, Pending, SendingWrites, PendingWrites, ListedReads, HandledReads, At,
            Received, MsgsAccounted, PayloadsAccounted, MsgsHeld, PayloadsHeld
<1>1. UNCHANGED <<pc, data>> => Sending' = Sending /\ \A l : At(l)' = At(l)
  OBVIOUS
<1>2. UNCHANGED <<pc, data, hash, cmd>> => Pending' = Pending
  OBVIOUS
<1>3. /\ UNCHANGED <<pc, data, isRead>> => /\ SendingWrites' = SendingWrites
                                           /\ HandledReads' = HandledReads
      /\ UNCHANGED <<pc, data, hash, cmd, isRead>> => PendingWrites' = PendingWrites
      /\ UNCHANGED <<work_list, isRead>> => ListedReads' = ListedReads
  OBVIOUS
<1>4. MsgsAccounted /\ UNCHANGED <<bp, pc, data, hash, cmd, work_list, recv>>
        => MsgsAccounted'
  OBVIOUS
<1>5. PayloadsAccounted
        /\ UNCHANGED <<bp, pc, data, hash, cmd, isRead, work_list, recv, rm>>
        => PayloadsAccounted'
  OBVIOUS
<1> QED
  BY <1>1, <1>2, <1>3, <1>4, <1>5
-----------------------------------------------------------------------------
(* The initial state: nothing is initialised, and nothing is held. *)
LEMMA InitIInv == Init => IInv
<1> SUFFICES ASSUME Init PROVE IInv
  OBVIOUS
<1> USE DEF Init, TpInit
<1>1. /\ TypeBuf /\ TypeCmd /\ TypeChan /\ TypeSrv /\ TypeNet /\ TypeRecv /\ TypeEnd
      /\ TypeWork /\ TypePool /\ TypeList
  <2>1. TypeBuf
    BY DEF TypeBuf, BufPoolType, NoPool
  <2>2. TypeCmd /\ TypeChan /\ TypeSrv
    BY DEF TypeCmd, TypeChan, TypeSrv
  <2>3. TypeRecv /\ TypeEnd
    BY DEF TypeRecv, TypeEnd, Cause
  <2>6. TypeNet
    <3>1. out = <<>> /\ in = <<>> /\ up = FALSE
      OBVIOUS
    <3>2. <<>> \in Seq(Fragment)
      OBVIOUS
    <3> QED
      BY <3>1, <3>2 DEF TypeNet
  <2>4. TypeWork /\ TypePool
    BY DEF TypeWork, TypePool
  <2>5. TypeList
    BY DEF TypeList, Pool
  <2> QED
    BY <2>1, <2>2, <2>3, <2>4, <2>5, <2>6
<1>2. /\ Cardinality(Sending) = 0 /\ Cardinality(Pending) = 0
      /\ Cardinality(At("handle")) = 0 /\ Cardinality(At("resp")) = 0
      /\ Cardinality(SendingWrites) = 0 /\ Cardinality(PendingWrites) = 0
      /\ Cardinality(ListedReads) = 0 /\ Cardinality(HandledReads) = 0
  <2>1. /\ Sending = {} /\ Pending = {} /\ At("handle") = {} /\ At("resp") = {}
        /\ SendingWrites = {} /\ PendingWrites = {} /\ ListedReads = {}
        /\ HandledReads = {}
    BY DEF Sending, Pending, At, SendingWrites, PendingWrites, ListedReads, HandledReads,
           Received, Worker, Pool
  <2> QED
    BY <2>1, FS_EmptySet
<1>3. Workers /\ LockHeld
  BY DEF Workers, LockHeld, Worker, Locked, Closing, Early
<1>4. SendersApart /\ Once
  BY EmptyQueue DEF SendersApart, Once, Worker, Pool
<1>5. \A c \in Cmd : /\ ~Asked(c) /\ ~Served(c) /\ ~Arrived(c) /\ ~Listed(c) /\ ~Handled(c)
                     /\ ~Responding(c) /\ ~Complete(c)
  BY EmptyQueue DEF Asked, Served, Arrived, Listed, Handled, Responding, Complete, Answered,
                    Worker, Pool
<1>6. FreshUnsent /\ InTable /\ Exclusive
  BY <1>5 DEF FreshUnsent, InTable, Exclusive, Worker, Locked
<1>7. Parts
  BY EmptyQueue DEF Parts
<1>8. Lifecycle
  BY DEF Lifecycle, Pool, Running, Boot
<1>9. Connection
  BY <1>5, EmptyQueue DEF Connection, Worker, Pool, Closing, Boot
<1>10. ThreadPools
  <2>1. \A p \in Pool : {w \in Team(p) : world[w] \notin {"none", "exit"}} = {}
    BY DEF Team
  <2> QED
    BY <2>1, FS_EmptySet DEF ThreadPools, Team, Boot
<1>11. BuffersSound
  BY PoolAssumption DEF BuffersSound, Sound, NoPool, nmax, nbufs, BufPool
<1>12. Len(work_list["recv"]) = 0
  BY DEF Pool
<1>13. MsgsAccounted
  BY <1>2, <1>12 DEF MsgsAccounted, MsgsHeld, One, NoPool, BufPool
<1>14. PayloadsAccounted
  BY <1>2, <1>12 DEF PayloadsAccounted, PayloadsHeld, One, NoPool, BufPool, SendingWrites,
                     PendingWrites, ListedReads, HandledReads
<1>15. WorksBounded
  <2>1. {w \in Team("recv") : world[w] = "work"} = {}
    BY DEF Team
  <2>2. Cardinality({w \in Team("recv") : world[w] = "work"}) = 0
    BY <2>1, FS_EmptySet
  <2> QED
    BY <1>12, <2>2, WorkerAssumption DEF WorksBounded, Works
<1>16. ServerBounded
  BY FS_EmptySet, PoolAssumption, ChannelAssumption DEF ServerBounded, One
<1> QED
  BY <1>1, <1>3, <1>4, <1>6, <1>7, <1>8, <1>9, <1>10, <1>11, <1>13, <1>14, <1>15,
     <1>16, PartsOfPools DEF IInv, Types

(* A fault is one of those there are. *)
LEMMA FaultHappens ==
  ASSUME TypeEnd, NEW f \in FaultKind, Fault(f)
  PROVE  faults' \in SUBSET FaultKind /\ f \in faults' /\ faults \subseteq faults'
BY DEF Fault, TypeEnd

(* A crash leaves everything else as it is. *)
LEMMA CrashPreserves ==
  ASSUME IInv, NEW why \in Cause, Broken(why), UNCHANGED faults \/ Fault("copy")
  PROVE  IInv'
<1> USE DEF Broken
<1>1. faults' \in SUBSET FaultKind /\ faults \subseteq faults'
  BY FaultHappens DEF IInv, Types, TypeEnd, FaultKind
<1>2. TypeEnd'
  BY <1>1 DEF TypeEnd
<1>3. Connection'
  BY <1>1 DEF IInv, Connection, Asked
<1> QED
  BY <1>2, <1>3, Unaffected, TypesUnaffected, CountsUnaffected, PartsOfPools
     DEF IInv, Types

(* Steps of init_cachebox and deinit_cachebox that only move on. *)
LEMMA MainPreserves ==
  ASSUME IInv,
         \/ hash_init \/ InitFails \/ Unload \/ JoinRecvThread
         \/ hash_deinit /\ hash = {}
  PROVE  IInv'
<1> USE DEF hash_init, InitStep, InitFails, Unload, JoinRecvThread, hash_deinit, Boot,
            Running
<1>1. UNCHANGED <<bp, tpVars, cmdVars, pc, chanVars, netVars, recvVars, srvVars>>
  OBVIOUS
<1>2. TypeEnd' /\ faults \subseteq faults'
  <2>1. Fault("init") \/ UNCHANGED faults
    OBVIOUS
  <2>2. crash' \in Cause
    BY DEF IInv, Types, TypeEnd, Cause
  <2>3. faults' \in SUBSET FaultKind /\ faults \subseteq faults'
    BY <2>1, FaultHappens DEF IInv, Types, TypeEnd, FaultKind
  <2> QED
    BY <2>2, <2>3 DEF TypeEnd
<1>3. Lifecycle'
  BY <1>1 DEF IInv, Lifecycle
<1>4. Connection'
  BY <1>1, <1>2 DEF IInv, Connection, Lifecycle, Asked
<1>5. ThreadPools'
  BY <1>1 DEF IInv, ThreadPools
<1> QED
  BY <1>1, <1>2, <1>3, <1>4, <1>5, Unaffected, TypesUnaffected, CountsUnaffected,
     PartsOfPools DEF IInv, Types
-----------------------------------------------------------------------------
(* Until the plugin is loaded nothing is held, sent or received. *)
LEMMA BootIsQuiet ==
  ASSUME IInv, main \in Boot
  PROVE  /\ \A c \in Cmd : cmd[c] = "new" /\ ~Asked(c) /\ c \notin hash
         /\ \A w \in Worker : pc[w] = "none"
         /\ recv = "none" /\ work_list["recv"] = <<>>
         /\ MsgsHeld = 0 /\ PayloadsHeld = 0
<1>1. /\ \A c \in Cmd : cmd[c] = "new" /\ ~Asked(c) /\ c \notin hash
      /\ \A w \in Worker : pc[w] = "none"
      /\ recv = "none" /\ work_list["recv"] = <<>>
  BY DEF IInv, Lifecycle, FreshUnsent, Fresh
<1>2. /\ Cardinality(Sending) = 0 /\ Cardinality(Pending) = 0
      /\ Cardinality(At("handle")) = 0 /\ Cardinality(At("resp")) = 0
      /\ Cardinality(SendingWrites) = 0 /\ Cardinality(PendingWrites) = 0
      /\ Cardinality(ListedReads) = 0 /\ Cardinality(HandledReads) = 0
  <2>1. /\ Sending = {} /\ Pending = {} /\ At("handle") = {} /\ At("resp") = {}
        /\ SendingWrites = {} /\ PendingWrites = {} /\ ListedReads = {}
        /\ HandledReads = {}
    BY <1>1 DEF Sending, Pending, At, SendingWrites, PendingWrites, ListedReads,
                HandledReads, Received, Worker, IInv, Types, TypeChan
  <2> QED
    BY <2>1, FS_EmptySet
<1>3. Len(work_list["recv"]) = 0
  BY <1>1
<1>4. MsgsHeld = 0
  BY <1>1, <1>2, <1>3 DEF MsgsHeld, One
<1>5. PayloadsHeld = 0
  BY <1>1, <1>2, <1>3 DEF PayloadsHeld, One, SendingWrites, PendingWrites, ListedReads,
                          HandledReads
<1> QED
  BY <1>1, <1>4, <1>5

(* thread_pool_init of either pool. *)
LEMMA InitThreadsPreserves ==
  ASSUME IInv, InitSendPool \/ InitRecvPool
  PROVE  IInv'
<1> USE DEF InitSendPool, InitRecvPool, InitStep, Boot, Running
<1>1. PICK p \in Pool : thread_pool_init(p)
  BY DEF Pool
<1> USE DEF thread_pool_init
<1>2. /\ main \in Boot /\ main' \in Boot
      /\ UNCHANGED <<bp, cmdVars, pc, chanVars, netVars, recvVars, srvVars, work_list,
                     wakeups, data, crash, faults>>
  BY <1>1
<1>3. \A w \in Worker : world'[w] = IF w \in Team(p) THEN "look" ELSE world[w]
  BY <1>1
<1>4. TypePool'
  <2>1. IsFiniteSet(Team(p))
    BY FS_Subset, WorkerAssumption DEF Team
  <2>2. Cardinality(Team(p)) \in Nat
    BY <2>1, FS_CardinalityType
  <2> QED
    BY <1>1, <2>2 DEF IInv, Types, TypePool
<1>5. Workers'
  BY <1>2, BootIsQuiet DEF IInv, Workers, Worker, Closing, Early
<1>6. Lifecycle'
  BY <1>2 DEF IInv, Lifecycle
<1>7. Connection'
  BY <1>2 DEF IInv, Connection, Asked
<1>8. \A w \in Team(p) : world[w] = "none"
  BY <1>1 DEF IInv, ThreadPools
<1>9. ThreadPools'
  <2> SUFFICES ASSUME NEW q \in Pool
               PROVE /\ active'[q]
                          = Cardinality({w \in Team(q) : world'[w] \notin {"none", "exit"}})
                     /\ state'[q] = "UNINITIALIZED" => \A w \in Team(q) : world'[w] = "none"
                     /\ \A w \in Team(q) : world'[w] # "exit"
                     /\ state'[q] # "SHUTTING"
    BY DEF ThreadPools
  <2>1. \A w \in Team(q) : world[w] # "exit" /\ w \in Worker
    BY <1>2 DEF IInv, ThreadPools, Team
  <2>2. CASE q = p
    <3>1. {w \in Team(q) : world'[w] \notin {"none", "exit"}} = Team(q)
      BY <1>3, <2>1, <2>2
    <3>2. /\ active'[q] = Cardinality(Team(q)) /\ state'[q] = "INITIALIZED"
      BY <1>1, <2>2 DEF IInv, Types, TypePool
    <3> QED
      BY <1>3, <2>1, <2>2, <3>1, <3>2
  <2>3. CASE q # p
    <3>1. \A w \in Team(q) : world'[w] = world[w]
      BY <1>3, <2>1, <2>3 DEF Team
    <3>2. {w \in Team(q) : world'[w] \notin {"none", "exit"}}
            = {w \in Team(q) : world[w] \notin {"none", "exit"}}
      BY <3>1
    <3>3. active'[q] = active[q] /\ state'[q] = state[q]
      BY <1>1, <2>3 DEF IInv, Types, TypePool
    <3> QED
      BY <1>2, <2>1, <3>1, <3>2, <3>3 DEF IInv, ThreadPools
  <2> QED
    BY <2>2, <2>3
<1>10. WorksBounded'
  <2>1. {w \in Team("recv") : world'[w] = "work"} = {w \in Team("recv") : world[w] = "work"}
    BY <1>3, <1>8 DEF Team
  <2> QED
    BY <1>2, <2>1, PartsOfPools DEF IInv, WorksBounded, Works
<1> QED
  BY <1>2, <1>4, <1>5, <1>6, <1>7, <1>9, <1>10, Unaffected, TypesUnaffected,
     CountsUnaffected, PartsOfPools DEF IInv, Types

(* client_setup connects: nothing was sent before, so what is sent is new. *)
LEMMA ClientSetupPreserves ==
  ASSUME IInv, client_setup
  PROVE  IInv'
<1> USE DEF client_setup, InitStep, Boot, Running
<1>1. TypeNet'
  BY DEF IInv, Types, TypeNet
<1>2. Lifecycle' /\ ThreadPools'
  BY DEF IInv, Lifecycle, ThreadPools
<1>3. Connection'
  BY BootIsQuiet, EmptyQueue DEF IInv, Connection, Asked, Closing
<1> QED
  BY <1>1, <1>2, <1>3, Unaffected, TypesUnaffected, CountsUnaffected, PartsOfPools
     DEF IInv, Types

(* bufpool_init_reserve of either pool. *)
LEMMA InitPoolPreserves ==
  ASSUME IInv, NEW p \in BufPool, InitPool(p)
  PROVE  IInv'
<1> USE DEF InitPool, InitStep, Boot, Running
<1> DEFINE b == [freelist |-> nbufs[p], owned |-> nbufs[p], issued |-> 0,
                 state |-> "INITIALIZED"]
<1>1. /\ main \in Boot /\ main' \in Boot
      /\ bp' = [bp EXCEPT ![p] = b] /\ enabled' = (p = "payload")
      /\ p = "msg" => main = "msgpool" /\ main' = "ploadpool"
      /\ p # "msg" => main = "ploadpool" /\ main' = "tp"
      /\ UNCHANGED <<tpVars, cmdVars, pc, lock, hash, netVars, recvVars, srvVars, crash,
                     faults>>
  BY DEF bufpool_init_reserve, BufPool
<1>2. b \in BufPoolType /\ Sound(b, p)
  BY PoolAssumption DEF BufPoolType, Sound, nbufs, nmax, BufPool
<1>3. TypeBuf' /\ BuffersSound'
  BY <1>1, <1>2, PartsOfPools DEF IInv, Types, TypeBuf, BuffersSound
<1>4. TypeChan'
  BY <1>1 DEF IInv, Types, TypeChan
<1>5. Lifecycle'
  BY <1>1 DEF IInv, Lifecycle, Types, TypeBuf, BufPool
<1>6. Connection'
  <2>1. main' = "tp" => enabled'
    BY <1>1 DEF BufPool
  <2> QED
    BY <1>1, <2>1 DEF IInv, Connection, Asked
<1>7. ThreadPools'
  BY <1>1 DEF IInv, ThreadPools
<1>8. MsgsHeld' = 0 /\ PayloadsHeld' = 0
  <2>1. MsgsHeld' = MsgsHeld /\ PayloadsHeld' = PayloadsHeld
    BY <1>1 DEF MsgsHeld, PayloadsHeld, Sending, Pending, At, Received
  <2> QED
    BY <1>1, <2>1, BootIsQuiet
<1>9. MsgsAccounted' /\ PayloadsAccounted'
  BY <1>1, <1>8, BootIsQuiet, PartsOfPools
     DEF IInv, Types, TypeBuf, MsgsAccounted, PayloadsAccounted, BufPool
<1> QED
  BY <1>1, <1>3, <1>4, <1>5, <1>6, <1>7, <1>9, Unaffected, TypesUnaffected, PartsOfPools
     DEF IInv, Types

(* A step of the receiver between places where it has no message. *)
LEMMA ReceiverIdle ==
  ASSUME IInv, recv \in {"none", "get", "getwait", "hdr", "wake", "exit"},
         recv' \in {"none", "get", "getwait", "hdr", "exit"},
         UNCHANGED <<cmdVars, work_list, pc, data, hash, out, in, srvVars>>
  PROVE  FreshUnsent' /\ InTable' /\ Exclusive' /\ Parts'
<1>1. \A c : /\ Asked(c)' = Asked(c) /\ Served(c)' = Served(c)
             /\ ~Arrived(c)' /\ ~Arrived(c) /\ Listed(c)' = Listed(c)
             /\ Handled(c)' = Handled(c) /\ Responding(c)' = Responding(c)
  BY DEF Asked, Served, Arrived, Listed, Handled, Responding
<1>2. \A c : Complete(c)' = Complete(c) /\ Fresh(c)' = Fresh(c)
  BY <1>1 DEF Complete, Answered, Fresh
<1>3. FreshUnsent' /\ InTable'
  BY <1>1, <1>2 DEF IInv, FreshUnsent, InTable
<1>4. Exclusive'
  BY <1>1 DEF IInv, Exclusive
<1>5. Parts'
  BY DEF IInv, Parts
<1> QED
  BY <1>3, <1>4, <1>5

(* init_cachebox starts the receiver. *)
LEMMA InitRecvThreadPreserves ==
  ASSUME IInv, InitRecvThread
  PROVE  IInv'
<1> USE DEF InitRecvThread, InitStep, Boot, Running
<1>1. recv = "none" /\ recv' = "get" /\ main' = "loaded"
  BY DEF IInv, Lifecycle
<1>2. FreshUnsent' /\ InTable' /\ Exclusive' /\ Parts'
  BY <1>1, ReceiverIdle
<1>3. TypeRecv' /\ Lifecycle' /\ ThreadPools'
  <2>1. TypeRecv'
    BY <1>1 DEF IInv, Types, TypeRecv
  <2>2. Lifecycle'
    BY <1>1 DEF IInv, Lifecycle
  <2>3. ThreadPools'
    BY <1>1 DEF IInv, ThreadPools
  <2> QED
    BY <2>1, <2>2, <2>3
<1>4. Connection'
  BY <1>1 DEF IInv, Connection, Asked
<1>5. MsgsAccounted' /\ PayloadsAccounted'
  <2>1. /\ Sending' = Sending /\ At("handle")' = At("handle") /\ At("resp")' = At("resp")
        /\ Pending' = Pending /\ SendingWrites' = SendingWrites
        /\ HandledReads' = HandledReads /\ PendingWrites' = PendingWrites
        /\ ListedReads' = ListedReads
    BY CountsUnaffected
  <2>2. MsgsHeld' = MsgsHeld
    BY <1>1, <2>1 DEF MsgsHeld
  <2>3. PayloadsHeld' = PayloadsHeld
    BY <1>1, <2>1
       DEF PayloadsHeld, SendingWrites, HandledReads, PendingWrites, ListedReads
  <2> QED
    BY <2>2, <2>3, PartsOfPools DEF IInv, MsgsAccounted, PayloadsAccounted
<1> QED
  BY <1>2, <1>3, <1>4, <1>5, Unaffected, TypesUnaffected, PartsOfPools DEF IInv, Types
-----------------------------------------------------------------------------
(* The counts that a step of one worker changes. *)
LEMMA OneWorker ==
  ASSUME NEW w \in Worker, UNCHANGED isRead,
         \A v \in Worker : v # w => pc'[v] = pc[v] /\ data'[v] = data[v]
  PROVE  /\ Moved(w, Sending, Sending') /\ Moved(w, At("handle"), At("handle")')
         /\ Moved(w, At("resp"), At("resp")') /\ Moved(w, SendingWrites, SendingWrites')
         /\ Moved(w, HandledReads, HandledReads')
<1>1. /\ Sending \in SUBSET Worker /\ Sending' \in SUBSET Worker
      /\ \A v \in Worker : v # w => (v \in Sending <=> v \in Sending')
  BY DEF Sending, Worker
<1>2. /\ At("handle") \in SUBSET Worker /\ At("handle")' \in SUBSET Worker
      /\ \A v \in Worker : v # w => (v \in At("handle") <=> v \in At("handle")')
  BY DEF At, Worker
<1>3. /\ At("resp") \in SUBSET Worker /\ At("resp")' \in SUBSET Worker
      /\ \A v \in Worker : v # w => (v \in At("resp") <=> v \in At("resp")')
  BY DEF At, Worker
<1>4. /\ SendingWrites \in SUBSET Worker /\ SendingWrites' \in SUBSET Worker
      /\ \A v \in Worker : v # w => (v \in SendingWrites <=> v \in SendingWrites')
  BY <1>1 DEF SendingWrites
<1>5. /\ HandledReads \in SUBSET Worker /\ HandledReads' \in SUBSET Worker
      /\ \A v \in Worker : v # w => (v \in HandledReads <=> v \in HandledReads')
  BY <1>2 DEF HandledReads
<1>6. Moved(w, Sending, Sending')
  BY <1>1, CountMove, WorkerAssumption
<1>7. Moved(w, At("handle"), At("handle")')
  BY <1>2, CountMove, WorkerAssumption
<1>8. Moved(w, At("resp"), At("resp")')
  BY <1>3, CountMove, WorkerAssumption
<1>9. Moved(w, SendingWrites, SendingWrites')
  BY <1>4, CountMove, WorkerAssumption
<1>10. Moved(w, HandledReads, HandledReads')
  BY <1>5, CountMove, WorkerAssumption
<1> QED
  BY <1>6, <1>7, <1>8, <1>9, <1>10

(* The counts that a change of one pending request changes. *)
LEMMA OnePending ==
  ASSUME TypeChan, TypeChan', UNCHANGED isRead, NEW c \in Cmd,
         \A d \in Cmd : d # c => (d \in Pending <=> d \in Pending')
  PROVE  Moved(c, Pending, Pending') /\ Moved(c, PendingWrites, PendingWrites')
<1>1. Pending \in SUBSET Cmd /\ Pending' \in SUBSET Cmd
  BY DEF TypeChan, Pending
<1>2. /\ PendingWrites \in SUBSET Cmd /\ PendingWrites' \in SUBSET Cmd
      /\ \A d \in Cmd : d # c => (d \in PendingWrites <=> d \in PendingWrites')
  BY <1>1 DEF PendingWrites
<1> QED
  BY <1>1, <1>2, CountMove

Reads == {c \in Cmd : isRead[c]}

(* The counts are natural numbers. *)
LEMMA CountsAreNat ==
  ASSUME IInv
  PROVE  /\ NSend \in Nat /\ NPend \in Nat /\ NHandle \in Nat /\ NResp \in Nat
         /\ NSendW \in Nat /\ NPendW \in Nat /\ NHandleR \in Nat /\ NListR \in Nat
         /\ NList \in Nat
<1>1. /\ Sending \in SUBSET Worker /\ At("handle") \in SUBSET Worker
      /\ At("resp") \in SUBSET Worker /\ SendingWrites \in SUBSET Worker
      /\ HandledReads \in SUBSET Worker
  BY DEF Sending, At, SendingWrites, HandledReads, Worker
<1>2. Pending \in SUBSET Cmd /\ PendingWrites \in SUBSET Cmd
  BY DEF IInv, Types, TypeChan, Pending, PendingWrites
<1>3. /\ Len(work_list["recv"]) \in Nat
      /\ ListedReads \in SUBSET (1..Len(work_list["recv"]))
  BY DEF IInv, Types, TypeList, ListedReads, Received
<1>4. IsFiniteSet(1..Len(work_list["recv"]))
  <2> DEFINE n == Len(work_list["recv"])
  <2>1. 1 \in Int /\ n \in Int
    BY <1>3
  <2> HIDE DEF n
  <2>2. IsFiniteSet(1..n)
    BY <2>1, FS_Interval
  <2> QED
    BY <2>2 DEF n
<1> QED
  BY <1>1, <1>2, <1>3, <1>4, SubsetCount, WorkerAssumption
     DEF NSend, NPend, NHandle, NResp, NSendW, NPendW, NHandleR, NListR, NList

(* The entries of the list that are responses to a read. *)
LEMMA ListedReadsPlaces ==
  /\ TypeList => ListedReads = PlacesOf(Reads, work_list["recv"])
  /\ TypeList' => ListedReads' = PlacesOf(Reads', work_list'["recv"])
<1>1. TypeList => \A i \in 1..Len(work_list["recv"]) :
                    work_list["recv"][i] \in Cmd \cup {CLOSED}
  BY DEF TypeList
<1>2. TypeList' => \A i \in 1..Len(work_list'["recv"]) :
                    work_list'["recv"][i] \in Cmd \cup {CLOSED}
  BY DEF TypeList
<1>3. TypeList => ListedReads = PlacesOf(Reads, work_list["recv"])
  BY <1>1 DEF ListedReads, Received, PlacesOf, Reads
<1>4. TypeList' => ListedReads' = PlacesOf(Reads', work_list'["recv"])
  BY <1>2 DEF ListedReads, Received, PlacesOf, Reads
<1> QED
  BY <1>3, <1>4

(* The messages and payloads the receiver holds. *)
MsgRecv == One(recv \in {"hdr", "payload", "body", "work"})
PayloadRecv == One(recv = "body" \/ (recv = "work" /\ rm # CLOSED /\ isRead[rm]))

(* The messages held, as a sum of the named counts, ... *)
LEMMA MsgSums ==
  /\ MsgsHeld = NSend + NPend + NList + MsgRecv + NHandle + 2 * NResp
  /\ MsgsHeld' = NSend' + NPend' + NList' + MsgRecv' + NHandle' + 2 * NResp'
  /\ MsgRecv \in Nat /\ MsgRecv' \in Nat /\ (UNCHANGED recv => MsgRecv' = MsgRecv)
BY DEF MsgsHeld, MsgRecv, One, NSend, NPend, NList, NHandle, NResp

(* ... and the payloads. *)
LEMMA PayloadSums ==
  /\ PayloadsHeld = NSendW + NPendW + NListR + PayloadRecv + NHandleR + NResp
  /\ PayloadsHeld' = NSendW' + NPendW' + NListR' + PayloadRecv' + NHandleR' + NResp'
  /\ PayloadRecv \in Nat /\ PayloadRecv' \in Nat
  /\ UNCHANGED <<recv, rm, isRead>> => PayloadRecv' = PayloadRecv
BY DEF PayloadsHeld, SendingWrites, PendingWrites, ListedReads, HandledReads,
       PayloadRecv, One, NSendW, NPendW, NListR, NHandleR, NResp

(* Sets that stay as they are keep their size. *)
LEMMA CountsKept ==
  /\ Sending' = Sending => NSend' = NSend
  /\ Pending' = Pending => NPend' = NPend
  /\ work_list'["recv"] = work_list["recv"] => NList' = NList
  /\ At("handle")' = At("handle") => NHandle' = NHandle
  /\ At("resp")' = At("resp") => NResp' = NResp
  /\ SendingWrites' = SendingWrites => NSendW' = NSendW
  /\ PendingWrites' = PendingWrites => NPendW' = NPendW
  /\ ListedReads' = ListedReads => NListR' = NListR
  /\ HandledReads' = HandledReads => NHandleR' = NHandleR
BY DEF NSend, NPend, NList, NHandle, NResp, NSendW, NPendW, NListR, NHandleR

(* Steps of workers that end, start or wait change no thread pool's count. *)
LEMMA ThreadPoolsKept ==
  ASSUME IInv,
         \A w \in Worker : /\ world'[w] = "none" <=> world[w] = "none"
                           /\ world'[w] = "exit" <=> world[w] = "exit",
         \A p \in Pool : work_list'[p] = <<>> \/ \A w \in Team(p) : world[w] # "exit",
         UNCHANGED <<state, active, main>>
  PROVE  ThreadPools'
<1>1. \A p \in Pool : \A w \in Team(p) : w \in Worker
  BY DEF Team
<1>2. \A p \in Pool : {w \in Team(p) : world'[w] \notin {"none", "exit"}}
                        = {w \in Team(p) : world[w] \notin {"none", "exit"}}
  BY <1>1
<1> QED
  BY <1>1, <1>2 DEF IInv, ThreadPools

(* The works in use after one worker takes or ends one. *)
LEMMA OneWork ==
  ASSUME NEW w \in Worker,
         \A v \in Worker : v # w => (world'[v] = "work" <=> world[v] = "work")
  PROVE  LET W == {v \in Team("recv") : world[v] = "work"}
             V == {v \in Team("recv") : world'[v] = "work"}
         IN  /\ Cardinality(W) \in Nat
             /\ Cardinality(V) = Cardinality(W)
                  + (IF w \in RecvWorker /\ world'[w] = "work" THEN 1 ELSE 0)
                  - (IF w \in RecvWorker /\ world[w] = "work" THEN 1 ELSE 0)
<1> DEFINE W == {v \in Team("recv") : world[v] = "work"}
           V == {v \in Team("recv") : world'[v] = "work"}
<1>1. /\ W \in SUBSET Worker /\ V \in SUBSET Worker
      /\ \A v \in Worker : v # w => (v \in W <=> v \in V)
      /\ w \in V <=> w \in RecvWorker /\ world'[w] = "work"
      /\ w \in W <=> w \in RecvWorker /\ world[w] = "work"
  BY Teams
<1> HIDE DEF V, W
<1>2. /\ Cardinality(W) \in Nat
      /\ Cardinality(V) = Cardinality(W)
              + (IF w \in V THEN 1 ELSE 0) - (IF w \in W THEN 1 ELSE 0)
  BY <1>1, CountStep, WorkerAssumption
<1>3. /\ Cardinality(W) \in Nat
      /\ Cardinality(V) = Cardinality(W)
              + (IF w \in RecvWorker /\ world'[w] = "work" THEN 1 ELSE 0)
              - (IF w \in RecvWorker /\ world[w] = "work" THEN 1 ELSE 0)
  BY <1>1, <1>2
<1> QED
  BY <1>3 DEF V, W

(* A worker of send_tp is at no station of a response. *)
LEMMA SenderStations ==
  ASSUME NEW w \in SendWorker,
         \A v \in Worker : v # w => pc'[v] = pc[v] /\ data'[v] = data[v],
         UNCHANGED <<in, srv, recvVars>>, work_list'["recv"] = work_list["recv"]
  PROVE  \A c : /\ Served(c)' = Served(c) /\ Arrived(c)' = Arrived(c)
                /\ Listed(c)' = Listed(c) /\ Handled(c)' = Handled(c)
                /\ Responding(c)' = Responding(c) /\ Answered(c)' = Answered(c)
<1>1. \A v \in RecvWorker : pc'[v] = pc[v] /\ data'[v] = data[v]
  BY Teams
<1>2. \A c : /\ Served(c)' = Served(c) /\ Arrived(c)' = Arrived(c)
             /\ Listed(c)' = Listed(c) /\ Handled(c)' = Handled(c)
             /\ Responding(c)' = Responding(c)
  BY <1>1 DEF Served, Arrived, Listed, Handled, Responding
<1> QED
  BY <1>2 DEF Answered
-----------------------------------------------------------------------------
(* A command that PSA gives to the plugin is new everywhere. *)
LEMMA StartCommandPreserves ==
  ASSUME IInv, NEW c \in Cmd, NEW r \in BOOLEAN, StartCommand(c, r)
  PROVE  IInv'
<1> USE DEF StartCommand, schedule_work, Boot, Running
<1>1. /\ cmd[c] = "new" /\ cmd'[c] = "queued" /\ isRead'[c] = r
      /\ \A d \in Cmd : d # c => cmd'[d] = cmd[d] /\ isRead'[d] = isRead[d]
  BY DEF IInv, Types, TypeCmd
<1>2. /\ work_list'["recv"] = work_list["recv"]
      /\ work_list'["send"] = Append(work_list["send"], c)
      /\ work_list' = [p \in Pool |-> work_list'[p]]
  BY DEF IInv, Types, TypeList, Pool
<1>3. /\ work_list'["send"] \in Seq(Cmd)
      /\ \A d : InQueue(d, work_list'["send"]) <=> InQueue(d, work_list["send"]) \/ d = c
      /\ ~InQueue(c, work_list["send"]) /\ Distinct(work_list'["send"], Cmd)
  <2>1. /\ work_list["send"] \in Seq(Cmd) /\ ~InQueue(c, work_list["send"])
        /\ Distinct(work_list["send"], Cmd)
    BY <1>1 DEF IInv, Types, TypeList, SendersApart
  <2> QED
    BY <1>2, <2>1, AppendTo
<1>4. /\ c \notin hash /\ ~Asked(c) /\ ~Responding(c)
      /\ ~Served(c) /\ ~Arrived(c) /\ ~Listed(c) /\ ~Handled(c)
      /\ \A w \in SendWorker : pc[w] # "none" => data[w] # c
  BY <1>1 DEF IInv, FreshUnsent, Fresh, InTable, Complete, Answered, Workers
<1>5. \A d : /\ Asked(d)' = Asked(d) /\ Served(d)' = Served(d) /\ Arrived(d)' = Arrived(d)
             /\ Listed(d)' = Listed(d) /\ Handled(d)' = Handled(d)
             /\ Responding(d)' = Responding(d)
  BY <1>2 DEF Asked, Served, Arrived, Listed, Handled, Responding
<1>6. \A d \in Cmd : (Complete(d)' <=> Complete(d)) /\ (Fresh(d)' <=> Fresh(d))
  <2> TAKE d \in Cmd
  <2>1. CASE d = c
    <3>1. ~Complete(c) /\ ~Complete(c)'
      BY <1>4, <1>5 DEF Complete, Answered, Asked
    <3>2. Fresh(c) /\ Fresh(c)'
      BY <1>1, <1>3 DEF Fresh
    <3> QED
      BY <2>1, <3>1, <3>2
  <2>2. CASE d # c
    BY <1>1, <1>3, <1>5, <2>2 DEF Complete, Answered, Fresh
  <2> QED
    BY <2>1, <2>2
<1>7. TypeCmd' /\ TypePool' /\ TypeList'
  <2>1. TypeCmd'
    BY DEF IInv, Types, TypeCmd
  <2>2. TypePool'
    <3>1. wakeups' \in [Pool -> Nat]
      BY DEF IInv, Types, TypePool, Pool
    <3> QED
      BY <3>1 DEF IInv, Types, TypePool
  <2>3. TypeList'
    BY <1>2, <1>3 DEF IInv, Types, TypeList, Pool
  <2> QED
    BY <2>1, <2>2, <2>3
<1>8. Workers'
  BY <1>1, <1>4 DEF IInv, Workers
<1>9. SendersApart'
  BY <1>1, <1>3, <1>4 DEF IInv, SendersApart
<1>10. FreshUnsent' /\ InTable'
  <2>1. FreshUnsent'
    BY <1>4, <1>5, <1>6 DEF IInv, FreshUnsent, Workers, Locked
  <2>2. InTable'
    BY <1>1, <1>4, <1>5, <1>6 DEF IInv, InTable
  <2> QED
    BY <2>1, <2>2
<1>11. Exclusive'
  BY <1>5 DEF IInv, Exclusive
<1>12. Once'
  BY <1>2 DEF IInv, Once
<1>13. Parts'
  BY <1>1, <1>4 DEF IInv, Parts, Asked, Served
<1>14. Lifecycle'
  BY <1>2 DEF IInv, Lifecycle
<1>15. Connection'
  BY <1>1, <1>2, <1>4, <1>5 DEF IInv, Types, TypeChan, Connection
<1>16. ThreadPools'
  <2>1. \A p \in Pool : \A w \in Team(p) : world[w] # "exit"
    BY DEF IInv, ThreadPools
  <2> QED
    BY <2>1, ThreadPoolsKept
<1>17. MsgsAccounted'
  <2>1. Pending' = Pending
    BY <1>1, <1>4 DEF Pending, Sending, IInv, Types, TypeChan
  <2>2. Sending' = Sending /\ At("handle")' = At("handle") /\ At("resp")' = At("resp")
    BY CountsUnaffected
  <2> QED
    BY <1>2, <2>1, <2>2, CountsKept, MsgSums, PartsOfPools DEF IInv, MsgsAccounted
<1>18. PayloadsAccounted'
  <2>1. SendingWrites' = SendingWrites
    BY <1>1, <1>4 DEF SendingWrites, Sending, IInv, Workers
  <2>2. PendingWrites' = PendingWrites
    BY <1>1, <1>4 DEF Pending, Sending, PendingWrites, IInv, Types, TypeChan
  <2>3. ListedReads' = ListedReads
    <3>1. \A i \in 1..Len(work_list["recv"]) :
            work_list["recv"][i] \in Cmd \cup {CLOSED} /\ work_list["recv"][i] # c
      <4>1. work_list["recv"] \in Seq(Cmd \cup {CLOSED})
        BY DEF IInv, Types, TypeList
      <4>2. \A i \in 1..Len(work_list["recv"]) : work_list["recv"][i] # c
        BY <1>4 DEF Listed, InQueue
      <4> QED
        BY <4>1, <4>2
    <3> QED
      BY <1>1, <1>2, <3>1 DEF ListedReads, Received
  <2>4. HandledReads' = HandledReads
    BY <1>1, <1>4 DEF HandledReads, At, Handled, IInv, Workers
  <2>5. recv = "work" /\ rm # CLOSED => rm \in Cmd /\ rm # c
    BY <1>4 DEF Arrived, IInv, Parts
  <2>6. At("resp")' = At("resp")
    BY CountsUnaffected
  <2>7. PayloadRecv' = PayloadRecv
    BY <1>1, <2>5 DEF PayloadRecv, One
  <2> QED
    BY <2>1, <2>2, <2>3, <2>4, <2>6, <2>7, CountsKept, PayloadSums, PartsOfPools
       DEF IInv, PayloadsAccounted
<1>19. WorksBounded'
  BY <1>2, PartsOfPools DEF IInv, WorksBounded, Works
<1> QED
  BY <1>7, <1>8, <1>9, <1>10, <1>11, <1>12, <1>13, <1>14, <1>15, <1>16, <1>17, <1>18, <1>19,
     Unaffected, TypesUnaffected, PartsOfPools DEF IInv, Types

(* vmk_WorldWakeup moves workers that sleep. *)
LEMMA Wakes ==
  ASSUME IInv, NEW p \in Pool, world' = Woken(p), UNCHANGED <<work_list, active, state, pc,
         data, cmd, isRead>>
  PROVE  /\ \A w \in Worker : /\ world'[w] = "work" <=> world[w] = "work"
                              /\ world'[w] = "none" <=> world[w] = "none"
                              /\ world'[w] = "exit" <=> world[w] = "exit"
         /\ world' \in [Worker -> {"none", "look", "asleep", "work", "exit"}]
         /\ Workers' /\ WorksBounded'
         /\ UNCHANGED main => ThreadPools'
<1>1. /\ \A w \in Worker : /\ world'[w] = "work" <=> world[w] = "work"
                           /\ world'[w] = "none" <=> world[w] = "none"
                           /\ world'[w] = "exit" <=> world[w] = "exit"
      /\ world' \in [Worker -> {"none", "look", "asleep", "work", "exit"}]
  BY DEF Woken, IInv, Types, TypePool
<1>2. Workers'
  BY <1>1, Teams DEF IInv, Workers
<1>3. WorksBounded'
  <2>1. {w \in Team("recv") : world'[w] = "work"} = {w \in Team("recv") : world[w] = "work"}
    BY <1>1, Teams
  <2> QED
    BY <2>1, PartsOfPools DEF IInv, WorksBounded, Works
<1>4. UNCHANGED main => ThreadPools'
  <2>1. \A q \in Pool : work_list[q] = <<>> \/ \A w \in Team(q) : world[w] # "exit"
    BY DEF IInv, ThreadPools
  <2> QED
    BY <1>1, <2>1, ThreadPoolsKept
<1> QED
  BY <1>1, <1>2, <1>3, <1>4

(* The wake-up of send_tp that schedule_work left to come. *)
LEMMA SendWakeupPreserves ==
  ASSUME IInv, SendWakeup
  PROVE  IInv'
<1> USE DEF SendWakeup, Wakeup
<1>1. TypePool' /\ Workers' /\ WorksBounded' /\ ThreadPools'
  <2>1. "send" \in Pool /\ world' = Woken("send")
    BY DEF Pool
  <2>2. wakeups' \in [Pool -> Nat]
    <3>1. wakeups["send"] \in Nat /\ wakeups["send"] - 1 \in Nat
      BY <2>1 DEF IInv, Types, TypePool
    <3> QED
      BY <3>1 DEF IInv, Types, TypePool
  <2> QED
    BY <2>1, <2>2, Wakes DEF IInv, Types, TypePool
<1> QED
  BY <1>1, Unaffected, TypesUnaffected, CountsUnaffected, PartsOfPools DEF IInv, Types

(* A worker that finds no work sleeps, or leaves a pool that shuts down. *)
LEMMA WorkerIdlePreserves ==
  ASSUME IInv, NEW w \in Worker, WorkerIdle(w)
  PROVE  IInv'
<1> USE DEF WorkerIdle, Idle
<1> DEFINE p == PoolOf(w)
<1>1. /\ p \in Pool /\ w \in Team(p) /\ \A q \in Pool : w \in Team(q) => q = p
  BY DEF PoolOf, Pool, Team
<1> HIDE DEF p
<1>2. /\ world[w] = "look" /\ work_list[p] = <<>> /\ world'[w] \in {"asleep", "exit"}
      /\ \A v \in Worker : v # w => world'[v] = world[v]
      /\ world' \in [Worker -> {"none", "look", "asleep", "work", "exit"}]
      /\ world'[w] = "exit" => state[p] = "SHUTTING"
      /\ active' = IF world'[w] = "exit" THEN [active EXCEPT ![p] = active[p] - 1]
                   ELSE active
      /\ UNCHANGED <<bp, cmdVars, pc, chanVars, netVars, recvVars, srvVars, endVars, state,
                     work_list, wakeups, data>>
  BY DEF IInv, Types, TypePool, p
<1>3. Workers'
  BY <1>2, Teams DEF IInv, Workers
<1>4. WorksBounded'
  <2>1. {v \in Team("recv") : world'[v] = "work"} = {v \in Team("recv") : world[v] = "work"}
    BY <1>2, Teams
  <2> QED
    BY <1>2, <2>1, PartsOfPools DEF IInv, WorksBounded, Works
<1>5. TypePool' /\ ThreadPools'
  <2>1. CASE world'[w] = "asleep"
    <3>1. \A q \in Pool : work_list[q] = <<>> \/ \A v \in Team(q) : world[v] # "exit"
      BY DEF IInv, ThreadPools
    <3> QED
      BY <1>2, <2>1, <3>1, ThreadPoolsKept DEF IInv, Types, TypePool
  <2>2. CASE world'[w] = "exit"
    <3> DEFINE A == {v \in Team(p) : world[v] \notin {"none", "exit"}}
               B == {v \in Team(p) : world'[v] \notin {"none", "exit"}}
    <3>1. \A q \in Pool : \A v \in Team(q) : v \in Worker
      BY DEF Team
    <3>2. \A q \in Pool : q # p => {v \in Team(q) : world'[v] \notin {"none", "exit"}}
                                     = {v \in Team(q) : world[v] \notin {"none", "exit"}}
      BY <1>1, <1>2, <3>1
    <3>3. w \in A /\ B = A \ {w} /\ A \in SUBSET Worker
      BY <1>1, <1>2, <2>2, <3>1
    <3>4. active[p] = Cardinality(A)
      BY <1>1 DEF IInv, ThreadPools
    <3> HIDE DEF A, B
    <3>5. IsFiniteSet(A) /\ Cardinality(A) \in Nat
      BY <3>3, SubsetCount, WorkerAssumption
    <3>6. Cardinality(B) = Cardinality(A) - 1 /\ Cardinality(B) \in Nat
      BY <3>3, <3>5, FS_RemoveElement, FS_CardinalityType
    <3>7. /\ active'[p] = Cardinality(B)
          /\ \A q \in Pool : q # p => active'[q] = active[q]
          /\ active' \in [Pool -> Nat]
      BY <1>1, <1>2, <2>2, <3>4, <3>6 DEF IInv, Types, TypePool
    <3>8. \A q \in Pool :
            state[q] = "UNINITIALIZED" => \A v \in Team(q) : world'[v] = "none"
      <4>1. state[p] # "UNINITIALIZED"
        BY <1>2, <2>2
      <4>2. \A q \in Pool :
              state[q] = "UNINITIALIZED" => \A v \in Team(q) : world[v] = "none"
        BY DEF IInv, ThreadPools
      <4> QED
        BY <1>1, <1>2, <3>1, <4>1, <4>2
    <3>9. \A q \in Pool : \A v \in Team(q) :
            world'[v] = "exit" => state[q] = "SHUTTING" /\ work_list[q] = <<>>
      BY <1>1, <1>2, <3>1 DEF IInv, ThreadPools
    <3> QED
      <4>1. TypePool'
        BY <1>2, <3>7 DEF IInv, Types, TypePool
      <4>2. ASSUME NEW q \in Pool
            PROVE  active'[q]
                     = Cardinality({v \in Team(q) : world'[v] \notin {"none", "exit"}})
        <5>1. CASE q = p
          BY <3>7, <5>1 DEF B
        <5>2. CASE q # p
          <6>1. active[q] = Cardinality({v \in Team(q) : world[v] \notin {"none", "exit"}})
            BY DEF IInv, ThreadPools
          <6> QED
            BY <3>2, <3>7, <5>2, <6>1
        <5> QED
          BY <5>1, <5>2
      <4>3. ASSUME NEW q \in Pool
            PROVE  /\ state'[q] = "UNINITIALIZED" => \A v \in Team(q) : world'[v] = "none"
                   /\ \A v \in Team(q) : world'[v] = "exit"
                        => state'[q] = "SHUTTING" /\ work_list'[q] = <<>>
                   /\ state'[q] = "SHUTTING" => main' \notin Boot \cup {"loaded"}
                   /\ q = "recv" /\ state'[q] = "SHUTTING" => main' \notin Running
        <5>1. /\ state[q] = "SHUTTING" => main \notin Boot \cup {"loaded"}
              /\ q = "recv" /\ state[q] = "SHUTTING" => main \notin Running
          BY DEF IInv, ThreadPools
        <5>2. UNCHANGED <<state, work_list, main>>
          BY <1>2
        <5> QED
          BY <3>8, <3>9, <5>1, <5>2
      <4>4. ThreadPools'
        BY <4>2, <4>3 DEF ThreadPools
      <4> QED
        BY <4>1, <4>4
  <2> QED
    BY <1>2, <2>1, <2>2
<1> QED
  BY <1>2, <1>3, <1>4, <1>5, Unaffected, TypesUnaffected, CountsUnaffected, PartsOfPools
     DEF IInv, Types
-----------------------------------------------------------------------------
(* What a worker does to its thread pool when it takes a work. *)
LEMMA TakesWork ==
  ASSUME IInv, NEW w \in Worker, WorkerTake(w), NEW p \in Pool, p = PoolOf(w)
  PROVE  /\ pc[w] = "none" /\ world[w] = "look" /\ world'[w] = "work"
         /\ pc'[w] = IF w \in SendWorker THEN "msg" ELSE "handle"
         /\ data'[w] = Head(work_list[p])
         /\ \A v \in Worker : v # w => /\ pc'[v] = pc[v] /\ data'[v] = data[v]
                                       /\ world'[v] = world[v]
         /\ work_list[p] # <<>> /\ work_list'[p] = Tail(work_list[p])
         /\ \A q \in Pool : q # p => work_list'[q] = work_list[q]
         /\ work_list' = [q \in Pool |-> work_list'[q]]
         /\ TypePool' /\ ThreadPools' /\ WorksBounded'
<1> USE DEF WorkerTake, TakeWork
<1>1. /\ world[w] = "look" /\ world'[w] = "work"
      /\ \A v \in Worker : v # w => world'[v] = world[v]
  BY DEF IInv, Types, TypePool
<1>2. pc[w] = "none"
  BY <1>1 DEF IInv, Workers
<1>3. /\ pc'[w] = IF w \in SendWorker THEN "msg" ELSE "handle"
      /\ data'[w] = Head(work_list[p])
      /\ \A v \in Worker : v # w => pc'[v] = pc[v] /\ data'[v] = data[v]
  BY DEF IInv, Types, TypeWork
<1>4. /\ work_list[p] # <<>> /\ work_list'[p] = Tail(work_list[p])
      /\ \A q \in Pool : q # p => work_list'[q] = work_list[q]
      /\ work_list' = [q \in Pool |-> work_list'[q]]
  BY DEF IInv, Types, TypeList
<1>5. TypePool'
  BY DEF IInv, Types, TypePool
<1>6. ThreadPools'
  <2>1. \A q \in Pool : work_list'[q] = <<>> \/ \A v \in Team(q) : world[v] # "exit"
    BY <1>4 DEF IInv, ThreadPools
  <2> QED
    BY <1>1, <2>1, ThreadPoolsKept
<1>7. WorksBounded'
  <2> DEFINE W == {v \in Team("recv") : world[v] = "work"}
             V == {v \in Team("recv") : world'[v] = "work"}
  <2>1. /\ Cardinality(W) \in Nat
        /\ Cardinality(V) = Cardinality(W)
             + (IF w \in RecvWorker /\ world'[w] = "work" THEN 1 ELSE 0)
             - (IF w \in RecvWorker /\ world[w] = "work" THEN 1 ELSE 0)
    BY <1>1, OneWork
  <2>2. Len(work_list["recv"]) + Cardinality(W) <= WorkMax
    BY PartsOfPools DEF IInv, WorksBounded, Works
  <2>3. Len(work_list["recv"]) \in Nat
    BY CountsAreNat DEF NList
  <2> HIDE DEF V, W
  <2>4. Len(work_list'["recv"]) + Cardinality(V) <= WorkMax
    <3>1. CASE w \in SendWorker
      <4>1. p = "send" /\ w \notin RecvWorker
        BY <3>1, Teams DEF PoolOf
      <4>2. work_list'["recv"] = work_list["recv"]
        BY <1>4, <4>1 DEF Pool
      <4> QED
        BY <2>1, <2>2, <2>3, <4>1, <4>2
    <3>2. CASE w \notin SendWorker
      <4>1. p = "recv" /\ w \in RecvWorker
        BY <3>2 DEF PoolOf, Worker
      <4>2. Len(work_list'["recv"]) = Len(work_list["recv"]) - 1
        BY <1>4, <4>1, TailOf DEF IInv, Types, TypeList
      <4> QED
        BY <1>1, <2>1, <2>2, <2>3, <4>1, <4>2
    <3> QED
      BY <3>1, <3>2
  <2> QED
    BY <2>4 DEF WorksBounded, Works, V
<1> QED
  BY <1>1, <1>2, <1>3, <1>4, <1>5, <1>6, <1>7

(* A worker of send_tp takes a command. *)
LEMMA SenderTakesPreserves ==
  ASSUME IInv, NEW w \in SendWorker, WorkerTake(w)
  PROVE  IInv'
<1> DEFINE c == Head(work_list["send"])
<1>0. w \in Worker /\ "send" \in Pool /\ "send" = PoolOf(w) /\ w \notin RecvWorker
  BY Teams DEF Pool
<1>1. /\ pc[w] = "none" /\ pc'[w] = "msg" /\ data'[w] = c /\ world'[w] = "work"
      /\ \A v \in Worker : v # w => /\ pc'[v] = pc[v] /\ data'[v] = data[v]
                                    /\ world'[v] = world[v]
      /\ work_list["send"] # <<>> /\ work_list'["send"] = Tail(work_list["send"])
      /\ work_list'["recv"] = work_list["recv"]
      /\ work_list' = [q \in Pool |-> work_list'[q]]
      /\ TypePool' /\ ThreadPools' /\ WorksBounded'
  BY <1>0, TakesWork DEF Pool
<1>2. UNCHANGED <<bp, cmdVars, chanVars, netVars, recvVars, srvVars, endVars>>
  BY DEF WorkerTake
<1>3. /\ c \in Cmd /\ work_list'["send"] \in Seq(Cmd)
      /\ \A y : InQueue(y, work_list["send"]) <=> y = c \/ InQueue(y, work_list'["send"])
      /\ Distinct(work_list'["send"], Cmd) /\ ~InQueue(c, work_list'["send"])
  <2>1. work_list["send"] \in Seq(Cmd) /\ Distinct(work_list["send"], Cmd)
    BY DEF IInv, Types, TypeList, SendersApart
  <2> QED
    BY <1>1, <2>1, TailOf
<1> HIDE DEF c
<1>4. /\ cmd[c] = "queued" /\ InQueue(c, work_list["send"])
      /\ \A v \in SendWorker : pc[v] # "none" => data[v] # c
  BY <1>3 DEF IInv, SendersApart
<1>5. TypeWork' /\ TypeList'
  <2>1. pc' \in [Worker -> {"none", "handle", "resp"} \cup Early \cup Locked]
    BY DEF WorkerTake, IInv, Types, TypeWork, Early
  <2>2. data' \in [Worker -> Cmd \cup {NoWork, CLOSED}]
    <3>1. data' = [data EXCEPT ![w] = c]
      BY <1>0 DEF WorkerTake, TakeWork, c
    <3> QED
      BY <1>3, <3>1 DEF IInv, Types, TypeWork
  <2>3. TypeList'
    BY <1>1, <1>3 DEF IInv, Types, TypeList
  <2> QED
    BY <2>1, <2>2, <2>3 DEF TypeWork
<1>6. Workers'
  <2>1. \A v \in Worker : pc'[v] # "none" => world'[v] = "work"
    BY <1>1 DEF IInv, Workers
  <2>2. \A v \in SendWorker :
          /\ pc'[v] \in {"none"} \cup Early \cup Locked
          /\ pc'[v] # "none" => data'[v] \in Cmd /\ cmd'[data'[v]] = "queued"
          /\ pc'[v] \in {"payload", "body"} => ~isRead'[data'[v]]
    BY <1>1, <1>2, <1>3, <1>4 DEF IInv, Workers, Early, Worker
  <2>3. \A v \in RecvWorker : pc'[v] = pc[v] /\ data'[v] = data[v]
    BY <1>0, <1>1 DEF Worker
  <2> QED
    BY <2>1, <2>2, <2>3 DEF IInv, Workers
<1>7. SendersApart'
  BY <1>1, <1>2, <1>3, <1>4, Teams DEF IInv, SendersApart
<1>8. LockHeld'
  BY <1>1, <1>2, Teams DEF IInv, LockHeld, Locked
<1>9. \A d : /\ Served(d)' = Served(d) /\ Arrived(d)' = Arrived(d)
             /\ Listed(d)' = Listed(d) /\ Handled(d)' = Handled(d)
             /\ Responding(d)' = Responding(d) /\ Answered(d)' = Answered(d)
  BY <1>1, <1>2, SenderStations
<1>10. \A d : Asked(d)' = Asked(d) /\ Complete(d)' = Complete(d)
  BY <1>2, <1>9 DEF Asked, Complete
<1>11. \A d \in Cmd : Fresh(d)' => Fresh(d)
  BY <1>0, <1>1, <1>2, <1>3, Teams DEF Fresh
<1>12. FreshUnsent'
  BY <1>1, <1>2, <1>9, <1>10, <1>11, Teams DEF IInv, FreshUnsent, Locked
<1>13. InTable' /\ Exclusive'
  BY <1>2, <1>9, <1>10 DEF IInv, InTable, Exclusive
<1>14. Once'
  BY <1>0, <1>1, <1>2, Teams DEF IInv, Once
<1>15. Lifecycle'
  BY <1>0, <1>1, <1>2, <1>3, <1>4 DEF IInv, Lifecycle
<1>16. Connection'
  <2>1. \A v \in Worker :
          pc'[v] # "none" /\ data'[v] = CLOSED => pc[v] # "none" /\ data[v] = CLOSED
    BY <1>1, <1>3
  <2>2. \A v \in Worker : pc'[v] \in Closing \cup {"closing"} => pc'[v] = pc[v]
    BY <1>1 DEF Closing
  <2> QED
    BY <1>1, <1>2, <1>10, <2>1, <2>2 DEF IInv, Connection
<1>17. Sending' = Sending /\ At("handle")' = At("handle") /\ At("resp")' = At("resp")
  BY <1>0, <1>1, Teams DEF Sending, At
<1>18. Pending' = Pending
  BY <1>1, <1>2, <1>17, Teams DEF Pending, Sending
<1>19. /\ SendingWrites' = SendingWrites /\ PendingWrites' = PendingWrites
       /\ HandledReads' = HandledReads
  <2>1. SendingWrites' = SendingWrites
    BY <1>1, <1>2, <1>17 DEF SendingWrites, Sending, Worker
  <2>2. PendingWrites' = PendingWrites
    BY <1>2, <1>18 DEF PendingWrites
  <2>3. HandledReads' = HandledReads
    BY <1>0, <1>1, <1>2, <1>17 DEF HandledReads, At, Worker
  <2> QED
    BY <2>1, <2>2, <2>3
<1>20. ListedReads' = ListedReads
  BY <1>1, <1>2 DEF ListedReads, Received
<1>21. MsgsAccounted' /\ PayloadsAccounted'
  <2>1. MsgsHeld' = MsgsHeld
    BY <1>1, <1>2, <1>17, <1>18, CountsKept, MsgSums
  <2>2. PayloadsHeld' = PayloadsHeld
    BY <1>1, <1>2, <1>17, <1>19, <1>20, CountsKept, PayloadSums
  <2> QED
    BY <1>2, <2>1, <2>2, PartsOfPools DEF IInv, MsgsAccounted, PayloadsAccounted
<1> QED
  BY <1>1, <1>2, <1>5, <1>6, <1>7, <1>8, <1>12, <1>13, <1>14, <1>15, <1>16, <1>21,
     Unaffected, TypesUnaffected, PartsOfPools DEF IInv, Types

(* A worker of the channel's pool takes a received message. *)
LEMMA HandlerTakesPreserves ==
  ASSUME IInv, NEW w \in RecvWorker, WorkerTake(w)
  PROVE  IInv'
<1>23. PICK x : x = Head(work_list["recv"])
  OBVIOUS
<1>0. w \in Worker /\ "recv" \in Pool /\ "recv" = PoolOf(w) /\ w \notin SendWorker
  BY Teams DEF Pool
<1>1. /\ pc[w] = "none" /\ pc'[w] = "handle" /\ data'[w] = x /\ world'[w] = "work"
      /\ \A v \in Worker : v # w => /\ pc'[v] = pc[v] /\ data'[v] = data[v]
                                    /\ world'[v] = world[v]
      /\ work_list["recv"] # <<>> /\ work_list'["recv"] = Tail(work_list["recv"])
      /\ work_list'["send"] = work_list["send"]
      /\ work_list' = [q \in Pool |-> work_list'[q]]
      /\ TypePool' /\ ThreadPools' /\ WorksBounded'
  BY <1>0, <1>23, TakesWork DEF Pool
<1>2. UNCHANGED <<bp, cmdVars, chanVars, netVars, recvVars, srvVars, endVars>>
  BY DEF WorkerTake
<1>3. /\ x \in Cmd \cup {CLOSED} /\ work_list'["recv"] \in Seq(Cmd \cup {CLOSED})
      /\ \A y : InQueue(y, work_list["recv"]) <=> y = x \/ InQueue(y, work_list'["recv"])
      /\ Distinct(work_list'["recv"], Cmd)
      /\ x \in Cmd => ~InQueue(x, work_list'["recv"])
      /\ Len(work_list'["recv"]) = Len(work_list["recv"]) - 1
  <2>1. work_list["recv"] \in Seq(Cmd \cup {CLOSED}) /\ Distinct(work_list["recv"], Cmd)
    BY DEF IInv, Types, TypeList, Once
  <2> QED
    BY <1>1, <1>23, <2>1, TailOf
<1>4. /\ x \in Reads => NListR' = NListR - 1
      /\ x \notin Reads => NListR' = NListR
  <2>1. work_list["recv"] \in Seq(Cmd \cup {CLOSED})
    BY DEF IInv, Types, TypeList
  <2>2. /\ Cardinality(PlacesOf(Reads, Tail(work_list["recv"]))) \in Nat
        /\ Cardinality(PlacesOf(Reads, work_list["recv"]))
             = Cardinality(PlacesOf(Reads, Tail(work_list["recv"])))
               + (IF x \in Reads THEN 1 ELSE 0)
    BY <1>1, <1>23, <2>1, PlacesTail
  <2>3. TypeList /\ TypeList'
    BY <1>1, <1>3 DEF IInv, Types, TypeList
  <2>4. Reads' = Reads
    BY <1>2 DEF Reads
  <2> QED
    <3>1. /\ ListedReads = PlacesOf(Reads, work_list["recv"])
          /\ ListedReads' = PlacesOf(Reads, Tail(work_list["recv"]))
      BY <1>1, <2>3, <2>4, ListedReadsPlaces
    <3>2. CASE x \in Reads
      BY <2>2, <3>1, <3>2 DEF NListR
    <3>3. CASE x \notin Reads
      BY <2>2, <3>1, <3>3 DEF NListR
    <3> QED
      BY <3>2, <3>3
<1>5. TypeWork' /\ TypeList'
  <2>1. pc' \in [Worker -> {"none", "handle", "resp"} \cup Early \cup Locked]
    BY DEF WorkerTake, IInv, Types, TypeWork, Early
  <2>2. data' \in [Worker -> Cmd \cup {NoWork, CLOSED}]
    <3>1. data' = [data EXCEPT ![w] = x]
      BY <1>0, <1>23 DEF WorkerTake, TakeWork
    <3> QED
      BY <1>3, <3>1 DEF IInv, Types, TypeWork
  <2>3. TypeList'
    BY <1>1, <1>3 DEF IInv, Types, TypeList
  <2> QED
    BY <2>1, <2>2, <2>3 DEF TypeWork
<1>20. \A v \in SendWorker : pc'[v] = pc[v] /\ data'[v] = data[v]
  BY <1>0, <1>1 DEF Worker
<1>6. Workers'
  <2>1. \A v \in Worker : pc'[v] # "none" => world'[v] = "work"
    BY <1>1 DEF IInv, Workers
  <2>2. \A v \in RecvWorker :
          /\ pc'[v] \in {"none", "handle", "resp"} \cup Closing
          /\ pc'[v] = "handle" => data'[v] \in Cmd \cup {CLOSED}
          /\ pc'[v] = "resp" => data'[v] \in Cmd
          /\ pc'[v] \in Closing => data'[v] = CLOSED
    BY <1>1, <1>3 DEF IInv, Workers, Closing, Worker
  <2> QED
    BY <1>2, <1>20, <2>1, <2>2 DEF IInv, Workers
<1>7. SendersApart' /\ LockHeld'
  BY <1>1, <1>2, <1>20 DEF IInv, SendersApart, LockHeld
<1>8. \A c \in Cmd : /\ Asked(c)' <=> Asked(c)
                     /\ Served(c)' <=> Served(c)
                     /\ Arrived(c)' <=> Arrived(c)
                     /\ Responding(c)' <=> Responding(c)
                     /\ Listed(c)' <=> Listed(c) /\ c # x
                     /\ Handled(c)' <=> Handled(c) \/ c = x
                     /\ c = x => Listed(c)
  <2> TAKE c \in Cmd
  <2>1. /\ Asked(c)' <=> Asked(c)
        /\ Served(c)' <=> Served(c)
        /\ Arrived(c)' <=> Arrived(c)
    BY <1>2 DEF Asked, Served, Arrived
  <2>2. /\ Listed(c)' <=> Listed(c) /\ c # x
        /\ c = x => Listed(c)
    BY <1>3 DEF Listed
  <2>3. /\ Responding(c)' <=> Responding(c)
        /\ Handled(c)' <=> Handled(c) \/ c = x
    BY <1>1, Teams DEF Responding, Handled
  <2> QED
    BY <2>1, <2>2, <2>3
<1>9. \A c \in Cmd : (Complete(c)' <=> Complete(c)) /\ (Fresh(c)' <=> Fresh(c))
  <2> TAKE c \in Cmd
  <2>1. Complete(c)' <=> Complete(c)
    BY <1>2, <1>8 DEF Complete, Answered
  <2>2. Fresh(c)' <=> Fresh(c)
    BY <1>0, <1>1, <1>2, Teams DEF Fresh
  <2> QED
    BY <2>1, <2>2
<1>10. FreshUnsent'
  BY <1>2, <1>8, <1>9, <1>20 DEF IInv, FreshUnsent, Workers, Locked
<1>11. InTable'
  BY <1>2, <1>8, <1>9 DEF IInv, InTable
<1>12. Exclusive'
  BY <1>8 DEF IInv, Exclusive
<1>13. Once'
  <2>1. \A v \in RecvWorker :
          pc[v] \in {"handle", "resp"} /\ data[v] = x /\ x # CLOSED => FALSE
    <3> SUFFICES ASSUME NEW v \in RecvWorker, pc[v] \in {"handle", "resp"}, data[v] = x,
                        x \in Cmd
                 PROVE  FALSE
      BY <1>3
    <3>1. Listed(x)
      BY <1>8
    <3>2. CASE pc[v] = "handle"
      BY <3>1, <3>2 DEF IInv, Exclusive, Handled
    <3>3. CASE pc[v] = "resp"
      BY <3>1, <3>3 DEF IInv, InTable, Complete, Answered, Responding
    <3> QED
      BY <3>2, <3>3
  <2> QED
    BY <1>1, <1>2, <1>3, <2>1, Teams DEF IInv, Once
<1>14. Lifecycle'
  BY <1>0, <1>1, <1>2 DEF IInv, Lifecycle
<1>15. Connection'
  <2>1. x = CLOSED => InQueue(CLOSED, work_list["recv"])
    BY <1>3
  <2>2. InQueue(CLOSED, work_list'["recv"]) => InQueue(CLOSED, work_list["recv"])
    BY <1>3
  <2>3. \A v \in Worker : pc'[v] \in Closing \cup {"closing"} => pc'[v] = pc[v]
    BY <1>1 DEF Closing
  <2>4. \A c \in Cmd : Asked(c)' = Asked(c)
    BY <1>2 DEF Asked
  <2> QED
    BY <1>1, <1>2, <2>1, <2>2, <2>3, <2>4 DEF IInv, Connection
<1>16. /\ Sending' = Sending /\ At("resp")' = At("resp") /\ Pending' = Pending
       /\ SendingWrites' = SendingWrites /\ PendingWrites' = PendingWrites
  <2>1. Sending' = Sending /\ At("resp")' = At("resp")
    BY <1>0, <1>1, Teams DEF Sending, At
  <2>2. Pending' = Pending
    BY <1>2, <1>20, <2>1 DEF Pending, Sending
  <2> QED
    BY <1>2, <1>20, <2>1, <2>2 DEF SendingWrites, PendingWrites, Sending
<1>17. /\ NHandle' = NHandle + 1 /\ NHandleR' \in Nat
       /\ x \in Reads => NHandleR' = NHandleR + 1
       /\ x \notin Reads => NHandleR' = NHandleR
  <2>1. w \in At("handle")' /\ w \notin At("handle") /\ w \notin HandledReads
    BY <1>1 DEF At, HandledReads
  <2>2. w \in HandledReads' <=> x \in Reads
    BY <1>1, <1>2, <1>3, <2>1 DEF HandledReads, Reads
  <2>3. Moved(w, At("handle"), At("handle")') /\ Moved(w, HandledReads, HandledReads')
    BY <1>0, <1>1, <1>2, OneWorker
  <2> QED
    BY <2>1, <2>2, <2>3 DEF Moved, NHandle, NHandleR
<1>21. /\ NSend \in Nat /\ NPend \in Nat /\ NHandle \in Nat /\ NResp \in Nat
       /\ NSendW \in Nat /\ NPendW \in Nat /\ NHandleR \in Nat /\ NListR \in Nat
       /\ NList \in Nat
  BY CountsAreNat
<1>22. /\ NSend' = NSend /\ NPend' = NPend /\ NResp' = NResp
       /\ NSendW' = NSendW /\ NPendW' = NPendW
  BY <1>16, CountsKept
<1>18. MsgsAccounted'
  <2>1. MsgRecv' = MsgRecv /\ MsgRecv \in Nat
    BY <1>2, MsgSums
  <2>2. NList' = NList - 1
    BY <1>3 DEF NList
  <2>3. MsgsHeld' = MsgsHeld
    BY <1>17, <1>21, <1>22, <2>1, <2>2, MsgSums
  <2> QED
    BY <1>2, <2>3, PartsOfPools DEF IInv, MsgsAccounted
<1>19. PayloadsAccounted'
  <2>1. PayloadRecv' = PayloadRecv /\ PayloadRecv \in Nat
    BY <1>2, PayloadSums
  <2>2. PICK r \in Nat : NListR' = NListR - r /\ NHandleR' = NHandleR + r
    <3>1. CASE x \in Reads
      <4>1. NListR' = NListR - 1 /\ NHandleR' = NHandleR + 1
        BY <1>4, <1>17, <3>1
      <4> QED
        BY <4>1
    <3>2. CASE x \notin Reads
      <4>1. NListR' = NListR - 0 /\ NHandleR' = NHandleR + 0
        BY <1>4, <1>17, <1>21, <3>2
      <4> QED
        BY <4>1
    <3> QED
      BY <3>1, <3>2
  <2>4. PayloadsHeld' = PayloadsHeld
    BY <1>21, <1>22, <2>1, <2>2, PayloadSums
  <2> QED
    BY <1>2, <2>4, PartsOfPools DEF IInv, PayloadsAccounted
<1> QED
  BY <1>1, <1>2, <1>5, <1>6, <1>7, <1>10, <1>11, <1>12, <1>13, <1>14, <1>15, <1>18, <1>19,
     Unaffected, TypesUnaffected, PartsOfPools DEF IInv, Types
-----------------------------------------------------------------------------
(* A worker goes on within its work: what only the places of its team say  *)
(* is kept.                                                                *)
LEMMA WorkerGoes ==
  ASSUME IInv, NEW w \in Worker, NEW to, Go(w, to), UNCHANGED <<tpVars, cmdVars>>,
         pc[w] # "none",
         w \in SendWorker => /\ to \in Early \cup Locked
                             /\ to \in {"payload", "body"} => ~isRead[data[w]],
         w \in RecvWorker => \/ pc[w] \in Closing /\ to \in Closing
                             \/ pc[w] = "handle" /\ data[w] \in Cmd /\ to = "resp"
                             \/ pc[w] = "handle" /\ data[w] = CLOSED /\ to = "close"
  PROVE  /\ pc'[w] = to /\ \A v \in Worker : v # w => pc'[v] = pc[v]
         /\ TypeWork' /\ Workers' /\ SendersApart'
         /\ main \notin Boot
<1>0. w \in SendWorker \/ w \in RecvWorker
  BY DEF Worker
<1>1. pc'[w] = to /\ \A v \in Worker : v # w => pc'[v] = pc[v]
  BY DEF Go, IInv, Types, TypeWork
<1>2. TypeWork'
  <2>1. to \in {"none", "handle", "resp"} \cup Early \cup Locked
    BY <1>0 DEF Closing, Locked
  <2>2. pc' \in [Worker -> {"none", "handle", "resp"} \cup Early \cup Locked]
    BY <2>1 DEF Go, IInv, Types, TypeWork
  <2> QED
    BY <2>2 DEF IInv, Types, TypeWork
<1>3. Workers'
  <2>1. \A v \in Worker : pc'[v] # "none" => world'[v] = "work"
    BY <1>1 DEF IInv, Workers
  <2>2. \A v \in SendWorker :
          /\ pc'[v] \in {"none"} \cup Early \cup Locked
          /\ pc'[v] # "none" => data'[v] \in Cmd /\ cmd'[data'[v]] = "queued"
          /\ pc'[v] \in {"payload", "body"} => ~isRead'[data'[v]]
    BY <1>1 DEF IInv, Workers, Worker
  <2>3. ASSUME NEW v \in RecvWorker
        PROVE  /\ pc'[v] \in {"none", "handle", "resp"} \cup Closing
               /\ pc'[v] = "handle" => data'[v] \in Cmd \cup {CLOSED}
               /\ pc'[v] = "resp" => data'[v] \in Cmd
               /\ pc'[v] \in Closing => data'[v] = CLOSED
    <3>1. CASE v = w
      BY <1>1, <3>1 DEF IInv, Workers, Closing
    <3>2. CASE v # w
      BY <1>1, <3>2 DEF IInv, Workers, Worker
    <3> QED
      BY <3>1, <3>2
  <2> QED
    BY <2>1, <2>2, <2>3 DEF Workers
<1>4. SendersApart'
  <2>1. \A v \in SendWorker : pc'[v] # "none" => pc[v] # "none"
    BY <1>1 DEF Worker
  <2> QED
    BY <2>1 DEF IInv, SendersApart
<1>5. main \notin Boot
  BY DEF IInv, Lifecycle
<1> QED
  BY <1>1, <1>2, <1>3, <1>4, <1>5

(* Steps of a sender that change its place, and at most the pools, and the *)
(* test of enabled by a worker that closes the channel.                    *)
LEMMA MoveKeeps ==
  ASSUME IInv, NEW w \in Worker, NEW to, Go(w, to),
         UNCHANGED <<tpVars, cmdVars, lock, hash, out, in, recvVars, srvVars, endVars>>,
         \/ UNCHANGED <<enabled, sock, up>>
         \/ pc[w] = "closing" /\ ~up',
         \A q \in BufPool : bp'[q].state = bp[q].state,
         \/ w \in SendWorker /\ pc[w] \in {"msg", "msgwait"} /\ to = AfterMsg(w)
         \/ w \in SendWorker /\ pc[w] = "payload" /\ to \in {"enabled", "error"}
         \/ w \in SendWorker /\ pc[w] = "msg" /\ to = "msgwait"
         \/ w \in SendWorker /\ pc[w] = "enabled" /\ to \in {"lock", "error"}
         \/ w \in SendWorker /\ pc[w] \in {"hdr", "body"} /\ to = "close" /\ ~up
         \/ pc[w] = "close" /\ to \in {"closing", "closed"} /\ (to = "closing" => enabled)
         \/ pc[w] = "closing" /\ to = "closed"
  PROVE  /\ pc'[w] = to /\ \A v \in Worker : v # w => pc'[v] = pc[v]
         /\ TypeWork' /\ Workers' /\ SendersApart' /\ LockHeld' /\ FreshUnsent' /\ InTable'
         /\ Exclusive' /\ Once' /\ Lifecycle' /\ Connection'
         /\ At("handle")' = At("handle") /\ At("resp")' = At("resp")
         /\ HandledReads' = HandledReads /\ ListedReads' = ListedReads
<1>0. /\ pc[w] # "none" /\ (w \in RecvWorker => w \notin SendWorker)
      /\ w \in SendWorker \/ w \in RecvWorker
  BY Teams DEF Worker
<1>1. /\ pc'[w] = to /\ \A v \in Worker : v # w => pc'[v] = pc[v]
      /\ TypeWork' /\ Workers' /\ SendersApart'
      /\ main \notin Boot
  <2>1. w \in SendWorker => /\ to \in Early \cup Locked
                            /\ to \in {"payload", "body"} => ~isRead[data[w]]
    BY DEF Early, Locked, AfterMsg
  <2>2. w \in RecvWorker => pc[w] \in Closing /\ to \in Closing
    BY <1>0 DEF Closing
  <2> QED
    BY <1>0, <2>1, <2>2, WorkerGoes
<1>2. /\ \A v \in SendWorker : /\ pc'[v] \in Early <=> pc[v] \in Early
                               /\ pc'[v] \in Locked <=> pc[v] \in Locked
                               /\ pc'[v] \in Locked \ {"unlock"}
                                    <=> pc[v] \in Locked \ {"unlock"}
                               /\ pc'[v] = "hdr" => pc[v] = "hdr"
                               /\ pc'[v] = "none" <=> pc[v] = "none"
      /\ \A v \in RecvWorker : /\ pc'[v] = "handle" <=> pc[v] = "handle"
                               /\ pc'[v] = "resp" <=> pc[v] = "resp"
  BY <1>0, <1>1 DEF Early, Locked, Worker, AfterMsg
<1>3. \A c : /\ Asked(c)' = Asked(c)
             /\ Served(c)' = Served(c) /\ Arrived(c)' = Arrived(c) /\ Listed(c)' = Listed(c)
             /\ Handled(c)' = Handled(c) /\ Responding(c)' = Responding(c)
             /\ Complete(c)' = Complete(c) /\ Fresh(c)' = Fresh(c)
  <2> TAKE c
  <2>1. /\ Asked(c)' = Asked(c)
        /\ Served(c)' = Served(c) /\ Arrived(c)' = Arrived(c) /\ Listed(c)' = Listed(c)
    BY DEF Asked, Served, Arrived, Listed
  <2>2. Handled(c)' = Handled(c) /\ Responding(c)' = Responding(c)
    BY <1>2 DEF Handled, Responding
  <2>3. Complete(c)' = Complete(c)
    BY <2>1, <2>2 DEF Complete, Answered
  <2>4. Fresh(c)' = Fresh(c)
    BY <1>2 DEF Fresh
  <2> QED
    BY <2>1, <2>2, <2>3, <2>4
<1>4. LockHeld'
  BY <1>2 DEF IInv, LockHeld
<1>5. FreshUnsent'
  BY <1>2, <1>3 DEF IInv, FreshUnsent
<1>6. InTable' /\ Exclusive'
  BY <1>3 DEF IInv, InTable, Exclusive
<1>7. Once'
  BY <1>2 DEF IInv, Once
<1>8. Lifecycle'
  BY <1>1 DEF IInv, Lifecycle, BufPool, Running, Boot
<1>9. Connection'
  <2>1. CASE pc[w] = "closing" /\ ~up'
    <3>1. "link" \in faults'
      BY <2>1 DEF IInv, Connection
    <3> QED
      BY <2>1, <3>1 DEF Connection
  <2>2. CASE UNCHANGED <<enabled, sock, up>>
    <3>1. \A v \in Worker : pc'[v] # "none" => pc[v] # "none"
      BY <1>0, <1>1
    <3>2. pc[w] \in Closing => ~up
      BY DEF IInv, Connection
    <3>3. \A v \in Worker : pc'[v] \in Closing => ~up
      <4>1. \A v \in Worker : pc[v] \in Closing => ~up
        BY DEF IInv, Connection
      <4> QED
        BY <1>1, <3>2, <4>1 DEF Closing, AfterMsg
    <3>4. to = "closing" => "link" \in faults
      <4> SUFFICES ASSUME to = "closing" PROVE "link" \in faults
        OBVIOUS
      <4>1. pc[w] = "close" /\ enabled /\ ~up
        BY <3>2 DEF Closing, AfterMsg
      <4> QED
        BY <4>1 DEF IInv, Connection
    <3>5. \A v \in Worker : "link" \notin faults => pc'[v] # "closing"
      BY <1>1, <3>4 DEF IInv, Connection
    <3> QED
      BY <1>3, <2>2, <3>1, <3>3, <3>5 DEF IInv, Connection
  <2> QED
    BY <2>1, <2>2
<1>10. /\ At("handle")' = At("handle") /\ At("resp")' = At("resp")
       /\ HandledReads' = HandledReads /\ ListedReads' = ListedReads
  <2>1. At("handle")' = At("handle") /\ At("resp")' = At("resp")
    BY <1>2 DEF At
  <2> QED
    BY <2>1 DEF HandledReads, ListedReads, Received
<1> QED
  BY <1>1, <1>4, <1>5, <1>6, <1>7, <1>8, <1>9, <1>10

(* Steps that change nothing but the place of a worker: a sender waits for *)
(* a message, tests enabled or fails to write, and a worker that closes    *)
(* the channel tests enabled.                                              *)
LEMMA MovePreserves ==
  ASSUME IInv, NEW w \in Worker, NEW to, Go(w, to),
         UNCHANGED <<bp, tpVars, cmdVars, lock, hash, out, in, recvVars, srvVars, endVars>>,
         \/ UNCHANGED <<enabled, sock, up>>
         \/ pc[w] = "closing" /\ enabled' = FALSE /\ up' = FALSE,
         \/ w \in SendWorker /\ pc[w] = "msg" /\ to = "msgwait"
         \/ w \in SendWorker /\ pc[w] = "enabled" /\ to \in {"lock", "error"}
         \/ w \in SendWorker /\ pc[w] \in {"hdr", "body"} /\ to = "close" /\ ~up
         \/ pc[w] = "close" /\ to \in {"closing", "closed"} /\ (to = "closing" => enabled)
         \/ pc[w] = "closing" /\ to = "closed"
  PROVE  IInv'
<1>1. /\ pc'[w] = to /\ \A v \in Worker : v # w => pc'[v] = pc[v]
      /\ TypeWork' /\ Workers' /\ SendersApart' /\ LockHeld' /\ FreshUnsent' /\ InTable'
      /\ Exclusive' /\ Once' /\ Lifecycle' /\ Connection'
      /\ At("handle")' = At("handle") /\ At("resp")' = At("resp")
      /\ HandledReads' = HandledReads /\ ListedReads' = ListedReads
  BY MoveKeeps
<1>2. \A v \in SendWorker : /\ pc'[v] \in {"none", "msg", "msgwait"}
                                 <=> pc[v] \in {"none", "msg", "msgwait"}
                            /\ pc'[v] = "payload" <=> pc[v] = "payload"
  BY <1>1 DEF Worker
<1>3. /\ Sending' = Sending /\ SendingWrites' = SendingWrites
      /\ Pending' = Pending /\ PendingWrites' = PendingWrites
  <2>1. Sending' = Sending
    BY <1>2 DEF Sending
  <2>2. SendingWrites' = SendingWrites
    BY <1>2, <2>1 DEF SendingWrites, Sending
  <2>3. Pending' = Pending
    BY <2>1 DEF Pending
  <2> QED
    BY <2>1, <2>2, <2>3 DEF PendingWrites
<1>4. MsgsAccounted' /\ PayloadsAccounted'
  <2>1. MsgsHeld' = MsgsHeld
    BY <1>1, <1>3, CountsKept, MsgSums
  <2>2. PayloadsHeld' = PayloadsHeld
    BY <1>1, <1>3, CountsKept, PayloadSums
  <2> QED
    BY <2>1, <2>2, PartsOfPools DEF IInv, MsgsAccounted, PayloadsAccounted
<1>5. TypeChan' /\ TypeNet'
  BY DEF IInv, Types, TypeChan, TypeNet
<1> QED
  BY <1>1, <1>4, <1>5, Unaffected, TypesUnaffected, PartsOfPools DEF IInv, Types

(* rpc_async_request, RequestFails, TestEnabled and rpc_chan_close are     *)
(* such steps.                                                             *)
LEMMA WorkerMovesPreserve ==
  ASSUME IInv, NEW w \in Worker,
         rpc_async_request(w) \/ RequestFails(w) \/ TestEnabled(w) \/ rpc_chan_close(w)
  PROVE  IInv'
<1>0. w \in RecvWorker => pc[w] \notin {"enabled", "hdr", "body"}
  BY DEF IInv, Workers, Closing
<1>1. CASE rpc_async_request(w)
  <2>1. w \in SendWorker /\ pc[w] = "enabled"
    BY <1>0, <1>1 DEF rpc_async_request, Run, Worker
  <2>2. CASE enabled
    BY <1>1, <2>1, <2>2, MovePreserves DEF rpc_async_request
  <2>3. CASE ~enabled
    BY <1>1, <2>1, <2>3, MovePreserves DEF rpc_async_request
  <2> QED
    BY <2>2, <2>3
<1>2. CASE RequestFails(w)
  <2>1. w \in SendWorker /\ pc[w] \in {"hdr", "body"} /\ ~up
    BY <1>0, <1>2 DEF RequestFails, Run, Worker
  <2> QED
    BY <1>2, <2>1, MovePreserves DEF RequestFails
<1>3. CASE TestEnabled(w)
  <2>1. pc[w] = "close"
    BY <1>3 DEF TestEnabled, Run
  <2>2. CASE enabled
    BY <1>3, <2>1, <2>2, MovePreserves DEF TestEnabled
  <2>3. CASE ~enabled
    BY <1>3, <2>1, <2>3, MovePreserves DEF TestEnabled
  <2> QED
    BY <2>2, <2>3
<1>4. CASE rpc_chan_close(w)
  <2>1. pc[w] = "closing"
    BY <1>4 DEF rpc_chan_close, Run
  <2>2. CASE sock = "closed"
    BY <1>4, <2>1, <2>2, CrashPreserves DEF rpc_chan_close, Crash, Cause
  <2>3. CASE sock # "closed"
    BY <1>4, <2>1, <2>3, MovePreserves DEF rpc_chan_close, socket_close
  <2> QED
    BY <2>2, <2>3
<1> QED
  BY <1>1, <1>2, <1>3, <1>4

(* A message for a request. *)
LEMMA MsgGetPreserves ==
  ASSUME IInv, NEW w \in Worker, rpc_msg_get(w)
  PROVE  IInv'
<1>1. w \in SendWorker /\ pc[w] \in {"msg", "msgwait"} /\ data[w] \in Cmd
  <2>1. w \in RecvWorker => pc[w] \notin {"msg", "msgwait"}
    BY DEF IInv, Workers, Closing
  <2> QED
    BY <2>1 DEF rpc_msg_get, Run, Worker, IInv, Workers
<1>2. bp["msg"].state = "INITIALIZED"
  <2>1. main = "loaded"
    <3>1. cmd[data[w]] = "queued"
      BY <1>1 DEF IInv, Workers
    <3>2. main \notin Boot
      BY <1>1 DEF IInv, Lifecycle
    <3> QED
      BY <1>1, <3>1, <3>2 DEF IInv, Lifecycle
  <2> QED
    BY <2>1 DEF IInv, Lifecycle, Running
<1>3. CASE pc[w] = "msg" /\ Go(w, "msgwait") /\ UNCHANGED bp
  <2>1. UNCHANGED <<bp, tpVars, cmdVars, chanVars, netVars, recvVars, srvVars, endVars>>
    BY <1>2, <1>3 DEF rpc_msg_get
  <2> QED
    BY <1>1, <1>3, <2>1, MovePreserves
<1>4. CASE _bufpool_get("msg", FALSE) /\ Go(w, AfterMsg(w))
  <2>1. UNCHANGED <<tpVars, cmdVars, chanVars, netVars, recvVars, srvVars, endVars>>
    BY <1>2 DEF rpc_msg_get
  <2>2. /\ TypeBuf' /\ BuffersSound'
        /\ bp'["msg"].issued = bp["msg"].issued + 1
        /\ bp'["payload"] = bp["payload"]
        /\ \A q \in BufPool : bp'[q].state = bp[q].state
    BY <1>4, GetSound, PartsOfPools DEF IInv, Types, BufPool
  <2>3. /\ pc'[w] = AfterMsg(w) /\ \A v \in Worker : v # w => pc'[v] = pc[v]
        /\ TypeWork' /\ Workers' /\ SendersApart' /\ LockHeld' /\ FreshUnsent' /\ InTable'
        /\ Exclusive' /\ Once' /\ Lifecycle' /\ Connection'
        /\ At("handle")' = At("handle") /\ At("resp")' = At("resp")
        /\ HandledReads' = HandledReads /\ ListedReads' = ListedReads
    BY <1>1, <1>4, <2>1, <2>2, MoveKeeps
  <2>4. NSend' = NSend + 1 /\ NSendW' = NSendW
    <3>1. /\ w \notin Sending /\ w \in Sending'
          /\ w \notin SendingWrites /\ w \notin SendingWrites'
      BY <1>1, <2>1, <2>3 DEF Sending, SendingWrites, AfterMsg
    <3>2. Moved(w, Sending, Sending') /\ Moved(w, SendingWrites, SendingWrites')
      BY <2>1, <2>3, OneWorker
    <3> QED
      BY <3>1, <3>2 DEF Moved, NSend, NSendW
  <2>5. Pending' = Pending /\ PendingWrites' = PendingWrites
    <3>1. data[w] \notin hash
      BY <1>1 DEF IInv, FreshUnsent, Fresh, Early
    <3>2. \A v \in SendWorker : v # w => (v \in Sending' <=> v \in Sending)
      BY <2>3 DEF Sending, Worker
    <3>3. w \notin Sending /\ w \in SendWorker
      BY <1>1 DEF Sending
    <3>4. Pending' = Pending
      BY <2>1, <3>1, <3>2, <3>3 DEF Pending, Sending
    <3> QED
      BY <2>1, <3>4 DEF PendingWrites
  <2>6. /\ NSend \in Nat /\ NPend \in Nat /\ NHandle \in Nat /\ NResp \in Nat
        /\ NSendW \in Nat /\ NPendW \in Nat /\ NHandleR \in Nat /\ NListR \in Nat
        /\ NList \in Nat
    BY CountsAreNat
  <2>7. MsgsAccounted'
    <3>1. NPend' = NPend /\ NHandle' = NHandle /\ NResp' = NResp /\ NList' = NList
      BY <2>1, <2>3, <2>5, CountsKept
    <3>2. MsgsHeld' = MsgsHeld + 1
      BY <2>1, <2>4, <2>6, <3>1, MsgSums
    <3> QED
      BY <2>2, <3>2, PartsOfPools DEF IInv, MsgsAccounted
  <2>8. PayloadsAccounted'
    <3>1. PayloadsHeld' = PayloadsHeld
      BY <2>1, <2>3, <2>4, <2>5, CountsKept, PayloadSums
    <3> QED
      BY <2>2, <3>1, PartsOfPools DEF IInv, PayloadsAccounted
  <2> QED
    BY <2>1, <2>2, <2>3, <2>7, <2>8, Unaffected, TypesUnaffected, PartsOfPools
       DEF IInv, Types
<1> QED
  BY <1>2, <1>3, <1>4 DEF rpc_msg_get

(* A payload for a write. *)
LEMMA PayloadGetPreserves ==
  ASSUME IInv, NEW w \in Worker, rpc_payload_get(w)
  PROVE  IInv'
<1>1. w \in SendWorker /\ pc[w] = "payload" /\ data[w] \in Cmd /\ ~isRead[data[w]]
  <2>1. w \in RecvWorker => pc[w] # "payload"
    BY DEF IInv, Workers, Closing
  <2> QED
    BY <2>1 DEF rpc_payload_get, Run, Worker, IInv, Workers
<1>2. bp["payload"].state = "INITIALIZED"
  <2>1. main = "loaded"
    <3>1. cmd[data[w]] = "queued"
      BY <1>1 DEF IInv, Workers
    <3>2. main \notin Boot
      BY <1>1 DEF IInv, Lifecycle
    <3> QED
      BY <1>1, <3>1, <3>2 DEF IInv, Lifecycle
  <2> QED
    BY <2>1 DEF IInv, Lifecycle, Running
<1>3. PICK to \in {"enabled", "error"} : Go(w, to)
  BY <1>2 DEF rpc_payload_get
<1>4. /\ _bufpool_get("payload", TRUE)
      /\ UNCHANGED <<tpVars, cmdVars, chanVars, netVars, recvVars, srvVars, endVars>>
  BY <1>2 DEF rpc_payload_get
<1>5. /\ TypeBuf' /\ BuffersSound'
      /\ bp'["payload"].issued = bp["payload"].issued + 1
      /\ bp'["msg"] = bp["msg"]
      /\ \A q \in BufPool : bp'[q].state = bp[q].state
  BY <1>4, GetSound, PartsOfPools DEF IInv, Types, BufPool
<1>6. /\ pc'[w] = to /\ \A v \in Worker : v # w => pc'[v] = pc[v]
      /\ TypeWork' /\ Workers' /\ SendersApart' /\ LockHeld' /\ FreshUnsent' /\ InTable'
      /\ Exclusive' /\ Once' /\ Lifecycle' /\ Connection'
      /\ At("handle")' = At("handle") /\ At("resp")' = At("resp")
      /\ HandledReads' = HandledReads /\ ListedReads' = ListedReads
  BY <1>1, <1>3, <1>4, <1>5, MoveKeeps
<1>7. NSendW' = NSendW + 1
  <2>1. w \notin SendingWrites /\ w \in SendingWrites'
    BY <1>1, <1>4, <1>6 DEF Sending, SendingWrites
  <2>2. Moved(w, SendingWrites, SendingWrites')
    BY <1>4, <1>6, OneWorker
  <2> QED
    BY <2>1, <2>2 DEF Moved, NSendW
<1>8. Sending' = Sending /\ Pending' = Pending /\ PendingWrites' = PendingWrites
  <2>1. Sending' = Sending
    BY <1>1, <1>6 DEF Sending, Worker
  <2>2. Pending' = Pending
    BY <1>4, <2>1 DEF Pending
  <2> QED
    BY <1>4, <2>1, <2>2 DEF PendingWrites
<1>9. /\ NSend \in Nat /\ NPend \in Nat /\ NHandle \in Nat /\ NResp \in Nat
      /\ NSendW \in Nat /\ NPendW \in Nat /\ NHandleR \in Nat /\ NListR \in Nat
      /\ NList \in Nat
  BY CountsAreNat
<1>10. MsgsAccounted'
  <2>1. MsgsHeld' = MsgsHeld
    BY <1>4, <1>6, <1>8, CountsKept, MsgSums
  <2> QED
    BY <1>5, <2>1, PartsOfPools DEF IInv, MsgsAccounted
<1>11. PayloadsAccounted'
  <2>1. NPendW' = NPendW /\ NListR' = NListR /\ NHandleR' = NHandleR /\ NResp' = NResp
    BY <1>6, <1>8, CountsKept
  <2>2. PayloadsHeld' = PayloadsHeld + 1
    BY <1>4, <1>7, <1>9, <2>1, PayloadSums
  <2> QED
    BY <1>5, <2>2, PartsOfPools DEF IInv, PayloadsAccounted
<1> QED
  BY <1>4, <1>5, <1>6, <1>10, <1>11, Unaffected, TypesUnaffected, PartsOfPools
     DEF IInv, Types

(* The message is added to the table. *)
LEMMA RequestLockPreserves ==
  ASSUME IInv, NEW w \in Worker, RequestLock(w)
  PROVE  IInv'
<1>1. PICK c \in Cmd : /\ w \in SendWorker /\ pc[w] = "lock" /\ data[w] = c
                       /\ cmd[c] = "queued"
  <2>1. w \in RecvWorker => pc[w] # "lock"
    BY DEF IInv, Workers, Closing
  <2> QED
    BY <2>1 DEF RequestLock, Run, Worker, IInv, Workers
<1>2. /\ lock = NoWork /\ lock' = w /\ hash' = hash \cup {c} /\ Go(w, "hdr")
      /\ UNCHANGED <<bp, tpVars, cmdVars, enabled, netVars, recvVars, srvVars, endVars>>
  BY <1>1 DEF RequestLock
<1>3. /\ pc'[w] = "hdr" /\ \A v \in Worker : v # w => pc'[v] = pc[v]
      /\ TypeWork' /\ Workers' /\ SendersApart'
      /\ main \notin Boot
  <2>1. w \notin RecvWorker
    BY <1>1, Teams
  <2> QED
    BY <1>1, <1>2, <2>1, WorkerGoes DEF Locked
<1>4. c \notin hash /\ ~Asked(c) /\ ~Responding(c) /\ ~Complete(c)
  BY <1>1 DEF IInv, FreshUnsent, Fresh, Early, InTable
<1>5. /\ \A v \in SendWorker : pc[v] \notin Locked
      /\ \A v \in SendWorker : v # w /\ pc[v] # "none" => data[v] # c
      /\ ~InQueue(c, work_list["send"])
  <2>1. \A v \in SendWorker : pc[v] \notin Locked
    BY <1>2 DEF IInv, LockHeld, Worker
  <2>2. \A v \in SendWorker : v # w /\ pc[v] # "none" => data[v] # c
    BY <1>1 DEF IInv, SendersApart
  <2> QED
    BY <1>1, <2>1, <2>2 DEF IInv, SendersApart
<1>6. TypeChan'
  BY <1>1, <1>2 DEF IInv, Types, TypeChan
<1>7. \A d : /\ Served(d)' = Served(d) /\ Arrived(d)' = Arrived(d)
             /\ Listed(d)' = Listed(d) /\ Handled(d)' = Handled(d)
             /\ Responding(d)' = Responding(d) /\ Answered(d)' = Answered(d)
             /\ Asked(d)' = Asked(d) /\ Complete(d)' = Complete(d)
  <2>1. \A d : /\ Served(d)' = Served(d) /\ Arrived(d)' = Arrived(d)
               /\ Listed(d)' = Listed(d) /\ Handled(d)' = Handled(d)
               /\ Responding(d)' = Responding(d) /\ Answered(d)' = Answered(d)
    BY <1>1, <1>2, <1>3, SenderStations
  <2> QED
    BY <1>2, <2>1 DEF Asked, Complete
<1>8. \A d \in Cmd : Fresh(d)' => Fresh(d) /\ d # c
  <2> SUFFICES ASSUME NEW d \in Cmd, Fresh(d)' PROVE Fresh(d) /\ d # c
    OBVIOUS
  <2>1. CASE cmd'[d] = "new" \/ InQueue(d, work_list'["send"])
    BY <1>1, <1>2, <1>5, <2>1 DEF Fresh
  <2>2. CASE \E v \in SendWorker : pc'[v] \in Early /\ data'[v] = d
    <3>1. PICK v \in SendWorker : pc'[v] \in Early /\ data[v] = d
      BY <1>2, <2>2
    <3>2. v # w /\ pc[v] \in Early
      BY <1>3, <3>1 DEF Early, Worker
    <3> QED
      BY <1>5, <3>1, <3>2 DEF Fresh, Early
  <2> QED
    BY <2>1, <2>2 DEF Fresh
<1>9. LockHeld'
  <2>1. \A v \in SendWorker : v # w => pc'[v] \notin Locked /\ lock' # v
    BY <1>2, <1>3, <1>5 DEF Worker
  <2> QED
    BY <1>1, <1>2, <1>3, <2>1 DEF LockHeld, Locked
<1>10. FreshUnsent'
  <2>1. \A d \in Cmd : Fresh(d)' => d \notin hash' /\ ~Asked(d)' /\ ~Responding(d)'
    BY <1>2, <1>7, <1>8 DEF IInv, FreshUnsent
  <2>2. \A v \in SendWorker : v # w => pc'[v] \notin Locked
    BY <1>3, <1>5 DEF Worker
  <2>3. ~Complete(data[w])' /\ ~Asked(data[w])'
    BY <1>1, <1>2, <1>4, <1>7
  <2> QED
    BY <2>1, <2>2, <2>3 DEF FreshUnsent, Locked
<1>11. InTable'
  BY <1>1, <1>2, <1>4, <1>7 DEF IInv, InTable
<1>12. Exclusive'
  BY <1>7 DEF IInv, Exclusive
<1>13. \A v \in RecvWorker : pc'[v] = pc[v]
  BY <1>1, <1>3, Teams
<1>14. Once'
  BY <1>2, <1>13 DEF IInv, Once
<1>15. Lifecycle'
  BY <1>2, <1>3 DEF IInv, Lifecycle
<1>16. Connection'
  <2>1. \A v \in Worker : pc'[v] # "none" => pc[v] # "none"
    BY <1>1, <1>3
  <2>2. \A v \in Worker : pc'[v] \in Closing \cup {"closing"} => pc'[v] = pc[v]
    BY <1>3 DEF Closing
  <2> QED
    BY <1>1, <1>2, <1>3, <1>7, <2>1, <2>2 DEF IInv, Connection
<1>17. /\ Sending' = Sending /\ At("handle")' = At("handle") /\ At("resp")' = At("resp")
       /\ SendingWrites' = SendingWrites /\ HandledReads' = HandledReads
       /\ Pending' = Pending /\ PendingWrites' = PendingWrites /\ ListedReads' = ListedReads
  <2>1. Sending' = Sending
    BY <1>1, <1>3 DEF Sending, Worker
  <2>2. At("handle")' = At("handle") /\ At("resp")' = At("resp")
    BY <1>13 DEF At
  <2>3. SendingWrites' = SendingWrites
    BY <1>1, <1>2, <1>3, <2>1 DEF SendingWrites, Sending, Worker
  <2>4. HandledReads' = HandledReads
    BY <1>2, <2>2 DEF HandledReads
  <2>5. Pending' = Pending
    <3>1. w \in Sending
      BY <1>1 DEF Sending
    <3> QED
      BY <1>1, <1>2, <2>1, <3>1 DEF Pending
  <2> QED
    BY <1>2, <2>1, <2>2, <2>3, <2>4, <2>5 DEF PendingWrites, ListedReads, Received
<1>18. MsgsAccounted' /\ PayloadsAccounted'
  <2>1. MsgsHeld' = MsgsHeld
    BY <1>2, <1>17, CountsKept, MsgSums
  <2>2. PayloadsHeld' = PayloadsHeld
    BY <1>2, <1>17, CountsKept, PayloadSums
  <2> QED
    BY <1>2, <2>1, <2>2, PartsOfPools DEF IInv, MsgsAccounted, PayloadsAccounted
<1> QED
  BY <1>2, <1>3, <1>6, <1>9, <1>10, <1>11, <1>12, <1>14, <1>15, <1>16, <1>18,
     Unaffected, TypesUnaffected, PartsOfPools DEF IInv, Types

(* A fragment of the request is written. *)
LEMMA RequestWritePreserves ==
  ASSUME IInv, NEW w \in Worker, RequestWrite(w)
  PROVE  IInv'
<1>1. PICK c \in Cmd : /\ w \in SendWorker /\ pc[w] \in {"hdr", "body"} /\ data[w] = c
                       /\ cmd[c] = "queued" /\ (pc[w] = "body" => ~isRead[c])
  <2>1. w \in RecvWorker => pc[w] \notin {"hdr", "body"}
    BY DEF IInv, Workers, Closing
  <2> QED
    BY <2>1 DEF RequestWrite, Run, Worker, IInv, Workers
<1>2. PICK to : to = IF pc[w] = "hdr" /\ ~isRead[c] THEN "body" ELSE "unlock"
  OBVIOUS
<1>3. /\ out' = Append(out, <<c, pc[w]>>) /\ Go(w, to)
      /\ UNCHANGED <<bp, tpVars, cmdVars, chanVars, sock, up, in, recvVars, srvVars,
                     endVars>>
  BY <1>1, <1>2 DEF RequestWrite, socket_write
<1>4. /\ pc'[w] = to /\ \A v \in Worker : v # w => pc'[v] = pc[v]
      /\ TypeWork' /\ Workers' /\ SendersApart'
      /\ main \notin Boot
  <2>1. w \notin RecvWorker
    BY <1>1, Teams
  <2> QED
    BY <1>1, <1>2, <1>3, <2>1, WorkerGoes DEF Locked
<1>5. /\ c \in hash /\ ~Complete(c) /\ (pc[w] = "hdr" => ~Asked(c)) /\ ~Answered(c)
      /\ ~Responding(c)
  <2>1. c \in hash /\ ~Complete(c) /\ (pc[w] = "hdr" => ~Asked(c))
    BY <1>1 DEF IInv, LockHeld, FreshUnsent, Locked
  <2>2. ~Answered(c) /\ ~Responding(c)
    BY <2>1 DEF Complete, IInv, InTable
  <2> QED
    BY <2>1, <2>2
<1>6. /\ \A y : InQueue(y, out') <=> InQueue(y, out) \/ y = <<c, pc[w]>>
      /\ Distinct(out', Fragment) /\ TypeNet'
  <2>1. <<c, pc[w]>> \in Fragment
    BY <1>1 DEF Fragment
  <2>2. ~InQueue(<<c, pc[w]>>, out)
    BY <1>1, <1>5 DEF Asked, Complete
  <2>3. out \in Seq(Fragment) /\ Distinct(out, Fragment)
    BY DEF IInv, Types, TypeNet, Once
  <2>4. /\ \A y : InQueue(y, out') <=> InQueue(y, out) \/ y = <<c, pc[w]>>
        /\ Distinct(out', Fragment) /\ out' \in Seq(Fragment)
    BY <1>3, <2>1, <2>2, <2>3, AppendTo
  <2> QED
    BY <1>3, <2>4 DEF IInv, Types, TypeNet
<1>7. \A v \in SendWorker : v # w => pc[v] \notin Locked /\ pc'[v] = pc[v]
  BY <1>1, <1>4 DEF IInv, LockHeld, Locked, Worker
<1>8. \A d : /\ Served(d)' = Served(d) /\ Arrived(d)' = Arrived(d)
             /\ Listed(d)' = Listed(d) /\ Handled(d)' = Handled(d)
             /\ Responding(d)' = Responding(d) /\ Answered(d)' = Answered(d)
  BY <1>1, <1>3, <1>4, SenderStations
<1>9. \A d \in Cmd : /\ InQueue(<<d, "hdr">>, out')
                          <=> InQueue(<<d, "hdr">>, out) \/ (d = c /\ pc[w] = "hdr")
                     /\ InQueue(<<d, "body">>, out')
                          <=> InQueue(<<d, "body">>, out) \/ (d = c /\ pc[w] = "body")
  BY <1>1, <1>6
<1>10. \A d \in Cmd : /\ Asked(d)' <=> Asked(d) \/ d = c
                      /\ Complete(d)' <=> Complete(d) \/ (d = c /\ to = "unlock")
                      /\ Fresh(d)' => Fresh(d) /\ d # c
  <2> TAKE d \in Cmd
  <2>1. Asked(d)' <=> Asked(d) \/ d = c
    BY <1>1, <1>3, <1>9 DEF Asked
  <2>2. Complete(d)' <=> Complete(d) \/ (d = c /\ to = "unlock")
    BY <1>1, <1>2, <1>3, <1>8, <1>9 DEF Complete
  <2>3. Fresh(d)' => Fresh(d)
    <3>1. \A v \in SendWorker : pc'[v] \in Early => pc'[v] = pc[v]
      BY <1>2, <1>4, <1>7 DEF Early
    <3> QED
      BY <1>3, <3>1 DEF Fresh
  <2>4. Fresh(d) => d # c
    BY <1>5 DEF IInv, FreshUnsent
  <2> QED
    BY <2>1, <2>2, <2>3, <2>4
<1>11. LockHeld'
  <2>1. pc[w] \in Locked /\ pc'[w] \in Locked
    BY <1>1, <1>2, <1>4 DEF Locked
  <2>2. \A v \in SendWorker : pc'[v] \in Locked <=> pc[v] \in Locked
    BY <1>7, <2>1
  <2> QED
    BY <1>3, <2>2 DEF IInv, LockHeld
<1>12. FreshUnsent'
  <2>1. \A d \in Cmd : Fresh(d)' => d \notin hash' /\ ~Asked(d)' /\ ~Responding(d)'
    BY <1>3, <1>8, <1>10 DEF IInv, FreshUnsent
  <2>2. \A v \in SendWorker : v # w => pc'[v] \notin Locked
    BY <1>7
  <2>3. to = "body" => ~Complete(data[w])'
    BY <1>1, <1>3, <1>5, <1>10
  <2>4. to \in {"body", "unlock"}
    BY <1>2
  <2> QED
    BY <1>4, <2>1, <2>2, <2>3, <2>4 DEF FreshUnsent, Locked
<1>13. InTable'
  BY <1>1, <1>3, <1>5, <1>8, <1>10 DEF IInv, InTable
<1>14. Exclusive'
  BY <1>5, <1>8, <1>10 DEF IInv, Exclusive, Answered
<1>15. \A v \in RecvWorker : pc'[v] = pc[v]
  BY <1>1, <1>4, Teams
<1>16. Once'
  BY <1>3, <1>6, <1>15 DEF IInv, Once
<1>17. Parts'
  <2>1. \A d \in Cmd : srvIn = d => ~isRead[d] /\ ~InQueue(<<d, "hdr">>, out')
    BY <1>1, <1>5, <1>9 DEF IInv, Parts, Asked
  <2>2. \A d \in Cmd : InQueue(<<d, "body">>, out') => ~isRead[d]
    BY <1>1, <1>9 DEF IInv, Parts
  <2> QED
    BY <1>3, <2>1, <2>2 DEF IInv, Parts
<1>18. Lifecycle'
  BY <1>3, <1>4 DEF IInv, Lifecycle
<1>19. Connection'
  <2>1. \A v \in Worker : pc'[v] # "none" => pc[v] # "none"
    BY <1>1, <1>4
  <2>2. \A v \in Worker : pc'[v] \in Closing \cup {"closing"} => pc'[v] = pc[v]
    BY <1>2, <1>4 DEF Closing
  <2>3. up => \A d \in Cmd : Asked(d)' => d \in hash /\ cmd[d] = "queued"
    BY <1>1, <1>5, <1>10 DEF IInv, Connection
  <2> QED
    BY <1>3, <1>4, <2>1, <2>2, <2>3 DEF IInv, Connection
<1>20. /\ Sending' = Sending /\ At("handle")' = At("handle") /\ At("resp")' = At("resp")
       /\ SendingWrites' = SendingWrites /\ HandledReads' = HandledReads
       /\ Pending' = Pending /\ PendingWrites' = PendingWrites /\ ListedReads' = ListedReads
  <2>1. Sending' = Sending
    BY <1>1, <1>2, <1>4 DEF Sending, Worker
  <2>2. At("handle")' = At("handle") /\ At("resp")' = At("resp")
    BY <1>15 DEF At
  <2>3. SendingWrites' = SendingWrites
    BY <1>1, <1>2, <1>3, <1>4, <2>1 DEF SendingWrites, Sending, Worker
  <2>4. HandledReads' = HandledReads
    BY <1>3, <2>2 DEF HandledReads
  <2>5. Pending' = Pending
    BY <1>3, <2>1 DEF Pending
  <2> QED
    BY <1>3, <2>1, <2>2, <2>3, <2>4, <2>5 DEF PendingWrites, ListedReads, Received
<1>21. MsgsAccounted' /\ PayloadsAccounted'
  <2>1. MsgsHeld' = MsgsHeld
    BY <1>3, <1>20, CountsKept, MsgSums
  <2>2. PayloadsHeld' = PayloadsHeld
    BY <1>3, <1>20, CountsKept, PayloadSums
  <2> QED
    BY <1>3, <2>1, <2>2, PartsOfPools DEF IInv, MsgsAccounted, PayloadsAccounted
<1> QED
  BY <1>3, <1>4, <1>6, <1>11, <1>12, <1>13, <1>14, <1>16, <1>17, <1>18, <1>19, <1>21,
     Unaffected, TypesUnaffected, PartsOfPools DEF IInv, Types
-----------------------------------------------------------------------------
(* A worker ends its work. *)
LEMMA EndsWork ==
  ASSUME IInv, NEW w \in Worker, pc[w] # "none", WorkDone(w), Go(w, "none"), UNCHANGED main
  PROVE  /\ pc'[w] = "none" /\ data'[w] = NoWork
         /\ \A v \in Worker : v # w => pc'[v] = pc[v] /\ data'[v] = data[v]
         /\ \A v \in Worker : pc'[v] # "none" => world'[v] = "work"
         /\ UNCHANGED <<state, active, work_list, wakeups>>
         /\ TypeWork' /\ TypePool' /\ TypeList' /\ ThreadPools' /\ WorksBounded'
         /\ main \notin Boot
<1> USE DEF WorkDone, Go
<1>1. /\ pc'[w] = "none" /\ data'[w] = NoWork
      /\ \A v \in Worker : v # w => pc'[v] = pc[v] /\ data'[v] = data[v]
      /\ UNCHANGED <<state, active, work_list, wakeups>>
  BY DEF IInv, Types, TypeWork
<1>2. /\ world[w] = "work" /\ world'[w] = "look"
      /\ \A v \in Worker : v # w => world'[v] = world[v]
  BY DEF IInv, Types, TypePool, Workers
<1>3. \A v \in Worker : pc'[v] # "none" => world'[v] = "work"
  BY <1>1, <1>2 DEF IInv, Workers
<1>4. TypeWork' /\ TypePool' /\ TypeList'
  BY DEF IInv, Types, TypeWork, TypePool, TypeList
<1>5. ThreadPools'
  <2>1. \A q \in Pool : work_list'[q] = <<>> \/ \A v \in Team(q) : world[v] # "exit"
    BY <1>1 DEF IInv, ThreadPools
  <2> QED
    BY <1>1, <1>2, <2>1, ThreadPoolsKept
<1>6. WorksBounded'
  <2> DEFINE W == {v \in Team("recv") : world[v] = "work"}
             V == {v \in Team("recv") : world'[v] = "work"}
  <2>1. /\ Cardinality(W) \in Nat
        /\ Cardinality(V) = Cardinality(W)
             + (IF w \in RecvWorker /\ world'[w] = "work" THEN 1 ELSE 0)
             - (IF w \in RecvWorker /\ world[w] = "work" THEN 1 ELSE 0)
    BY <1>2, OneWork
  <2>2. NList + Cardinality(W) <= WorkMax /\ NList \in Nat /\ NList' = NList
    BY <1>1, CountsAreNat, PartsOfPools DEF IInv, WorksBounded, Works, NList
  <2> HIDE DEF V, W
  <2>3. Cardinality(V) = Cardinality(W) \/ Cardinality(V) = Cardinality(W) - 1
    BY <1>2, <2>1
  <2>4. NList' + Cardinality(V) <= WorkMax
    BY <2>1, <2>2, <2>3, WorkerAssumption
  <2> QED
    BY <2>4 DEF WorksBounded, Works, V, NList
<1>7. main \notin Boot
  BY DEF IInv, Lifecycle
<1> QED
  BY <1>1, <1>3, <1>4, <1>5, <1>6, <1>7

(* A sender is done with its request. *)
LEMMA SenderEnds ==
  ASSUME IInv, NEW w \in SendWorker, NEW c \in Cmd, c = data[w],
         pc[w] \in {"unlock", "error", "closed"}, WorkDone(w), Go(w, "none"),
         UNCHANGED <<main, isRead, hash, netVars, recvVars, srvVars>>,
         \A d \in Cmd : d # c => cmd'[d] = cmd[d], cmd'[c] # "new"
  PROVE  /\ pc'[w] = "none" /\ data'[w] = NoWork
         /\ \A v \in Worker : v # w => pc'[v] = pc[v] /\ data'[v] = data[v]
         /\ \A v \in SendWorker : v # w => pc'[v] = pc[v] /\ data'[v] = data[v]
         /\ UNCHANGED <<state, active, work_list, wakeups>>
         /\ TypeWork' /\ TypePool' /\ TypeList' /\ ThreadPools' /\ WorksBounded'
         /\ Workers' /\ SendersApart' /\ Once' /\ main \notin Boot
         /\ \A d : /\ Served(d)' = Served(d) /\ Arrived(d)' = Arrived(d)
                   /\ Listed(d)' = Listed(d) /\ Handled(d)' = Handled(d)
                   /\ Responding(d)' = Responding(d)
                   /\ Asked(d)' = Asked(d) /\ Complete(d)' = Complete(d)
         /\ \A d \in Cmd : Fresh(d)' => Fresh(d)
         /\ NHandle' = NHandle /\ NResp' = NResp /\ NHandleR' = NHandleR
         /\ NListR' = NListR /\ NList' = NList
         /\ NSend' = NSend - 1 /\ NSend >= 1
         /\ isRead[c] => NSendW' = NSendW
         /\ ~isRead[c] => NSendW' = NSendW - 1 /\ NSendW >= 1
<1>0. w \in Worker /\ w \notin RecvWorker /\ pc[w] # "none"
  BY Teams
<1>1. /\ pc'[w] = "none" /\ data'[w] = NoWork
      /\ \A v \in Worker : v # w => pc'[v] = pc[v] /\ data'[v] = data[v]
      /\ \A v \in Worker : pc'[v] # "none" => world'[v] = "work"
      /\ UNCHANGED <<state, active, work_list, wakeups>>
      /\ TypeWork' /\ TypePool' /\ TypeList' /\ ThreadPools' /\ WorksBounded'
      /\ main \notin Boot
  BY <1>0, EndsWork
<1>2. /\ \A v \in RecvWorker : pc'[v] = pc[v] /\ data'[v] = data[v]
      /\ \A v \in SendWorker : v # w => pc'[v] = pc[v] /\ data'[v] = data[v]
  BY <1>0, <1>1 DEF Worker
<1>3. \A v \in SendWorker : v # w /\ pc[v] # "none" => data[v] # c
  BY <1>0 DEF IInv, SendersApart
<1>4. Workers'
  <2>1. \A v \in SendWorker :
          /\ pc'[v] \in {"none"} \cup Early \cup Locked
          /\ pc'[v] # "none" => data'[v] \in Cmd /\ cmd'[data'[v]] = "queued"
          /\ pc'[v] \in {"payload", "body"} => ~isRead'[data'[v]]
    BY <1>1, <1>2, <1>3 DEF IInv, Workers
  <2> QED
    BY <1>1, <1>2, <2>1 DEF IInv, Workers
<1>5. SendersApart'
  <2>1. ~InQueue(c, work_list["send"])
    BY <1>0 DEF IInv, SendersApart
  <2> QED
    BY <1>1, <1>2, <2>1 DEF IInv, SendersApart
<1>6. Once'
  BY <1>1, <1>2 DEF IInv, Once
<1>7. \A d : /\ Served(d)' = Served(d) /\ Arrived(d)' = Arrived(d)
             /\ Listed(d)' = Listed(d) /\ Handled(d)' = Handled(d)
             /\ Responding(d)' = Responding(d)
             /\ Asked(d)' = Asked(d) /\ Complete(d)' = Complete(d)
  <2>1. \A d : /\ Served(d)' = Served(d) /\ Arrived(d)' = Arrived(d)
               /\ Listed(d)' = Listed(d) /\ Handled(d)' = Handled(d)
               /\ Responding(d)' = Responding(d) /\ Answered(d)' = Answered(d)
    BY <1>1, SenderStations
  <2> QED
    BY <2>1 DEF Asked, Complete
<1>8. \A d \in Cmd : Fresh(d)' => Fresh(d)
  <2>1. \A v \in SendWorker : pc'[v] \in Early => pc'[v] = pc[v] /\ data'[v] = data[v]
    BY <1>1, <1>2 DEF Early
  <2> QED
    BY <1>1, <2>1 DEF Fresh
<1>9. /\ At("handle")' = At("handle") /\ At("resp")' = At("resp")
      /\ HandledReads' = HandledReads /\ ListedReads' = ListedReads
  <2>1. At("handle")' = At("handle") /\ At("resp")' = At("resp")
    BY <1>2 DEF At
  <2> QED
    BY <1>1, <1>2, <2>1 DEF HandledReads, At, ListedReads, Received
<1>10. Moved(w, Sending, Sending') /\ Moved(w, SendingWrites, SendingWrites')
  BY <1>0, <1>1, OneWorker
<1>11. /\ w \in Sending /\ w \notin Sending' /\ w \notin SendingWrites'
       /\ w \in SendingWrites <=> ~isRead[c]
  BY <1>1 DEF Sending, SendingWrites
<1>12. /\ NSend' = NSend - 1 /\ NSend >= 1
       /\ isRead[c] => NSendW' = NSendW
       /\ ~isRead[c] => NSendW' = NSendW - 1 /\ NSendW >= 1
  BY <1>10, <1>11 DEF Moved, NSend, NSendW
<1>13. /\ NHandle' = NHandle /\ NResp' = NResp /\ NHandleR' = NHandleR
       /\ NListR' = NListR /\ NList' = NList
  BY <1>1, <1>9, CountsKept
<1> QED
  BY <1>1, <1>2, <1>4, <1>5, <1>6, <1>7, <1>8, <1>12, <1>13

(* The sender's lock. *)
LEMMA LockReleased ==
  ASSUME IInv, NEW w \in SendWorker, pc'[w] = "none", UNCHANGED hash,
         \A v \in SendWorker : v # w => pc'[v] = pc[v] /\ data'[v] = data[v],
         lock' = IF lock = w THEN NoWork ELSE lock
  PROVE  LockHeld'
<1>1. lock' # w /\ pc'[w] \notin Locked
  BY DEF Worker, Locked
<1>2. \A v \in SendWorker : v # w => (lock' = v <=> lock = v)
  BY DEF Worker
<1> QED
  BY <1>1, <1>2 DEF IInv, LockHeld

(* The request is sent: it waits for its response. *)
LEMMA RequestUnlockPreserves ==
  ASSUME IInv, NEW w \in Worker, RequestUnlock(w)
  PROVE  IInv'
<1>1. PICK c \in Cmd : /\ w \in SendWorker /\ pc[w] = "unlock" /\ c = data[w]
                       /\ cmd[c] = "queued" /\ c \in hash /\ lock = w
  <2>1. w \in RecvWorker => pc[w] # "unlock"
    BY DEF IInv, Workers, Closing
  <2>2. w \in SendWorker /\ pc[w] = "unlock" /\ data[w] \in Cmd /\ cmd[data[w]] = "queued"
    BY <2>1 DEF RequestUnlock, Run, Worker, IInv, Workers
  <2>3. pc[w] \in Locked
    BY <2>2 DEF Locked
  <2> QED
    BY <2>2, <2>3 DEF IInv, LockHeld
<1>2. /\ lock' = NoWork /\ WorkDone(w) /\ Go(w, "none")
      /\ UNCHANGED <<bp, cmdVars, hash, enabled, netVars, recvVars, srvVars, endVars>>
  BY DEF RequestUnlock
<1>3. /\ pc'[w] = "none" /\ data'[w] = NoWork
      /\ \A v \in Worker : v # w => pc'[v] = pc[v] /\ data'[v] = data[v]
      /\ \A v \in SendWorker : v # w => pc'[v] = pc[v] /\ data'[v] = data[v]
      /\ UNCHANGED <<state, active, work_list, wakeups>>
      /\ TypeWork' /\ TypePool' /\ TypeList' /\ ThreadPools' /\ WorksBounded'
      /\ Workers' /\ SendersApart' /\ Once' /\ main \notin Boot
      /\ \A d : /\ Served(d)' = Served(d) /\ Arrived(d)' = Arrived(d)
                /\ Listed(d)' = Listed(d) /\ Handled(d)' = Handled(d)
                /\ Responding(d)' = Responding(d)
                /\ Asked(d)' = Asked(d) /\ Complete(d)' = Complete(d)
      /\ \A d \in Cmd : Fresh(d)' => Fresh(d)
      /\ NHandle' = NHandle /\ NResp' = NResp /\ NHandleR' = NHandleR
      /\ NListR' = NListR /\ NList' = NList
      /\ NSend' = NSend - 1 /\ NSend >= 1
      /\ isRead[c] => NSendW' = NSendW
      /\ ~isRead[c] => NSendW' = NSendW - 1 /\ NSendW >= 1
  BY <1>1, <1>2, SenderEnds
<1>4. LockHeld'
  BY <1>1, <1>2, <1>3, LockReleased
<1>5. TypeChan'
  BY <1>2 DEF IInv, Types, TypeChan
<1>6. FreshUnsent'
  <2>1. \A v \in SendWorker : pc'[v] \in Locked => pc'[v] = pc[v] /\ data'[v] = data[v]
    BY <1>3 DEF Locked
  <2>2. \A v \in SendWorker : /\ pc'[v] \in Locked \ {"unlock"} => ~Complete(data[v])'
                              /\ pc'[v] = "hdr" => ~Asked(data[v])'
    BY <1>3, <2>1 DEF IInv, FreshUnsent, Locked
  <2> QED
    BY <1>2, <1>3, <2>2 DEF IInv, FreshUnsent
<1>7. InTable' /\ Exclusive'
  BY <1>2, <1>3 DEF IInv, InTable, Exclusive
<1>8. Lifecycle'
  BY <1>2, <1>3 DEF IInv, Lifecycle
<1>9. Connection'
  <2>1. \A v \in Worker : pc'[v] # "none" => pc'[v] = pc[v] /\ data'[v] = data[v]
    BY <1>3
  <2>2. \A v \in Worker : pc'[v] \in Closing \cup {"closing"} => pc'[v] # "none"
    BY DEF Closing
  <2> QED
    BY <1>2, <1>3, <2>1, <2>2 DEF IInv, Connection
<1>10. /\ NPend' = NPend + 1
       /\ isRead[c] => NPendW' = NPendW
       /\ ~isRead[c] => NPendW' = NPendW + 1
  <2>1. \A v \in SendWorker :
          v # w => (v \in Sending' <=> v \in Sending) /\ data'[v] = data[v]
    BY <1>3 DEF Sending
  <2>2. w \in Sending /\ w \notin Sending'
    BY <1>1, <1>3 DEF Sending
  <2>3. \A v \in Sending : v \in SendWorker
    BY DEF Sending
  <2>4. \A v \in Sending' : v \in SendWorker /\ v # w
    BY <2>2 DEF Sending
  <2>5. \A v \in Sending' : data'[v] # c
    <3>1. \A v \in SendWorker : pc[v] # "none" /\ v # w => data[v] # c
      BY <1>1 DEF IInv, SendersApart
    <3>2. \A v \in Sending : pc[v] # "none"
      BY DEF Sending
    <3> QED
      BY <2>1, <2>4, <3>1, <3>2
  <2>6. c \in Pending' /\ c \notin Pending
    BY <1>1, <1>2, <2>2, <2>5 DEF Pending
  <2>7. \A d \in Cmd : d # c => (d \in Pending <=> d \in Pending')
    BY <1>1, <1>2, <2>1, <2>2, <2>3, <2>4 DEF Pending
  <2>8. Moved(c, Pending, Pending') /\ Moved(c, PendingWrites, PendingWrites')
    BY <1>2, <1>5, <2>7, OnePending DEF IInv, Types
  <2>9. c \notin PendingWrites /\ (c \in PendingWrites' <=> ~isRead[c])
    BY <1>2, <2>6 DEF PendingWrites
  <2> QED
    BY <2>6, <2>8, <2>9 DEF Moved, NPend, NPendW
<1>11. /\ NSend \in Nat /\ NPend \in Nat /\ NHandle \in Nat /\ NResp \in Nat
       /\ NSendW \in Nat /\ NPendW \in Nat /\ NHandleR \in Nat /\ NListR \in Nat
       /\ NList \in Nat
  BY CountsAreNat
<1>12. MsgsAccounted'
  <2>1. MsgRecv' = MsgRecv /\ MsgRecv \in Nat
    BY <1>2, MsgSums
  <2>2. NSend' = NSend - 1 /\ NList' = NList /\ NHandle' = NHandle /\ NResp' = NResp
    BY <1>3
  <2>3. MsgsHeld' = MsgsHeld
    BY <1>10, <1>11, <2>1, <2>2, MsgSums
  <2> QED
    BY <1>2, <2>3, PartsOfPools DEF IInv, MsgsAccounted
<1>13. PayloadsAccounted'
  <2>1. PayloadRecv' = PayloadRecv /\ PayloadRecv \in Nat
    BY <1>2, PayloadSums
  <2>2. NListR' = NListR /\ NHandleR' = NHandleR /\ NResp' = NResp
    BY <1>3
  <2>3. PICK r \in Nat : NSendW' = NSendW - r /\ NPendW' = NPendW + r
    <3>1. CASE isRead[c]
      <4>1. NSendW' = NSendW - 0 /\ NPendW' = NPendW + 0
        BY <1>3, <1>10, <1>11, <3>1
      <4> QED
        BY <4>1
    <3>2. CASE ~isRead[c]
      <4>1. NSendW' = NSendW - 1 /\ NPendW' = NPendW + 1
        BY <1>3, <1>10, <3>2
      <4> QED
        BY <4>1
    <3> QED
      BY <3>1, <3>2
  <2>4. PayloadsHeld' = PayloadsHeld
    BY <1>11, <2>1, <2>2, <2>3, PayloadSums
  <2> QED
    BY <1>2, <2>4, PartsOfPools DEF IInv, PayloadsAccounted
<1> QED
  BY <1>2, <1>3, <1>4, <1>5, <1>6, <1>7, <1>8, <1>9, <1>12, <1>13,
     Unaffected, TypesUnaffected, PartsOfPools DEF IInv, Types

(* Buffers are put to both pools. *)
LEMMA Puts ==
  ASSUME TypeBuf, NEW m \in BufPoolType, NEW l \in BufPoolType,
         Sound(m, "msg"), Sound(l, "payload"),
         m.state = bp["msg"].state, l.state = bp["payload"].state,
         bp' = [bp EXCEPT !["msg"] = m, !["payload"] = l]
  PROVE  /\ TypeBuf' /\ BuffersSound' /\ bp'["msg"] = m /\ bp'["payload"] = l
         /\ \A q \in BufPool : bp'[q].state = bp[q].state
<1>1. bp'["msg"] = m /\ bp'["payload"] = l
  BY DEF TypeBuf, BufPool
<1>2. TypeBuf'
  BY DEF TypeBuf
<1> QED
  BY <1>1, <1>2 DEF BuffersSound, BufPool

(* The error path: the command fails, and its buffers are put. *)
LEMMA RequestErrorPreserves ==
  ASSUME IInv, NEW w \in Worker, RequestError(w)
  PROVE  IInv'
<1>1. PICK c \in Cmd : /\ w \in SendWorker /\ pc[w] \in {"error", "closed"} /\ c = data[w]
                       /\ cmd[c] = "queued"
  BY DEF RequestError, Run, IInv, Workers
<1>2. /\ lock' = (IF lock = w THEN NoWork ELSE lock) /\ WorkDone(w) /\ Go(w, "none")
      /\ cmd' = [cmd EXCEPT ![c] = "failed"]
      /\ bp'   = [bp EXCEPT !["msg"] = bufpool_put(bp["msg"], "msg"),
                            !["payload"] = IF isRead[c] THEN bp["payload"]
                                           ELSE bufpool_put(bp["payload"], "payload")]
      /\ UNCHANGED <<isRead, hash, enabled, netVars, recvVars, srvVars, endVars>>
  BY <1>1 DEF RequestError, IInv, Types, TypeBuf, BufPool
<1>3. cmd'[c] = "failed" /\ (\A d \in Cmd : d # c => cmd'[d] = cmd[d]) /\ TypeCmd'
  BY <1>2 DEF IInv, Types, TypeCmd
<1>4. /\ pc'[w] = "none" /\ data'[w] = NoWork
      /\ \A v \in Worker : v # w => pc'[v] = pc[v] /\ data'[v] = data[v]
      /\ \A v \in SendWorker : v # w => pc'[v] = pc[v] /\ data'[v] = data[v]
      /\ UNCHANGED <<state, active, work_list, wakeups>>
      /\ TypeWork' /\ TypePool' /\ TypeList' /\ ThreadPools' /\ WorksBounded'
      /\ Workers' /\ SendersApart' /\ Once' /\ main \notin Boot
      /\ \A d : /\ Served(d)' = Served(d) /\ Arrived(d)' = Arrived(d)
                /\ Listed(d)' = Listed(d) /\ Handled(d)' = Handled(d)
                /\ Responding(d)' = Responding(d)
                /\ Asked(d)' = Asked(d) /\ Complete(d)' = Complete(d)
      /\ \A d \in Cmd : Fresh(d)' => Fresh(d)
      /\ NHandle' = NHandle /\ NResp' = NResp /\ NHandleR' = NHandleR
      /\ NListR' = NListR /\ NList' = NList
      /\ NSend' = NSend - 1 /\ NSend >= 1
      /\ isRead[c] => NSendW' = NSendW
      /\ ~isRead[c] => NSendW' = NSendW - 1 /\ NSendW >= 1
  BY <1>1, <1>2, <1>3, SenderEnds
<1>5. LockHeld'
  BY <1>1, <1>2, <1>4, LockReleased
<1>6. TypeChan'
  BY <1>2 DEF IInv, Types, TypeChan
<1>7. /\ ~Complete(c) /\ ~Responding(c)
      /\ c \in hash => pc[w] = "closed"
      /\ Asked(c) => pc[w] = "closed"
  <2>1. CASE pc[w] = "error"
    <3>1. Fresh(c)
      BY <1>1, <2>1 DEF Fresh, Early
    <3> QED
      BY <3>1 DEF IInv, FreshUnsent, InTable
  <2>2. CASE pc[w] = "closed"
    <3>1. c \in hash /\ ~Complete(c)
      BY <1>1, <2>2 DEF IInv, LockHeld, FreshUnsent, Locked
    <3> QED
      BY <2>2, <3>1 DEF IInv, InTable
  <2> QED
    BY <1>1, <2>1, <2>2
<1>8. FreshUnsent'
  <2>1. \A v \in SendWorker : pc'[v] \in Locked => pc'[v] = pc[v] /\ data'[v] = data[v]
    BY <1>4 DEF Locked
  <2>2. \A v \in SendWorker : /\ pc'[v] \in Locked \ {"unlock"} => ~Complete(data[v])'
                              /\ pc'[v] = "hdr" => ~Asked(data[v])'
    BY <1>4, <2>1 DEF IInv, FreshUnsent, Locked
  <2> QED
    BY <1>2, <1>4, <2>2 DEF IInv, FreshUnsent
<1>9. InTable'
  BY <1>2, <1>3, <1>4, <1>7 DEF IInv, InTable, Types, TypeChan
<1>10. Exclusive'
  BY <1>4 DEF IInv, Exclusive
<1>11. /\ bp["msg"].issued >= 1 /\ (~isRead[c] => bp["payload"].issued >= 1)
       /\ NSend \in Nat /\ NPend \in Nat /\ NHandle \in Nat /\ NResp \in Nat
       /\ NSendW \in Nat /\ NPendW \in Nat /\ NHandleR \in Nat /\ NListR \in Nat
       /\ NList \in Nat
  <2>1. /\ NSend \in Nat /\ NPend \in Nat /\ NHandle \in Nat /\ NResp \in Nat
        /\ NSendW \in Nat /\ NPendW \in Nat /\ NHandleR \in Nat /\ NListR \in Nat
        /\ NList \in Nat
    BY CountsAreNat
  <2>2. NSend >= 1 /\ (~isRead[c] => NSendW >= 1)
    BY <1>4
  <2>3. MsgsHeld >= 1 /\ (~isRead[c] => PayloadsHeld >= 1)
    BY <2>1, <2>2, MsgSums, PayloadSums
  <2> QED
    BY <2>1, <2>3 DEF IInv, BuffersAccounted
<1>12. /\ TypeBuf' /\ BuffersSound'
       /\ bp'["msg"].issued = bp["msg"].issued - 1
       /\ isRead[c] => bp'["payload"].issued = bp["payload"].issued
       /\ ~isRead[c] => bp'["payload"].issued = bp["payload"].issued - 1
       /\ \A q \in BufPool : bp'[q].state = bp[q].state
  <2>1. /\ bp["msg"] \in BufPoolType /\ bp["payload"] \in BufPoolType
        /\ Sound(bp["msg"], "msg") /\ Sound(bp["payload"], "payload")
        /\ "msg" \in BufPool /\ "payload" \in BufPool
    BY PartsOfPools DEF IInv, Types, TypeBuf, BuffersSound, BufPool
  <2>2. PICK m : m = bufpool_put(bp["msg"], "msg")
    OBVIOUS
  <2>3. m \in BufPoolType /\ Sound(m, "msg") /\ m.issued = bp["msg"].issued - 1
        /\ m.state = bp["msg"].state
    BY <1>11, <2>1, <2>2, PutSound
  <2>4. PICK l : l = IF isRead[c] THEN bp["payload"]
                     ELSE bufpool_put(bp["payload"], "payload")
    OBVIOUS
  <2>5. l \in BufPoolType /\ Sound(l, "payload") /\ l.state = bp["payload"].state
        /\ (isRead[c] => l.issued = bp["payload"].issued)
        /\ (~isRead[c] => l.issued = bp["payload"].issued - 1)
    <3>1. CASE isRead[c]
      BY <2>1, <2>4, <3>1
    <3>2. CASE ~isRead[c]
      <4>1. l = bufpool_put(bp["payload"], "payload") /\ bp["payload"].issued >= 1
        BY <1>11, <2>4, <3>2
      <4> QED
        BY <2>1, <3>2, <4>1, PutSound
    <3> QED
      BY <3>1, <3>2
  <2>6. bp' = [bp EXCEPT !["msg"] = m, !["payload"] = l]
    BY <1>2, <2>2, <2>4
  <2>7. /\ TypeBuf' /\ BuffersSound' /\ bp'["msg"] = m /\ bp'["payload"] = l
        /\ \A q \in BufPool : bp'[q].state = bp[q].state
    BY <2>3, <2>5, <2>6, Puts DEF IInv, Types
  <2> QED
    BY <2>3, <2>5, <2>7
<1>13. Lifecycle'
  BY <1>2, <1>3, <1>4, <1>12 DEF IInv, Lifecycle, BufPool
<1>14. Connection'
  <2>1. \A v \in Worker : pc'[v] # "none" => pc'[v] = pc[v] /\ data'[v] = data[v]
    BY <1>4
  <2>2. \A v \in Worker : pc'[v] \in Closing \cup {"closing"} => pc'[v] # "none"
    BY DEF Closing
  <2>3. pc[w] = "closed" => ~up
    BY DEF IInv, Connection, Closing
  <2>4. main = "loaded"
    BY <1>1, <1>4 DEF IInv, Lifecycle
  <2>5. "link" \notin faults => c \notin hash
    BY <1>7, <2>3, <2>4 DEF IInv, Connection
  <2>6. up => ~Asked(c)
    BY <1>7, <2>3
  <2>7. "link" \notin faults => \A d \in hash : cmd'[d] = "queued"
    BY <1>3, <2>5 DEF IInv, Connection, Types, TypeChan
  <2>8. up => \A d \in Cmd : Asked(d)' => d \in hash /\ cmd'[d] = "queued"
    BY <1>3, <1>4, <2>6 DEF IInv, Connection
  <2> QED
    BY <1>2, <1>4, <2>1, <2>2, <2>7, <2>8 DEF IInv, Connection
<1>15. Pending' = Pending /\ PendingWrites' = PendingWrites
  <2>1. \A v \in SendWorker :
          v # w => (v \in Sending' <=> v \in Sending) /\ data'[v] = data[v]
    BY <1>4 DEF Sending
  <2>2. w \in Sending /\ w \notin Sending'
    BY <1>1, <1>4 DEF Sending
  <2>3. \A v \in Sending : v \in SendWorker
    BY DEF Sending
  <2>4. \A v \in Sending' : v \in SendWorker /\ v # w
    BY <2>2 DEF Sending
  <2>5. c \notin Pending' /\ c \notin Pending
    BY <1>1, <1>3, <2>2 DEF Pending
  <2>6. \A d \in Cmd : d # c => (d \in Pending <=> d \in Pending')
    BY <1>1, <1>2, <1>3, <2>1, <2>2, <2>3, <2>4 DEF Pending
  <2>7. Pending \subseteq Cmd /\ Pending' \subseteq Cmd
    BY <1>6 DEF Pending, IInv, Types, TypeChan
  <2>8. Pending' = Pending
    BY <2>5, <2>6, <2>7
  <2> QED
    BY <1>2, <2>8 DEF PendingWrites
<1>16. MsgsAccounted'
  <2>1. MsgRecv' = MsgRecv /\ MsgRecv \in Nat
    BY <1>2, MsgSums
  <2>2. /\ NSend' = NSend - 1 /\ NList' = NList /\ NHandle' = NHandle /\ NResp' = NResp
        /\ NPend' = NPend
    BY <1>4, <1>15, CountsKept
  <2>3. MsgsHeld' = MsgsHeld - 1
    BY <1>11, <2>1, <2>2, MsgSums
  <2> QED
    BY <1>12, <2>3, PartsOfPools DEF IInv, MsgsAccounted
<1>17. PayloadsAccounted'
  <2>1. PayloadRecv' = PayloadRecv /\ PayloadRecv \in Nat
    BY <1>2, PayloadSums
  <2>2. NListR' = NListR /\ NHandleR' = NHandleR /\ NResp' = NResp /\ NPendW' = NPendW
    BY <1>4, <1>15, CountsKept
  <2>3. CASE isRead[c]
    <3>1. NSendW' = NSendW
      BY <1>4, <2>3
    <3>2. PayloadsHeld' = PayloadsHeld
      BY <1>11, <2>1, <2>2, <3>1, PayloadSums
    <3> QED
      BY <1>12, <2>3, <3>2, PartsOfPools DEF IInv, PayloadsAccounted
  <2>4. CASE ~isRead[c]
    <3>1. NSendW' = NSendW - 1
      BY <1>4, <2>4
    <3>2. PayloadsHeld' = PayloadsHeld - 1
      BY <1>11, <2>1, <2>2, <3>1, PayloadSums
    <3> QED
      BY <1>12, <2>4, <3>2, PartsOfPools DEF IInv, PayloadsAccounted
  <2> QED
    BY <2>3, <2>4
<1> QED
  BY <1>2, <1>3, <1>4, <1>5, <1>6, <1>8, <1>9, <1>10, <1>12, <1>13, <1>14, <1>16, <1>17,
     Unaffected, TypesUnaffected, PartsOfPools DEF IInv, Types
-----------------------------------------------------------------------------
(* While the receiver runs the pools are there. *)
LEMMA ReceiverRuns ==
  ASSUME IInv, recv \notin {"none", "exit"}
  PROVE  /\ main \in Running /\ main \notin Boot
         /\ bp["msg"].state = "INITIALIZED" /\ bp["payload"].state = "INITIALIZED"
BY DEF IInv, Lifecycle, Running, Boot

(* Steps of the receiver between the stations of a response. *)
LEMMA ReceiverMoves ==
  ASSUME IInv, recv \notin {"none", "exit"},
         recv' \in {"get", "getwait", "hdr", "payload", "body", "work", "wake", "exit"},
         UNCHANGED <<cmdVars, pc, data, work_list, chanVars, netVars, srvVars, endVars>>,
         \A q \in BufPool : bp'[q].state = bp[q].state,
         \/ rm' = rm /\ (recv \in {"payload", "body"} <=> recv' \in {"payload", "body"})
            /\ recv # "work" /\ recv' \notin {"work", "wake"}
         \/ /\ rm' = CLOSED /\ ~up
            /\ recv \notin {"payload", "body", "work"} /\ recv' = "work"
         \/ /\ recv \notin {"payload", "body", "work"} /\ rm' = NoCmd
            /\ recv' \notin {"payload", "body", "work", "wake"}
  PROVE  /\ TypeRecv' /\ FreshUnsent' /\ InTable' /\ Exclusive' /\ Parts' /\ Lifecycle'
         /\ Connection'
<1>0. main \in Running /\ main \notin Boot
  BY ReceiverRuns
<1>1. TypeRecv'
  BY DEF IInv, Types, TypeRecv
<1>2. \A c \in Cmd : /\ Asked(c)' <=> Asked(c)
                     /\ Served(c)' <=> Served(c)
                     /\ Arrived(c)' <=> Arrived(c)
                     /\ Listed(c)' <=> Listed(c)
                     /\ Handled(c)' <=> Handled(c)
                     /\ Responding(c)' <=> Responding(c)
  <2> TAKE c \in Cmd
  <2>1. (Asked(c)' <=> Asked(c)) /\ (Listed(c)' <=> Listed(c))
    BY DEF Asked, Listed
  <2>2. (Handled(c)' <=> Handled(c)) /\ (Responding(c)' <=> Responding(c))
    BY DEF Handled, Responding
  <2>3. Served(c)' <=> Served(c)
    BY DEF Served
  <2>4. Arrived(c)' <=> Arrived(c)
    BY DEF Arrived
  <2> QED
    BY <2>1, <2>2, <2>3, <2>4
<1>3. \A c \in Cmd : (Complete(c)' <=> Complete(c)) /\ (Fresh(c)' <=> Fresh(c))
  <2> TAKE c \in Cmd
  <2>1. Complete(c)' <=> Complete(c)
    BY <1>2 DEF Complete, Answered
  <2>2. Fresh(c)' <=> Fresh(c)
    BY DEF Fresh
  <2> QED
    BY <2>1, <2>2
<1>4. FreshUnsent'
  BY <1>2, <1>3 DEF IInv, FreshUnsent, Workers, Locked
<1>5. InTable' /\ Exclusive'
  BY <1>2, <1>3 DEF IInv, InTable, Exclusive
<1>6. Parts'
  BY DEF IInv, Parts
<1>7. Lifecycle'
  BY <1>0 DEF IInv, Lifecycle, BufPool
<1>8. Connection'
  <2>1. \A c \in Cmd : Asked(c)' <=> Asked(c)
    BY <1>2
  <2>2. recv' = "work" /\ rm' = CLOSED => ~up
    OBVIOUS
  <2> QED
    BY <2>1, <2>2 DEF IInv, Connection
<1> QED
  BY <1>1, <1>4, <1>5, <1>6, <1>7, <1>8

(* A buffer for the next message. *)
LEMMA RecvGetPreserves ==
  ASSUME IInv, RecvGet
  PROVE  IInv'
<1>1. recv \in {"get", "getwait"} /\ bp["msg"].state = "INITIALIZED"
  BY ReceiverRuns DEF RecvGet
<1>2. UNCHANGED <<tpVars, cmdVars, pc, chanVars, netVars, rm, srvVars, endVars>>
  BY <1>1 DEF RecvGet
<1>3. CASE recv' = "getwait" /\ UNCHANGED bp
  <2>1. /\ TypeRecv' /\ FreshUnsent' /\ InTable' /\ Exclusive' /\ Parts' /\ Lifecycle'
        /\ Connection'
    BY <1>1, <1>2, <1>3, ReceiverMoves
  <2>2. MsgRecv' = MsgRecv /\ PayloadRecv' = PayloadRecv
    BY <1>1, <1>3 DEF MsgRecv, PayloadRecv
  <2>3. /\ Sending' = Sending /\ At("handle")' = At("handle") /\ At("resp")' = At("resp")
        /\ SendingWrites' = SendingWrites /\ HandledReads' = HandledReads
        /\ Pending' = Pending /\ PendingWrites' = PendingWrites
        /\ ListedReads' = ListedReads
    BY <1>2, CountsUnaffected
  <2>4. MsgsHeld' = MsgsHeld /\ PayloadsHeld' = PayloadsHeld
    BY <1>2, <2>2, <2>3, CountsKept, MsgSums, PayloadSums
  <2>5. MsgsAccounted' /\ PayloadsAccounted'
    BY <1>3, <2>4, PartsOfPools DEF IInv, MsgsAccounted, PayloadsAccounted
  <2> QED
    BY <1>2, <1>3, <2>1, <2>5, Unaffected, TypesUnaffected, PartsOfPools DEF IInv, Types
<1>4. CASE recv' = "hdr" /\ _bufpool_get("msg", TRUE)
  <2>1. /\ TypeBuf' /\ BuffersSound'
        /\ bp'["msg"].issued = bp["msg"].issued + 1
        /\ bp'["payload"] = bp["payload"]
        /\ \A q \in BufPool : bp'[q].state = bp[q].state
    BY <1>4, GetSound, PartsOfPools DEF IInv, Types, BufPool
  <2>2. /\ TypeRecv' /\ FreshUnsent' /\ InTable' /\ Exclusive' /\ Parts' /\ Lifecycle'
        /\ Connection'
    BY <1>1, <1>2, <1>4, <2>1, ReceiverMoves
  <2>3. MsgRecv = 0 /\ MsgRecv' = 1 /\ PayloadRecv' = PayloadRecv
    BY <1>1, <1>4 DEF MsgRecv, PayloadRecv, One
  <2>4. /\ Sending' = Sending /\ At("handle")' = At("handle") /\ At("resp")' = At("resp")
        /\ SendingWrites' = SendingWrites /\ HandledReads' = HandledReads
        /\ Pending' = Pending /\ PendingWrites' = PendingWrites
        /\ ListedReads' = ListedReads
    BY <1>2, CountsUnaffected
  <2>5. /\ NSend' = NSend /\ NPend' = NPend /\ NList' = NList /\ NHandle' = NHandle
        /\ NResp' = NResp
    BY <1>2, <2>4, CountsKept
  <2>6. /\ NSend \in Nat /\ NPend \in Nat /\ NHandle \in Nat /\ NResp \in Nat
        /\ NList \in Nat
    BY CountsAreNat
  <2>7. MsgsHeld' = MsgsHeld + 1
    BY <2>3, <2>5, <2>6, MsgSums
  <2>8. PayloadsHeld' = PayloadsHeld
    BY <1>2, <2>3, <2>4, CountsKept, PayloadSums
  <2>9. MsgsAccounted' /\ PayloadsAccounted'
    BY <2>1, <2>7, <2>8, PartsOfPools DEF IInv, MsgsAccounted, PayloadsAccounted
  <2> QED
    BY <1>2, <2>1, <2>2, <2>9, Unaffected, TypesUnaffected, PartsOfPools DEF IInv, Types
<1> QED
  BY <1>1, <1>3, <1>4 DEF RecvGet, Rx

(* A buffer for the payload of the response to a read. *)
LEMMA RecvPayloadGetPreserves ==
  ASSUME IInv, RecvPayloadGet
  PROVE  IInv'
<1>1. /\ recv = "payload" /\ recv' = "body" /\ _bufpool_get("payload", TRUE)
      /\ UNCHANGED <<tpVars, cmdVars, pc, chanVars, netVars, rm, srvVars, endVars>>
  BY DEF RecvPayloadGet, Rx
<1>2. /\ TypeBuf' /\ BuffersSound'
      /\ bp'["payload"].issued = bp["payload"].issued + 1
      /\ bp'["msg"] = bp["msg"]
      /\ \A q \in BufPool : bp'[q].state = bp[q].state
  BY <1>1, GetSound, PartsOfPools DEF IInv, Types, BufPool
<1>3. /\ TypeRecv' /\ FreshUnsent' /\ InTable' /\ Exclusive' /\ Parts' /\ Lifecycle'
      /\ Connection'
  BY <1>1, <1>2, ReceiverMoves
<1>4. MsgRecv' = MsgRecv /\ PayloadRecv = 0 /\ PayloadRecv' = 1
  BY <1>1 DEF MsgRecv, PayloadRecv, One
<1>5. /\ Sending' = Sending /\ At("handle")' = At("handle") /\ At("resp")' = At("resp")
      /\ SendingWrites' = SendingWrites /\ HandledReads' = HandledReads
      /\ Pending' = Pending /\ PendingWrites' = PendingWrites /\ ListedReads' = ListedReads
  BY <1>1, CountsUnaffected
<1>6. /\ NSendW' = NSendW /\ NPendW' = NPendW /\ NListR' = NListR /\ NHandleR' = NHandleR
      /\ NResp' = NResp
  BY <1>5, CountsKept
<1>7. /\ NSendW \in Nat /\ NPendW \in Nat /\ NHandleR \in Nat /\ NListR \in Nat
      /\ NResp \in Nat
  BY CountsAreNat
<1>8. PayloadsHeld' = PayloadsHeld + 1
  BY <1>4, <1>6, <1>7, PayloadSums
<1>9. MsgsHeld' = MsgsHeld
  BY <1>1, <1>4, <1>5, CountsKept, MsgSums
<1>10. MsgsAccounted' /\ PayloadsAccounted'
  BY <1>2, <1>8, <1>9, PartsOfPools DEF IInv, MsgsAccounted, PayloadsAccounted
<1> QED
  BY <1>1, <1>2, <1>3, <1>10, Unaffected, TypesUnaffected, PartsOfPools DEF IInv, Types

(* The connection fails while the receiver waits for a header, or reads a  *)
(* payload.                                                                *)
LEMMA RecvFailsPreserves ==
  ASSUME IInv, RecvFails
  PROVE  IInv'
<1>1. CASE Crash("payload")
  BY <1>1, CrashPreserves DEF Crash, Cause
<1>2. CASE /\ recv = "hdr" /\ recv' = "work" /\ rm' = CLOSED
           /\ UNCHANGED <<bp, tpVars, cmdVars, pc, chanVars, netVars, srvVars, endVars>>
  <2>1. /\ TypeRecv' /\ FreshUnsent' /\ InTable' /\ Exclusive' /\ Parts' /\ Lifecycle'
        /\ Connection'
    BY <1>2, ReceiverMoves DEF RecvFails
  <2>2. MsgRecv' = MsgRecv /\ PayloadRecv' = PayloadRecv
    BY <1>2 DEF MsgRecv, PayloadRecv
  <2>3. /\ Sending' = Sending /\ At("handle")' = At("handle") /\ At("resp")' = At("resp")
        /\ SendingWrites' = SendingWrites /\ HandledReads' = HandledReads
        /\ Pending' = Pending /\ PendingWrites' = PendingWrites
        /\ ListedReads' = ListedReads
    BY <1>2, CountsUnaffected
  <2>4. MsgsHeld' = MsgsHeld /\ PayloadsHeld' = PayloadsHeld
    BY <1>2, <2>2, <2>3, CountsKept, MsgSums, PayloadSums
  <2>5. MsgsAccounted' /\ PayloadsAccounted'
    BY <1>2, <2>4, PartsOfPools DEF IInv, MsgsAccounted, PayloadsAccounted
  <2> QED
    BY <1>2, <2>1, <2>5, Unaffected, TypesUnaffected, PartsOfPools DEF IInv, Types
<1> QED
  BY <1>1, <1>2 DEF RecvFails, Rx

(* A fragment is taken from the socket. *)
LEMMA SocketRead ==
  ASSUME TypeNet, Distinct(in, Fragment), NEW f, socket_read(f)
  PROVE  /\ f \in Fragment /\ in' \in Seq(Fragment) /\ Distinct(in', Fragment)
         /\ InQueue(f, in) /\ ~InQueue(f, in')
         /\ \A y : y # f => (InQueue(y, in') <=> InQueue(y, in))
         /\ UNCHANGED <<sock, up, out>>
<1>1. in \in Seq(Fragment) /\ in # <<>> /\ f = Head(in) /\ in' = Tail(in)
  BY DEF TypeNet, socket_read
<1>2. /\ f \in Fragment /\ in' \in Seq(Fragment) /\ Distinct(in', Fragment)
      /\ \A y : InQueue(y, in) <=> y = f \/ InQueue(y, in')
      /\ ~InQueue(f, in')
  BY <1>1, TailOf
<1> QED
  BY <1>2 DEF socket_read

(* The receiver has all of the response to c, or its header. *)
LEMMA ReadPreserves ==
  ASSUME IInv, NEW c \in Cmd,
         \/ RecvHdr(c)
         \/ RecvBody /\ rm = c
  PROVE  IInv'
<1>1. PICK part \in {"hdr", "body"} :
        /\ recv = part /\ rm' = c /\ socket_read(<<c, part>>)
        /\ part = "hdr" => recv' = IF isRead[c] THEN "payload" ELSE "work"
        /\ part = "body" => rm = c /\ recv' = "work"
        /\ UNCHANGED <<bp, tpVars, cmdVars, pc, chanVars, srvVars, endVars>>
  BY DEF RecvHdr, RecvBody, Rx
<1>2. /\ in' \in Seq(Fragment) /\ Distinct(in', Fragment)
      /\ InQueue(<<c, part>>, in) /\ ~InQueue(<<c, part>>, in')
      /\ \A y : y # <<c, part>> => (InQueue(y, in') <=> InQueue(y, in))
      /\ UNCHANGED <<sock, up, out>>
  BY <1>1, SocketRead DEF IInv, Types, Once
<1>3. /\ \A d \in Cmd :
           d # c => /\ InQueue(<<d, "hdr">>, in') <=> InQueue(<<d, "hdr">>, in)
                    /\ InQueue(<<d, "body">>, in') <=> InQueue(<<d, "body">>, in)
      /\ ~InQueue(<<c, "hdr">>, in')
      /\ InQueue(<<c, "body">>, in') => part = "hdr" /\ InQueue(<<c, "body">>, in)
  <2>1. \A d \in Cmd : d # c => <<d, "hdr">> # <<c, part>> /\ <<d, "body">> # <<c, part>>
    OBVIOUS
  <2>2. \A d \in Cmd :
          d # c => /\ InQueue(<<d, "hdr">>, in') <=> InQueue(<<d, "hdr">>, in)
                   /\ InQueue(<<d, "body">>, in') <=> InQueue(<<d, "body">>, in)
    BY <1>2, <2>1
  <2>3. CASE part = "hdr"
    <3>1. <<c, "body">> # <<c, part>>
      BY <2>3
    <3> QED
      BY <1>2, <2>2, <2>3, <3>1
  <2>4. CASE part = "body"
    <3>1. <<c, "hdr">> # <<c, part>>
      BY <2>4
    <3>2. ~InQueue(<<c, "hdr">>, in)
      BY <1>1, <2>4 DEF IInv, Parts
    <3> QED
      BY <1>2, <2>2, <2>4, <3>1, <3>2
  <2> QED
    BY <1>1, <2>3, <2>4
<1>4. /\ Served(c) /\ recv' \in {"payload", "work"}
      /\ recv' = "payload" => isRead[c] /\ Served(c)' /\ ~Arrived(c)'
      /\ recv' = "work" => ~Served(c)' /\ Arrived(c)'
  <2>1. Served(c)
    BY <1>1, <1>2 DEF Served
  <2>2. recv' = "payload" => isRead[c] /\ Served(c)' /\ ~Arrived(c)'
    BY <1>1 DEF Served, Arrived
  <2>3. ASSUME recv' = "work" PROVE ~Served(c)' /\ Arrived(c)'
    <3>1. c \notin srv /\ ~InQueue(<<c, "body">>, in')
      <4>1. CASE part = "hdr"
        <5>1. ~isRead[c]
          BY <1>1, <2>3, <4>1
        <5>2. ~InQueue(<<c, "body">>, in) /\ srvOut # c
          BY <5>1 DEF IInv, Parts
        <5> QED
          BY <1>2, <1>3, <4>1, <5>2 DEF IInv, Parts
      <4>2. CASE part = "body"
        BY <1>2, <1>3, <4>2 DEF IInv, Parts
      <4> QED
        BY <1>1, <4>1, <4>2
    <3> QED
      BY <1>1, <1>3, <2>3, <3>1 DEF Served, Arrived
  <2> QED
    BY <1>1, <2>1, <2>2, <2>3
<1>5. \A d \in Cmd : d # c => (Served(d)' <=> Served(d)) /\ ~Arrived(d) /\ ~Arrived(d)'
  BY <1>1, <1>3 DEF Served, Arrived
<1>6. ~Arrived(c) /\ \A d \in Cmd : /\ Asked(d)' <=> Asked(d)
                                    /\ Listed(d)' <=> Listed(d)
                                    /\ Handled(d)' <=> Handled(d)
                                    /\ Responding(d)' <=> Responding(d)
  BY <1>1, <1>2 DEF Asked, Arrived, Listed, Handled, Responding
<1>7. \A d \in Cmd : (Complete(d)' <=> Complete(d)) /\ (Fresh(d)' <=> Fresh(d))
  <2> TAKE d \in Cmd
  <2>1. Answered(d)' <=> Answered(d)
    <3>1. CASE d = c
      BY <1>4, <3>1 DEF Answered
    <3>2. CASE d # c
      BY <1>5, <1>6, <3>2 DEF Answered
    <3> QED
      BY <3>1, <3>2
  <2>2. Complete(d)' <=> Complete(d)
    BY <1>1, <1>2, <2>1 DEF Complete
  <2>3. Fresh(d)' <=> Fresh(d)
    BY <1>1 DEF Fresh
  <2> QED
    BY <2>2, <2>3
<1>8. TypeRecv' /\ TypeNet'
  BY <1>1, <1>2, <1>4 DEF IInv, Types, TypeRecv, TypeNet
<1>9. FreshUnsent'
  BY <1>1, <1>6, <1>7 DEF IInv, FreshUnsent, Workers, Locked
<1>10. InTable'
  BY <1>1, <1>6, <1>7 DEF IInv, InTable
<1>11. Exclusive'
  <2> SUFFICES ASSUME NEW d \in Cmd
      PROVE (/\ Served(d)  => ~Asked(d)
             /\ Arrived(d) => ~Asked(d) /\ ~Served(d)
             /\ Listed(d)  => ~Asked(d) /\ ~Served(d) /\ ~Arrived(d)
             /\ Handled(d) => ~Asked(d) /\ ~Served(d) /\ ~Arrived(d) /\ ~Listed(d)
             /\ Responding(d) => ~Asked(d))'
    BY DEF Exclusive
  <2>1. CASE d = c
    BY <1>4, <1>6, <2>1 DEF IInv, Exclusive
  <2>2. CASE d # c
    BY <1>5, <1>6, <2>2 DEF IInv, Exclusive
  <2> QED
    BY <2>1, <2>2
<1>12. Once'
  BY <1>1, <1>2 DEF IInv, Once
<1>13. Parts'
  <2>1. ASSUME NEW d \in Cmd
        PROVE  /\ srvIn = d => ~isRead[d] /\ ~InQueue(<<d, "hdr">>, out)
               /\ InQueue(<<d, "body">>, out) => ~isRead[d]
               /\ InQueue(<<d, "body">>, in') => isRead[d] /\ d \notin srv
               /\ srvOut = d => d \in srv /\ isRead[d]
               /\ d \in srv /\ srvOut # d =>
                    /\ ~InQueue(<<d, "hdr">>, in')
                    /\ ~(rm' = d /\ recv' \in {"payload", "body"})
               /\ rm' = d /\ recv' \in {"payload", "body"} => ~InQueue(<<d, "hdr">>, in')
    <3>1. CASE d = c
      <4>1. c \in srv => srvOut = c
        BY <1>1, <1>2 DEF IInv, Parts
      <4> QED
        BY <1>3, <3>1, <4>1 DEF IInv, Parts
    <3>2. CASE d # c
      BY <1>1, <1>3, <3>2 DEF IInv, Parts
    <3> QED
      BY <3>1, <3>2
  <2>2. /\ recv' \in {"payload", "body"} => rm' \in Cmd /\ isRead[rm']
        /\ recv' = "work" => rm' \in Cmd \cup {CLOSED}
        /\ recv' # "wake"
    BY <1>1, <1>4
  <2> QED
    BY <1>1, <1>2, <2>1, <2>2 DEF Parts
<1>14. Lifecycle'
  <2>1. main \in Running /\ main \notin Boot
    BY <1>1, ReceiverRuns
  <2> QED
    BY <1>1, <2>1 DEF IInv, Lifecycle
<1>15. Connection'
  BY <1>1, <1>2, <1>6 DEF IInv, Connection
<1>16. MsgRecv' = MsgRecv /\ PayloadRecv' = PayloadRecv
  <2>1. recv = "body" => isRead[c]
    BY <1>1 DEF IInv, Parts
  <2>2. MsgRecv' = MsgRecv
    BY <1>1, <1>4 DEF MsgRecv
  <2>3. PayloadRecv' = PayloadRecv
    <3>1. CASE part = "hdr"
      BY <1>1, <3>1 DEF PayloadRecv
    <3>2. CASE part = "body"
      BY <1>1, <2>1, <3>2 DEF PayloadRecv
    <3> QED
      BY <3>1, <3>2
  <2> QED
    BY <2>2, <2>3
<1>17. MsgsAccounted' /\ PayloadsAccounted'
  <2>1. /\ Sending' = Sending /\ At("handle")' = At("handle") /\ At("resp")' = At("resp")
        /\ SendingWrites' = SendingWrites /\ HandledReads' = HandledReads
        /\ Pending' = Pending /\ PendingWrites' = PendingWrites
        /\ ListedReads' = ListedReads
    BY <1>1, CountsUnaffected
  <2>2. MsgsHeld' = MsgsHeld /\ PayloadsHeld' = PayloadsHeld
    BY <1>1, <1>16, <2>1, CountsKept, MsgSums, PayloadSums
  <2> QED
    BY <1>1, <2>2, PartsOfPools DEF IInv, MsgsAccounted, PayloadsAccounted
<1> QED
  BY <1>1, <1>8, <1>9, <1>10, <1>11, <1>12, <1>13, <1>14, <1>15, <1>17,
     Unaffected, TypesUnaffected, PartsOfPools DEF IInv, Types

(* The message becomes a work of the channel's thread pool. *)
LEMMA RecvWorkPreserves ==
  ASSUME IInv, RecvWork
  PROVE  IInv'
<1>1. /\ recv = "work" /\ recv' = "wake" /\ Works("recv") < WorkMax
      /\ work_list' = [work_list EXCEPT !["recv"] = Append(work_list["recv"], rm)]
      /\ wakeups' = [wakeups EXCEPT !["recv"] = wakeups["recv"] + 1]
      /\ UNCHANGED <<state, active, world, data>>
      /\ UNCHANGED <<bp, cmdVars, pc, chanVars, netVars, rm, srvVars, endVars>>
  BY DEF RecvWork, Rx, schedule_work
<1>2. main \in Running /\ main \notin Boot
  BY <1>1, ReceiverRuns
<1>3. rm \in Cmd \cup {CLOSED}
  BY <1>1 DEF IInv, Parts
<1>4. /\ work_list'["send"] = work_list["send"]
      /\ work_list'["recv"] = Append(work_list["recv"], rm)
      /\ work_list' = [p \in Pool |-> work_list'[p]]
      /\ work_list["recv"] \in Seq(Cmd \cup {CLOSED})
  BY <1>1 DEF IInv, Types, TypeList, Pool
<1>5. /\ work_list'["recv"] \in Seq(Cmd \cup {CLOSED}) /\ NList' = NList + 1
      /\ \A y : InQueue(y, work_list'["recv"]) <=> InQueue(y, work_list["recv"]) \/ y = rm
      /\ Distinct(work_list'["recv"], Cmd)
  <2>1. Distinct(work_list["recv"], Cmd) /\ (rm \in Cmd => ~InQueue(rm, work_list["recv"]))
    <3>1. rm \in Cmd => Arrived(rm)
      BY <1>1 DEF Arrived
    <3> QED
      BY <3>1 DEF IInv, Once, Exclusive, Listed
  <2> QED
    BY <1>3, <1>4, <2>1, AppendTo DEF NList
<1>6. TypePool' /\ TypeList' /\ TypeRecv'
  <2>1. wakeups["recv"] + 1 \in Nat
    BY DEF IInv, Types, TypePool, Pool
  <2>2. TypePool'
    BY <1>1, <2>1 DEF IInv, Types, TypePool
  <2>3. TypeList'
    BY <1>4, <1>5 DEF IInv, Types, TypeList
  <2> QED
    BY <1>1, <2>2, <2>3 DEF IInv, Types, TypeRecv
<1>7. SendersApart'
  BY <1>1, <1>4 DEF IInv, SendersApart
<1>8. \A c \in Cmd : /\ Asked(c)' <=> Asked(c)
                     /\ Served(c)' <=> Served(c)
                     /\ ~Arrived(c)' /\ (Arrived(c) <=> c = rm)
                     /\ Listed(c)' <=> Listed(c) \/ c = rm
                     /\ Handled(c)' <=> Handled(c)
                     /\ Responding(c)' <=> Responding(c)
  <2> TAKE c \in Cmd
  <2>1. (Asked(c)' <=> Asked(c)) /\ (Listed(c)' <=> Listed(c) \/ c = rm)
    BY <1>1, <1>5 DEF Asked, Listed
  <2>2. (Handled(c)' <=> Handled(c)) /\ (Responding(c)' <=> Responding(c))
    BY <1>1 DEF Handled, Responding
  <2>3. Served(c)' <=> Served(c)
    BY <1>1 DEF Served
  <2>4. ~Arrived(c)' /\ (Arrived(c) <=> c = rm)
    BY <1>1 DEF Arrived
  <2> QED
    BY <2>1, <2>2, <2>3, <2>4
<1>9. \A c \in Cmd : (Complete(c)' <=> Complete(c)) /\ (Fresh(c)' <=> Fresh(c))
  <2> TAKE c \in Cmd
  <2>1. Complete(c)' <=> Complete(c)
    BY <1>1, <1>8 DEF Complete, Answered
  <2>2. Fresh(c)' <=> Fresh(c)
    BY <1>1, <1>4 DEF Fresh
  <2> QED
    BY <2>1, <2>2
<1>10. FreshUnsent'
  BY <1>1, <1>8, <1>9 DEF IInv, FreshUnsent, Workers, Locked
<1>11. InTable' /\ Exclusive'
  <2>1. InTable'
    BY <1>1, <1>8, <1>9 DEF IInv, InTable
  <2>2. Exclusive'
    BY <1>8 DEF IInv, Exclusive
  <2> QED
    BY <2>1, <2>2
<1>12. Once'
  BY <1>1, <1>5 DEF IInv, Once
<1>13. Parts'
  BY <1>1, <1>3 DEF IInv, Parts
<1>14. Lifecycle'
  BY <1>1, <1>2 DEF IInv, Lifecycle
<1>15. Connection'
  <2>1. InQueue(CLOSED, work_list'["recv"]) => ~up
    BY <1>1, <1>5 DEF IInv, Connection
  <2> QED
    BY <1>1, <1>8, <2>1 DEF IInv, Connection
<1>16. ThreadPools'
  <2>1. \A p \in Pool : work_list'[p] = <<>> \/ \A v \in Team(p) : world[v] # "exit"
    <3>1. \A v \in Team("recv") : world[v] # "exit"
      BY <1>2 DEF IInv, ThreadPools, Pool
    <3>2. work_list["send"] = <<>> \/ \A v \in Team("send") : world[v] # "exit"
      BY DEF IInv, ThreadPools, Pool
    <3> QED
      BY <1>4, <3>1, <3>2 DEF Pool
  <2> QED
    BY <1>1, <2>1, ThreadPoolsKept
<1>17. /\ Sending' = Sending /\ At("handle")' = At("handle") /\ At("resp")' = At("resp")
       /\ SendingWrites' = SendingWrites /\ HandledReads' = HandledReads
       /\ Pending' = Pending /\ PendingWrites' = PendingWrites
  BY <1>1, CountsUnaffected
<1>18. /\ NSend \in Nat /\ NPend \in Nat /\ NHandle \in Nat /\ NResp \in Nat
       /\ NSendW \in Nat /\ NPendW \in Nat /\ NHandleR \in Nat /\ NListR \in Nat
       /\ NList \in Nat
  BY CountsAreNat
<1>19. MsgsAccounted'
  <2>1. MsgRecv = 1 /\ MsgRecv' = 0
    BY <1>1 DEF MsgRecv, One
  <2>2. NSend' = NSend /\ NPend' = NPend /\ NHandle' = NHandle /\ NResp' = NResp
    BY <1>17, CountsKept
  <2>3. MsgsHeld' = MsgsHeld
    BY <1>5, <1>18, <2>1, <2>2, MsgSums
  <2> QED
    BY <1>1, <2>3, PartsOfPools DEF IInv, MsgsAccounted
<1>20. PayloadsAccounted'
  <2>1. /\ NSendW' = NSendW /\ NPendW' = NPendW /\ NHandleR' = NHandleR /\ NResp' = NResp
    BY <1>17, CountsKept
  <2>2. /\ Cardinality(PlacesOf(Reads, work_list["recv"])) \in Nat
        /\ Cardinality(PlacesOf(Reads, Append(work_list["recv"], rm)))
             = Cardinality(PlacesOf(Reads, work_list["recv"]))
               + (IF rm \in Reads THEN 1 ELSE 0)
    <3>1. work_list["recv"] \in Seq(Cmd \cup {CLOSED})
      BY <1>4
    <3> QED
      BY <1>3, <3>1, PlacesAppend
  <2>3. /\ ListedReads = PlacesOf(Reads, work_list["recv"])
        /\ ListedReads' = PlacesOf(Reads, Append(work_list["recv"], rm))
    <3>1. Reads' = Reads /\ TypeList /\ TypeList'
      BY <1>1, <1>6 DEF Reads, IInv, Types
    <3> QED
      BY <1>4, <3>1, ListedReadsPlaces
  <2>4. PayloadRecv' = 0
    BY <1>1 DEF PayloadRecv, One
  <2>5. CASE rm \in Reads
    <3>1. PayloadRecv = 1
      BY <1>1, <2>5 DEF PayloadRecv, One, Reads
    <3>2. NListR' = NListR + 1
      BY <2>2, <2>3, <2>5 DEF NListR
    <3>3. PayloadsHeld' = PayloadsHeld
      BY <1>18, <2>1, <2>4, <3>1, <3>2, PayloadSums
    <3> QED
      BY <1>1, <3>3, PartsOfPools DEF IInv, PayloadsAccounted
  <2>6. CASE rm \notin Reads
    <3>1. PayloadRecv = 0
      BY <1>1, <1>3, <2>6 DEF PayloadRecv, One, Reads
    <3>2. NListR' = NListR
      BY <2>2, <2>3, <2>6 DEF NListR
    <3>3. PayloadsHeld' = PayloadsHeld
      BY <1>18, <2>1, <2>4, <3>1, <3>2, PayloadSums
    <3> QED
      BY <1>1, <3>3, PartsOfPools DEF IInv, PayloadsAccounted
  <2> QED
    BY <2>5, <2>6
<1>21. WorksBounded'
  <2> DEFINE n == Cardinality({v \in Team("recv") : world[v] = "work"})
  <2>1. NList + n < WorkMax
    BY <1>1 DEF Works, NList
  <2>2. n \in Nat
    <3>1. {v \in Team("recv") : world[v] = "work"} \in SUBSET Worker
      BY DEF Team
    <3> QED
      BY <3>1, SubsetCount, WorkerAssumption
  <2>3. Works("recv")' = NList' + n
    BY <1>1 DEF Works, NList
  <2> HIDE DEF n
  <2>4. NList' + n <= WorkMax
    BY <1>5, <1>18, <2>1, <2>2, WorkerAssumption
  <2> QED
    BY <2>3, <2>4 DEF WorksBounded
<1> QED
  BY <1>1, <1>6, <1>7, <1>10, <1>11, <1>12, <1>13, <1>14, <1>15, <1>16, <1>19, <1>20, <1>21,
     Unaffected, TypesUnaffected, PartsOfPools DEF IInv, Types

(* The receiver wakes the workers, and goes on or ends. *)
LEMMA RecvWakeupPreserves ==
  ASSUME IInv, RecvWakeup
  PROVE  IInv'
<1>1. /\ recv = "wake" /\ recv' \in {"get", "exit"} /\ rm' = NoCmd
      /\ wakeups["recv"] > 0 /\ wakeups' = [wakeups EXCEPT !["recv"] = wakeups["recv"] - 1]
      /\ world' = Woken("recv") /\ UNCHANGED <<state, active, work_list, data>>
      /\ UNCHANGED <<bp, cmdVars, pc, chanVars, netVars, srvVars, endVars>>
  BY DEF RecvWakeup, Rx, Wakeup
<1>2. TypePool' /\ Workers' /\ WorksBounded' /\ ThreadPools'
  <2>1. "recv" \in Pool
    BY DEF Pool
  <2>2. wakeups["recv"] - 1 \in Nat
    BY <1>1, <2>1 DEF IInv, Types, TypePool
  <2> QED
    BY <1>1, <2>1, <2>2, Wakes DEF IInv, Types, TypePool
<1>3. /\ TypeRecv' /\ FreshUnsent' /\ InTable' /\ Exclusive' /\ Parts' /\ Lifecycle'
      /\ Connection'
  BY <1>1, ReceiverMoves
<1>4. MsgRecv' = MsgRecv /\ PayloadRecv' = PayloadRecv
  BY <1>1 DEF MsgRecv, PayloadRecv
<1>5. /\ Sending' = Sending /\ At("handle")' = At("handle") /\ At("resp")' = At("resp")
      /\ SendingWrites' = SendingWrites /\ HandledReads' = HandledReads
      /\ Pending' = Pending /\ PendingWrites' = PendingWrites /\ ListedReads' = ListedReads
  BY <1>1, CountsUnaffected
<1>6. MsgsHeld' = MsgsHeld /\ PayloadsHeld' = PayloadsHeld
  BY <1>1, <1>4, <1>5, CountsKept, MsgSums, PayloadSums
<1>7. MsgsAccounted' /\ PayloadsAccounted'
  BY <1>1, <1>6, PartsOfPools DEF IInv, MsgsAccounted, PayloadsAccounted
<1> QED
  BY <1>1, <1>2, <1>3, <1>7, Unaffected, TypesUnaffected, PartsOfPools DEF IInv, Types
-----------------------------------------------------------------------------
(* The steps of a handler leave what the senders say alone. *)
LEMMA HandlerSteps ==
  ASSUME IInv, NEW w \in RecvWorker, UNCHANGED <<cmd, isRead, work_list>>,
         \A v \in Worker : v # w => pc'[v] = pc[v] /\ data'[v] = data[v]
  PROVE  /\ \A v \in SendWorker : pc'[v] = pc[v] /\ data'[v] = data[v]
         /\ SendersApart' /\ \A c : Fresh(c)' = Fresh(c)
         /\ Sending' = Sending /\ SendingWrites' = SendingWrites
<1>1. \A v \in SendWorker : pc'[v] = pc[v] /\ data'[v] = data[v]
  BY Teams
<1>2. SendersApart'
  BY <1>1 DEF IInv, SendersApart
<1>3. \A c : Fresh(c)' = Fresh(c)
  BY <1>1 DEF Fresh
<1>4. Sending' = Sending
  BY <1>1 DEF Sending
<1>5. SendingWrites' = SendingWrites
  BY <1>1, <1>4 DEF SendingWrites, Sending
<1> QED
  BY <1>1, <1>2, <1>3, <1>4, <1>5

(* The CLOSED message is put. *)
LEMMA ReqHandlerPreserves ==
  ASSUME IInv, NEW w \in Worker, cb_mpp_req_handler(w)
  PROVE  IInv'
<1>1. /\ w \in RecvWorker /\ w \notin SendWorker /\ pc[w] = "handle" /\ data[w] = CLOSED
      /\ bp' = [bp EXCEPT !["msg"] = bufpool_put(bp["msg"], "msg")] /\ Go(w, "close")
      /\ UNCHANGED <<tpVars, cmdVars, chanVars, netVars, recvVars, srvVars, endVars>>
  <2>1. w \in SendWorker => pc[w] # "handle"
    BY DEF IInv, Workers, Early, Locked
  <2>2. bp' = [bp EXCEPT !["msg"] = bufpool_put(bp["msg"], "msg")]
    BY DEF cb_mpp_req_handler, IInv, Types, TypeBuf, BufPool
  <2> QED
    BY <2>1, <2>2 DEF cb_mpp_req_handler, Run, Worker
<1>2. /\ pc'[w] = "close" /\ \A v \in Worker : v # w => pc'[v] = pc[v]
      /\ TypeWork' /\ Workers' /\ SendersApart'
      /\ main \notin Boot
  BY <1>1, WorkerGoes
<1>3. /\ \A v \in SendWorker : pc'[v] = pc[v] /\ data'[v] = data[v]
      /\ SendersApart' /\ \A c : Fresh(c)' = Fresh(c)
      /\ Sending' = Sending /\ SendingWrites' = SendingWrites
  BY <1>1, <1>2, HandlerSteps
<1>4. \A c \in Cmd : /\ Asked(c)' <=> Asked(c)
                     /\ Served(c)' <=> Served(c)
                     /\ Arrived(c)' <=> Arrived(c)
                     /\ Listed(c)' <=> Listed(c)
                     /\ Handled(c)' <=> Handled(c)
                     /\ Responding(c)' <=> Responding(c)
  <2> TAKE c \in Cmd
  <2>1. (Asked(c)' <=> Asked(c)) /\ (Listed(c)' <=> Listed(c))
    BY <1>1 DEF Asked, Listed
  <2>2. (Served(c)' <=> Served(c)) /\ (Arrived(c)' <=> Arrived(c))
    BY <1>1 DEF Served, Arrived
  <2>3. Handled(c)' <=> Handled(c)
    BY <1>1, <1>2 DEF Handled, Worker
  <2>4. Responding(c)' <=> Responding(c)
    BY <1>1, <1>2 DEF Responding, Worker
  <2> QED
    BY <2>1, <2>2, <2>3, <2>4
<1>5. \A c \in Cmd : Complete(c)' <=> Complete(c)
  BY <1>1, <1>4 DEF Complete, Answered
<1>6. LockHeld'
  BY <1>1, <1>3 DEF IInv, LockHeld
<1>7. FreshUnsent'
  BY <1>1, <1>3, <1>4, <1>5 DEF IInv, FreshUnsent, Workers, Locked
<1>8. InTable' /\ Exclusive'
  BY <1>1, <1>4, <1>5 DEF IInv, InTable, Exclusive
<1>9. Once'
  BY <1>1, <1>2 DEF IInv, Once, Worker
<1>10. Connection'
  <2>1. ~up
    BY <1>1 DEF IInv, Connection
  <2>2. \A v \in Worker : pc'[v] = "closing" => pc[v] = "closing"
    BY <1>2
  <2> QED
    BY <1>1, <2>1, <2>2 DEF IInv, Connection
<1>11. NHandle' = NHandle - 1 /\ NHandle >= 1 /\ NResp' = NResp /\ NHandleR' = NHandleR
  <2>1. /\ w \in At("handle") /\ w \notin At("handle")' /\ w \notin At("resp")
        /\ w \notin At("resp")' /\ w \notin HandledReads /\ w \notin HandledReads'
    BY <1>1, <1>2 DEF At, HandledReads
  <2>2. /\ Moved(w, At("handle"), At("handle")') /\ Moved(w, At("resp"), At("resp")')
        /\ Moved(w, HandledReads, HandledReads')
    BY <1>1, <1>2, OneWorker
  <2> QED
    BY <2>1, <2>2 DEF Moved, NHandle, NResp, NHandleR
<1>12. /\ Pending' = Pending /\ PendingWrites' = PendingWrites /\ ListedReads' = ListedReads
  <2>1. Pending' = Pending
    BY <1>1, <1>3 DEF Pending, Sending
  <2> QED
    BY <1>1, <2>1 DEF PendingWrites, ListedReads, Received
<1>13. /\ NSend \in Nat /\ NPend \in Nat /\ NHandle \in Nat /\ NResp \in Nat
       /\ NList \in Nat
  BY CountsAreNat
<1>14. MsgsHeld' = MsgsHeld - 1 /\ MsgsHeld >= 1
  <2>1. NSend' = NSend /\ NPend' = NPend /\ NList' = NList
    BY <1>1, <1>3, <1>12, CountsKept
  <2>2. NHandle' = NHandle - 1 /\ NHandle >= 1 /\ NResp' = NResp
    BY <1>11
  <2>3. MsgRecv' = MsgRecv /\ MsgRecv \in Nat
    BY <1>1, MsgSums
  <2> QED
    BY <1>13, <2>1, <2>2, <2>3, MsgSums
<1>15. PayloadsHeld' = PayloadsHeld
  BY <1>1, <1>3, <1>11, <1>12, CountsKept, PayloadSums
<1>16. /\ TypeBuf' /\ BuffersSound' /\ bp'["msg"].issued = bp["msg"].issued - 1
       /\ bp'["payload"] = bp["payload"]
       /\ \A q \in BufPool : bp'[q].state = bp[q].state
  <2>1. /\ bp["msg"] \in BufPoolType /\ bp["payload"] \in BufPoolType
        /\ Sound(bp["msg"], "msg") /\ Sound(bp["payload"], "payload")
        /\ "msg" \in BufPool /\ "payload" \in BufPool
    BY PartsOfPools DEF IInv, Types, TypeBuf, BuffersSound, BufPool
  <2>2. bp["msg"].issued >= 1
    BY <1>14 DEF IInv, BuffersAccounted
  <2>3. PICK m : m = bufpool_put(bp["msg"], "msg")
    OBVIOUS
  <2>4. m \in BufPoolType /\ Sound(m, "msg") /\ m.issued = bp["msg"].issued - 1
        /\ m.state = bp["msg"].state
    BY <2>1, <2>2, <2>3, PutSound
  <2>5. bp' = [bp EXCEPT !["msg"] = m, !["payload"] = bp["payload"]]
    BY <1>1, <2>3 DEF IInv, Types, TypeBuf
  <2>6. /\ TypeBuf' /\ BuffersSound' /\ bp'["msg"] = m /\ bp'["payload"] = bp["payload"]
        /\ \A q \in BufPool : bp'[q].state = bp[q].state
    BY <2>1, <2>4, <2>5, Puts DEF IInv, Types
  <2> QED
    BY <2>4, <2>6
<1>17. Lifecycle'
  BY <1>1, <1>2, <1>16 DEF IInv, Lifecycle, BufPool
<1>18. MsgsAccounted' /\ PayloadsAccounted'
  BY <1>14, <1>15, <1>16, PartsOfPools DEF IInv, MsgsAccounted, PayloadsAccounted
<1> QED
  BY <1>1, <1>2, <1>6, <1>7, <1>8, <1>9, <1>10, <1>16, <1>17, <1>18,
     Unaffected, TypesUnaffected, PartsOfPools DEF IInv, Types

(* The handler of CLOSED ends. *)
LEMMA HandlerEndPreserves ==
  ASSUME IInv, NEW w \in Worker, HandlerEnd(w)
  PROVE  IInv'
<1>1. /\ w \in RecvWorker /\ w \notin SendWorker /\ pc[w] = "closed" /\ WorkDone(w)
      /\ Go(w, "none")
      /\ UNCHANGED <<bp, cmdVars, chanVars, netVars, recvVars, srvVars, endVars>>
  BY Teams DEF HandlerEnd, Run
<1>2. /\ pc'[w] = "none" /\ data'[w] = NoWork
      /\ \A v \in Worker : v # w => pc'[v] = pc[v] /\ data'[v] = data[v]
      /\ \A v \in Worker : pc'[v] # "none" => world'[v] = "work"
      /\ UNCHANGED <<state, active, work_list, wakeups>>
      /\ TypeWork' /\ TypePool' /\ TypeList' /\ ThreadPools' /\ WorksBounded'
      /\ main \notin Boot
  BY <1>1, EndsWork
<1>3. /\ \A v \in SendWorker : pc'[v] = pc[v] /\ data'[v] = data[v]
      /\ SendersApart' /\ \A c : Fresh(c)' = Fresh(c)
      /\ Sending' = Sending /\ SendingWrites' = SendingWrites
  BY <1>1, <1>2, HandlerSteps
<1>4. Workers'
  <2>1. \A v \in RecvWorker :
          /\ pc'[v] \in {"none", "handle", "resp"} \cup Closing
          /\ pc'[v] = "handle" => data'[v] \in Cmd \cup {CLOSED}
          /\ pc'[v] = "resp" => data'[v] \in Cmd
          /\ pc'[v] \in Closing => data'[v] = CLOSED
    BY <1>2 DEF IInv, Workers, Closing, Worker
  <2> QED
    BY <1>1, <1>2, <1>3, <2>1 DEF IInv, Workers
<1>5. \A c \in Cmd : /\ Asked(c)' <=> Asked(c)
                     /\ Served(c)' <=> Served(c)
                     /\ Arrived(c)' <=> Arrived(c)
                     /\ Listed(c)' <=> Listed(c)
                     /\ Handled(c)' <=> Handled(c)
                     /\ Responding(c)' <=> Responding(c)
  <2> TAKE c \in Cmd
  <2>1. (Asked(c)' <=> Asked(c)) /\ (Listed(c)' <=> Listed(c))
    BY <1>1, <1>2 DEF Asked, Listed
  <2>2. (Served(c)' <=> Served(c)) /\ (Arrived(c)' <=> Arrived(c))
    BY <1>1 DEF Served, Arrived
  <2>3. Handled(c)' <=> Handled(c)
    BY <1>1, <1>2 DEF Handled, Worker
  <2>4. Responding(c)' <=> Responding(c)
    BY <1>1, <1>2 DEF Responding, Worker
  <2> QED
    BY <2>1, <2>2, <2>3, <2>4
<1>6. \A c \in Cmd : Complete(c)' <=> Complete(c)
  BY <1>1, <1>5 DEF Complete, Answered
<1>7. LockHeld'
  BY <1>1, <1>3 DEF IInv, LockHeld
<1>8. FreshUnsent'
  BY <1>1, <1>3, <1>5, <1>6 DEF IInv, FreshUnsent, Workers, Locked
<1>9. InTable' /\ Exclusive'
  BY <1>1, <1>5, <1>6 DEF IInv, InTable, Exclusive
<1>10. Once'
  BY <1>1, <1>2 DEF IInv, Once, Worker
<1>11. Connection'
  <2>1. \A v \in Worker : pc'[v] # "none" => pc'[v] = pc[v] /\ data'[v] = data[v]
    BY <1>2
  <2>2. \A v \in Worker : pc'[v] \in Closing \cup {"closing"} => pc'[v] # "none"
    BY DEF Closing
  <2> QED
    BY <1>1, <1>2, <1>5, <2>1, <2>2 DEF IInv, Connection
<1>12. /\ At("handle")' = At("handle") /\ At("resp")' = At("resp")
       /\ HandledReads' = HandledReads
       /\ Pending' = Pending /\ PendingWrites' = PendingWrites /\ ListedReads' = ListedReads
  <2>1. At("handle")' = At("handle") /\ At("resp")' = At("resp")
    BY <1>1, <1>2 DEF At, Worker
  <2>2. HandledReads' = HandledReads
    BY <1>1, <1>2, <2>1 DEF HandledReads, At, Worker
  <2>3. Pending' = Pending
    BY <1>1, <1>3 DEF Pending, Sending
  <2> QED
    BY <1>1, <1>2, <2>1, <2>2, <2>3 DEF PendingWrites, ListedReads, Received
<1>13. MsgsHeld' = MsgsHeld /\ PayloadsHeld' = PayloadsHeld
  BY <1>1, <1>2, <1>3, <1>12, CountsKept, MsgSums, PayloadSums
<1>14. MsgsAccounted' /\ PayloadsAccounted'
  BY <1>1, <1>13, PartsOfPools DEF IInv, MsgsAccounted, PayloadsAccounted
<1>15. Lifecycle'
  BY <1>1, <1>2 DEF IInv, Lifecycle
<1> QED
  BY <1>1, <1>2, <1>3, <1>4, <1>7, <1>8, <1>9, <1>10, <1>11, <1>14, <1>15,
     Unaffected, TypesUnaffected, PartsOfPools DEF IInv, Types

(* A response is found in the table and taken out. *)
LEMMA ResponsePreserves ==
  ASSUME IInv, NEW w \in Worker, _rpc_response(w)
  PROVE  IInv'
<1>1. PICK c \in Cmd : /\ w \in RecvWorker /\ w \notin SendWorker /\ pc[w] = "handle"
                       /\ data[w] = c /\ lock = NoWork
  <2>1. w \in SendWorker => pc[w] # "handle"
    BY DEF IInv, Workers, Early, Locked
  <2> QED
    BY <2>1 DEF _rpc_response, Run, Worker, IInv, Workers
<1>2. Handled(c) /\ Complete(c) /\ c \in hash /\ cmd[c] = "queued"
  <2>1. Handled(c)
    BY <1>1 DEF Handled
  <2>2. Complete(c)
    BY <2>1 DEF Complete, Answered
  <2> QED
    BY <2>1, <2>2 DEF IInv, InTable
<1>3. CASE Crash("stale")
  BY <1>3, CrashPreserves DEF Crash, Cause
<1>4. CASE /\ hash' = hash \ {c} /\ Go(w, "resp")
           /\ UNCHANGED <<bp, tpVars, cmdVars, lock, enabled, netVars, recvVars, srvVars,
                          endVars>>
  <2>1. /\ pc'[w] = "resp" /\ \A v \in Worker : v # w => pc'[v] = pc[v]
        /\ TypeWork' /\ Workers' /\ SendersApart'
        /\ main \notin Boot
    BY <1>1, <1>4, WorkerGoes
  <2>2. /\ \A v \in SendWorker : pc'[v] = pc[v] /\ data'[v] = data[v]
        /\ SendersApart' /\ \A d : Fresh(d)' = Fresh(d)
        /\ Sending' = Sending /\ SendingWrites' = SendingWrites
    BY <1>1, <1>4, <2>1, HandlerSteps
  <2>3. \A v \in SendWorker : pc[v] \notin Locked
    BY <1>1 DEF IInv, LockHeld, Worker
  <2>4. \A v \in RecvWorker : v # w /\ pc[v] \in {"handle", "resp"} => data[v] # c
    BY <1>1 DEF IInv, Once
  <2>5. ~Asked(c) /\ ~Served(c) /\ ~Arrived(c) /\ ~Listed(c) /\ ~Fresh(c)
    BY <1>2 DEF IInv, Exclusive, FreshUnsent
  <2>6. \A d \in Cmd : /\ Asked(d)' <=> Asked(d)
                       /\ Served(d)' <=> Served(d)
                       /\ Arrived(d)' <=> Arrived(d)
                       /\ Listed(d)' <=> Listed(d)
                       /\ Handled(d)' <=> Handled(d) /\ d # c
                       /\ Responding(d)' <=> Responding(d) \/ d = c
    <3> TAKE d \in Cmd
    <3>1. (Asked(d)' <=> Asked(d)) /\ (Listed(d)' <=> Listed(d))
      BY <1>4 DEF Asked, Listed
    <3>2. (Served(d)' <=> Served(d)) /\ (Arrived(d)' <=> Arrived(d))
      BY <1>4 DEF Served, Arrived
    <3>3. Handled(d)' <=> Handled(d) /\ d # c
      BY <1>1, <1>4, <2>1, <2>4 DEF Handled, Worker
    <3>4. Responding(d)' <=> Responding(d) \/ d = c
      BY <1>1, <1>4, <2>1 DEF Responding, Worker
    <3> QED
      BY <3>1, <3>2, <3>3, <3>4
  <2>7. \A d \in Cmd : Complete(d)' <=> Complete(d) /\ d # c
    BY <1>4, <2>5, <2>6 DEF Complete, Answered, Asked
  <2>8. TypeChan'
    BY <1>4 DEF IInv, Types, TypeChan
  <2>9. LockHeld'
    BY <1>4, <2>2, <2>3 DEF IInv, LockHeld
  <2>10. FreshUnsent'
    BY <1>4, <2>2, <2>3, <2>5, <2>6 DEF IInv, FreshUnsent, Locked
  <2>11. InTable'
    BY <1>2, <1>4, <2>6, <2>7 DEF IInv, InTable
  <2>12. Exclusive'
    BY <2>5, <2>6 DEF IInv, Exclusive
  <2>13. Once'
    BY <1>1, <1>4, <2>1 DEF IInv, Once, Worker
  <2>14. Lifecycle'
    BY <1>4, <2>1 DEF IInv, Lifecycle
  <2>15. Connection'
    <3>1. \A v \in Worker : pc'[v] # "none" => pc[v] # "none"
      BY <1>1, <2>1
    <3>2. \A v \in Worker : pc'[v] \in Closing \cup {"closing"} => pc'[v] = pc[v]
      BY <2>1 DEF Closing
    <3>3. up => \A d \in Cmd : Asked(d)' => d \in hash' /\ cmd[d] = "queued"
      BY <1>4, <2>5, <2>6 DEF IInv, Connection
    <3> QED
      BY <1>4, <2>1, <3>1, <3>2, <3>3 DEF IInv, Connection
  <2>16. /\ NHandle' = NHandle - 1 /\ NResp' = NResp + 1
         /\ isRead[c] => NHandleR' = NHandleR - 1
         /\ ~isRead[c] => NHandleR' = NHandleR
    <3>1. /\ w \in At("handle") /\ w \notin At("handle")' /\ w \notin At("resp")
          /\ w \in At("resp")' /\ w \notin HandledReads'
          /\ w \in HandledReads <=> isRead[c]
      BY <1>1, <2>1 DEF At, HandledReads
    <3>2. /\ Moved(w, At("handle"), At("handle")') /\ Moved(w, At("resp"), At("resp")')
          /\ Moved(w, HandledReads, HandledReads')
      BY <1>1, <1>4, <2>1, OneWorker
    <3> QED
      BY <3>1, <3>2 DEF Moved, NHandle, NResp, NHandleR
  <2>17. /\ NPend' = NPend - 1
         /\ isRead[c] => NPendW' = NPendW
         /\ ~isRead[c] => NPendW' = NPendW - 1
    <3>1. \A v \in Sending : data[v] # c
      <4> SUFFICES ASSUME NEW v \in SendWorker, pc[v] # "none", data[v] = c PROVE FALSE
        BY DEF Sending
      <4>1. pc[v] \in Early
        BY <2>3 DEF IInv, Workers
      <4> QED
        BY <2>5, <4>1 DEF Fresh
    <3>2. c \in Pending /\ c \notin Pending'
      BY <1>2, <1>4, <3>1 DEF Pending
    <3>3. \A d \in Cmd : d # c => (d \in Pending <=> d \in Pending')
      BY <1>4, <2>2 DEF Pending, Sending
    <3>4. Moved(c, Pending, Pending') /\ Moved(c, PendingWrites, PendingWrites')
      BY <1>4, <2>8, <3>3, OnePending DEF IInv, Types
    <3>5. c \notin PendingWrites' /\ (c \in PendingWrites <=> ~isRead[c])
      BY <3>2 DEF PendingWrites
    <3> QED
      BY <3>2, <3>4, <3>5 DEF Moved, NPend, NPendW
  <2>18. /\ NSend \in Nat /\ NPend \in Nat /\ NHandle \in Nat /\ NResp \in Nat
         /\ NSendW \in Nat /\ NPendW \in Nat /\ NHandleR \in Nat /\ NListR \in Nat
         /\ NList \in Nat
    BY CountsAreNat
  <2>19. ListedReads' = ListedReads
    BY <1>4, CountsUnaffected
  <2>20. MsgsAccounted'
    <3>1. NSend' = NSend /\ NList' = NList
      BY <1>4, <2>2, CountsKept
    <3>2. MsgRecv' = MsgRecv /\ MsgRecv \in Nat
      BY <1>4, MsgSums
    <3>3. NHandle' = NHandle - 1 /\ NResp' = NResp + 1 /\ NPend' = NPend - 1
      BY <2>16, <2>17
    <3>4. MsgsHeld' = MsgsHeld
      BY <2>18, <3>1, <3>2, <3>3, MsgSums
    <3> QED
      BY <1>4, <3>4, PartsOfPools DEF IInv, MsgsAccounted
  <2>21. PayloadsAccounted'
    <3>1. NSendW' = NSendW /\ NListR' = NListR
      BY <2>2, <2>19, CountsKept
    <3>2. PayloadRecv' = PayloadRecv /\ PayloadRecv \in Nat
      BY <1>4, PayloadSums
    <3>3. NResp' = NResp + 1
      BY <2>16
    <3>4. CASE isRead[c]
      <4>1. NPendW' = NPendW /\ NHandleR' = NHandleR - 1
        BY <2>16, <2>17, <3>4
      <4>2. PayloadsHeld' = PayloadsHeld
        BY <2>18, <3>1, <3>2, <3>3, <4>1, PayloadSums
      <4> QED
        BY <1>4, <4>2, PartsOfPools DEF IInv, PayloadsAccounted
    <3>5. CASE ~isRead[c]
      <4>1. NPendW' = NPendW - 1 /\ NHandleR' = NHandleR
        BY <2>16, <2>17, <3>5
      <4>2. PayloadsHeld' = PayloadsHeld
        BY <2>18, <3>1, <3>2, <3>3, <4>1, PayloadSums
      <4> QED
        BY <1>4, <4>2, PartsOfPools DEF IInv, PayloadsAccounted
    <3> QED
      BY <3>4, <3>5
  <2> QED
    BY <1>4, <2>1, <2>8, <2>9, <2>10, <2>11, <2>12, <2>13, <2>14, <2>15, <2>20, <2>21,
       Unaffected, TypesUnaffected, PartsOfPools DEF IInv, Types
<1> QED
  BY <1>1, <1>2, <1>3, <1>4 DEF _rpc_response

(* The command is done; request and response are put. *)
LEMMA RespHandlerPreserves ==
  ASSUME IInv, NEW w \in Worker, cb_mpp_resp_handler(w), ~Broken("copy")
  PROVE  IInv'
<1>1. PICK c \in Cmd : /\ w \in RecvWorker /\ w \notin SendWorker /\ pc[w] = "resp"
                       /\ data[w] = c
  <2>1. w \in SendWorker => pc[w] # "resp"
    BY DEF IInv, Workers, Early, Locked
  <2> QED
    BY <2>1 DEF cb_mpp_resp_handler, Run, Worker, IInv, Workers
<1>2. /\ bp' = [bp EXCEPT !["msg"] = bufpool_put(bufpool_put(bp["msg"], "msg"), "msg"),
                          !["payload"] = bufpool_put(bp["payload"], "payload")]
      /\ cmd' = [cmd EXCEPT ![c] = "done"] /\ WorkDone(w) /\ Go(w, "none")
      /\ UNCHANGED <<isRead, chanVars, netVars, recvVars, srvVars, endVars>>
  BY <1>1 DEF cb_mpp_resp_handler, IInv, Types, TypeBuf, BufPool
<1>3. cmd'[c] = "done" /\ (\A d \in Cmd : d # c => cmd'[d] = cmd[d]) /\ TypeCmd'
  BY <1>2 DEF IInv, Types, TypeCmd
<1>4. /\ pc'[w] = "none" /\ data'[w] = NoWork
      /\ \A v \in Worker : v # w => pc'[v] = pc[v] /\ data'[v] = data[v]
      /\ \A v \in Worker : pc'[v] # "none" => world'[v] = "work"
      /\ UNCHANGED <<state, active, work_list, wakeups>>
      /\ TypeWork' /\ TypePool' /\ TypeList' /\ ThreadPools' /\ WorksBounded'
      /\ main \notin Boot
  BY <1>1, <1>2, EndsWork
<1>5. /\ Responding(c) /\ c \notin hash /\ cmd[c] = "queued" /\ ~Complete(c) /\ ~Asked(c)
      /\ ~Fresh(c)
  <2>1. Responding(c)
    BY <1>1 DEF Responding
  <2> QED
    BY <2>1 DEF IInv, InTable, Exclusive, FreshUnsent
<1>6. /\ \A v \in SendWorker : pc'[v] = pc[v] /\ data'[v] = data[v]
      /\ \A v \in SendWorker : pc[v] # "none" => data[v] # c
      /\ ~InQueue(c, work_list["send"])
  <2>1. \A v \in SendWorker : pc'[v] = pc[v] /\ data'[v] = data[v]
    BY <1>1, <1>4, Teams
  <2>2. \A v \in SendWorker : pc[v] # "none" => data[v] # c
    <3> SUFFICES ASSUME NEW v \in SendWorker, pc[v] # "none", data[v] = c PROVE FALSE
      OBVIOUS
    <3>1. pc[v] \in Early \/ pc[v] \in Locked
      BY DEF IInv, Workers
    <3>2. CASE pc[v] \in Early
      BY <1>5, <3>2 DEF Fresh
    <3>3. CASE pc[v] \in Locked
      BY <1>5, <3>3 DEF IInv, LockHeld
    <3> QED
      BY <3>1, <3>2, <3>3
  <2> QED
    BY <1>5, <2>1, <2>2 DEF Fresh
<1>7. Workers'
  <2>1. \A v \in SendWorker :
          /\ pc'[v] \in {"none"} \cup Early \cup Locked
          /\ pc'[v] # "none" => data'[v] \in Cmd /\ cmd'[data'[v]] = "queued"
          /\ pc'[v] \in {"payload", "body"} => ~isRead'[data'[v]]
    BY <1>2, <1>3, <1>6 DEF IInv, Workers
  <2>2. \A v \in RecvWorker :
          /\ pc'[v] \in {"none", "handle", "resp"} \cup Closing
          /\ pc'[v] = "handle" => data'[v] \in Cmd \cup {CLOSED}
          /\ pc'[v] = "resp" => data'[v] \in Cmd
          /\ pc'[v] \in Closing => data'[v] = CLOSED
    BY <1>4 DEF IInv, Workers, Closing, Worker
  <2> QED
    BY <1>4, <2>1, <2>2 DEF Workers
<1>8. SendersApart'
  BY <1>3, <1>4, <1>6 DEF IInv, SendersApart
<1>9. LockHeld'
  BY <1>2, <1>6 DEF IInv, LockHeld
<1>10. \A v \in RecvWorker : v # w /\ pc[v] \in {"handle", "resp"} => data[v] # c
  BY <1>1 DEF IInv, Once
<1>11. \A d \in Cmd : /\ Asked(d)' <=> Asked(d)
                      /\ Served(d)' <=> Served(d)
                      /\ Arrived(d)' <=> Arrived(d)
                      /\ Listed(d)' <=> Listed(d)
                      /\ Handled(d)' <=> Handled(d)
                      /\ Responding(d)' <=> Responding(d) /\ d # c
  <2> TAKE d \in Cmd
  <2>1. (Asked(d)' <=> Asked(d)) /\ (Listed(d)' <=> Listed(d))
    BY <1>2, <1>4 DEF Asked, Listed
  <2>2. (Served(d)' <=> Served(d)) /\ (Arrived(d)' <=> Arrived(d))
    BY <1>2 DEF Served, Arrived
  <2>3. Handled(d)' <=> Handled(d)
    BY <1>1, <1>4 DEF Handled, Worker
  <2>4. Responding(d)' <=> Responding(d) /\ d # c
    BY <1>1, <1>4, <1>10 DEF Responding, Worker
  <2> QED
    BY <2>1, <2>2, <2>3, <2>4
<1>12. \A d \in Cmd : (Complete(d)' <=> Complete(d)) /\ (Fresh(d)' <=> Fresh(d))
  <2> TAKE d \in Cmd
  <2>1. Complete(d)' <=> Complete(d)
    BY <1>2, <1>11 DEF Complete, Answered
  <2>2. Fresh(d)' <=> Fresh(d)
    BY <1>3, <1>4, <1>5, <1>6 DEF Fresh
  <2> QED
    BY <2>1, <2>2
<1>13. FreshUnsent'
  BY <1>2, <1>6, <1>11, <1>12 DEF IInv, FreshUnsent, Workers, Locked
<1>14. InTable'
  BY <1>2, <1>3, <1>5, <1>11, <1>12 DEF IInv, InTable, Types, TypeChan
<1>15. Exclusive'
  BY <1>11 DEF IInv, Exclusive
<1>16. Once'
  BY <1>1, <1>2, <1>4 DEF IInv, Once, Worker
<1>17. Connection'
  <2>1. \A v \in Worker : pc'[v] # "none" => pc'[v] = pc[v] /\ data'[v] = data[v]
    BY <1>4
  <2>2. \A v \in Worker : pc'[v] \in Closing \cup {"closing"} => pc'[v] # "none"
    BY DEF Closing
  <2>3. "link" \notin faults => \A d \in hash : cmd'[d] = "queued"
    BY <1>3, <1>5 DEF IInv, Connection, Types, TypeChan
  <2>4. up => \A d \in Cmd : Asked(d)' => d \in hash /\ cmd'[d] = "queued"
    BY <1>3, <1>5, <1>11 DEF IInv, Connection
  <2> QED
    BY <1>2, <1>4, <2>1, <2>2, <2>3, <2>4 DEF IInv, Connection
<1>18. NResp' = NResp - 1 /\ NResp >= 1 /\ NHandle' = NHandle /\ NHandleR' = NHandleR
  <2>1. /\ w \notin At("handle") /\ w \notin At("handle")' /\ w \in At("resp")
        /\ w \notin At("resp")' /\ w \notin HandledReads /\ w \notin HandledReads'
    BY <1>1, <1>4 DEF At, HandledReads
  <2>2. /\ Moved(w, At("handle"), At("handle")') /\ Moved(w, At("resp"), At("resp")')
        /\ Moved(w, HandledReads, HandledReads')
    BY <1>1, <1>2, <1>4, OneWorker
  <2> QED
    BY <2>1, <2>2 DEF Moved, NHandle, NResp, NHandleR
<1>19. /\ Sending' = Sending /\ SendingWrites' = SendingWrites
       /\ Pending' = Pending /\ PendingWrites' = PendingWrites /\ ListedReads' = ListedReads
  <2>1. Sending' = Sending
    BY <1>6 DEF Sending
  <2>2. SendingWrites' = SendingWrites
    BY <1>2, <1>6, <2>1 DEF SendingWrites, Sending
  <2>3. Pending' = Pending
    BY <1>2, <1>3, <1>5, <1>6, <2>1 DEF Pending, Sending, IInv, Types, TypeChan
  <2> QED
    BY <1>2, <1>4, <2>1, <2>2, <2>3 DEF PendingWrites, ListedReads, Received
<1>20. /\ NSend \in Nat /\ NPend \in Nat /\ NHandle \in Nat /\ NResp \in Nat
       /\ NSendW \in Nat /\ NPendW \in Nat /\ NHandleR \in Nat /\ NListR \in Nat
       /\ NList \in Nat
  BY CountsAreNat
<1>21. MsgsHeld' = MsgsHeld - 2 /\ MsgsHeld >= 2 /\ MsgsHeld \in Nat
  <2>1. NSend' = NSend /\ NPend' = NPend /\ NList' = NList
    BY <1>4, <1>19, CountsKept
  <2>2. NResp' = NResp - 1 /\ NResp >= 1 /\ NHandle' = NHandle
    BY <1>18
  <2>3. MsgRecv' = MsgRecv /\ MsgRecv \in Nat
    BY <1>2, MsgSums
  <2> QED
    BY <1>20, <2>1, <2>2, <2>3, MsgSums
<1>22. PayloadsHeld' = PayloadsHeld - 1 /\ PayloadsHeld >= 1
  <2>1. NSendW' = NSendW /\ NPendW' = NPendW /\ NListR' = NListR
    BY <1>19, CountsKept
  <2>2. NResp' = NResp - 1 /\ NResp >= 1 /\ NHandleR' = NHandleR
    BY <1>18
  <2>3. PayloadRecv' = PayloadRecv /\ PayloadRecv \in Nat
    BY <1>2, PayloadSums
  <2> QED
    BY <1>20, <2>1, <2>2, <2>3, PayloadSums
<1>23. /\ TypeBuf' /\ BuffersSound' /\ bp'["msg"].issued = bp["msg"].issued - 2
       /\ bp'["payload"].issued = bp["payload"].issued - 1
       /\ \A q \in BufPool : bp'[q].state = bp[q].state
  <2>1. /\ bp["msg"] \in BufPoolType /\ bp["payload"] \in BufPoolType
        /\ Sound(bp["msg"], "msg") /\ Sound(bp["payload"], "payload")
        /\ "msg" \in BufPool /\ "payload" \in BufPool
    BY PartsOfPools DEF IInv, Types, TypeBuf, BuffersSound, BufPool
  <2>2. bp["msg"].issued \in Nat /\ bp["msg"].issued >= 2 /\ bp["payload"].issued >= 1
    BY <1>21, <1>22 DEF IInv, BuffersAccounted
  <2>3. PICK m : m = bufpool_put(bp["msg"], "msg")
    OBVIOUS
  <2>4. m \in BufPoolType /\ Sound(m, "msg") /\ m.issued = bp["msg"].issued - 1
        /\ m.state = bp["msg"].state
    BY <2>1, <2>2, <2>3, PutSound
  <2>5. PICK n : n = bufpool_put(m, "msg")
    OBVIOUS
  <2>6. n \in BufPoolType /\ Sound(n, "msg") /\ n.issued = m.issued - 1 /\ n.state = m.state
    BY <2>1, <2>2, <2>4, <2>5, PutSound
  <2>7. PICK l : l = bufpool_put(bp["payload"], "payload")
    OBVIOUS
  <2>8. l \in BufPoolType /\ Sound(l, "payload") /\ l.issued = bp["payload"].issued - 1
        /\ l.state = bp["payload"].state
    BY <2>1, <2>2, <2>7, PutSound
  <2>9. bp' = [bp EXCEPT !["msg"] = n, !["payload"] = l]
    BY <1>2, <2>3, <2>5, <2>7
  <2>10. /\ TypeBuf' /\ BuffersSound' /\ bp'["msg"] = n /\ bp'["payload"] = l
         /\ \A q \in BufPool : bp'[q].state = bp[q].state
    BY <2>4, <2>6, <2>8, <2>9, Puts DEF IInv, Types
  <2> QED
    BY <2>2, <2>4, <2>6, <2>8, <2>10
<1>24. Lifecycle'
  BY <1>2, <1>3, <1>4, <1>23 DEF IInv, Lifecycle, BufPool
<1>25. MsgsAccounted' /\ PayloadsAccounted'
  BY <1>21, <1>22, <1>23, PartsOfPools DEF IInv, MsgsAccounted, PayloadsAccounted
<1> QED
  BY <1>2, <1>3, <1>4, <1>7, <1>8, <1>9, <1>13, <1>14, <1>15, <1>16, <1>17, <1>23, <1>24,
     <1>25, Unaffected, TypesUnaffected, PartsOfPools DEF IInv, Types
-----------------------------------------------------------------------------
(* The connection is lost. *)
LEMMA LinkDownPreserves ==
  ASSUME IInv, LinkDown
  PROVE  IInv'
<1> USE DEF LinkDown
<1>1. faults' \in SUBSET FaultKind /\ "link" \in faults'
  BY FaultHappens DEF IInv, Types, FaultKind
<1>2. TypeNet' /\ TypeEnd'
  BY <1>1 DEF IInv, Types, TypeNet, TypeEnd
<1>3. Connection'
  BY <1>1 DEF Connection
<1>4. Lifecycle' /\ ThreadPools'
  BY Unaffected DEF IInv
<1> QED
  BY <1>2, <1>3, <1>4, Unaffected, TypesUnaffected, CountsUnaffected, PartsOfPools
     DEF IInv, Types

(* The unload closes the socket. *)
LEMMA UnloadClosePreserves ==
  ASSUME IInv, UnloadClose
  PROVE  IInv'
<1> USE DEF UnloadClose, Boot, Running
<1>1. CASE sock = "closed"
  BY <1>1, CrashPreserves DEF Crash, Cause
<1>2. CASE sock # "closed"
  <2>1. /\ enabled' = FALSE /\ sock' = "closed" /\ up' = FALSE
        /\ main = "closing" /\ main' = "join"
        /\ UNCHANGED <<bp, tpVars, cmdVars, pc, lock, hash, out, in, recvVars, srvVars,
                       crash, faults>>
    BY <1>2 DEF socket_close
  <2>2. TypeChan' /\ TypeNet' /\ TypeEnd'
    BY <2>1 DEF IInv, Types, TypeChan, TypeNet, TypeEnd
  <2>3. Lifecycle' /\ ThreadPools'
    BY <2>1 DEF IInv, Lifecycle, ThreadPools
  <2>4. Connection'
    BY <2>1 DEF IInv, Connection
  <2> QED
    BY <2>1, <2>2, <2>3, <2>4, Unaffected, TypesUnaffected, CountsUnaffected, PartsOfPools
       DEF IInv, Types
<1> QED
  BY <1>1, <1>2

(* A step of deinit_cachebox after the receiver has ended. *)
LEMMA LateStep ==
  ASSUME IInv, main \notin Boot \cup Running, main' \notin Boot \cup Running,
         \A q \in BufPool : bp'[q].issued = bp[q].issued,
         UNCHANGED <<cmdVars, pc, work_list, data, chanVars, netVars, recvVars, srvVars,
                     faults>>
  PROVE  Lifecycle' /\ Connection' /\ MsgsAccounted' /\ PayloadsAccounted'
<1>1. Lifecycle'
  BY DEF IInv, Lifecycle, Boot, Running
<1>2. Connection'
  BY DEF IInv, Connection, Boot, Running, Asked
<1>3. MsgsHeld' = MsgsHeld /\ PayloadsHeld' = PayloadsHeld
  BY DEF MsgsHeld, PayloadsHeld, Sending, Pending, At, Received
<1> QED
  BY <1>1, <1>2, <1>3, PartsOfPools
     DEF IInv, MsgsAccounted, PayloadsAccounted, BufPool

(* When all worlds of a pool have left, its works are done. *)
LEMMA WorksDone ==
  ASSUME IInv, NEW p \in Pool, Joined(p)
  PROVE  active[p] = 0 /\ work_list[p] = <<>>
<1>1. \A w \in Team(p) : world[w] = "exit"
  BY DEF Joined
<1>2. {w \in Team(p) : world[w] \notin {"none", "exit"}} = {}
  BY <1>1
<1>3. active[p] = 0
  BY <1>2, FS_EmptySet DEF IInv, ThreadPools
<1>4. \E w \in Worker : w \in Team(p)
  BY WorkerAssumption DEF Team, Worker, PoolOf, Pool
<1> QED
  BY <1>1, <1>3, <1>4 DEF IInv, ThreadPools

(* thread_pool_deinit waits for that, and asserts it. *)
LEMMA ThreadPoolDeinitPreserves ==
  ASSUME IInv, NEW p \in Pool, NEW shut, NEW wake, NEW join, NEW next,
         thread_pool_deinit(p, shut, wake, join, next),
         \A s \in {shut, wake, join, next} : s \notin Boot \cup Running,
         join # shut, join # wake
  PROVE  IInv'
<1> USE DEF thread_pool_deinit
<1>1. /\ main \notin Boot \cup Running /\ main' \notin Boot \cup Running
      /\ UNCHANGED <<bp, cmdVars, pc, chanVars, netVars, recvVars, srvVars, faults,
                     work_list, data, active, wakeups>>
  BY DEF Shut, ShutWake
<1>2. Lifecycle' /\ Connection' /\ MsgsAccounted' /\ PayloadsAccounted'
  BY <1>1, LateStep
<1>3. crash' = "no"
  <2>1. CASE main # join
    BY <2>1
  <2>2. CASE main = join
    BY <2>2, WorksDone
  <2> QED
    BY <2>1, <2>2
<1>4. TypeEnd'
  BY <1>1, <1>3 DEF IInv, Types, TypeEnd, Cause
<1>5. TypePool' /\ Workers' /\ WorksBounded' /\ ThreadPools'
  <2>1. CASE Shut(p)
    <3>1. state' = [state EXCEPT ![p] = "SHUTTING"] /\ UNCHANGED world
      BY <2>1 DEF Shut
    <3>2. TypePool'
      BY <1>1, <3>1 DEF IInv, Types, TypePool
    <3>3. \A q \in Pool : state'[q] = state[q] \/ state'[q] = "SHUTTING"
      BY <3>1 DEF IInv, Types, TypePool
    <3>4. ThreadPools'
      <4> SUFFICES ASSUME NEW q \in Pool
          PROVE /\ active'[q]
                     = Cardinality({w \in Team(q) : world'[w] \notin {"none", "exit"}})
                /\ state'[q] = "UNINITIALIZED" => \A w \in Team(q) : world'[w] = "none"
                /\ \A w \in Team(q) :
                     world'[w] = "exit" => state'[q] = "SHUTTING" /\ work_list'[q] = <<>>
        BY <1>1 DEF ThreadPools, Running
      <4> QED
        BY <1>1, <3>1, <3>3 DEF IInv, ThreadPools
    <3> QED
      BY <1>1, <3>1, <3>2, <3>4, Unaffected, PartsOfPools DEF IInv
  <2>2. CASE ShutWake(p)
    <3>1. /\ world' = Woken(p) /\ UNCHANGED state
      BY <2>2 DEF ShutWake
    <3>2. /\ \A w \in Worker : /\ world'[w] = "work" <=> world[w] = "work"
                               /\ world'[w] = "none" <=> world[w] = "none"
                               /\ world'[w] = "exit" <=> world[w] = "exit"
          /\ world' \in [Worker -> {"none", "look", "asleep", "work", "exit"}]
          /\ Workers' /\ WorksBounded'
      BY <1>1, <3>1, Wakes
    <3>3. \A q \in Pool : \A w \in Team(q) : w \in Worker
      BY DEF Team
    <3>4. \A q \in Pool : {w \in Team(q) : world'[w] \notin {"none", "exit"}}
                            = {w \in Team(q) : world[w] \notin {"none", "exit"}}
      BY <3>2, <3>3
    <3>5. ThreadPools'
      <4> SUFFICES ASSUME NEW q \in Pool
          PROVE /\ active'[q]
                     = Cardinality({w \in Team(q) : world'[w] \notin {"none", "exit"}})
                /\ state'[q] = "UNINITIALIZED" => \A w \in Team(q) : world'[w] = "none"
                /\ \A w \in Team(q) :
                     world'[w] = "exit" => state'[q] = "SHUTTING" /\ work_list'[q] = <<>>
        BY <1>1 DEF ThreadPools, Running
      <4>1. /\ active[q] = Cardinality({w \in Team(q) : world[w] \notin {"none", "exit"}})
            /\ state[q] = "UNINITIALIZED" => \A w \in Team(q) : world[w] = "none"
            /\ \A w \in Team(q) :
                 world[w] = "exit" => state[q] = "SHUTTING" /\ work_list[q] = <<>>
        BY DEF IInv, ThreadPools
      <4> QED
        BY <1>1, <3>1, <3>2, <3>3, <3>4, <4>1
    <3> QED
      BY <1>1, <3>1, <3>2, <3>5 DEF IInv, Types, TypePool
  <2>3. CASE UNCHANGED tpVars
    <3>1. ThreadPools'
      BY <1>1, <2>3 DEF IInv, ThreadPools, Running
    <3> QED
      BY <1>1, <2>3, <3>1, Unaffected, TypesUnaffected, PartsOfPools DEF IInv, Types
  <2> QED
    BY <2>1, <2>2, <2>3
<1> QED
  BY <1>1, <1>2, <1>4, <1>5, Unaffected, TypesUnaffected, PartsOfPools DEF IInv, Types

(* bufpool_deinit waits for the last buffer and frees them all. *)
LEMMA BufPoolDeinitPreserves ==
  ASSUME IInv, NEW p \in BufPool, NEW s, NEW next, bufpool_deinit(p, s, next),
         s \notin Boot \cup Running, next \notin Boot \cup Running
  PROVE  IInv'
<1> USE DEF bufpool_deinit
<1>1. /\ main \notin Boot \cup Running /\ main' \notin Boot \cup Running
      /\ UNCHANGED <<tpVars, cmdVars, pc, chanVars, netVars, recvVars, srvVars, crash,
                     faults>>
  OBVIOUS
<1>2. PICK b : b = bp[p]
  OBVIOUS
<1>3. /\ b \in BufPoolType /\ b.freelist \in Nat /\ b.owned \in Nat /\ b.issued \in Nat
      /\ Sound(b, p) /\ nmax[p] \in Nat /\ nbufs[p] \in Nat
  <2>1. b \in BufPoolType /\ Sound(b, p)
    BY <1>2, PartsOfPools DEF IInv, Types, TypeBuf, BuffersSound
  <2> QED
    BY <2>1, PoolAssumption DEF BufPoolType, nmax, nbufs, BufPool
<1>4. PICK n \in BufPoolType :
        bp' = [bp EXCEPT ![p] = n] /\ n.issued = b.issued /\ Sound(n, p)
  <2>1. CASE DeinitBegin(p)
    <3>1. PICK n : n = [b EXCEPT !.state = "DEINITING"]
      OBVIOUS
    <3>2. bp' = [bp EXCEPT ![p] = n]
      BY <1>2, <2>1, <3>1 DEF DeinitBegin, IInv, Types, TypeBuf
    <3>3. /\ n \in BufPoolType /\ n.issued = b.issued /\ n.freelist = b.freelist
          /\ n.owned = b.owned
      BY <1>3, <3>1 DEF BufPoolType
    <3> QED
      BY <1>3, <3>2, <3>3 DEF Sound
  <2>2. CASE DeinitEnd(p)
    <3>1. b.issued = 0 /\ b.owned - b.freelist = 0
      BY <1>2, <1>3, <2>2 DEF DeinitEnd, Sound
    <3>2. PICK n : n = [b EXCEPT !.freelist = 0, !.owned = b.owned - b.freelist,
                                 !.state = "DEINTED"]
      OBVIOUS
    <3>3. bp' = [bp EXCEPT ![p] = n]
      BY <1>2, <2>2, <3>2 DEF DeinitEnd, IInv, Types, TypeBuf
    <3>4. /\ n \in BufPoolType /\ n.issued = b.issued /\ n.freelist = 0 /\ n.owned = 0
      BY <1>3, <3>1, <3>2 DEF BufPoolType
    <3>5. Sound(n, p)
      BY <1>3, <3>1, <3>4 DEF Sound
    <3> QED
      BY <3>3, <3>4, <3>5
  <2> QED
    BY <2>1, <2>2
<1>5. TypeBuf' /\ BuffersSound'
  BY <1>4, PartsOfPools DEF IInv, Types, TypeBuf, BuffersSound
<1>6. \A q \in BufPool : bp'[q].issued = bp[q].issued
  BY <1>2, <1>4 DEF IInv, Types, TypeBuf
<1>7. Lifecycle' /\ Connection' /\ MsgsAccounted' /\ PayloadsAccounted'
  BY <1>1, <1>6, LateStep
<1>8. ThreadPools'
  BY <1>1 DEF IInv, ThreadPools, Running
<1> QED
  BY <1>1, <1>5, <1>7, <1>8, Unaffected, TypesUnaffected, PartsOfPools DEF IInv, Types

(* hash_deinit asserts that the table is empty. *)
LEMMA HashDeinitPreserves ==
  ASSUME IInv, hash_deinit
  PROVE  IInv'
<1>1. CASE hash # {}
  BY <1>1, CrashPreserves DEF hash_deinit, Crash, Cause
<1>2. CASE hash = {}
  BY <1>2, MainPreserves
<1> QED
  BY <1>1, <1>2
-----------------------------------------------------------------------------
(* The requests that the server may have. *)
Live == {c \in hash : cmd[c] = "queued"}

(* Each of them holds a message of the pool. *)
LEMMA LiveBounded ==
  ASSUME IInv
  PROVE  Live \in SUBSET Cmd /\ Cardinality(Live) \in Nat /\ Cardinality(Live) + 1 <= SrvMax
<1>1. /\ Live \in SUBSET Cmd /\ Pending \in SUBSET Live
      /\ Sending \in SUBSET Worker
  BY DEF IInv, Types, TypeChan, Live, Pending, Sending, Worker
<1>2. IsFiniteSet(Sending) /\ Cardinality(Sending) \in Nat
  BY <1>1, SubsetCount, WorkerAssumption
<1>3. /\ Cardinality(Live) \in Nat /\ Cardinality(Pending) \in Nat
      /\ Cardinality(Live \ Pending) = Cardinality(Live) - Cardinality(Pending)
  BY <1>1, CountWithout
<1>4. Cardinality(Live \ Pending) <= Cardinality(Sending)
  <2>1. \A c \in Live \ Pending : \E w \in Sending : data[w] = c
    BY DEF Live, Pending
  <2> QED
    BY <1>2, <2>1, CountImage
<1>5. Cardinality(Live) <= NSend + NPend
  BY <1>2, <1>3, <1>4 DEF NSend, NPend
<1>6. NSend + NPend <= MsgsHeld
  BY CountsAreNat, MsgSums
<1>7. MsgsHeld <= nmsg_max
  <2>1. PICK b : b = bp["msg"]
    OBVIOUS
  <2>2. /\ b \in BufPoolType /\ Sound(b, "msg") /\ b.issued = MsgsHeld
    BY <2>1, PartsOfPools
       DEF IInv, Types, TypeBuf, BuffersSound, MsgsAccounted, BufPool
  <2>3. b.issued \in Nat /\ b.owned \in Nat /\ b.freelist \in Nat
    BY <2>2 DEF BufPoolType
  <2>4. nmax["msg"] = nmsg_max /\ nmsg_max \in Nat
    BY PoolAssumption DEF nmax, BufPool
  <2> QED
    BY <2>2, <2>3, <2>4 DEF Sound
<1>8. /\ MsgsHeld \in Nat /\ NSend + NPend \in Nat /\ nmsg_max \in Nat /\ SrvMax \in Nat
      /\ nmsg_max < SrvMax
  BY CountsAreNat, MsgSums, PoolAssumption, ChannelAssumption
<1> QED
  BY <1>1, <1>3, <1>5, <1>6, <1>7, <1>8

(* So they fit into the server's pool. *)
LEMMA ServerHolds ==
  ASSUME IInv, NEW S \in SUBSET Live, NEW x \in Live \cup {NoCmd}, x \notin S
  PROVE  Cardinality(S) + One(x # NoCmd) + 1 <= SrvMax
<1>1. Live \in SUBSET Cmd /\ Cardinality(Live) \in Nat /\ Cardinality(Live) + 1 <= SrvMax
  BY LiveBounded
<1>2. /\ IsFiniteSet(Live) /\ IsFiniteSet(S) /\ Cardinality(S) \in Nat
      /\ Cardinality(S) <= Cardinality(Live)
  BY <1>1, SubsetCount, FS_Subset
<1>3. SrvMax \in Nat
  BY ChannelAssumption
<1>4. CASE x = NoCmd
  BY <1>1, <1>2, <1>3, <1>4 DEF One
<1>5. CASE x # NoCmd
  <2>1. S \cup {x} \in SUBSET Live
    BY <1>5
  <2>2. Cardinality(S \cup {x}) = Cardinality(S) + 1
    BY <1>2, FS_AddElement
  <2>3. Cardinality(S \cup {x}) <= Cardinality(Live)
    BY <1>2, <2>1, FS_Subset
  <2> QED
    BY <1>1, <1>2, <1>3, <1>5, <2>2, <2>3 DEF One
<1> QED
  BY <1>4, <1>5

(* The server reads a header or a payload. *)
LEMMA SrvReceivePreserves ==
  ASSUME IInv, NEW c \in Cmd, SrvReceive(c)
  PROVE  IInv'
<1>1. PICK part \in {"hdr", "body"} :
        /\ up /\ out # <<>> /\ Head(out) = <<c, part>> /\ out' = Tail(out)
        /\ part = "hdr" => srvIn = NoCmd
        /\ part = "body" => srvIn = c
        /\ part = "hdr" /\ ~isRead[c] => srvIn' = c /\ srv' = srv
        /\ part = "body" \/ isRead[c] => srvIn' = NoCmd /\ srv' = srv \cup {c}
        /\ UNCHANGED <<bp, tpVars, cmdVars, pc, chanVars, sock, up, in, recvVars, srvOut,
                       endVars>>
  BY DEF SrvReceive
<1>2. /\ out' \in Seq(Fragment) /\ Distinct(out', Fragment)
      /\ InQueue(<<c, part>>, out) /\ ~InQueue(<<c, part>>, out')
      /\ \A y : y # <<c, part>> => (InQueue(y, out') <=> InQueue(y, out))
  <2>1. out \in Seq(Fragment) /\ <<c, part>> \in Fragment
    BY DEF IInv, Types, TypeNet, Fragment
  <2>2. Distinct(out, Fragment)
    BY DEF IInv, Once
  <2> QED
    BY <1>1, <2>1, <2>2, TailOf
<1>3. /\ \A d \in Cmd :
           d # c => /\ InQueue(<<d, "hdr">>, out') <=> InQueue(<<d, "hdr">>, out)
                    /\ InQueue(<<d, "body">>, out') <=> InQueue(<<d, "body">>, out)
      /\ ~InQueue(<<c, "hdr">>, out')
      /\ InQueue(<<c, "body">>, out') => part = "hdr" /\ InQueue(<<c, "body">>, out)
      /\ part = "hdr" => (InQueue(<<c, "body">>, out') <=> InQueue(<<c, "body">>, out))
  <2>1. \A d \in Cmd : d # c => <<d, "hdr">> # <<c, part>> /\ <<d, "body">> # <<c, part>>
    OBVIOUS
  <2>2. \A d \in Cmd :
          d # c => /\ InQueue(<<d, "hdr">>, out') <=> InQueue(<<d, "hdr">>, out)
                   /\ InQueue(<<d, "body">>, out') <=> InQueue(<<d, "body">>, out)
    BY <1>2, <2>1
  <2>3. CASE part = "hdr"
    <3>1. <<c, "body">> # <<c, part>>
      BY <2>3
    <3> QED
      BY <1>2, <2>2, <2>3, <3>1
  <2>4. CASE part = "body"
    <3>1. <<c, "hdr">> # <<c, part>>
      BY <2>4
    <3>2. ~InQueue(<<c, "hdr">>, out)
      BY <1>1, <2>4 DEF IInv, Parts
    <3> QED
      BY <1>2, <2>2, <2>4, <3>1, <3>2
  <2> QED
    BY <1>1, <2>3, <2>4
<1>4. /\ Asked(c) /\ ~Served(c) /\ ~Arrived(c) /\ ~Listed(c) /\ ~Handled(c)
      /\ ~Responding(c)
  <2>1. Asked(c)
    BY <1>1, <1>2 DEF Asked
  <2> QED
    BY <2>1 DEF IInv, Exclusive
<1>5. \A d \in Cmd : /\ Arrived(d)' <=> Arrived(d)
                     /\ Listed(d)' <=> Listed(d)
                     /\ Handled(d)' <=> Handled(d)
                     /\ Responding(d)' <=> Responding(d)
                     /\ Fresh(d)' <=> Fresh(d)
  BY <1>1 DEF Arrived, Listed, Handled, Responding, Fresh
<1>6. \A d \in Cmd : d # c => (Asked(d)' <=> Asked(d)) /\ (Served(d)' <=> Served(d))
  <2> SUFFICES ASSUME NEW d \in Cmd, d # c
               PROVE  (Asked(d)' <=> Asked(d)) /\ (Served(d)' <=> Served(d))
    OBVIOUS
  <2>1. srvIn # d /\ srvIn' # d /\ (d \in srv' <=> d \in srv)
    BY <1>1
  <2> QED
    BY <1>1, <1>3, <2>1 DEF Asked, Served
<1>7. /\ part = "hdr" /\ ~isRead[c] => Asked(c)' /\ ~Served(c)'
      /\ part = "body" \/ isRead[c] => ~Asked(c)' /\ Served(c)'
  <2>1. part = "hdr" /\ ~isRead[c] => Asked(c)' /\ ~Served(c)'
    BY <1>1, <1>4 DEF Asked, Served
  <2>2. ASSUME part = "body" \/ isRead[c] PROVE ~Asked(c)' /\ Served(c)'
    <3>1. ~InQueue(<<c, "body">>, out')
      BY <1>3, <2>2 DEF IInv, Parts
    <3> QED
      BY <1>1, <1>3, <2>2, <3>1 DEF Asked, Served
  <2> QED
    BY <2>1, <2>2
<1>8. \A d \in Cmd : Complete(d)' <=> Complete(d)
  <2> TAKE d \in Cmd
  <2>1. CASE d # c
    BY <1>1, <1>3, <1>5, <1>6, <2>1 DEF Complete, Answered
  <2>2. CASE d = c /\ part = "hdr" /\ ~isRead[c]
    BY <1>1, <1>3, <1>4, <1>5, <1>7, <2>2 DEF Complete, Answered
  <2>3. CASE d = c /\ (part = "body" \/ isRead[c])
    <3>1. Complete(c)
      BY <1>1, <1>2, <2>3 DEF Complete
    <3>2. Complete(c)'
      BY <1>7, <2>3 DEF Complete, Answered
    <3> QED
      BY <2>3, <3>1, <3>2
  <2> QED
    BY <1>1, <2>1, <2>2, <2>3
<1>9. \A d \in Cmd : Asked(d)' => Asked(d)
  BY <1>4, <1>6
<1>10. TypeNet' /\ TypeSrv'
  BY <1>1, <1>2 DEF IInv, Types, TypeNet, TypeSrv
<1>11. FreshUnsent'
  <2>1. \A d \in Cmd : Fresh(d)' => d \notin hash' /\ ~Asked(d)' /\ ~Responding(d)'
    BY <1>1, <1>5, <1>9 DEF IInv, FreshUnsent
  <2>2. ASSUME NEW w \in SendWorker
        PROVE /\ pc'[w] \in Locked \ {"unlock"} => ~Complete(data[w])'
              /\ pc'[w] = "hdr" => ~Asked(data[w])'
    <3>1. pc'[w] = pc[w] /\ data'[w] = data[w]
      BY <1>1
    <3>2. pc[w] \in Locked => data[w] \in Cmd
      BY DEF IInv, Workers, Locked
    <3>3. CASE pc[w] \in Locked
      <4>1. /\ Complete(data[w])' <=> Complete(data[w])
            /\ Asked(data[w])' => Asked(data[w])
        <5>1. PICK d \in Cmd : d = data[w] /\ d = data'[w]
          BY <3>1, <3>2, <3>3
        <5> QED
          BY <1>8, <1>9, <5>1
      <4> QED
        BY <3>1, <4>1 DEF IInv, FreshUnsent
    <3> QED
      BY <3>1, <3>3 DEF Locked
  <2> QED
    BY <2>1, <2>2 DEF FreshUnsent
<1>12. InTable'
  BY <1>1, <1>5, <1>8 DEF IInv, InTable
<1>13. Exclusive'
  <2> SUFFICES ASSUME NEW d \in Cmd
      PROVE (/\ Served(d)  => ~Asked(d)
             /\ Arrived(d) => ~Asked(d) /\ ~Served(d)
             /\ Listed(d)  => ~Asked(d) /\ ~Served(d) /\ ~Arrived(d)
             /\ Handled(d) => ~Asked(d) /\ ~Served(d) /\ ~Arrived(d) /\ ~Listed(d)
             /\ Responding(d) => ~Asked(d))'
    BY DEF Exclusive
  <2>1. CASE d = c
    BY <1>1, <1>4, <1>5, <1>7, <2>1
  <2>2. CASE d # c
    BY <1>5, <1>6, <2>2 DEF IInv, Exclusive
  <2> QED
    BY <2>1, <2>2
<1>14. Once'
  BY <1>1, <1>2 DEF IInv, Once
<1>15. Parts'
  <2>1. ASSUME NEW d \in Cmd
        PROVE  /\ srvIn' = d => ~isRead[d] /\ ~InQueue(<<d, "hdr">>, out')
               /\ InQueue(<<d, "body">>, out') => ~isRead[d]
               /\ InQueue(<<d, "body">>, in) => isRead[d] /\ d \notin srv'
               /\ srvOut = d => d \in srv' /\ isRead[d]
               /\ d \in srv' /\ srvOut # d =>
                    ~InQueue(<<d, "hdr">>, in) /\ ~(rm = d /\ recv \in {"payload", "body"})
               /\ rm = d /\ recv \in {"payload", "body"} => ~InQueue(<<d, "hdr">>, in)
    <3>1. CASE d = c
      <4>1. /\ c \notin srv /\ ~InQueue(<<c, "hdr">>, in) /\ ~InQueue(<<c, "body">>, in)
            /\ ~(rm = c /\ recv \in {"payload", "body"})
        BY <1>4 DEF Served
      <4>2. srvOut # c
        BY <4>1 DEF IInv, Parts
      <4>3. InQueue(<<c, "body">>, out') => ~isRead[c]
        BY <1>3 DEF IInv, Parts
      <4>4. srvIn' = c => ~isRead[c]
        BY <1>1
      <4> QED
        BY <1>3, <3>1, <4>1, <4>2, <4>3, <4>4
    <3>2. CASE d # c
      <4>1. srvIn' # d /\ (d \in srv' <=> d \in srv)
        BY <1>1, <3>2
      <4> QED
        BY <1>3, <3>2, <4>1 DEF IInv, Parts
    <3> QED
      BY <3>1, <3>2
  <2> QED
    BY <1>1, <2>1 DEF IInv, Parts
<1>16. Connection'
  BY <1>1, <1>9 DEF IInv, Connection
<1>17. ServerBounded'
  <2>1. \A d \in Cmd : Asked(d) \/ Served(d) => d \in Live
    <3>1. \A d \in Cmd : Served(d) => Complete(d)
      BY DEF Complete, Answered
    <3> QED
      BY <1>1, <3>1 DEF IInv, InTable, Connection, Live
  <2>2. srv' \in SUBSET Live
    <3>1. \A d \in Cmd : d \in srv => Served(d)
      BY DEF Served
    <3>2. \A d \in srv' : d \in Cmd /\ (d \in srv \/ d = c)
      BY <1>1 DEF IInv, Types, TypeSrv
    <3> QED
      BY <1>4, <2>1, <3>1, <3>2
  <2>3. srvIn' \in Live \cup {NoCmd} /\ srvIn' \notin srv'
    <3>1. CASE part = "hdr" /\ ~isRead[c]
      <4>1. c \notin srv
        BY <1>4 DEF Served
      <4> QED
        BY <1>1, <1>4, <2>1, <3>1, <4>1
    <3>2. CASE part = "body" \/ isRead[c]
      BY <1>1, <2>2, <3>2, LiveBounded
    <3> QED
      BY <1>1, <3>1, <3>2
  <2> QED
    BY <2>2, <2>3, ServerHolds DEF ServerBounded
<1> QED
  BY <1>1, <1>10, <1>11, <1>12, <1>13, <1>14, <1>15, <1>16, <1>17, Unaffected,
     TypesUnaffected, CountsUnaffected, PartsOfPools DEF IInv, Types

(* The server writes the header or the payload of a response. *)
LEMMA SrvRespondPreserves ==
  ASSUME IInv, NEW c \in Cmd, SrvRespond(c)
  PROVE  IInv'
<1>1. PICK part \in {"hdr", "body"} :
        /\ c \in srv /\ in' = Append(in, <<c, part>>)
        /\ part = "hdr" => srvOut = NoCmd
        /\ part = "body" => srvOut = c
        /\ part = "hdr" /\ isRead[c] => srvOut' = c /\ srv' = srv
        /\ part = "body" \/ ~isRead[c] => srvOut' = NoCmd /\ srv' = srv \ {c}
        /\ UNCHANGED <<bp, tpVars, cmdVars, pc, chanVars, sock, up, out, recvVars, srvIn,
                       endVars>>
  BY DEF SrvRespond
<1>2. ~InQueue(<<c, part>>, in)
  <2>1. CASE part = "hdr"
    BY <1>1, <2>1 DEF IInv, Parts
  <2>2. CASE part = "body"
    BY <1>1, <2>2 DEF IInv, Parts
  <2> QED
    BY <1>1, <2>1, <2>2
<1>3. /\ in' \in Seq(Fragment) /\ Distinct(in', Fragment)
      /\ \A y : InQueue(y, in') <=> InQueue(y, in) \/ y = <<c, part>>
  <2>1. in \in Seq(Fragment) /\ <<c, part>> \in Fragment
    BY DEF IInv, Types, TypeNet, Fragment
  <2>2. Distinct(in, Fragment)
    BY DEF IInv, Once
  <2> QED
    BY <1>1, <1>2, <2>1, <2>2, AppendTo
<1>4. \A d \in Cmd :
        /\ InQueue(<<d, "hdr">>, in')
             <=> InQueue(<<d, "hdr">>, in) \/ (d = c /\ part = "hdr")
        /\ InQueue(<<d, "body">>, in')
             <=> InQueue(<<d, "body">>, in) \/ (d = c /\ part = "body")
  <2> TAKE d \in Cmd
  <2>1. /\ <<d, "hdr">> = <<c, part>> <=> d = c /\ part = "hdr"
        /\ <<d, "body">> = <<c, part>> <=> d = c /\ part = "body"
    OBVIOUS
  <2> QED
    BY <1>3, <2>1
<1>5. \A d \in Cmd : /\ Asked(d)' <=> Asked(d)
                     /\ Served(d)' <=> Served(d)
                     /\ Arrived(d)' <=> Arrived(d)
                     /\ Listed(d)' <=> Listed(d)
                     /\ Handled(d)' <=> Handled(d)
                     /\ Responding(d)' <=> Responding(d)
                     /\ Fresh(d)' <=> Fresh(d)
  <2> TAKE d \in Cmd
  <2>1. Served(d)' <=> Served(d)
    <3>1. CASE d = c
      BY <1>1, <1>4, <3>1 DEF Served
    <3>2. CASE d # c
      BY <1>1, <1>4, <3>2 DEF Served
    <3> QED
      BY <3>1, <3>2
  <2> QED
    BY <1>1, <2>1 DEF Asked, Arrived, Listed, Handled, Responding, Fresh
<1>6. \A d \in Cmd : Complete(d)' <=> Complete(d)
  BY <1>1, <1>5 DEF Complete, Answered
<1>7. TypeNet' /\ TypeSrv'
  BY <1>1, <1>3 DEF IInv, Types, TypeNet, TypeSrv
<1>8. FreshUnsent'
  BY <1>1, <1>5, <1>6 DEF IInv, FreshUnsent, Workers, Locked
<1>9. InTable' /\ Exclusive'
  BY <1>1, <1>5, <1>6 DEF IInv, InTable, Exclusive
<1>10. Once'
  BY <1>1, <1>3 DEF IInv, Once
<1>11. Parts'
  <2>1. ASSUME NEW d \in Cmd
        PROVE  /\ srvIn = d => ~isRead[d] /\ ~InQueue(<<d, "hdr">>, out)
               /\ InQueue(<<d, "body">>, out) => ~isRead[d]
               /\ InQueue(<<d, "body">>, in') => isRead[d] /\ d \notin srv'
               /\ srvOut' = d => d \in srv' /\ isRead[d]
               /\ d \in srv' /\ srvOut' # d =>
                    ~InQueue(<<d, "hdr">>, in') /\ ~(rm = d /\ recv \in {"payload", "body"})
               /\ rm = d /\ recv \in {"payload", "body"} => ~InQueue(<<d, "hdr">>, in')
    <3>1. CASE d = c /\ part = "hdr"
      BY <1>1, <1>4, <3>1 DEF IInv, Parts
    <3>2. CASE d = c /\ part = "body"
      BY <1>1, <1>4, <3>2 DEF IInv, Parts
    <3>3. CASE d # c
      <4>1. srvOut # d /\ srvOut' # d /\ (d \in srv' <=> d \in srv)
        BY <1>1, <3>3
      <4> QED
        BY <1>4, <3>3, <4>1 DEF IInv, Parts
    <3> QED
      BY <1>1, <3>1, <3>2, <3>3
  <2> QED
    BY <1>1, <2>1 DEF IInv, Parts
<1>12. Connection'
  BY <1>1, <1>5 DEF IInv, Connection
<1>13. ServerBounded'
  <2>1. /\ srv \in SUBSET Cmd /\ srv' \in SUBSET srv
    BY <1>1 DEF IInv, Types, TypeSrv
  <2>2. /\ IsFiniteSet(srv) /\ Cardinality(srv) \in Nat /\ Cardinality(srv') \in Nat
    BY <2>1, SubsetCount
  <2>3. Cardinality(srv') <= Cardinality(srv)
    BY <2>1, <2>2, FS_Subset
  <2>4. One(srvIn # NoCmd) \in Nat
    BY DEF One
  <2>5. Cardinality(srv) + One(srvIn # NoCmd) + 1 <= SrvMax /\ SrvMax \in Nat
    BY PartsOfPools, ChannelAssumption DEF IInv, ServerBounded
  <2>6. Cardinality(srv') + One(srvIn # NoCmd) + 1 <= SrvMax
    BY <2>2, <2>3, <2>4, <2>5
  <2> QED
    BY <1>1, <2>6 DEF ServerBounded
<1> QED
  BY <1>1, <1>7, <1>8, <1>9, <1>10, <1>11, <1>12, <1>13, Unaffected,
     TypesUnaffected, CountsUnaffected, PartsOfPools DEF IInv, Types
-----------------------------------------------------------------------------
(* init_cachebox keeps the invariant, ... *)
LEMMA BootPreserves ==
  ASSUME IInv, init_cachebox
  PROVE  IInv'
BY MainPreserves, InitThreadsPreserves, ClientSetupPreserves, InitPoolPreserves,
   InitRecvThreadPreserves DEF init_cachebox

(* ... and so do a worker of either pool, ... *)
LEMMA WorkerPreserves ==
  ASSUME IInv, NEW w \in Worker, WorkerStep(w)
  PROVE  IInv'
<1>1. CASE WorkerIdle(w)
  BY <1>1, WorkerIdlePreserves
<1>2. CASE WorkerTake(w)
  BY <1>2, SenderTakesPreserves, HandlerTakesPreserves DEF Worker
<1>3. CASE rpc_msg_get(w) \/ rpc_payload_get(w)
  BY <1>3, MsgGetPreserves, PayloadGetPreserves
<1>4. CASE RequestLock(w) \/ RequestWrite(w) \/ RequestUnlock(w) \/ RequestError(w)
  BY <1>4, RequestLockPreserves, RequestWritePreserves, RequestUnlockPreserves,
     RequestErrorPreserves
<1>5. CASE \/ rpc_async_request(w) \/ RequestFails(w) \/ TestEnabled(w)
           \/ rpc_chan_close(w)
  BY <1>5, WorkerMovesPreserve
<1>6. CASE cb_mpp_req_handler(w) \/ HandlerEnd(w)
  BY <1>6, ReqHandlerPreserves, HandlerEndPreserves
<1>7. CASE _rpc_response(w)
  BY <1>7, ResponsePreserves
<1>8. CASE cb_mpp_resp_handler(w) /\ ~Broken("copy")
  BY <1>8, RespHandlerPreserves
<1>9. CASE cb_mpp_resp_handler(w) /\ Broken("copy")
  BY <1>9, CrashPreserves DEF cb_mpp_resp_handler, Cause
<1> QED
  BY <1>1, <1>2, <1>3, <1>4, <1>5, <1>6, <1>7, <1>8, <1>9 DEF WorkerStep

(* ... the receiver ... *)
LEMMA ReceiverPreserves ==
  ASSUME IInv, rpc_recv_thread
  PROVE  IInv'
<1>1. CASE RecvGet \/ RecvPayloadGet
  BY <1>1, RecvGetPreserves, RecvPayloadGetPreserves
<1>2. CASE \E c \in Cmd : RecvHdr(c)
  BY <1>2, ReadPreserves
<1>3. CASE RecvBody
  <2>1. rm \in Cmd
    BY <1>3 DEF IInv, Parts, RecvBody, Rx
  <2> QED
    BY <1>3, <2>1, ReadPreserves
<1>4. CASE RecvFails \/ RecvWork \/ RecvWakeup
  BY <1>4, RecvFailsPreserves, RecvWorkPreserves, RecvWakeupPreserves
<1> QED
  BY <1>1, <1>2, <1>3, <1>4 DEF rpc_recv_thread

(* ... and deinit_cachebox. *)
LEMMA UnloadPreserves ==
  ASSUME IInv, deinit_cachebox
  PROVE  IInv'
<1>1. CASE Unload \/ JoinRecvThread
  BY <1>1, MainPreserves
<1>2. CASE UnloadClose \/ hash_deinit
  BY <1>2, UnloadClosePreserves, HashDeinitPreserves
<1>3. CASE \/ thread_pool_deinit("recv", "recv_shut", "recv_wake", "recv_join",
                                 "ploadpool_deinit")
           \/ thread_pool_deinit("send", "send_shut", "send_wake", "send_join", "gone")
  <2>1. /\ "recv" \in Pool /\ "send" \in Pool
        /\ \A s \in {"recv_shut", "recv_wake", "recv_join", "ploadpool_deinit"} :
             s \notin Boot \cup Running
        /\ \A s \in {"send_shut", "send_wake", "send_join", "gone"} :
             s \notin Boot \cup Running
    BY DEF Pool, Boot, Running
  <2> QED
    BY <1>3, <2>1, ThreadPoolDeinitPreserves
<1>4. CASE \/ bufpool_deinit("payload", "ploadpool_deinit", "msgpool_deinit")
           \/ bufpool_deinit("msg", "msgpool_deinit", "hash_deinit")
  <2>1. /\ "payload" \in BufPool /\ "msg" \in BufPool
        /\ \A s \in {"ploadpool_deinit", "msgpool_deinit", "hash_deinit"} :
             s \notin Boot \cup Running
    BY DEF BufPool, Boot, Running
  <2> QED
    BY <1>4, <2>1, BufPoolDeinitPreserves
<1> QED
  BY <1>1, <1>2, <1>3, <1>4 DEF deinit_cachebox

(* Steps that change no variable. *)
LEMMA StutterPreserves ==
  ASSUME IInv, UNCHANGED vars
  PROVE  IInv'
BY Unaffected, TypesUnaffected, CountsUnaffected, PartsOfPools DEF IInv, Types, vars

(***************************************************************************)
(* IInv is an invariant of the channel, its two thread pools, its receiver *)
(* and its buffer pools, from init_cachebox to deinit_cachebox.            *)
(***************************************************************************)
THEOREM Invariance == Spec => []IInv
<1>1. Init => IInv
  BY InitIInv
<1>2. IInv /\ [Next]_vars => IInv'
  <2> SUFFICES ASSUME IInv, [Next]_vars
               PROVE  IInv'
    OBVIOUS
  <2>1. CASE init_cachebox
    BY <2>1, BootPreserves
  <2>2. CASE \E c \in Cmd, r \in BOOLEAN : StartCommand(c, r)
    BY <2>2, StartCommandPreserves
  <2>3. CASE SendWakeup
    BY <2>3, SendWakeupPreserves
  <2>4. CASE \E w \in Worker : WorkerStep(w)
    BY <2>4, WorkerPreserves
  <2>5. CASE rpc_recv_thread
    BY <2>5, ReceiverPreserves
  <2>6. CASE \E c \in Cmd : SrvReceive(c) \/ SrvRespond(c)
    BY <2>6, SrvReceivePreserves, SrvRespondPreserves
  <2>7. CASE LinkDown
    BY <2>7, LinkDownPreserves
  <2>8. CASE deinit_cachebox
    BY <2>8, UnloadPreserves
  <2>9. CASE UNCHANGED vars
    BY <2>9, StutterPreserves
  <2> QED
    BY <2>1, <2>2, <2>3, <2>4, <2>5, <2>6, <2>7, <2>8, <2>9 DEF Next, Step
<1> QED
  BY <1>1, <1>2, PTL DEF Spec

(* The variables have their types. *)
THEOREM TypeCorrect == Spec => []TypeOK
<1>1. IInv => TypeOK
  BY DEF IInv, Types, TypeBuf, TypeCmd, TypeChan, TypeSrv, TypeOK, Worker
<1> QED
  BY <1>1, Invariance, PTL

(***************************************************************************)
(* The message that rpc_async_request reads between RPC_CHAN_LOCK and      *)
(* RPC_CHAN_UNLOCK is still the sender's: its response, which              *)
(* _rpc_response handles under the same lock, has not put it back.         *)
(***************************************************************************)
THEOREM SenderOwnsMessageHolds == Spec => []SenderOwnsMessage
<1>1. IInv => SenderOwnsMessage
  BY DEF IInv, Workers, LockHeld, Locked, SenderOwnsMessage
<1> QED
  BY <1>1, Invariance, PTL

(***************************************************************************)
(* The two buffer pools count exactly what senders, requests in the table, *)
(* the receiver and handlers hold, on every path of read_cmd, write_cmd,   *)
(* rpc_recv_thread and the handlers, and own at most nmax buffers.         *)
(***************************************************************************)
THEOREM BuffersAccountedHolds == Spec => []BuffersAccounted
<1>1. IInv => BuffersAccounted
  BY DEF IInv
<1> QED
  BY <1>1, Invariance, PTL

(* Who holds a payload holds a message. *)
LEMMA PayloadsBelowMessages ==
  ASSUME IInv
  PROVE  PayloadsHeld \in Nat /\ MsgsHeld \in Nat /\ PayloadsHeld <= MsgsHeld
<1>1. /\ Sending \in SUBSET Worker /\ At("handle") \in SUBSET Worker
      /\ SendingWrites \in SUBSET Sending /\ HandledReads \in SUBSET At("handle")
      /\ Pending \in SUBSET Cmd /\ PendingWrites \in SUBSET Pending
  BY DEF Sending, At, SendingWrites, HandledReads, Worker, IInv, Types, TypeChan, Pending,
         PendingWrites
<1>2. NSendW <= NSend /\ NHandleR <= NHandle /\ NPendW <= NPend
  <2>1. IsFiniteSet(Sending) /\ IsFiniteSet(At("handle")) /\ IsFiniteSet(Pending)
    BY <1>1, SubsetCount, WorkerAssumption
  <2> QED
    BY <1>1, <2>1, FS_Subset DEF NSendW, NSend, NHandleR, NHandle, NPendW, NPend
<1>3. NListR <= NList
  <2> DEFINE n == Len(work_list["recv"])
  <2>1. n \in Nat /\ ListedReads \in SUBSET (1..n)
    BY DEF IInv, Types, TypeList, ListedReads, Received
  <2> HIDE DEF n
  <2>2. IsFiniteSet(1..n) /\ Cardinality(1..n) = n
    BY <2>1, FS_Interval
  <2>3. Cardinality(ListedReads) <= n
    BY <2>1, <2>2, FS_Subset
  <2> QED
    BY <2>3 DEF NListR, NList, n
<1>4. PayloadRecv <= MsgRecv
  BY DEF PayloadRecv, MsgRecv, One
<1> QED
  BY <1>2, <1>3, <1>4, CountsAreNat, MsgSums, PayloadSums

(***************************************************************************)
(* The sizes that rpc_chan_init and the server give their pools go         *)
(* together: a waiting sender's test sees a free buffer, nobody who has a  *)
(* message waits for a payload, the works of the channel's thread pool     *)
(* stay in their bound and so do the server's messages.                    *)
(***************************************************************************)
THEOREM PoolsSufficeHolds == Spec => []PoolsSuffice
<1>1. ASSUME IInv PROVE PoolsSuffice
  <2>1. PICK b : b = bp["msg"]
    OBVIOUS
  <2>2. PICK d : d = bp["payload"]
    OBVIOUS
  <2>3. /\ b \in BufPoolType /\ Sound(b, "msg") /\ b.issued = MsgsHeld
        /\ d \in BufPoolType /\ Sound(d, "payload") /\ d.issued = PayloadsHeld
    BY <1>1, <2>1, <2>2, PartsOfPools
       DEF IInv, Types, TypeBuf, BuffersSound, MsgsAccounted, PayloadsAccounted, BufPool
  <2>4. /\ b.issued \in Nat /\ b.owned \in Nat /\ b.freelist \in Nat
        /\ d.issued \in Nat /\ d.owned \in Nat /\ d.freelist \in Nat
    BY <2>3 DEF BufPoolType
  <2>5. /\ nmax["msg"] = nmsg_max /\ nmsg_max \in Nat /\ nmax["payload"] = ndata_max
        /\ ndata_max \in Nat /\ nbufs["msg"] = nmsg /\ nmsg \in Nat /\ Reserve \in Nat
        /\ nmsg + Reserve < nmsg_max /\ nmsg_max < ndata_max
    BY PoolAssumption, ChannelAssumption DEF nmax, nbufs, BufPool
  <2>6. bp["msg"].freelist > 0 => Room("msg", FALSE)
    <3>1. b.freelist > 0 => b.owned + Reserve < nmsg_max
      BY <2>3, <2>4, <2>5 DEF Sound
    <3> QED
      BY <2>1, <2>5, <3>1 DEF Room
  <2>7. ~MustWait("payload", TRUE)
    <3>1. MsgsHeld <= nmsg_max
      BY <2>3, <2>4, <2>5 DEF Sound
    <3>2. PayloadsHeld < ndata_max
      BY <1>1, <2>5, <3>1, PayloadsBelowMessages
    <3>3. d.freelist = 0 => d.owned < ndata_max
      BY <2>3, <2>4, <3>2 DEF Sound
    <3> QED
      BY <2>2, <2>5, <3>3 DEF MustWait, Grows
  <2>8. WorksBounded /\ ServerBounded
    BY <1>1, PartsOfPools DEF IInv
  <2> QED
    BY <2>6, <2>7, <2>8 DEF PoolsSuffice, WorksBounded, ServerBounded
<1> QED
  BY <1>1, Invariance, PTL

-----------------------------------------------------------------------------
(* A sender is at work while the plugin is loaded. *)
LEMMA SenderAtWork ==
  ASSUME IInv, NEW w \in SendWorker, pc[w] # "none"
  PROVE  main = "loaded" /\ bp["msg"].state = "INITIALIZED"
         /\ bp["payload"].state = "INITIALIZED"
<1>1. w \in Worker /\ data[w] \in Cmd /\ cmd[data[w]] = "queued"
  BY DEF IInv, Workers, Worker
<1>2. main \notin Boot
  BY <1>1 DEF IInv, Lifecycle
<1> QED
  BY <1>1, <1>2 DEF IInv, Lifecycle, Running

(* What explains a crash is there before it. *)
LEMMA CrashIsExplained ==
  ASSUME NEW why, Broken(why), faults \subseteq faults',
         \/ why \in {"init", "copy"} /\ why \in faults'
         \/ why \in {"socket", "payload"} /\ "link" \in faults
         \/ why \in {"stale", "table"} /\ "link" \in faults /\ Stale # {}
  PROVE  CrashExplained'
<1>1. crash' = why /\ Stale' = Stale
  BY DEF Broken, Stale
<1> QED
  BY <1>1 DEF CrashExplained

(* A step that leaves crash as it was while nothing had crashed. *)
LEMMA NoCrash ==
  ASSUME crash' = "no"
  PROVE  CrashExplained'
BY DEF CrashExplained

(* A worker: the pools are there, a response finds its request, and the    *)
(* socket is closed twice, or a stale message met, after a loss only.      *)
LEMMA WorkerExplained ==
  ASSUME IInv, NEW w \in Worker, WorkerStep(w)
  PROVE  CrashExplained'
<1> USE DEF Run, Alive
<1>1. CASE \/ WorkerIdle(w) \/ WorkerTake(w) \/ rpc_async_request(w) \/ RequestLock(w)
           \/ RequestWrite(w) \/ RequestUnlock(w) \/ RequestFails(w) \/ RequestError(w)
           \/ TestEnabled(w) \/ cb_mpp_req_handler(w) \/ HandlerEnd(w)
  <2>1. crash' = "no"
    BY <1>1 DEF WorkerIdle, WorkerTake, rpc_async_request, RequestLock, RequestWrite,
                RequestUnlock, RequestFails, RequestError, TestEnabled, cb_mpp_req_handler,
                HandlerEnd
  <2> QED
    BY <2>1, NoCrash
<1>2. CASE rpc_msg_get(w) \/ rpc_payload_get(w)
  <2>1. pc[w] \in {"msg", "msgwait", "payload"}
    BY <1>2 DEF rpc_msg_get, rpc_payload_get
  <2>2. w \in SendWorker
    BY <2>1 DEF IInv, Workers, Worker, Closing
  <2>3. bp["msg"].state = "INITIALIZED" /\ bp["payload"].state = "INITIALIZED"
    BY <2>1, <2>2, SenderAtWork
  <2>4. crash' = "no"
    BY <1>2, <2>3 DEF rpc_msg_get, rpc_payload_get
  <2> QED
    BY <2>4, NoCrash
<1>3. CASE rpc_chan_close(w)
  <2>1. CASE Crash("socket")
    <3>1. "link" \in faults
      BY <1>3 DEF rpc_chan_close, IInv, Connection
    <3> QED
      BY <2>1, <3>1, CrashIsExplained DEF Crash
  <2>2. CASE ~Crash("socket")
    <3>1. crash' = "no"
      BY <1>3, <2>2 DEF rpc_chan_close
    <3> QED
      BY <3>1, NoCrash
  <2> QED
    BY <2>1, <2>2
<1>4. CASE _rpc_response(w)
  <2>1. data[w] \in hash
    <3>1. w \in RecvWorker /\ pc[w] = "handle" /\ data[w] \in Cmd
      BY <1>4 DEF _rpc_response, IInv, Workers, Worker, Early, Locked
    <3>2. Complete(data[w])
      BY <3>1 DEF Complete, Answered, Handled
    <3> QED
      BY <3>1, <3>2 DEF IInv, InTable
  <2>2. CASE Stale # {} /\ Crash("stale")
    <3>1. "link" \in faults
      BY <2>2 DEF Stale, IInv, Connection
    <3> QED
      BY <2>2, <3>1, CrashIsExplained DEF Crash
  <2>3. CASE UNCHANGED endVars
    BY <1>4, <2>3, NoCrash DEF _rpc_response
  <2> QED
    BY <1>4, <2>1, <2>2, <2>3 DEF _rpc_response
<1>5. CASE cb_mpp_resp_handler(w)
  <2>1. CASE Fault("copy") /\ Broken("copy")
    <3>1. "copy" \in faults' /\ faults \subseteq faults'
      BY <2>1, FaultHappens DEF IInv, Types, FaultKind
    <3> QED
      BY <2>1, <3>1, CrashIsExplained
  <2>2. CASE UNCHANGED endVars
    BY <1>5, <2>2, NoCrash DEF cb_mpp_resp_handler
  <2> QED
    BY <1>5, <2>1, <2>2 DEF cb_mpp_resp_handler
<1> QED
  BY <1>1, <1>2, <1>3, <1>4, <1>5 DEF WorkerStep

(* The receiver: its pools are there, and a payload breaks off by a loss. *)
LEMMA ReceiverExplained ==
  ASSUME IInv, rpc_recv_thread
  PROVE  CrashExplained'
<1> USE DEF Alive, Rx
<1>1. CASE \/ (\E c \in Cmd : RecvHdr(c)) \/ RecvPayloadGet \/ RecvBody
           \/ RecvWork \/ RecvWakeup
  BY <1>1, NoCrash DEF RecvHdr, RecvPayloadGet, RecvBody, RecvWork, RecvWakeup
<1>2. CASE RecvGet
  BY <1>2, ReceiverRuns, NoCrash DEF RecvGet
<1>3. CASE RecvFails /\ UNCHANGED endVars
  BY <1>3, NoCrash DEF RecvFails
<1>4. CASE RecvFails /\ recv = "body" /\ Crash("payload")
  <2>1. rm \in Cmd /\ Complete(rm)
    BY <1>4 DEF IInv, Parts, Complete, Answered, Served
  <2>2. main = "loaded"
    <3>1. cmd[rm] = "queued"
      BY <2>1 DEF IInv, InTable
    <3>2. main \notin Boot
      BY <1>4, ReceiverRuns
    <3> QED
      BY <2>1, <3>1, <3>2 DEF IInv, Lifecycle
  <2>3. "link" \in faults
    BY <1>4, <2>2 DEF IInv, Connection, RecvFails
  <2> QED
    BY <1>4, <2>3, CrashIsExplained DEF Crash
<1> QED
  BY <1>1, <1>2, <1>3, <1>4 DEF rpc_recv_thread, RecvFails

(* init_cachebox crashes when a part of it has failed. *)
LEMMA BootExplained ==
  ASSUME IInv, init_cachebox
  PROVE  CrashExplained'
<1> USE DEF Alive
<1>1. CASE InitFails
  <2>1. "init" \in faults'
    BY <1>1, FaultHappens DEF InitFails, IInv, Types, FaultKind
  <2>2. crash' \in {"no", "init"}
    BY <1>1 DEF InitFails
  <2> QED
    BY <2>1, <2>2 DEF CrashExplained
<1>2. CASE ~InitFails
  <2>1. crash' = "no"
    BY <1>2 DEF init_cachebox, InitStep, InitSendPool, client_setup, hash_init, InitPool,
                InitRecvPool, InitRecvThread
  <2> QED
    BY <2>1, NoCrash
<1> QED
  BY <1>1, <1>2

(* deinit_cachebox: the works of both pools are done, and only the request *)
(* of a command that failed is left in the table: all have completed.      *)
LEMMA UnloadExplained ==
  ASSUME IInv, deinit_cachebox
  PROVE  CrashExplained'
<1> USE DEF Alive
<1>1. CASE \/ Unload \/ JoinRecvThread
           \/ \E p \in BufPool : \E t, n : bufpool_deinit(p, t, n)
  BY <1>1, NoCrash DEF Unload, JoinRecvThread, bufpool_deinit
<1>2. CASE UnloadClose
  <2>1. CASE sock = "closed"
    <3>1. "link" \in faults
      BY <1>2, <2>1 DEF UnloadClose, IInv, Connection
    <3>2. Crash("socket")
      BY <1>2, <2>1 DEF UnloadClose
    <3> QED
      BY <3>1, <3>2, CrashIsExplained DEF Crash
  <2>2. CASE sock # "closed"
    BY <1>2, <2>2, NoCrash DEF UnloadClose
  <2> QED
    BY <2>1, <2>2
<1>3. CASE hash_deinit
  <2>1. CASE Crash("table") /\ hash # {}
    <3>1. \A c \in hash : c \in Cmd /\ cmd[c] # "queued"
      BY <1>3 DEF hash_deinit, IInv, Types, TypeChan, Lifecycle, Boot
    <3>2. "link" \in faults /\ Stale = hash
      BY <2>1, <3>1 DEF Stale, IInv, InTable, Connection
    <3> QED
      BY <2>1, <3>2, CrashIsExplained DEF Crash
  <2>2. CASE hash = {}
    BY <1>3, <2>2, NoCrash DEF hash_deinit
  <2> QED
    BY <1>3, <2>1, <2>2 DEF hash_deinit
<1>4. CASE \E p \in Pool : \E shut, wake, t, n :
             thread_pool_deinit(p, shut, wake, t, n) /\ t # shut /\ t # wake
  BY <1>4, WorksDone, NoCrash DEF thread_pool_deinit
<1> QED
  <2>1. "recv" \in Pool /\ "send" \in Pool /\ "msg" \in BufPool /\ "payload" \in BufPool
    BY DEF Pool, BufPool
  <2> QED
    BY <1>1, <1>2, <1>3, <1>4, <2>1 DEF deinit_cachebox

(***************************************************************************)
(* Every crash has its cause: the asserts of rpc.c, bufpool.c and          *)
(* threadpool.c, and the uses of a pool, fail where a part of the          *)
(* initialisation failed, a copy failed, or the connection was lost and    *)
(* the socket is closed twice, a payload breaks off or the request of a    *)
(* failed command is still in the table.                                   *)
(***************************************************************************)
THEOREM CrashExplainedHolds == Spec => []CrashExplained
<1>1. Init => CrashExplained
  BY DEF Init, CrashExplained
<1>2. IInv /\ CrashExplained /\ [Next]_vars => CrashExplained'
  <2> SUFFICES ASSUME IInv, CrashExplained, [Next]_vars
               PROVE  CrashExplained'
    OBVIOUS
  <2>1. CASE init_cachebox
    BY <2>1, BootExplained
  <2>2. CASE \E c \in Cmd, r \in BOOLEAN : StartCommand(c, r)
    BY <2>2, NoCrash DEF StartCommand, Alive
  <2>3. CASE SendWakeup \/ LinkDown \/ \E c \in Cmd : SrvReceive(c) \/ SrvRespond(c)
    BY <2>3, NoCrash DEF SendWakeup, LinkDown, SrvReceive, SrvRespond, Alive
  <2>4. CASE \E w \in Worker : WorkerStep(w)
    BY <2>4, WorkerExplained
  <2>5. CASE rpc_recv_thread
    BY <2>5, ReceiverExplained
  <2>6. CASE deinit_cachebox
    BY <2>6, UnloadExplained
  <2>7. CASE UNCHANGED vars
    BY <2>7 DEF vars, CrashExplained, Stale
  <2> QED
    BY <2>1, <2>2, <2>3, <2>4, <2>5, <2>6, <2>7 DEF Next, Step
<1> QED
  BY <1>1, <1>2, Invariance, PTL DEF Spec
=============================================================================
