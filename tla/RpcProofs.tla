----------------------------- MODULE RpcProofs ------------------------------
(***************************************************************************)
(* Proofs about an RPC connection of the iosplitter for any number of      *)
(* tasks, requests and fragments in a socket: fragments of two messages    *)
(* never mix, a request gets its own response, buffers are accounted for,  *)
(* the server's channel is torn down without users, and while the          *)
(* connection holds no assert fails but those on what the device returns.  *)
(***************************************************************************)
EXTENDS Rpc, Counting, FiniteSetTheorems, TLAPS

(***************************************************************************)
(* Counts and queues.                                                      *)
(***************************************************************************)

(* The size of a subset of a finite set is a natural number. *)
LEMMA SubsetCount ==
  ASSUME NEW S, IsFiniteSet(S), NEW T \in SUBSET S
  PROVE  IsFiniteSet(T) /\ Cardinality(T) \in Nat
BY FS_Subset, FS_CardinalityType

(* A step that changes the membership of one element only changes the size *)
(* by as much.                                                             *)
LEMMA CountStep ==
  ASSUME NEW S, IsFiniteSet(S), NEW T \in SUBSET S, NEW U \in SUBSET S, NEW x \in S,
         \A y \in S : y # x => (y \in T <=> y \in U)
  PROVE  /\ Cardinality(T) \in Nat /\ Cardinality(U) \in Nat
         /\ Cardinality(U) = Cardinality(T) + (IF x \in U THEN 1 ELSE 0)
                                           - (IF x \in T THEN 1 ELSE 0)
         /\ x \in T => Cardinality(T) >= 1
         /\ x \in U => Cardinality(U) >= 1
<1>1. /\ IsFiniteSet(T) /\ Cardinality(T) \in Nat
      /\ IsFiniteSet(U) /\ Cardinality(U) \in Nat
  BY SubsetCount
<1>2. T \ {x} = U \ {x}
  OBVIOUS
<1>3. Cardinality(T \ {x}) = IF x \in T THEN Cardinality(T)-1 ELSE Cardinality(T)
  BY <1>1, FS_RemoveElement
<1>4. Cardinality(U \ {x}) = IF x \in U THEN Cardinality(U)-1 ELSE Cardinality(U)
  BY <1>1, FS_RemoveElement
<1>5. Cardinality(T \ {x}) \in Nat
  BY <1>1, FS_RemoveElement, FS_CardinalityType
<1> QED
  BY <1>1, <1>2, <1>3, <1>4, <1>5

(* That is how it changes. *)
LEMMA CountMove ==
  ASSUME NEW S, IsFiniteSet(S), NEW T \in SUBSET S, NEW U \in SUBSET S, NEW x \in S,
         \A y \in S : y # x => (y \in T <=> y \in U)
  PROVE  Moved(x, T, U)
<1>1. /\ Cardinality(T) \in Nat /\ Cardinality(U) \in Nat
      /\ Cardinality(U) = Cardinality(T) + (IF x \in U THEN 1 ELSE 0)
                                           - (IF x \in T THEN 1 ELSE 0)
      /\ x \in T => Cardinality(T) >= 1
  BY CountStep
<1>2. CASE x \in U /\ x \in T
  BY <1>1, <1>2 DEF Moved
<1>3. CASE x \in U /\ x \notin T
  BY <1>1, <1>3 DEF Moved
<1>4. CASE x \notin U /\ x \in T
  BY <1>1, <1>4 DEF Moved
<1>5. CASE x \notin U /\ x \notin T
  BY <1>1, <1>5 DEF Moved
<1> QED
  BY <1>2, <1>3, <1>4, <1>5

(* A set has no members exactly when its size is zero. *)
LEMMA CountZero ==
  ASSUME NEW S, IsFiniteSet(S), NEW T \in SUBSET S
  PROVE  Cardinality(T) = 0 <=> T = {}
BY SubsetCount, FS_EmptySet

(* What is in a queue after an entry is added. *)
LEMMA AppendTo ==
  ASSUME NEW S, NEW q \in Seq(S), NEW x \in S, NEW T
  PROVE  /\ Append(q, x) \in Seq(S) /\ Len(Append(q, x)) = Len(q) + 1
         /\ \A y : InQueue(y, Append(q, x)) <=> InQueue(y, q) \/ y = x
         /\ Distinct(q, T) /\ ~InQueue(x, q) => Distinct(Append(q, x), T)
         /\ Distinct(q, T) /\ x \notin T => Distinct(Append(q, x), T)
<1>1. /\ Append(q, x) \in Seq(S) /\ Len(q) \in Nat /\ Len(Append(q, x)) = Len(q) + 1
      /\ \A i \in 1..Len(q) : Append(q, x)[i] = q[i]
      /\ Append(q, x)[Len(q) + 1] = x
  OBVIOUS
<1>2. \A i : i \in 1..Len(Append(q, x)) <=> i \in 1..Len(q) \/ i = Len(q) + 1
  BY <1>1
<1>3. \A y : InQueue(y, Append(q, x)) <=> InQueue(y, q) \/ y = x
  BY <1>1, <1>2 DEF InQueue
<1>4. Distinct(q, T) /\ (~InQueue(x, q) \/ x \notin T) => Distinct(Append(q, x), T)
  BY <1>1, <1>2 DEF Distinct, InQueue
<1> QED
  BY <1>1, <1>3, <1>4

(* What is in a queue before and after its first entry is taken. *)
LEMMA TailOf ==
  ASSUME NEW S, NEW q \in Seq(S), q # <<>>, NEW T
  PROVE  /\ Head(q) \in S /\ Tail(q) \in Seq(S)
         /\ Len(q) \in Nat /\ Len(q) >= 1 /\ Len(Tail(q)) = Len(q) - 1
         /\ \A y : InQueue(y, q) <=> y = Head(q) \/ InQueue(y, Tail(q))
         /\ Distinct(q, T) => /\ Distinct(Tail(q), T)
                              /\ Head(q) \in T => ~InQueue(Head(q), Tail(q))
<1>1. /\ Head(q) \in S /\ Tail(q) \in Seq(S) /\ Len(q) \in Nat /\ Len(q) >= 1
      /\ Len(Tail(q)) = Len(q) - 1 /\ Head(q) = q[1]
      /\ \A i \in 1..(Len(q) - 1) : Tail(q)[i] = q[i + 1]
  OBVIOUS
<1>2. \A i \in 1..Len(q) : i = 1 \/ (i - 1 \in 1..(Len(q) - 1) /\ Tail(q)[i - 1] = q[i])
  BY <1>1
<1>3. \A y : InQueue(y, q) <=> y = Head(q) \/ InQueue(y, Tail(q))
  <2> TAKE y
  <2>1. InQueue(y, q) => y = Head(q) \/ InQueue(y, Tail(q))
    BY <1>1, <1>2 DEF InQueue
  <2>2. InQueue(y, Tail(q)) => InQueue(y, q)
    <3>1. \A i \in 1..(Len(q) - 1) : i + 1 \in 1..Len(q)
      BY <1>1
    <3> QED
      BY <1>1, <3>1 DEF InQueue
  <2>3. InQueue(Head(q), q)
    BY <1>1 DEF InQueue
  <2> QED
    BY <2>1, <2>2, <2>3
<1>4. \A i \in 1..(Len(q) - 1) : i + 1 \in 1..Len(q) /\ i + 1 # 1
  BY <1>1
<1>5. 1 \in 1..Len(q)
  BY <1>1
<1>6. Distinct(q, T) => Distinct(Tail(q), T)
  <2> SUFFICES ASSUME Distinct(q, T), NEW i \in 1..Len(Tail(q)), NEW j \in 1..Len(Tail(q)),
                      Tail(q)[i] = Tail(q)[j], Tail(q)[i] \in T
               PROVE  i = j
    BY DEF Distinct
  <2>1. i + 1 = j + 1
    BY <1>1, <1>4 DEF Distinct
  <2> QED
    BY <2>1
<1>7. Distinct(q, T) /\ Head(q) \in T => ~InQueue(Head(q), Tail(q))
  BY <1>1, <1>4, <1>5 DEF Distinct, InQueue
<1> QED
  BY <1>1, <1>3, <1>6, <1>7

(* Nothing is in an empty queue. *)
LEMMA EmptyQueue ==
  (\A y : ~InQueue(y, <<>>)) /\ \A T : Distinct(<<>>, T)
BY DEF InQueue, Distinct

(* A function does not have more values than arguments. *)
LEMMA CountImage ==
  ASSUME NEW S, IsFiniteSet(S), NEW T, NEW f,
         \A t \in T : \E s \in S : f[s] = t
  PROVE  IsFiniteSet(T) /\ Cardinality(T) <= Cardinality(S)
<1> DEFINE V == {f[s] : s \in S}
           g == [s \in S |-> f[s]]
<1>1. g \in Surjection(S, V)
  BY DEF Surjection
<1>2. IsFiniteSet(V) /\ Cardinality(V) <= Cardinality(S)
  BY <1>1, FS_Surjection
<1>3. T \in SUBSET V
  OBVIOUS
<1>4. IsFiniteSet(T) /\ Cardinality(T) <= Cardinality(V)
  BY <1>2, <1>3, FS_Subset
<1>5. Cardinality(T) \in Nat /\ Cardinality(V) \in Nat /\ Cardinality(S) \in Nat
  BY <1>2, <1>4, FS_CardinalityType
<1> QED
  BY <1>2, <1>4, <1>5

(* where a client's task and a handler can be *)
ClientPc  == {"idle", "msg", "wait", "woken", "done"} \cup Sending
HandlerPc == {"none", "ready", "done"} \cup Sending

(* c has a message with a seqid *)
HasSeq(c) == pc[c] \notin {"idle", "msg"}

(* the header after the flip of its direction *)
AsRequest(m)  == [seq |-> m.seq, kind |-> m.kind, req |-> TRUE]
AsResponse(m) == [seq |-> m.seq, kind |-> m.kind, req |-> FALSE]

Fragment == [m : Message, part : {"hdr", "pay"}]

(* the last fragment of a message *)
Whole(f) == f.part = "pay" \/ ~HasPayload(f.m)

(* the fragments that side s has still to deliver: those on the wire, after *)
(* the header it has read; none when its receiver has ended                *)
Stream(s) ==
  CASE recv[s] = "end" -> <<>>
    [] recv[s] = "hdr" -> wire[s]
    [] OTHER -> <<[m |-> cur[s], part |-> "hdr"]>> \o wire[s]

(* the messages of q follow each other, each header before its payload,    *)
(* and each seqid is there once                                            *)
Framed(q) ==
  /\ \A i \in 1..Len(q) : q[i].part = "pay" =>
       i > 1 /\ q[i - 1] = [m |-> q[i].m, part |-> "hdr"] /\ HasPayload(q[i].m)
  /\ \A i \in 1..Len(q) : i > 1 /\ ~Whole(q[i - 1]) => q[i].part = "pay"
  /\ \A i, j \in 1..Len(q) :
       q[i].part = "hdr" /\ q[j].part = "hdr" /\ q[i].m.seq = q[j].m.seq => i = j

(* the types, in groups that change together *)
TypeTask ==
  /\ pc   \in [Task -> {"idle", "msg", "wait", "woken", "none", "ready", "done"} \cup Sending]
  /\ msg  \in [Task -> [seq : 0..MaxSeq, kind : Kind, req : BOOLEAN] \cup {NoMsg}]
  /\ resp \in [Requester -> Message \cup {NoMsg}]
TypeSeq  == seqid \in 1..(MaxSeq + 1) /\ hash \subseteq SeqId /\ served \subseteq SeqId
TypeNet ==
  /\ wire \in [Side -> Seq(Fragment)]
  /\ recv \in [Side -> {"hdr", "buf", "pay", "end"}]
  /\ cur  \in [Side -> Message \cup {NoMsg}]
TypeLock == owner \in [Side -> Task \cup {NoTask}] /\ waiting \in [Side -> Seq(Task)]
TypePool == msgs \in [Side -> Nat] /\ bufs \in [Side -> Nat]
TypeChan ==
  /\ up     \in BOOLEAN /\ fd \in [Side -> BOOLEAN] /\ enabled \in [Side -> BOOLEAN]
  /\ closer \in [Side -> {"none", "start", "msgs", "data", "done"}]
TypeProc == proc \in [Side -> {"run", "abort", "exit"}] /\ losses \in 0..MaxLoss

Types ==
  TypeTask /\ TypeSeq /\ TypeNet /\ TypeLock /\ TypePool /\ TypeChan /\ TypeProc

(* what a task works on, by where it is *)
Clients ==
  \A c \in Requester :
    /\ pc[c] \in ClientPc
    /\ pc[c] = "idle" <=> msg[c] = NoMsg
    /\ msg[c] # NoMsg => msg[c].req
    /\ pc[c] = "msg" => msg[c].seq = 0
    /\ HasSeq(c) => msg[c].seq \in 1..(seqid - 1)
    /\ pc[c] = "pay" => HasPayload(msg[c])

Handlers ==
  \A t \in SeqId :
    /\ pc[t] \in HandlerPc
    /\ pc[t] # "none" => /\ t < seqid
                         /\ msg[t] # NoMsg /\ msg[t].seq = t /\ ~msg[t].req
    /\ pc[t] \notin {"none", "ready"} => t \in served
    /\ pc[t] = "pay" => HasPayload(msg[t])

(* the tasks that will take the next seqids, and the handlers that have the *)
(* lock or wait for it                                                     *)
CM == {c \in Requester : pc[c] = "msg"}
SS == {t \in SeqId : pc[t] \in Sending}

SeqsApart ==
  /\ seqid + Cardinality(CM) <= MaxSeq + 1
  /\ \A c, d \in Requester :
       c # d /\ HasSeq(c) /\ HasSeq(d) => msg[c].seq # msg[d].seq

(* what the connection, the descriptors and the receivers say of another *)
Link ==
  /\ up => \A s \in Side : proc[s] = "run" /\ fd[s] /\ enabled[s]
  /\ \A s \in Side :
       /\ enabled[s] => fd[s] /\ closer[s] = "none"
       /\ closer[s] = "none" <=> recv[s] # "end"
       /\ fd[s] /\ ~enabled[s] => recv[s] = "end"
       /\ cur[s] # NoMsg <=> recv[s] \in {"buf", "pay"}
       /\ cur[s] # NoMsg => HasPayload(cur[s])
  /\ \A t \in Task : pc[t] = "err" => ~fd[Home(t)]

(* the lock of side s is held by the task that writes *)
LockOf(s) ==
  /\ owner[s] = NoTask => waiting[s] = <<>>
  /\ owner[s] # NoTask => Home(owner[s]) = s /\ pc[owner[s]] \in Sending
  /\ Distinct(waiting[s], Task)
  /\ \A t \in Task :
       /\ InQueue(t, waiting[s]) => Home(t) = s /\ pc[t] = "lock" /\ owner[s] # t
       /\ Home(t) = s /\ pc[t] = "lock" => owner[s] = t \/ InQueue(t, waiting[s])
       /\ Home(t) = s /\ pc[t] \in {"hdr", "pay", "err"} => owner[s] = t

(* ... on the server until it is disabled, when handlers unlock what they  *)
(* have not locked; then there are no more holders than senders            *)
Locks ==
  /\ LockOf("client")
  /\ enabled["server"] => LockOf("server")
  /\ proc["server"] = "run" =>
       /\ owner["server"] = NoTask => waiting["server"] = <<>>
       /\ One(owner["server"] # NoTask) + Len(waiting["server"])
            <= Cardinality(SS)

Frames == \A s \in Side : Framed(Stream(s))

(* f is the last fragment of q *)
IsLast(f, q) == q # <<>> /\ q[Len(q)] = f

(* a message is incomplete on the wire exactly while its sender is between *)
(* header and payload                                                      *)
Ends ==
  up =>
    /\ \A t \in Task : pc[t] = "pay" =>
         IsLast([m |-> msg[t], part |-> "hdr"], Stream(Peer(Home(t))))
    /\ \A s \in Side, f \in Fragment : IsLast(f, Stream(s)) /\ ~Whole(f) =>
         \E t \in Task : Home(t) = Peer(s) /\ pc[t] = "pay"

(* a request on its way to the server is of a task that waits, or sends it *)
RequestOf(f) ==
  /\ f.m.req /\ pc[f.m.seq] = "none"
  /\ \E c \in Requester : /\ msg[c] = f.m
                          /\ pc[c] \in {"pay", "err", "done", "wait"}
                          /\ Whole(f) => pc[c] = "wait"

Requests == \A f \in Fragment : InQueue(f, Stream("server")) => RequestOf(f)

(* a response on its way to the client is of a handler that has sent it,   *)
(* or does, and of a task that waits                                       *)
ResponseOf(f) ==
  /\ ~f.m.req /\ f.m = msg[f.m.seq]
  /\ pc[f.m.seq] \in {"pay", "err", "done"}
  /\ Whole(f) => pc[f.m.seq] = "done"
  /\ \E c \in Requester : pc[c] = "wait" /\ msg[c] = AsRequest(f.m)

Responses == \A f \in Fragment : InQueue(f, Stream("client")) => ResponseOf(f)

(* a request is served after it was sent, and while its task waits *)
Stations ==
  /\ \A c \in Requester :
       pc[c] \in Sending \cup {"done"} => pc[msg[c].seq] = "none"
  /\ \A t \in SeqId :
       pc[t] \in Sending \cup {"ready"} =>
         \E c \in Requester : pc[c] = "wait" /\ msg[c] = AsRequest(msg[t])

(* the tasks that the pools' counts are about. *)
CA == {c \in Requester : pc[c] \in Sending \cup {"wait", "woken"}}
CW == {c \in Requester : pc[c] = "woken"}
CP == {c \in Requester : msg[c] # NoMsg /\ HasPayload(msg[c])}
CR == {c \in Requester : pc[c] = "woken" /\ HasPayload(resp[c])}
SA == {t \in SeqId : pc[t] \in Sending \cup {"ready"}}
SW == {t \in SeqId : pc[t] = "ready" /\ msg[t].kind = "write"}
SP == {t \in SeqId : pc[t] \in Sending /\ HasPayload(msg[t])}

(* what is issued from the pools of a running process *)
ClientCounts ==
  proc["client"] = "run" =>
    /\ msgs["client"] = 1 + Cardinality(CA) + Cardinality(CW)
    /\ bufs["client"] = One(recv["client"] = "pay") + Cardinality(CP) + Cardinality(CR)

ServerCounts ==
  proc["server"] = "run" =>
    /\ msgs["server"] = One(recv["server"] # "end" \/ closer["server"] = "start")
                           + Cardinality(SA)
    /\ bufs["server"] = One(recv["server"] = "pay") + Cardinality(SW) + Cardinality(SP)

Teardown ==
  proc["server"] = "run" /\ closer["server"] \in {"data", "done"} =>
    \A t \in SeqId : pc[t] \in {"none", "done"}

(* the network has not broken the connection, and no process has aborted *)
Unbroken == losses = 0 /\ \A s \in Side : proc[s] # "abort"

(* such a connection is up, or was closed by a client with nothing left to *)
(* do                                                                      *)
NoLoss ==
  Unbroken =>
    /\ proc["server"] = "run"
    /\ ~up => /\ proc["client"] = "exit"
              /\ \A t \in SeqId : pc[t] \in {"none", "done"}
              /\ Stream("server") = <<>>

IInv ==
  /\ Types /\ Clients /\ Handlers /\ SeqsApart /\ Link /\ Locks /\ Frames /\ Ends
  /\ Requests /\ Responses /\ Stations /\ ResponseMatches /\ HashIsOutstanding
  /\ ClientCounts /\ ServerCounts /\ Teardown /\ NoLoss
-----------------------------------------------------------------------------
(* The two sides, and whose task a task is. *)
LEMMA Names ==
  /\ "client" \in Side /\ "server" \in Side
  /\ \A s \in Side : s = "client" \/ s = "server"
  /\ Peer("client") = "server" /\ Peer("server") = "client"
  /\ \A c \in Requester : c \in Task /\ Home(c) = "client" /\ c \notin SeqId
  /\ \A t \in SeqId : t \in Task /\ Home(t) = "server" /\ t \notin Requester
                     /\ t \in Nat /\ t >= 1 /\ t <= MaxSeq
  /\ \A t \in Task : /\ t \in Requester \/ t \in SeqId
                     /\ Home(t) = "client" <=> t \in Requester
                     /\ Home(t) = "server" <=> t \in SeqId
                     /\ Home(t) \in Side /\ Peer(Home(t)) \in Side
                     /\ t # NoTask
  /\ MaxSeq \in Nat /\ IsFiniteSet(Requester) /\ IsFiniteSet(SeqId)
<1>1. MaxSeq \in Nat /\ IsFiniteSet(SeqId)
  BY BoundAssumption, FS_Interval DEF SeqId
<1>2. \A t \in SeqId : t \in Nat /\ t >= 1 /\ t <= MaxSeq
  BY <1>1 DEF SeqId
<1> QED
  BY <1>1, <1>2, NameAssumption DEF Side, Peer, Home, Task

(* The fields of a message, and the same message in the other direction. *)
LEMMA Fields ==
  ASSUME NEW m \in Message
  PROVE  /\ m.seq \in SeqId /\ m.kind \in Kind /\ m.req \in BOOLEAN
         /\ m # NoMsg
         /\ AsRequest(m) \in Message /\ AsResponse(m) \in Message
         /\ AsRequest(m).seq = m.seq /\ AsRequest(m).kind = m.kind /\ AsRequest(m).req
         /\ AsResponse(m).seq = m.seq /\ AsResponse(m).kind = m.kind
         /\ ~AsResponse(m).req
         /\ m.req => AsRequest(m) = m /\ AsRequest(AsResponse(m)) = m
         /\ ~m.req => AsResponse(m) = m /\ AsResponse(AsRequest(m)) = m
         /\ [m EXCEPT !.req = FALSE] = AsResponse(m)
         /\ m.req => (HasPayload(m) <=> m.kind = "write")
         /\ ~m.req => (HasPayload(m) <=> m.kind = "read")
<1>1. m \in [seq : 0..MaxSeq, kind : Kind, req : BOOLEAN]
  BY BoundAssumption DEF Message, SeqId
<1>2. m # NoMsg
  BY <1>1, NameAssumption
<1>3. m = [seq |-> m.seq, kind |-> m.kind, req |-> m.req]
  BY DEF Message
<1>4. m.req => AsRequest(m) = m
  BY <1>3 DEF AsRequest
<1>5. ~m.req => AsResponse(m) = m
  BY <1>3 DEF AsResponse, Message
<1>6. m.req => AsRequest(AsResponse(m)) = m
  BY <1>3 DEF AsRequest, AsResponse
<1>7. ~m.req => AsResponse(AsRequest(m)) = m
  BY <1>5 DEF AsRequest, AsResponse
<1>8. [m EXCEPT !.req = FALSE] = AsResponse(m)
  <2>0. PICK n : n = [m EXCEPT !.req = FALSE]
    OBVIOUS
  <2>1. n \in Message /\ n.seq = m.seq /\ n.kind = m.kind /\ n.req = FALSE
    BY <2>0 DEF Message
  <2>2. n = [seq |-> n.seq, kind |-> n.kind, req |-> n.req]
    BY <2>1 DEF Message
  <2> QED
    BY <2>0, <2>1, <2>2 DEF AsResponse
<1> QED
  BY <1>2, <1>4, <1>5, <1>6, <1>7, <1>8 DEF Message, AsRequest, AsResponse, HasPayload

-----------------------------------------------------------------------------
(* What the last fragment is after one is added. *)
LEMMA LastAppended ==
  ASSUME NEW q \in Seq(Fragment), NEW x \in Fragment
  PROVE  /\ IsLast(x, Append(q, x))
         /\ \A f : IsLast(f, Append(q, x)) => f = x
<1>1. /\ Append(q, x) \in Seq(Fragment) /\ Len(q) \in Nat
      /\ Len(Append(q, x)) = Len(q) + 1 /\ Append(q, x)[Len(q) + 1] = x
  OBVIOUS
<1> QED
  BY <1>1 DEF IsLast

(* Fragments have fields. *)
LEMMA FragmentFields ==
  ASSUME NEW f \in Fragment
  PROVE  /\ f.m \in Message /\ f.part \in {"hdr", "pay"}
         /\ f = [m |-> f.m, part |-> f.part]
BY DEF Fragment

(* A header may follow a whole message, if there is none of its seqid. *)
LEMMA FramedHdr ==
  ASSUME NEW q \in Seq(Fragment), NEW x \in Fragment, Framed(q), x.part = "hdr",
         \A f \in Fragment : IsLast(f, q) => Whole(f),
         \A f \in Fragment : InQueue(f, q) => f.m.seq # x.m.seq
  PROVE  Framed(Append(q, x))
<1> DEFINE r == Append(q, x)
           n == Len(q) + 1
<1>1. /\ r \in Seq(Fragment) /\ Len(q) \in Nat /\ Len(r) = n
      /\ \A i \in 1..Len(q) : r[i] = q[i]
      /\ r[n] = x
  OBVIOUS
<1>2. \A i \in 1..Len(q) : q[i] \in Fragment /\ InQueue(q[i], q)
  BY DEF InQueue
<1>3. Len(q) > 0 => Whole(q[Len(q)])
  BY <1>1, <1>2 DEF IsLast
<1> HIDE DEF r
<1>4. ASSUME NEW i \in 1..Len(r), r[i].part = "pay"
      PROVE  i > 1 /\ r[i - 1] = [m |-> r[i].m, part |-> "hdr"] /\ HasPayload(r[i].m)
  <2>1. i # n
    BY <1>1, <1>4
  <2>2. i \in 1..Len(q) /\ q[i].part = "pay"
    BY <1>1, <1>4, <2>1
  <2>3. i > 1 /\ q[i - 1] = [m |-> q[i].m, part |-> "hdr"] /\ HasPayload(q[i].m)
    BY <2>2 DEF Framed
  <2>4. i - 1 \in 1..Len(q)
    BY <1>1, <2>2, <2>3
  <2> QED
    BY <1>1, <2>2, <2>3, <2>4
<1>5. ASSUME NEW i \in 1..Len(r), i > 1, ~Whole(r[i - 1])
      PROVE  r[i].part = "pay"
  <2>1. CASE i = n
    BY <1>1, <1>3, <1>5, <2>1
  <2>2. CASE i \in 1..Len(q)
    <3>1. i - 1 \in 1..Len(q) /\ r[i - 1] = q[i - 1] /\ r[i] = q[i]
      BY <1>1, <1>5, <2>2
    <3> QED
      BY <1>5, <2>2, <3>1 DEF Framed
  <2> QED
    BY <1>1, <2>1, <2>2
<1>6. ASSUME NEW i \in 1..Len(r), NEW j \in 1..Len(r), r[i].part = "hdr", r[j].part = "hdr",
             r[i].m.seq = r[j].m.seq
      PROVE  i = j
  <2>1. CASE i \in 1..Len(q) /\ j \in 1..Len(q)
    BY <1>1, <1>6, <2>1 DEF Framed
  <2>2. CASE i = n \/ j = n
    BY <1>1, <1>2, <1>6, <2>2
  <2> QED
    BY <1>1, <2>1, <2>2
<1>7. Framed(r)
  BY <1>4, <1>5, <1>6 DEF Framed
<1> QED
  BY <1>7 DEF r

(* A payload may follow its header. *)
LEMMA FramedPay ==
  ASSUME NEW q \in Seq(Fragment), NEW x \in Fragment, Framed(q), x.part = "pay",
         HasPayload(x.m), IsLast([m |-> x.m, part |-> "hdr"], q)
  PROVE  Framed(Append(q, x))
<1> DEFINE r == Append(q, x)
           n == Len(q) + 1
<1>1. /\ r \in Seq(Fragment) /\ Len(q) \in Nat /\ Len(r) = n
      /\ \A i \in 1..Len(q) : r[i] = q[i]
      /\ r[n] = x
  OBVIOUS
<1>2. Len(q) > 0 /\ q[Len(q)] = [m |-> x.m, part |-> "hdr"] /\ n > 1 /\ n - 1 = Len(q)
  BY <1>1 DEF IsLast
<1> HIDE DEF r
<1>4. ASSUME NEW i \in 1..Len(r), r[i].part = "pay"
      PROVE  i > 1 /\ r[i - 1] = [m |-> r[i].m, part |-> "hdr"] /\ HasPayload(r[i].m)
  <2>1. CASE i = n
    BY <1>1, <1>2, <2>1
  <2>2. CASE i \in 1..Len(q)
    <3>1. i > 1 /\ q[i - 1] = [m |-> q[i].m, part |-> "hdr"] /\ HasPayload(q[i].m)
      BY <1>1, <1>4, <2>2 DEF Framed
    <3>2. i - 1 \in 1..Len(q)
      BY <1>1, <2>2, <3>1
    <3> QED
      BY <1>1, <2>2, <3>1, <3>2
  <2> QED
    BY <1>1, <2>1, <2>2
<1>5. ASSUME NEW i \in 1..Len(r), i > 1, ~Whole(r[i - 1])
      PROVE  r[i].part = "pay"
  <2>1. CASE i = n
    BY <1>1, <2>1
  <2>2. CASE i \in 1..Len(q)
    <3>1. i - 1 \in 1..Len(q) /\ r[i - 1] = q[i - 1] /\ r[i] = q[i]
      BY <1>1, <1>5, <2>2
    <3> QED
      BY <1>5, <2>2, <3>1 DEF Framed
  <2> QED
    BY <1>1, <2>1, <2>2
<1>6. ASSUME NEW i \in 1..Len(r), NEW j \in 1..Len(r), r[i].part = "hdr", r[j].part = "hdr",
             r[i].m.seq = r[j].m.seq
      PROVE  i = j
  <2>1. r[n].part # "hdr"
    BY <1>1
  <2> QED
    BY <1>1, <1>6, <2>1 DEF Framed
<1>7. Framed(r)
  BY <1>4, <1>5, <1>6 DEF Framed
<1> QED
  BY <1>7 DEF r

(* r is q without its first k fragments. *)
Drops(q, r, k) ==
  /\ k \in {1, 2} /\ Len(q) >= k
  /\ Len(r) = Len(q) - k /\ \A i \in 1..Len(r) : r[i] = q[i + k]

(* The first message of a stream is its first fragment, or two; no other   *)
(* fragment is of it, and the others are still framed.                     *)
LEMMA FirstMessage ==
  ASSUME NEW q \in Seq(Fragment), NEW r \in Seq(Fragment), Framed(q), NEW k \in {1, 2},
         Drops(q, r, k), NEW m \in Message, q[1].m = m, Whole(q[k]), k = 2 => ~Whole(q[1])
  PROVE  /\ Framed(r)
         /\ \A f \in Fragment : InQueue(f, r) => InQueue(f, q) /\ f.m.seq # m.seq
         /\ \E f \in Fragment : InQueue(f, q) /\ f.m = m /\ Whole(f)
         /\ \A f \in Fragment : IsLast(f, r) => IsLast(f, q)
         /\ \A f \in Fragment : IsLast(f, q) => IsLast(f, r) \/ Whole(f)
<1>1. /\ Len(q) \in Nat /\ Len(r) \in Nat /\ Len(q) >= k /\ Len(r) = Len(q) - k
      /\ \A i \in 1..Len(r) : r[i] = q[i + k]
  BY DEF Drops
<1>2. \A i \in 1..Len(q) : q[i] \in Fragment /\ q[i].part \in {"hdr", "pay"} /\ InQueue(q[i], q)
  <2>1. \A i \in 1..Len(q) : q[i] \in Fragment
    OBVIOUS
  <2>2. \A i \in 1..Len(q) : q[i].part \in {"hdr", "pay"}
    BY <2>1 DEF Fragment
  <2>3. \A i \in 1..Len(q) : InQueue(q[i], q)
    BY DEF InQueue
  <2> QED
    BY <2>1, <2>2, <2>3
<1>3. \A i \in 1..Len(r) : i + k \in 1..Len(q) /\ i + k > k /\ r[i] = q[i + k]
  BY <1>1
<1>4. 1 \in 1..Len(q) /\ q[1].part = "hdr"
  <2>1. 1 \in 1..Len(q) /\ ~(1 > 1)
    BY <1>1
  <2>2. q[1].part # "pay"
    BY <2>1 DEF Framed
  <2> QED
    BY <1>2, <2>1, <2>2
<1>5. k = 2 => 2 \in 1..Len(q) /\ q[2].part = "pay" /\ q[2].m = m
  <2> SUFFICES ASSUME k = 2 PROVE 2 \in 1..Len(q) /\ q[2].part = "pay" /\ q[2].m = m
    OBVIOUS
  <2>1. 2 \in 1..Len(q) /\ 2 > 1 /\ 2 - 1 = 1
    BY <1>1
  <2>2. q[2].part = "pay"
    BY <2>1 DEF Framed
  <2>3. q[1] = [m |-> q[2].m, part |-> "hdr"]
    BY <2>1, <2>2 DEF Framed
  <2> QED
    BY <2>1, <2>2, <2>3
<1>6. ASSUME NEW i \in 1..Len(q), i > k, q[i].part = "pay"
      PROVE  i - 1 > k /\ i - 1 \in 1..Len(q) /\ q[i - 1] = [m |-> q[i].m, part |-> "hdr"]
  <2>1. i - 1 \in 1..Len(q) /\ q[i - 1] = [m |-> q[i].m, part |-> "hdr"] /\ HasPayload(q[i].m)
    BY <1>1, <1>6 DEF Framed
  <2>2. ~Whole(q[i - 1])
    BY <2>1 DEF Whole
  <2>3. i - 1 # k
    BY <2>2
  <2> QED
    BY <1>1, <1>6, <2>1, <2>3
<1>7. ASSUME NEW i \in 1..Len(q), i > k PROVE q[i].m.seq # m.seq
  <2>1. CASE q[i].part = "hdr"
    BY <1>4, <1>7, <2>1 DEF Framed
  <2>2. CASE q[i].part = "pay"
    <3>1. i - 1 > k /\ i - 1 \in 1..Len(q) /\ q[i - 1].m = q[i].m /\ q[i - 1].part = "hdr"
      <4>1. i - 1 > k /\ i - 1 \in 1..Len(q) /\ q[i - 1] = [m |-> q[i].m, part |-> "hdr"]
        BY <1>6, <1>7, <2>2
      <4> QED
        BY <4>1
    <3>2. i - 1 # 1
      BY <3>1
    <3> QED
      BY <1>4, <3>1, <3>2 DEF Framed
  <2> QED
    BY <1>2, <2>1, <2>2
<1>8. \A f \in Fragment : InQueue(f, r) => InQueue(f, q) /\ f.m.seq # m.seq
  <2> SUFFICES ASSUME NEW f \in Fragment, NEW i \in 1..Len(r), r[i] = f
               PROVE  InQueue(f, q) /\ f.m.seq # m.seq
    BY DEF InQueue
  <2>1. i + k \in 1..Len(q) /\ i + k > k /\ f = q[i + k]
    BY <1>3
  <2>2. q[i + k].m.seq # m.seq
    BY <1>7, <2>1
  <2> QED
    BY <1>2, <2>1, <2>2
<1>9. \E f \in Fragment : InQueue(f, q) /\ f.m = m /\ Whole(f)
  <2>1. k \in 1..Len(q) /\ q[k].m = m
    BY <1>1, <1>5
  <2> QED
    BY <1>2, <2>1
<1>10. \A f \in Fragment : IsLast(f, r) => IsLast(f, q)
  <2> SUFFICES ASSUME NEW f \in Fragment, r # <<>>, r[Len(r)] = f PROVE IsLast(f, q)
    BY DEF IsLast
  <2>1. Len(r) \in 1..Len(r) /\ Len(r) + k = Len(q)
    BY <1>1
  <2>2. r[Len(r)] = q[Len(q)]
    BY <1>3, <2>1
  <2> QED
    BY <1>1, <2>2 DEF IsLast
<1>11. \A f \in Fragment : IsLast(f, q) => IsLast(f, r) \/ Whole(f)
  <2> SUFFICES ASSUME NEW f \in Fragment, q[Len(q)] = f PROVE IsLast(f, r) \/ Whole(f)
    BY DEF IsLast
  <2>1. CASE Len(r) = 0
    BY <1>1, <2>1
  <2>2. CASE Len(r) > 0
    <3>1. Len(r) \in 1..Len(r) /\ Len(r) + k = Len(q)
      BY <1>1, <2>2
    <3>2. r[Len(r)] = q[Len(q)]
      BY <1>3, <3>1
    <3> QED
      BY <2>2, <3>2 DEF IsLast
  <2> QED
    BY <1>1, <2>1, <2>2
<1>12. Framed(r)
  <2>1. ASSUME NEW i \in 1..Len(r), r[i].part = "pay"
        PROVE  i > 1 /\ r[i - 1] = [m |-> r[i].m, part |-> "hdr"] /\ HasPayload(r[i].m)
    <3>0. i + k \in 1..Len(q) /\ i + k > k /\ r[i] = q[i + k]
      BY <1>3
    <3>1. (i + k) - 1 > k /\ q[(i + k) - 1] = [m |-> q[i + k].m, part |-> "hdr"]
      BY <1>6, <2>1, <3>0
    <3>2. HasPayload(q[i + k].m)
      BY <2>1, <3>0 DEF Framed
    <3>3. i - 1 \in 1..Len(r) /\ (i - 1) + k = (i + k) - 1 /\ i > 1
      BY <1>1, <3>1
    <3>4. r[i - 1] = q[(i + k) - 1]
      BY <1>1, <3>3
    <3> QED
      BY <3>0, <3>1, <3>2, <3>3, <3>4
  <2>2. ASSUME NEW i \in 1..Len(r), i > 1, ~Whole(r[i - 1])
        PROVE  r[i].part = "pay"
    <3>0. i \in 1..Len(r) /\ i > 1
      BY <2>2
    <3>1. i - 1 \in 1..Len(r) /\ (i - 1) + k = (i + k) - 1 /\ i + k > 1 /\ i + k \in 1..Len(q)
      BY ONLY <1>1, <3>0
    <3>2. r[i - 1] = q[(i + k) - 1] /\ r[i] = q[i + k]
      BY <1>1, <3>1
    <3> QED
      BY <2>2, <3>1, <3>2 DEF Framed
  <2>3. ASSUME NEW i \in 1..Len(r), NEW j \in 1..Len(r), r[i].part = "hdr",
               r[j].part = "hdr", r[i].m.seq = r[j].m.seq
        PROVE  i = j
    <3>1. i + k = j + k
      BY <1>3, <2>3 DEF Framed
    <3> QED
      BY <3>1
  <2> QED
    BY <2>1, <2>2, <2>3 DEF Framed
<1> QED
  BY <1>8, <1>9, <1>10, <1>11, <1>12

-----------------------------------------------------------------------------
(* A stream is a sequence of fragments. *)
LEMMA StreamTyped ==
  ASSUME Types, Link, NEW s \in Side
  PROVE  /\ wire[s] \in Seq(Fragment) /\ Stream(s) \in Seq(Fragment)
         /\ cur[s] # NoMsg => cur[s] \in Message
<1>1. /\ wire[s] \in Seq(Fragment) /\ cur[s] \in Message \cup {NoMsg}
      /\ recv[s] \in {"hdr", "buf", "pay", "end"}
  BY DEF Types, TypeNet
<1>2. recv[s] \in {"buf", "pay"} => cur[s] \in Message
  BY <1>1 DEF Link
<1>3. recv[s] \in {"buf", "pay"} => [m |-> cur[s], part |-> "hdr"] \in Fragment
  BY <1>2 DEF Fragment
<1>4. recv[s] \in {"buf", "pay"} => <<[m |-> cur[s], part |-> "hdr"]>> \in Seq(Fragment)
  BY <1>3
<1>5. recv[s] \in {"buf", "pay"} =>
        <<[m |-> cur[s], part |-> "hdr"]>> \o wire[s] \in Seq(Fragment)
  BY <1>1, <1>4
<1>6. <<>> \in Seq(Fragment)
  OBVIOUS
<1> QED
  BY <1>1, <1>5, <1>6 DEF Stream

(* What rpc_recv_task has still to deliver changes with the wire and what  *)
(* it has read only.                                                       *)
LEMMA StreamSame ==
  ASSUME NEW s \in Side, wire'[s] = wire[s], recv'[s] = recv[s], cur'[s] = cur[s]
  PROVE  Stream(s)' = Stream(s)
BY DEF Stream

(* A header before a sequence of fragments. *)
LEMMA HeaderBefore ==
  ASSUME NEW h \in Fragment, NEW w \in Seq(Fragment)
  PROVE  /\ <<h>> \o w \in Seq(Fragment) /\ Len(<<h>> \o w) = Len(w) + 1
         /\ (<<h>> \o w)[1] = h
         /\ \A i \in 1..Len(w) : (<<h>> \o w)[i + 1] = w[i]
         /\ \A i \in 2..(Len(w) + 1) : (<<h>> \o w)[i] = w[i - 1]
OBVIOUS

(* A fragment that is written comes last in what is to be delivered. *)
LEMMA StreamSent ==
  ASSUME Types, Link, up, NEW s \in Side, NEW f \in Fragment,
         wire'[s] = Append(wire[s], f), recv'[s] = recv[s], cur'[s] = cur[s]
  PROVE  Stream(s)' = Append(Stream(s), f)
<1>1. /\ wire[s] \in Seq(Fragment) /\ Stream(s) \in Seq(Fragment)
      /\ cur[s] # NoMsg => cur[s] \in Message
  BY StreamTyped
<1>2. recv[s] \in {"hdr", "buf", "pay"}
  BY DEF Types, TypeNet, Link
<1>3. CASE recv[s] = "hdr"
  BY <1>3 DEF Stream
<1>4. CASE recv[s] \in {"buf", "pay"}
  <2> DEFINE h == [m |-> cur[s], part |-> "hdr"]
             w == wire[s]
  <2>1. h \in Fragment
    BY <1>1, <1>4 DEF Link, Fragment
  <2>2. Stream(s) = <<h>> \o w /\ Stream(s)' = <<h>> \o Append(w, f)
    BY <1>4 DEF Stream
  <2>3. w \in Seq(Fragment)
    BY <1>1
  <2> HIDE DEF h, w
  <2>4. <<h>> \o Append(w, f) = Append(<<h>> \o w, f)
    BY <2>1, <2>3
  <2> QED
    BY <2>2, <2>4
<1> QED
  BY <1>2, <1>3, <1>4

(* Reading the header of a message with payload takes nothing from it. *)
LEMMA StreamHeader ==
  ASSUME Types, Link, NEW s \in Side, recv[s] = "hdr", wire[s] # <<>>,
         Head(wire[s]).part = "hdr",
         wire'[s] = Tail(wire[s]), recv'[s] = "buf", cur'[s] = Head(wire[s]).m
  PROVE  Stream(s)' = Stream(s)
<1> DEFINE w == wire[s]
<1>1. w \in Seq(Fragment)
  BY StreamTyped
<1>2. Head(w) \in Fragment /\ w = <<Head(w)>> \o Tail(w)
  BY <1>1
<1>3. Head(w) = [m |-> Head(w).m, part |-> "hdr"]
  BY <1>2, FragmentFields
<1>4. Stream(s) = w /\ Stream(s)' = <<[m |-> Head(w).m, part |-> "hdr"]>> \o Tail(w)
  BY DEF Stream
<1> QED
  BY <1>2, <1>3, <1>4

(* rpc_recv_task gets the buffer for a payload. *)
LEMMA StreamBuffer ==
  ASSUME NEW s \in Side, recv[s] = "buf", wire'[s] = wire[s], recv'[s] = "pay",
         cur'[s] = cur[s]
  PROVE  Stream(s)' = Stream(s)
BY DEF Stream

(* What the receiver finds at the head of the wire. *)
LEMMA HeadOfWire ==
  ASSUME Types, Link, NEW s \in Side, Framed(Stream(s)), wire[s] # <<>>
  PROVE  /\ recv[s] = "hdr" => Head(wire[s]) = Stream(s)[1] /\ Head(wire[s]).part = "hdr"
         /\ recv[s] \in {"buf", "pay"} =>
              Head(wire[s]) = [m |-> cur[s], part |-> "pay"] /\ Len(Stream(s)) >= 2
         /\ Head(wire[s]) \in Fragment
<1> DEFINE w == wire[s]
           q == Stream(s)
<1>1. /\ w \in Seq(Fragment) /\ q \in Seq(Fragment)
      /\ cur[s] # NoMsg => cur[s] \in Message
  BY StreamTyped
<1>2. Head(w) \in Fragment /\ Len(w) \in Nat /\ Len(w) >= 1 /\ Head(w) = w[1]
  BY <1>1
<1>3. ASSUME recv[s] = "hdr" PROVE Head(w) = q[1] /\ Head(w).part = "hdr"
  <2>1. q = w
    BY <1>3 DEF Stream
  <2>2. 1 \in 1..Len(q) /\ ~(1 > 1)
    BY <1>2, <2>1
  <2>3. q[1].part # "pay"
    BY <2>2 DEF Framed
  <2> QED
    BY <1>2, <2>1, <2>3, FragmentFields
<1>4. ASSUME recv[s] \in {"buf", "pay"}
      PROVE  Head(w) = [m |-> cur[s], part |-> "pay"] /\ Len(q) >= 2
  <2> DEFINE h == [m |-> cur[s], part |-> "hdr"]
  <2>1. cur[s] \in Message /\ h \in Fragment /\ HasPayload(cur[s])
    BY <1>1, <1>4 DEF Link, Fragment
  <2>2. q = <<h>> \o w
    BY <1>4 DEF Stream
  <2>3. Len(q) = Len(w) + 1 /\ q[1] = h /\ q[1 + 1] = w[1]
    BY <1>1, <1>2, <2>1, <2>2, HeaderBefore
  <2>4. 2 \in 1..Len(q) /\ 2 > 1 /\ 2 - 1 = 1 /\ q[2] = w[1]
    BY <1>2, <2>3
  <2>5. ~Whole(q[1])
    BY <2>1, <2>3 DEF Whole
  <2>6. q[2].part = "pay"
    BY <2>4, <2>5 DEF Framed
  <2>7. q[1] = [m |-> q[2].m, part |-> "hdr"]
    BY <2>4, <2>6 DEF Framed
  <2>8. cur[s] = w[1].m /\ w[1].part = "pay"
    BY <2>3, <2>4, <2>6, <2>7
  <2> QED
    BY <1>2, <2>4, <2>8, FragmentFields
<1> QED
  BY <1>2, <1>3, <1>4

(* The receiver has the whole of the first message, and drops it from the  *)
(* stream.                                                                 *)
LEMMA StreamDelivered ==
  ASSUME Types, Link, NEW s \in Side, Framed(Stream(s)), wire[s] # <<>>, NEW m \in Message,
         \/ recv[s] = "hdr" /\ m = Head(wire[s]).m /\ ~HasPayload(m)
         \/ recv[s] = "pay" /\ m = cur[s],
         wire'[s] = Tail(wire[s]), recv'[s] = "hdr"
  PROVE  /\ Stream(s)' \in Seq(Fragment) /\ Framed(Stream(s)')
         /\ \A f \in Fragment : InQueue(f, Stream(s)') => InQueue(f, Stream(s)) /\ f.m.seq # m.seq
         /\ \E f \in Fragment : InQueue(f, Stream(s)) /\ f.m = m /\ Whole(f)
         /\ \A f \in Fragment : IsLast(f, Stream(s)') => IsLast(f, Stream(s))
         /\ \A f \in Fragment : IsLast(f, Stream(s)) => IsLast(f, Stream(s)') \/ Whole(f)
<1> DEFINE w == wire[s]
           q == Stream(s)
           r == Tail(w)
<1>1. /\ w \in Seq(Fragment) /\ q \in Seq(Fragment)
  BY StreamTyped
<1>2. /\ r \in Seq(Fragment) /\ Len(w) \in Nat /\ Len(w) >= 1 /\ Len(r) = Len(w) - 1
      /\ \A i \in 1..(Len(w) - 1) : r[i] = w[i + 1]
      /\ Head(w) = w[1]
  BY <1>1
<1>3. Stream(s)' = r
  BY DEF Stream
<1>4. CASE recv[s] = "hdr"
  <2>1. q = w
    BY <1>4 DEF Stream
  <2>2. q[1].m = m /\ Whole(q[1])
    BY <1>2, <1>4, <2>1 DEF Whole
  <2>3. Drops(q, r, 1)
    BY <1>2, <2>1 DEF Drops
  <2> HIDE DEF q, r, w
  <2> QED
    BY <1>1, <1>2, <1>3, <2>2, <2>3, FirstMessage DEF q
<1>5. CASE recv[s] = "pay"
  <2> DEFINE h == [m |-> cur[s], part |-> "hdr"]
  <2>1. cur[s] \in Message /\ h \in Fragment /\ HasPayload(cur[s])
    BY <1>5, StreamTyped DEF Link, Fragment
  <2>2. q = <<h>> \o w
    BY <1>5 DEF Stream
  <2>3. Len(q) = Len(w) + 1 /\ q[1] = h /\ \A i \in 1..Len(w) : q[i + 1] = w[i]
    BY <1>1, <2>1, <2>2, HeaderBefore
  <2>4. q[1].m = m /\ ~Whole(q[1])
    BY <1>5, <2>1, <2>3 DEF Whole
  <2>5. Head(w) = [m |-> cur[s], part |-> "pay"]
    BY <1>5, HeadOfWire
  <2>6. q[1 + 1] = w[1]
    BY <1>2, <2>3
  <2>7. Whole(q[2])
    BY <1>2, <2>5, <2>6 DEF Whole
  <2>8. \A i \in 1..(Len(w) - 1) : i + 1 \in 1..Len(w) /\ (i + 1) + 1 = i + 2
    BY <1>2
  <2>9. \A i \in 1..Len(r) : r[i] = q[i + 2]
    BY <1>2, <2>3, <2>8
  <2>10. Drops(q, r, 2)
    BY <1>2, <2>3, <2>9 DEF Drops
  <2> HIDE DEF q, r, w
  <2> QED
    BY <1>1, <1>2, <1>3, <2>4, <2>7, <2>10, FirstMessage DEF q
<1> QED
  BY <1>4, <1>5

-----------------------------------------------------------------------------
(* They are finitely many. *)
LEMMA CountTypes ==
  /\ Cardinality(CM) \in Nat /\ Cardinality(CA) \in Nat /\ Cardinality(CW) \in Nat
  /\ Cardinality(CP) \in Nat /\ Cardinality(CR) \in Nat
  /\ Cardinality(SA) \in Nat /\ Cardinality(SW) \in Nat /\ Cardinality(SP) \in Nat
  /\ Cardinality(SS) \in Nat
<1>1. /\ CM \in SUBSET Requester /\ CA \in SUBSET Requester /\ CW \in SUBSET Requester
      /\ CP \in SUBSET Requester /\ CR \in SUBSET Requester
  BY DEF CM, CA, CW, CP, CR
<1>2. SA \in SUBSET SeqId /\ SW \in SUBSET SeqId /\ SP \in SUBSET SeqId /\ SS \in SUBSET SeqId
  BY DEF SA, SW, SP, SS
<1> QED
  BY <1>1, <1>2, SubsetCount, Names

(* How they change when one task of the client does. *)
LEMMA ClientMoves ==
  ASSUME NEW c \in Requester,
         \A d \in Requester : d # c => pc'[d] = pc[d] /\ msg'[d] = msg[d] /\ resp'[d] = resp[d]
  PROVE  /\ Moved(c, CM, CM') /\ Moved(c, CA, CA') /\ Moved(c, CW, CW')
         /\ Moved(c, CP, CP') /\ Moved(c, CR, CR')
<1>0. IsFiniteSet(Requester)
  BY Names
<1>1. Moved(c, CM, CM')
  <2>1. CM \in SUBSET Requester /\ CM' \in SUBSET Requester
    BY DEF CM
  <2>2. \A y \in Requester : y # c => (y \in CM <=> y \in CM')
    BY DEF CM
  <2> QED
    BY <1>0, <2>1, <2>2, CountMove
<1>2. Moved(c, CA, CA')
  <2>1. CA \in SUBSET Requester /\ CA' \in SUBSET Requester
    BY DEF CA
  <2>2. \A y \in Requester : y # c => (y \in CA <=> y \in CA')
    BY DEF CA
  <2> QED
    BY <1>0, <2>1, <2>2, CountMove
<1>3. Moved(c, CW, CW')
  <2>1. CW \in SUBSET Requester /\ CW' \in SUBSET Requester
    BY DEF CW
  <2>2. \A y \in Requester : y # c => (y \in CW <=> y \in CW')
    BY DEF CW
  <2> QED
    BY <1>0, <2>1, <2>2, CountMove
<1>4. Moved(c, CP, CP')
  <2>1. CP \in SUBSET Requester /\ CP' \in SUBSET Requester
    BY DEF CP
  <2>2. \A y \in Requester : y # c => (y \in CP <=> y \in CP')
    BY DEF CP
  <2> QED
    BY <1>0, <2>1, <2>2, CountMove
<1>5. Moved(c, CR, CR')
  <2>1. CR \in SUBSET Requester /\ CR' \in SUBSET Requester
    BY DEF CR
  <2>2. \A y \in Requester : y # c => (y \in CR <=> y \in CR')
    BY DEF CR
  <2> QED
    BY <1>0, <2>1, <2>2, CountMove
<1> QED
  BY <1>1, <1>2, <1>3, <1>4, <1>5

(* How they change when one handler does. *)
LEMMA HandlerMoves ==
  ASSUME NEW t \in SeqId,
         \A u \in SeqId : u # t => pc'[u] = pc[u] /\ msg'[u] = msg[u]
  PROVE  Moved(t, SA, SA') /\ Moved(t, SW, SW') /\ Moved(t, SP, SP') /\ Moved(t, SS, SS')
<1>0. IsFiniteSet(SeqId)
  BY Names
<1>1. Moved(t, SA, SA')
  <2>1. SA \in SUBSET SeqId /\ SA' \in SUBSET SeqId
    BY DEF SA
  <2>2. \A y \in SeqId : y # t => (y \in SA <=> y \in SA')
    BY DEF SA
  <2> QED
    BY <1>0, <2>1, <2>2, CountMove
<1>2. Moved(t, SW, SW')
  <2>1. SW \in SUBSET SeqId /\ SW' \in SUBSET SeqId
    BY DEF SW
  <2>2. \A y \in SeqId : y # t => (y \in SW <=> y \in SW')
    BY DEF SW
  <2> QED
    BY <1>0, <2>1, <2>2, CountMove
<1>3. Moved(t, SP, SP')
  <2>1. SP \in SUBSET SeqId /\ SP' \in SUBSET SeqId
    BY DEF SP
  <2>2. \A y \in SeqId : y # t => (y \in SP <=> y \in SP')
    BY DEF SP
  <2> QED
    BY <1>0, <2>1, <2>2, CountMove
<1>4. Moved(t, SS, SS')
  <2>1. SS \in SUBSET SeqId /\ SS' \in SUBSET SeqId
    BY DEF SS
  <2>2. \A y \in SeqId : y # t => (y \in SS <=> y \in SS')
    BY DEF SS
  <2> QED
    BY <1>0, <2>1, <2>2, CountMove
<1> QED
  BY <1>1, <1>2, <1>3, <1>4

(* The tasks of the client, or the handlers, stay as they are. *)
ClientsStay ==
  \A c \in Requester : pc'[c] = pc[c] /\ msg'[c] = msg[c] /\ resp'[c] = resp[c]
HandlersStay == \A t \in SeqId : pc'[t] = pc[t] /\ msg'[t] = msg[t]

(* Then so do the sets. *)
LEMMA ClientsSame ==
  ASSUME ClientsStay
  PROVE  CM' = CM /\ CA' = CA /\ CW' = CW /\ CP' = CP /\ CR' = CR
BY DEF ClientsStay, CM, CA, CW, CP, CR

(* The same for the handlers. *)
LEMMA HandlersSame ==
  ASSUME HandlersStay
  PROVE  SA' = SA /\ SW' = SW /\ SP' = SP /\ SS' = SS
BY DEF HandlersStay, SA, SW, SP, SS

-----------------------------------------------------------------------------
(* Nothing is in an empty stream, and it is framed. *)
LEMMA EmptyStream ==
  /\ Framed(<<>>) /\ \A f : ~InQueue(f, <<>>) /\ ~IsLast(f, <<>>)
<1>1. Len(<<>>) = 0 /\ 1..0 = {}
  OBVIOUS
<1> QED
  BY <1>1 DEF Framed, InQueue, IsLast

(* Processes that run were running, an aborted one stays so, channels that *)
(* are enabled were, and a connection that is up was.                      *)
Weaker ==
  /\ \A s \in Side : /\ proc'[s] = "run" => proc[s] = "run"
                     /\ proc[s] = "abort" => proc'[s] = "abort"
                     /\ enabled'[s] => enabled[s]
  /\ up' => up

(* What is left alone by a step of the receivers, the closers or the       *)
(* network that delivers nothing.                                          *)
LEMMA Still ==
  ASSUME IInv, UNCHANGED <<taskVars, lockVars>>, Weaker,
         \A s \in Side : Stream(s)' = Stream(s) \/ (Stream(s)' = <<>> /\ ~up')
  PROVE  /\ (TypeTask /\ TypeSeq /\ TypeLock)'
         /\ (Clients /\ Handlers /\ SeqsApart /\ Locks /\ Frames /\ Ends)'
         /\ (Requests /\ Responses /\ Stations /\ ResponseMatches /\ HashIsOutstanding)'
         /\ ClientsStay /\ HandlersStay
<1>1. /\ UNCHANGED pc /\ UNCHANGED msg /\ UNCHANGED resp /\ UNCHANGED seqid
      /\ UNCHANGED hash /\ UNCHANGED served /\ UNCHANGED owner /\ UNCHANGED waiting
  BY DEF taskVars, lockVars
<1>2. (TypeTask /\ TypeSeq /\ TypeLock)'
  BY <1>1 DEF IInv, Types, TypeTask, TypeSeq, TypeLock
<1>3. (Clients /\ Handlers /\ SeqsApart /\ Stations /\ ResponseMatches)'
  BY <1>1 DEF IInv, Clients, Handlers, SeqsApart, CM, Stations, ResponseMatches, HasSeq
<1>4. HashIsOutstanding'
  BY <1>1, Names DEF IInv, HashIsOutstanding, Weaker
<1>5. Locks'
  <2>1. LockOf("client")' /\ (LockOf("server") => LockOf("server")')
    BY <1>1 DEF IInv, Locks, LockOf
  <2> QED
    BY <1>1, <2>1, Names DEF IInv, Locks, Weaker, SS
<1>6. Frames'
  BY EmptyStream DEF IInv, Frames
<1>7. Ends'
  <2> SUFFICES ASSUME up' PROVE Ends'
    BY DEF Ends
  <2>1. \A s \in Side : Stream(s)' = Stream(s)
    OBVIOUS
  <2>2. Ends /\ up
    BY DEF IInv, Weaker
  <2>3. \A t \in Task : Stream(Peer(Home(t)))' = Stream(Peer(Home(t)))
    BY <2>1, Names
  <2> QED
    BY <1>1, <2>1, <2>2, <2>3 DEF Ends
<1>8. Requests' /\ Responses'
  <2>1. \A f : InQueue(f, Stream("server")') => InQueue(f, Stream("server"))
    BY EmptyStream, Names
  <2>2. \A f : InQueue(f, Stream("client")') => InQueue(f, Stream("client"))
    BY EmptyStream, Names
  <2> QED
    BY <1>1, <2>1, <2>2 DEF IInv, Requests, RequestOf, Responses, ResponseOf
<1>9. ClientsStay /\ HandlersStay
  BY <1>1 DEF ClientsStay, HandlersStay
<1> QED
  BY <1>2, <1>3, <1>4, <1>5, <1>6, <1>7, <1>8, <1>9

(* What a boolean counts for. *)
LEMMA OneFacts == One(TRUE) = 1 /\ One(FALSE) = 0 /\ \A b \in BOOLEAN : One(b) \in {0, 1}
BY DEF One

(* The pools' counts after a step that leaves the tasks alone. *)
LEMMA StillCounts ==
  ASSUME IInv, ClientsStay, HandlersStay, Weaker,
         /\ msgs'["client"] = msgs["client"]
         /\ bufs'["client"] - One(recv'["client"] = "pay")
              = bufs["client"] - One(recv["client"] = "pay"),
         /\ msgs'["server"] - One(recv'["server"] # "end" \/ closer'["server"] = "start")
              = msgs["server"] - One(recv["server"] # "end" \/ closer["server"] = "start")
         /\ bufs'["server"] - One(recv'["server"] = "pay")
              = bufs["server"] - One(recv["server"] = "pay"),
         bufs'["client"] \in Nat, bufs'["server"] \in Nat, msgs'["server"] \in Nat
  PROVE  (ClientCounts /\ ServerCounts)'
<1>1. CA' = CA /\ CW' = CW /\ CP' = CP /\ CR' = CR
  BY ClientsSame
<1>2. SA' = SA /\ SW' = SW /\ SP' = SP
  BY HandlersSame
<1>3. /\ Cardinality(CA) \in Nat /\ Cardinality(CW) \in Nat
      /\ Cardinality(CP) \in Nat /\ Cardinality(CR) \in Nat
      /\ Cardinality(SA) \in Nat /\ Cardinality(SW) \in Nat /\ Cardinality(SP) \in Nat
  BY CountTypes
<1>4. /\ msgs["client"] \in Nat /\ bufs["client"] \in Nat
      /\ msgs["server"] \in Nat /\ bufs["server"] \in Nat
  BY Names DEF IInv, Types, TypePool
<1>5. ClientCounts'
  BY <1>1, <1>3, <1>4, Names DEF IInv, ClientCounts, Weaker, One
<1>6. ServerCounts'
  BY <1>2, <1>3, <1>4, Names DEF IInv, ServerCounts, Weaker, One
<1> QED
  BY <1>5, <1>6

(* The whole invariant, from what Still and StillCounts leave open. *)
LEMMA StillInv ==
  ASSUME IInv, UNCHANGED <<taskVars, lockVars>>, Weaker,
         \A s \in Side : Stream(s)' = Stream(s) \/ (Stream(s)' = <<>> /\ ~up'),
         (TypeNet /\ TypePool /\ TypeChan /\ TypeProc /\ Link)',
         /\ msgs'["client"] = msgs["client"]
         /\ bufs'["client"] - One(recv'["client"] = "pay")
              = bufs["client"] - One(recv["client"] = "pay"),
         /\ msgs'["server"] - One(recv'["server"] # "end" \/ closer'["server"] = "start")
              = msgs["server"] - One(recv["server"] # "end" \/ closer["server"] = "start")
         /\ bufs'["server"] - One(recv'["server"] = "pay")
              = bufs["server"] - One(recv["server"] = "pay"),
         (Teardown /\ NoLoss)'
  PROVE  IInv'
<1>1. bufs'["client"] \in Nat /\ bufs'["server"] \in Nat /\ msgs'["server"] \in Nat
  BY Names DEF TypePool
<1>2. ClientsStay /\ HandlersStay
  BY Still
<1>3. (ClientCounts /\ ServerCounts)'
  BY <1>1, <1>2, StillCounts
<1>4. (TypeTask /\ TypeSeq /\ TypeLock)'
  BY Still
<1>5. (Clients /\ Handlers /\ SeqsApart /\ Locks /\ Frames /\ Ends)'
  BY Still
<1>6. (Requests /\ Responses /\ Stations /\ ResponseMatches /\ HashIsOutstanding)'
  BY Still
<1> QED
  BY <1>3, <1>4, <1>5, <1>6 DEF IInv, Types

-----------------------------------------------------------------------------
(* The receiver reads the header of a message with payload. *)
LEMMA ReadBigHdrKeeps ==
  ASSUME IInv, NEW s \in Side, ReadBigHdr(s)
  PROVE  IInv'
<1>1. /\ recv[s] = "hdr" /\ wire[s] # <<>> /\ HasPayload(Head(wire[s]).m)
      /\ cur'  = [cur EXCEPT ![s] = Head(wire[s]).m]
      /\ wire' = [wire EXCEPT ![s] = Tail(wire[s])]
      /\ recv' = [recv EXCEPT ![s] = "buf"]
      /\ UNCHANGED taskVars /\ UNCHANGED lockVars /\ UNCHANGED up /\ UNCHANGED fd
      /\ UNCHANGED enabled /\ UNCHANGED msgs /\ UNCHANGED bufs /\ UNCHANGED closer
      /\ UNCHANGED proc /\ UNCHANGED losses
  BY DEF ReadBigHdr, CanRead, poolVars, faultVars
<1>2. UNCHANGED pc
  BY <1>1 DEF taskVars
<1>3. Types /\ Link /\ Framed(Stream(s))
  BY DEF IInv, Frames
<1>4. Head(wire[s]) \in Fragment /\ Head(wire[s]).part = "hdr" /\ Head(wire[s]).m \in Message
  BY <1>1, <1>3, HeadOfWire, FragmentFields
<1>5. Head(wire[s]).m # NoMsg
  BY <1>4, Fields
<1>6. TypeNet /\ Tail(wire[s]) \in Seq(Fragment)
  BY <1>1, <1>3, StreamTyped DEF Types
<1>7. TypeNet'
  BY <1>1, <1>4, <1>6 DEF TypeNet
<1>8. /\ wire'[s] = Tail(wire[s]) /\ recv'[s] = "buf" /\ cur'[s] = Head(wire[s]).m
      /\ \A p \in Side : p # s => wire'[p] = wire[p] /\ recv'[p] = recv[p] /\ cur'[p] = cur[p]
  BY <1>1, <1>6 DEF TypeNet
<1>9. \A p \in Side : Stream(p)' = Stream(p)
  BY <1>1, <1>3, <1>4, <1>8, StreamHeader, StreamSame
<1>10. (TypePool /\ TypeChan /\ TypeProc)'
  BY <1>1 DEF IInv, Types, TypePool, TypeChan, TypeProc
<1>11. Link'
  BY <1>1, <1>2, <1>5, <1>8 DEF IInv, Link
<1>12. Teardown'
  BY <1>1, <1>2 DEF IInv, Teardown
<1>13. NoLoss'
  BY <1>1, <1>2, <1>9, Names DEF IInv, NoLoss, Unbroken
<1>14. Weaker
  BY <1>1 DEF Weaker
<1>15. \A p \in Side : /\ recv'[p] = "pay" <=> recv[p] = "pay"
                       /\ recv'[p] # "end" <=> recv[p] # "end"
  BY <1>1, <1>8
<1> QED
  BY <1>1, <1>7, <1>9, <1>10, <1>11, <1>12, <1>13, <1>14, <1>15, StillInv, Names DEF One

(* The receiver gets the buffer for a payload. *)
LEMMA ReadBufKeeps ==
  ASSUME IInv, NEW s \in Side, ReadBuf(s)
  PROVE  IInv'
<1>1. /\ recv[s] = "buf" /\ bufs' = [bufs EXCEPT ![s] = bufs[s] + 1]
      /\ recv' = [recv EXCEPT ![s] = "pay"]
      /\ UNCHANGED taskVars /\ UNCHANGED lockVars /\ UNCHANGED up /\ UNCHANGED fd
      /\ UNCHANGED enabled /\ UNCHANGED msgs /\ UNCHANGED wire /\ UNCHANGED cur
      /\ UNCHANGED closer /\ UNCHANGED proc /\ UNCHANGED losses
  BY DEF ReadBuf, faultVars
<1>2. UNCHANGED pc
  BY <1>1 DEF taskVars
<1>3. TypeNet /\ TypePool
  BY DEF IInv, Types
<1>4. /\ bufs[s] \in Nat /\ bufs'[s] = bufs[s] + 1 /\ recv'[s] = "pay"
      /\ \A p \in Side : p # s => bufs'[p] = bufs[p] /\ recv'[p] = recv[p]
      /\ \A p \in Side : bufs[p] \in Nat
  BY <1>1, <1>3 DEF TypeNet, TypePool
<1>5. TypeNet' /\ TypePool'
  BY <1>1, <1>3, <1>4 DEF TypeNet, TypePool
<1>6. (TypeChan /\ TypeProc)'
  BY <1>1 DEF IInv, Types, TypeChan, TypeProc
<1>7. \A p \in Side : Stream(p)' = Stream(p)
  BY <1>1, <1>4, StreamBuffer, StreamSame
<1>8. Link'
  BY <1>1, <1>2, <1>4 DEF IInv, Link
<1>9. Teardown'
  BY <1>1, <1>2 DEF IInv, Teardown
<1>10. NoLoss'
  BY <1>1, <1>2, <1>7, Names DEF IInv, NoLoss, Unbroken
<1>11. Weaker
  BY <1>1 DEF Weaker
<1>12. \A p \in Side :
         /\ bufs'[p] - One(recv'[p] = "pay") = bufs[p] - One(recv[p] = "pay")
         /\ recv'[p] # "end" <=> recv[p] # "end"
  BY <1>1, <1>4 DEF One
<1>13. msgs'["server"] - One(recv'["server"] # "end" \/ closer'["server"] = "start")
         = msgs["server"] - One(recv["server"] # "end" \/ closer["server"] = "start")
  BY <1>1, <1>12, Names DEF One
<1> QED
  BY <1>1, <1>5, <1>6, <1>7, <1>8, <1>9, <1>10, <1>11, <1>12, <1>13, StillInv, Names

(* The receiver cannot read: it gives back the payload's buffer and ends. *)
LEMMA ReadFailKeeps ==
  ASSUME IInv, NEW s \in Side, ReadFail(s)
  PROVE  IInv'
<1>1. /\ proc[s] = "run" /\ recv[s] \in {"hdr", "pay"} /\ ~(up /\ fd[s])
      /\ bufs' = [bufs EXCEPT ![s] = bufs[s] - One(recv[s] = "pay")]
      /\ cur'  = [cur EXCEPT ![s] = NoMsg]
      /\ recv' = [recv EXCEPT ![s] = "end"]
      /\ enabled' = [enabled EXCEPT ![s] = FALSE]
      /\ closer'  = [closer EXCEPT ![s] = "start"]
      /\ UNCHANGED taskVars /\ UNCHANGED lockVars /\ UNCHANGED up /\ UNCHANGED fd
      /\ UNCHANGED msgs /\ UNCHANGED wire /\ UNCHANGED proc /\ UNCHANGED losses
  BY DEF ReadFail, RecvEnd, faultVars
<1>2. UNCHANGED pc
  BY <1>1 DEF taskVars
<1>3. TypeNet /\ TypePool /\ TypeChan /\ Link
  BY DEF IInv, Types
<1>4. ~up
  BY <1>1, <1>3 DEF Link
<1>5. bufs[s] \in Nat /\ (recv[s] = "pay" => bufs[s] >= 1)
  <2>1. bufs[s] \in Nat
    BY <1>3 DEF TypePool
  <2>2. CASE s = "client"
    BY <1>1, <2>1, <2>2, CountTypes DEF IInv, ClientCounts, One
  <2>3. CASE s = "server"
    BY <1>1, <2>1, <2>3, CountTypes DEF IInv, ServerCounts, One
  <2> QED
    BY <2>1, <2>2, <2>3, Names
<1>6. /\ bufs'[s] = bufs[s] - One(recv[s] = "pay") /\ bufs'[s] \in Nat
      /\ \A p \in Side : p # s => bufs'[p] = bufs[p] /\ recv'[p] = recv[p] /\ cur'[p] = cur[p]
                                  /\ enabled'[p] = enabled[p] /\ closer'[p] = closer[p]
      /\ recv'[s] = "end" /\ cur'[s] = NoMsg /\ ~enabled'[s] /\ closer'[s] = "start"
  BY <1>1, <1>3, <1>5 DEF TypeNet, TypePool, TypeChan, One
<1>7. TypeNet' /\ TypePool'
  BY <1>1, <1>3, <1>6 DEF TypeNet, TypePool
<1>8. (TypeChan /\ TypeProc)'
  BY <1>1 DEF IInv, Types, TypeChan, TypeProc
<1>9. Stream(s)' = <<>>
  BY <1>6 DEF Stream
<1>10. \A p \in Side : p # s => Stream(p)' = Stream(p)
  BY <1>1, <1>6, StreamSame
<1>11. Link'
  BY <1>1, <1>2, <1>3, <1>4, <1>6 DEF Link
<1>12. Teardown'
  <2>1. closer'["server"] \in {"data", "done"} => closer["server"] = closer'["server"]
    BY <1>6, Names
  <2> QED
    BY <1>1, <1>2, <2>1 DEF IInv, Teardown
<1>13. NoLoss'
  <2>1. Stream("server") = <<>> => Stream("server")' = <<>>
    BY <1>9, <1>10, Names
  <2> QED
    BY <1>1, <1>2, <2>1 DEF IInv, NoLoss, Unbroken
<1>14. Weaker
  BY <1>1, <1>6 DEF Weaker
<1>15. \A p \in Side :
         bufs'[p] - One(recv'[p] = "pay") = bufs[p] - One(recv[p] = "pay")
  <2> TAKE p \in Side
  <2>1. CASE p = s
    BY <1>5, <1>6, <2>1 DEF One
  <2>2. CASE p # s
    BY <1>6, <2>2
  <2> QED
    BY <2>1, <2>2
<1>16. (recv'["server"] # "end" \/ closer'["server"] = "start")
         <=> (recv["server"] # "end" \/ closer["server"] = "start")
  BY <1>1, <1>6, Names
<1>17. msgs'["server"] - One(recv'["server"] # "end" \/ closer'["server"] = "start")
         = msgs["server"] - One(recv["server"] # "end" \/ closer["server"] = "start")
  BY <1>1, <1>16 DEF One
<1>18. \A p \in Side : Stream(p)' = Stream(p) \/ (Stream(p)' = <<>> /\ ~up')
  BY <1>1, <1>4, <1>9, <1>10
<1> QED
  BY <1>1, <1>7, <1>8, <1>11, <1>12, <1>13, <1>14, <1>15, <1>17, <1>18, StillInv, Names

(* The handler of CONNCLOSED closes the channel, and puts its message on   *)
(* the server.                                                             *)
LEMMA ConnClosedKeeps ==
  ASSUME IInv, NEW s \in Side,
         \/ s = "server" /\ rpc_conn_closed
         \/ s = "client" /\ default_handler
  PROVE  IInv'
<1>1. /\ proc[s] = "run" /\ closer[s] = "start"
      /\ enabled' = [enabled EXCEPT ![s] = FALSE]
      /\ fd'      = [fd EXCEPT ![s] = FALSE]
      /\ up'      = FALSE
      /\ closer'  = [closer EXCEPT ![s] = "msgs"]
      /\ UNCHANGED taskVars /\ UNCHANGED lockVars /\ UNCHANGED bufs
      /\ UNCHANGED wire /\ UNCHANGED recv /\ UNCHANGED cur
      /\ UNCHANGED proc /\ UNCHANGED losses
  BY DEF rpc_conn_closed, default_handler, ConnClosed, rpc_chan_close, faultVars
<1>2. /\ s = "server" => msgs' = [msgs EXCEPT !["server"] = msgs["server"] - 1]
      /\ s = "client" => msgs' = msgs
  BY Names DEF rpc_conn_closed, default_handler
<1>3. UNCHANGED pc /\ ~up'
  BY <1>1 DEF taskVars
<1>4. TypePool /\ TypeChan /\ Link
  BY DEF IInv, Types
<1>5. recv[s] = "end" /\ ~enabled[s] /\ ~up
  BY <1>1, <1>4 DEF Link
<1>6. /\ ~enabled'[s] /\ ~fd'[s] /\ closer'[s] = "msgs"
      /\ \A p \in Side : p # s => enabled'[p] = enabled[p] /\ fd'[p] = fd[p]
                                  /\ closer'[p] = closer[p]
  BY <1>1, <1>4 DEF TypeChan
<1>7. s = "server" => msgs["server"] >= 1 /\ msgs["server"] \in Nat
  <2>1. msgs["server"] \in Nat
    BY <1>4, Names DEF TypePool
  <2> QED
    BY <1>1, <2>1, CountTypes DEF IInv, ServerCounts, One
<1>8. /\ s = "server" => msgs'["server"] = msgs["server"] - 1 /\ msgs'["client"] = msgs["client"]
      /\ TypePool'
  BY <1>1, <1>2, <1>4, <1>7, Names DEF TypePool
<1>9. TypeNet' /\ TypeProc'
  BY <1>1 DEF IInv, Types, TypeNet, TypeProc
<1>10. TypeChan'
  BY <1>1, <1>4 DEF TypeChan
<1>11. \A p \in Side : Stream(p)' = Stream(p)
  BY <1>1, StreamSame
<1>12. Link'
  BY <1>1, <1>3, <1>4, <1>5, <1>6, Names DEF Link
<1>13. Teardown'
  <2>1. closer'["server"] \in {"data", "done"} => closer["server"] = closer'["server"]
    BY <1>6, Names
  <2> QED
    BY <1>1, <1>3, <2>1 DEF IInv, Teardown
<1>14. NoLoss'
  BY <1>1, <1>3, <1>5, <1>11, Names DEF IInv, NoLoss, Unbroken
<1>15. Weaker
  BY <1>1, <1>3, <1>6 DEF Weaker
<1>16. msgs'["client"] = msgs["client"]
  BY <1>2, <1>8, Names
<1>17. msgs'["server"] - One(recv'["server"] # "end" \/ closer'["server"] = "start")
         = msgs["server"] - One(recv["server"] # "end" \/ closer["server"] = "start")
  <2>1. CASE s = "server"
    BY <1>1, <1>5, <1>6, <1>7, <1>8, <2>1 DEF One
  <2>2. CASE s = "client"
    BY <1>1, <1>2, <1>6, <2>2, Names DEF One
  <2> QED
    BY <2>1, <2>2, Names
<1> QED
  BY <1>1, <1>8, <1>9, <1>10, <1>11, <1>12, <1>13, <1>14, <1>15, <1>16, <1>17, StillInv,
     Names

(* rpc_chan_deinit goes on when all messages are back: no handler is left. *)
LEMMA DeinitMsgpoolKeeps ==
  ASSUME IInv, NEW s \in Side, deinit_msgpool(s)
  PROVE  IInv'
<1>1. /\ proc[s] = "run" /\ closer[s] = "msgs" /\ msgs[s] = 0
      /\ closer'  = [closer EXCEPT ![s] = "data"]
      /\ UNCHANGED taskVars /\ UNCHANGED lockVars /\ UNCHANGED msgs /\ UNCHANGED bufs
      /\ UNCHANGED wire /\ UNCHANGED recv /\ UNCHANGED cur /\ UNCHANGED up
      /\ UNCHANGED fd /\ UNCHANGED enabled /\ UNCHANGED proc /\ UNCHANGED losses
  BY DEF deinit_msgpool, poolVars, faultVars
<1>2. UNCHANGED pc
  BY <1>1 DEF taskVars
<1>3. /\ closer'[s] = "data" /\ \A p \in Side : p # s => closer'[p] = closer[p]
      /\ TypeChan'
  BY <1>1 DEF IInv, Types, TypeChan
<1>4. (TypeNet /\ TypePool /\ TypeProc)'
  BY <1>1 DEF IInv, Types, TypeNet, TypePool, TypeProc
<1>5. \A p \in Side : Stream(p)' = Stream(p)
  BY <1>1, StreamSame
<1>6. Link'
  BY <1>1, <1>2, <1>3 DEF IInv, Link
<1>7. Teardown'
  <2>1. CASE s = "client"
    BY <1>1, <1>2, <1>3, <2>1, Names DEF IInv, Teardown
  <2>2. CASE s = "server"
    <3>1. Cardinality(SA) = 0
      BY <1>1, <2>2, CountTypes DEF IInv, ServerCounts, One
    <3>2. SA \in SUBSET SeqId
      BY DEF SA
    <3>3. SA = {}
      BY <3>1, <3>2, CountZero, Names
    <3>4. \A t \in SeqId : pc[t] \in {"none", "done"}
      BY <3>3 DEF SA, IInv, Handlers, HandlerPc
    <3> QED
      BY <1>2, <3>4 DEF Teardown
  <2> QED
    BY <2>1, <2>2, Names
<1>8. NoLoss'
  BY <1>1, <1>2, <1>5, Names DEF IInv, NoLoss, Unbroken
<1>9. Weaker
  BY <1>1 DEF Weaker
<1>10. (closer'["server"] = "start") <=> (closer["server"] = "start")
  BY <1>1, <1>3, Names
<1>11. msgs'["server"] - One(recv'["server"] # "end" \/ closer'["server"] = "start")
         = msgs["server"] - One(recv["server"] # "end" \/ closer["server"] = "start")
  BY <1>1, <1>10 DEF One
<1> QED
  BY <1>1, <1>3, <1>4, <1>5, <1>6, <1>7, <1>8, <1>9, <1>11, StillInv, Names

(* assert(ok) in side s: the process goes on, or aborts and the connection *)
(* with it.                                                                *)
LEMMA AssertFacts ==
  ASSUME IInv, NEW s \in Side, NEW ok \in BOOLEAN, Assert(s, ok), proc[s] = "run"
  PROVE  /\ TypeProc => proc' \in [Side -> {"run", "abort", "exit"}]
         /\ up' \in BOOLEAN
         /\ ok => proc' = proc /\ (up' <=> up)
         /\ ~ok => proc'[s] = "abort" /\ ~up'
         /\ \A p \in Side : p # s => proc'[p] = proc[p]
         /\ \A p \in Side : (proc'[p] = "run" => proc[p] = "run")
                         /\ (proc[p] = "abort" => proc'[p] = "abort")
         /\ proc'[s] = "run" <=> ok
         /\ up' => up
<1>1. /\ proc' = [proc EXCEPT ![s] = IF ok THEN @ ELSE "abort"]
      /\ up' <=> (up /\ ok)
      /\ up' \in BOOLEAN
  BY DEF Assert
<1>2. proc \in [Side -> {"run", "abort", "exit"}]
  BY DEF IInv, Types, TypeProc
<1>3. CASE ok
  <2>1. proc' = proc
    BY <1>1, <1>2, <1>3
  <2> QED
    BY <1>1, <1>2, <1>3, <2>1
<1>4. CASE ~ok
  <2>1. proc' = [proc EXCEPT ![s] = "abort"]
    BY <1>1, <1>4
  <2> QED
    BY <1>1, <1>2, <1>4, <2>1
<1> QED
  BY <1>3, <1>4

(* The data pool is given back; hash_deinit asserts an empty table. *)
LEMMA DeinitDatapoolKeeps ==
  ASSUME IInv, NEW s \in Side, deinit_datapool(s)
  PROVE  IInv'
<1>1. /\ proc[s] = "run" /\ closer[s] = "data"
      /\ closer'  = [closer EXCEPT ![s] = "done"]
      /\ Assert(s, s = "client" => hash = {})
      /\ UNCHANGED taskVars /\ UNCHANGED lockVars /\ UNCHANGED msgs /\ UNCHANGED bufs
      /\ UNCHANGED wire /\ UNCHANGED recv /\ UNCHANGED cur
      /\ UNCHANGED fd /\ UNCHANGED enabled /\ UNCHANGED losses
  BY DEF deinit_datapool, poolVars, faultVars
<1>2. UNCHANGED pc
  BY <1>1 DEF taskVars
<1>3. PICK ok \in BOOLEAN : (ok <=> (s = "client" => hash = {})) /\ Assert(s, ok)
  BY <1>1
<1>4. /\ TypeProc => proc' \in [Side -> {"run", "abort", "exit"}]
      /\ up' \in BOOLEAN
      /\ ok => proc' = proc /\ (up' <=> up)
      /\ \A p \in Side : p # s => proc'[p] = proc[p]
      /\ \A p \in Side : (proc'[p] = "run" => proc[p] = "run")
                         /\ (proc[p] = "abort" => proc'[p] = "abort")
      /\ up' => up
  BY <1>1, <1>3, AssertFacts
<1>5. TypeChan /\ TypeProc /\ Link
  BY DEF IInv, Types
<1>6. ~enabled[s] /\ ~up
  BY <1>1, <1>5 DEF Link
<1>7. /\ closer'[s] = "done" /\ \A p \in Side : p # s => closer'[p] = closer[p]
      /\ closer' \in [Side -> {"none", "start", "msgs", "data", "done"}]
  BY <1>1, <1>5 DEF TypeChan
<1>8. TypeChan' /\ TypeProc'
  BY <1>1, <1>4, <1>5, <1>7 DEF TypeChan, TypeProc
<1>9. (TypeNet /\ TypePool)'
  BY <1>1 DEF IInv, Types, TypeNet, TypePool
<1>10. \A p \in Side : Stream(p)' = Stream(p)
  BY <1>1, StreamSame
<1>11. Link'
  BY <1>1, <1>2, <1>4, <1>5, <1>6, <1>7 DEF Link
<1>12. Teardown'
  <2>1. closer'["server"] \in {"data", "done"} => closer["server"] \in {"data", "done"}
    BY <1>1, <1>7, Names
  <2> QED
    BY <1>2, <1>4, <2>1, Names DEF IInv, Teardown
<1>13. NoLoss'
  <2> SUFFICES ASSUME Unbroken' PROVE NoLoss'
    BY DEF NoLoss
  <2>1. Unbroken /\ proc["client"] = "exit"
    <3>1. Unbroken
      BY <1>1, <1>4 DEF Unbroken
    <3>2. proc["client"] # "abort"
      BY <3>1, Names DEF Unbroken
    <3> QED
      BY <1>1, <1>6, <3>1, <3>2 DEF IInv, NoLoss
  <2>2. s = "server" /\ ok
    BY <1>1, <1>3, <2>1, Names
  <2> QED
    BY <1>1, <1>2, <1>4, <1>6, <1>10, <2>1, <2>2, Names DEF IInv, NoLoss, Unbroken
<1>14. Weaker
  BY <1>1, <1>4 DEF Weaker
<1>15. (closer'["server"] = "start") <=> (closer["server"] = "start")
  BY <1>1, <1>7, Names
<1>16. msgs'["server"] - One(recv'["server"] # "end" \/ closer'["server"] = "start")
         = msgs["server"] - One(recv["server"] # "end" \/ closer["server"] = "start")
  BY <1>1, <1>15 DEF One
<1> QED
  BY <1>1, <1>8, <1>9, <1>10, <1>11, <1>12, <1>13, <1>14, <1>16, StillInv, Names

(* The client ends when all its requests are answered: then none is on its *)
(* way, and no handler is at work.                                         *)
LEMMA ClientExitKeeps ==
  ASSUME IInv, client_exit
  PROVE  IInv'
<1>1. /\ proc["client"] = "run" /\ \A c \in Requester : pc[c] = "idle"
      /\ proc' = [proc EXCEPT !["client"] = "exit"] /\ up' = FALSE
      /\ UNCHANGED taskVars /\ UNCHANGED lockVars /\ UNCHANGED msgs /\ UNCHANGED bufs
      /\ UNCHANGED wire /\ UNCHANGED recv /\ UNCHANGED cur /\ UNCHANGED closer
      /\ UNCHANGED fd /\ UNCHANGED enabled /\ UNCHANGED losses
  BY DEF client_exit, poolVars, recvVars, faultVars
<1>2. UNCHANGED pc /\ ~up'
  BY <1>1 DEF taskVars
<1>3. TypeProc /\ Types /\ Link
  BY DEF IInv, Types
<1>4. proc'["client"] = "exit" /\ proc'["server"] = proc["server"] /\ TypeProc'
  BY <1>1, <1>3, Names DEF TypeProc
<1>5. (TypeNet /\ TypePool /\ TypeChan)'
  BY <1>1 DEF IInv, Types, TypeNet, TypePool, TypeChan
<1>6. \A p \in Side : Stream(p)' = Stream(p)
  BY <1>1, StreamSame
<1>7. Link'
  BY <1>1, <1>2, <1>3 DEF Link
<1>8. Teardown'
  BY <1>1, <1>2, <1>4 DEF IInv, Teardown
<1>9. \A t \in SeqId : pc[t] \in {"none", "done"}
  BY <1>1 DEF IInv, Handlers, HandlerPc, Stations
<1>10. Stream("server") = <<>>
  <2>1. \A f \in Fragment : ~InQueue(f, Stream("server"))
    BY <1>1 DEF IInv, Requests, RequestOf
  <2>2. Stream("server") \in Seq(Fragment)
    BY <1>3, StreamTyped, Names
  <2>3. Stream("server") # <<>> =>
          Stream("server")[1] \in Fragment /\ InQueue(Stream("server")[1], Stream("server"))
    BY <2>2 DEF InQueue
  <2> QED
    BY <2>1, <2>3
<1>11. NoLoss'
  BY <1>1, <1>2, <1>4, <1>6, <1>9, <1>10, Names DEF IInv, NoLoss, Unbroken
<1>12. Weaker
  BY <1>1, <1>2, <1>4, Names DEF Weaker
<1> QED
  BY <1>1, <1>4, <1>5, <1>6, <1>7, <1>8, <1>11, <1>12, StillInv, Names

(* The network breaks the connection. *)
LEMMA LinkDownKeeps ==
  ASSUME IInv, LinkDown
  PROVE  IInv'
<1>1. /\ up /\ losses < MaxLoss /\ up' = FALSE /\ losses' = losses + 1
      /\ UNCHANGED taskVars /\ UNCHANGED lockVars /\ UNCHANGED msgs /\ UNCHANGED bufs
      /\ UNCHANGED wire /\ UNCHANGED recv /\ UNCHANGED cur /\ UNCHANGED closer
      /\ UNCHANGED fd /\ UNCHANGED enabled /\ UNCHANGED proc
  BY DEF LinkDown, poolVars, recvVars
<1>2. UNCHANGED pc /\ ~up' /\ up' \in BOOLEAN
  BY <1>1 DEF taskVars
<1>3. losses' # 0 /\ TypeProc'
  BY <1>1, BoundAssumption DEF IInv, Types, TypeProc
<1>4. (TypeNet /\ TypePool /\ TypeChan)'
  BY <1>1, <1>2 DEF IInv, Types, TypeNet, TypePool, TypeChan
<1>5. \A p \in Side : Stream(p)' = Stream(p)
  BY <1>1, StreamSame
<1>6. Link'
  BY <1>1, <1>2 DEF IInv, Link
<1>7. Teardown' /\ NoLoss'
  BY <1>1, <1>2, <1>3 DEF IInv, Teardown, NoLoss, Unbroken
<1>8. Weaker
  BY <1>1, <1>2 DEF Weaker
<1> QED
  BY <1>1, <1>3, <1>4, <1>5, <1>6, <1>7, <1>8, StillInv, Names

(* Nothing happens. *)
LEMMA StutterKeeps ==
  ASSUME IInv, UNCHANGED vars
  PROVE  IInv'
<1>1. /\ UNCHANGED taskVars /\ UNCHANGED lockVars /\ UNCHANGED msgs /\ UNCHANGED bufs
      /\ UNCHANGED wire /\ UNCHANGED recv /\ UNCHANGED cur /\ UNCHANGED closer
      /\ UNCHANGED fd /\ UNCHANGED enabled /\ UNCHANGED proc /\ UNCHANGED up
      /\ UNCHANGED losses
  BY DEF vars, poolVars, recvVars, faultVars
<1>2. UNCHANGED pc
  BY <1>1 DEF taskVars
<1>3. (TypeNet /\ TypePool /\ TypeChan /\ TypeProc)'
  BY <1>1 DEF IInv, Types, TypeNet, TypePool, TypeChan, TypeProc
<1>4. \A p \in Side : Stream(p)' = Stream(p)
  BY <1>1, StreamSame
<1>5. Link' /\ Teardown'
  BY <1>1, <1>2 DEF IInv, Link, Teardown
<1>6. NoLoss'
  BY <1>1, <1>2, <1>4, Names DEF IInv, NoLoss, Unbroken
<1>7. Weaker
  BY <1>1 DEF Weaker
<1> QED
  BY <1>1, <1>3, <1>4, <1>5, <1>6, <1>7, StillInv, Names

-----------------------------------------------------------------------------
(* A task t that sends goes on; nothing else of the tasks changes. *)
Advance(t) ==
  /\ pc[t] \in Sending /\ pc'[t] \in {"hdr", "pay", "err", "done", "wait"}
  /\ \A u \in Task : u # t => pc'[u] = pc[u]
  /\ pc'[t] = "wait" => t \in Requester
  /\ pc'[t] = "pay" => HasPayload(msg[t])
  /\ pc[t] \in {"pay", "err"} => pc'[t] \in {"err", "done", "wait"}
  /\ t \in Requester /\ pc'[t] = "done" => proc'["client"] # "run"
  /\ UNCHANGED msg /\ UNCHANGED resp /\ UNCHANGED seqid /\ UNCHANGED hash
  /\ UNCHANGED served

(* A task that sends has a message of its direction. *)
LEMMA SenderMessage ==
  ASSUME IInv, NEW t \in Task, pc[t] \in Sending \cup {"wait", "woken", "ready", "done"}
  PROVE  /\ msg[t] \in Message /\ msg[t] # NoMsg
         /\ t \in Requester => msg[t].req
         /\ t \in SeqId => ~msg[t].req /\ msg[t].seq = t
<1>1. msg[t] \in [seq : 0..MaxSeq, kind : Kind, req : BOOLEAN] \cup {NoMsg}
  BY DEF IInv, Types, TypeTask
<1>2. CASE t \in Requester
  <2>1. HasSeq(t) /\ msg[t] # NoMsg /\ msg[t].req /\ msg[t].seq \in 1..(seqid - 1)
    BY <1>2 DEF IInv, Clients, HasSeq, Sending
  <2>2. seqid \in 1..(MaxSeq + 1) /\ MaxSeq \in Nat
    BY Names DEF IInv, Types, TypeSeq
  <2>3. msg[t].seq \in SeqId
    BY <2>1, <2>2 DEF SeqId
  <2> QED
    BY <1>1, <1>2, <2>1, <2>3, Names DEF Message
<1>3. CASE t \in SeqId
  <2>1. msg[t] # NoMsg /\ msg[t].seq = t /\ ~msg[t].req
    BY <1>3 DEF IInv, Handlers, Sending
  <2> QED
    BY <1>1, <1>3, <2>1, Names DEF Message
<1> QED
  BY <1>2, <1>3, Names

(* What every step of a sender leaves in order. *)
LEMMA AdvanceKeeps ==
  ASSUME IInv, NEW t \in Task, Advance(t), Weaker, UNCHANGED closer
  PROVE  /\ TypeSeq' /\ Clients' /\ Handlers' /\ SeqsApart'
         /\ Stations' /\ ResponseMatches' /\ HashIsOutstanding' /\ Teardown'
<1> USE DEF Advance
<1>1. TypeSeq'
  BY DEF IInv, Types, TypeSeq
<1>2. Clients'
  <2> SUFFICES ASSUME NEW c \in Requester
               PROVE  /\ pc'[c] \in ClientPc
                      /\ pc'[c] = "idle" <=> msg'[c] = NoMsg
                      /\ msg'[c] # NoMsg => msg'[c].req
                      /\ pc'[c] = "msg" => msg'[c].seq = 0
                      /\ HasSeq(c)' => msg'[c].seq \in 1..(seqid' - 1)
                      /\ pc'[c] = "pay" => HasPayload(msg'[c])
    BY DEF Clients
  <2>1. c \in Task
    BY Names
  <2>2. CASE c = t
    <3>1. HasSeq(t) /\ pc[t] # "idle"
      BY DEF HasSeq, Sending
    <3> QED
      BY <2>2, <3>1 DEF IInv, Clients, HasSeq, ClientPc, Sending
  <2>3. CASE c # t
    BY <2>1, <2>3 DEF IInv, Clients, HasSeq
  <2> QED
    BY <2>2, <2>3
<1>3. Handlers'
  <2> SUFFICES ASSUME NEW u \in SeqId
               PROVE  /\ pc'[u] \in HandlerPc
                      /\ pc'[u] # "none" => /\ u < seqid'
                                            /\ msg'[u] # NoMsg /\ msg'[u].seq = u /\ ~msg'[u].req
                      /\ pc'[u] \notin {"none", "ready"} => u \in served'
                      /\ pc'[u] = "pay" => HasPayload(msg'[u])
    BY DEF Handlers
  <2>1. u \in Task /\ u \notin Requester
    BY Names
  <2>2. CASE u = t
    BY <2>1, <2>2 DEF IInv, Handlers, HandlerPc, Sending
  <2>3. CASE u # t
    BY <2>1, <2>3 DEF IInv, Handlers
  <2> QED
    BY <2>2, <2>3
<1>4. \A c \in Requester : c \in Task /\ (HasSeq(c)' <=> HasSeq(c))
                           /\ (pc'[c] = "msg" <=> pc[c] = "msg")
  BY Names DEF HasSeq, Sending
<1>5. SeqsApart'
  <2>1. CM' = CM
    BY <1>4 DEF CM
  <2> QED
    BY <1>4, <2>1 DEF IInv, SeqsApart
<1>6. Stations'
  <2>1. ASSUME NEW c \in Requester, pc'[c] \in Sending \cup {"done"}
        PROVE  pc'[msg'[c].seq] = "none"
    <3>1. pc[c] \in Sending \cup {"done"} /\ c \in Task
      BY <2>1, Names
    <3>2. pc[msg[c].seq] = "none" /\ msg[c].seq \in SeqId
      BY <3>1, SenderMessage, Fields DEF IInv, Stations
    <3>3. msg[c].seq # t /\ msg[c].seq \in Task
      BY <3>2, Names DEF Sending
    <3> QED
      BY <3>2, <3>3
  <2>2. ASSUME NEW u \in SeqId, pc'[u] \in Sending \cup {"ready"}
        PROVE  \E c \in Requester : pc'[c] = "wait" /\ msg'[c] = AsRequest(msg'[u])
    <3>1. pc[u] \in Sending \cup {"ready"}
      BY <2>2, Names
    <3>2. PICK c \in Requester : pc[c] = "wait" /\ msg[c] = AsRequest(msg[u])
      BY <3>1 DEF IInv, Stations
    <3>3. c # t /\ c \in Task
      BY <3>2, Names DEF Sending
    <3>4. pc'[c] = "wait" /\ msg'[c] = AsRequest(msg'[u])
      BY <3>2, <3>3
    <3> QED
      BY <3>4
  <2> QED
    BY <2>1, <2>2 DEF Stations
<1>7. \A c \in Requester : pc'[c] = "woken" <=> pc[c] = "woken"
  BY Names DEF Sending
<1>8. ResponseMatches'
  BY <1>7 DEF IInv, ResponseMatches
<1>9. HashIsOutstanding'
  <2> SUFFICES ASSUME proc'["client"] = "run", enabled'["client"]
               PROVE  hash' = {msg'[c].seq : c \in {d \in Requester : pc'[d] \in Sending \cup {"wait"}}}
    BY DEF HashIsOutstanding
  <2>1. \A d \in Requester : pc'[d] \in Sending \cup {"wait"} <=> pc[d] \in Sending \cup {"wait"}
    BY Names DEF Sending
  <2>2. proc["client"] = "run" /\ enabled["client"]
    BY Names DEF Weaker
  <2>3. hash = {msg[c].seq : c \in {d \in Requester : pc[d] \in Sending \cup {"wait"}}}
    BY <2>2 DEF IInv, HashIsOutstanding
  <2> QED
    BY <2>1, <2>3
<1>10. Teardown'
  BY Names DEF IInv, Teardown, Weaker, Sending
<1> QED
  BY <1>1, <1>2, <1>3, <1>5, <1>6, <1>8, <1>9, <1>10

(* A sender that goes on is counted as before ... *)
LEMMA AdvanceSets ==
  ASSUME IInv, NEW t \in Task, Advance(t)
  PROVE  /\ (t \in Requester => pc'[t] # "done") => CA' = CA
         /\ CW' = CW /\ CP' = CP /\ CR' = CR
         /\ SW' = SW
         /\ t \in SeqId /\ pc'[t] # "done" => SA' = SA /\ SP' = SP /\ SS' = SS
         /\ t \in Requester => SA' = SA /\ SP' = SP /\ SS' = SS
<1> USE DEF Advance
<1>1. \A c \in Requester : c \in Task /\ (pc'[c] = "woken" <=> pc[c] = "woken")
  BY Names DEF Sending
<1>2. CW' = CW /\ CP' = CP /\ CR' = CR
  BY <1>1 DEF CW, CP, CR
<1>3. (t \in Requester => pc'[t] # "done") => CA' = CA
  BY Names DEF CA, Sending
<1>4. SW' = SW
  BY Names DEF SW, Sending
<1>5. t \in SeqId /\ pc'[t] # "done" => SA' = SA /\ SP' = SP /\ SS' = SS
  BY Names DEF SA, SP, SS, Sending
<1>6. t \in Requester => SA' = SA /\ SP' = SP /\ SS' = SS
  BY Names DEF SA, SP, SS
<1> QED
  BY <1>2, <1>3, <1>4, <1>5, <1>6

(* ... until it is done. *)
LEMMA DoneSets ==
  ASSUME IInv, NEW t \in SeqId, Advance(t), pc'[t] = "done"
  PROVE  /\ Cardinality(SA) \in Nat /\ Cardinality(SA) >= 1
         /\ Cardinality(SA') = Cardinality(SA) - 1
         /\ Cardinality(SP) \in Nat /\ Cardinality(SP) >= One(HasPayload(msg[t]))
         /\ Cardinality(SP') = Cardinality(SP) - One(HasPayload(msg[t]))
         /\ Cardinality(SS) \in Nat /\ Cardinality(SS) >= 1
         /\ Cardinality(SS') = Cardinality(SS) - 1
<1>1. Moved(t, SA, SA') /\ Moved(t, SP, SP') /\ Moved(t, SS, SS')
  BY HandlerMoves, Names DEF Advance
<1>2. t \in SA /\ t \notin SA' /\ t \in SS /\ t \notin SS' /\ t \notin SP'
  BY DEF SA, SS, SP, Advance, Sending
<1>3. t \in SP <=> HasPayload(msg[t])
  BY DEF SP, Advance
<1>4. CASE HasPayload(msg[t])
  BY <1>1, <1>2, <1>3, <1>4 DEF Moved, One
<1>5. CASE ~HasPayload(msg[t])
  BY <1>1, <1>2, <1>3, <1>5 DEF Moved, One
<1> QED
  BY <1>4, <1>5

-----------------------------------------------------------------------------
(* The lock of a side is not touched by the tasks of the other. *)
LEMMA LockOther ==
  ASSUME NEW s \in Side, LockOf(s), TypeLock, owner'[s] = owner[s], waiting'[s] = waiting[s],
         \A u \in Task : Home(u) = s => pc'[u] = pc[u]
  PROVE  LockOf(s)'
<1>1. owner[s] \in Task \cup {NoTask}
  BY DEF TypeLock
<1> QED
  BY <1>1 DEF LockOf

(* The owner goes on and keeps the lock. *)
LEMMA LockKept ==
  ASSUME NEW s \in Side, NEW t \in Task, Home(t) = s, LockOf(s), TypeLock,
         owner'[s] = owner[s], waiting'[s] = waiting[s], owner[s] = t,
         pc'[t] \in {"hdr", "pay", "err"}, \A u \in Task : u # t => pc'[u] = pc[u]
  PROVE  LockOf(s)'
<1>1. t # NoTask
  BY Names
<1> QED
  BY <1>1 DEF LockOf, Sending

(* What qunlock does to a lock that has an owner, seen from one side. *)
LEMMA UnlockSteps ==
  ASSUME NEW s \in Side, TypeLock, qunlock(s)
  PROVE  /\ waiting[s] = <<>> => owner'[s] = NoTask /\ waiting'[s] = <<>>
         /\ waiting[s] # <<>> => owner'[s] = Head(waiting[s]) /\ waiting'[s] = Tail(waiting[s])
         /\ \A p \in Side : p # s => owner'[p] = owner[p] /\ waiting'[p] = waiting[p]
         /\ TypeLock'
         /\ (owner'[s] = NoTask => waiting'[s] = <<>>)
         /\ Len(waiting[s]) \in Nat /\ Len(waiting'[s]) \in Nat
         /\ owner[s] # NoTask =>
              One(owner'[s] # NoTask) + Len(waiting'[s])
                = One(owner[s] # NoTask) + Len(waiting[s]) - 1
<1>1. owner \in [Side -> Task \cup {NoTask}] /\ waiting \in [Side -> Seq(Task)]
  BY DEF TypeLock
<1>2. CASE waiting[s] = <<>>
  <2>1. owner' = [owner EXCEPT ![s] = NoTask] /\ waiting' = [waiting EXCEPT ![s] = waiting[s]]
    BY <1>2 DEF qunlock
  <2>2. /\ owner'[s] = NoTask /\ waiting'[s] = <<>> /\ TypeLock'
        /\ \A p \in Side : p # s => owner'[p] = owner[p] /\ waiting'[p] = waiting[p]
    BY <1>1, <1>2, <2>1 DEF TypeLock
  <2> QED
    BY <1>2, <2>2 DEF One
<1>3. CASE waiting[s] # <<>>
  <2>1. /\ owner' = [owner EXCEPT ![s] = Head(waiting[s])]
        /\ waiting' = [waiting EXCEPT ![s] = Tail(waiting[s])]
    BY <1>3 DEF qunlock
  <2>2. /\ Head(waiting[s]) \in Task /\ Tail(waiting[s]) \in Seq(Task)
        /\ Len(waiting[s]) \in Nat /\ Len(Tail(waiting[s])) = Len(waiting[s]) - 1
        /\ Len(waiting[s]) >= 1
    BY <1>1, <1>3, TailOf
  <2>3. /\ owner'[s] = Head(waiting[s]) /\ waiting'[s] = Tail(waiting[s]) /\ TypeLock'
        /\ \A p \in Side : p # s => owner'[p] = owner[p] /\ waiting'[p] = waiting[p]
    BY <1>1, <2>1, <2>2 DEF TypeLock
  <2>4. owner'[s] # NoTask
    BY <2>2, <2>3, Names
  <2>5. Len(waiting'[s]) = Len(waiting[s]) - 1 /\ Len(waiting'[s]) \in Nat
    BY <2>2, <2>3
  <2>6. owner[s] # NoTask => One(owner'[s] # NoTask) = One(owner[s] # NoTask)
                             /\ One(owner[s] # NoTask) = 1
    BY <2>4 DEF One
  <2>7. owner[s] # NoTask => One(owner'[s] # NoTask) + Len(waiting'[s])
                               = One(owner[s] # NoTask) + Len(waiting[s]) - 1
    BY <2>2, <2>5, <2>6
  <2> QED
    BY <1>3, <2>2, <2>3, <2>4, <2>5, <2>7
<1> QED
  BY <1>2, <1>3

(* The owner hands the lock to the oldest waiter. *)
LEMMA Unlocked ==
  ASSUME NEW s \in Side, NEW t \in Task, Home(t) = s, LockOf(s), TypeLock, qunlock(s),
         owner[s] = t, pc[t] # "lock", pc'[t] \notin Sending,
         \A u \in Task : u # t => pc'[u] = pc[u]
  PROVE  LockOf(s)'
<1>1. /\ waiting[s] = <<>> => owner'[s] = NoTask /\ waiting'[s] = <<>>
      /\ waiting[s] # <<>> => owner'[s] = Head(waiting[s]) /\ waiting'[s] = Tail(waiting[s])
  BY UnlockSteps
<1>2. waiting[s] \in Seq(Task)
  BY DEF TypeLock
<1>3. \A u \in Task : u # t /\ Home(u) = s /\ pc'[u] \in Sending =>
                        pc[u] = "lock" /\ InQueue(u, waiting[s])
  BY DEF LockOf, Sending
<1>4. pc'[t] \notin {"lock", "hdr", "pay", "err"}
  BY DEF Sending
<1>5. CASE waiting[s] = <<>>
  <2>1. \A u \in Task : Home(u) = s => pc'[u] \notin {"lock", "hdr", "pay", "err"}
    BY <1>3, <1>4, <1>5, EmptyQueue DEF Sending
  <2> QED
    BY <1>1, <1>5, <2>1, EmptyQueue DEF LockOf
<1>6. CASE waiting[s] # <<>>
  <2> DEFINE h == Head(waiting[s])
  <2>1. /\ h \in Task /\ Distinct(waiting[s], Task)
        /\ \A y : InQueue(y, waiting[s]) <=> y = h \/ InQueue(y, Tail(waiting[s]))
        /\ Distinct(Tail(waiting[s]), Task) /\ ~InQueue(h, Tail(waiting[s]))
    BY <1>2, <1>6, TailOf DEF LockOf
  <2>2. owner'[s] = h /\ waiting'[s] = Tail(waiting[s])
    BY <1>1, <1>6
  <2> HIDE DEF h
  <2>3. \A u \in Task : InQueue(u, waiting[s]) => Home(u) = s /\ pc[u] = "lock" /\ u # t
    BY DEF LockOf
  <2>4. /\ Home(h) = s /\ pc'[h] = "lock" /\ h # NoTask
        /\ \A u \in Task : InQueue(u, Tail(waiting[s])) =>
             Home(u) = s /\ pc'[u] = "lock" /\ u # h
    BY <2>1, <2>3, Names
  <2>5. \A u \in Task : Home(u) = s /\ pc'[u] \in Sending =>
                          pc'[u] = "lock" /\ (u = h \/ InQueue(u, Tail(waiting[s])))
    BY <1>3, <2>1
  <2> QED
    BY <2>1, <2>2, <2>4, <2>5 DEF LockOf, Sending
<1> QED
  BY <1>5, <1>6

(* What qlock does, seen from one side. *)
LEMMA LockSteps ==
  ASSUME NEW s \in Side, NEW t \in Task, TypeLock, qlock(s, t)
  PROVE  /\ owner[s] = NoTask => owner'[s] = t /\ waiting'[s] = waiting[s]
         /\ owner[s] # NoTask => owner'[s] = owner[s] /\ waiting'[s] = Append(waiting[s], t)
         /\ \A p \in Side : p # s => owner'[p] = owner[p] /\ waiting'[p] = waiting[p]
         /\ TypeLock' /\ owner'[s] # NoTask
         /\ Len(waiting[s]) \in Nat /\ Len(waiting'[s]) \in Nat
         /\ One(owner'[s] # NoTask) + Len(waiting'[s])
                = One(owner[s] # NoTask) + Len(waiting[s]) + 1
<1>1. owner \in [Side -> Task \cup {NoTask}] /\ waiting \in [Side -> Seq(Task)]
  BY DEF TypeLock
<1>2. t # NoTask
  BY Names
<1>3. CASE owner[s] = NoTask
  <2>1. owner' = [owner EXCEPT ![s] = t] /\ waiting' = waiting
    BY <1>3 DEF qlock
  <2>2. /\ owner'[s] = t /\ waiting'[s] = waiting[s] /\ TypeLock'
        /\ \A p \in Side : p # s => owner'[p] = owner[p] /\ waiting'[p] = waiting[p]
    BY <1>1, <2>1 DEF TypeLock
  <2>3. Len(waiting[s]) \in Nat
    BY <1>1
  <2> QED
    BY <1>2, <1>3, <2>2, <2>3 DEF One
<1>4. CASE owner[s] # NoTask
  <2>1. waiting' = [waiting EXCEPT ![s] = Append(waiting[s], t)] /\ owner' = owner
    BY <1>4 DEF qlock
  <2>2. /\ Append(waiting[s], t) \in Seq(Task) /\ Len(waiting[s]) \in Nat
        /\ Len(Append(waiting[s], t)) = Len(waiting[s]) + 1
    BY <1>1
  <2>3. /\ owner'[s] = owner[s] /\ waiting'[s] = Append(waiting[s], t) /\ TypeLock'
        /\ \A p \in Side : p # s => owner'[p] = owner[p] /\ waiting'[p] = waiting[p]
    BY <1>1, <2>1, <2>2 DEF TypeLock
  <2> QED
    BY <1>4, <2>2, <2>3 DEF One
<1> QED
  BY <1>3, <1>4

(* A task takes the lock, or waits for it behind the others. *)
LEMMA LockTaken ==
  ASSUME NEW s \in Side, NEW t \in Task, Home(t) = s, LockOf(s), TypeLock, qlock(s, t),
         pc[t] \notin Sending, pc'[t] = AfterLock(s),
         \A u \in Task : u # t => pc'[u] = pc[u]
  PROVE  LockOf(s)'
<1>1. /\ owner[s] = NoTask => owner'[s] = t /\ waiting'[s] = waiting[s]
      /\ owner[s] # NoTask => owner'[s] = owner[s] /\ waiting'[s] = Append(waiting[s], t)
  BY LockSteps
<1>2. waiting[s] \in Seq(Task) /\ owner[s] \in Task \cup {NoTask} /\ t # NoTask
  BY Names DEF TypeLock
<1>3. pc[t] \notin {"lock", "hdr", "pay", "err"} /\ ~InQueue(t, waiting[s])
  BY DEF LockOf, Sending
<1>4. CASE owner[s] = NoTask
  <2>1. waiting[s] = <<>> /\ pc'[t] = "hdr"
    BY <1>4 DEF LockOf, AfterLock
  <2>2. \A u \in Task : u # t /\ Home(u) = s => pc'[u] \notin {"lock", "hdr", "pay", "err"}
    BY <1>2, <1>4, <2>1, EmptyQueue, Names DEF LockOf
  <2> QED
    BY <1>1, <1>2, <1>4, <2>1, <2>2, EmptyQueue DEF LockOf, Sending
<1>5. CASE owner[s] # NoTask
  <2>1. pc'[t] = "lock"
    BY <1>5 DEF AfterLock
  <2>2. /\ Distinct(Append(waiting[s], t), Task)
        /\ \A y : InQueue(y, Append(waiting[s], t)) <=> InQueue(y, waiting[s]) \/ y = t
    BY <1>2, <1>3, AppendTo DEF LockOf
  <2>3. owner[s] \in Task /\ owner[s] # t
    BY <1>2, <1>3, <1>5 DEF LockOf
  <2>4. owner'[s] = owner[s] /\ waiting'[s] = Append(waiting[s], t)
    BY <1>1, <1>5
  <2>5. pc'[owner[s]] \in Sending /\ Home(owner[s]) = s
    BY <1>5, <2>3 DEF LockOf
  <2>6. \A u \in Task :
       /\ InQueue(u, waiting'[s]) => Home(u) = s /\ pc'[u] = "lock" /\ owner'[s] # u
       /\ Home(u) = s /\ pc'[u] = "lock" => owner'[s] = u \/ InQueue(u, waiting'[s])
       /\ Home(u) = s /\ pc'[u] \in {"hdr", "pay", "err"} => owner'[s] = u
    <3> TAKE u \in Task
    <3>1. CASE u = t
      BY <2>1, <2>2, <2>3, <2>4, <3>1
    <3>2. CASE u # t
      BY <2>2, <2>4, <3>2 DEF LockOf
    <3> QED
      BY <3>1, <3>2
  <2> QED
    BY <1>2, <1>5, <2>2, <2>4, <2>5, <2>6 DEF LockOf
<1> QED
  BY <1>4, <1>5

-----------------------------------------------------------------------------
(* A fragment that is under way stays in order when a sender goes on. *)
LEMMA OldFragments ==
  ASSUME IInv, NEW t \in Task, Advance(t), NEW f \in Fragment
  PROVE  (RequestOf(f) => RequestOf(f)') /\ (ResponseOf(f) => ResponseOf(f)')
<1>1. f.m \in Message /\ f.m.seq \in SeqId /\ f.m.seq \in Task /\ f.m.seq \notin Requester
  BY FragmentFields, Fields, Names
<1>2. ASSUME RequestOf(f) PROVE RequestOf(f)'
  <2>1. pc'[f.m.seq] = "none"
    BY <1>1, <1>2 DEF RequestOf, Advance, Sending
  <2>2. PICK c \in Requester : /\ msg[c] = f.m /\ pc[c] \in {"pay", "err", "done", "wait"}
                               /\ Whole(f) => pc[c] = "wait"
    BY <1>2 DEF RequestOf
  <2>3. c \in Task
    BY Names
  <2>4. /\ msg'[c] = f.m /\ pc'[c] \in {"pay", "err", "done", "wait"}
        /\ Whole(f) => pc'[c] = "wait"
    <3>1. CASE c = t
      BY <2>2, <3>1 DEF Advance, Sending
    <3>2. CASE c # t
      BY <2>2, <2>3, <3>2 DEF Advance
    <3> QED
      BY <3>1, <3>2
  <2> QED
    BY <1>2, <2>1, <2>4 DEF RequestOf
<1>3. ASSUME ResponseOf(f) PROVE ResponseOf(f)'
  <2>1. /\ ~f.m.req /\ f.m = msg'[f.m.seq]
        /\ pc'[f.m.seq] \in {"pay", "err", "done"} /\ (Whole(f) => pc'[f.m.seq] = "done")
    <3>1. CASE f.m.seq = t
      BY <1>1, <1>3, <3>1 DEF ResponseOf, Advance, Sending
    <3>2. CASE f.m.seq # t
      BY <1>1, <1>3, <3>2 DEF ResponseOf, Advance
    <3> QED
      BY <3>1, <3>2
  <2>2. PICK c \in Requester : pc[c] = "wait" /\ msg[c] = AsRequest(f.m)
    BY <1>3 DEF ResponseOf
  <2>3. pc'[c] = "wait" /\ msg'[c] = AsRequest(f.m)
    BY <2>2, Names DEF Advance, Sending
  <2> QED
    BY <2>1, <2>3 DEF ResponseOf
<1> QED
  BY <1>2, <1>3

(* A sender that goes on without sending. *)
LEMMA QuietSender ==
  ASSUME IInv, NEW t \in Task, Advance(t), Weaker,
         \A s \in Side : Stream(s)' = Stream(s),
         up' => pc[t] = "lock" /\ pc'[t] = "hdr"
  PROVE  Frames' /\ Ends' /\ Requests' /\ Responses'
<1>1. Frames'
  BY DEF IInv, Frames
<1>2. Requests'
  BY OldFragments, Names DEF IInv, Requests
<1>3. Responses'
  BY OldFragments, Names DEF IInv, Responses
<1>4. Ends'
  <2> SUFFICES ASSUME up' PROVE Ends'
    BY DEF Ends
  <2>1. Ends /\ up
    BY DEF IInv, Weaker
  <2>2. \A u \in Task : pc'[u] = "pay" <=> pc[u] = "pay"
    BY DEF Advance
  <2>3. \A u \in Task : Stream(Peer(Home(u)))' = Stream(Peer(Home(u)))
    BY Names
  <2>4. UNCHANGED msg
    BY DEF Advance
  <2> QED
    BY <2>1, <2>2, <2>3, <2>4 DEF Ends
<1> QED
  BY <1>1, <1>2, <1>3, <1>4

(* The writer owns the lock of its side, so nobody else is between header  *)
(* and payload there.                                                      *)
LEMMA WriterOwns ==
  ASSUME IInv, up, NEW t \in Task, pc[t] \in {"hdr", "pay"}
  PROVE  /\ owner[Home(t)] = t /\ LockOf(Home(t))
         /\ \A u \in Task : pc[u] = "pay" /\ Home(u) = Home(t) => u = t
<1>1. Home(t) \in Side /\ (Home(t) = "client" \/ Home(t) = "server")
  BY Names
<1>2. enabled[Home(t)]
  BY <1>1 DEF IInv, Link
<1>3. LockOf(Home(t))
  BY <1>1, <1>2 DEF IInv, Locks
<1>4. \A u \in Task : pc[u] \in {"hdr", "pay", "err"} /\ Home(u) = Home(t) => owner[Home(t)] = u
  BY <1>3 DEF LockOf
<1> QED
  BY <1>3, <1>4

(* A sender writes a fragment of its message to the connection. *)
LEMMA FragmentSent ==
  ASSUME IInv, up, NEW t \in Task, Advance(t), NEW part \in {"hdr", "pay"}, pc[t] = part,
         NEW f \in Fragment, f = [m |-> msg[t], part |-> part],
         Whole(f) => pc'[t] = IF t \in Requester THEN "wait" ELSE "done",
         ~Whole(f) => pc'[t] = "pay",
         Stream(Peer(Home(t)))' = Append(Stream(Peer(Home(t))), f),
         Stream(Home(t))' = Stream(Home(t))
  PROVE  Frames' /\ Ends' /\ Requests' /\ Responses'
<1> DEFINE s == Home(t)
           d == Peer(Home(t))
           q == Stream(d)
<1>1. /\ s \in Side /\ d \in Side /\ s # d /\ Peer(d) = s /\ \A p \in Side : p = s \/ p = d
      /\ t \in Requester => s = "client" /\ d = "server"
      /\ t \in SeqId => s = "server" /\ d = "client"
      /\ t \in Requester \/ t \in SeqId
  BY Names
<1>2. /\ msg[t] \in Message /\ f.m = msg[t] /\ f.part = part
      /\ t \in Requester => msg[t].req
      /\ t \in SeqId => ~msg[t].req /\ msg[t].seq = t
  BY SenderMessage DEF Sending
<1>3. q \in Seq(Fragment)
  BY <1>1, StreamTyped DEF IInv
<1>4. \A u \in Task : pc[u] = "pay" /\ Home(u) = s => u = t
  BY WriterOwns
<1>5. Framed(q) /\ Ends
  BY <1>1 DEF IInv, Frames
<1>6. Framed(Append(q, f))
  <2>1. CASE part = "hdr"
    <3>1. \A g \in Fragment : IsLast(g, q) => Whole(g)
      <4> SUFFICES ASSUME NEW g \in Fragment, IsLast(g, q), ~Whole(g) PROVE FALSE
        OBVIOUS
      <4>1. \E u \in Task : Home(u) = s /\ pc[u] = "pay"
        BY <1>1, <1>5 DEF Ends
      <4> QED
        BY <1>4, <2>1, <4>1
    <3>2. \A g \in Fragment : InQueue(g, q) => g.m.seq # f.m.seq
      <4> SUFFICES ASSUME NEW g \in Fragment, InQueue(g, q) PROVE g.m.seq # f.m.seq
        OBVIOUS
      <4>1. CASE t \in Requester
        <5>1. RequestOf(g)
          BY <1>1, <4>1 DEF IInv, Requests
        <5>2. PICK c \in Requester : msg[c] = g.m /\ pc[c] \in {"pay", "err", "done", "wait"}
          BY <5>1 DEF RequestOf
        <5>3. c # t /\ HasSeq(c) /\ HasSeq(t)
          BY <2>1, <5>2 DEF HasSeq
        <5> QED
          BY <1>2, <4>1, <5>2, <5>3 DEF IInv, SeqsApart
      <4>2. CASE t \in SeqId
        <5>1. ResponseOf(g)
          BY <1>1, <4>2 DEF IInv, Responses
        <5> QED
          BY <1>2, <2>1, <4>2, <5>1 DEF ResponseOf
      <4> QED
        BY <1>1, <4>1, <4>2
    <3> QED
      BY <1>2, <1>3, <1>5, <2>1, <3>1, <3>2, FramedHdr
  <2>2. CASE part = "pay"
    <3>1. IsLast([m |-> f.m, part |-> "hdr"], q)
      BY <1>2, <1>5, <2>2 DEF Ends
    <3>2. HasPayload(f.m)
      BY <1>1, <1>2, <2>2 DEF IInv, Clients, Handlers
    <3> QED
      BY <1>2, <1>3, <1>5, <2>2, <3>1, <3>2, FramedPay
  <2> QED
    BY <2>1, <2>2
<1>7. Stream(d)' = Append(q, f) /\ Stream(s)' = Stream(s)
  OBVIOUS
<1> HIDE DEF q, s, d
<1>8. Frames'
  BY <1>1, <1>6, <1>7 DEF IInv, Frames
<1>9. /\ IsLast(f, Append(q, f)) /\ \A g : IsLast(g, Append(q, f)) => g = f
      /\ \A g : InQueue(g, Append(q, f)) <=> InQueue(g, q) \/ g = f
  BY <1>3, LastAppended, AppendTo
<1>10. UNCHANGED msg /\ \A u \in Task : u # t => pc'[u] = pc[u]
  BY DEF Advance
<1>11. Ends'
  <2>1. ASSUME NEW u \in Task, pc'[u] = "pay"
        PROVE  IsLast([m |-> msg'[u], part |-> "hdr"], Stream(Peer(Home(u)))')
    <3>1. CASE u = t
      <4>1. part = "hdr"
        BY <2>1, <3>1 DEF Advance
      <4> QED
        BY <1>7, <1>9, <1>10, <3>1, <4>1 DEF d
    <3>2. CASE u # t
      <4>1. pc[u] = "pay" /\ Home(u) # s
        BY <1>4, <1>10, <2>1, <3>2
      <4>2. Home(u) = d /\ Peer(Home(u)) = s
        BY <1>1, <4>1, Names DEF s, d
      <4>3. IsLast([m |-> msg[u], part |-> "hdr"], Stream(Peer(Home(u))))
        BY <1>5, <4>1 DEF Ends
      <4> QED
        BY <1>7, <1>10, <4>2, <4>3
    <3> QED
      BY <3>1, <3>2
  <2>2. ASSUME NEW p \in Side, NEW g \in Fragment, IsLast(g, Stream(p)'), ~Whole(g)
        PROVE  \E u \in Task : Home(u) = Peer(p) /\ pc'[u] = "pay"
    <3>1. CASE p = d
      <4>1. g = f
        BY <1>7, <1>9, <2>2, <3>1
      <4>2. Home(t) = Peer(p) /\ pc'[t] = "pay"
        BY <1>1, <2>2, <3>1, <4>1 DEF s
      <4> QED
        BY <4>2
    <3>2. CASE p = s
      <4>1. PICK u \in Task : Home(u) = Peer(p) /\ pc[u] = "pay"
        BY <1>5, <1>7, <2>2, <3>2 DEF Ends
      <4>2. u # t
        BY <1>1, <3>2, <4>1 DEF s, d
      <4> QED
        BY <1>10, <4>1, <4>2
    <3> QED
      BY <1>1, <3>1, <3>2
  <2>3. \A p \in Side, g \in Fragment : IsLast(g, Stream(p)') /\ ~Whole(g) =>
          \E u \in Task : Home(u) = Peer(p) /\ pc'[u] = "pay"
    BY <2>2
  <2>4. \A u \in Task : pc'[u] = "pay" =>
          IsLast([m |-> msg'[u], part |-> "hdr"], Stream(Peer(Home(u)))')
    BY <2>1
  <2> QED
    BY <2>3, <2>4 DEF Ends
<1>12. \A u \in Requester : u \in SeqId => FALSE
  BY Names
<1>13. Requests'
  <2> SUFFICES ASSUME NEW g \in Fragment, InQueue(g, Stream("server")') PROVE RequestOf(g)'
    BY DEF Requests
  <2>1. CASE InQueue(g, Stream("server"))
    BY <2>1, OldFragments DEF IInv, Requests
  <2>2. CASE ~InQueue(g, Stream("server"))
    <3>1. g = f /\ t \in Requester
      BY <1>1, <1>7, <1>9, <2>2, Names DEF q
    <3>2. pc[f.m.seq] = "none" /\ f.m.seq \in Task /\ f.m.req
      BY <1>2, <3>1, Fields, Names DEF IInv, Stations, Sending
    <3>3. pc'[f.m.seq] = "none"
      BY <1>10, <3>2
    <3>4. /\ msg'[t] = f.m /\ pc'[t] \in {"pay", "err", "done", "wait"}
          /\ Whole(f) => pc'[t] = "wait"
      BY <1>2, <1>10, <3>1
    <3> QED
      BY <3>1, <3>2, <3>3, <3>4 DEF RequestOf
  <2> QED
    BY <2>1, <2>2
<1>14. Responses'
  <2> SUFFICES ASSUME NEW g \in Fragment, InQueue(g, Stream("client")') PROVE ResponseOf(g)'
    BY DEF Responses
  <2>1. CASE InQueue(g, Stream("client"))
    BY <2>1, OldFragments DEF IInv, Responses
  <2>2. CASE ~InQueue(g, Stream("client"))
    <3>1. g = f /\ t \in SeqId /\ t \notin Requester
      BY <1>1, <1>7, <1>9, <2>2, Names DEF q
    <3>2. PICK c \in Requester : pc[c] = "wait" /\ msg[c] = AsRequest(msg[t])
      BY <3>1 DEF IInv, Stations, Sending
    <3>3. pc'[c] = "wait" /\ msg'[c] = AsRequest(f.m)
      BY <1>2, <1>10, <3>2, Names
    <3>4. /\ ~f.m.req /\ f.m = msg'[f.m.seq] /\ pc'[f.m.seq] \in {"pay", "err", "done"}
          /\ Whole(f) => pc'[f.m.seq] = "done"
      BY <1>2, <1>10, <3>1
    <3> QED
      BY <3>1, <3>3, <3>4 DEF ResponseOf
  <2> QED
    BY <2>1, <2>2
<1> QED
  BY <1>8, <1>11, <1>13, <1>14

-----------------------------------------------------------------------------
(* A sender goes on with the lock it has. *)
LEMMA LocksKept ==
  ASSUME IInv, NEW t \in Task, Advance(t), Weaker, UNCHANGED lockVars,
         pc'[t] \in {"hdr", "pay", "err"},
         pc[t] = "lock" => ~InQueue(t, waiting[Home(t)])
  PROVE  Locks' /\ TypeLock'
<1>1. UNCHANGED owner /\ UNCHANGED waiting /\ TypeLock /\ Locks
  BY DEF lockVars, IInv, Types
<1>2. TypeLock'
  BY <1>1 DEF TypeLock
<1>3. \A u \in Task : u # t => pc'[u] = pc[u]
  BY DEF Advance
<1>4. \A s \in Side : LockOf(s) => LockOf(s)'
  <2> SUFFICES ASSUME NEW s \in Side, LockOf(s) PROVE LockOf(s)'
    OBVIOUS
  <2>1. CASE Home(t) = s
    <3>1. owner[s] = t
      BY <2>1 DEF LockOf, Advance, Sending
    <3> QED
      BY <1>1, <1>3, <2>1, <3>1, LockKept
  <2>2. CASE Home(t) # s
    BY <1>1, <1>3, <2>2, LockOther
  <2> QED
    BY <2>1, <2>2
<1>5. SS' = SS
  BY AdvanceSets, Names
<1> QED
  BY <1>1, <1>2, <1>4, <1>5, Names DEF Locks, Weaker

(* A sender is done and hands on the lock. *)
LEMMA LocksUnlocked ==
  ASSUME IInv, NEW t \in Task, Advance(t), Weaker, qunlock(Home(t)),
         pc[t] \in {"hdr", "pay", "err"}, pc'[t] \in {"wait", "done"},
         t \in SeqId /\ proc'["server"] = "run" => owner["server"] # NoTask
  PROVE  Locks' /\ TypeLock'
<1>1. TypeLock /\ Locks
  BY DEF IInv, Types
<1>2. Home(t) \in Side
  BY Names
<1>3. /\ \A p \in Side : p # Home(t) => owner'[p] = owner[p] /\ waiting'[p] = waiting[p]
      /\ TypeLock'
  BY <1>1, <1>2, UnlockSteps
<1>4. \A u \in Task : u # t => pc'[u] = pc[u]
  BY DEF Advance
<1>5. \A s \in Side : LockOf(s) => LockOf(s)'
  <2> SUFFICES ASSUME NEW s \in Side, LockOf(s) PROVE LockOf(s)'
    OBVIOUS
  <2>1. CASE Home(t) = s
    <3>1. owner[s] = t /\ pc[t] # "lock" /\ pc'[t] \notin Sending
      BY <2>1 DEF LockOf, Sending
    <3> QED
      BY <1>1, <1>4, <2>1, <3>1, Unlocked
  <2>2. CASE Home(t) # s
    BY <1>1, <1>3, <1>4, <2>2, LockOther
  <2> QED
    BY <2>1, <2>2
<1>6. proc'["server"] = "run" =>
       /\ owner'["server"] = NoTask => waiting'["server"] = <<>>
       /\ One(owner'["server"] # NoTask) + Len(waiting'["server"]) <= Cardinality(SS')
  <2> SUFFICES ASSUME proc'["server"] = "run"
               PROVE  /\ owner'["server"] = NoTask => waiting'["server"] = <<>>
                      /\ One(owner'["server"] # NoTask) + Len(waiting'["server"])
                           <= Cardinality(SS')
    OBVIOUS
  <2>1. /\ owner["server"] = NoTask => waiting["server"] = <<>>
        /\ One(owner["server"] # NoTask) + Len(waiting["server"]) <= Cardinality(SS)
    BY <1>1, Names DEF Locks, Weaker
  <2>2. CASE t \in Requester
    <3>1. SS' = SS /\ Home(t) # "server"
      BY <2>2, AdvanceSets, Names
    <3>2. owner'["server"] = owner["server"] /\ waiting'["server"] = waiting["server"]
      BY <1>3, <3>1, Names
    <3> QED
      BY <2>1, <3>1, <3>2
  <2>3. CASE t \in SeqId
    <3>1. pc'[t] = "done" /\ Home(t) = "server" /\ owner["server"] # NoTask
      BY <2>3, Names DEF Advance
    <3>2. Cardinality(SS) \in Nat /\ Cardinality(SS') = Cardinality(SS) - 1
      BY <2>3, <3>1, DoneSets
    <3>3. /\ (owner'["server"] = NoTask => waiting'["server"] = <<>>)
          /\ Len(waiting["server"]) \in Nat
          /\ One(owner'["server"] # NoTask) + Len(waiting'["server"])
                = One(owner["server"] # NoTask) + Len(waiting["server"]) - 1
      BY <1>1, <3>1, UnlockSteps, Names
    <3>4. One(owner["server"] # NoTask) = 1
      BY <3>1 DEF One
    <3> QED
      BY <2>1, <3>2, <3>3, <3>4
  <2> QED
    BY <2>2, <2>3, Names
<1> QED
  BY <1>1, <1>3, <1>5, <1>6, Names DEF Locks, Weaker

(* The pools of a sender that goes on, and of a handler that is done. *)
LEMMA SenderCounts ==
  ASSUME IInv, NEW t \in Task, Advance(t), Weaker, UNCHANGED closer, UNCHANGED recv,
         proc[Home(t)] = "run",
         \/ t \in SeqId /\ pc'[t] = "done" /\ rpc_msg_put(t)
         \/ (t \in SeqId => pc'[t] # "done") /\ UNCHANGED msgs /\ UNCHANGED bufs
  PROVE  ClientCounts' /\ ServerCounts' /\ TypePool'
<1>0. TypePool /\ ClientCounts /\ ServerCounts
  BY DEF IInv, Types
<1>1. /\ CW' = CW /\ CP' = CP /\ CR' = CR /\ SW' = SW
      /\ (t \in Requester => pc'[t] # "done") => CA' = CA
  BY AdvanceSets
<1>2. ASSUME msgs'["client"] = msgs["client"], bufs'["client"] = bufs["client"]
      PROVE  ClientCounts'
  <2> SUFFICES ASSUME proc'["client"] = "run" PROVE ClientCounts'
    BY DEF ClientCounts
  <2>1. CA' = CA /\ proc["client"] = "run"
    BY <1>1, Names DEF Advance, Weaker
  <2> QED
    BY <1>0, <1>1, <1>2, <2>1 DEF ClientCounts
<1>3. CASE t \in SeqId /\ pc'[t] = "done" /\ rpc_msg_put(t)
  <2> DEFINE k == One(HasPayload(msg[t]))
  <2>1. /\ msgs' = [msgs EXCEPT !["server"] = @ - 1]
        /\ bufs' = [bufs EXCEPT !["server"] = @ - k]
        /\ k \in {0, 1}
    BY <1>3 DEF rpc_msg_put, One
  <2> HIDE DEF k
  <2>2. /\ Cardinality(SA) \in Nat /\ Cardinality(SA) >= 1
        /\ Cardinality(SA') = Cardinality(SA) - 1
        /\ Cardinality(SP) \in Nat /\ Cardinality(SP) >= k
        /\ Cardinality(SP') = Cardinality(SP) - k
    BY <1>3, DoneSets DEF k
  <2>3. proc["server"] = "run"
    BY <1>3, Names
  <2> DEFINE a == One(recv["server"] # "end" \/ closer["server"] = "start")
             b == One(recv["server"] = "pay")
  <2>4. a \in {0, 1} /\ b \in {0, 1} /\ Cardinality(SW) \in Nat
    BY CountTypes DEF One
  <2>5. /\ msgs["server"] = a + Cardinality(SA)
        /\ bufs["server"] = b + Cardinality(SW) + Cardinality(SP)
    BY <1>0, <2>3 DEF ServerCounts
  <2> HIDE DEF a, b
  <2>6. /\ msgs'["server"] = msgs["server"] - 1 /\ bufs'["server"] = bufs["server"] - k
        /\ msgs'["client"] = msgs["client"] /\ bufs'["client"] = bufs["client"]
    BY <1>0, <2>1, Names DEF TypePool
  <2>7. msgs["server"] - 1 \in Nat /\ bufs["server"] - k \in Nat
    BY <2>1, <2>2, <2>4, <2>5
  <2>8. TypePool'
    BY <1>0, <2>1, <2>7, Names DEF TypePool
  <2>9. /\ msgs'["server"] = a + Cardinality(SA')
        /\ bufs'["server"] = b + Cardinality(SW') + Cardinality(SP')
    BY <1>1, <2>1, <2>2, <2>4, <2>5, <2>6
  <2>10. ServerCounts'
    BY <2>9 DEF ServerCounts, a, b
  <2> QED
    BY <1>2, <2>6, <2>8, <2>10
<1>4. CASE (t \in SeqId => pc'[t] # "done") /\ UNCHANGED msgs /\ UNCHANGED bufs
  <2>1. SA' = SA /\ SP' = SP /\ TypePool'
    BY <1>0, <1>4, AdvanceSets, Names DEF TypePool
  <2>2. ServerCounts'
    BY <1>0, <1>1, <1>4, <2>1, Names DEF ServerCounts, Weaker
  <2> QED
    BY <1>2, <1>4, <2>1, <2>2
<1> QED
  BY <1>3, <1>4

(* A sender of a running process on a connection that was not lost finds   *)
(* it up.                                                                  *)
LEMMA SenderNoLoss ==
  ASSUME IInv, NEW t \in Task, pc[t] \in Sending, proc[Home(t)] = "run", UNCHANGED losses,
         Weaker, up => up' /\ proc' = proc
  PROVE  NoLoss' /\ (Unbroken => up)
<1>1. Unbroken => up
  BY Names DEF IInv, NoLoss, Sending
<1>2. Unbroken' => Unbroken
  BY DEF Unbroken, Weaker
<1> QED
  BY <1>1, <1>2 DEF IInv, NoLoss

(* The connection and the descriptors are left alone. *)
LEMMA LinkKept ==
  ASSUME IInv, UNCHANGED fd, UNCHANGED enabled, UNCHANGED closer, UNCHANGED recv,
         UNCHANGED cur, up' => up /\ proc' = proc,
         \A u \in Task : pc'[u] = "err" => pc[u] = "err"
  PROVE  Link'
BY DEF IInv, Link

(* What a step of a sender has to keep besides. *)
LEMMA SenderInv ==
  ASSUME IInv, NEW t \in Task, Advance(t), Weaker, UNCHANGED closer,
         pc' \in [Task -> {"idle", "msg", "wait", "woken", "none", "ready", "done"}
                            \cup Sending],
         (TypeNet /\ TypeLock /\ TypePool /\ TypeChan /\ TypeProc)',
         (Link /\ Locks /\ Frames /\ Ends /\ Requests /\ Responses)',
         (ClientCounts /\ ServerCounts /\ NoLoss)'
  PROVE  IInv'
<1>1. TypeTask'
  BY DEF IInv, Types, TypeTask, Advance
<1>2. /\ TypeSeq' /\ Clients' /\ Handlers' /\ SeqsApart'
      /\ Stations' /\ ResponseMatches' /\ HashIsOutstanding' /\ Teardown'
  BY AdvanceKeeps
<1> QED
  BY <1>1, <1>2 DEF IInv, Types

(* A task moves. *)
LEMMA PcStep ==
  ASSUME IInv, NEW t \in Task,
         NEW x \in {"idle", "msg", "wait", "woken", "none", "ready", "done"} \cup Sending,
         pc' = [pc EXCEPT ![t] = x]
  PROVE  /\ pc'[t] = x /\ \A u \in Task : u # t => pc'[u] = pc[u]
         /\ pc' \in [Task -> {"idle", "msg", "wait", "woken", "none", "ready", "done"}
                               \cup Sending]
BY DEF IInv, Types, TypeTask

-----------------------------------------------------------------------------
(* task_netwrite: the fragment is sent, or lost with the connection. *)
LEMMA WriteKeeps ==
  ASSUME IInv, NEW t \in Task, Advance(t), Weaker, NEW part \in {"hdr", "pay"},
         task_netwrite(t, part), UNCHANGED recv, UNCHANGED cur,
         Whole([m |-> msg[t], part |-> part]) =>
           pc'[t] = IF t \in Requester THEN "wait" ELSE "done",
         ~Whole([m |-> msg[t], part |-> part]) => pc'[t] = "pay"
  PROVE  TypeNet' /\ Frames' /\ Ends' /\ Requests' /\ Responses'
<1> DEFINE s == Home(t)
           d == Peer(Home(t))
           f == [m |-> msg[t], part |-> part]
<1>1. s \in Side /\ d \in Side /\ s # d /\ \A p \in Side : p = s \/ p = d
  BY Names
<1>2. pc[t] = part /\ msg[t] \in Message
  BY SenderMessage DEF task_netwrite, Sending
<1>3. f \in Fragment
  BY <1>2 DEF Fragment
<1>4. TypeNet /\ Types /\ Link
  BY DEF IInv, Types
<1>5. CASE up
  <2>1. wire' = [wire EXCEPT ![d] = Append(wire[d], f)]
    BY <1>5 DEF task_netwrite
  <2>2. wire[d] \in Seq(Fragment) /\ Append(wire[d], f) \in Seq(Fragment)
    BY <1>1, <1>3, <1>4 DEF TypeNet
  <2> HIDE DEF f, s, d
  <2>3. /\ wire' \in [Side -> Seq(Fragment)] /\ wire'[d] = Append(wire[d], f)
        /\ wire'[s] = wire[s]
    BY <1>1, <1>4, <2>1, <2>2 DEF TypeNet
  <2>4. TypeNet'
    BY <1>4, <2>3 DEF TypeNet
  <2>5. Stream(d)' = Append(Stream(d), f)
    BY <1>1, <1>3, <1>4, <1>5, <2>3, StreamSent
  <2>6. Stream(s)' = Stream(s)
    BY <1>1, <2>3, StreamSame
  <2>7. Frames' /\ Ends' /\ Requests' /\ Responses'
    BY <1>2, <1>3, <1>5, <2>5, <2>6, FragmentSent DEF f, s, d
  <2> QED
    BY <2>4, <2>7
<1>6. CASE ~up
  <2>1. wire' = wire
    BY <1>6 DEF task_netwrite
  <2>2. TypeNet'
    BY <1>4, <2>1 DEF TypeNet
  <2>3. \A p \in Side : Stream(p)' = Stream(p)
    BY <2>1, StreamSame
  <2>4. ~up'
    BY <1>6 DEF Weaker
  <2> QED
    BY <2>2, <2>3, <2>4, QuietSender
<1> QED
  BY <1>5, <1>6

(* A waiter resumes. *)
LEMMA WakeupKeeps ==
  ASSUME IInv, NEW t \in Task, qlock_wakeup(t)
  PROVE  IInv' /\ (up => proc' = proc)
<1> DEFINE s == Home(t)
<1>1. /\ proc[s] = "run" /\ pc[t] = "lock" /\ ~InQueue(t, waiting[s])
      /\ pc' = [pc EXCEPT ![t] = "hdr"] /\ Assert(s, owner[s] = t)
      /\ UNCHANGED msg /\ UNCHANGED resp /\ UNCHANGED seqid /\ UNCHANGED hash
      /\ UNCHANGED served /\ UNCHANGED wire /\ UNCHANGED fd /\ UNCHANGED enabled
      /\ UNCHANGED lockVars /\ UNCHANGED msgs /\ UNCHANGED bufs /\ UNCHANGED recv
      /\ UNCHANGED cur /\ UNCHANGED closer /\ UNCHANGED losses
  BY DEF qlock_wakeup, poolVars, recvVars, InQueue, faultVars
<1>2. s \in Side /\ (s = "client" \/ s = "server")
  BY Names
<1>3. "hdr" \in {"idle", "msg", "wait", "woken", "none", "ready", "done"} \cup Sending
  BY DEF Sending
<1>4. /\ pc'[t] = "hdr" /\ \A u \in Task : u # t => pc'[u] = pc[u]
      /\ pc' \in [Task -> {"idle", "msg", "wait", "woken", "none", "ready", "done"}
                            \cup Sending]
  BY <1>1, <1>3, PcStep
<1>5. Advance(t)
  BY <1>1, <1>4 DEF Advance, Sending
<1>6. PICK ok \in BOOLEAN : (ok <=> owner[s] = t) /\ Assert(s, ok)
  BY <1>1
<1>7. up => ok
  <2> SUFFICES ASSUME up PROVE ok
    OBVIOUS
  <2>1. LockOf(s)
    BY <1>2 DEF IInv, Link, Locks
  <2> QED
    BY <1>1, <1>6, <2>1 DEF LockOf
<1>8. /\ TypeProc => proc' \in [Side -> {"run", "abort", "exit"}]
      /\ up' \in BOOLEAN
      /\ ok => proc' = proc /\ (up' <=> up)
      /\ \A p \in Side : (proc'[p] = "run" => proc[p] = "run")
                         /\ (proc[p] = "abort" => proc'[p] = "abort")
      /\ up' => up
  BY <1>1, <1>2, <1>6, AssertFacts
<1> HIDE DEF s
<1>9. Weaker
  BY <1>1, <1>8 DEF Weaker
<1>10. TypeNet' /\ TypeChan' /\ TypeProc'
  BY <1>1, <1>8 DEF IInv, Types, TypeNet, TypeChan, TypeProc
<1>11. Link'
  BY <1>1, <1>4, <1>7, <1>8, LinkKept
<1>12. Locks' /\ TypeLock'
  BY <1>1, <1>4, <1>5, <1>9, LocksKept DEF s
<1>13. ClientCounts' /\ ServerCounts' /\ TypePool'
  BY <1>1, <1>4, <1>5, <1>9, SenderCounts DEF s
<1>14. NoLoss'
  BY <1>1, <1>7, <1>8, <1>9, SenderNoLoss DEF s, Sending
<1>15. \A p \in Side : Stream(p)' = Stream(p)
  BY <1>1, StreamSame
<1>16. Frames' /\ Ends' /\ Requests' /\ Responses'
  BY <1>1, <1>4, <1>5, <1>9, <1>15, QuietSender
<1>50. IInv'
  BY <1>1, <1>4, <1>5, <1>9, <1>10, <1>11, <1>12, <1>13, <1>14, <1>16, SenderInv
<1> QED
  BY <1>7, <1>8, <1>50

(* A header is sent, and a payload will follow. *)
LEMMA SendHdrKeeps ==
  ASSUME IInv, NEW t \in Task, SendHdr(t)
  PROVE  IInv' /\ (up => proc' = proc)
<1> DEFINE s == Home(t)
<1>1. /\ task_netwrite(t, "hdr") /\ HasPayload(msg[t])
      /\ proc[s] = "run" /\ pc[t] = "hdr"
      /\ pc' = [pc EXCEPT ![t] = "pay"]
      /\ UNCHANGED msg /\ UNCHANGED resp /\ UNCHANGED seqid /\ UNCHANGED hash
      /\ UNCHANGED served /\ UNCHANGED fd /\ UNCHANGED enabled /\ UNCHANGED up
      /\ UNCHANGED lockVars /\ UNCHANGED msgs /\ UNCHANGED bufs /\ UNCHANGED recv
      /\ UNCHANGED cur /\ UNCHANGED closer /\ UNCHANGED losses /\ UNCHANGED proc
  BY DEF SendHdr, task_netwrite, poolVars, recvVars, faultVars
<1>3. "pay" \in {"idle", "msg", "wait", "woken", "none", "ready", "done"} \cup Sending
  BY DEF Sending
<1>4. /\ pc'[t] = "pay" /\ \A u \in Task : u # t => pc'[u] = pc[u]
      /\ pc' \in [Task -> {"idle", "msg", "wait", "woken", "none", "ready", "done"}
                            \cup Sending]
  BY <1>1, <1>3, PcStep
<1>5. Advance(t)
  BY <1>1, <1>4 DEF Advance, Sending
<1>9. Weaker
  BY <1>1 DEF Weaker
<1>10. TypeChan' /\ TypeProc'
  BY <1>1 DEF IInv, Types, TypeChan, TypeProc
<1>11. Link'
  BY <1>1, <1>4, LinkKept
<1>12. Locks' /\ TypeLock'
  BY <1>1, <1>4, <1>5, <1>9, LocksKept
<1>13. ClientCounts' /\ ServerCounts' /\ TypePool'
  BY <1>1, <1>4, <1>5, <1>9, SenderCounts
<1>14. NoLoss'
  BY <1>1, <1>9, SenderNoLoss DEF Sending
<1>15. ~Whole([m |-> msg[t], part |-> "hdr"])
  BY <1>1 DEF Whole
<1>16. TypeNet' /\ Frames' /\ Ends' /\ Requests' /\ Responses'
  BY <1>1, <1>4, <1>5, <1>9, <1>15, WriteKeeps
<1>50. IInv'
  BY <1>1, <1>4, <1>5, <1>9, <1>10, <1>11, <1>12, <1>13, <1>14, <1>16, SenderInv
<1> QED
  BY <1>1, <1>50

(* The last fragment of a message is sent. *)
LEMMA SendLastKeeps ==
  ASSUME IInv, NEW t \in Task, SendLast(t)
  PROVE  IInv' /\ (up => proc' = proc)
<1> DEFINE s == Home(t)
           x == IF t \in Requester THEN "wait" ELSE "done"
<1>1. /\ qunlock(s) /\ Assert(s, owner[s] # NoTask)
      /\ s = "client" => pc' = [pc EXCEPT ![t] = "wait"] /\ UNCHANGED poolVars
      /\ s # "client" => pc' = [pc EXCEPT ![t] = "done"] /\ rpc_msg_put(t)
      /\ UNCHANGED msg /\ UNCHANGED resp /\ UNCHANGED seqid /\ UNCHANGED hash
      /\ UNCHANGED served /\ UNCHANGED fd /\ UNCHANGED enabled
      /\ UNCHANGED recv /\ UNCHANGED cur /\ UNCHANGED closer /\ UNCHANGED losses
  BY DEF SendLast, recvVars, faultVars
<1>2. PICK part \in {"hdr", "pay"} :
        task_netwrite(t, part) /\ (part = "hdr" => ~HasPayload(msg[t]))
  BY DEF SendLast
<1>3. proc[s] = "run" /\ pc[t] = part
  BY <1>2 DEF task_netwrite
<1>4. s \in Side /\ (s = "client" <=> t \in Requester) /\ (s # "client" <=> t \in SeqId)
      /\ (t \in SeqId <=> t \notin Requester) /\ (t \in SeqId => s = "server")
  BY Names
<1>5. x \in {"idle", "msg", "wait", "woken", "none", "ready", "done"} \cup Sending
  BY DEF Sending
<1>6. pc' = [pc EXCEPT ![t] = x]
  BY <1>1, <1>4
<1>7. /\ pc'[t] = x /\ \A u \in Task : u # t => pc'[u] = pc[u]
      /\ pc' \in [Task -> {"idle", "msg", "wait", "woken", "none", "ready", "done"}
                            \cup Sending]
  BY <1>5, <1>6, PcStep
<1>8. pc'[t] \in {"wait", "done"} /\ (pc'[t] = "wait" <=> t \in Requester)
  BY <1>7
<1>9. Advance(t)
  BY <1>1, <1>2, <1>3, <1>7, <1>8 DEF Advance, Sending
<1>10. PICK ok \in BOOLEAN : (ok <=> owner[s] # NoTask) /\ Assert(s, ok)
  BY <1>1
<1>11. up => ok
  BY <1>3, <1>10, WriterOwns, Names
<1>12. /\ TypeProc => proc' \in [Side -> {"run", "abort", "exit"}]
       /\ up' \in BOOLEAN
       /\ ok => proc' = proc /\ (up' <=> up)
       /\ \A p \in Side : (proc'[p] = "run" => proc[p] = "run")
                         /\ (proc[p] = "abort" => proc'[p] = "abort")
       /\ proc'[s] = "run" <=> ok
       /\ up' => up
  BY <1>3, <1>4, <1>10, AssertFacts
<1> HIDE DEF s, x
<1>13. Weaker
  BY <1>1, <1>12 DEF Weaker
<1>14. TypeChan' /\ TypeProc'
  BY <1>1, <1>12 DEF IInv, Types, TypeChan, TypeProc
<1>15. Link'
  BY <1>1, <1>7, <1>8, <1>11, <1>12, LinkKept
<1>16. t \in SeqId /\ proc'["server"] = "run" => owner["server"] # NoTask
  BY <1>4, <1>10, <1>12
<1>17. Locks' /\ TypeLock'
  BY <1>1, <1>3, <1>8, <1>9, <1>13, <1>16, LocksUnlocked DEF s
<1>18. ClientCounts' /\ ServerCounts' /\ TypePool'
  BY <1>1, <1>3, <1>4, <1>8, <1>9, <1>13, SenderCounts DEF s, poolVars
<1>19. NoLoss'
  BY <1>1, <1>3, <1>11, <1>12, <1>13, SenderNoLoss DEF s, Sending
<1>20. Whole([m |-> msg[t], part |-> part])
  BY <1>2 DEF Whole
<1>21. pc'[t] = IF t \in Requester THEN "wait" ELSE "done"
  BY <1>7 DEF x
<1>22. TypeNet' /\ Frames' /\ Ends' /\ Requests' /\ Responses'
  BY <1>1, <1>2, <1>9, <1>13, <1>20, <1>21, WriteKeeps
<1>50. IInv'
  BY <1>1, <1>7, <1>9, <1>13, <1>14, <1>15, <1>17, <1>18, <1>19, <1>22, SenderInv
<1> QED
  BY <1>11, <1>12, <1>50

(* A write fails. *)
LEMMA SendFailKeeps ==
  ASSUME IInv, NEW t \in Task, SendFail(t)
  PROVE  IInv' /\ (up => proc' = proc)
<1> DEFINE s == Home(t)
<1>1. /\ proc[s] = "run" /\ pc[t] \in {"hdr", "pay"} /\ ~(up /\ fd[s])
      /\ pc' = [pc EXCEPT ![t] = "err"]
      /\ enabled' = [enabled EXCEPT ![s] = FALSE] /\ fd' = [fd EXCEPT ![s] = FALSE]
      /\ up' = FALSE
      /\ UNCHANGED msg /\ UNCHANGED resp /\ UNCHANGED seqid /\ UNCHANGED hash
      /\ UNCHANGED served /\ UNCHANGED wire
      /\ UNCHANGED lockVars /\ UNCHANGED msgs /\ UNCHANGED bufs /\ UNCHANGED recv
      /\ UNCHANGED cur /\ UNCHANGED closer /\ UNCHANGED losses /\ UNCHANGED proc
  BY DEF SendFail, rpc_chan_close, poolVars, recvVars, faultVars
<1>2. s \in Side
  BY Names
<1>3. "err" \in {"idle", "msg", "wait", "woken", "none", "ready", "done"} \cup Sending
  BY DEF Sending
<1>4. /\ pc'[t] = "err" /\ \A u \in Task : u # t => pc'[u] = pc[u]
      /\ pc' \in [Task -> {"idle", "msg", "wait", "woken", "none", "ready", "done"}
                            \cup Sending]
  BY <1>1, <1>3, PcStep
<1>5. Advance(t)
  BY <1>1, <1>4 DEF Advance, Sending
<1>6. ~up /\ ~up' /\ TypeChan /\ Link
  BY <1>1, <1>2 DEF IInv, Link, Types
<1>7. /\ \A p \in Side : p # s => enabled'[p] = enabled[p] /\ fd'[p] = fd[p]
      /\ enabled'[s] = FALSE /\ fd'[s] = FALSE
      /\ enabled' \in [Side -> BOOLEAN] /\ fd' \in [Side -> BOOLEAN] /\ up' \in BOOLEAN
  BY <1>1, <1>2, <1>6 DEF TypeChan
<1>8. Weaker
  BY <1>1, <1>6, <1>7 DEF Weaker
<1>10. TypeNet' /\ TypeChan' /\ TypeProc'
  BY <1>1, <1>7 DEF IInv, Types, TypeNet, TypeChan, TypeProc
<1>11. Link'
  <2>1. \A p \in Side :
       /\ enabled'[p] => fd'[p] /\ closer'[p] = "none"
       /\ closer'[p] = "none" <=> recv'[p] # "end"
       /\ fd'[p] /\ ~enabled'[p] => recv'[p] = "end"
       /\ cur'[p] # NoMsg <=> recv'[p] \in {"buf", "pay"}
       /\ cur'[p] # NoMsg => HasPayload(cur'[p])
    BY <1>1, <1>6, <1>7 DEF Link
  <2>2. \A u \in Task : pc'[u] = "err" => ~fd'[Home(u)]
    <3> SUFFICES ASSUME NEW u \in Task, pc'[u] = "err" PROVE ~fd'[Home(u)]
      OBVIOUS
    <3>1. CASE Home(u) = s
      BY <1>7, <3>1
    <3>2. CASE Home(u) # s
      <4>1. u # t /\ Home(u) \in Side
        BY <3>2, Names
      <4>2. pc[u] = "err" /\ fd'[Home(u)] = fd[Home(u)]
        BY <1>4, <1>7, <3>2, <4>1
      <4> QED
        BY <1>6, <4>2 DEF Link
    <3> QED
      BY <3>1, <3>2
  <2> QED
    BY <1>6, <2>1, <2>2 DEF Link
<1>12. Locks' /\ TypeLock'
  BY <1>1, <1>4, <1>5, <1>8, LocksKept
<1>13. ClientCounts' /\ ServerCounts' /\ TypePool'
  BY <1>1, <1>4, <1>5, <1>8, SenderCounts
<1>14. NoLoss'
  BY <1>1, <1>6, <1>8, SenderNoLoss DEF Sending
<1>15. \A p \in Side : Stream(p)' = Stream(p)
  BY <1>1, StreamSame
<1>16. Frames' /\ Ends' /\ Requests' /\ Responses'
  BY <1>5, <1>6, <1>8, <1>15, QuietSender
<1>50. IInv'
  BY <1>1, <1>4, <1>5, <1>8, <1>10, <1>11, <1>12, <1>13, <1>14, <1>16, SenderInv
<1> QED
  BY <1>1, <1>50

(* ... and the lock is handed on. *)
LEMMA SendErrorKeeps ==
  ASSUME IInv, NEW t \in Task, SendError(t)
  PROVE  IInv' /\ (up => proc' = proc)
<1> DEFINE s == Home(t)
<1>1. /\ proc[s] = "run" /\ pc[t] = "err" /\ qunlock(s)
      /\ Assert(s, owner[s] # NoTask /\ s = "server")
      /\ pc' = [pc EXCEPT ![t] = "done"]
      /\ s = "client" => UNCHANGED poolVars
      /\ s # "client" => rpc_msg_put(t)
      /\ UNCHANGED msg /\ UNCHANGED resp /\ UNCHANGED seqid /\ UNCHANGED hash
      /\ UNCHANGED served /\ UNCHANGED wire /\ UNCHANGED fd /\ UNCHANGED enabled
      /\ UNCHANGED recv /\ UNCHANGED cur /\ UNCHANGED closer /\ UNCHANGED losses
  BY DEF SendError, recvVars, faultVars
<1>2. s \in Side /\ (s = "client" <=> t \in Requester) /\ (s # "client" <=> t \in SeqId)
      /\ (t \in SeqId <=> t \notin Requester) /\ (t \in SeqId => s = "server")
  BY Names
<1>3. "done" \in {"idle", "msg", "wait", "woken", "none", "ready", "done"} \cup Sending
  OBVIOUS
<1>4. /\ pc'[t] = "done" /\ \A u \in Task : u # t => pc'[u] = pc[u]
      /\ pc' \in [Task -> {"idle", "msg", "wait", "woken", "none", "ready", "done"}
                            \cup Sending]
  BY <1>1, <1>3, PcStep
<1>5. PICK ok \in BOOLEAN : (ok <=> owner[s] # NoTask /\ s = "server") /\ Assert(s, ok)
  BY <1>1
<1>6. /\ TypeProc => proc' \in [Side -> {"run", "abort", "exit"}]
      /\ up' \in BOOLEAN
      /\ ok => proc' = proc /\ (up' <=> up)
      /\ \A p \in Side : (proc'[p] = "run" => proc[p] = "run")
                         /\ (proc[p] = "abort" => proc'[p] = "abort")
      /\ proc'[s] = "run" <=> ok
      /\ up' => up
  BY <1>1, <1>2, <1>5, AssertFacts
<1>7. ~up /\ ~up'
  BY <1>1, <1>2, <1>6 DEF IInv, Link
<1>8. Advance(t)
  <2>1. t \in Requester => proc'["client"] # "run"
    BY <1>2, <1>5, <1>6
  <2> QED
    BY <1>1, <1>4, <2>1 DEF Advance, Sending
<1> HIDE DEF s
<1>9. Weaker
  BY <1>1, <1>6 DEF Weaker
<1>10. TypeNet' /\ TypeChan' /\ TypeProc'
  BY <1>1, <1>6 DEF IInv, Types, TypeNet, TypeChan, TypeProc
<1>11. Link'
  BY <1>1, <1>4, <1>7, LinkKept
<1>12. t \in SeqId /\ proc'["server"] = "run" => owner["server"] # NoTask
  BY <1>2, <1>5, <1>6
<1>13. Locks' /\ TypeLock'
  BY <1>1, <1>4, <1>8, <1>9, <1>12, LocksUnlocked DEF s
<1>14. ClientCounts' /\ ServerCounts' /\ TypePool'
  BY <1>1, <1>2, <1>4, <1>8, <1>9, SenderCounts DEF s, poolVars
<1>15. NoLoss'
  BY <1>1, <1>7, <1>9, SenderNoLoss DEF s, Sending
<1>16. \A p \in Side : Stream(p)' = Stream(p)
  BY <1>1, StreamSame
<1>17. Frames' /\ Ends' /\ Requests' /\ Responses'
  BY <1>7, <1>8, <1>9, <1>16, QuietSender
<1>50. IInv'
  BY <1>1, <1>4, <1>8, <1>9, <1>10, <1>11, <1>13, <1>14, <1>15, <1>17, SenderInv
<1> QED
  BY <1>7, <1>50

-----------------------------------------------------------------------------
(* A client's task that does not send gets ready to, or returns from its   *)
(* request; nothing else of the tasks changes.                             *)
ClientMove(c) ==
  /\ pc[c] \in {"idle", "msg", "woken"} /\ pc'[c] \in {"idle", "msg", "hdr", "lock"}
  /\ \A u \in Task : u # c => pc'[u] = pc[u] /\ msg'[u] = msg[u]
  /\ \A d \in Requester : d # c => resp'[d] = resp[d]
  /\ UNCHANGED served

(* A task outside of the lock does not disturb it. *)
LEMMA LockAside ==
  ASSUME NEW s \in Side, LockOf(s), TypeLock, owner'[s] = owner[s], waiting'[s] = waiting[s],
         NEW t \in Task, pc[t] \notin Sending, pc'[t] \notin Sending,
         \A u \in Task : u # t => pc'[u] = pc[u]
  PROVE  LockOf(s)'
<1>1. owner[s] \in Task \cup {NoTask}
  BY DEF TypeLock
<1>2. ~InQueue(t, waiting[s]) /\ owner[s] # t
  BY Names DEF LockOf, Sending
<1>3. pc[t] \notin {"lock", "hdr", "pay", "err"} /\ pc'[t] \notin {"lock", "hdr", "pay", "err"}
  BY DEF Sending
<1>4. \A u \in Task :
       /\ InQueue(u, waiting[s]) => Home(u) = s /\ pc'[u] = "lock" /\ owner[s] # u
       /\ Home(u) = s /\ pc'[u] = "lock" => owner[s] = u \/ InQueue(u, waiting[s])
       /\ Home(u) = s /\ pc'[u] \in {"hdr", "pay", "err"} => owner[s] = u
  <2> TAKE u \in Task
  <2>1. CASE u = t
    BY <1>2, <1>3, <2>1
  <2>2. CASE u # t
    BY <2>2 DEF LockOf
  <2> QED
    BY <2>1, <2>2
<1>5. owner[s] # NoTask => Home(owner[s]) = s /\ pc'[owner[s]] \in Sending
  BY <1>1, <1>2 DEF LockOf
<1> QED
  BY <1>4, <1>5 DEF LockOf

(* What is left alone when a client's task moves. *)
LEMMA ClientMoveKeeps ==
  ASSUME IInv, NEW c \in Requester, ClientMove(c), Weaker, UNCHANGED closer,
         \A s \in Side : Stream(s)' = Stream(s),
         seqid' \in {seqid, seqid + 1},
         pc'[c] \in Sending => msg'[c].seq \in SeqId /\ pc[msg'[c].seq] = "none",
         /\ pc'[c] = "idle" <=> msg'[c] = NoMsg
         /\ msg'[c] # NoMsg => msg'[c].req
         /\ pc'[c] = "msg" => msg'[c].seq = 0
         /\ HasSeq(c)' => msg'[c].seq \in 1..(seqid' - 1),
         resp'[c] = NoMsg
  PROVE  /\ Clients' /\ Handlers' /\ Frames' /\ Ends' /\ Requests' /\ Responses'
         /\ Stations' /\ ResponseMatches' /\ Teardown'
         /\ SA' = SA /\ SW' = SW /\ SP' = SP /\ SS' = SS
<1>0. c \in Task /\ c \notin SeqId
  BY Names
<1>1. /\ \A t \in SeqId : t \in Task /\ t # c /\ pc'[t] = pc[t] /\ msg'[t] = msg[t]
      /\ \A d \in Requester : d # c =>
           d \in Task /\ pc'[d] = pc[d] /\ msg'[d] = msg[d] /\ resp'[d] = resp[d]
  BY Names DEF ClientMove
<1>2. seqid \in Nat /\ seqid' \in Nat /\ seqid' >= seqid
  BY Names DEF IInv, Types, TypeSeq
<1>3. \A n \in 1..(seqid - 1) : n \in 1..(seqid' - 1)
  <2>1. \A a, b \in Nat : b >= a => \A n \in 1..(a - 1) : n \in 1..(b - 1)
    OBVIOUS
  <2> QED
    BY <1>2, <2>1
<1>4. SA' = SA /\ SW' = SW /\ SP' = SP /\ SS' = SS
  BY <1>1 DEF SA, SW, SP, SS
<1>5. Teardown'
  BY <1>1, Names DEF IInv, Teardown, Weaker
<1>6. Clients'
  <2> SUFFICES ASSUME NEW d \in Requester
               PROVE  /\ pc'[d] \in ClientPc
                      /\ pc'[d] = "idle" <=> msg'[d] = NoMsg
                      /\ msg'[d] # NoMsg => msg'[d].req
                      /\ pc'[d] = "msg" => msg'[d].seq = 0
                      /\ HasSeq(d)' => msg'[d].seq \in 1..(seqid' - 1)
                      /\ pc'[d] = "pay" => HasPayload(msg'[d])
    BY DEF Clients
  <2>1. CASE d = c
    BY <2>1 DEF ClientMove, ClientPc, Sending
  <2>2. CASE d # c
    BY <1>1, <1>3, <2>2 DEF IInv, Clients, HasSeq
  <2> QED
    BY <2>1, <2>2
<1>7. Handlers'
  <2>1. \A t \in SeqId : t < seqid => t < seqid'
    BY <1>2, Names
  <2> QED
    BY <1>1, <2>1 DEF IInv, Handlers, ClientMove
<1>8. \A d \in Requester : pc[d] \in {"pay", "err", "done", "wait"} =>
        pc'[d] = pc[d] /\ msg'[d] = msg[d]
  BY <1>1 DEF ClientMove
<1>9. Stations'
  <2>1. ASSUME NEW d \in Requester, pc'[d] \in Sending \cup {"done"}
        PROVE  pc'[msg'[d].seq] = "none"
    <3>1. CASE d = c
      BY <1>1, <2>1, <3>1 DEF ClientMove
    <3>2. CASE d # c
      <4>1. pc[d] \in Sending \cup {"done"} /\ msg'[d] = msg[d] /\ d \in Task
        BY <1>1, <2>1, <3>2
      <4>2. msg[d].seq \in SeqId
        BY <4>1, SenderMessage, Fields
      <4>3. pc[msg[d].seq] = "none"
        BY <4>1 DEF IInv, Stations
      <4> QED
        BY <1>1, <4>1, <4>2, <4>3
    <3> QED
      BY <3>1, <3>2
  <2>2. ASSUME NEW t \in SeqId, pc'[t] \in Sending \cup {"ready"}
        PROVE  \E d \in Requester : pc'[d] = "wait" /\ msg'[d] = AsRequest(msg'[t])
    BY <1>1, <1>8, <2>2 DEF IInv, Stations
  <2> QED
    BY <2>1, <2>2 DEF Stations
<1>10. ResponseMatches'
  <2> SUFFICES ASSUME NEW d \in Requester
               PROVE  /\ resp'[d] # NoMsg <=> pc'[d] = "woken"
                      /\ pc'[d] = "woken" => /\ resp'[d] = [msg'[d] EXCEPT !.req = FALSE]
                                             /\ msg'[d].seq \in served'
    BY DEF ResponseMatches
  <2>1. CASE d = c
    BY <2>1 DEF ClientMove
  <2>2. CASE d # c
    BY <1>1, <2>2 DEF IInv, ResponseMatches, ClientMove
  <2> QED
    BY <2>1, <2>2
<1>11. \A f \in Fragment : (RequestOf(f) => RequestOf(f)') /\ (ResponseOf(f) => ResponseOf(f)')
  <2> SUFFICES ASSUME NEW f \in Fragment
               PROVE  (RequestOf(f) => RequestOf(f)') /\ (ResponseOf(f) => ResponseOf(f)')
    OBVIOUS
  <2>1. f.m.seq \in SeqId
    BY FragmentFields, Fields
  <2>2. pc'[f.m.seq] = pc[f.m.seq] /\ msg'[f.m.seq] = msg[f.m.seq]
    BY <1>1, <2>1
  <2>3. RequestOf(f) => RequestOf(f)'
    BY <1>8, <2>2 DEF RequestOf
  <2>4. ResponseOf(f) => ResponseOf(f)'
    BY <1>8, <2>2 DEF ResponseOf
  <2> QED
    BY <2>3, <2>4
<1>12. Frames' /\ Requests' /\ Responses'
  BY <1>11, Names DEF IInv, Frames, Requests, Responses
<1>13. Ends'
  <2> SUFFICES ASSUME up' PROVE Ends'
    BY DEF Ends
  <2>1. Ends /\ up
    BY DEF IInv, Weaker
  <2>2. \A u \in Task : (pc'[u] = "pay" <=> pc[u] = "pay") /\ (pc[u] = "pay" => msg'[u] = msg[u])
    BY DEF ClientMove
  <2>3. \A u \in Task : Stream(Peer(Home(u)))' = Stream(Peer(Home(u)))
    BY Names
  <2> QED
    BY <2>1, <2>2, <2>3 DEF Ends
<1> QED
  BY <1>4, <1>5, <1>6, <1>7, <1>9, <1>10, <1>12, <1>13

(* Where the client's task is not a sender, the locks stay. *)
LEMMA LocksAside ==
  ASSUME IInv, UNCHANGED lockVars, Weaker, NEW c \in Requester,
         pc[c] \notin Sending, pc'[c] \notin Sending,
         \A u \in Task : u # c => pc'[u] = pc[u], SS' = SS
  PROVE  Locks' /\ TypeLock'
<1>1. UNCHANGED owner /\ UNCHANGED waiting /\ TypeLock /\ Locks
  BY DEF lockVars, IInv, Types
<1>2. TypeLock'
  BY <1>1 DEF TypeLock
<1>3. \A s \in Side : LockOf(s) => LockOf(s)'
  BY <1>1, LockAside, Names
<1> QED
  BY <1>1, <1>2, <1>3, Names DEF Locks, Weaker

-----------------------------------------------------------------------------
(* A task has the buffer for its request. *)
LEMMA DatabufGetKeeps ==
  ASSUME IInv, NEW c \in Requester, NEW k \in Kind, rpc_databuf_get(c, k)
  PROVE  IInv'
<1> DEFINE m == [seq |-> 0, kind |-> k, req |-> TRUE]
           n == One(k = "write")
<1>1. /\ proc["client"] = "run" /\ pc[c] = "idle"
      /\ seqid + Cardinality(CM) <= MaxSeq
      /\ bufs' = [bufs EXCEPT !["client"] = @ + n]
      /\ pc'   = [pc EXCEPT ![c] = "msg"]
      /\ msg'  = [msg EXCEPT ![c] = m]
      /\ UNCHANGED resp /\ UNCHANGED seqid /\ UNCHANGED hash
      /\ UNCHANGED served /\ UNCHANGED wire /\ UNCHANGED fd /\ UNCHANGED enabled
      /\ UNCHANGED lockVars /\ UNCHANGED msgs /\ UNCHANGED recv /\ UNCHANGED up
      /\ UNCHANGED cur /\ UNCHANGED closer /\ UNCHANGED losses /\ UNCHANGED proc
  BY DEF rpc_databuf_get, recvVars, CM, faultVars
<1>2. c \in Task
  BY Names
<1>3. /\ pc'[c] = "msg" /\ \A u \in Task : u # c => pc'[u] = pc[u]
      /\ pc' \in [Task -> {"idle", "msg", "wait", "woken", "none", "ready", "done"}
                            \cup Sending]
  BY <1>1, <1>2, PcStep
<1>4. /\ m \in [seq : 0..MaxSeq, kind : Kind, req : BOOLEAN]
      /\ m.seq = 0 /\ m.req /\ (HasPayload(m) <=> k = "write")
  BY Names DEF HasPayload
<1>5. m # NoMsg
  BY <1>4, NameAssumption
<1>6. n \in {0, 1} /\ (k = "write" => n = 1) /\ (k # "write" => n = 0)
  BY DEF One
<1> HIDE DEF m, n
<1>7. TypeTask
  BY DEF IInv, Types
<1>8. msg'[c] = m /\ \A u \in Task : u # c => msg'[u] = msg[u]
  BY <1>1, <1>2, <1>7 DEF TypeTask
<1>9. TypeTask'
  BY <1>1, <1>2, <1>3, <1>4, <1>7 DEF TypeTask
<1>10. Weaker
  BY <1>1 DEF Weaker
<1>11. (TypeSeq /\ TypeNet /\ TypeChan /\ TypeProc)'
  BY <1>1 DEF IInv, Types, TypeSeq, TypeNet, TypeChan, TypeProc
<1>12. \A s \in Side : Stream(s)' = Stream(s)
  BY <1>1, StreamSame
<1>13. ClientMove(c)
  BY <1>1, <1>3, <1>8 DEF ClientMove
<1>14. resp'[c] = NoMsg /\ msg[c] = NoMsg
  BY <1>1 DEF IInv, ResponseMatches, Clients
<1>15. /\ pc'[c] \in Sending => msg'[c].seq \in SeqId /\ pc[msg'[c].seq] = "none"
       /\ HasSeq(c)' => msg'[c].seq \in 1..(seqid' - 1)
  BY <1>3 DEF HasSeq, Sending
<1>16. seqid' \in {seqid, seqid + 1}
  BY <1>1
<1>17. /\ Clients' /\ Handlers' /\ Frames' /\ Ends' /\ Requests' /\ Responses'
       /\ Stations' /\ ResponseMatches' /\ Teardown'
       /\ SA' = SA /\ SW' = SW /\ SP' = SP /\ SS' = SS
  BY <1>1, <1>3, <1>4, <1>5, <1>8, <1>10, <1>12, <1>13, <1>14, <1>15, <1>16, ClientMoveKeeps
<1>18. Locks' /\ TypeLock'
  BY <1>1, <1>3, <1>10, <1>17, LocksAside DEF Sending
<1>19. Link'
  BY <1>1, <1>3, LinkKept
<1>20. NoLoss'
  <2>1. \A t \in SeqId : pc'[t] = pc[t]
    BY <1>3, Names
  <2> QED
    BY <1>1, <1>12, <2>1, Names DEF IInv, NoLoss, Unbroken
<1>21. /\ Moved(c, CM, CM') /\ Moved(c, CA, CA') /\ Moved(c, CW, CW')
       /\ Moved(c, CP, CP') /\ Moved(c, CR, CR')
  BY <1>1, <1>3, <1>8, ClientMoves, Names
<1>22. /\ c \notin CM /\ c \in CM' /\ c \notin CA /\ c \notin CA' /\ c \notin CW
       /\ c \notin CW' /\ c \notin CR /\ c \notin CR' /\ c \notin CP
       /\ (c \in CP' <=> k = "write")
  BY <1>1, <1>3, <1>4, <1>5, <1>8, <1>14 DEF CM, CA, CW, CP, CR, Sending
<1>23. /\ Cardinality(CM) \in Nat /\ Cardinality(CM') = Cardinality(CM) + 1
       /\ Cardinality(CA') = Cardinality(CA) /\ Cardinality(CW') = Cardinality(CW)
       /\ Cardinality(CR') = Cardinality(CR)
       /\ Cardinality(CP') = Cardinality(CP) + n /\ Cardinality(CP) \in Nat
  <2>1. Cardinality(CP') = Cardinality(CP) + n /\ Cardinality(CP) \in Nat
    <3>1. CASE k = "write"
      BY <1>6, <1>21, <1>22, <3>1 DEF Moved
    <3>2. CASE k # "write"
      BY <1>6, <1>21, <1>22, <3>2 DEF Moved
    <3> QED
      BY <3>1, <3>2
  <2> QED
    BY <1>21, <1>22, <2>1 DEF Moved
<1>24. SeqsApart'
  <2>1. seqid \in Nat /\ MaxSeq \in Nat
    BY Names DEF IInv, Types, TypeSeq
  <2>2. seqid' + Cardinality(CM') <= MaxSeq + 1
    BY <1>1, <1>23, <2>1
  <2>3. \A d \in Requester : HasSeq(d)' => d # c /\ HasSeq(d) /\ msg'[d] = msg[d]
    BY <1>3, <1>8, Names DEF HasSeq
  <2> QED
    BY <2>2, <2>3 DEF IInv, SeqsApart
<1>25. HashIsOutstanding'
  <2>1. \A d \in Requester : (pc'[d] \in Sending \cup {"wait"} <=> pc[d] \in Sending \cup {"wait"})
                             /\ (pc[d] \in Sending \cup {"wait"} => msg'[d] = msg[d])
    BY <1>1, <1>3, <1>8, Names DEF Sending
  <2>2. {msg'[d].seq : d \in {e \in Requester : pc'[e] \in Sending \cup {"wait"}}}
          = {msg[d].seq : d \in {e \in Requester : pc[e] \in Sending \cup {"wait"}}}
    BY <2>1
  <2> QED
    BY <1>1, <2>2 DEF IInv, HashIsOutstanding
<1>26. TypePool /\ ClientCounts /\ ServerCounts
  BY DEF IInv, Types
<1>27. /\ bufs'["client"] = bufs["client"] + n /\ bufs'["server"] = bufs["server"]
       /\ TypePool'
  BY <1>1, <1>6, <1>26, Names DEF TypePool
<1>28. ServerCounts'
  BY <1>1, <1>17, <1>26, <1>27 DEF ServerCounts
<1>29. ClientCounts'
  <2> DEFINE b == One(recv["client"] = "pay")
  <2>1. b \in {0, 1}
    BY DEF One
  <2>2. /\ msgs["client"] = 1 + Cardinality(CA) + Cardinality(CW)
        /\ bufs["client"] = b + Cardinality(CP) + Cardinality(CR)
    BY <1>1, <1>26 DEF ClientCounts
  <2> HIDE DEF b
  <2>3. bufs'["client"] = b + Cardinality(CP') + Cardinality(CR')
    BY <1>6, <1>23, <1>27, <2>1, <2>2, CountTypes
  <2> QED
    BY <1>1, <1>23, <2>2, <2>3 DEF ClientCounts, b
<1> QED
  BY <1>9, <1>11, <1>17, <1>18, <1>19, <1>20, <1>24, <1>25, <1>27, <1>28, <1>29
     DEF IInv, Types

(* rpc_request returns and its caller puts the messages. *)
LEMMA RequestDoneKeeps ==
  ASSUME IInv, NEW c \in Requester, rpc_request_done(c)
  PROVE  IInv'
<1> DEFINE a == One(HasPayload(msg[c]))
           b == One(HasPayload(resp[c]))
<1>1. /\ proc["client"] = "run" /\ pc[c] = "woken"
      /\ msgs' = [msgs EXCEPT !["client"] = @ - 2]
      /\ bufs' = [bufs EXCEPT !["client"] = @ - a - b]
      /\ pc'   = [pc EXCEPT ![c] = "idle"]
      /\ msg'  = [msg EXCEPT ![c] = NoMsg]
      /\ resp' = [resp EXCEPT ![c] = NoMsg]
      /\ UNCHANGED seqid /\ UNCHANGED hash
      /\ UNCHANGED served /\ UNCHANGED wire /\ UNCHANGED fd /\ UNCHANGED enabled
      /\ UNCHANGED lockVars /\ UNCHANGED recv
      /\ UNCHANGED cur /\ UNCHANGED closer /\ UNCHANGED losses
      /\ Assert("client", resp[c].seq \notin failed)
  BY DEF rpc_request_done, recvVars, faultVars
<1>2. c \in Task /\ "client" \in Side
  BY Names
<1>4. PICK ok \in BOOLEAN : Assert("client", ok)
  BY <1>1
<1>5. /\ TypeProc => proc' \in [Side -> {"run", "abort", "exit"}]
      /\ up' \in BOOLEAN
      /\ ok => proc' = proc /\ (up' <=> up)
      /\ ~ok => proc'["client"] = "abort" /\ ~up'
      /\ \A p \in Side : p # "client" => proc'[p] = proc[p]
      /\ \A p \in Side : (proc'[p] = "run" => proc[p] = "run")
                         /\ (proc[p] = "abort" => proc'[p] = "abort")
      /\ up' => up
  BY <1>1, <1>2, <1>4, AssertFacts
<1>3. /\ pc'[c] = "idle" /\ \A u \in Task : u # c => pc'[u] = pc[u]
      /\ pc' \in [Task -> {"idle", "msg", "wait", "woken", "none", "ready", "done"}
                            \cup Sending]
  BY <1>1, <1>2, PcStep
<1>6. /\ a \in {0, 1} /\ (HasPayload(msg[c]) => a = 1) /\ (~HasPayload(msg[c]) => a = 0)
      /\ b \in {0, 1} /\ (HasPayload(resp[c]) => b = 1) /\ (~HasPayload(resp[c]) => b = 0)
  BY DEF One
<1> HIDE DEF a, b
<1>7. TypeTask
  BY DEF IInv, Types
<1>8. /\ msg'[c] = NoMsg /\ \A u \in Task : u # c => msg'[u] = msg[u]
      /\ resp'[c] = NoMsg /\ \A d \in Requester : d # c => resp'[d] = resp[d]
  BY <1>1, <1>2, <1>7 DEF TypeTask
<1>9. TypeTask'
  BY <1>1, <1>2, <1>3, <1>7 DEF TypeTask
<1>10. Weaker /\ (up' => proc' = proc)
  BY <1>1, <1>5 DEF Weaker
<1>11. (TypeSeq /\ TypeNet /\ TypeChan /\ TypeProc)'
  BY <1>1, <1>5 DEF IInv, Types, TypeSeq, TypeNet, TypeChan, TypeProc
<1>12. \A s \in Side : Stream(s)' = Stream(s)
  BY <1>1, StreamSame
<1>13. ClientMove(c)
  BY <1>1, <1>3, <1>8 DEF ClientMove
<1>15. /\ pc'[c] \in Sending => msg'[c].seq \in SeqId /\ pc[msg'[c].seq] = "none"
       /\ HasSeq(c)' => msg'[c].seq \in 1..(seqid' - 1)
  BY <1>3 DEF HasSeq, Sending
<1>16. seqid' \in {seqid, seqid + 1}
  BY <1>1
<1>17. /\ Clients' /\ Handlers' /\ Frames' /\ Ends' /\ Requests' /\ Responses'
       /\ Stations' /\ ResponseMatches' /\ Teardown'
       /\ SA' = SA /\ SW' = SW /\ SP' = SP /\ SS' = SS
  BY <1>1, <1>3, <1>8, <1>10, <1>12, <1>13, <1>15, <1>16, ClientMoveKeeps
<1>18. Locks' /\ TypeLock'
  BY <1>1, <1>3, <1>10, <1>17, LocksAside DEF Sending
<1>19. Link'
  BY <1>1, <1>3, <1>5, <1>10, LinkKept
<1>20. NoLoss'
  <2> SUFFICES ASSUME Unbroken' PROVE NoLoss'
    BY DEF NoLoss
  <2>1. \A t \in SeqId : pc'[t] = pc[t]
    BY <1>3, Names
  <2>2. proc' = proc /\ (up' <=> up) /\ Unbroken
    BY <1>1, <1>2, <1>5 DEF Unbroken
  <2> QED
    BY <1>12, <2>1, <2>2, Names DEF IInv, NoLoss
<1>21. /\ Moved(c, CM, CM') /\ Moved(c, CA, CA') /\ Moved(c, CW, CW')
       /\ Moved(c, CP, CP') /\ Moved(c, CR, CR')
  BY <1>1, <1>3, <1>8, ClientMoves, Names
<1>22. /\ c \notin CM /\ c \notin CM' /\ c \in CA /\ c \notin CA' /\ c \in CW
       /\ c \notin CW' /\ c \notin CR' /\ c \notin CP'
       /\ (c \in CP <=> HasPayload(msg[c])) /\ (c \in CR <=> HasPayload(resp[c]))
  <2>1. msg[c] # NoMsg
    BY <1>1 DEF IInv, Clients
  <2> QED
    BY <1>1, <1>3, <1>8, <2>1 DEF CM, CA, CW, CP, CR, Sending
<1>23. /\ Cardinality(CM) \in Nat /\ Cardinality(CM') = Cardinality(CM)
       /\ Cardinality(CA') = Cardinality(CA) - 1 /\ Cardinality(CW') = Cardinality(CW) - 1
       /\ Cardinality(CA) \in Nat /\ Cardinality(CA) >= 1
       /\ Cardinality(CW) \in Nat /\ Cardinality(CW) >= 1
  BY <1>21, <1>22 DEF Moved
<1>24. /\ Cardinality(CP') = Cardinality(CP) - a /\ Cardinality(CP) \in Nat
       /\ Cardinality(CP) >= a
  <2>1. CASE HasPayload(msg[c])
    BY <1>6, <1>21, <1>22, <2>1 DEF Moved
  <2>2. CASE ~HasPayload(msg[c])
    BY <1>6, <1>21, <1>22, <2>2 DEF Moved
  <2> QED
    BY <2>1, <2>2
<1>25. /\ Cardinality(CR') = Cardinality(CR) - b /\ Cardinality(CR) \in Nat
       /\ Cardinality(CR) >= b
  <2>1. CASE HasPayload(resp[c])
    BY <1>6, <1>21, <1>22, <2>1 DEF Moved
  <2>2. CASE ~HasPayload(resp[c])
    BY <1>6, <1>21, <1>22, <2>2 DEF Moved
  <2> QED
    BY <2>1, <2>2
<1>26. SeqsApart'
  <2>3. \A d \in Requester : HasSeq(d)' => d # c /\ HasSeq(d) /\ msg'[d] = msg[d]
    BY <1>3, <1>8, Names DEF HasSeq
  <2> QED
    BY <1>1, <1>23, <2>3 DEF IInv, SeqsApart
<1>27. HashIsOutstanding'
  <2>1. \A d \in Requester : (pc'[d] \in Sending \cup {"wait"} <=> pc[d] \in Sending \cup {"wait"})
                             /\ (pc[d] \in Sending \cup {"wait"} => msg'[d] = msg[d])
    BY <1>1, <1>3, <1>8, Names DEF Sending
  <2>2. {msg'[d].seq : d \in {e \in Requester : pc'[e] \in Sending \cup {"wait"}}}
          = {msg[d].seq : d \in {e \in Requester : pc[e] \in Sending \cup {"wait"}}}
    BY <2>1
  <2> QED
    BY <1>1, <1>2, <1>10, <2>2 DEF IInv, HashIsOutstanding, Weaker
<1>28. TypePool /\ ClientCounts /\ ServerCounts
  BY DEF IInv, Types
<1>29. /\ bufs'["client"] = bufs["client"] - a - b /\ bufs'["server"] = bufs["server"]
       /\ msgs'["client"] = msgs["client"] - 2 /\ msgs'["server"] = msgs["server"]
  BY <1>1, <1>28, Names DEF TypePool
<1>30. ServerCounts'
  BY <1>1, <1>10, <1>17, <1>28, <1>29, Names DEF ServerCounts, Weaker
<1>31. ClientCounts' /\ msgs'["client"] \in Nat /\ bufs'["client"] \in Nat
  <2> DEFINE r == One(recv["client"] = "pay")
  <2>1. r \in {0, 1}
    BY DEF One
  <2>2. /\ msgs["client"] = 1 + Cardinality(CA) + Cardinality(CW)
        /\ bufs["client"] = r + Cardinality(CP) + Cardinality(CR)
    BY <1>1, <1>28 DEF ClientCounts
  <2> HIDE DEF r
  <2>3. /\ bufs'["client"] = r + Cardinality(CP') + Cardinality(CR')
        /\ bufs'["client"] \in Nat
    BY <1>6, <1>24, <1>25, <1>29, <2>1, <2>2
  <2>4. /\ msgs'["client"] = 1 + Cardinality(CA') + Cardinality(CW')
        /\ msgs'["client"] \in Nat
    BY <1>23, <1>29, <2>2
  <2> QED
    BY <1>1, <2>3, <2>4 DEF ClientCounts, r
<1>32. TypePool'
  BY <1>1, <1>28, <1>29, <1>31, Names DEF TypePool
<1> QED
  BY <1>9, <1>11, <1>17, <1>18, <1>19, <1>20, <1>26, <1>27, <1>30, <1>31, <1>32
     DEF IInv, Types

-----------------------------------------------------------------------------
(* A request gets its seqid, enters the hash table and asks for the lock. *)
LEMMA RequestKeeps ==
  ASSUME IInv, NEW c \in Requester, rpc_request(c)
  PROVE  IInv' /\ (up => proc' = proc)
<1> DEFINE x == AfterLock("client")
<1>1. /\ proc["client"] = "run" /\ pc[c] = "msg"
      /\ msgs'  = [msgs EXCEPT !["client"] = @ + 1]
      /\ msg'   = [msg EXCEPT ![c].seq = seqid]
      /\ seqid' = seqid + 1 /\ hash' = hash \cup {seqid}
      /\ pc'    = [pc EXCEPT ![c] = x]
      /\ qlock("client", c) /\ Assert("client", enabled["client"])
      /\ UNCHANGED resp
      /\ UNCHANGED served /\ UNCHANGED wire /\ UNCHANGED fd /\ UNCHANGED enabled
      /\ UNCHANGED bufs /\ UNCHANGED recv
      /\ UNCHANGED cur /\ UNCHANGED closer /\ UNCHANGED losses
  BY DEF rpc_request, rpc_msg_get, hash_add, recvVars, faultVars
<1>2. c \in Task /\ Home(c) = "client" /\ "client" \in Side
  BY Names
<1>3. x \in {"hdr", "lock"} /\ x \in Sending
      /\ x \in {"idle", "msg", "wait", "woken", "none", "ready", "done"} \cup Sending
  BY DEF AfterLock, Sending
<1>4. /\ pc'[c] = x /\ \A u \in Task : u # c => pc'[u] = pc[u]
      /\ pc' \in [Task -> {"idle", "msg", "wait", "woken", "none", "ready", "done"}
                            \cup Sending]
  BY <1>1, <1>2, <1>3, PcStep
<1> HIDE DEF x
<1>5. TypeTask /\ TypeSeq /\ SeqsApart
  BY DEF IInv, Types
<1>6. seqid \in Nat /\ seqid >= 1 /\ MaxSeq \in Nat /\ Cardinality(CM) \in Nat
  BY <1>5, CountTypes, Names DEF TypeSeq
<1>7. PICK n : n = [msg[c] EXCEPT !.seq = seqid]
  OBVIOUS
<1>8. /\ msg[c] \in [seq : 0..MaxSeq, kind : Kind, req : BOOLEAN] /\ msg[c] # NoMsg
      /\ msg[c].req /\ resp[c] = NoMsg
  BY <1>1, <1>2, <1>5 DEF IInv, Clients, ResponseMatches, TypeTask
<1>9. Moved(c, CM, CM') /\ Moved(c, CA, CA') /\ Moved(c, CW, CW') /\ Moved(c, CP, CP')
      /\ Moved(c, CR, CR') /\ msg' = [msg EXCEPT ![c] = n]
      /\ msg'[c] = n /\ \A u \in Task : u # c => msg'[u] = msg[u]
  <2>1. msg' = [msg EXCEPT ![c] = n]
    BY <1>1, <1>2, <1>5, <1>7 DEF TypeTask
  <2>2. msg'[c] = n /\ \A u \in Task : u # c => msg'[u] = msg[u]
    BY <1>2, <1>5, <2>1 DEF TypeTask
  <2> QED
    BY <1>1, <1>4, <2>1, <2>2, ClientMoves, Names
<1>10. seqid \in SeqId /\ seqid + 1 \in 1..(MaxSeq + 1) /\ seqid + 1 > 1
  <2>1. c \in CM
    BY <1>1 DEF CM
  <2>2. Cardinality(CM) >= 1
    BY <1>9, <2>1 DEF Moved
  <2>3. seqid <= MaxSeq
    BY <1>5, <1>6, <2>2 DEF SeqsApart
  <2> QED
    BY <1>6, <2>3 DEF SeqId
<1>11. /\ n \in [seq : 0..MaxSeq, kind : Kind, req : BOOLEAN] /\ n.seq = seqid
       /\ n.kind = msg[c].kind /\ n.req = msg[c].req
  <2>1. seqid \in 0..MaxSeq
    BY <1>6, <1>10 DEF SeqId
  <2> QED
    BY <1>7, <1>8, <2>1
<1>12. n # NoMsg /\ n.req
  BY <1>8, <1>11, NameAssumption
<1>13. TypeTask'
  BY <1>1, <1>2, <1>4, <1>5, <1>9, <1>11 DEF TypeTask
<1>14. TypeSeq'
  BY <1>1, <1>5, <1>10 DEF TypeSeq
<1>15. PICK ok \in BOOLEAN : (ok <=> enabled["client"]) /\ Assert("client", ok)
  <2>1. enabled["client"] \in BOOLEAN
    BY <1>2 DEF IInv, Types, TypeChan
  <2> QED
    BY <1>1, <2>1
<1>16. /\ TypeProc => proc' \in [Side -> {"run", "abort", "exit"}]
       /\ up' \in BOOLEAN
       /\ ok => proc' = proc /\ (up' <=> up)
       /\ \A p \in Side : (proc'[p] = "run" => proc[p] = "run")
                         /\ (proc[p] = "abort" => proc'[p] = "abort")
       /\ proc'["client"] = "run" <=> ok
       /\ up' => up
       /\ \A p \in Side : p # "client" => proc'[p] = proc[p]
  BY <1>1, <1>2, <1>15, AssertFacts
<1>17. up => ok
  BY <1>2, <1>15 DEF IInv, Link
<1>18. Weaker
  BY <1>1, <1>16 DEF Weaker
<1>19. (TypeNet /\ TypeChan /\ TypeProc)'
  BY <1>1, <1>16 DEF IInv, Types, TypeNet, TypeChan, TypeProc
<1>20. \A s \in Side : Stream(s)' = Stream(s)
  BY <1>1, StreamSame
<1>21. ClientMove(c)
  BY <1>1, <1>3, <1>4, <1>9 DEF ClientMove
<1>22. pc[seqid] = "none"
  BY <1>6, <1>10 DEF IInv, Handlers
<1>23. seqid' \in {seqid, seqid + 1} /\ msg'[c].seq \in 1..(seqid' - 1)
  BY <1>1, <1>6, <1>9, <1>11
<1>24. /\ pc'[c] \in Sending => msg'[c].seq \in SeqId /\ pc[msg'[c].seq] = "none"
       /\ pc'[c] = "idle" <=> msg'[c] = NoMsg
       /\ msg'[c] # NoMsg => msg'[c].req
       /\ pc'[c] = "msg" => msg'[c].seq = 0
       /\ HasSeq(c)' => msg'[c].seq \in 1..(seqid' - 1)
       /\ resp'[c] = NoMsg
  BY <1>1, <1>3, <1>4, <1>8, <1>9, <1>10, <1>11, <1>12, <1>22, <1>23
<1>25. /\ Clients' /\ Handlers' /\ Frames' /\ Ends' /\ Requests' /\ Responses'
       /\ Stations' /\ ResponseMatches' /\ Teardown'
       /\ SA' = SA /\ SW' = SW /\ SP' = SP /\ SS' = SS
  BY <1>1, <1>18, <1>20, <1>21, <1>23, <1>24, ClientMoveKeeps
<1>26. Locks' /\ TypeLock'
  <2>1. TypeLock /\ Locks /\ "server" \in Side /\ "server" # "client"
    BY Names DEF IInv, Types
  <2>2. TypeLock' /\ owner'["server"] = owner["server"] /\ waiting'["server"] = waiting["server"]
    BY <1>1, <1>2, <2>1, LockSteps
  <2>3. LockOf("client")'
    BY <1>1, <1>2, <1>4, <2>1, LockTaken DEF Locks, x, Sending
  <2>4. \A u \in Task : Home(u) = "server" => pc'[u] = pc[u]
    BY <1>2, <1>4
  <2>5. LockOf("server") => LockOf("server")'
    BY <2>1, <2>2, <2>4, LockOther
  <2> QED
    BY <1>18, <1>25, <2>1, <2>2, <2>3, <2>5, Names DEF Locks, Weaker
<1>27. Link'
  BY <1>1, <1>3, <1>4, <1>16, <1>17, LinkKept
<1>28. NoLoss'
  <2> SUFFICES ASSUME Unbroken' PROVE NoLoss'
    BY DEF NoLoss
  <2>1. Unbroken
    BY <1>1, <1>18 DEF Unbroken, Weaker
  <2>2. up
    BY <1>1, <2>1 DEF IInv, NoLoss
  <2> QED
    BY <1>16, <1>17, <2>1, <2>2 DEF IInv, NoLoss
<1>29. /\ c \in CM /\ c \notin CM' /\ c \notin CA /\ c \in CA' /\ c \notin CW
       /\ c \notin CW' /\ c \notin CR /\ c \notin CR'
       /\ c \in CP <=> c \in CP'
  <2>1. HasPayload(msg'[c]) <=> HasPayload(msg[c])
    BY <1>8, <1>9, <1>11 DEF HasPayload
  <2>2. c \in CP <=> c \in CP'
    BY <1>8, <1>9, <1>12, <2>1 DEF CP
  <2> QED
    BY <1>1, <1>3, <1>4, <2>2 DEF CM, CA, CW, CR, Sending
<1>30. /\ Cardinality(CM') = Cardinality(CM) - 1
       /\ Cardinality(CA') = Cardinality(CA) + 1 /\ Cardinality(CW') = Cardinality(CW)
       /\ Cardinality(CR') = Cardinality(CR) /\ Cardinality(CP') = Cardinality(CP)
  BY <1>9, <1>29 DEF Moved
<1>31. SeqsApart'
  <2>1. seqid' + Cardinality(CM') <= MaxSeq + 1
    BY <1>1, <1>5, <1>6, <1>30 DEF SeqsApart
  <2>2. \A d \in Requester : d # c /\ HasSeq(d)' =>
          HasSeq(d) /\ msg'[d] = msg[d] /\ msg[d].seq # seqid
    <3> SUFFICES ASSUME NEW d \in Requester, d # c, HasSeq(d)'
                 PROVE  HasSeq(d) /\ msg'[d] = msg[d] /\ msg[d].seq # seqid
      OBVIOUS
    <3>1. HasSeq(d) /\ msg'[d] = msg[d]
      BY <1>4, <1>9, Names DEF HasSeq
    <3>2. msg[d].seq \in 1..(seqid - 1)
      BY <3>1 DEF IInv, Clients
    <3> QED
      BY <1>6, <3>1, <3>2
  <2>3. ASSUME NEW d \in Requester, NEW e \in Requester, d # e, HasSeq(d)', HasSeq(e)'
        PROVE  msg'[d].seq # msg'[e].seq
    <3>1. CASE d = c
      BY <1>9, <1>11, <2>2, <2>3, <3>1
    <3>2. CASE e = c
      BY <1>9, <1>11, <2>2, <2>3, <3>2
    <3>3. CASE d # c /\ e # c
      BY <1>5, <2>2, <2>3, <3>3 DEF SeqsApart
    <3> QED
      BY <3>1, <3>2, <3>3
  <2> QED
    BY <2>1, <2>3 DEF SeqsApart
<1>32. HashIsOutstanding'
  <2> SUFFICES ASSUME proc'["client"] = "run", enabled'["client"] PROVE HashIsOutstanding'
    BY DEF HashIsOutstanding
  <2> DEFINE T == {e \in Requester : pc[e] \in Sending \cup {"wait"}}
  <2>1. hash = {msg[d].seq : d \in T}
    BY <1>1, <1>18, <1>2 DEF IInv, HashIsOutstanding, Weaker
  <2>2. {e \in Requester : pc'[e] \in Sending \cup {"wait"}} = T \cup {c}
    BY <1>3, <1>4, Names
  <2>3. \A d \in T : d # c /\ msg'[d] = msg[d]
    BY <1>1, <1>9, Names DEF Sending
  <2>4. {msg'[d].seq : d \in T \cup {c}} = hash'
    BY <1>1, <1>9, <1>11, <2>1, <2>3
  <2> QED
    BY <2>2, <2>4 DEF HashIsOutstanding
<1>33. TypePool /\ ClientCounts /\ ServerCounts
  BY DEF IInv, Types
<1>34. /\ msgs'["client"] = msgs["client"] + 1 /\ msgs'["server"] = msgs["server"]
       /\ TypePool'
  BY <1>1, <1>33, Names DEF TypePool
<1>35. ServerCounts'
  BY <1>1, <1>18, <1>25, <1>33, <1>34, Names DEF ServerCounts, Weaker
<1>36. ClientCounts'
  <2>1. /\ msgs["client"] = 1 + Cardinality(CA) + Cardinality(CW)
        /\ bufs["client"] = One(recv["client"] = "pay") + Cardinality(CP) + Cardinality(CR)
    BY <1>1, <1>33 DEF ClientCounts
  <2>2. msgs'["client"] = 1 + Cardinality(CA') + Cardinality(CW')
    BY <1>30, <1>34, <2>1, CountTypes
  <2> QED
    BY <1>1, <1>30, <2>1, <2>2 DEF ClientCounts
<1>50. IInv'
  BY <1>13, <1>14, <1>19, <1>25, <1>26, <1>27, <1>28, <1>31, <1>32, <1>34, <1>35, <1>36
     DEF IInv, Types
<1> QED
  BY <1>16, <1>17, <1>50

-----------------------------------------------------------------------------
(* A handler has served its request and turns to its response. *)
HandlerMove(t) ==
  /\ pc[t] = "ready" /\ pc'[t] \in {"hdr", "lock", "done"}
  /\ \A u \in Task : u # t => pc'[u] = pc[u]
  /\ served' = served \cup {t}
  /\ UNCHANGED msg /\ UNCHANGED resp /\ UNCHANGED seqid /\ UNCHANGED hash
  /\ UNCHANGED wire /\ UNCHANGED recv /\ UNCHANGED cur /\ UNCHANGED closer
  /\ UNCHANGED losses

(* What is left alone when a handler does so. *)
LEMMA HandlerMoveKeeps ==
  ASSUME IInv, NEW t \in SeqId, HandlerMove(t), Weaker, proc["server"] = "run",
         pc' \in [Task -> {"idle", "msg", "wait", "woken", "none", "ready", "done"}
                            \cup Sending],
         up => up' /\ proc' = proc
  PROVE  /\ TypeTask' /\ TypeSeq' /\ TypeNet'
         /\ Clients' /\ Handlers' /\ SeqsApart' /\ Frames' /\ Ends' /\ Requests'
         /\ Responses' /\ Stations' /\ ResponseMatches' /\ HashIsOutstanding'
         /\ Teardown' /\ NoLoss'
         /\ CA' = CA /\ CW' = CW /\ CP' = CP /\ CR' = CR
<1> USE DEF HandlerMove
<1>0. /\ t \in Task /\ t \notin Requester
      /\ \A c \in Requester : c \in Task /\ c # t /\ pc'[c] = pc[c]
  BY Names
<1>1. TypeTask' /\ TypeSeq' /\ TypeNet'
  BY DEF IInv, Types, TypeTask, TypeSeq, TypeNet
<1>2. ClientsStay
  BY <1>0 DEF ClientsStay
<1>3. CM' = CM /\ CA' = CA /\ CW' = CW /\ CP' = CP /\ CR' = CR
  BY <1>2, ClientsSame
<1>4. Clients'
  BY <1>0 DEF IInv, Clients, HasSeq
<1>5. SeqsApart'
  BY <1>0, <1>3 DEF IInv, SeqsApart, HasSeq
<1>6. Handlers'
  <2> SUFFICES ASSUME NEW u \in SeqId
               PROVE  /\ pc'[u] \in HandlerPc
                      /\ pc'[u] # "none" => /\ u < seqid'
                                            /\ msg'[u] # NoMsg /\ msg'[u].seq = u /\ ~msg'[u].req
                      /\ pc'[u] \notin {"none", "ready"} => u \in served'
                      /\ pc'[u] = "pay" => HasPayload(msg'[u])
    BY DEF Handlers
  <2>1. CASE u = t
    BY <2>1 DEF IInv, Handlers, HandlerPc, Sending
  <2>2. CASE u # t
    BY <2>2, Names DEF IInv, Handlers
  <2> QED
    BY <2>1, <2>2
<1>7. \A s \in Side : Stream(s)' = Stream(s)
  BY StreamSame
<1>8. \A f \in Fragment : (RequestOf(f) => RequestOf(f)') /\ (ResponseOf(f) => ResponseOf(f)')
  <2> SUFFICES ASSUME NEW f \in Fragment
               PROVE  (RequestOf(f) => RequestOf(f)') /\ (ResponseOf(f) => ResponseOf(f)')
    OBVIOUS
  <2>1. f.m.seq \in Task
    BY FragmentFields, Fields, Names
  <2>2. RequestOf(f) => RequestOf(f)'
    BY <1>0, <2>1 DEF RequestOf
  <2>3. ResponseOf(f) => ResponseOf(f)'
    BY <1>0, <2>1 DEF ResponseOf
  <2> QED
    BY <2>2, <2>3
<1>9. Frames' /\ Requests' /\ Responses'
  BY <1>7, <1>8, Names DEF IInv, Frames, Requests, Responses
<1>10. Ends'
  <2> SUFFICES ASSUME up' PROVE Ends'
    BY DEF Ends
  <2>1. Ends /\ up
    BY DEF IInv, Weaker
  <2>2. \A u \in Task : pc'[u] = "pay" <=> pc[u] = "pay"
    OBVIOUS
  <2>3. \A u \in Task : Stream(Peer(Home(u)))' = Stream(Peer(Home(u)))
    BY <1>7, Names
  <2> QED
    BY <1>7, <2>1, <2>2, <2>3 DEF Ends
<1>11. Stations'
  <2>1. ASSUME NEW c \in Requester, pc'[c] \in Sending \cup {"done"}
        PROVE  pc'[msg'[c].seq] = "none"
    <3>1. pc[c] \in Sending \cup {"done"} /\ c \in Task
      BY <1>0, <2>1
    <3>2. msg[c].seq \in Task
      BY <3>1, SenderMessage, Fields, Names
    <3>3. pc[msg[c].seq] = "none"
      BY <3>1 DEF IInv, Stations
    <3> QED
      BY <3>2, <3>3
  <2>2. ASSUME NEW u \in SeqId, pc'[u] \in Sending \cup {"ready"}
        PROVE  \E c \in Requester : pc'[c] = "wait" /\ msg'[c] = AsRequest(msg'[u])
    <3>1. pc[u] \in Sending \cup {"ready"}
      BY <2>2, Names
    <3>2. PICK c \in Requester : pc[c] = "wait" /\ msg[c] = AsRequest(msg[u])
      BY <3>1 DEF IInv, Stations
    <3> QED
      BY <1>0, <3>2
  <2> QED
    BY <2>1, <2>2 DEF Stations
<1>12. ResponseMatches'
  BY <1>0 DEF IInv, ResponseMatches
<1>13. HashIsOutstanding'
  <2>1. {e \in Requester : pc'[e] \in Sending \cup {"wait"}}
          = {e \in Requester : pc[e] \in Sending \cup {"wait"}}
    BY <1>0
  <2> QED
    BY <2>1, Names DEF IInv, HashIsOutstanding, Weaker
<1>14. Teardown'
  BY Names DEF IInv, Teardown, Weaker
<1>15. NoLoss'
  <2> SUFFICES ASSUME Unbroken' PROVE NoLoss'
    BY DEF NoLoss
  <2>1. Unbroken
    BY DEF Unbroken, Weaker
  <2>2. up
    BY <2>1 DEF IInv, NoLoss
  <2> QED
    BY <2>1, <2>2 DEF IInv, NoLoss
<1> QED
  BY <1>1, <1>3, <1>4, <1>5, <1>6, <1>9, <1>10, <1>11, <1>12, <1>13, <1>14, <1>15

(* rpc_response, up to the lock; or past it on a disabled channel. *)
LEMMA ResponseKeeps ==
  ASSUME IInv, NEW t \in SeqId, proc["server"] = "run", pc[t] = "ready", rpc_response(t),
         UNCHANGED <<msg, resp, seqid, hash, wire, fd, enabled, recvVars, losses>>
  PROVE  IInv' /\ (up => proc' = proc)
<1> DEFINE k == msg[t].kind
           r == One(k = "read")
           w == One(k = "write")
<1>1. /\ proc["server"] = "run" /\ pc[t] = "ready"
      /\ served' = served \cup {t}
      /\ enabled["server"] =>
           /\ qlock("server", t)
           /\ pc'   = [pc EXCEPT ![t] = AfterLock("server")]
           /\ bufs' = [bufs EXCEPT !["server"] = @ + r - w]
           /\ UNCHANGED msgs /\ UNCHANGED up /\ UNCHANGED proc
      /\ ~enabled["server"] =>
           /\ qunlock("server")
           /\ Assert("server", owner["server"] # NoTask)
           /\ pc'   = [pc EXCEPT ![t] = "done"]
           /\ msgs' = [msgs EXCEPT !["server"] = @ - 1]
           /\ bufs' = [bufs EXCEPT !["server"] = @ - w]
      /\ UNCHANGED msg /\ UNCHANGED resp /\ UNCHANGED seqid /\ UNCHANGED hash
      /\ UNCHANGED wire /\ UNCHANGED fd /\ UNCHANGED enabled
      /\ UNCHANGED recv /\ UNCHANGED cur /\ UNCHANGED closer /\ UNCHANGED losses
  BY DEF rpc_response, recvVars
<1>2. t \in Task /\ Home(t) = "server" /\ "server" \in Side /\ "client" \in Side
      /\ "client" # "server" /\ \A p \in Side : p = "client" \/ p = "server"
  BY Names
<1>3. /\ r \in {0, 1} /\ w \in {0, 1} /\ (k = "write" => w = 1 /\ r = 0)
      /\ (k = "read" => r = 1 /\ w = 0) /\ (k # "read" => r = 0) /\ (k # "write" => w = 0)
  BY DEF One
<1>4. HasPayload(msg[t]) <=> k = "read"
  BY <1>1, <1>2, SenderMessage, Fields
<1> HIDE DEF r, w
<1>5. TypeLock /\ Locks /\ TypePool /\ ClientCounts /\ ServerCounts /\ TypeProc
  BY DEF IInv, Types
<1> DEFINE a == One(recv["server"] # "end" \/ closer["server"] = "start")
           b == One(recv["server"] = "pay")
<1>6. /\ a \in {0, 1} /\ b \in {0, 1} /\ msgs["server"] = a + Cardinality(SA)
      /\ bufs["server"] = b + Cardinality(SW) + Cardinality(SP)
  BY <1>1, <1>5 DEF ServerCounts, One
<1> HIDE DEF a, b
<1>7. PICK x \in {"hdr", "lock", "done"} :
        /\ pc' = [pc EXCEPT ![t] = x]
        /\ enabled["server"] => x = AfterLock("server") /\ x # "done"
        /\ ~enabled["server"] => x = "done"
  BY <1>1 DEF AfterLock
<1>8. x \in {"idle", "msg", "wait", "woken", "none", "ready", "done"} \cup Sending
  BY DEF Sending
<1>9. /\ pc'[t] = x /\ \A u \in Task : u # t => pc'[u] = pc[u]
      /\ pc' \in [Task -> {"idle", "msg", "wait", "woken", "none", "ready", "done"}
                            \cup Sending]
  BY <1>2, <1>7, <1>8, PcStep
<1>10. HandlerMove(t)
  BY <1>1, <1>9 DEF HandlerMove
<1>11. Moved(t, SA, SA') /\ Moved(t, SW, SW') /\ Moved(t, SP, SP') /\ Moved(t, SS, SS')
  BY <1>1, <1>9, HandlerMoves, Names
<1>12. /\ t \in SA /\ t \notin SS /\ t \notin SP /\ t \notin SW'
       /\ (t \in SW <=> k = "write")
       /\ x # "done" => t \in SA' /\ t \in SS' /\ (t \in SP' <=> k = "read")
       /\ x = "done" => t \notin SA' /\ t \notin SS' /\ t \notin SP'
  BY <1>1, <1>4, <1>9 DEF SA, SS, SP, SW, Sending
<1>13. /\ Cardinality(SW) \in Nat /\ Cardinality(SW) >= w
       /\ Cardinality(SW') = Cardinality(SW) - w
  <2>1. CASE k = "write"
    BY <1>3, <1>11, <1>12, <2>1 DEF Moved
  <2>2. CASE k # "write"
    BY <1>3, <1>11, <1>12, <2>2 DEF Moved
  <2> QED
    BY <2>1, <2>2
<1>14. Cardinality(SP) \in Nat /\ (x # "done" => Cardinality(SP') = Cardinality(SP) + r)
                               /\ (x = "done" => Cardinality(SP') = Cardinality(SP))
  <2>1. CASE k = "read"
    BY <1>3, <1>11, <1>12, <2>1 DEF Moved
  <2>2. CASE k # "read"
    BY <1>3, <1>11, <1>12, <2>2 DEF Moved
  <2> QED
    BY <2>1, <2>2
<1>15. /\ Cardinality(SA) \in Nat /\ Cardinality(SA) >= 1 /\ Cardinality(SS) \in Nat
       /\ x # "done" => Cardinality(SA') = Cardinality(SA)
                        /\ Cardinality(SS') = Cardinality(SS) + 1
       /\ x = "done" => Cardinality(SA') = Cardinality(SA) - 1
                        /\ Cardinality(SS') = Cardinality(SS)
  BY <1>11, <1>12 DEF Moved
<1>16. \A u \in Task : Home(u) = "client" => pc'[u] = pc[u]
  BY <1>2, <1>9
<1>17. /\ owner["server"] = NoTask => waiting["server"] = <<>>
       /\ One(owner["server"] # NoTask) + Len(waiting["server"]) <= Cardinality(SS)
       /\ LockOf("client")
  BY <1>1, <1>5 DEF Locks
<1>18. CASE enabled["server"]
  <2>1. /\ qlock("server", t) /\ x # "done" /\ x = AfterLock("server")
        /\ bufs' = [bufs EXCEPT !["server"] = @ + r - w]
        /\ UNCHANGED msgs /\ UNCHANGED up /\ UNCHANGED proc
    BY <1>1, <1>7, <1>18
  <2>2. Weaker
    BY <1>1, <2>1 DEF Weaker
  <2>3. /\ TypeTask' /\ TypeSeq' /\ TypeNet'
        /\ Clients' /\ Handlers' /\ SeqsApart' /\ Frames' /\ Ends' /\ Requests'
        /\ Responses' /\ Stations' /\ ResponseMatches' /\ HashIsOutstanding'
        /\ Teardown' /\ NoLoss'
        /\ CA' = CA /\ CW' = CW /\ CP' = CP /\ CR' = CR
    BY <1>1, <1>9, <1>10, <2>1, <2>2, HandlerMoveKeeps
  <2>4. (TypeChan /\ TypeProc)'
    BY <1>1, <2>1 DEF IInv, Types, TypeChan, TypeProc
  <2>5. Link'
    BY <1>1, <1>9, <2>1, LinkKept
  <2>6. /\ TypeLock' /\ owner'["server"] # NoTask
        /\ owner'["client"] = owner["client"] /\ waiting'["client"] = waiting["client"]
        /\ Len(waiting["server"]) \in Nat
        /\ One(owner'["server"] # NoTask) + Len(waiting'["server"])
                = One(owner["server"] # NoTask) + Len(waiting["server"]) + 1
    BY <1>2, <1>5, <2>1, LockSteps
  <2>7. LockOf("server")'
    BY <1>1, <1>2, <1>5, <1>9, <1>18, <2>1, LockTaken DEF Locks, Sending
  <2>8. LockOf("client")'
    BY <1>2, <1>5, <1>16, <1>17, <2>6, LockOther
  <2>9. One(owner'["server"] # NoTask) + Len(waiting'["server"]) <= Cardinality(SS')
    <3>1. One(owner["server"] # NoTask) \in {0, 1}
      BY DEF One
    <3> QED
      BY <1>15, <1>17, <2>1, <2>6, <3>1
  <2>10. Locks'
    BY <2>6, <2>7, <2>8, <2>9 DEF Locks
  <2>11. /\ bufs'["server"] = bufs["server"] + r - w /\ bufs'["client"] = bufs["client"]
    BY <1>2, <1>5, <2>1 DEF TypePool
  <2>12. /\ bufs'["server"] = b + Cardinality(SW') + Cardinality(SP')
         /\ bufs'["server"] \in Nat
    BY <1>3, <1>6, <1>13, <1>14, <2>1, <2>11
  <2>13. TypePool'
    BY <1>2, <1>5, <2>1, <2>11, <2>12 DEF TypePool
  <2>14. msgs'["server"] = a + Cardinality(SA')
    BY <1>6, <1>15, <2>1
  <2>15. ServerCounts'
    BY <1>1, <2>12, <2>14 DEF ServerCounts, a, b
  <2>16. ClientCounts'
    BY <1>1, <1>5, <2>1, <2>3, <2>11 DEF ClientCounts
  <2>17. IInv'
    BY <2>3, <2>4, <2>5, <2>6, <2>10, <2>13, <2>15, <2>16 DEF IInv, Types
  <2> QED
    BY <2>1, <2>17
<1>19. CASE ~enabled["server"]
  <2>1. /\ qunlock("server") /\ Assert("server", owner["server"] # NoTask) /\ x = "done"
        /\ msgs' = [msgs EXCEPT !["server"] = @ - 1]
        /\ bufs' = [bufs EXCEPT !["server"] = @ - w]
    BY <1>1, <1>7, <1>19
  <2>2. PICK ok \in BOOLEAN : (ok <=> owner["server"] # NoTask) /\ Assert("server", ok)
    BY <2>1
  <2>3. /\ proc' \in [Side -> {"run", "abort", "exit"}]
        /\ up' \in BOOLEAN
        /\ ok => proc' = proc
        /\ \A p \in Side : (proc'[p] = "run" => proc[p] = "run")
                         /\ (proc[p] = "abort" => proc'[p] = "abort")
        /\ proc'["server"] = "run" <=> ok
        /\ up' => up
    BY <1>1, <1>2, <1>5, <2>2, AssertFacts
  <2>4. ~up /\ ~up'
    BY <1>2, <1>19, <2>3 DEF IInv, Link
  <2>5. Weaker
    BY <1>1, <2>3 DEF Weaker
  <2>6. /\ TypeTask' /\ TypeSeq' /\ TypeNet'
        /\ Clients' /\ Handlers' /\ SeqsApart' /\ Frames' /\ Ends' /\ Requests'
        /\ Responses' /\ Stations' /\ ResponseMatches' /\ HashIsOutstanding'
        /\ Teardown' /\ NoLoss'
        /\ CA' = CA /\ CW' = CW /\ CP' = CP /\ CR' = CR
    BY <1>1, <1>9, <1>10, <2>4, <2>5, HandlerMoveKeeps
  <2>7. (TypeChan /\ TypeProc)'
    BY <1>1, <2>3 DEF IInv, Types, TypeChan, TypeProc
  <2>8. Link'
    BY <1>1, <1>9, <2>1, <2>4, LinkKept
  <2>9. /\ TypeLock' /\ (owner'["server"] = NoTask => waiting'["server"] = <<>>)
        /\ owner'["client"] = owner["client"] /\ waiting'["client"] = waiting["client"]
        /\ Len(waiting["server"]) \in Nat
        /\ owner["server"] # NoTask =>
             One(owner'["server"] # NoTask) + Len(waiting'["server"])
                = One(owner["server"] # NoTask) + Len(waiting["server"]) - 1
    BY <1>2, <1>5, <2>1, UnlockSteps
  <2>10. LockOf("client")'
    BY <1>2, <1>5, <1>16, <1>17, <2>9, LockOther
  <2>11. ok => One(owner'["server"] # NoTask) + Len(waiting'["server"]) <= Cardinality(SS')
    <3>1. One(owner["server"] # NoTask) \in {0, 1}
      BY DEF One
    <3> QED
      BY <1>15, <1>17, <2>1, <2>2, <2>9, <3>1
  <2>12. Locks'
    BY <1>1, <1>19, <2>3, <2>9, <2>10, <2>11 DEF Locks
  <2>13. /\ bufs'["server"] = bufs["server"] - w /\ bufs'["client"] = bufs["client"]
         /\ msgs'["server"] = msgs["server"] - 1 /\ msgs'["client"] = msgs["client"]
    BY <1>2, <1>5, <2>1 DEF TypePool
  <2>14. /\ bufs'["server"] = b + Cardinality(SW') + Cardinality(SP')
         /\ bufs'["server"] \in Nat
    BY <1>3, <1>6, <1>13, <1>14, <2>1, <2>13
  <2>15. msgs'["server"] = a + Cardinality(SA') /\ msgs'["server"] \in Nat
    BY <1>6, <1>15, <2>1, <2>13
  <2>16. TypePool'
    BY <1>2, <1>5, <2>1, <2>13, <2>14, <2>15 DEF TypePool
  <2>17. ServerCounts'
    BY <1>1, <2>14, <2>15 DEF ServerCounts, a, b
  <2>18. ClientCounts'
    BY <1>1, <1>2, <1>5, <2>3, <2>6, <2>13 DEF ClientCounts
  <2>19. IInv'
    BY <2>6, <2>7, <2>8, <2>9, <2>12, <2>16, <2>17, <2>18 DEF IInv, Types
  <2> QED
    BY <2>4, <2>19
<1> QED
  BY <1>18, <1>19

(* rpc_msg_handler: the device fails the read and the server aborts, or    *)
(* the response goes out.                                                  *)
LEMMA MsgHandlerKeeps ==
  ASSUME IInv, NEW t \in SeqId, rpc_msg_handler(t)
  PROVE  /\ IInv'
         /\ up /\ proc' # proc => /\ msg[t].kind = "read" /\ pc[t] = "ready" /\ t \in failed'
                                  /\ proc'["client"] = proc["client"]
<1>1. /\ proc["server"] = "run" /\ pc[t] = "ready"
      /\ UNCHANGED <<msg, resp, seqid, hash, wire, fd, enabled, recvVars, losses>>
  BY DEF rpc_msg_handler
<1>2. CASE rpc_response(t)
  BY <1>1, <1>2, ResponseKeeps
<1>3. CASE ~rpc_response(t)
  <2>1. /\ msg[t].kind = "read" /\ t \in failed'
        /\ Assert("server", FALSE) /\ UNCHANGED <<pc, served, lockVars, poolVars>>
    BY <1>3 DEF rpc_msg_handler, DeviceFails
  <2>2. "server" \in Side /\ "client" \in Side /\ "client" # "server"
    BY Names
  <2>3. PICK ok \in BOOLEAN : ~ok /\ Assert("server", ok)
    BY <2>1
  <2>4. /\ TypeProc => proc' \in [Side -> {"run", "abort", "exit"}]
        /\ up' \in BOOLEAN /\ proc'["server"] = "abort" /\ ~up'
        /\ \A p \in Side : p # "server" => proc'[p] = proc[p]
        /\ \A p \in Side : (proc'[p] = "run" => proc[p] = "run")
                           /\ (proc[p] = "abort" => proc'[p] = "abort")
    BY <1>1, <2>2, <2>3, AssertFacts
  <2>5. /\ UNCHANGED taskVars /\ UNCHANGED lockVars /\ UNCHANGED msgs /\ UNCHANGED bufs
        /\ UNCHANGED wire /\ UNCHANGED recv /\ UNCHANGED cur /\ UNCHANGED closer
        /\ UNCHANGED fd /\ UNCHANGED enabled /\ UNCHANGED losses /\ UNCHANGED pc
    BY <1>1, <2>1 DEF taskVars, poolVars, recvVars
  <2>6. (TypeNet /\ TypePool /\ TypeChan /\ TypeProc)'
    BY <2>4, <2>5 DEF IInv, Types, TypeNet, TypePool, TypeChan, TypeProc
  <2>7. \A p \in Side : Stream(p)' = Stream(p)
    BY <2>5, StreamSame
  <2>8. Link' /\ Teardown'
    BY <2>4, <2>5 DEF IInv, Link, Teardown
  <2>9. NoLoss'
    BY <2>2, <2>4 DEF NoLoss, Unbroken
  <2>10. Weaker
    BY <2>4, <2>5 DEF Weaker
  <2>11. IInv'
    BY <2>5, <2>6, <2>7, <2>8, <2>9, <2>10, StillInv, Names
  <2> QED
    BY <1>1, <2>1, <2>2, <2>4, <2>11
<1> QED
  BY <1>2, <1>3

-----------------------------------------------------------------------------
(* rpc_recv_task of side s has the whole of m. *)
Received(s, m) ==
  /\ proc[s] = "run" /\ fd[s] /\ wire[s] # <<>>
  /\ \/ recv[s] = "hdr" /\ m = Head(wire[s]).m /\ ~HasPayload(m)
     \/ recv[s] = "pay" /\ m = cur[s]

(* What the delivery of m does to the receiver and to the streams. *)
LEMMA DeliveryFacts ==
  ASSUME IInv, NEW s \in Side, NEW m, Received(s, m), Deliver(s, m)
  PROVE  /\ m \in Message
         /\ \E f \in Fragment : InQueue(f, Stream(s)) /\ f.m = m /\ Whole(f)
         /\ enabled[s] /\ closer[s] = "none" /\ recv[s] # "end"
         /\ recv[s] = "pay" <=> HasPayload(m)
         /\ recv'[s] = "hdr" /\ cur'[s] = NoMsg
         /\ \A p \in Side : p # s =>
              /\ recv'[p] = recv[p] /\ cur'[p] = cur[p]
              /\ Stream(p)' = Stream(p) /\ msgs'[p] = msgs[p]
         /\ UNCHANGED enabled /\ UNCHANGED closer
         /\ msgs'[s] = msgs[s] + 1 /\ TypePool' /\ TypeNet'
         /\ Frames'
         /\ \A f \in Fragment : InQueue(f, Stream(s)') =>
              InQueue(f, Stream(s)) /\ f.m.seq # m.seq
         /\ \A f \in Fragment : IsLast(f, Stream(s)') => IsLast(f, Stream(s))
         /\ \A f \in Fragment : IsLast(f, Stream(s)) => IsLast(f, Stream(s)') \/ Whole(f)
<1>1. /\ wire' = [wire EXCEPT ![s] = Tail(wire[s])] /\ NextTurn(s) /\ UNCHANGED bufs
  BY DEF Deliver
<1>2. Types /\ TypeNet /\ TypePool /\ Link /\ Framed(Stream(s))
  BY DEF IInv, Types, Frames
<1>3. recv[s] # "end" /\ enabled[s] /\ closer[s] = "none"
  BY <1>2 DEF Link, Received
<1>4. /\ msgs' = [msgs EXCEPT ![s] = msgs[s] + 1] /\ cur' = [cur EXCEPT ![s] = NoMsg]
      /\ recv' = [recv EXCEPT ![s] = "hdr"] /\ UNCHANGED enabled /\ UNCHANGED closer
  BY <1>1, <1>3 DEF NextTurn
<1>5. wire[s] \in Seq(Fragment) /\ wire[s] # <<>> /\ Head(wire[s]) \in Fragment
      /\ Tail(wire[s]) \in Seq(Fragment)
  BY <1>2, TailOf DEF TypeNet, Received
<1>6. recv[s] = "pay" => cur[s] # NoMsg /\ cur[s] \in Message /\ HasPayload(cur[s])
  BY <1>2 DEF Link, TypeNet
<1>7. m \in Message /\ (recv[s] = "pay" <=> HasPayload(m))
  BY <1>5, <1>6, FragmentFields DEF Received
<1>8. /\ wire'[s] = Tail(wire[s]) /\ recv'[s] = "hdr" /\ cur'[s] = NoMsg
      /\ msgs'[s] = msgs[s] + 1
      /\ \A p \in Side : p # s => /\ recv'[p] = recv[p] /\ cur'[p] = cur[p]
                                  /\ wire'[p] = wire[p] /\ msgs'[p] = msgs[p]
  BY <1>1, <1>2, <1>4 DEF TypeNet, TypePool
<1>9. TypeNet' /\ TypePool'
  BY <1>1, <1>2, <1>4, <1>5 DEF TypeNet, TypePool
<1>10. \A p \in Side : p # s => Stream(p)' = Stream(p)
  BY <1>8, StreamSame
<1>11. /\ Stream(s)' \in Seq(Fragment) /\ Framed(Stream(s)')
       /\ \A f \in Fragment : InQueue(f, Stream(s)') => InQueue(f, Stream(s)) /\ f.m.seq # m.seq
       /\ \E f \in Fragment : InQueue(f, Stream(s)) /\ f.m = m /\ Whole(f)
       /\ \A f \in Fragment : IsLast(f, Stream(s)') => IsLast(f, Stream(s))
       /\ \A f \in Fragment : IsLast(f, Stream(s)) => IsLast(f, Stream(s)') \/ Whole(f)
  BY <1>2, <1>5, <1>7, <1>8, StreamDelivered DEF Received
<1>12. Frames'
  <2>1. \A p \in Side : Framed(Stream(p)')
    BY <1>10, <1>11 DEF IInv, Frames
  <2> QED
    BY <2>1 DEF Frames
<1> QED
  BY <1>3, <1>4, <1>7, <1>8, <1>9, <1>10, <1>11, <1>12

(* Nobody who sends is touched, so the ends of the streams stay in order. *)
LEMMA DeliveryEnds ==
  ASSUME IInv, NEW s \in Side, up' => up,
         \A p \in Side : p # s => Stream(p)' = Stream(p),
         \A f \in Fragment : IsLast(f, Stream(s)') => IsLast(f, Stream(s)),
         \A f \in Fragment : IsLast(f, Stream(s)) => IsLast(f, Stream(s)') \/ Whole(f),
         \A u \in Task : (pc'[u] = "pay" <=> pc[u] = "pay")
                         /\ (pc[u] = "pay" => msg'[u] = msg[u])
  PROVE  Ends'
<1> SUFFICES ASSUME up' PROVE Ends'
  BY DEF Ends
<1>1. Ends
  BY DEF IInv
<1>2. ASSUME NEW u \in Task, pc'[u] = "pay"
      PROVE  IsLast([m |-> msg'[u], part |-> "hdr"], Stream(Peer(Home(u)))')
  <2> DEFINE d == Peer(Home(u))
             f == [m |-> msg[u], part |-> "hdr"]
  <2>1. d \in Side /\ pc[u] = "pay" /\ msg'[u] = msg[u]
    BY <1>2, Names
  <2>2. msg[u] \in Message /\ HasPayload(msg[u])
    BY <2>1, SenderMessage, Names DEF IInv, Clients, Handlers, Sending
  <2>3. f \in Fragment /\ ~Whole(f)
    BY <2>2 DEF Fragment, Whole
  <2>4. IsLast(f, Stream(d))
    BY <1>1, <2>1 DEF Ends
  <2> HIDE DEF d, f
  <2>5. IsLast(f, Stream(d)')
    BY <2>1, <2>3, <2>4
  <2> QED
    BY <2>1, <2>5 DEF f, d
<1>3. ASSUME NEW p \in Side, NEW f \in Fragment, IsLast(f, Stream(p)'), ~Whole(f)
      PROVE  \E u \in Task : Home(u) = Peer(p) /\ pc'[u] = "pay"
  <2>1. IsLast(f, Stream(p))
    BY <1>3
  <2>2. \E u \in Task : Home(u) = Peer(p) /\ pc[u] = "pay"
    BY <1>1, <1>3, <2>1 DEF Ends
  <2> QED
    BY <2>2
<1>4. \A p \in Side, f \in Fragment : IsLast(f, Stream(p)') /\ ~Whole(f) =>
        \E u \in Task : Home(u) = Peer(p) /\ pc'[u] = "pay"
  BY <1>3
<1>5. \A u \in Task : pc'[u] = "pay" =>
        IsLast([m |-> msg'[u], part |-> "hdr"], Stream(Peer(Home(u)))')
  BY <1>2
<1> QED
  BY <1>4, <1>5 DEF Ends

(* The links after a delivery. *)
LEMMA DeliveryLink ==
  ASSUME IInv, NEW s \in Side, recv[s] # "end", recv'[s] = "hdr", cur'[s] = NoMsg,
         \A p \in Side : p # s => recv'[p] = recv[p] /\ cur'[p] = cur[p],
         UNCHANGED enabled, UNCHANGED closer, UNCHANGED fd,
         enabled[s], up' => up /\ proc' = proc,
         \A u \in Task : pc'[u] = "err" => pc[u] = "err"
  PROVE  Link'
<1>1. Link
  BY DEF IInv
<1>2. \A p \in Side :
       /\ enabled'[p] => fd'[p] /\ closer'[p] = "none"
       /\ closer'[p] = "none" <=> recv'[p] # "end"
       /\ fd'[p] /\ ~enabled'[p] => recv'[p] = "end"
       /\ cur'[p] # NoMsg <=> recv'[p] \in {"buf", "pay"}
       /\ cur'[p] # NoMsg => HasPayload(cur'[p])
  <2> TAKE p \in Side
  <2>1. CASE p = s
    BY <1>1, <2>1 DEF Link
  <2>2. CASE p # s
    BY <1>1, <2>2 DEF Link
  <2> QED
    BY <2>1, <2>2
<1> QED
  BY <1>1, <1>2 DEF Link

(* The pool of the server has a message for each of the client's tasks. *)
LEMMA ServerPoolSuffices ==
  ASSUME IInv, proc["server"] = "run", recv["server"] # "end", NEW n \in SeqId,
         pc[n] = "none", \E c \in Requester : pc[c] = "wait" /\ msg[c].seq = n
  PROVE  msgs["server"] < MsgMax["server"]
<1> DEFINE T == SA \cup {n}
           f == [c \in Requester |-> msg[c].seq]
<1>1. \A t \in T : \E c \in Requester : f[c] = t
  <2> SUFFICES ASSUME NEW t \in T PROVE \E c \in Requester : msg[c].seq = t
    OBVIOUS
  <2>1. CASE t = n
    BY <2>1
  <2>2. CASE t \in SA
    <3>1. t \in SeqId /\ pc[t] \in Sending \cup {"ready"}
      BY <2>2 DEF SA
    <3>2. PICK c \in Requester : msg[c] = AsRequest(msg[t])
      BY <3>1 DEF IInv, Stations
    <3>3. msg[t] \in Message /\ msg[t].seq = t
      BY <3>1, SenderMessage, Names
    <3> QED
      BY <3>2, <3>3, Fields
  <2> QED
    BY <2>1, <2>2
<1>2. IsFiniteSet(T) /\ Cardinality(T) <= Cardinality(Requester)
  <2> HIDE DEF f, T
  <2> QED
    BY <1>1, CountImage, Names
<1>3. IsFiniteSet(SA) /\ n \notin SA /\ Cardinality(SA) \in Nat
  BY Names, SubsetCount DEF SA, Sending
<1>4. Cardinality(T) = Cardinality(SA) + 1
  BY <1>3, FS_AddElement
<1>5. Cardinality(Requester) \in Nat
  BY Names, FS_CardinalityType
<1>6. msgs["server"] = 1 + Cardinality(SA)
  BY DEF IInv, ServerCounts, One
<1>7. MsgMax["server"] \in Nat /\ MsgMax["server"] > Cardinality(Requester)
  BY PoolAssumption, SizeAssumption, Names
<1> QED
  BY <1>2, <1>3, <1>4, <1>5, <1>6, <1>7

(* The client's has one for each request, each response and the receiver. *)
LEMMA ClientPoolSuffices ==
  ASSUME IInv, proc["client"] = "run", NEW c \in Requester, pc[c] = "wait"
  PROVE  msgs["client"] < MsgMax["client"]
<1>1. IsFiniteSet(Requester) /\ Cardinality(Requester) \in Nat
  BY Names, FS_CardinalityType
<1>2. CA \in SUBSET Requester /\ CW \in SUBSET (Requester \ {c})
  BY DEF CA, CW
<1>3. Cardinality(CA) <= Cardinality(Requester) /\ Cardinality(CA) \in Nat
  BY <1>1, <1>2, FS_Subset, FS_CardinalityType
<1>4. /\ IsFiniteSet(Requester \ {c})
      /\ Cardinality(Requester \ {c}) = Cardinality(Requester) - 1
  BY <1>1, FS_RemoveElement
<1>5. Cardinality(CW) <= Cardinality(Requester) - 1 /\ Cardinality(CW) \in Nat
  BY <1>2, <1>4, FS_Subset, FS_CardinalityType
<1>6. msgs["client"] = 1 + Cardinality(CA) + Cardinality(CW)
  BY DEF IInv, ClientCounts
<1>7. MsgMax["client"] \in Nat /\ MsgMax["client"] > 2 * Cardinality(Requester)
  BY PoolAssumption, SizeAssumption, Names
<1> QED
  BY <1>1, <1>3, <1>5, <1>6, <1>7

-----------------------------------------------------------------------------
(* A request arrives and its handler is created. *)
LEMMA RequestArrives ==
  ASSUME IInv, NEW m, Received("server", m), Deliver("server", m)
  PROVE  IInv' /\ proc' = proc
<1>0. "server" \in Side /\ "client" \in Side /\ "client" # "server"
      /\ \A p \in Side : p = "client" \/ p = "server"
  BY Names
<1>1. /\ m \in Message
      /\ \E f \in Fragment : InQueue(f, Stream("server")) /\ f.m = m /\ Whole(f)
      /\ enabled["server"] /\ closer["server"] = "none" /\ recv["server"] # "end"
      /\ recv["server"] = "pay" <=> HasPayload(m)
      /\ recv'["server"] = "hdr" /\ cur'["server"] = NoMsg
      /\ \A p \in Side : p # "server" =>
           /\ recv'[p] = recv[p] /\ cur'[p] = cur[p]
           /\ Stream(p)' = Stream(p) /\ msgs'[p] = msgs[p]
      /\ UNCHANGED enabled /\ UNCHANGED closer
      /\ msgs'["server"] = msgs["server"] + 1 /\ TypePool' /\ TypeNet'
      /\ Frames'
      /\ \A f \in Fragment : InQueue(f, Stream("server")') =>
           InQueue(f, Stream("server")) /\ f.m.seq # m.seq
      /\ \A f \in Fragment : IsLast(f, Stream("server")') => IsLast(f, Stream("server"))
      /\ \A f \in Fragment : IsLast(f, Stream("server")) =>
           IsLast(f, Stream("server")') \/ Whole(f)
  BY <1>0, DeliveryFacts
<1> DEFINE n == m.seq
<1>2. n \in SeqId /\ n \in Task /\ n \notin Requester
  BY <1>1, Fields, Names
<1>3. PICK g \in Fragment : InQueue(g, Stream("server")) /\ g.m = m /\ Whole(g)
  BY <1>1
<1>4. RequestOf(g)
  BY <1>3 DEF IInv, Requests
<1>5. m.req /\ pc[n] = "none" /\ \E c \in Requester : msg[c] = m /\ pc[c] = "wait"
  BY <1>3, <1>4 DEF RequestOf
<1>6. PICK c \in Requester : msg[c] = m /\ pc[c] = "wait"
  BY <1>5
<1>7. /\ proc["server"] = "run"
      /\ pc' = [pc EXCEPT ![n] = "ready"]
      /\ msg' = [msg EXCEPT ![n] = AsResponse(m)]
      /\ UNCHANGED resp /\ UNCHANGED hash
      /\ Assert("server", msgs["server"] < MsgMax["server"] /\ (m.req \/ m.seq \in hash))
      /\ UNCHANGED seqid /\ UNCHANGED served /\ UNCHANGED fd /\ UNCHANGED lockVars
      /\ UNCHANGED bufs /\ UNCHANGED losses
  <2>1. NewHandler(m)
    BY <1>5 DEF Deliver
  <2>2. [m EXCEPT !.req = FALSE] = AsResponse(m)
    BY <1>1, Fields
  <2>3. /\ pc' = [pc EXCEPT ![n] = "ready"] /\ msg' = [msg EXCEPT ![n] = AsResponse(m)]
        /\ UNCHANGED resp /\ UNCHANGED hash
    BY <2>1, <2>2 DEF NewHandler
  <2>4. /\ Assert("server", msgs["server"] < MsgMax["server"] /\ (m.req \/ m.seq \in hash))
        /\ UNCHANGED seqid /\ UNCHANGED served /\ UNCHANGED fd /\ UNCHANGED lockVars
        /\ UNCHANGED bufs /\ UNCHANGED losses
    BY DEF Deliver, faultVars
  <2>5. proc["server"] = "run"
    BY DEF Received
  <2> QED
    BY <2>3, <2>4, <2>5
<1>8. /\ pc'[n] = "ready" /\ \A u \in Task : u # n => pc'[u] = pc[u]
      /\ pc' \in [Task -> {"idle", "msg", "wait", "woken", "none", "ready", "done"}
                            \cup Sending]
  BY <1>2, <1>7, PcStep
<1>9. /\ AsResponse(m) \in Message /\ AsResponse(m) # NoMsg /\ AsResponse(m).seq = n
      /\ AsResponse(m).kind = m.kind /\ ~AsResponse(m).req /\ AsRequest(AsResponse(m)) = m
      /\ HasPayload(m) <=> m.kind = "write"
      /\ AsResponse(m) \in [seq : 0..MaxSeq, kind : Kind, req : BOOLEAN]
  <2>1. AsResponse(m) \in Message
    BY <1>1, Fields
  <2>2. AsResponse(m) \in [seq : 0..MaxSeq, kind : Kind, req : BOOLEAN]
    BY <2>1, Names DEF Message, SeqId
  <2> QED
    BY <1>1, <1>5, <2>1, <2>2, Fields
<1>10. TypeTask /\ TypeLock /\ Locks
  BY DEF IInv, Types
<1>11. msg'[n] = AsResponse(m) /\ \A u \in Task : u # n => msg'[u] = msg[u]
  BY <1>2, <1>7, <1>10 DEF TypeTask
<1> HIDE DEF n
<1>12. TypeTask' /\ TypeSeq'
  BY <1>2, <1>7, <1>8, <1>9, <1>10 DEF TypeTask, IInv, Types, TypeSeq
<1>13. msgs["server"] < MsgMax["server"]
  BY <1>1, <1>2, <1>5, <1>6, <1>7, ServerPoolSuffices DEF n
<1>14. proc' = proc /\ (up' <=> up) /\ up' \in BOOLEAN
  <2>1. PICK ok \in BOOLEAN : ok /\ Assert("server", ok)
    BY <1>5, <1>7, <1>13
  <2> QED
    BY <1>0, <1>7, <2>1, AssertFacts
<1>15. /\ \A d \in Requester : d \in Task /\ d # n /\ pc'[d] = pc[d] /\ msg'[d] = msg[d]
       /\ pc[n] \notin Sending /\ pc'[n] \notin Sending
       /\ pc[n] \in {"none"} /\ pc'[n] = "ready"
  BY <1>2, <1>5, <1>8, <1>11, Names DEF Sending, n
<1>16. ClientsStay
  BY <1>7, <1>15 DEF ClientsStay
<1>17. CM' = CM /\ CA' = CA /\ CW' = CW /\ CP' = CP /\ CR' = CR
  BY <1>16, ClientsSame
<1>18. Clients' /\ SeqsApart' /\ ResponseMatches'
  BY <1>7, <1>15, <1>17 DEF IInv, Clients, SeqsApart, ResponseMatches, HasSeq
<1>19. HashIsOutstanding'
  <2>1. {e \in Requester : pc'[e] \in Sending \cup {"wait"}}
          = {e \in Requester : pc[e] \in Sending \cup {"wait"}}
    BY <1>15
  <2>2. {msg'[d].seq : d \in {e \in Requester : pc[e] \in Sending \cup {"wait"}}}
          = {msg[d].seq : d \in {e \in Requester : pc[e] \in Sending \cup {"wait"}}}
    BY <1>15
  <2> QED
    BY <1>1, <1>7, <1>14, <2>1, <2>2 DEF IInv, HashIsOutstanding
<1>20. Handlers'
  <2> SUFFICES ASSUME NEW u \in SeqId
               PROVE  /\ pc'[u] \in HandlerPc
                      /\ pc'[u] # "none" => /\ u < seqid'
                                            /\ msg'[u] # NoMsg /\ msg'[u].seq = u /\ ~msg'[u].req
                      /\ pc'[u] \notin {"none", "ready"} => u \in served'
                      /\ pc'[u] = "pay" => HasPayload(msg'[u])
    BY DEF Handlers
  <2>1. CASE u = n
    <3>1. HasSeq(c) /\ msg[c].seq = n
      BY <1>6 DEF HasSeq, n
    <3>2. n \in 1..(seqid - 1) /\ seqid \in Nat
      BY <3>1, Names DEF IInv, Clients, Types, TypeSeq
    <3>3. n < seqid'
      BY <1>7, <3>2
    <3> QED
      BY <1>8, <1>9, <1>11, <2>1, <3>3 DEF HandlerPc
  <2>2. CASE u # n
    <3>1. pc'[u] = pc[u] /\ msg'[u] = msg[u]
      BY <1>8, <1>11, <2>2, Names
    <3> QED
      BY <1>7, <3>1 DEF IInv, Handlers
  <2> QED
    BY <2>1, <2>2
<1>21. Link'
  BY <1>0, <1>1, <1>7, <1>8, <1>14, DeliveryLink
<1>22. UNCHANGED owner /\ UNCHANGED waiting
  BY <1>7 DEF lockVars
<1>23. Moved(n, SA, SA') /\ Moved(n, SW, SW') /\ Moved(n, SP, SP') /\ Moved(n, SS, SS')
  BY <1>2, <1>8, <1>11, HandlerMoves, Names
<1>24. /\ n \notin SA /\ n \in SA' /\ n \notin SS /\ n \notin SS' /\ n \notin SP /\ n \notin SP'
       /\ n \notin SW /\ (n \in SW' <=> HasPayload(m))
  BY <1>2, <1>8, <1>9, <1>11, <1>15 DEF SA, SS, SP, SW
<1>25. Locks' /\ TypeLock'
  <2>1. TypeLock'
    BY <1>10, <1>22 DEF TypeLock
  <2>2. \A p \in Side : LockOf(p) => LockOf(p)'
    BY <1>2, <1>8, <1>10, <1>15, <1>22, LockAside
  <2>3. Cardinality(SS') = Cardinality(SS)
    BY <1>23, <1>24 DEF Moved
  <2> QED
    BY <1>0, <1>1, <1>10, <1>14, <1>22, <2>1, <2>2, <2>3 DEF Locks
<1>26. Ends'
  <2>1. \A u \in Task : (pc'[u] = "pay" <=> pc[u] = "pay")
                        /\ (pc[u] = "pay" => msg'[u] = msg[u])
    BY <1>8, <1>11, <1>15
  <2>2. \A p \in Side : p # "server" => Stream(p)' = Stream(p)
    BY <1>1
  <2> QED
    BY <1>0, <1>1, <1>14, <2>1, <2>2, DeliveryEnds
<1>27. Requests'
  <2> SUFFICES ASSUME NEW f \in Fragment, InQueue(f, Stream("server")') PROVE RequestOf(f)'
    BY DEF Requests
  <2>1. RequestOf(f) /\ f.m.seq # n
    BY <1>1 DEF IInv, Requests, n
  <2>2. f.m.seq \in Task
    BY FragmentFields, Fields, Names
  <2>3. pc'[f.m.seq] = pc[f.m.seq]
    BY <1>8, <2>1, <2>2
  <2> QED
    BY <1>15, <2>1, <2>3 DEF RequestOf
<1>28. Responses'
  <2> SUFFICES ASSUME NEW f \in Fragment, InQueue(f, Stream("client")') PROVE ResponseOf(f)'
    BY DEF Responses
  <2>1. ResponseOf(f)
    BY <1>0, <1>1 DEF IInv, Responses
  <2>2. f.m.seq \in Task /\ f.m.seq # n
    BY <1>15, <2>1, FragmentFields, Fields, Names DEF ResponseOf
  <2>3. pc'[f.m.seq] = pc[f.m.seq] /\ msg'[f.m.seq] = msg[f.m.seq]
    BY <1>8, <1>11, <2>2
  <2> QED
    BY <1>15, <2>1, <2>3 DEF ResponseOf
<1>29. Stations'
  <2>1. ASSUME NEW d \in Requester, pc'[d] \in Sending \cup {"done"}
        PROVE  pc'[msg'[d].seq] = "none"
    <3>1. pc[d] \in Sending \cup {"done"} /\ d \in Task /\ msg'[d] = msg[d]
      BY <1>15, <2>1
    <3>2. msg[d].seq \in Task
      BY <3>1, SenderMessage, Fields, Names
    <3>3. d # c /\ HasSeq(d) /\ HasSeq(c)
      BY <1>6, <3>1 DEF HasSeq, Sending
    <3>4. msg[d].seq # n
      BY <1>6, <3>3 DEF IInv, SeqsApart, n
    <3>5. pc[msg[d].seq] = "none"
      BY <3>1 DEF IInv, Stations
    <3> QED
      BY <1>8, <3>1, <3>2, <3>4, <3>5
  <2>2. ASSUME NEW u \in SeqId, pc'[u] \in Sending \cup {"ready"}
        PROVE  \E d \in Requester : pc'[d] = "wait" /\ msg'[d] = AsRequest(msg'[u])
    <3>1. CASE u = n
      BY <1>6, <1>9, <1>11, <1>15, <3>1
    <3>2. CASE u # n
      <4>1. pc[u] \in Sending \cup {"ready"} /\ msg'[u] = msg[u]
        BY <1>8, <1>11, <2>2, <3>2, Names
      <4>2. PICK d \in Requester : pc[d] = "wait" /\ msg[d] = AsRequest(msg[u])
        BY <4>1 DEF IInv, Stations
      <4> QED
        BY <1>15, <4>1, <4>2
    <3> QED
      BY <3>1, <3>2
  <2> QED
    BY <2>1, <2>2 DEF Stations
<1>30. Teardown'
  BY <1>1 DEF Teardown
<1>31. NoLoss'
  <2> SUFFICES ASSUME Unbroken' PROVE NoLoss'
    BY DEF NoLoss
  <2>1. Stream("server") # <<>>
    BY <1>3, EmptyStream
  <2>2. up /\ Unbroken
    BY <1>7, <1>14, <2>1 DEF IInv, NoLoss, Unbroken
  <2> QED
    BY <1>7, <1>14, <2>2 DEF IInv, NoLoss, Unbroken
<1>32. (TypeChan /\ TypeProc)'
  BY <1>1, <1>7, <1>14 DEF IInv, Types, TypeChan, TypeProc
<1>33. TypePool /\ ClientCounts /\ ServerCounts
  BY DEF IInv, Types
<1>34. ClientCounts'
  BY <1>0, <1>1, <1>7, <1>14, <1>17, <1>33 DEF ClientCounts
<1>35. ServerCounts'
  <2>1. /\ msgs["server"] = 1 + Cardinality(SA)
        /\ bufs["server"] = One(HasPayload(m)) + Cardinality(SW) + Cardinality(SP)
    BY <1>1, <1>7, <1>33 DEF ServerCounts, One
  <2>2. msgs'["server"] = 1 + Cardinality(SA')
    BY <1>1, <1>23, <1>24, <2>1 DEF Moved
  <2>3. bufs'["server"] = Cardinality(SW') + Cardinality(SP')
    <3>1. Cardinality(SP') = Cardinality(SP) /\ Cardinality(SP) \in Nat
      BY <1>23, <1>24 DEF Moved
    <3>2. CASE HasPayload(m)
      <4>1. One(HasPayload(m)) = 1 /\ Cardinality(SW') = Cardinality(SW) + 1
            /\ Cardinality(SW) \in Nat
        BY <1>23, <1>24, <3>2 DEF Moved, One
      <4> QED
        BY <1>7, <2>1, <3>1, <4>1
    <3>3. CASE ~HasPayload(m)
      <4>1. One(HasPayload(m)) = 0 /\ Cardinality(SW') = Cardinality(SW)
            /\ Cardinality(SW) \in Nat
        BY <1>23, <1>24, <3>3 DEF Moved, One
      <4> QED
        BY <1>7, <2>1, <3>1, <4>1
    <3> QED
      BY <3>2, <3>3
  <2>4. /\ One(recv'["server"] # "end" \/ closer'["server"] = "start") = 1
        /\ One(recv'["server"] = "pay") = 0
    BY <1>1 DEF One
  <2>5. Cardinality(SW') + Cardinality(SP') = 0 + Cardinality(SW') + Cardinality(SP')
    <3>1. Cardinality(SW') \in Nat /\ Cardinality(SP') \in Nat
      BY <1>23 DEF Moved
    <3> QED
      BY <3>1
  <2> QED
    BY <2>2, <2>3, <2>4, <2>5 DEF ServerCounts
<1>50. IInv'
  BY <1>1, <1>12, <1>18, <1>19, <1>20, <1>21, <1>25, <1>26, <1>27, <1>28, <1>29, <1>30,
     <1>31, <1>32, <1>34, <1>35 DEF IInv, Types
<1> QED
  BY <1>14, <1>50

-----------------------------------------------------------------------------
(* A response arrives and its requester is woken. *)
LEMMA ResponseArrives ==
  ASSUME IInv, NEW m, Received("client", m), Deliver("client", m)
  PROVE  IInv' /\ proc' = proc
<1>0. "server" \in Side /\ "client" \in Side /\ "client" # "server"
      /\ \A p \in Side : p = "client" \/ p = "server"
  BY Names
<1>1. /\ m \in Message
      /\ \E f \in Fragment : InQueue(f, Stream("client")) /\ f.m = m /\ Whole(f)
      /\ enabled["client"] /\ closer["client"] = "none" /\ recv["client"] # "end"
      /\ recv["client"] = "pay" <=> HasPayload(m)
      /\ recv'["client"] = "hdr" /\ cur'["client"] = NoMsg
      /\ \A p \in Side : p # "client" =>
           /\ recv'[p] = recv[p] /\ cur'[p] = cur[p]
           /\ Stream(p)' = Stream(p) /\ msgs'[p] = msgs[p]
      /\ UNCHANGED enabled /\ UNCHANGED closer
      /\ msgs'["client"] = msgs["client"] + 1 /\ TypePool' /\ TypeNet'
      /\ Frames'
      /\ \A f \in Fragment : InQueue(f, Stream("client")') =>
           InQueue(f, Stream("client")) /\ f.m.seq # m.seq
      /\ \A f \in Fragment : IsLast(f, Stream("client")') => IsLast(f, Stream("client"))
      /\ \A f \in Fragment : IsLast(f, Stream("client")) =>
           IsLast(f, Stream("client")') \/ Whole(f)
  BY <1>0, DeliveryFacts
<1> DEFINE n == m.seq
<1>2. n \in SeqId /\ n \in Task /\ n \notin Requester /\ n # 0
  BY <1>1, Fields, Names
<1>3. PICK g \in Fragment : InQueue(g, Stream("client")) /\ g.m = m /\ Whole(g)
  BY <1>1
<1>4. ResponseOf(g)
  BY <1>3 DEF IInv, Responses
<1>5. /\ ~m.req /\ pc[n] = "done" /\ m = msg[n]
      /\ \E c \in Requester : msg[c] = AsRequest(m) /\ pc[c] = "wait"
  BY <1>3, <1>4 DEF ResponseOf
<1>6. PICK c \in Requester : msg[c] = AsRequest(m) /\ pc[c] = "wait"
  BY <1>5
<1>7. /\ msg[c].seq = n /\ AsResponse(msg[c]) = m /\ msg[c] \in Message /\ msg[c] # NoMsg
      /\ [msg[c] EXCEPT !.req = FALSE] = m
  <2>1. AsRequest(m) \in Message /\ AsRequest(m).seq = n /\ AsResponse(AsRequest(m)) = m
    BY <1>1, <1>5, Fields
  <2> QED
    BY <1>6, <2>1, Fields
<1>8. \A d \in Requester : d # c /\ msg[d] # NoMsg => msg[d].seq # n
  <2> SUFFICES ASSUME NEW d \in Requester, d # c, msg[d] # NoMsg PROVE msg[d].seq # n
    OBVIOUS
  <2>1. CASE pc[d] = "msg"
    BY <1>2, <2>1 DEF IInv, Clients
  <2>2. CASE pc[d] # "msg"
    <3>1. HasSeq(d) /\ HasSeq(c)
      BY <1>6, <2>2 DEF IInv, Clients, HasSeq
    <3> QED
      BY <1>7, <3>1 DEF IInv, SeqsApart
  <2> QED
    BY <2>1, <2>2
<1>9. proc["client"] = "run"
  BY DEF Received
<1>10. n \in hash
  BY <1>1, <1>6, <1>7, <1>9 DEF IInv, HashIsOutstanding
<1>11. hash_lookup(m.seq) = {c}
  BY <1>7, <1>8, <1>10 DEF hash_lookup
<1>12. /\ hash' = hash \ {n}
       /\ resp' = [d \in Requester |-> IF d = c THEN m ELSE resp[d]]
       /\ pc'   = [u \in Task |-> IF u = c /\ pc[u] = "wait" THEN "woken" ELSE pc[u]]
       /\ UNCHANGED msg
  <2>1. _rpc_response(m)
    BY <1>5 DEF Deliver
  <2> QED
    BY <1>11, <2>1 DEF _rpc_response, hash_rem
<1>13. /\ Assert("client", msgs["client"] < MsgMax["client"] /\ (m.req \/ m.seq \in hash))
       /\ UNCHANGED seqid /\ UNCHANGED served /\ UNCHANGED fd /\ UNCHANGED lockVars
       /\ UNCHANGED bufs /\ UNCHANGED losses
  BY DEF Deliver, faultVars
<1>14. TypeTask /\ TypeSeq /\ TypeLock /\ Locks
  BY DEF IInv, Types
<1>15. /\ pc'[c] = "woken" /\ \A u \in Task : u # c => pc'[u] = pc[u]
       /\ pc' \in [Task -> {"idle", "msg", "wait", "woken", "none", "ready", "done"}
                            \cup Sending]
       /\ resp'[c] = m /\ \A d \in Requester : d # c => resp'[d] = resp[d]
       /\ resp' \in [Requester -> Message \cup {NoMsg}]
       /\ c \in Task
  BY <1>1, <1>6, <1>12, <1>14, Names DEF TypeTask
<1>16. msgs["client"] < MsgMax["client"]
  BY <1>6, <1>9, ClientPoolSuffices
<1>17. proc' = proc /\ (up' <=> up) /\ up' \in BOOLEAN
  <2>1. PICK ok \in BOOLEAN : ok /\ Assert("client", ok)
    BY <1>10, <1>13, <1>16
  <2> QED
    BY <1>0, <1>9, <2>1, AssertFacts
<1> HIDE DEF n
<1>18. TypeTask' /\ TypeSeq'
  BY <1>12, <1>13, <1>14, <1>15 DEF TypeTask, TypeSeq
<1>19. \A t \in SeqId : t \in Task /\ t # c /\ pc'[t] = pc[t] /\ msg'[t] = msg[t]
  BY <1>12, <1>15, Names
<1>20. SA' = SA /\ SW' = SW /\ SP' = SP /\ SS' = SS
  BY <1>19, HandlersSame DEF HandlersStay
<1>21. pc[c] \notin Sending /\ pc'[c] \notin Sending
  BY <1>6, <1>15 DEF Sending
<1>22. Clients'
  <2> SUFFICES ASSUME NEW d \in Requester
               PROVE  /\ pc'[d] \in ClientPc
                      /\ pc'[d] = "idle" <=> msg'[d] = NoMsg
                      /\ msg'[d] # NoMsg => msg'[d].req
                      /\ pc'[d] = "msg" => msg'[d].seq = 0
                      /\ HasSeq(d)' => msg'[d].seq \in 1..(seqid' - 1)
                      /\ pc'[d] = "pay" => HasPayload(msg'[d])
    BY DEF Clients
  <2>1. CASE d = c
    BY <1>6, <1>12, <1>13, <1>15, <2>1 DEF IInv, Clients, HasSeq, ClientPc
  <2>2. CASE d # c
    BY <1>12, <1>13, <1>15, <2>2, Names DEF IInv, Clients, HasSeq
  <2> QED
    BY <2>1, <2>2
<1>23. Handlers'
  BY <1>13, <1>19 DEF IInv, Handlers
<1>24. SeqsApart'
  <2>1. \A d \in Requester : (HasSeq(d)' <=> HasSeq(d)) /\ (pc'[d] = "msg" <=> pc[d] = "msg")
    BY <1>6, <1>15, Names DEF HasSeq
  <2>2. CM' = CM
    BY <2>1 DEF CM
  <2> QED
    BY <1>12, <1>13, <2>1, <2>2 DEF IInv, SeqsApart
<1>25. ResponseMatches'
  <2>1. n \in served
    BY <1>2, <1>5 DEF IInv, Handlers, n
  <2> SUFFICES ASSUME NEW d \in Requester
               PROVE  /\ resp'[d] # NoMsg <=> pc'[d] = "woken"
                      /\ pc'[d] = "woken" => /\ resp'[d] = [msg'[d] EXCEPT !.req = FALSE]
                                             /\ msg'[d].seq \in served'
    BY DEF ResponseMatches
  <2>2. CASE d = c
    BY <1>1, <1>7, <1>12, <1>13, <1>15, <2>1, <2>2, Fields
  <2>3. CASE d # c
    BY <1>12, <1>13, <1>15, <2>3, Names DEF IInv, ResponseMatches
  <2> QED
    BY <2>2, <2>3
<1>26. HashIsOutstanding'
  <2> DEFINE T == {e \in Requester : pc[e] \in Sending \cup {"wait"}}
  <2>1. hash = {msg[d].seq : d \in T}
    BY <1>1, <1>9 DEF IInv, HashIsOutstanding
  <2>2. {e \in Requester : pc'[e] \in Sending \cup {"wait"}} = T \ {c}
    BY <1>6, <1>15, <1>21, Names
  <2>3. \A d \in T : msg[d] # NoMsg
    BY DEF IInv, Clients, Sending
  <2>4. hash \ {n} = {msg[d].seq : d \in T \ {c}}
    BY <1>7, <1>8, <2>1, <2>3
  <2> HIDE DEF T
  <2>5. hash' = {msg'[d].seq : d \in T \ {c}}
    BY <1>12, <2>4
  <2> QED
    BY <2>2, <2>5 DEF HashIsOutstanding
<1>27. Link'
  BY <1>0, <1>1, <1>13, <1>15, <1>17, DeliveryLink
<1>28. UNCHANGED owner /\ UNCHANGED waiting
  BY <1>13 DEF lockVars
<1>29. Locks' /\ TypeLock'
  <2>1. TypeLock'
    BY <1>14, <1>28 DEF TypeLock
  <2>2. \A p \in Side : LockOf(p) => LockOf(p)'
    BY <1>14, <1>15, <1>21, <1>28, LockAside
  <2> QED
    BY <1>0, <1>1, <1>14, <1>17, <1>20, <1>28, <2>1, <2>2 DEF Locks
<1>30. Ends'
  <2>1. \A u \in Task : (pc'[u] = "pay" <=> pc[u] = "pay")
                        /\ (pc[u] = "pay" => msg'[u] = msg[u])
    BY <1>6, <1>12, <1>15
  <2>2. \A p \in Side : p # "client" => Stream(p)' = Stream(p)
    BY <1>1
  <2> QED
    BY <1>0, <1>1, <1>17, <2>1, <2>2, DeliveryEnds
<1>31. \A d \in Requester : d # c => pc'[d] = pc[d] /\ msg'[d] = msg[d]
  BY <1>12, <1>15, Names
<1>32. Requests'
  <2> SUFFICES ASSUME NEW f \in Fragment, InQueue(f, Stream("server")') PROVE RequestOf(f)'
    BY DEF Requests
  <2>1. RequestOf(f)
    BY <1>0, <1>1 DEF IInv, Requests
  <2>2. f.m.seq \in SeqId
    BY FragmentFields, Fields
  <2>3. PICK d \in Requester : /\ msg[d] = f.m /\ pc[d] \in {"pay", "err", "done", "wait"}
                               /\ Whole(f) => pc[d] = "wait"
    BY <2>1 DEF RequestOf
  <2>4. d # c
    BY <1>5, <1>7, <2>1, <2>3 DEF RequestOf, n
  <2>5. pc'[f.m.seq] = "none" /\ f.m.req
    BY <1>19, <2>1, <2>2 DEF RequestOf
  <2>6. msg'[d] = f.m /\ pc'[d] = pc[d]
    BY <1>31, <2>3, <2>4
  <2> QED
    BY <2>3, <2>5, <2>6 DEF RequestOf
<1>33. Responses'
  <2> SUFFICES ASSUME NEW f \in Fragment, InQueue(f, Stream("client")') PROVE ResponseOf(f)'
    BY DEF Responses
  <2>1. ResponseOf(f) /\ f.m.seq # n
    BY <1>1 DEF IInv, Responses, n
  <2>2. f.m.seq \in SeqId /\ AsRequest(f.m).seq = f.m.seq
    BY FragmentFields, Fields
  <2>3. PICK d \in Requester : pc[d] = "wait" /\ msg[d] = AsRequest(f.m)
    BY <2>1 DEF ResponseOf
  <2>4. d # c
    BY <1>7, <2>1, <2>2, <2>3
  <2>5. pc'[d] = "wait" /\ msg'[d] = AsRequest(f.m)
    BY <1>31, <2>3, <2>4
  <2>6. pc'[f.m.seq] = pc[f.m.seq] /\ msg'[f.m.seq] = msg[f.m.seq]
    BY <1>19, <2>2
  <2> QED
    BY <2>1, <2>5, <2>6 DEF ResponseOf
<1>34. Stations'
  <2>1. ASSUME NEW d \in Requester, pc'[d] \in Sending \cup {"done"}
        PROVE  pc'[msg'[d].seq] = "none"
    <3>1. d # c
      BY <1>15, <1>21, <2>1
    <3>2. pc[d] \in Sending \cup {"done"} /\ d \in Task /\ msg'[d] = msg[d]
      BY <1>31, <2>1, <3>1, Names
    <3>3. msg[d].seq \in SeqId
      BY <3>2, SenderMessage, Fields
    <3>4. pc[msg[d].seq] = "none"
      BY <3>2 DEF IInv, Stations
    <3> QED
      BY <1>19, <3>2, <3>3, <3>4
  <2>2. ASSUME NEW u \in SeqId, pc'[u] \in Sending \cup {"ready"}
        PROVE  \E d \in Requester : pc'[d] = "wait" /\ msg'[d] = AsRequest(msg'[u])
    <3>1. pc[u] \in Sending \cup {"ready"} /\ msg'[u] = msg[u]
      BY <1>19, <2>2
    <3>2. PICK d \in Requester : pc[d] = "wait" /\ msg[d] = AsRequest(msg[u])
      BY <3>1 DEF IInv, Stations
    <3>3. msg[u] \in Message /\ msg[u].seq = u /\ AsRequest(msg[u]).seq = u
      BY <3>1, SenderMessage, Fields, Names
    <3>4. u # n
      BY <1>5, <3>1 DEF Sending, n
    <3>5. d # c
      BY <1>7, <3>2, <3>3, <3>4
    <3> QED
      BY <1>31, <3>1, <3>2, <3>5
  <2> QED
    BY <2>1, <2>2 DEF Stations
<1>35. Teardown'
  BY <1>1, <1>17, <1>19 DEF IInv, Teardown
<1>36. NoLoss'
  <2> SUFFICES ASSUME Unbroken' PROVE NoLoss'
    BY DEF NoLoss
  <2>1. up /\ Unbroken
    BY <1>9, <1>13, <1>17 DEF IInv, NoLoss, Unbroken
  <2> QED
    BY <1>13, <1>17, <2>1 DEF IInv, NoLoss, Unbroken
<1>37. (TypeChan /\ TypeProc)'
  BY <1>1, <1>13, <1>17 DEF IInv, Types, TypeChan, TypeProc
<1>38. TypePool /\ ClientCounts /\ ServerCounts
  BY DEF IInv, Types
<1>39. ServerCounts'
  BY <1>0, <1>1, <1>13, <1>17, <1>20, <1>38 DEF ServerCounts
<1>40. Moved(c, CA, CA') /\ Moved(c, CW, CW') /\ Moved(c, CP, CP') /\ Moved(c, CR, CR')
  BY <1>15, <1>31, ClientMoves
<1>41. /\ c \in CA /\ c \in CA' /\ c \notin CW /\ c \in CW' /\ (c \in CP <=> c \in CP')
       /\ c \notin CR /\ (c \in CR' <=> HasPayload(m))
  BY <1>6, <1>12, <1>15 DEF CA, CW, CP, CR
<1>42. ClientCounts'
  <2>1. /\ msgs["client"] = 1 + Cardinality(CA) + Cardinality(CW)
        /\ bufs["client"] = One(HasPayload(m)) + Cardinality(CP) + Cardinality(CR)
    BY <1>1, <1>9, <1>38 DEF ClientCounts, One
  <2>2. /\ Cardinality(CA') = Cardinality(CA) /\ Cardinality(CA) \in Nat
        /\ Cardinality(CW') = Cardinality(CW) + 1 /\ Cardinality(CW) \in Nat
        /\ Cardinality(CP') = Cardinality(CP) /\ Cardinality(CP) \in Nat
    BY <1>40, <1>41 DEF Moved
  <2>3. msgs'["client"] = 1 + Cardinality(CA') + Cardinality(CW')
    BY <1>1, <2>1, <2>2
  <2>4. bufs'["client"] = Cardinality(CP') + Cardinality(CR')
    <3>2. CASE HasPayload(m)
      <4>1. One(HasPayload(m)) = 1 /\ Cardinality(CR') = Cardinality(CR) + 1
            /\ Cardinality(CR) \in Nat
        BY <1>40, <1>41, <3>2 DEF Moved, One
      <4> QED
        BY <1>13, <2>1, <2>2, <4>1
    <3>3. CASE ~HasPayload(m)
      <4>1. One(HasPayload(m)) = 0 /\ Cardinality(CR') = Cardinality(CR)
            /\ Cardinality(CR) \in Nat
        BY <1>40, <1>41, <3>3 DEF Moved, One
      <4> QED
        BY <1>13, <2>1, <2>2, <4>1
    <3> QED
      BY <3>2, <3>3
  <2>5. One(recv'["client"] = "pay") = 0
    BY <1>1 DEF One
  <2>6. Cardinality(CP') + Cardinality(CR') = 0 + Cardinality(CP') + Cardinality(CR')
    <3>1. Cardinality(CP') \in Nat /\ Cardinality(CR') \in Nat
      BY <1>40 DEF Moved
    <3> QED
      BY <3>1
  <2> QED
    BY <2>3, <2>4, <2>5, <2>6 DEF ClientCounts
<1>50. IInv'
  BY <1>1, <1>18, <1>22, <1>23, <1>24, <1>25, <1>26, <1>27, <1>29, <1>30, <1>32, <1>33,
     <1>34, <1>35, <1>36, <1>37, <1>39, <1>42 DEF IInv, Types
<1> QED
  BY <1>17, <1>50

(* rpc_recv_task delivers a message without payload, or one with. *)
LEMMA ReadKeeps ==
  ASSUME IInv, NEW s \in Side, ReadHdr(s) \/ ReadPay(s)
  PROVE  IInv' /\ proc' = proc
<1>1. PICK m : Received(s, m) /\ Deliver(s, m)
  BY DEF ReadHdr, ReadPay, CanRead, Received
<1> QED
  BY <1>1, RequestArrives, ResponseArrives, Names

-----------------------------------------------------------------------------
(* The invariant holds when the connection is made. *)
LEMMA RpcInvInit ==
  ASSUME Init
  PROVE  IInv
<1>1. /\ pc = [t \in Task |-> IF t \in Requester THEN "idle" ELSE "none"]
      /\ msg = [t \in Task |-> NoMsg] /\ resp = [c \in Requester |-> NoMsg]
      /\ seqid = 1 /\ hash = {} /\ served = {} /\ up = TRUE /\ losses = 0
      /\ wire = [s \in Side |-> <<>>] /\ fd = [s \in Side |-> TRUE]
      /\ enabled = [s \in Side |-> TRUE] /\ owner = [s \in Side |-> NoTask]
      /\ waiting = [s \in Side |-> <<>>] /\ msgs = [s \in Side |-> 1]
      /\ bufs = [s \in Side |-> 0] /\ recv = [s \in Side |-> "hdr"]
      /\ cur = [s \in Side |-> NoMsg] /\ closer = [s \in Side |-> "none"]
      /\ proc = [s \in Side |-> "run"]
  BY DEF Init
<1>2. /\ \A c \in Requester : pc[c] = "idle" /\ msg[c] = NoMsg /\ resp[c] = NoMsg
      /\ \A t \in SeqId : pc[t] = "none" /\ t \in Task
      /\ \A t \in Task : pc[t] \in {"idle", "none"}
      /\ \A s \in Side : /\ wire[s] = <<>> /\ fd[s] /\ enabled[s] /\ owner[s] = NoTask
                         /\ waiting[s] = <<>> /\ msgs[s] = 1 /\ bufs[s] = 0
                         /\ recv[s] = "hdr" /\ cur[s] = NoMsg /\ closer[s] = "none"
                         /\ proc[s] = "run"
      /\ up
  BY <1>1, Names
<1>3. Types
  <2>1. TypeTask
    BY <1>1 DEF TypeTask
  <2>2. TypeSeq /\ TypePool /\ TypeChan
    BY <1>1, Names DEF TypeSeq, TypePool, TypeChan
  <2>3. TypeProc
    BY <1>1, BoundAssumption DEF TypeProc
  <2>4. TypeNet /\ TypeLock
    BY <1>1 DEF TypeNet, TypeLock
  <2> QED
    BY <2>1, <2>2, <2>3, <2>4 DEF Types
<1>4. Clients /\ Handlers /\ Stations
  BY <1>2 DEF Clients, Handlers, Stations, ClientPc, HandlerPc, HasSeq, Sending
<1>5. /\ CM = {} /\ CA = {} /\ CW = {} /\ CP = {} /\ CR = {}
      /\ SA = {} /\ SW = {} /\ SP = {} /\ SS = {}
  BY <1>2 DEF CM, CA, CW, CP, CR, SA, SW, SP, SS, Sending
<1>6. Cardinality({}) = 0
  BY FS_EmptySet
<1>7. SeqsApart
  BY <1>1, <1>2, <1>5, <1>6, Names DEF SeqsApart, HasSeq
<1>8. Link
  BY <1>2 DEF Link
<1>9. \A s \in Side : LockOf(s)
  BY <1>2, EmptyQueue DEF LockOf
<1>10. Locks
  <2>1. One(owner["server"] # NoTask) + Len(waiting["server"]) <= Cardinality(SS)
    <3>1. One(owner["server"] # NoTask) = 0
      BY <1>2, Names DEF One
    <3>2. Len(waiting["server"]) = 0
      BY <1>2, Names
    <3>3. Cardinality(SS) = 0
      BY <1>5, <1>6
    <3> QED
      BY <3>1, <3>2, <3>3
  <2> QED
    BY <1>2, <1>9, <2>1, Names DEF Locks
<1>11. \A s \in Side : Stream(s) = <<>>
  BY <1>2 DEF Stream
<1>12. Frames /\ Requests /\ Responses
  BY <1>11, EmptyStream, Names DEF Frames, Requests, Responses
<1>13. Ends
  BY <1>2, <1>11, EmptyStream DEF Ends
<1>14. ResponseMatches
  BY <1>2 DEF ResponseMatches
<1>15. HashIsOutstanding
  <2>1. {d \in Requester : pc[d] \in Sending \cup {"wait"}} = {}
    BY <1>2 DEF Sending
  <2> QED
    BY <1>1, <2>1 DEF HashIsOutstanding
<1>16. ClientCounts /\ ServerCounts
  BY <1>2, <1>5, <1>6, Names DEF ClientCounts, ServerCounts, One
<1>17. Teardown /\ NoLoss
  BY <1>2, Names DEF Teardown, NoLoss, Unbroken
<1> QED
  BY <1>3, <1>4, <1>7, <1>8, <1>10, <1>12, <1>13, <1>14, <1>15, <1>16, <1>17 DEF IInv

(* Every step keeps it. *)
LEMMA RpcInvNext ==
  ASSUME IInv, [Next]_vars
  PROVE  IInv'
<1>1. ASSUME NEW t \in Task, SendStep(t) PROVE IInv'
  BY <1>1, WakeupKeeps, SendHdrKeeps, SendLastKeeps, SendFailKeeps, SendErrorKeeps
     DEF SendStep
<1>2. ASSUME NEW c \in Requester, ClientStep(c) PROVE IInv'
  BY <1>1, <1>2, RequestKeeps, RequestDoneKeeps, Names DEF ClientStep
<1>3. ASSUME NEW c \in Requester, NEW k \in Kind, rpc_databuf_get(c, k) PROVE IInv'
  BY <1>3, DatabufGetKeeps
<1>4. ASSUME NEW t \in SeqId, HandlerStep(t) PROVE IInv'
  BY <1>1, <1>4, MsgHandlerKeeps, Names DEF HandlerStep
<1>5. ASSUME NEW s \in Side, RecvStep(s) PROVE IInv'
  BY <1>5, ReadKeeps, ReadBigHdrKeeps, ReadBufKeeps, ReadFailKeeps DEF RecvStep
<1>6. ASSUME NEW s \in Side, CloseStep(s) PROVE IInv'
  BY <1>6, ConnClosedKeeps, DeinitMsgpoolKeeps, DeinitDatapoolKeeps DEF CloseStep
<1>7. CASE client_exit
  BY <1>7, ClientExitKeeps
<1>8. CASE LinkDown
  BY <1>8, LinkDownKeeps
<1>9. CASE UNCHANGED vars
  BY <1>9, StutterKeeps
<1> QED
  BY <1>2, <1>3, <1>4, <1>5, <1>6, <1>7, <1>8, <1>9 DEF Next

(* The state of a connection and its two programs is always in order:      *)
(* tasks, lock, streams, hash table and pools agree.                       *)
THEOREM Invariance == Spec => []IInv
<1>1. Init => IInv
  BY RpcInvInit
<1>2. IInv /\ [Next]_vars => IInv'
  BY RpcInvNext
<1> QED
  BY <1>1, <1>2, PTL DEF Spec

(* The variables of rpc.c keep their types. *)
THEOREM TypeCorrect == Spec => []TypeOK
<1>1. IInv /\ failed \subseteq SeqId => TypeOK
  BY DEF IInv, Types, TypeTask, TypeSeq, TypeNet, TypeLock, TypePool, TypeChan, TypeProc,
         TypeOK, Fragment
<1>2. Init => failed \subseteq SeqId
  BY DEF Init
<1>3. failed \subseteq SeqId /\ [Next]_vars => (failed \subseteq SeqId)'
  <2> SUFFICES ASSUME failed \subseteq SeqId, [Next]_vars
               PROVE  failed' = failed \/ \E t \in SeqId : failed' = failed \cup {t}
    OBVIOUS
  <2>1. ASSUME NEW t \in SeqId, rpc_msg_handler(t)
        PROVE  failed' = failed \/ failed' = failed \cup {t}
    BY <2>1 DEF rpc_msg_handler, DeviceFails
  <2>2. ASSUME NEW t \in Task, SendStep(t) PROVE failed' = failed
    BY <2>2 DEF SendStep, qlock_wakeup, SendHdr, SendLast, SendFail, SendError, faultVars
  <2>3. ASSUME NEW c \in Requester, NEW k \in Kind,
               rpc_databuf_get(c, k) \/ rpc_request(c) \/ rpc_request_done(c)
        PROVE  failed' = failed
    BY <2>3 DEF rpc_databuf_get, rpc_request, rpc_request_done, faultVars
  <2>4. ASSUME NEW c \in Requester, ClientStep(c) PROVE failed' = failed
    <3>1. c \in Task
      BY Names
    <3> QED
      BY <2>2, <2>4, <3>1 DEF ClientStep, rpc_request, rpc_request_done, faultVars
  <2>5. ASSUME NEW s \in Side, RecvStep(s) \/ CloseStep(s) PROVE failed' = failed
    BY <2>5 DEF RecvStep, CloseStep, ReadHdr, ReadBigHdr, ReadBuf, ReadPay, ReadFail,
                Deliver, rpc_conn_closed, default_handler, ConnClosed, deinit_msgpool,
                deinit_datapool, faultVars
  <2>6. CASE client_exit \/ LinkDown \/ UNCHANGED vars
    BY <2>6 DEF client_exit, LinkDown, vars, faultVars
  <2>7. \A t \in SeqId : t \in Task
    BY Names
  <2> QED
    BY <2>1, <2>2, <2>3, <2>4, <2>5, <2>6, <2>7 DEF Next, HandlerStep
<1> QED
  BY <1>1, <1>2, <1>3, Invariance, PTL DEF Spec

(* rpc_recv_task finds a header where it reads one, and after it the       *)
(* payload of the same message, however the writers of the other side      *)
(* interleave.                                                             *)
THEOREM FramesIntactHolds == Spec => []FramesIntact
<1>1. IInv => FramesIntact
  <2> SUFFICES ASSUME IInv, NEW s \in Side, wire[s] # <<>>
               PROVE  CASE recv[s] = "hdr" -> Head(wire[s]).part = "hdr"
                        [] recv[s] \in {"buf", "pay"} ->
                             Head(wire[s]) = [m |-> cur[s], part |-> "pay"]
                        [] OTHER -> TRUE
    BY DEF FramesIntact
  <2>1. /\ recv[s] = "hdr" => Head(wire[s]).part = "hdr"
        /\ recv[s] \in {"buf", "pay"} => Head(wire[s]) = [m |-> cur[s], part |-> "pay"]
    BY HeadOfWire DEF IInv, Frames
  <2>2. recv[s] \in {"hdr", "buf", "pay", "end"}
    BY DEF IInv, Types, TypeNet
  <2> QED
    BY <2>1, <2>2
<1> QED
  BY <1>1, Invariance, PTL

(* rpc_request returns with the response to its own request, which the     *)
(* server has executed, and no wake-up comes before the sleep.             *)
THEOREM ResponseMatchesHolds == Spec => []ResponseMatches
<1>1. IInv => ResponseMatches
  BY DEF IInv
<1> QED
  BY <1>1, Invariance, PTL

(* The hash table of an enabled channel holds the requests that are        *)
(* waited for, and no other.                                               *)
THEOREM HashIsOutstandingHolds == Spec => []HashIsOutstanding
<1>1. IInv => HashIsOutstanding
  BY DEF IInv
<1> QED
  BY <1>1, Invariance, PTL

(* Messages and data buffers are neither leaked nor put twice, on any path *)
(* through rpc.c.                                                          *)
THEOREM BuffersAccountedHolds == Spec => []BuffersAccounted
<1>1. IInv => ClientBuffers
  BY DEF IInv, ClientCounts, ClientBuffers, Count, CA, CW, CP, CR
<1>2. IInv => ServerBuffers
  BY DEF IInv, ServerCounts, ServerBuffers, Count, SA, SW, SP
<1>3. IInv => BuffersAccounted
  BY <1>1, <1>2 DEF BuffersAccounted
<1> QED
  BY <1>3, Invariance, PTL

(* rpc_chan_deinit leaves the message pool when no handler can touch the   *)
(* channel: none is on its way, none has the lock or waits for it, and no  *)
(* data buffer is out.                                                     *)
THEOREM TeardownIsSafeHolds == Spec => []TeardownIsSafe
<1>1. IInv => TeardownIsSafe
  <2> SUFFICES ASSUME IInv, proc["server"] = "run", closer["server"] \in {"data", "done"}
               PROVE  /\ recv["server"] = "end"
                      /\ \A t \in SeqId : pc[t] \in {"none", "done"}
                      /\ bufs["server"] = 0
                      /\ owner["server"] = NoTask /\ waiting["server"] = <<>>
    BY DEF TeardownIsSafe
  <2>1. recv["server"] = "end"
    BY Names DEF IInv, Link
  <2>2. \A t \in SeqId : pc[t] \in {"none", "done"}
    BY DEF IInv, Teardown
  <2>3. SS = {} /\ SW = {} /\ SP = {}
    BY <2>2 DEF SS, SW, SP, Sending
  <2>4. Cardinality({}) = 0
    BY FS_EmptySet
  <2>5. bufs["server"] = 0
    BY <2>1, <2>3, <2>4 DEF IInv, ServerCounts, One
  <2>6. /\ owner["server"] = NoTask => waiting["server"] = <<>>
        /\ One(owner["server"] # NoTask) + Len(waiting["server"]) <= 0
    BY <2>3, <2>4 DEF IInv, Locks
  <2>7. Len(waiting["server"]) \in Nat
    BY Names DEF IInv, Types, TypeLock
  <2>8. owner["server"] = NoTask
    <3>1. owner["server"] # NoTask => One(owner["server"] # NoTask) = 1
      BY DEF One
    <3> QED
      BY <2>6, <2>7, <3>1
  <2> QED
    BY <2>1, <2>2, <2>5, <2>6, <2>8
<1> QED
  BY <1>1, Invariance, PTL

-----------------------------------------------------------------------------
(* The asserts in a step over a connection that holds: all are true, but   *)
(* the one on the read that the device fails, and the one on the status of *)
(* the response to a write that it has failed.                             *)
LEMMA StepExplained ==
  ASSUME IInv, [Next]_vars, Unbroken, NEW s \in Side, proc[s] = "run", proc'[s] = "abort"
  PROVE  \/ s = "server" /\ \E t \in failed' : pc[t] = "ready" /\ msg[t].kind = "read"
         \/ s = "client" /\ \E c \in Requester : /\ pc[c] = "woken" /\ pc'[c] = "idle"
                                                  /\ resp[c].seq \in failed
<1>1. proc' # proc /\ (s = "client" \/ s = "server")
  BY Names
<1>2. ASSUME NEW t \in Task, SendStep(t) PROVE FALSE
  <2>1. proc[Home(t)] = "run" /\ pc[t] \in Sending
    BY <1>2 DEF SendStep, qlock_wakeup, SendHdr, SendLast, SendFail, SendError,
                task_netwrite, Sending
  <2>2. up
    BY <2>1, Names DEF IInv, NoLoss, Sending
  <2> QED
    BY <1>1, <1>2, <2>2, WakeupKeeps, SendHdrKeeps, SendLastKeeps, SendFailKeeps,
       SendErrorKeeps DEF SendStep
<1>3. ASSUME NEW c \in Requester, ClientStep(c)
      PROVE  /\ s = "client" /\ pc[c] = "woken" /\ pc'[c] = "idle"
             /\ resp[c].seq \in failed
  <2>1. c \in Task /\ "client" \in Side
    BY Names
  <2>2. CASE rpc_request(c)
    <3>1. up
      BY <2>2 DEF rpc_request, IInv, NoLoss
    <3> QED
      BY <1>1, <2>2, <3>1, RequestKeeps
  <2>3. CASE rpc_request_done(c)
    <3>1. /\ proc["client"] = "run" /\ pc[c] = "woken" /\ pc' = [pc EXCEPT ![c] = "idle"]
          /\ Assert("client", resp[c].seq \notin failed)
      BY <2>3 DEF rpc_request_done
    <3>2. pc'[c] = "idle"
      BY <2>1, <3>1 DEF IInv, Types, TypeTask
    <3>3. PICK ok \in BOOLEAN : (ok <=> resp[c].seq \notin failed) /\ Assert("client", ok)
      BY <3>1
    <3>4. /\ ok => proc' = proc
          /\ \A p \in Side : p # "client" => proc'[p] = proc[p]
      BY <2>1, <3>1, <3>3, AssertFacts
    <3> QED
      BY <1>1, <3>1, <3>2, <3>3, <3>4
  <2> QED
    BY <1>2, <1>3, <2>1, <2>2, <2>3 DEF ClientStep
<1>4. ASSUME NEW t \in SeqId, rpc_msg_handler(t)
      PROVE  s = "server" /\ t \in failed' /\ pc[t] = "ready" /\ msg[t].kind = "read"
  <2>1. proc["server"] = "run" /\ pc[t] = "ready"
    BY <1>4 DEF rpc_msg_handler
  <2>2. up
    BY <2>1 DEF IInv, NoLoss
  <2>3. proc'["client"] = proc["client"] /\ t \in failed' /\ msg[t].kind = "read"
    BY <1>1, <1>4, <2>2, MsgHandlerKeeps
  <2> QED
    BY <1>1, <2>1, <2>3
<1>5. ASSUME NEW p \in Side, RecvStep(p) PROVE FALSE
  <2>1. ReadBigHdr(p) \/ ReadBuf(p) \/ ReadFail(p) => proc' = proc
    BY DEF ReadBigHdr, ReadBuf, ReadFail
  <2>2. ReadHdr(p) \/ ReadPay(p) => proc' = proc
    BY ReadKeeps
  <2> QED
    BY <1>1, <1>5, <2>1, <2>2 DEF RecvStep
<1>6. ASSUME NEW p \in Side, CloseStep(p) PROVE FALSE
  <2>1. CASE deinit_datapool(p)
    <3>1. /\ proc[p] = "run" /\ closer[p] = "data"
          /\ Assert(p, p = "client" => hash = {})
      BY <2>1 DEF deinit_datapool
    <3>2. ~up
      BY <3>1 DEF IInv, Link
    <3>3. p # "client"
      BY <3>1, <3>2 DEF IInv, NoLoss
    <3>4. PICK ok \in BOOLEAN : ok /\ Assert(p, ok)
      BY <3>1, <3>3
    <3> QED
      BY <1>1, <3>1, <3>4, AssertFacts
  <2>2. CASE deinit_msgpool(p) \/ rpc_conn_closed \/ default_handler
    BY <1>1, <2>2 DEF deinit_msgpool, rpc_conn_closed, default_handler, ConnClosed
  <2> QED
    BY <1>6, <2>1, <2>2 DEF CloseStep
<1>7. CASE client_exit
  <2>1. proc' = [proc EXCEPT !["client"] = "exit"] /\ proc \in [Side -> {"run", "abort", "exit"}]
    BY <1>7 DEF client_exit, IInv, Types, TypeProc
  <2>2. proc'["client"] = "exit" /\ proc'["server"] = proc["server"]
    BY <2>1, Names
  <2> QED
    BY <1>1, <2>2
<1>8. CASE LinkDown \/ UNCHANGED vars \/ \E c \in Requester, k \in Kind : rpc_databuf_get(c, k)
  BY <1>1, <1>8 DEF LinkDown, vars, rpc_databuf_get
<1>9. \A t \in SeqId : t \in Task
  BY Names
<1> QED
  BY <1>2, <1>3, <1>4, <1>5, <1>6, <1>7, <1>8, <1>9 DEF Next, HandlerStep

(* Over a connection that holds, and with a peer that has not aborted, a   *)
(* process aborts because of its device only: the pools of rpc_chan_init   *)
(* suffice, no response is an orphan, no lock is freed that was not taken, *)
(* no request is refused.                                                  *)
THEOREM AbortExplainedHolds == Spec => AbortExplained
<1> DEFINE A(s) ==
      losses = 0 /\ proc[Peer(s)] # "abort" /\ proc[s] = "run" /\ proc'[s] = "abort" =>
        \/ s = "server" /\ \E t \in failed' : pc[t] = "ready" /\ msg[t].kind = "read"
        \/ s = "client" /\ \E c \in Requester : /\ pc[c] = "woken" /\ pc'[c] = "idle"
                                                 /\ resp[c].seq \in failed
<1>1. ASSUME IInv, [Next]_vars, NEW s \in Side,
             losses = 0, proc[Peer(s)] # "abort", proc[s] = "run", proc'[s] = "abort"
      PROVE  A(s)
  <2>1. Unbroken
    BY <1>1, Names DEF Unbroken
  <2> QED
    BY <1>1, <2>1, StepExplained
<1>2. IInv /\ [Next]_vars => \A s \in Side : A(s)
  BY <1>1
<1>3. IInv /\ [Next]_vars => [\A s \in Side : A(s)]_vars
  BY <1>2
<1> QED
  BY <1>3, Invariance, PTL DEF Spec, AbortExplained

=============================================================================
