---------------------------- MODULE SessionProofs ---------------------------
(***************************************************************************)
(* Proofs about the session of the iosplitter in its thread, for any       *)
(* number of tasks and requests and any room for answers: no task is lost, *)
(* who waits for a descriptor waits for what has not happened or has been  *)
(* reported, somebody will unlock the lock and drain the buffer pool, and  *)
(* an assert fails only when the peer has closed the connection or its     *)
(* number was taken.  Last the invariants of the whole thread, whichever   *)
(* of its programs it runs.                                                *)
(***************************************************************************)
EXTENDS LibtaskProofs

(***************************************************************************)
(* The session.  Its tasks: the first, which sleeps on t->cond, aiotask,   *)
(* the receiver, the handlers, and the handler of CONNCLOSED.              *)
(***************************************************************************)
RecvPcs == {"recv", "receive", "reading"}
ShutPcs == {"close out", "dereg in", "dereg out", "close end"}  \* the number is closed
ClosePcs == {"close in"} \cup ShutPcs
EndPcs   == {"deinit", "drained"}
WritePcs == {"write", "writing", "unlock"}
OwnerPcs == {"locked"} \cup WritePcs \cup ClosePcs
BusyPcs  == {"reading", "closed", "handler"} \cup OwnerPcs      \* there is a message
SessPcs  == {"done", "closed", "handler"} \cup RecvPcs \cup OwnerPcs \cup EndPcs \cup AioPcs

SessRec ==
  [num : {"mine", "free", "rival"}, window : BOOLEAN, robbed : BOOLEAN, harm : BOOLEAN,
   peer : {"new", "open", "closed"}, sent : Nat, inbuf : Nat, out : Nat, pending : BOOLEAN,
   nospace : BOOLEAN, epoll : {"none", "on", "closed"}, set : BOOLEAN, ctx : BOOLEAN,
   reader : Tasks \cup {Nobody}, writer : Tasks \cup {Nobody}, enabled : BOOLEAN,
   fd : BOOLEAN, lock : [owner : Tasks \cup {Nobody}, waiting : Seq(Tasks)], msgs : Nat,
   closer : Tasks \cup {Nobody}, cond : Seq(Tasks), deinit : Seq(Tasks)]

SessWaiting(x) ==
  {t \in Tasks : \/ t = x.reader \/ t = x.writer \/ InQueue(t, x.lock.waiting)
                 \/ InQueue(t, x.cond) \/ InQueue(t, x.deinit)}

(* The lists, and the bounds of the client. *)
Listed(x) ==
  /\ x \in SessRec /\ x.sent <= MaxReq /\ x.out <= Cap /\ x.epoll # "none"
  /\ Distinct(x.lock.waiting, Tasks) /\ Distinct(x.deinit, Tasks)
  /\ \E d \in Tasks : x.cond = <<d>>

(* What the connection, the descriptor and the channel say of each other. *)
Conn(x) ==
  /\ x.num = "mine" => x.ctx /\ x.set /\ x.fd
  /\ ~x.enabled => x.num # "mine" \/ x.peer = "closed"
  /\ x.num # "mine" => x.robbed \/ ~x.enabled
  /\ x.reader # Nobody \/ x.writer # Nobody => x.ctx
  /\ x.peer # "new"
  /\ x.deinit # <<>> => x.msgs > 0

(* What is ready for a task that waits for our socket will be reported. *)
Edge(x) ==
  x.num = "mine" =>
    /\ x.reader # Nobody /\ (x.inbuf > 0 \/ x.peer = "closed") => x.pending
    /\ x.writer # Nobody /\ (x.out < Cap \/ x.peer = "closed") => x.pending
    /\ x.writer # Nobody /\ x.out = Cap => x.nospace \/ x.peer = "closed"

(* What the place of a task means. *)
SessAt(pc, st, x, t) ==
  /\ st[t] = "live" => pc[t] \in SessPcs
  /\ t = x.reader => pc[t] = "reading"
  /\ t = x.writer => pc[t] = "writing"
  /\ InQueue(t, x.lock.waiting) => pc[t] = "locked"
  /\ InQueue(t, x.cond) <=> pc[t] = "done"
  /\ InQueue(t, x.deinit) => pc[t] = "drained"
  /\ pc[t] \in EndPcs => t = x.closer
  /\ pc[t] = "drained" => InQueue(t, x.deinit) \/ x.msgs = 0
  /\ pc[t] \in ShutPcs => ~x.enabled /\ x.num # "mine"
  /\ pc[t] = "closed" \/ t = x.closer => ~x.enabled
  /\ x.enabled /\ pc[t] \in WritePcs \cup ClosePcs => t = x.lock.owner
  /\ x.enabled /\ pc[t] = "locked" => t = x.lock.owner \/ InQueue(t, x.lock.waiting)
AllAt(pc, st, x) == \A t \in Tasks : SessAt(pc, st, x, t)
Polls(pc, x)     == \A t \in Tasks : pc[t] = "poll" => x.epoll = "on"

(* Whoever owns the lock will unlock it: k is the lock, c the closer. *)
Held(pc, k, c) ==
  /\ k.waiting # <<>> => k.owner # Nobody
  /\ k.owner # Nobody => /\ pc[k.owner] \in OwnerPcs
                         /\ k.owner # c /\ ~InQueue(k.owner, k.waiting)

(* There is a receiver, then a handler of CONNCLOSED, until it has ended:  *)
(* c is the closer, on says that the channel is enabled, e is the state of *)
(* the poller.                                                             *)
LeadAt(pc, c, t) == pc[t] \in RecvPcs \/ pc[t] = "closed" \/ (t = c /\ pc[t] # "")
Led(pc, c, on, e) ==
  /\ \A t, u \in Tasks : LeadAt(pc, c, t) /\ LeadAt(pc, c, u) => t = u
  /\ \A t \in Tasks : pc[t] \in RecvPcs \/ pc[t] = "closed" => c = Nobody
  /\ c # Nobody => pc[c] \in ClosePcs \cup EndPcs \cup {""}
  /\ on         => \E t \in Tasks : pc[t] \in RecvPcs
  /\ e = "on" => \E t \in Tasks : LeadAt(pc, c, t)

(* The messages, m, are those in hand, and with the i requests in the      *)
(* socket they are no more than the n that were sent, and one that the     *)
(* receiver fills.                                                         *)
Holders(pc, c) == {t \in Tasks : pc[t] \in BusyPcs /\ t # c}
Spare(pc)      == \E t \in Tasks : pc[t] \in {"reading", "closed"}
Messages(pc, c, m, i, n) ==
  /\ m = Cardinality(Holders(pc, c))
  /\ m + i <= n + 1
  /\ ~Spare(pc) => m + i <= n

Hosted(pc, st, x) ==
  /\ Listed(x) /\ Conn(x) /\ Edge(x) /\ AllAt(pc, st, x) /\ Polls(pc, x)
  /\ Held(pc, x.lock, x.closer) /\ Led(pc, x.closer, x.enabled, x.epoll)
  /\ Messages(pc, x.closer, x.msgs, x.inbuf, x.sent)

(* Before task_new_session has started the others. *)
Alone(x) ==
  /\ x \in SessRec /\ x.sent <= MaxReq /\ x.inbuf = x.sent /\ x.out = 0
  /\ x.num # "mine" => x.robbed
  /\ ~x.pending /\ ~x.nospace /\ x.epoll = "none" /\ ~x.set /\ ~x.ctx
  /\ x.reader = Nobody /\ x.writer = Nobody /\ ~x.enabled /\ ~x.fd
  /\ x.lock.owner = Nobody /\ x.lock.waiting = <<>> /\ x.msgs = 0 /\ x.closer = Nobody
  /\ x.cond = <<>> /\ x.deinit = <<>>
Early(s, x) ==
  /\ Acc(s, s.running, {}) /\ Alone(x)
  /\ \A t \in Tasks : /\ s.pc[t] \in {"", "session", "init"}
                      /\ s.pc[t] = "init" => x.peer # "new"
                      /\ s.st[t] = "live" => s.pc[t] # "" /\ t = s.running
InSession(s, x) == Acc(s, s.running, SessWaiting(x)) /\ AioOk(s) /\ Hosted(s.pc, s.st, x)

(* Why the process aborts. *)
Blamed(w, x) ==
  CASE w \in {"hello", "sigpipe"} -> x.peer = "closed" \/ x.robbed
    [] w = "register" -> x.robbed
    [] w = "foreign" -> x.robbed \/ ~x.enabled
    [] w \in {"qlock", "qunlock"} -> ~x.enabled
    [] w = "device" -> TRUE
    [] OTHER -> FALSE

Serves(s, x) ==
  /\ s.thread = "aborted" => Blamed(s.why, x)
  /\ On(s) => Early(s, x) \/ InSession(s, x)

(* A state of the program: an inductive invariant of Spec. *)
SessInv == prog = "session" => Serves(sch, ss)

(* The fields of a session. *)
LEMMA SessFields ==
  ASSUME NEW x \in SessRec
  PROVE  /\ x.num \in {"mine", "free", "rival"} /\ x.peer \in {"new", "open", "closed"}
         /\ x.sent \in Nat /\ x.inbuf \in Nat /\ x.out \in Nat /\ x.msgs \in Nat
         /\ x.epoll \in {"none", "on", "closed"}
         /\ x.reader \in Tasks \cup {Nobody} /\ x.writer \in Tasks \cup {Nobody}
         /\ x.lock \in [owner : Tasks \cup {Nobody}, waiting : Seq(Tasks)]
         /\ x.lock.owner \in Tasks \cup {Nobody} /\ x.lock.waiting \in Seq(Tasks)
         /\ x.closer \in Tasks \cup {Nobody} /\ x.cond \in Seq(Tasks)
         /\ x.deinit \in Seq(Tasks)
         /\ x.enabled \in BOOLEAN /\ x.ctx \in BOOLEAN /\ x.fd \in BOOLEAN /\ x.set \in BOOLEAN
         /\ x.pending \in BOOLEAN /\ x.nospace \in BOOLEAN /\ x.robbed \in BOOLEAN
         /\ x.window \in BOOLEAN /\ x.harm \in BOOLEAN
BY DEF SessRec

(* The assumption. *)
LEMMA Bounds ==
  MaxReq \in Nat /\ Cap \in Nat /\ Cap > 0 /\ MaxTask \in Nat /\ MaxTask >= MaxReq + 4
BY SessionAssumption, TaskNames

(* What a step may end with. *)
LEMMA SessEnds ==
  ASSUME NEW z, NEW y, After(z, SessWaiting(y)), On(z) => Hosted(z.pc, z.st, y)
  PROVE  Serves(z, y)
BY DEF After, Serves, InSession

(* The process aborts. *)
LEMMA SessAborted ==
  ASSUME NEW s, NEW w, NEW y, NEW z, s \in Thread, w \in Whys, Blamed(w, y), z = Abort(s, w)
  PROVE  Serves(z, y)
<1>1. z.thread = "aborted" /\ z.why = w
  BY DEF Abort, Thread
<1> QED
  BY <1>1 DEF Serves, On

(* A step of the client or of a rival. *)
LEMMA StillHosted ==
  ASSUME NEW s, NEW x, InSession(s, x), On(s), NEW y, SessWaiting(y) = SessWaiting(x),
         Hosted(s.pc, s.st, y)
  PROVE  Serves(s, y)
BY DEF Serves, InSession, On

(* Who runs is not at the places of the first task once it sleeps. *)
LEMMA IsInSession ==
  ASSUME NEW s, NEW x, NEW t \in Tasks, Serves(s, x), On(s), s.running = t,
         s.pc[t] # "session", s.pc[t] # "init"
  PROVE  InSession(s, x)
<1>1. ASSUME Early(s, x) PROVE FALSE
  <2>1. s.st[t] = "live"
    BY <1>1 DEF Early, Acc, Placed
  <2> QED
    BY <1>1, <2>1 DEF Early
<1> QED
  BY <1>1 DEF Serves

(* The step of a task other than aiotask. *)
LEMMA SessMid ==
  ASSUME NEW s, NEW x, NEW t \in Tasks, InSession(s, x), On(s), s.running = t,
         s.pc[t] \notin AioPcs \/ s.pc[t] = "aiotask"
  PROVE  Mid(s, t, SessWaiting(x)) /\ Hosted(s.pc, s.st, x)
BY MidStart DEF InSession

(* Steps of the client and of the rivals. *)
SameTasks(x, y) ==
  /\ y.reader = x.reader /\ y.writer = x.writer /\ y.lock = x.lock /\ y.cond = x.cond
  /\ y.deinit = x.deinit /\ y.closer = x.closer /\ y.enabled = x.enabled /\ y.msgs = x.msgs
  /\ y.epoll = x.epoll /\ y.ctx = x.ctx /\ y.fd = x.fd /\ (y.num = "mine" => x.num = "mine")

(* They leave the tasks where they are. *)
LEMMA ClientTasks ==
  ASSUME NEW s, NEW x, InSession(s, x), On(s), NEW y \in SessRec, SameTasks(x, y),
         y.sent <= MaxReq, y.out <= Cap, y.inbuf - y.sent <= x.inbuf - x.sent,
         Conn(y), Edge(y)
  PROVE  Serves(s, y)
<1>1. SessWaiting(y) = SessWaiting(x)
  BY DEF SameTasks, SessWaiting
<1>2. Hosted(s.pc, s.st, x)
  BY DEF InSession
<1>3. Listed(y)
  BY <1>2 DEF Hosted, Listed, SameTasks
<1>4. AllAt(s.pc, s.st, y)
  <2> SUFFICES ASSUME NEW t \in Tasks PROVE SessAt(s.pc, s.st, y, t)
    BY DEF AllAt
  <2>1. SessAt(s.pc, s.st, x, t)
    BY <1>2 DEF Hosted, AllAt
  <2> QED
    BY <2>1 DEF SessAt, SameTasks
<1>5. Polls(s.pc, y)
  BY <1>2 DEF Hosted, Polls, SameTasks
<1>6. Held(s.pc, y.lock, y.closer) /\ Led(s.pc, y.closer, y.enabled, y.epoll)
  BY <1>2 DEF Hosted, SameTasks
<1>7. Messages(s.pc, y.closer, y.msgs, y.inbuf, y.sent)
  <2>1. Messages(s.pc, y.closer, y.msgs, x.inbuf, x.sent)
    BY <1>2 DEF Hosted, SameTasks
  <2>2. x \in SessRec
    BY <1>2 DEF Hosted, Listed
  <2>3. /\ x.inbuf \in Nat /\ x.sent \in Nat /\ y.inbuf \in Nat /\ y.sent \in Nat
        /\ y.msgs \in Nat
    BY <2>2, SessFields
  <2> QED
    BY <2>1, <2>3 DEF Messages
<1>8. Hosted(s.pc, s.st, y)
  BY <1>3, <1>4, <1>5, <1>6, <1>7 DEF Hosted
<1> QED
  BY <1>1, <1>8, StillHosted

(* Before the session, nobody but the first task is there. *)
LEMMA ClientEarly ==
  ASSUME NEW s, NEW x, Early(s, x), On(s), NEW y \in SessRec, SameTasks(x, y),
         y.sent <= MaxReq, y.inbuf = y.sent, y.out = x.out,
         y.pending = x.pending, y.nospace = x.nospace, y.set = x.set,
         y.num # "mine" => y.robbed, y.peer = "new" => x.peer = "new"
  PROVE  Serves(s, y)
<1>1. Alone(y)
  BY DEF Early, Alone, SameTasks
<1>2. Early(s, y)
  BY <1>1 DEF Early
<1> QED
  BY <1>2 DEF Serves, On

(* Hello, ... *)
LEMMA HelloStep ==
  ASSUME Serves(sch, ss), On(sch), Hello
  PROVE  Serves(sch, ss')
<1>1. /\ ss.num = "mine" /\ ss.peer = "new" /\ ss' = [ss EXCEPT !.peer = "open"]
  BY DEF Hello, Connected
<1>2. Early(sch, ss)
  BY <1>1 DEF Serves, InSession, Hosted, Conn
<1>3. ss \in SessRec
  BY <1>2 DEF Early, Alone
<1>4. /\ ss' \in SessRec /\ SameTasks(ss, ss') /\ ss'.sent = ss.sent /\ ss'.inbuf = ss.inbuf
      /\ ss'.out = ss.out /\ ss'.pending = ss.pending /\ ss'.nospace = ss.nospace
      /\ ss'.set = ss.set /\ ss'.num = ss.num /\ ss'.peer = "open"
  BY <1>1, <1>3 DEF SessRec, SameTasks
<1> QED
  BY <1>1, <1>2, <1>4, ClientEarly DEF Early, Alone

(* ... a request, ... *)
LEMMA RequestStep ==
  ASSUME Serves(sch, ss), On(sch), Request
  PROVE  Serves(sch, ss')
<1> DEFINE n == ss.sent + 1
           i == ss.inbuf + 1
           b == ss.set
<1>1. /\ ss.num = "mine" /\ ss.peer = "open" /\ ss.sent < MaxReq
      /\ ss' = Wake([ss EXCEPT !.sent = n, !.inbuf = i])
  BY DEF Request, Connected
<1>2. ss \in SessRec
  BY DEF Serves, Early, Alone, InSession, Hosted, Listed
<1>3. /\ ss.sent \in Nat /\ ss.inbuf \in Nat /\ n \in Nat /\ i \in Nat /\ n <= MaxReq
      /\ b \in BOOLEAN /\ i - n <= ss.inbuf - ss.sent /\ (ss.inbuf = ss.sent => i = n)
      /\ i > 0
  <2>1. /\ ss.sent \in Nat /\ ss.inbuf \in Nat /\ ss.set \in BOOLEAN
        /\ MaxReq \in Nat /\ ss.sent < MaxReq
    BY <1>1, <1>2, SessFields, Bounds
  <2> QED
    BY ONLY <2>1
<1>4. b = ss.set
  OBVIOUS
<1> HIDE DEF n, i
<1>5. ss' = [ss EXCEPT !.sent = n, !.inbuf = i, !.pending = b]
  BY <1>1, <1>2 DEF Wake, SessRec
<1> HIDE DEF b
<1>6. /\ ss' \in SessRec /\ SameTasks(ss, ss') /\ ss'.sent = n /\ ss'.inbuf = i
      /\ ss'.out = ss.out /\ ss'.pending = b /\ ss'.nospace = ss.nospace
      /\ ss'.set = ss.set /\ ss'.num = ss.num /\ ss'.peer = ss.peer /\ ss'.robbed = ss.robbed
  BY <1>2, <1>3, <1>5 DEF SessRec, SameTasks
<1>7. CASE Early(sch, ss)
  <2>1. ss'.inbuf = ss'.sent /\ ss'.pending = ss.pending
    <3>1. Alone(ss)
      BY <1>7 DEF Early
    <3>2. ss.inbuf = ss.sent /\ ~ss.set /\ ~ss.pending /\ ss.pending \in BOOLEAN
      BY <1>2, <3>1, SessFields DEF Alone
    <3> QED
      BY <1>3, <1>4, <1>6, <3>2
  <2> QED
    BY <1>1, <1>3, <1>6, <1>7, <2>1, ClientEarly
<1>8. CASE InSession(sch, ss)
  <2>1. Conn(ss) /\ Edge(ss) /\ ss.out <= Cap
    BY <1>8 DEF InSession, Hosted, Listed
  <2>2. ss'.pending
    BY <1>1, <1>4, <1>6, <2>1 DEF Conn
  <2>3. Conn(ss') /\ Edge(ss')
    BY <1>6, <2>1, <2>2 DEF Conn, Edge, SameTasks
  <2> QED
    BY <1>3, <1>6, <1>8, <2>1, <2>3, ClientTasks
<1> QED
  BY <1>7, <1>8 DEF Serves

(* ... an answer that is taken, ... *)
LEMMA TakeAnswerStep ==
  ASSUME Serves(sch, ss), On(sch), TakeAnswer
  PROVE  Serves(sch, ss')
<1> DEFINE o == ss.out - 1
           x == [ss EXCEPT !.out = o, !.nospace = FALSE]
           b == IF ss.nospace THEN ss.set ELSE ss.pending
<1>1. /\ ss.num = "mine" /\ ss.peer # "closed" /\ ss.out > 0
      /\ ss' = IF ss.nospace THEN Wake(x) ELSE x
  BY DEF TakeAnswer, Connected
<1>2. InSession(sch, ss)
  <2>1. ASSUME Early(sch, ss) PROVE FALSE
    <3>1. ss.out = 0
      BY <2>1 DEF Early, Alone
    <3> QED
      BY <1>1, <3>1
  <2> QED
    BY <2>1 DEF Serves
<1>3. ss \in SessRec /\ Conn(ss) /\ Edge(ss) /\ ss.out <= Cap /\ ss.sent <= MaxReq
  BY <1>2 DEF InSession, Hosted, Listed
<1>4. /\ o \in Nat /\ o < ss.out /\ o < Cap /\ o <= Cap /\ o # Cap
      /\ ss.inbuf - ss.sent <= ss.inbuf - ss.sent
  BY <1>1, <1>3, SessFields, Bounds
<1>5. b \in BOOLEAN
  BY <1>3, SessFields
<1> HIDE DEF o
<1>6. ss' = [ss EXCEPT !.out = o, !.nospace = FALSE, !.pending = b]
  BY <1>1, <1>3, <1>4 DEF Wake, SessRec
<1>7. b = IF ss.nospace THEN ss.set ELSE ss.pending
  OBVIOUS
<1> HIDE DEF b, x
<1>8. /\ ss' \in SessRec /\ SameTasks(ss, ss') /\ ss'.sent = ss.sent /\ ss'.inbuf = ss.inbuf
      /\ ss'.out = o /\ ss'.pending = b /\ ss'.nospace = FALSE
      /\ ss'.set = ss.set /\ ss'.num = ss.num /\ ss'.peer = ss.peer /\ ss'.robbed = ss.robbed
  BY <1>3, <1>4, <1>5, <1>6 DEF SessRec, SameTasks
<1>9. Conn(ss')
  BY <1>3, <1>8 DEF Conn, SameTasks
<1>10. Edge(ss')
  <2>1. ss.pending => b
    BY <1>1, <1>3, <1>7 DEF Conn
  <2>2. ss.nospace => b
    BY <1>1, <1>3, <1>7 DEF Conn
  <2>3. ss.writer # Nobody => b
    <3>1. ss.out = Cap \/ ss.out < Cap
      BY <1>3, SessFields, Bounds
    <3> QED
      BY <1>1, <1>3, <2>1, <2>2, <3>1 DEF Edge
  <2>4. ss.reader # Nobody /\ ss.inbuf > 0 => b
    BY <1>1, <1>3, <2>1 DEF Edge
  <2> QED
    BY <1>1, <1>4, <1>8, <2>3, <2>4 DEF Edge, SameTasks
<1> QED
  BY <1>2, <1>3, <1>4, <1>8, <1>9, <1>10, ClientTasks

(* ... and the end of the client. *)
LEMMA HangUpStep ==
  ASSUME Serves(sch, ss), On(sch), HangUp
  PROVE  Serves(sch, ss')
<1> DEFINE b == ss.set
<1>1. ss.num = "mine" /\ ss' = Wake([ss EXCEPT !.peer = "closed"])
  BY DEF HangUp, Connected
<1>2. ss \in SessRec /\ ss.sent <= MaxReq
  BY DEF Serves, Early, Alone, InSession, Hosted, Listed
<1>3. /\ b \in BOOLEAN /\ b = ss.set
      /\ ss.inbuf - ss.sent <= ss.inbuf - ss.sent
  BY <1>2, SessFields
<1>4. ss' = [ss EXCEPT !.peer = "closed", !.pending = b]
  BY <1>1, <1>2 DEF Wake, SessRec
<1> HIDE DEF b
<1>5. /\ ss' \in SessRec /\ SameTasks(ss, ss') /\ ss'.sent = ss.sent /\ ss'.inbuf = ss.inbuf
      /\ ss'.out = ss.out /\ ss'.pending = b /\ ss'.nospace = ss.nospace
      /\ ss'.set = ss.set /\ ss'.num = ss.num /\ ss'.peer = "closed" /\ ss'.robbed = ss.robbed
  BY <1>2, <1>3, <1>4 DEF SessRec, SameTasks
<1>6. CASE Early(sch, ss)
  <2>1. Alone(ss)
    BY <1>6 DEF Early
  <2>2. ss'.pending = ss.pending /\ ss'.inbuf = ss'.sent
    BY <1>2, <1>3, <1>5, <2>1, SessFields DEF Alone
  <2> QED
    BY <1>1, <1>2, <1>5, <1>6, <2>2, ClientEarly
<1>7. CASE InSession(sch, ss)
  <2>1. Conn(ss) /\ Edge(ss) /\ ss.out <= Cap
    BY <1>7 DEF InSession, Hosted, Listed
  <2>2. b
    BY <1>1, <1>3, <2>1 DEF Conn
  <2>3. Conn(ss') /\ Edge(ss')
    BY <1>5, <2>1, <2>2 DEF Conn, Edge, SameTasks
  <2> QED
    BY <1>2, <1>3, <1>5, <1>7, <2>1, <2>3, ClientTasks
<1> QED
  BY <1>6, <1>7 DEF Serves

(* The rivals. *)
LEMMA RivalStep ==
  ASSUME Serves(sch, ss), On(sch), RivalTakes \/ RivalDrops \/ RivalRobs
  PROVE  Serves(sch, ss')
<1>1. ss \in SessRec /\ ss.sent <= MaxReq
  BY DEF Serves, Early, Alone, InSession, Hosted, Listed
<1>2. ss.inbuf - ss.sent <= ss.inbuf - ss.sent
  BY <1>1, SessFields
<1>3. /\ ss' \in SessRec /\ SameTasks(ss, ss') /\ ss'.sent = ss.sent /\ ss'.inbuf = ss.inbuf
      /\ ss'.out = ss.out /\ ss'.nospace = ss.nospace /\ ss'.num # "mine"
      /\ ss'.peer = ss.peer /\ (ss'.robbed \/ (ss'.robbed = ss.robbed /\ ss.num # "mine"))
      /\ (ss'.pending = ss.pending \/ ~ss'.pending) /\ (ss'.set = ss.set \/ ~ss'.set)
  <2>1. CASE RivalTakes
    <3>1. ss.num = "free" /\ ss' = [ss EXCEPT !.num = "rival"]
      BY <2>1 DEF RivalTakes
    <3> QED
      BY <1>1, <3>1 DEF SessRec, SameTasks
  <2>2. CASE RivalDrops
    <3>1. ss.num = "rival" /\ ss' = [ss EXCEPT !.num = "free"]
      BY <2>2 DEF RivalDrops
    <3> QED
      BY <1>1, <3>1 DEF SessRec, SameTasks
  <2>3. CASE RivalRobs
    <3>1. ss.num = "mine" /\ ss' = [Shut(ss) EXCEPT !.window = FALSE, !.robbed = TRUE]
      BY <2>3 DEF RivalRobs
    <3>2. (ss.harm \/ ss.num = "rival") = ss.harm
      BY <1>1, <3>1 DEF SessRec
    <3>3. Shut(ss) = [ss EXCEPT !.num = "free", !.set = FALSE, !.pending = FALSE]
      BY <1>1, <3>2 DEF Shut, SessRec
    <3>4. ss' = [ss EXCEPT !.num = "free", !.set = FALSE, !.pending = FALSE,
                           !.window = FALSE, !.robbed = TRUE]
      BY <1>1, <3>1, <3>3 DEF SessRec
    <3>5. /\ ss' \in SessRec /\ ss'.sent = ss.sent /\ ss'.inbuf = ss.inbuf /\ ss'.robbed
          /\ ss'.out = ss.out /\ ss'.nospace = ss.nospace /\ ss'.num = "free"
          /\ ss'.peer = ss.peer /\ ~ss'.pending /\ ~ss'.set
          /\ ss'.reader = ss.reader /\ ss'.writer = ss.writer /\ ss'.lock = ss.lock
          /\ ss'.cond = ss.cond /\ ss'.deinit = ss.deinit /\ ss'.closer = ss.closer
          /\ ss'.enabled = ss.enabled /\ ss'.msgs = ss.msgs /\ ss'.epoll = ss.epoll
          /\ ss'.ctx = ss.ctx /\ ss'.fd = ss.fd
      <4>1. ss' \in SessRec
        BY ONLY <1>1, <3>4, ZenonT(60) DEF SessRec
      <4> QED
        BY ONLY <1>1, <3>4, <4>1 DEF SessRec
    <3> QED
      BY ONLY <3>5 DEF SameTasks
  <2> QED
    BY <2>1, <2>2, <2>3
<1>4. CASE Early(sch, ss)
  <2>1. ss'.pending = ss.pending /\ ss'.set = ss.set /\ ss'.robbed /\ ss'.inbuf = ss'.sent
    BY <1>1, <1>3, <1>4, SessFields DEF Early, Alone
  <2> QED
    BY <1>1, <1>3, <1>4, <2>1, ClientEarly
<1>5. CASE InSession(sch, ss)
  <2>1. Conn(ss) /\ Edge(ss) /\ ss.out <= Cap
    BY <1>5 DEF InSession, Hosted, Listed
  <2>2. Conn(ss') /\ Edge(ss')
    BY <1>3, <2>1 DEF Conn, Edge, SameTasks
  <2> QED
    BY <1>1, <1>2, <1>3, <1>5, <2>1, <2>2, ClientTasks
<1> QED
  BY <1>4, <1>5 DEF Serves

(* Task t moves, the others stay where they are. *)
Moves(pc, st, pc2, st2, t) == \A u \in Tasks \ {t} : pc2[u] = pc[u] /\ st2[u] = st[u]

(* What the session says of the others stays true. *)
SessKeeps(t, x, y) ==
  /\ y.cond = x.cond /\ (y.enabled => x.enabled) /\ (y.num = "mine" => x.num = "mine")
  /\ x.msgs = 0 => y.msgs = 0 \/ x.closer = Nobody
  /\ \A u \in Tasks \ {t} :
       /\ u = y.reader => u = x.reader
       /\ u = y.writer => u = x.writer
       /\ InQueue(u, y.lock.waiting) => InQueue(u, x.lock.waiting)
       /\ InQueue(u, y.deinit) => InQueue(u, x.deinit)
       /\ InQueue(u, x.deinit) => InQueue(u, y.deinit) \/ y.msgs = 0
       /\ u = x.closer <=> u = y.closer
       /\ y.enabled /\ u = x.lock.owner => u = y.lock.owner
       /\ y.enabled /\ InQueue(u, x.lock.waiting) =>
            InQueue(u, y.lock.waiting) \/ u = y.lock.owner

(* Then every task is where it says. *)
LEMMA AllMove ==
  ASSUME NEW pc, NEW st, NEW x, AllAt(pc, st, x), NEW t \in Tasks, NEW pc2, NEW st2, NEW y,
         Moves(pc, st, pc2, st2, t), SessKeeps(t, x, y), SessAt(pc2, st2, y, t)
  PROVE  AllAt(pc2, st2, y)
<1> SUFFICES ASSUME NEW u \in Tasks, u # t
             PROVE  SessAt(pc2, st2, y, u)
  BY DEF AllAt
<1>1. SessAt(pc, st, x, u) /\ u \in Tasks \ {t} /\ u # Nobody
  BY TaskNames DEF AllAt
<1>2. pc2[u] = pc[u] /\ st2[u] = st[u]
  BY <1>1 DEF Moves
<1>3. /\ st2[u] = "live" => pc2[u] \in SessPcs
      /\ u = y.reader => pc2[u] = "reading"
      /\ u = y.writer => pc2[u] = "writing"
      /\ InQueue(u, y.lock.waiting) => pc2[u] = "locked"
      /\ InQueue(u, y.cond) <=> pc2[u] = "done"
      /\ InQueue(u, y.deinit) => pc2[u] = "drained"
      /\ pc2[u] \in EndPcs => u = y.closer
  BY <1>1, <1>2 DEF SessAt, SessKeeps
<1>4. pc2[u] = "drained" => InQueue(u, y.deinit) \/ y.msgs = 0
  <2>1. pc2[u] = "drained" => u = x.closer
    BY <1>1, <1>2 DEF SessAt, EndPcs
  <2> QED
    BY <1>1, <1>2, <2>1 DEF SessAt, SessKeeps
<1>5. /\ pc2[u] \in ShutPcs => ~y.enabled /\ y.num # "mine"
      /\ pc2[u] = "closed" \/ u = y.closer => ~y.enabled
  BY <1>1, <1>2 DEF SessAt, SessKeeps
<1>6. /\ y.enabled /\ pc2[u] \in WritePcs \cup ClosePcs => u = y.lock.owner
      /\ y.enabled /\ pc2[u] = "locked" => u = y.lock.owner \/ InQueue(u, y.lock.waiting)
  BY <1>1, <1>2 DEF SessAt, SessKeeps
<1> QED
  BY <1>3, <1>4, <1>5, <1>6 DEF SessAt

(* A move between two places of the same kind. *)
SameKind(pc, pc2, c, t) ==
  /\ pc2[t] \in RecvPcs <=> pc[t] \in RecvPcs
  /\ pc2[t] = "closed" <=> pc[t] = "closed"
  /\ pc2[t] = "reading" <=> pc[t] = "reading"
  /\ t # c => (pc2[t] \in BusyPcs <=> pc[t] \in BusyPcs)
  /\ t = c => pc2[t] \in ClosePcs \cup EndPcs

(* Leads stay leads. *)
LEMMA LedMove ==
  ASSUME NEW pc, NEW pc2, NEW c \in Tasks \cup {Nobody}, NEW on, NEW e, Led(pc, c, on, e),
         NEW t \in Tasks, \A u \in Tasks \ {t} : pc2[u] = pc[u], SameKind(pc, pc2, c, t),
         t = c => pc[t] # ""
  PROVE  Led(pc2, c, on, e)
<1>1. \A u \in Tasks : /\ pc2[u] \in RecvPcs <=> pc[u] \in RecvPcs
                       /\ pc2[u] = "closed" <=> pc[u] = "closed"
  BY DEF SameKind
<1>2. \A u \in Tasks : u = c => (pc2[u] # "" <=> pc[u] # "")
  BY DEF SameKind, ClosePcs, ShutPcs, EndPcs
<1>3. \A u \in Tasks : LeadAt(pc2, c, u) <=> LeadAt(pc, c, u)
  BY <1>1, <1>2 DEF LeadAt
<1>4. c # Nobody => pc2[c] \in ClosePcs \cup EndPcs \cup {""}
  BY DEF SameKind, Led
<1> QED
  BY <1>1, <1>3, <1>4 DEF Led

(* The messages in hand stay. *)
LEMMA HoldersMove ==
  ASSUME NEW pc, NEW pc2, NEW c, NEW m, NEW i, NEW n, Messages(pc, c, m, i, n),
         NEW t \in Tasks, \A u \in Tasks \ {t} : pc2[u] = pc[u], SameKind(pc, pc2, c, t)
  PROVE  Messages(pc2, c, m, i, n)
<1>1. \A u \in Tasks : (pc2[u] \in BusyPcs /\ u # c) <=> (pc[u] \in BusyPcs /\ u # c)
  BY DEF SameKind
<1>2. Holders(pc2, c) = Holders(pc, c)
  BY <1>1 DEF Holders
<1>3. Spare(pc2) <=> Spare(pc)
  BY DEF Spare, SameKind
<1> QED
  BY <1>2, <1>3 DEF Messages

(* The owner stays. *)
LEMMA HeldMove ==
  ASSUME NEW pc, NEW pc2, NEW k, NEW c, Held(pc, k, c), k.owner \in Tasks \cup {Nobody},
         NEW t \in Tasks, \A u \in Tasks \ {t} : pc2[u] = pc[u],
         t = k.owner => pc2[t] \in OwnerPcs
  PROVE  Held(pc2, k, c)
BY DEF Held

(* What a step of t leaves of the session. *)
Leaves(x, y) ==
  /\ y.lock = x.lock /\ y.closer = x.closer /\ y.epoll = x.epoll
  /\ y.msgs = x.msgs /\ y.inbuf = x.inbuf /\ y.sent = x.sent /\ (y.enabled => x.enabled)

(* Such a step. *)
LEMMA KindMove ==
  ASSUME NEW pc, NEW st, NEW x, Hosted(pc, st, x), NEW t \in Tasks, NEW pc2, NEW st2, NEW y,
         Moves(pc, st, pc2, st2, t), Leaves(x, y), SameKind(pc, pc2, x.closer, t),
         t = x.closer => pc[t] # "", t = x.lock.owner => pc2[t] \in OwnerPcs,
         SessKeeps(t, x, y), SessAt(pc2, st2, y, t), Listed(y), Conn(y), Edge(y),
         Polls(pc2, y)
  PROVE  Hosted(pc2, st2, y)
<1>1. /\ x \in SessRec /\ AllAt(pc, st, x) /\ Held(pc, x.lock, x.closer)
      /\ Led(pc, x.closer, x.enabled, x.epoll)
      /\ Messages(pc, x.closer, x.msgs, x.inbuf, x.sent)
  BY DEF Hosted, Listed
<1>2. \A u \in Tasks \ {t} : pc2[u] = pc[u]
  BY DEF Moves
<1>3. AllAt(pc2, st2, y)
  BY <1>1, AllMove
<1>4. x.lock.owner \in Tasks \cup {Nobody} /\ x.closer \in Tasks \cup {Nobody}
  BY <1>1, SessFields
<1>5. Held(pc2, x.lock, x.closer)
  BY <1>1, <1>2, <1>4, HeldMove
<1>6. Led(pc2, x.closer, x.enabled, x.epoll)
  BY <1>1, <1>2, <1>4, LedMove
<1>7. Messages(pc2, x.closer, x.msgs, x.inbuf, x.sent)
  BY <1>1, <1>2, HoldersMove
<1>8. /\ Held(pc2, y.lock, y.closer) /\ Led(pc2, y.closer, y.enabled, y.epoll)
      /\ Messages(pc2, y.closer, y.msgs, y.inbuf, y.sent)
  BY <1>5, <1>6, <1>7 DEF Leaves, Led
<1> QED
  BY <1>3, <1>8 DEF Hosted

(* Nothing changes but the place of a task. *)
LEMMA PlaceMove ==
  ASSUME NEW pc, NEW st, NEW x, Hosted(pc, st, x), NEW t \in Tasks, NEW pc2, NEW st2,
         Moves(pc, st, pc2, st2, t), SameKind(pc, pc2, x.closer, t),
         t = x.closer => pc[t] # "", t = x.lock.owner => pc2[t] \in OwnerPcs,
         SessAt(pc2, st2, x, t), Polls(pc2, x)
  PROVE  Hosted(pc2, st2, x)
<1>1. Leaves(x, x) /\ SessKeeps(t, x, x)
  BY DEF Leaves, SessKeeps
<1>2. Listed(x) /\ Conn(x) /\ Edge(x)
  BY DEF Hosted
<1> QED
  BY <1>1, <1>2, KindMove

(* aiotask is not the closer, does not own the lock and has no message. *)
LEMMA AioApart ==
  ASSUME NEW pc, NEW st, NEW x, Hosted(pc, st, x), NEW t \in Tasks, pc[t] \in AioPcs
  PROVE  t # x.closer /\ t # x.lock.owner /\ pc[t] \notin BusyPcs
<1>1. /\ pc[t] \notin OwnerPcs /\ pc[t] \notin ClosePcs \cup EndPcs \cup {""}
      /\ pc[t] \notin BusyPcs /\ t # Nobody
  BY TaskNames DEF AioPcs, OwnerPcs, WritePcs, ClosePcs, ShutPcs, EndPcs, BusyPcs
<1>2. Held(pc, x.lock, x.closer) /\ Led(pc, x.closer, x.enabled, x.epoll)
  BY DEF Hosted
<1> QED
  BY <1>1, <1>2 DEF Held, Led

(* It goes on, or has ended. *)
AioNow(pc, st, t) == pc[t] \in AioPcs \/ (pc[t] = "" /\ st[t] # "live")

(* Where it is nobody else asks. *)
LEMMA AioPlace ==
  ASSUME NEW pc, NEW st, NEW x, Hosted(pc, st, x), NEW t \in Tasks, pc[t] \in AioPcs,
         NEW pc2, NEW st2, AioNow(pc2, st2, t), NEW y, SessKeeps(t, x, y),
         t \notin SessWaiting(y), y.closer = x.closer, y.cond = x.cond
  PROVE  SameKind(pc, pc2, x.closer, t) /\ SessAt(pc2, st2, y, t)
<1>1. t # x.closer /\ t # x.lock.owner /\ pc[t] \notin BusyPcs
  BY AioApart
<1>2. /\ \A l \in AioPcs \cup {""} :
           /\ l \notin RecvPcs /\ l # "closed" /\ l # "reading" /\ l \notin BusyPcs
           /\ l \notin ClosePcs /\ l \notin ShutPcs /\ l \notin EndPcs /\ l # "done"
           /\ l # "locked" /\ l \notin WritePcs /\ l # "drained"
      /\ AioPcs \in SUBSET SessPcs
  BY DEF AioPcs, RecvPcs, BusyPcs, OwnerPcs, ClosePcs, ShutPcs, EndPcs, WritePcs, SessPcs
<1>3. pc2[t] \in AioPcs \cup {""} /\ pc[t] \in AioPcs \cup {""}
      /\ (st2[t] = "live" => pc2[t] \in AioPcs)
  BY DEF AioNow
<1>4. SameKind(pc, pc2, x.closer, t)
  BY <1>1, <1>2, <1>3 DEF SameKind
<1>5. /\ t # y.reader /\ t # y.writer /\ ~InQueue(t, y.lock.waiting)
      /\ ~InQueue(t, y.cond) /\ ~InQueue(t, y.deinit)
  BY DEF SessWaiting
<1>6. SessAt(pc2, st2, y, t)
  BY <1>1, <1>2, <1>3, <1>5 DEF SessAt
<1> QED
  BY <1>4, <1>6

(* It moves. *)
LEMMA AioMoved ==
  ASSUME NEW pc, NEW st, NEW x, Hosted(pc, st, x), NEW t \in Tasks, pc[t] \in AioPcs,
         NEW pc2, NEW st2, AioNow(pc2, st2, t), Moves(pc, st, pc2, st2, t),
         t \notin SessWaiting(x), pc2[t] = "poll" => x.epoll = "on"
  PROVE  Hosted(pc2, st2, x)
<1>1. t # x.closer /\ t # x.lock.owner
  BY AioApart
<1>2. SessKeeps(t, x, x)
  BY DEF SessKeeps
<1>3. SameKind(pc, pc2, x.closer, t) /\ SessAt(pc2, st2, x, t)
  BY <1>2, AioPlace
<1>4. Polls(pc2, x)
  BY DEF Hosted, Polls, Moves
<1> QED
  BY <1>1, <1>3, <1>4, PlaceMove

(* It moves in the middle of its step. *)
LEMMA AioGoes ==
  ASSUME NEW s, NEW x, Hosted(s.pc, s.st, x), NEW t \in Tasks, s.pc[t] \in AioPcs,
         t \notin SessWaiting(x), NEW z, NEW l \in AioPcs, After(z, SessWaiting(x)),
         MidTo(s, t, l, z), l = "poll" => x.epoll = "on"
  PROVE  Serves(z, x)
<1> SUFFICES ASSUME On(z) PROVE Hosted(z.pc, z.st, x)
  BY SessEnds
<1>1. z.st = s.st /\ z.pc[t] = l /\ \A u \in Tasks \ {t} : z.pc[u] = s.pc[u]
  BY DEF MidTo
<1>2. Moves(s.pc, s.st, z.pc, z.st, t) /\ AioNow(z.pc, z.st, t)
  BY <1>1 DEF Moves, AioNow
<1> QED
  BY <1>1, <1>2, AioMoved

(* It starts, ... *)
LEMMA SessAio ==
  ASSUME Serves(sch, ss), NEW t \in Tasks, aiotask(t), ss' = ss
  PROVE  Serves(sch', ss')
<1> DEFINE W == SessWaiting(ss)
           s == tasksystem(sch, t)
           z == AioYield(s, t)
<1>1. On(sch) /\ sch.running = t /\ sch.pc[t] = "aiotask" /\ sch' = z
  BY DEF aiotask, At
<1>2. InSession(sch, ss)
  BY <1>1, IsInSession
<1>3. Mid(sch, t, W) /\ Hosted(sch.pc, sch.st, ss)
  BY <1>1, <1>2, SessMid
<1>4. Mid(s, t, W) /\ s.st = sch.st /\ s.pc = sch.pc /\ t \notin W
  BY <1>3, MidSystem, RunnerLive
<1> HIDE DEF s
<1>5. Acc(s, t, W) /\ On(s) /\ OneAio(s.pc) /\ s.pc[t] \in AioPcs
  BY <1>1, <1>4 DEF Mid, AioIdle, AioPcs
<1>6. After(z, W) /\ MidTo(s, t, "yielded", z)
  BY <1>5, AioYields
<1> HIDE DEF z
<1>7. "yielded" \in AioPcs /\ Hosted(s.pc, s.st, ss)
  BY <1>3, <1>4 DEF AioPcs
<1>8. Serves(z, ss)
  BY <1>4, <1>5, <1>6, <1>7, AioGoes
<1> QED
  BY <1>1, <1>8

(* ... yields again, polls or ends. *)
LEMMA SessAioYielded ==
  ASSUME Serves(sch, ss), NEW t \in Tasks, AioYielded(t, ss.epoll = "closed"), ss' = ss
  PROVE  Serves(sch', ss')
<1> DEFINE W == SessWaiting(ss)
<1>1. On(sch) /\ sch.running = t /\ sch.pc[t] = "yielded"
  BY DEF AioYielded, At
<1>2. InSession(sch, ss)
  BY <1>1, IsInSession
<1>3. Acc(sch, t, W) /\ AioOk(sch) /\ Hosted(sch.pc, sch.st, ss) /\ sch \in Thread
      /\ ss \in SessRec /\ ss.epoll # "none"
  BY <1>1, <1>2 DEF InSession, Acc, Hosted, Listed
<1>4. t \notin W /\ sch.pc[t] \in AioPcs /\ OneAio(sch.pc) /\ sch.nswitch \in 0..2
      /\ ss.epoll \in {"on", "closed"}
  BY <1>1, <1>3, SchedFields, SessFields DEF Acc, Placed, AioPcs, AioOk
<1>5. CASE sch.nswitch > 1
  <2>1. sch' = AioYield(sch, t)
    BY <1>4, <1>5 DEF AioYielded
  <2>2. After(AioYield(sch, t), W) /\ MidTo(sch, t, "yielded", AioYield(sch, t))
    BY <1>1, <1>3, <1>4, AioYields
  <2>3. "yielded" \in AioPcs
    BY DEF AioPcs
  <2>4. Serves(AioYield(sch, t), ss)
    BY <1>3, <1>4, <2>2, <2>3, AioGoes
  <2> QED
    BY <2>1, <2>4
<1>6. CASE sch.nswitch <= 1 /\ ss.epoll = "on"
  <2>1. sch' = Goto(sch, t, "poll")
    BY <1>4, <1>6 DEF AioYielded
  <2>2. After(Goto(sch, t, "poll"), W) /\ MidTo(sch, t, "poll", Goto(sch, t, "poll"))
    BY <1>1, <1>3, <1>4, <1>6, AioPolls
  <2>3. "poll" \in AioPcs
    BY DEF AioPcs
  <2>4. Serves(Goto(sch, t, "poll"), ss)
    BY <1>3, <1>4, <1>6, <2>2, <2>3, AioGoes
  <2> QED
    BY <2>1, <2>4
<1>7. CASE sch.nswitch <= 1 /\ ss.epoll = "closed"
  <2> DEFINE z == taskexit(sch, t)
  <2>1. sch' = z
    BY <1>4, <1>7 DEF AioYielded
  <2>2. \A u \in Tasks \ {t} : sch.pc[u] \notin AioPcs
    BY <1>4 DEF OneAio
  <2>3. \A u \in Tasks \ {t} : sch.pc[u] # "poll" /\ (sch.pc[u] = "yielded" => sch.nswitch >= 1)
    BY <2>2 DEF AioPcs
  <2>4. After(z, W) /\ GoneTo(sch, t, z)
    BY <1>1, <1>3, <1>4, <2>3, MidExit
  <2> HIDE DEF z
  <2>5. ASSUME On(z) PROVE Hosted(z.pc, z.st, ss)
    <3>1. /\ z.st[t] # "live" /\ z.pc[t] = ""
          /\ \A u \in Tasks \ {t} : z.pc[u] = sch.pc[u] /\ z.st[u] = sch.st[u]
      BY <2>4, <2>5 DEF GoneTo
    <3>2. Moves(sch.pc, sch.st, z.pc, z.st, t) /\ AioNow(z.pc, z.st, t)
      BY <3>1 DEF Moves, AioNow
    <3> QED
      BY <1>3, <1>4, <3>1, <3>2, AioMoved
  <2>6. Serves(z, ss)
    BY <2>4, <2>5, SessEnds
  <2> QED
    BY <2>1, <2>6
<1> QED
  BY <1>4, <1>5, <1>6, <1>7

(* While aiotask polls, all others wait, ... *)
LEMMA AllSleep ==
  ASSUME NEW s, NEW x, InSession(s, x), On(s), NEW t \in Tasks, s.running = t,
         s.pc[t] = "poll"
  PROVE  \A u \in Tasks : u # t /\ s.pc[u] # "" => u \in SessWaiting(x)
<1>1. Acc(s, t, SessWaiting(x)) /\ s.runq = <<>>
  BY DEF InSession, AioOk
<1>2. \A u : ~InQueue(u, s.runq)
  BY <1>1, EmptyQueue
<1> QED
  BY <1>1, <1>2 DEF Acc, Placed

(* ... with a place of their own, ... *)
LEMMA WhereWaits ==
  ASSUME NEW pc, NEW st, NEW x, Hosted(pc, st, x), NEW u \in SessWaiting(x)
  PROVE  \/ u = x.reader /\ pc[u] = "reading"
         \/ u = x.writer /\ pc[u] = "writing"
         \/ InQueue(u, x.lock.waiting) /\ pc[u] = "locked"
         \/ InQueue(u, x.cond) /\ pc[u] = "done"
         \/ InQueue(u, x.deinit) /\ pc[u] = "drained"
<1>1. /\ u \in Tasks
      /\ \/ u = x.reader \/ u = x.writer \/ InQueue(u, x.lock.waiting)
         \/ InQueue(u, x.cond) \/ InQueue(u, x.deinit)
  BY DEF SessWaiting
<1>2. SessAt(pc, st, x, u)
  BY <1>1 DEF Hosted, AllAt
<1> QED
  BY <1>1, <1>2 DEF SessAt

(* ... one of them for the socket: ... *)
LEMMA SomebodyPolls ==
  ASSUME NEW s, NEW x, InSession(s, x), On(s), NEW t \in Tasks, s.running = t,
         s.pc[t] = "poll", x.writer = Nobody, x.reader = Nobody
  PROVE  FALSE
<1>1. Hosted(s.pc, s.st, x) /\ Acc(s, t, SessWaiting(x))
  BY DEF InSession
<1>2. /\ Conn(x) /\ Held(s.pc, x.lock, x.closer)
      /\ Led(s.pc, x.closer, x.enabled, x.epoll) /\ x \in SessRec
      /\ x.msgs = Cardinality(Holders(s.pc, x.closer)) /\ Polls(s.pc, x)
  BY <1>1 DEF Hosted, Listed, Messages
<1>3. x.epoll = "on"
  BY <1>2 DEF Polls
<1>4. PICK u \in Tasks : LeadAt(s.pc, x.closer, u)
  BY <1>2, <1>3 DEF Led
<1>5. u # t /\ s.pc[u] # "" /\ u # Nobody
  BY <1>2, <1>4, TaskNames
     DEF LeadAt, Led, RecvPcs, ClosePcs, ShutPcs, EndPcs
<1>6. u \in SessWaiting(x)
  BY <1>5, AllSleep
<1>7. s.pc[u] \notin {"locked", "done"}
  BY <1>2, <1>4, <1>5 DEF LeadAt, Led, RecvPcs, ClosePcs, ShutPcs, EndPcs
<1>8. InQueue(u, x.deinit) /\ x.deinit \in Seq(Tasks)
  BY <1>1, <1>2, <1>5, <1>6, <1>7, WhereWaits, SessFields
<1>9. x.deinit # <<>>
  BY <1>8, EmptyQueue
<1>10. Holders(s.pc, x.closer) # {}
  <2>1. x.msgs > 0
    BY <1>2, <1>9 DEF Conn
  <2> QED
    BY <1>2, <2>1, FS_EmptySet
<1>11. PICK h \in Tasks : s.pc[h] \in BusyPcs
  BY <1>10 DEF Holders
<1>12. h # t /\ s.pc[h] # "" /\ s.pc[h] # "done" /\ s.pc[h] # "drained" /\ h # Nobody
  BY <1>11, TaskNames DEF BusyPcs, OwnerPcs, WritePcs, ClosePcs, ShutPcs
<1>13. h \in SessWaiting(x)
  BY <1>12, AllSleep
<1>14. InQueue(h, x.lock.waiting) /\ x.lock.waiting \in Seq(Tasks)
  <2>1. \/ h = x.reader \/ h = x.writer \/ InQueue(h, x.lock.waiting)
        \/ s.pc[h] = "done" \/ s.pc[h] = "drained"
    BY <1>1, <1>13, WhereWaits
  <2>2. x.lock.waiting \in Seq(Tasks)
    BY <1>2, SessFields
  <2> QED
    BY <1>12, <2>1, <2>2
<1>15. x.lock.waiting # <<>>
  BY <1>14, EmptyQueue
<1> DEFINE o == x.lock.owner
<1>16. /\ o # Nobody /\ s.pc[o] \in OwnerPcs /\ ~InQueue(o, x.lock.waiting)
       /\ o \in Tasks \cup {Nobody}
  BY <1>2, <1>15, SessFields DEF Held
<1> HIDE DEF o
<1>17. o \in Tasks /\ o # t /\ s.pc[o] # "" /\ s.pc[o] # "done" /\ s.pc[o] # "drained"
  BY <1>16 DEF OwnerPcs, WritePcs, ClosePcs, ShutPcs
<1>18. o \in SessWaiting(x)
  BY <1>17, AllSleep
<1> QED
  BY <1>1, <1>16, <1>17, <1>18, WhereWaits

(* ... the receiver, as long as the channel is enabled. *)
LEMMA ReceiverReads ==
  ASSUME NEW s, NEW x, InSession(s, x), On(s), NEW t \in Tasks, s.running = t,
         s.pc[t] = "poll", x.enabled
  PROVE  x.reader # Nobody
<1>1. Hosted(s.pc, s.st, x) /\ Led(s.pc, x.closer, x.enabled, x.epoll)
  BY DEF InSession, Hosted
<1>2. PICK u \in Tasks : s.pc[u] \in RecvPcs
  BY <1>1 DEF Led
<1>3. u # t /\ s.pc[u] # "" /\ u # Nobody
  BY <1>2, TaskNames DEF RecvPcs
<1>4. u \in SessWaiting(x)
  BY <1>3, AllSleep
<1> QED
  BY <1>1, <1>2, <1>3, <1>4, WhereWaits DEF RecvPcs

(* Who waits for the socket. *)
LEMMA ReadyIfWaits ==
  ASSUME NEW s, NEW t, NEW W, Acc(s, t, W), NEW p \in W \cup {Nobody}
  PROVE  LET x == ReadyIf(s, p)
         IN  Acc(x, t, W \ {p}) /\ x.pc = s.pc /\ x.st = s.st /\ x.thread = s.thread
<1>1. W \in SUBSET Tasks /\ s \in Thread
  BY DEF Acc
<1>2. CASE p = Nobody
  <2>1. W \ {p} = W
    BY <1>1, <1>2, TaskNames
  <2>2. ReadyIf(s, p) = s
    BY <1>2 DEF ReadyIf
  <2> QED
    BY <2>1, <2>2
<1>3. CASE p # Nobody
  <2>1. p \in W /\ p \in Tasks /\ ReadyIf(s, p) = taskready(s, p)
    BY <1>1, <1>3 DEF ReadyIf
  <2> QED
    BY <1>1, <2>1, WokenUp, ReadyOut
<1> QED
  BY <1>2, <1>3

(* What is ready is for somebody. *)
LEMMA EventsFor ==
  ASSUME NEW x \in SessRec
  PROVE  /\ x.inbuf > 0 \/ x.peer = "closed" => ForReader(Events(x))
         /\ x.out < Cap \/ x.peer = "closed" => ForWriter(Events(x))
<1>1. x.inbuf > 0 => "in" \in Events(x)
  BY DEF Events
<1>2. x.out < Cap => "out" \in Events(x)
  BY DEF Events
<1>3. x.peer = "closed" => "in" \in Events(x) /\ "hup" \in Events(x)
  BY DEF Events
<1>4. ASSUME "in" \in Events(x) PROVE ForReader(Events(x))
  BY <1>4 DEF ForReader
<1>5. ASSUME "out" \in Events(x) \/ "hup" \in Events(x) PROVE ForWriter(Events(x))
  BY <1>5 DEF ForWriter
<1> QED
  BY <1>1, <1>2, <1>3, <1>4, <1>5

(* Two tasks no longer wait. *)
Unwaited(x, y, p, q) ==
  /\ (p = Nobody /\ y.reader = x.reader) \/ (p = x.reader /\ y.reader = Nobody)
  /\ (q = Nobody /\ y.writer = x.writer) \/ (q = x.writer /\ y.writer = Nobody)
  /\ y.lock = x.lock /\ y.cond = x.cond /\ y.deinit = x.deinit

(* They were waiting, and are what is missing. *)
LEMMA TwoLess ==
  ASSUME NEW pc, NEW st, NEW x, Hosted(pc, st, x), NEW y, NEW p, NEW q, Unwaited(x, y, p, q)
  PROVE  /\ p \in SessWaiting(x) \cup {Nobody}
         /\ q \in (SessWaiting(x) \ {p}) \cup {Nobody}
         /\ SessWaiting(y) = (SessWaiting(x) \ {p}) \ {q}
<1>1. x \in SessRec /\ AllAt(pc, st, x)
  BY DEF Hosted, Listed
<1>2. x.reader \in Tasks \cup {Nobody} /\ x.writer \in Tasks \cup {Nobody}
  BY <1>1, SessFields
<1>3. \A u \in Tasks : /\ u = x.reader => u # x.writer /\ ~InQueue(u, x.lock.waiting)
                                          /\ ~InQueue(u, x.cond) /\ ~InQueue(u, x.deinit)
                       /\ u = x.writer => ~InQueue(u, x.lock.waiting)
                                          /\ ~InQueue(u, x.cond) /\ ~InQueue(u, x.deinit)
  <2> SUFFICES ASSUME NEW u \in Tasks
               PROVE  /\ u = x.reader => u # x.writer /\ ~InQueue(u, x.lock.waiting)
                                         /\ ~InQueue(u, x.cond) /\ ~InQueue(u, x.deinit)
                      /\ u = x.writer => ~InQueue(u, x.lock.waiting)
                                          /\ ~InQueue(u, x.cond) /\ ~InQueue(u, x.deinit)
    OBVIOUS
  <2>1. SessAt(pc, st, x, u)
    BY <1>1 DEF AllAt
  <2> QED
    BY <2>1 DEF SessAt
<1>4. p \in SessWaiting(x) \cup {Nobody} /\ q \in SessWaiting(x) \cup {Nobody}
  BY <1>2 DEF Unwaited, SessWaiting
<1>5. q # Nobody => q # p
  BY <1>2, <1>3 DEF Unwaited
<1>6. SessWaiting(y) = (SessWaiting(x) \ {p}) \ {q}
  BY <1>2, <1>3, TaskNames DEF Unwaited, SessWaiting
<1> QED
  BY <1>4, <1>5, <1>6

(* The fields of y are those of x but for who waits, and pending and ctx. *)
Woke(x, y) ==
  /\ y \in SessRec /\ Leaves(x, y) /\ y.cond = x.cond /\ y.deinit = x.deinit
  /\ y.enabled = x.enabled /\ y.num = x.num /\ y.peer = x.peer /\ y.out = x.out
  /\ y.nospace = x.nospace /\ y.set = x.set /\ y.fd = x.fd /\ y.robbed = x.robbed

(* Who waits is woken by an event. *)
LEMMA ServedFields ==
  ASSUME NEW x \in SessRec, NEW ev
  PROVE  LET y == [Served(x, ev) EXCEPT !.pending = FALSE]
             p == IF ForReader(ev) THEN x.reader ELSE Nobody
             q == IF ForWriter(ev) THEN x.writer ELSE Nobody
         IN  /\ Woke(x, y) /\ ~y.pending /\ y.ctx = x.ctx /\ Unwaited(x, y, p, q)
             /\ ForReader(ev) => y.reader = Nobody
             /\ ForWriter(ev) => y.writer = Nobody
<1> DEFINE r == IF ForReader(ev) THEN Nobody ELSE x.reader
           w == IF ForWriter(ev) THEN Nobody ELSE x.writer
           p == IF ForReader(ev) THEN x.reader ELSE Nobody
           q == IF ForWriter(ev) THEN x.writer ELSE Nobody
           y == [Served(x, ev) EXCEPT !.pending = FALSE]
<1>1. r \in Tasks \cup {Nobody} /\ w \in Tasks \cup {Nobody}
  BY SessFields
<1>2. (p = Nobody /\ r = x.reader) \/ (p = x.reader /\ r = Nobody)
  OBVIOUS
<1>3. (q = Nobody /\ w = x.writer) \/ (q = x.writer /\ w = Nobody)
  OBVIOUS
<1>4. (ForReader(ev) => r = Nobody) /\ (ForWriter(ev) => w = Nobody)
  OBVIOUS
<1>5. y = [x EXCEPT !.reader = r, !.writer = w, !.pending = FALSE]
  BY DEF Served, SessRec
<1> HIDE DEF r, w, y, p, q
<1>6. /\ y \in SessRec /\ y.reader = r /\ y.writer = w /\ ~y.pending
      /\ y.lock = x.lock /\ y.closer = x.closer /\ y.epoll = x.epoll
      /\ y.msgs = x.msgs /\ y.inbuf = x.inbuf /\ y.sent = x.sent
      /\ y.cond = x.cond /\ y.deinit = x.deinit
      /\ y.enabled = x.enabled /\ y.num = x.num /\ y.peer = x.peer /\ y.out = x.out
      /\ y.nospace = x.nospace /\ y.set = x.set /\ y.fd = x.fd /\ y.robbed = x.robbed
      /\ y.ctx = x.ctx
  BY <1>1, <1>5 DEF SessRec
<1>7. Woke(x, y) /\ Unwaited(x, y, p, q)
  BY <1>2, <1>3, <1>6 DEF Woke, Leaves, Unwaited
<1>8. /\ Woke(x, y) /\ ~y.pending /\ y.ctx = x.ctx /\ Unwaited(x, y, p, q)
      /\ ForReader(ev) => y.reader = Nobody
      /\ ForWriter(ev) => y.writer = Nobody
  BY <1>4, <1>6, <1>7
<1> QED
  BY <1>8 DEF y, p, q

(* What is kept. *)
LEMMA WokeKeeps ==
  ASSUME NEW x, NEW y, Listed(x), Woke(x, y), NEW p, NEW q, Unwaited(x, y, p, q), NEW t
  PROVE  Listed(y) /\ SessKeeps(t, x, y) /\ Leaves(x, y)
<1>1. Listed(y)
  BY DEF Listed, Woke, Leaves
<1>2. \A u \in Tasks : (u = y.reader => u = x.reader) /\ (u = y.writer => u = x.writer)
  BY TaskNames DEF Unwaited
<1>3. SessKeeps(t, x, y)
  BY <1>2 DEF SessKeeps, Woke, Leaves
<1> QED
  BY <1>1, <1>3 DEF Woke

(* aiotask wakes who waits for what epoll reports. *)
LEMMA SessPolled ==
  ASSUME Serves(sch, ss), NEW t \in Tasks, AioPolled(t)
  PROVE  Serves(sch', ss')
<1> DEFINE W  == SessWaiting(ss)
           ev == Events(ss)
           p  == IF ForReader(ev) THEN ss.reader ELSE Nobody
           q  == IF ForWriter(ev) THEN ss.writer ELSE Nobody
           y  == [Served(ss, ev) EXCEPT !.pending = FALSE]
           u  == ReadyIf(sch, p)
           v  == ReadyIf(u, q)
           z  == AioYield(v, t)
<1>1. /\ On(sch) /\ sch.running = t /\ sch.pc[t] = "poll"
      /\ sch' = AioYield(sockio_done(sch, ss, ev), t) /\ ss' = y
  BY DEF AioPolled, At, Step
<1>2. InSession(sch, ss)
  BY <1>1, IsInSession
<1>3. /\ Acc(sch, t, W) /\ Hosted(sch.pc, sch.st, ss) /\ sch \in Thread
      /\ ss \in SessRec /\ Conn(ss) /\ Edge(ss) /\ Listed(ss) /\ OneAio(sch.pc)
  BY <1>1, <1>2 DEF InSession, Acc, Hosted, Listed, AioOk
<1>4. t \notin W /\ sch.pc[t] \in AioPcs
  BY <1>1, <1>3 DEF Acc, Placed, AioPcs
<1>5. sockio_done(sch, ss, ev) = v
  <2>1. ss.reader # Nobody \/ ss.writer # Nobody
    BY <1>1, <1>2, SomebodyPolls
  <2> QED
    BY <2>1 DEF sockio_done
<1>6. /\ Woke(ss, y) /\ ~y.pending /\ y.ctx = ss.ctx /\ Unwaited(ss, y, p, q)
      /\ ForReader(ev) => y.reader = Nobody
      /\ ForWriter(ev) => y.writer = Nobody
  BY <1>3, ServedFields
<1> HIDE DEF p, q, y
<1>7. /\ p \in W \cup {Nobody} /\ q \in (W \ {p}) \cup {Nobody}
      /\ SessWaiting(y) = (W \ {p}) \ {q}
  BY <1>3, <1>6, TwoLess
<1>8. Acc(u, t, W \ {p}) /\ u.pc = sch.pc /\ u.st = sch.st /\ u.thread = sch.thread
  BY <1>3, <1>7, ReadyIfWaits
<1> HIDE DEF u, W
<1>9. Acc(v, t, SessWaiting(y)) /\ v.pc = sch.pc /\ v.st = sch.st /\ v.thread = sch.thread
  BY <1>7, <1>8, ReadyIfWaits
<1> HIDE DEF v
<1>10. On(v) /\ OneAio(v.pc) /\ v.pc[t] \in AioPcs
  BY <1>1, <1>3, <1>4, <1>9 DEF On
<1>11. After(z, SessWaiting(y)) /\ MidTo(v, t, "yielded", z)
  BY <1>9, <1>10, AioYields
<1> HIDE DEF z
<1>12. ASSUME On(z) PROVE Hosted(z.pc, z.st, y)
  <2>1. /\ z.st = sch.st /\ z.pc[t] = "yielded"
        /\ \A r \in Tasks \ {t} : z.pc[r] = sch.pc[r]
    BY <1>9, <1>11, <1>12 DEF MidTo
  <2>2. Moves(sch.pc, sch.st, z.pc, z.st, t) /\ AioNow(z.pc, z.st, t)
    BY <2>1 DEF Moves, AioNow, AioPcs
  <2>3. Listed(y) /\ SessKeeps(t, ss, y) /\ Leaves(ss, y)
    BY <1>3, <1>6, WokeKeeps
  <2>4. Conn(y)
    BY <1>3, <1>6 DEF Conn, Woke, Leaves, Unwaited
  <2>5. Edge(y)
    <3>1. y.reader # Nobody => ~(ss.inbuf > 0 \/ ss.peer = "closed")
      BY <1>3, <1>6, EventsFor
    <3>2. y.writer # Nobody => ~(ss.out < Cap \/ ss.peer = "closed")
      BY <1>3, <1>6, EventsFor
    <3>3. y.writer # Nobody => ss.writer # Nobody
      BY <1>6 DEF Unwaited
    <3> QED
      BY <1>3, <1>6, <3>1, <3>2, <3>3 DEF Edge, Woke, Leaves
  <2>6. t # ss.closer /\ t # ss.lock.owner
    BY <1>3, <1>4, AioApart
  <2>7. t \notin SessWaiting(y) /\ y.closer = ss.closer /\ y.cond = ss.cond
    BY <1>4, <1>6, <1>7 DEF Woke, Leaves
  <2>8. SameKind(sch.pc, z.pc, ss.closer, t) /\ SessAt(z.pc, z.st, y, t)
    BY <1>3, <1>4, <2>2, <2>3, <2>7, AioPlace
  <2>9. Polls(z.pc, y)
    BY <1>3, <1>6, <2>1 DEF Hosted, Polls, Woke, Leaves
  <2> QED
    BY <1>3, <2>2, <2>3, <2>4, <2>5, <2>6, <2>8, <2>9, KindMove
<1>13. Serves(z, y)
  BY <1>11, <1>12, SessEnds
<1> QED
  BY <1>1, <1>5, <1>13 DEF z

(* A task with a small stack can always be created. *)
LEMMA SmallCreated ==
  ASSUME NEW s \in Thread, On(s), NEW fn
  PROVE  On(taskcreate(s, fn, TRUE))
<1>1. CASE s.cache = <<>>
  <2> DEFINE u == Min(Unused(s))
             c == s.count + 1
  <2>1. taskcreate(s, fn, TRUE) = taskalloc(s, fn, TRUE)
    BY <1>1 DEF taskcreate
  <2>2. taskalloc(s, fn, TRUE).thread = s.thread
    BY DEF taskalloc, taskready, Thread
  <2> QED
    BY <2>1, <2>2 DEF On
<1>2. CASE s.cache # <<>>
  <2> DEFINE u == Head(s.cache)
             x == taskready([s EXCEPT !.cache = Tail(@), !.st[u] = "live", !.pc[u] = fn], u)
  <2>1. taskcreate(s, fn, TRUE) = x
    BY <1>2 DEF taskcreate
  <2>2. x.thread = s.thread
    BY DEF taskready, Thread
  <2> QED
    BY <2>1, <2>2 DEF On
<1> QED
  BY <1>1, <1>2

(* The receiver has a message in hand: p is where the tasks are.           *)
Fills(s, t, p, x) ==
  /\ Mid(s, t, SessWaiting(x)) /\ Hosted(p, s.st, x) /\ p[t] = "reading"
  /\ s.pc[t] \in {"receive", "reading"} /\ \A u \in Tasks \ {t} : p[u] = s.pc[u]

(* It is the only one, and does not wait. *)
LEMMA FillFacts ==
  ASSUME NEW s, NEW t, NEW p, NEW x, Fills(s, t, p, x)
  PROVE  /\ t \in Tasks /\ t \notin SessWaiting(x) /\ t # x.lock.owner
         /\ x.closer = Nobody /\ x.reader = Nobody
         /\ \A u \in Tasks : p[u] \in RecvPcs \/ p[u] = "closed" => u = t
<1>1. t \in Tasks /\ t \notin SessWaiting(x)
  BY RunnerLive DEF Fills
<1>2. /\ Led(p, x.closer, x.enabled, x.epoll) /\ Held(p, x.lock, x.closer)
      /\ AllAt(p, s.st, x) /\ x \in SessRec /\ p[t] = "reading"
  BY DEF Fills, Hosted, Listed
<1>3. p[t] \in RecvPcs /\ p[t] \notin OwnerPcs /\ t # Nobody
  BY <1>1, <1>2, TaskNames DEF RecvPcs, OwnerPcs, WritePcs, ClosePcs, ShutPcs
<1>4. x.closer = Nobody
  BY <1>1, <1>2, <1>3 DEF Led
<1>5. t # x.lock.owner
  BY <1>2, <1>3 DEF Held
<1>6. \A u \in Tasks : p[u] \in RecvPcs \/ p[u] = "closed" => u = t
  BY <1>1, <1>2, <1>3 DEF Led, LeadAt
<1>7. x.reader = Nobody
  <2>1. x.reader \in Tasks \cup {Nobody}
    BY <1>2, SessFields
  <2>2. ASSUME x.reader \in Tasks PROVE FALSE
    <3> DEFINE r == x.reader
    <3>1. SessAt(p, s.st, x, r)
      BY <1>2, <2>2 DEF AllAt
    <3>2. p[r] = "reading"
      BY <2>2, <3>1 DEF SessAt
    <3>3. r = t
      BY <1>6, <2>2, <3>2 DEF RecvPcs
    <3> QED
      BY <1>1, <3>3 DEF SessWaiting
  <2> QED
    BY <2>1, <2>2
<1> QED
  BY <1>1, <1>4, <1>5, <1>6, <1>7

(* Then there is room for another task. *)
LEMMA FillRoom ==
  ASSUME NEW s, NEW t, NEW p, NEW x, Fills(s, t, p, x)
  PROVE  Cardinality(Live(s)) < MaxTask
<1> DEFINE H == Holders(p, x.closer)
           A == {u \in Tasks : s.pc[u] \in AioPcs}
           D == {u \in Tasks : InQueue(u, x.cond)}
<1>1. /\ Listed(x) /\ AllAt(p, s.st, x) /\ Messages(p, x.closer, x.msgs, x.inbuf, x.sent)
      /\ OneAio(s.pc) /\ x \in SessRec /\ p[t] = "reading" /\ t \in Tasks
      /\ \A u \in Tasks \ {t} : p[u] = s.pc[u]
  BY DEF Fills, Hosted, Listed, Mid, AioIdle
<1>2. Live(s) \in SUBSET ((H \cup A) \cup D)
  <2> SUFFICES ASSUME NEW u \in Tasks, s.st[u] = "live" PROVE u \in H \cup A \cup D
    BY DEF Live
  <2>1. SessAt(p, s.st, x, u)
    BY <1>1 DEF AllAt
  <2>2. p[u] \in SessPcs /\ (p[u] \in EndPcs => u = x.closer)
        /\ (p[u] = "done" => InQueue(u, x.cond))
    BY <2>1 DEF SessAt
  <2>3. x.closer = Nobody /\ u # Nobody /\ (p[u] \in RecvPcs \/ p[u] = "closed" => u = t)
    BY FillFacts, TaskNames
  <2>4. CASE u = t
    BY <1>1, <2>3, <2>4 DEF Holders, BusyPcs
  <2>5. CASE u # t
    <3>1. p[u] = s.pc[u]
      BY <1>1, <2>5
    <3> HIDE DEF A, D
    <3>2. p[u] \in AioPcs => u \in A
      BY <3>1 DEF A
    <3>3. p[u] = "done" => u \in D
      BY <2>2 DEF D
    <3>4. p[u] \in BusyPcs => u \in H
      BY <2>3 DEF Holders
    <3>5. p[u] \in AioPcs \/ p[u] = "done" \/ p[u] \in BusyPcs
      BY <2>2, <2>3, <2>5 DEF SessPcs, BusyPcs
    <3> QED
      BY <3>2, <3>3, <3>4, <3>5
  <2> QED
    BY <2>4, <2>5
<1>3. /\ H \in SUBSET Tasks /\ A \in SUBSET Tasks /\ D \in SUBSET Tasks
      /\ IsFiniteSet(H) /\ IsFiniteSet(A) /\ IsFiniteSet(D)
      /\ Cardinality(H) \in Nat /\ Cardinality(A) \in Nat /\ Cardinality(D) \in Nat
  <2>1. H \in SUBSET Tasks /\ A \in SUBSET Tasks /\ D \in SUBSET Tasks
    BY DEF Holders
  <2> HIDE DEF H, A, D
  <2> QED
    BY <2>1, TaskNames, SubsetCount
<1>4. Cardinality(A) <= 1
  <2>1. \A u, v \in A : u = v
    BY <1>1 DEF OneAio
  <2> HIDE DEF A
  <2>2. CASE A = {}
    BY <2>2, FS_EmptySet
  <2>3. CASE A # {}
    <3>1. PICK a \in A : TRUE
      BY <2>3
    <3>2. A = {a}
      BY <2>1
    <3>3. Cardinality({a}) = 1
      BY FS_Singleton
    <3> QED
      BY <3>2, <3>3
  <2> QED
    BY <2>2, <2>3
<1>5. Cardinality(D) <= 1
  <2>1. PICK d \in Tasks : x.cond = <<d>>
    BY <1>1 DEF Listed
  <2>2. D = {d}
    BY <2>1 DEF InQueue
  <2> QED
    BY <2>2, FS_Singleton
<1>6. Cardinality(H) <= MaxReq + 1
  <2>1. /\ Cardinality(H) = x.msgs /\ x.msgs + x.inbuf <= x.sent + 1 /\ x.sent <= MaxReq
    BY <1>1 DEF Messages, Listed
  <2>2. x.inbuf \in Nat /\ x.sent \in Nat /\ x.msgs \in Nat
    BY <1>1, SessFields
  <2> HIDE DEF H
  <2> QED
    BY <2>1, <2>2, Bounds
<1> HIDE DEF H, A, D
<1>7. /\ IsFiniteSet(H \cup A) /\ Cardinality(H \cup A) <= MaxReq + 2
      /\ Cardinality(H \cup A) \in Nat
  <2>1. IsFiniteSet(H \cup A)
    BY <1>3, FS_Union
  <2>2. Cardinality(H \cup A) \in Nat
    BY <2>1, FS_CardinalityType
  <2>3. IsFiniteSet(H \cap A) /\ Cardinality(H \cap A) \in Nat
    BY <1>3, SubsetCount
  <2>4. Cardinality(H \cup A) = Cardinality(H) + Cardinality(A) - Cardinality(H \cap A)
    BY <1>3, FS_Union
  <2> QED
    BY <1>3, <1>4, <1>6, <2>1, <2>2, <2>3, <2>4, Bounds
<1> DEFINE B == H \cup A
<1>8. /\ IsFiniteSet(B \cup D) /\ Cardinality(B \cup D) <= MaxReq + 3
      /\ Cardinality(B \cup D) \in Nat
  <2>0. IsFiniteSet(B) /\ Cardinality(B) <= MaxReq + 2 /\ Cardinality(B) \in Nat
    BY <1>7
  <2> HIDE DEF B
  <2>1. IsFiniteSet(B \cup D)
    BY <1>3, <2>0, FS_Union
  <2>2. Cardinality(B \cup D) \in Nat
    BY <2>1, FS_CardinalityType
  <2>3. IsFiniteSet(B \cap D) /\ Cardinality(B \cap D) \in Nat
    BY <1>3, <2>0, SubsetCount
  <2>4. Cardinality(B \cup D) = Cardinality(B) + Cardinality(D) - Cardinality(B \cap D)
    BY <1>3, <2>0, FS_Union
  <2> QED
    BY <1>3, <1>5, <2>0, <2>1, <2>2, <2>3, <2>4, Bounds
<1>9. Cardinality(Live(s)) <= Cardinality(B \cup D) /\ Cardinality(Live(s)) \in Nat
  <2>1. Live(s) \in SUBSET (B \cup D)
    BY <1>2
  <2> HIDE DEF B
  <2>2. Cardinality(Live(s)) <= Cardinality(B \cup D)
    BY <1>8, <2>1, FS_Subset
  <2>3. Cardinality(Live(s)) \in Nat
    BY <1>8, <2>1, SubsetCount
  <2> QED
    BY <2>2, <2>3
<1> HIDE DEF B
<1> QED
  BY <1>8, <1>9, Bounds

(* The receiver takes a message buffer. *)
Buffers(x, y) ==
  /\ y \in SessRec /\ y.msgs = x.msgs + 1 /\ y.lock = x.lock /\ y.closer = x.closer
  /\ y.epoll = x.epoll /\ y.inbuf = x.inbuf /\ y.sent = x.sent /\ y.enabled = x.enabled
  /\ y.cond = x.cond /\ y.deinit = x.deinit /\ y.reader = x.reader /\ y.writer = x.writer
  /\ y.num = x.num /\ y.peer = x.peer /\ y.out = x.out /\ y.nospace = x.nospace
  /\ y.set = x.set /\ y.fd = x.fd /\ y.robbed = x.robbed /\ y.ctx = x.ctx
  /\ y.pending = x.pending

(* The receiver that has a buffer reads a message into it. *)
LEMMA FillStart ==
  ASSUME NEW pc, NEW st, NEW x, Hosted(pc, st, x), NEW t \in Tasks, pc[t] = "receive",
         t \notin SessWaiting(x), NEW p, p[t] = "reading",
         \A u \in Tasks \ {t} : p[u] = pc[u], NEW y, Buffers(x, y)
  PROVE  Hosted(p, st, y) /\ SessWaiting(y) = SessWaiting(x)
<1>1. /\ Listed(x) /\ Conn(x) /\ Edge(x) /\ AllAt(pc, st, x) /\ Polls(pc, x)
      /\ Held(pc, x.lock, x.closer) /\ Led(pc, x.closer, x.enabled, x.epoll)
      /\ Messages(pc, x.closer, x.msgs, x.inbuf, x.sent) /\ x \in SessRec
  BY DEF Hosted, Listed
<1>2. /\ pc[t] \in RecvPcs /\ p[t] \in RecvPcs /\ pc[t] \notin BusyPcs /\ p[t] \in BusyPcs
      /\ pc[t] \notin OwnerPcs /\ t # Nobody
  BY TaskNames DEF RecvPcs, BusyPcs, OwnerPcs, WritePcs, ClosePcs, ShutPcs
<1>3. x.closer = Nobody /\ t # x.lock.owner
  BY <1>1, <1>2 DEF Led, Held
<1>4. \A u \in Tasks : pc[u] \in RecvPcs \/ pc[u] = "closed" => u = t
  BY <1>1, <1>2 DEF Led, LeadAt
<1>5. /\ x.msgs \in Nat /\ x.inbuf \in Nat /\ x.sent \in Nat /\ y.msgs \in Nat /\ y.msgs > 0
      /\ y.msgs = x.msgs + 1
  BY <1>1, SessFields DEF Buffers
<1>6. Listed(y) /\ Edge(y)
  BY <1>1 DEF Listed, Edge, Buffers
<1>7. Conn(y)
  BY <1>1, <1>5 DEF Conn, Buffers
<1>8. /\ t # y.reader /\ t # y.writer /\ ~InQueue(t, y.lock.waiting)
      /\ ~InQueue(t, y.cond) /\ ~InQueue(t, y.deinit) /\ t # y.closer
  BY <1>2, <1>3 DEF SessWaiting, Buffers
<1>9. SessAt(p, st, y, t)
  BY <1>8 DEF SessAt, SessPcs, RecvPcs, EndPcs, ShutPcs, ClosePcs, WritePcs
<1>10. SessKeeps(t, x, y)
  BY <1>3 DEF SessKeeps, Buffers
<1>11. AllAt(p, st, y)
  <2>1. Moves(pc, st, p, st, t)
    BY DEF Moves
  <2> QED
    BY <1>1, <1>9, <1>10, <2>1, AllMove
<1>12. Polls(p, y)
  BY <1>1 DEF Polls, Buffers
<1>13. Held(p, y.lock, y.closer)
  <2>1. x.lock.owner \in Tasks \cup {Nobody}
    BY <1>1, SessFields
  <2> QED
    BY <1>1, <1>3, <2>1 DEF Held, Buffers
<1>14. Led(p, y.closer, y.enabled, y.epoll)
  <2>1. \A u \in Tasks : /\ p[u] \in RecvPcs <=> pc[u] \in RecvPcs
                         /\ p[u] = "closed" <=> pc[u] = "closed"
    BY <1>2 DEF RecvPcs
  <2>2. \A u \in Tasks : LeadAt(p, x.closer, u) <=> LeadAt(pc, x.closer, u)
    BY <1>3, <2>1, TaskNames DEF LeadAt
  <2>3. Led(p, x.closer, x.enabled, x.epoll)
    BY <1>1, <1>3, <2>1, <2>2 DEF Led
  <2> QED
    BY <2>3 DEF Buffers
<1>15. Messages(p, y.closer, y.msgs, y.inbuf, y.sent)
  <2> DEFINE H == Holders(pc, x.closer)
             I == Holders(p, x.closer)
  <2>1. ~Spare(pc)
    BY <1>4 DEF Spare, RecvPcs
  <2>2. Spare(p)
    BY DEF Spare
  <2>3. t \notin H /\ t \in I /\ \A u \in Tasks : u # t => (u \in H <=> u \in I)
    BY <1>2, <1>3 DEF Holders
  <2>4. H \in SUBSET Tasks /\ I \in SUBSET Tasks
    BY DEF Holders
  <2>5. Cardinality(H) = x.msgs /\ x.msgs + x.inbuf <= x.sent
    BY <1>1, <2>1 DEF Messages
  <2> HIDE DEF H, I
  <2>6. Moved(t, H, I)
    BY <2>3, <2>4, TaskNames, CountMove
  <2>7. Cardinality(I) = x.msgs + 1
    BY <2>3, <2>5, <2>6 DEF Moved
  <2>8. y.msgs = Cardinality(I) /\ y.msgs + y.inbuf <= y.sent + 1
    BY <1>5, <2>5, <2>7 DEF Buffers
  <2>9. Cardinality(I) = Cardinality(Holders(p, y.closer))
    BY DEF I, Buffers
  <2> QED
    BY <2>2, <2>8, <2>9 DEF Messages
<1>16. SessWaiting(y) = SessWaiting(x)
  BY DEF SessWaiting, Buffers
<1> QED
  BY <1>6, <1>7, <1>11, <1>12, <1>13, <1>14, <1>15, <1>16 DEF Hosted

(* The message passes from the receiver t to the new task u, which handles *)
(* it or CONNCLOSED.                                                       *)
Passed(pc, st, pc2, st2, t, u) ==
  /\ \A v \in Tasks \ {t, u} : pc2[v] = pc[v] /\ st2[v] = st[v]
  /\ \/ pc2[t] = "receive" /\ pc2[u] = "handler"
     \/ pc2[t] = "" /\ st2[t] # "live" /\ pc2[u] = "closed"
PassedOn(pc2, t, x, y) ==
  /\ y \in SessRec /\ y.msgs = x.msgs /\ y.lock = x.lock /\ y.closer = x.closer
  /\ y.epoll = x.epoll /\ y.sent = x.sent
  /\ y.cond = x.cond /\ y.deinit = x.deinit /\ y.reader = x.reader /\ y.writer = x.writer
  /\ y.num = x.num /\ y.peer = x.peer /\ y.out = x.out /\ y.nospace = x.nospace
  /\ y.set = x.set /\ y.fd = x.fd /\ y.robbed = x.robbed /\ y.ctx = x.ctx
  /\ y.pending = x.pending
  /\ \/ pc2[t] = "receive" /\ y.enabled = x.enabled /\ y.inbuf = x.inbuf - 1
     \/ pc2[t] = "" /\ ~y.enabled /\ y.inbuf = x.inbuf

(* Counting. *)
LEMMA InBounds ==
  \A a, b, c, d \in Nat : a + b <= d + 1 =>
    /\ c = b => a + c <= d + 1
    /\ c = b - 1 => a + c <= d + 1 /\ a + c <= d
OBVIOUS

(* One goes, another comes. *)
LEMMA OneForOne ==
  ASSUME NEW S, IsFiniteSet(S), NEW H \in SUBSET S, NEW I \in SUBSET S, NEW t \in S,
         NEW u \in S, t \in H, u \notin H, t \notin I, u \in I,
         \A v \in S \ {t, u} : v \in H <=> v \in I
  PROVE  Cardinality(I) = Cardinality(H)
<1> DEFINE G == H \ {t}
<1>1. G \in SUBSET S /\ t \notin G /\ u \notin G
  OBVIOUS
<1>2. \A v \in S : v # t => (v \in H <=> v \in G)
  OBVIOUS
<1>3. \A v \in S : v # u => (v \in G <=> v \in I)
  OBVIOUS
<1> HIDE DEF G
<1>4. Moved(t, H, G)
  BY <1>1, <1>2, CountMove
<1>5. Moved(u, G, I)
  BY <1>1, <1>3, CountMove
<1> QED
  BY <1>1, <1>4, <1>5 DEF Moved

(* The two tasks are where they say. *)
LEMMA PassAt ==
  ASSUME NEW pc, NEW st, NEW x, Hosted(pc, st, x), NEW t \in Tasks, NEW u \in Tasks, t # u,
         pc[t] = "reading", pc[u] = "", x.closer = Nobody, t \notin SessWaiting(x),
         u \notin SessWaiting(x), NEW pc2, NEW st2, Passed(pc, st, pc2, st2, t, u), NEW y,
         PassedOn(pc2, t, x, y)
  PROVE  AllAt(pc2, st2, y)
<1> DEFINE p == [v \in Tasks |-> IF v = t THEN pc2[t] ELSE pc[v]]
           q == [v \in Tasks |-> IF v = t THEN st2[t] ELSE st[v]]
<1>1. /\ Moves(pc, st, p, q, t) /\ p[t] = pc2[t] /\ q[t] = st2[t]
      /\ Moves(p, q, pc2, st2, u)
  BY DEF Moves, Passed
<1> HIDE DEF p, q
<1>2. AllAt(pc, st, x)
  BY DEF Hosted
<1>3. /\ t # y.reader /\ t # y.writer /\ ~InQueue(t, y.lock.waiting)
      /\ ~InQueue(t, y.cond) /\ ~InQueue(t, y.deinit) /\ t # y.closer
      /\ u # y.reader /\ u # y.writer /\ ~InQueue(u, y.lock.waiting)
      /\ ~InQueue(u, y.cond) /\ ~InQueue(u, y.deinit) /\ u # y.closer
  BY TaskNames DEF SessWaiting, PassedOn
<1>4. SessAt(p, q, y, t)
  <2>1. p[t] = "receive" \/ (p[t] = "" /\ q[t] # "live")
    BY <1>1 DEF Passed
  <2> QED
    BY <1>3, <2>1 DEF SessAt, SessPcs, RecvPcs, EndPcs, ShutPcs, ClosePcs, WritePcs
<1>5. SessKeeps(t, x, y) /\ SessKeeps(u, y, y)
  BY DEF SessKeeps, PassedOn
<1>6. AllAt(p, q, y)
  BY <1>1, <1>2, <1>4, <1>5, AllMove
<1>7. SessAt(pc2, st2, y, u)
  <2>1. pc2[u] = "handler" \/ (pc2[u] = "closed" /\ ~y.enabled)
    BY DEF Passed, PassedOn
  <2> QED
    BY <1>3, <2>1 DEF SessAt, SessPcs, RecvPcs, EndPcs, ShutPcs, ClosePcs, WritePcs
<1> QED
  BY <1>1, <1>5, <1>6, <1>7, AllMove

(* Before it passes. *)
Passes(pc, st, x, t, u) ==
  /\ Hosted(pc, st, x) /\ t \in Tasks /\ u \in Tasks /\ t # u
  /\ pc[t] = "reading" /\ pc[u] = "" /\ x.closer = Nobody /\ x.reader = Nobody
  /\ t \notin SessWaiting(x) /\ u \notin SessWaiting(x)
PassGives(pc, st, x, y) == Hosted(pc, st, y) /\ SessWaiting(y) = SessWaiting(x)

(* The session goes on with one more task or another one. *)
LEMMA PassMove ==
  ASSUME NEW pc, NEW st, NEW x, NEW t, NEW u, Passes(pc, st, x, t, u), NEW pc2, NEW st2,
         Passed(pc, st, pc2, st2, t, u), NEW y, PassedOn(pc2, t, x, y), Conn(y)
  PROVE  PassGives(pc2, st2, x, y)
<1>0. /\ Hosted(pc, st, x) /\ t \in Tasks /\ u \in Tasks /\ t # u
      /\ pc[t] = "reading" /\ pc[u] = "" /\ x.closer = Nobody /\ x.reader = Nobody
      /\ t \notin SessWaiting(x) /\ u \notin SessWaiting(x)
  BY DEF Passes
<1> USE <1>0
<1>1. /\ Listed(x) /\ Edge(x) /\ Polls(pc, x)
      /\ Held(pc, x.lock, x.closer) /\ Led(pc, x.closer, x.enabled, x.epoll)
      /\ Messages(pc, x.closer, x.msgs, x.inbuf, x.sent) /\ x \in SessRec
  BY DEF Hosted, Listed
<1>2. /\ pc[t] \in RecvPcs /\ pc[t] \in BusyPcs /\ pc[u] \notin BusyPcs
      /\ pc[t] \notin OwnerPcs /\ pc[u] \notin OwnerPcs
      /\ t # Nobody /\ u # Nobody
      /\ pc2[t] \notin BusyPcs /\ pc2[u] \in BusyPcs
      /\ pc2[t] # "poll" /\ pc2[u] # "poll"
  BY TaskNames DEF RecvPcs, BusyPcs, OwnerPcs, WritePcs, ClosePcs, ShutPcs, Passed
<1>3. \A v \in Tasks : pc[v] \in RecvPcs \/ pc[v] = "closed" => v = t
  BY <1>1, <1>2 DEF Led, LeadAt
<1>4. /\ x.msgs \in Nat /\ x.inbuf \in Nat /\ x.sent \in Nat /\ y.inbuf \in Nat
  BY <1>1, SessFields DEF PassedOn
<1>5. \A v \in Tasks \ {t, u} : pc2[v] = pc[v]
  BY DEF Passed
<1>6. Listed(y)
  BY <1>1 DEF Listed, PassedOn
<1>7. Edge(y)
  BY <1>1 DEF Edge, PassedOn
<1>8. AllAt(pc2, st2, y)
  BY PassAt
<1>9. Polls(pc2, y)
  BY <1>1, <1>2, <1>5 DEF Polls, PassedOn
<1>10. Held(pc2, y.lock, y.closer)
  <2>1. x.lock.owner \in Tasks \cup {Nobody}
    BY <1>1, SessFields
  <2> QED
    BY <1>1, <1>2, <1>5, <2>1 DEF Held, PassedOn
<1>11. Led(pc2, y.closer, y.enabled, y.epoll)
  <2> DEFINE c == x.closer
  <2>1. \A v \in Tasks : pc2[v] \in RecvPcs \/ pc2[v] = "closed" =>
                           v = IF pc2[t] = "receive" THEN t ELSE u
    BY <1>3, <1>5 DEF Passed, RecvPcs
  <2>2. \A v \in Tasks : LeadAt(pc2, c, v) => v = IF pc2[t] = "receive" THEN t ELSE u
    BY <2>1, TaskNames DEF LeadAt
  <2>3. \E v \in Tasks : LeadAt(pc2, c, v)
    BY DEF LeadAt, Passed, RecvPcs
  <2>4. y.enabled => pc2[t] \in RecvPcs
    BY <1>1, SessFields DEF PassedOn, RecvPcs
  <2>5. y.closer = Nobody /\ c = Nobody
    BY DEF PassedOn
  <2> HIDE DEF c
  <2> QED
    BY <2>2, <2>3, <2>4, <2>5 DEF Led
<1>12. Messages(pc2, y.closer, y.msgs, y.inbuf, y.sent)
  <2> DEFINE H == Holders(pc, Nobody)
             I == Holders(pc2, Nobody)
  <2>1. t \in H /\ u \notin H /\ t \notin I /\ u \in I
    BY <1>2 DEF Holders
  <2>2. \A v \in Tasks \ {t, u} : v \in H <=> v \in I
    BY <1>5 DEF Holders
  <2>3. H \in SUBSET Tasks /\ I \in SUBSET Tasks
    BY DEF Holders
  <2>4. Cardinality(H) = x.msgs /\ x.msgs + x.inbuf <= x.sent + 1
    BY <1>1 DEF Messages
  <2> HIDE DEF H, I
  <2>5. Cardinality(I) = Cardinality(H)
    BY <2>1, <2>2, <2>3, TaskNames, OneForOne
  <2>9. Cardinality(I) = x.msgs
    BY <2>4, <2>5
  <2>10. Cardinality(I) = Cardinality(Holders(pc2, y.closer)) /\ y.msgs = x.msgs
    BY DEF I, PassedOn
  <2> DEFINE i == x.inbuf
             j == y.inbuf
             m == x.msgs
             n == x.sent
  <2>13. /\ y.msgs = m /\ y.sent = n /\ (j = i \/ j = i - 1)
         /\ (pc2[t] = "receive" => j = i - 1)
    BY DEF PassedOn
  <2>14. i \in Nat /\ j \in Nat /\ m \in Nat /\ n \in Nat /\ m + i <= n + 1
    BY <1>4, <2>4
  <2> HIDE DEF i, j, m, n
  <2>16. (j = i => m + j <= n + 1) /\ (j = i - 1 => m + j <= n + 1 /\ m + j <= n)
    BY <2>14, InBounds
  <2>15. m + j <= n + 1 /\ (j = i - 1 => m + j <= n)
    BY ONLY <2>13, <2>16
  <2>11. y.msgs + y.inbuf <= y.sent + 1
    BY <2>13, <2>15 DEF j
  <2>12. ~Spare(pc2) => y.msgs + y.inbuf <= y.sent
    <3>1. pc2[t] = "receive" => y.msgs + y.inbuf <= y.sent
      BY <2>13, <2>15 DEF j
    <3>2. pc2[t] # "receive" => Spare(pc2)
      BY DEF Passed, Spare
    <3> QED
      BY <3>1, <3>2
  <2> QED
    BY <2>9, <2>10, <2>11, <2>12 DEF Messages
<1>13. SessWaiting(y) = SessWaiting(x)
  BY DEF SessWaiting, PassedOn
<1> QED
  BY <1>6, <1>7, <1>8, <1>9, <1>10, <1>11, <1>12, <1>13 DEF Hosted, PassGives

(* A task u is created for the message. *)
MadeFor(s, t, W, fn, z, u) ==
  /\ s.pc[u] = "" /\ u # t /\ u \notin W /\ z.pc[u] = fn
  /\ \A v \in Tasks \ {u} : z.st[v] = s.st[v] /\ z.pc[v] = s.pc[v]
Gives(s, t, W, fn, z) == Mid(z, t, W) /\ \E u \in Tasks : MadeFor(s, t, W, fn, z, u)

(* taskcreate finds room for the task of a message. *)
LEMMA FillCreates ==
  ASSUME NEW s, NEW t, NEW W, Mid(s, t, W), Cardinality(Live(s)) < MaxTask,
         NEW fn \in {"closed", "handler"}
  PROVE  Gives(s, t, W, fn, taskcreate(s, fn, TRUE))
<1> DEFINE z == taskcreate(s, fn, TRUE)
<1>1. fn \in Pcs /\ fn \notin AioPcs
  BY DEF Pcs, AioPcs
<1>2. MadeIn(s, t, W, fn, z)
  BY <1>1, MidCreate
<1>3. On(z)
  BY SmallCreated DEF Mid
<1> HIDE DEF z
<1>4. Gives(s, t, W, fn, z)
  BY <1>2, <1>3 DEF MadeIn, Gives, MadeFor
<1> QED
  BY <1>4 DEF z

(* The receiver ends and leaves the message to the handler of CONNCLOSED, ... *)
LEMMA FailStep ==
  ASSUME NEW s, NEW t, NEW p, NEW x, Fills(s, t, p, x), x.num # "mine" \/ x.peer = "closed"
  PROVE  Serves(taskexit(taskcreate(s, "closed", TRUE), t), [x EXCEPT !.enabled = FALSE])
<1> DEFINE W == SessWaiting(x)
           a == taskcreate(s, "closed", TRUE)
           z == taskexit(a, t)
           y == [x EXCEPT !.enabled = FALSE]
<1>1. /\ t \in Tasks /\ t \notin W /\ x.closer = Nobody /\ x.reader = Nobody
      /\ Cardinality(Live(s)) < MaxTask
  BY FillFacts, FillRoom
<1>2. /\ Mid(s, t, W) /\ Hosted(p, s.st, x) /\ p[t] = "reading" /\ Conn(x)
      /\ x \in SessRec /\ \A v \in Tasks \ {t} : p[v] = s.pc[v]
  BY DEF Fills, Hosted, Listed
<1>3. Gives(s, t, W, "closed", a)
  <2>1. "closed" \in {"closed", "handler"}
    OBVIOUS
  <2> QED
    BY <1>1, <1>2, <2>1, FillCreates
<1> HIDE DEF a
<1>0. PICK u \in Tasks : MadeFor(s, t, W, "closed", a, u)
  BY <1>3 DEF Gives
<1>4. /\ s.pc[u] = "" /\ u # t /\ u \notin W /\ a.pc[u] = "closed" /\ Mid(a, t, W)
      /\ \A v \in Tasks \ {u} : a.st[v] = s.st[v] /\ a.pc[v] = s.pc[v]
  BY <1>0, <1>3 DEF MadeFor, Gives
<1>5. After(z, W) /\ GoneTo(a, t, z)
  BY <1>4, MidExits
<1> HIDE DEF z
<1>6. /\ y \in SessRec /\ y.msgs = x.msgs /\ y.lock = x.lock /\ y.closer = x.closer
      /\ y.epoll = x.epoll /\ y.sent = x.sent
      /\ y.cond = x.cond /\ y.deinit = x.deinit /\ y.reader = x.reader /\ y.writer = x.writer
      /\ y.num = x.num /\ y.peer = x.peer /\ y.out = x.out /\ y.nospace = x.nospace
      /\ y.set = x.set /\ y.fd = x.fd /\ y.robbed = x.robbed /\ y.ctx = x.ctx
      /\ y.pending = x.pending /\ ~y.enabled /\ y.inbuf = x.inbuf
  <2>1. x \in SessRec
    BY <1>2
  <2>2. y \in SessRec /\ y = [x EXCEPT !.enabled = FALSE]
    BY ONLY <2>1, ZenonT(60) DEF SessRec
  <2> QED
    BY ONLY <2>1, <2>2 DEF SessRec
<1>7. Conn(y)
  BY <1>2, <1>6 DEF Conn
<1> HIDE DEF y, W
<1>8. ASSUME On(z) PROVE Hosted(z.pc, z.st, y)
  <2>1. /\ z.st[t] # "live" /\ z.pc[t] = ""
        /\ \A v \in Tasks \ {t} : z.pc[v] = a.pc[v] /\ z.st[v] = a.st[v]
    BY <1>5, <1>8 DEF GoneTo
  <2>2. Passed(p, s.st, z.pc, z.st, t, u)
    BY <1>2, <1>4, <2>1 DEF Passed
  <2>3. PassedOn(z.pc, t, x, y)
    BY <1>6, <2>1 DEF PassedOn
  <2>4. p[u] = ""
    BY <1>2, <1>4
  <2> QED
    <3>1. /\ Hosted(p, s.st, x) /\ u \in Tasks /\ t \in Tasks /\ t # u
          /\ p[t] = "reading" /\ x.closer = Nobody /\ x.reader = Nobody
      BY <1>1, <1>2, <1>4
    <3>2. t \notin SessWaiting(x) /\ u \notin SessWaiting(x)
      BY <1>1, <1>4 DEF W
    <3>3. Passes(p, s.st, x, t, u)
      BY <2>4, <3>1, <3>2 DEF Passes
    <3>4. PassGives(z.pc, z.st, x, y)
      BY <1>7, <2>2, <2>3, <3>3, PassMove
    <3> QED
      BY <3>4 DEF PassGives
<1>9. SessWaiting(y) = W
  BY <1>6 DEF SessWaiting, W
<1>10. Serves(z, y)
  BY <1>5, <1>8, <1>9, SessEnds
<1> QED
  BY <1>10 DEF z, y, a

(* ... or reads the message, for a new handler, and goes on, ... *)
LEMMA HandlerStep ==
  ASSUME NEW s, NEW t, NEW p, NEW x, Fills(s, t, p, x), x.inbuf > 0
  PROVE  Serves(taskcreate(Goto(s, t, "receive"), "handler", TRUE),
                [x EXCEPT !.inbuf = x.inbuf - 1])
<1> DEFINE W == SessWaiting(x)
           b == Goto(s, t, "receive")
           z == taskcreate(b, "handler", TRUE)
           i == x.inbuf - 1
           y == [x EXCEPT !.inbuf = i]
<1>1. /\ t \in Tasks /\ t \notin W /\ x.closer = Nobody /\ x.reader = Nobody
      /\ Cardinality(Live(s)) < MaxTask
  BY FillFacts, FillRoom
<1>2. /\ Mid(s, t, W) /\ Hosted(p, s.st, x) /\ p[t] = "reading" /\ Conn(x)
      /\ x \in SessRec /\ \A v \in Tasks \ {t} : p[v] = s.pc[v]
  BY DEF Fills, Hosted, Listed
<1>3. "receive" \in Pcs \ AioPcs
  BY DEF Pcs, AioPcs
<1>4. Mid(b, t, W) /\ Others1(s, b, t) /\ b.pc[t] = "receive"
  BY <1>2, <1>3, MidGoto
<1>5. Cardinality(Live(b)) < MaxTask
  BY <1>1, <1>4 DEF Live, Others1
<1> HIDE DEF b
<1>6. Gives(b, t, W, "handler", z)
  <2>1. "handler" \in {"closed", "handler"}
    OBVIOUS
  <2> QED
    BY <1>4, <1>5, <2>1, FillCreates
<1> HIDE DEF z
<1>0. PICK u \in Tasks : MadeFor(b, t, W, "handler", z, u)
  BY <1>6 DEF Gives
<1>7. /\ b.pc[u] = "" /\ u # t /\ u \notin W /\ z.pc[u] = "handler" /\ Mid(z, t, W)
      /\ \A v \in Tasks \ {u} : z.st[v] = b.st[v] /\ z.pc[v] = b.pc[v]
  BY <1>0, <1>6 DEF MadeFor, Gives
<1>8. i \in Nat /\ i = x.inbuf - 1
  BY <1>2, SessFields
<1> HIDE DEF i
<1>9. /\ y \in SessRec /\ y.msgs = x.msgs /\ y.lock = x.lock /\ y.closer = x.closer
      /\ y.epoll = x.epoll /\ y.sent = x.sent
      /\ y.cond = x.cond /\ y.deinit = x.deinit /\ y.reader = x.reader /\ y.writer = x.writer
      /\ y.num = x.num /\ y.peer = x.peer /\ y.out = x.out /\ y.nospace = x.nospace
      /\ y.set = x.set /\ y.fd = x.fd /\ y.robbed = x.robbed /\ y.ctx = x.ctx
      /\ y.pending = x.pending /\ y.enabled = x.enabled /\ y.inbuf = i
  BY <1>2, <1>8 DEF SessRec
<1>10. Conn(y)
  BY <1>2, <1>9 DEF Conn
<1> HIDE DEF y, W
<1>11. z.pc[t] = "receive" /\ p[u] = ""
  BY <1>1, <1>2, <1>4, <1>7 DEF Others1
<1>12. Passed(p, s.st, z.pc, z.st, t, u)
  BY <1>2, <1>4, <1>7, <1>11 DEF Passed, Others1
<1>13. PassedOn(z.pc, t, x, y)
  BY <1>8, <1>9, <1>11 DEF PassedOn
<1>14. Hosted(z.pc, z.st, y) /\ SessWaiting(y) = W
  <2>1. /\ Hosted(p, s.st, x) /\ u \in Tasks /\ t \in Tasks /\ t # u
        /\ p[t] = "reading" /\ x.closer = Nobody /\ x.reader = Nobody
    BY <1>1, <1>2, <1>7
  <2>2. t \notin SessWaiting(x) /\ u \notin SessWaiting(x)
    BY <1>1, <1>7 DEF W
  <2>4. Passes(p, s.st, x, t, u)
    BY <1>11, <2>1, <2>2 DEF Passes
  <2>3. PassGives(z.pc, z.st, x, y)
    BY <1>10, <1>12, <1>13, <2>4, PassMove
  <2> QED
    BY <2>3 DEF W, PassGives
<1>15. After(z, W)
  BY <1>3, <1>7, <1>11, MidEnd
<1>16. Serves(z, y)
  BY <1>14, <1>15, SessEnds
<1> QED
  BY <1>8, <1>16 DEF z, y, b

(* ... or waits for one. *)
LEMMA BlockStep ==
  ASSUME NEW s, NEW t, NEW p, NEW x, Fills(s, t, p, x), x.num = "mine", ~(x.inbuf > 0),
         x.peer # "closed"
  PROVE  Serves(taskswitch(s, t, "reading"), [x EXCEPT !.reader = t])
<1> DEFINE W == SessWaiting(x)
           z == taskswitch(s, t, "reading")
           y == [x EXCEPT !.reader = t]
<1>1. /\ t \in Tasks /\ t \notin W /\ x.closer = Nobody /\ x.reader = Nobody
      /\ t # x.lock.owner
  BY FillFacts
<1>2. /\ Mid(s, t, W) /\ Hosted(p, s.st, x) /\ p[t] = "reading" /\ Conn(x) /\ Edge(x)
      /\ x \in SessRec /\ Listed(x) /\ \A v \in Tasks \ {t} : p[v] = s.pc[v]
  BY DEF Fills, Hosted, Listed
<1>3. "reading" \in Pcs \ AioPcs
  BY DEF Pcs, AioPcs
<1>4. After(z, W \cup {t}) /\ MidTo(s, t, "reading", z)
  BY <1>2, <1>3, MidSwitch
<1> HIDE DEF z
<1>5. /\ y \in SessRec /\ y.msgs = x.msgs /\ y.lock = x.lock /\ y.closer = x.closer
      /\ y.epoll = x.epoll /\ y.sent = x.sent /\ y.inbuf = x.inbuf
      /\ y.cond = x.cond /\ y.deinit = x.deinit /\ y.reader = t /\ y.writer = x.writer
      /\ y.num = x.num /\ y.peer = x.peer /\ y.out = x.out /\ y.nospace = x.nospace
      /\ y.set = x.set /\ y.fd = x.fd /\ y.robbed = x.robbed /\ y.ctx = x.ctx
      /\ y.pending = x.pending /\ y.enabled = x.enabled
  BY <1>1, <1>2 DEF SessRec
<1> HIDE DEF y
<1>6. SessWaiting(y) = W \cup {t}
  BY <1>1, <1>5, TaskNames DEF SessWaiting
<1>7. ASSUME On(z) PROVE Hosted(z.pc, z.st, y)
  <2>1. /\ z.st = s.st /\ z.pc[t] = "reading" /\ \A v \in Tasks \ {t} : z.pc[v] = s.pc[v]
    BY <1>4, <1>7 DEF MidTo
  <2>2. Moves(p, s.st, z.pc, z.st, t)
    BY <1>2, <2>1 DEF Moves
  <2>3. Leaves(x, y) /\ SessKeeps(t, x, y)
    BY <1>5 DEF Leaves, SessKeeps
  <2>4. SameKind(p, z.pc, x.closer, t) /\ t # x.closer
    BY <1>1, <1>2, <2>1, TaskNames DEF SameKind
  <2>5. /\ t # y.writer /\ ~InQueue(t, y.lock.waiting)
        /\ ~InQueue(t, y.cond) /\ ~InQueue(t, y.deinit) /\ t # y.closer
    BY <1>1, <1>5, <2>4 DEF SessWaiting
  <2>6. SessAt(z.pc, z.st, y, t)
    BY <2>1, <2>5 DEF SessAt, SessPcs, RecvPcs, EndPcs, ShutPcs, ClosePcs, WritePcs
  <2>7. Listed(y)
    BY <1>2, <1>5 DEF Listed
  <2>8. Conn(y)
    BY <1>2, <1>5 DEF Conn
  <2>9. Edge(y)
    BY <1>2, <1>5 DEF Edge
  <2>10. Polls(z.pc, y)
    BY <1>2, <1>5, <2>1 DEF Hosted, Polls
  <2> QED
    BY <1>1, <1>2, <2>2, <2>3, <2>4, <2>6, <2>7, <2>8, <2>9, <2>10, KindMove
<1>8. Serves(z, y)
  BY <1>4, <1>6, <1>7, SessEnds
<1> QED
  BY <1>8 DEF z, y

(* The receiver reads, waits or fails. *)
LEMMA ReadsTo ==
  ASSUME NEW t, NEW p, NEW x, Fills(sch, t, p, x), Read(sch, x, t)
  PROVE  Serves(sch', ss')
<1>1. x \in SessRec /\ Conn(x) /\ sch \in Thread /\ x.reader = Nobody
  BY FillFacts DEF Fills, Mid, Hosted, Listed
<1>2. x.num \in {"mine", "free", "rival"}
  BY <1>1, SessFields
<1>3. CASE x.num = "rival"
  <2>1. sch' = Abort(sch, "foreign") /\ ss' = x
    BY <1>3 DEF Read, Step
  <2>2. "foreign" \in Whys /\ Blamed("foreign", x)
    BY <1>1, <1>3 DEF Whys, Conn, Blamed
  <2> QED
    BY <1>1, <2>1, <2>2, SessAborted
<1>4. CASE x.num = "free"
  <2>1. RecvFails(sch, x, t)
    BY <1>4 DEF Read
  <2>2. /\ sch' = taskexit(taskcreate(sch, "closed", TRUE), t)
        /\ ss' = [x EXCEPT !.enabled = FALSE]
    BY <2>1 DEF RecvFails, Step
  <2>3. x.num # "mine"
    BY <1>4
  <2> QED
    BY <2>2, <2>3, FailStep
<1>5. CASE x.num = "mine" /\ x.inbuf > 0
  <2>1. /\ sch' = taskcreate(Goto(sch, t, "receive"), "handler", TRUE)
        /\ ss' = [x EXCEPT !.inbuf = x.inbuf - 1]
    <3>1. x.inbuf # 0
      BY <1>1, <1>5, SessFields
    <3>2. Read(sch, x, t) = Step(taskcreate(Goto(sch, t, "receive"), "handler", TRUE),
                                 [x EXCEPT !.inbuf = x.inbuf - 1])
      BY <1>5, <3>1 DEF Read
    <3> QED
      BY <3>2 DEF Step
  <2> QED
    BY <1>5, <2>1, HandlerStep
<1>6. CASE x.num = "mine" /\ ~(x.inbuf > 0)
  <2>0. x.inbuf = 0
    BY <1>1, <1>6, SessFields
  <2>1. CASE x.peer = "closed"
    <3>1. RecvFails(sch, x, t)
      BY <1>6, <2>0, <2>1 DEF Read
    <3>2. /\ sch' = taskexit(taskcreate(sch, "closed", TRUE), t)
          /\ ss' = [x EXCEPT !.enabled = FALSE]
      BY <3>1 DEF RecvFails, Step
    <3> QED
      BY <2>1, <3>2, FailStep
  <2>2. CASE x.peer # "closed"
    <3>1. sch' = taskswitch(sch, t, "reading") /\ ss' = [x EXCEPT !.reader = t]
      BY <1>1, <1>6, <2>0, <2>2 DEF Read, Step
    <3> QED
      BY <1>6, <2>2, <3>1, BlockStep
  <2> QED
    BY <2>1, <2>2
<1> QED
  BY <1>2, <1>3, <1>4, <1>5, <1>6

(* Woken, it reads again. *)
LEMMA ReadingStep ==
  ASSUME Serves(sch, ss), NEW t \in Tasks, Reading(t)
  PROVE  Serves(sch', ss')
<1>1. On(sch) /\ sch.running = t /\ sch.pc[t] = "reading" /\ Read(sch, ss, t)
  BY DEF Reading, At
<1>2. InSession(sch, ss)
  BY <1>1, IsInSession
<1>3. Mid(sch, t, SessWaiting(ss)) /\ Hosted(sch.pc, sch.st, ss)
  BY <1>1, <1>2, SessMid DEF AioPcs
<1>4. Fills(sch, t, sch.pc, ss)
  BY <1>1, <1>3 DEF Fills
<1> QED
  BY <1>1, <1>4, ReadsTo

(* It takes a buffer and reads, unless the channel is closed. *)
LEMMA ReceiveStep ==
  ASSUME Serves(sch, ss), NEW t \in Tasks, _rpc_receive(t)
  PROVE  Serves(sch', ss')
<1> DEFINE m == ss.msgs + 1
           x == [ss EXCEPT !.msgs = m]
           p == [u \in Tasks |-> IF u = t THEN "reading" ELSE sch.pc[u]]
<1>1. /\ On(sch) /\ sch.running = t /\ sch.pc[t] = "receive"
      /\ IF ~ss.enabled \/ ~ss.fd \/ ~ss.ctx THEN RecvFails(sch, x, t) ELSE Read(sch, x, t)
  BY DEF _rpc_receive, At
<1>2. InSession(sch, ss)
  BY <1>1, IsInSession
<1>3. Mid(sch, t, SessWaiting(ss)) /\ Hosted(sch.pc, sch.st, ss)
  BY <1>1, <1>2, SessMid DEF AioPcs
<1>4. ss \in SessRec /\ t \notin SessWaiting(ss)
  BY <1>3, RunnerLive DEF Hosted, Listed
<1>5. m \in Nat /\ m = ss.msgs + 1
  BY <1>4, SessFields
<1> HIDE DEF m
<1>6. Buffers(ss, x)
  BY <1>4, <1>5 DEF SessRec, Buffers
<1>7. p[t] = "reading" /\ \A u \in Tasks \ {t} : p[u] = sch.pc[u]
  OBVIOUS
<1> HIDE DEF x, p
<1>8. Hosted(p, sch.st, x) /\ SessWaiting(x) = SessWaiting(ss)
  BY <1>1, <1>3, <1>4, <1>6, <1>7, FillStart
<1>9. Fills(sch, t, p, x)
  BY <1>1, <1>3, <1>7, <1>8 DEF Fills
<1>10. CASE ~ss.enabled \/ ~ss.fd \/ ~ss.ctx
  <2>1. RecvFails(sch, x, t)
    BY <1>1, <1>10
  <2>2. /\ sch' = taskexit(taskcreate(sch, "closed", TRUE), t)
        /\ ss' = [x EXCEPT !.enabled = FALSE]
    BY <2>1 DEF RecvFails, Step
  <2>3. x.num # "mine" \/ x.peer = "closed"
    <3>1. Conn(ss)
      BY <1>3 DEF Hosted
    <3> QED
      BY <1>6, <1>10, <3>1 DEF Conn, Buffers
  <2> QED
    BY <1>9, <2>2, <2>3, FailStep
<1>11. CASE ~(~ss.enabled \/ ~ss.fd \/ ~ss.ctx)
  <2>1. Read(sch, x, t)
    BY <1>1, <1>11
  <2> QED
    BY <1>9, <2>1, ReadsTo
<1> QED
  BY <1>10, <1>11

(* A task is at another place. *)
GoneTo1(s, z, t, W, l) == Mid(z, t, W) /\ Others1(s, z, t) /\ z.pc[t] = l
LEMMA MidGoes ==
  ASSUME NEW s, NEW t, NEW W, Mid(s, t, W), NEW l \in Pcs \ AioPcs
  PROVE  GoneTo1(s, Goto(s, t, l), t, W, l)
BY MidGoto DEF GoneTo1

(* A task goes on where it has the same part in the session. *)
LEMMA GoesOn ==
  ASSUME NEW s, NEW x, NEW t, Mid(s, t, SessWaiting(x)), Hosted(s.pc, s.st, x),
         NEW p, p = s.pc, NEW l \in Pcs \ AioPcs, NEW z, z = Goto(s, t, l),
         SameKind(p, z.pc, x.closer, t), t = x.lock.owner => l \in OwnerPcs,
         SessAt(z.pc, z.st, x, t)
  PROVE  Serves(z, x)
<1>1. Mid(z, t, SessWaiting(x)) /\ Others1(s, z, t) /\ z.pc[t] = l
  BY MidGoto
<1>2. t \in Tasks /\ s.st[t] = "live" /\ s.pc \in [Tasks -> Pcs]
  <2>1. s \in Thread
    BY DEF Mid
  <2> QED
    BY <2>1, RunnerLive, SchedFields
<1>3. After(z, SessWaiting(x))
  BY <1>1, MidEnd
<1>4. Moves(s.pc, s.st, z.pc, z.st, t)
  BY <1>1 DEF Moves, Others1
<1>5. t = x.closer => s.pc[t] # ""
  <2>1. Acc(s, t, SessWaiting(x)) /\ s.pc[t] \in Pcs
    BY <1>2 DEF Mid
  <2>2. s.pc[t] \in SessPcs
    BY <1>2 DEF Hosted, AllAt, SessAt
  <2> QED
    BY <2>2 DEF SessPcs, RecvPcs, OwnerPcs, WritePcs, ClosePcs, ShutPcs, EndPcs, AioPcs
<1>6. Polls(z.pc, x)
  <2>1. z.pc[t] # "poll"
    BY <1>1 DEF AioPcs
  <2> QED
    BY <1>1, <2>1 DEF Hosted, Polls, Others1
<1>7. Hosted(z.pc, z.st, x)
  BY <1>1, <1>2, <1>4, <1>5, <1>6, PlaceMove
<1> QED
  BY <1>3, <1>7, SessEnds

(* The receiver starts. *)
LEMMA RecvStep ==
  ASSUME Serves(sch, ss), NEW t \in Tasks, rpc_recv_task(t)
  PROVE  Serves(sch', ss')
<1> DEFINE s == tasksystem(sch, t)
           z == Goto(s, t, "receive")
<1>1. On(sch) /\ sch.running = t /\ sch.pc[t] = "recv" /\ sch' = z /\ ss' = ss
  BY DEF rpc_recv_task, At, Step
<1>2. InSession(sch, ss)
  BY <1>1, IsInSession
<1>3. Mid(sch, t, SessWaiting(ss)) /\ Hosted(sch.pc, sch.st, ss)
  BY <1>1, <1>2, SessMid DEF AioPcs
<1>4. Mid(s, t, SessWaiting(ss)) /\ s.st = sch.st /\ s.pc = sch.pc
      /\ t \notin SessWaiting(ss)
  BY <1>3, MidSystem, RunnerLive
<1> HIDE DEF s
<1>5. "receive" \in Pcs \ AioPcs
  BY DEF Pcs, AioPcs
<1>6. Others1(s, z, t) /\ z.pc[t] = "receive"
  BY <1>4, <1>5, MidGoto
<1>7. t # ss.closer /\ t # ss.lock.owner
  <2>1. /\ sch.pc[t] \in RecvPcs /\ sch.pc[t] \notin OwnerPcs /\ t # Nobody
    BY <1>1, TaskNames DEF RecvPcs, OwnerPcs, WritePcs, ClosePcs, ShutPcs
  <2>2. Held(sch.pc, ss.lock, ss.closer) /\ Led(sch.pc, ss.closer, ss.enabled, ss.epoll)
    BY <1>3 DEF Hosted
  <2> QED
    BY <2>1, <2>2 DEF Held, Led
<1> HIDE DEF z
<1>8. SameKind(s.pc, z.pc, ss.closer, t)
  BY <1>1, <1>4, <1>6, <1>7
     DEF SameKind, RecvPcs, BusyPcs, OwnerPcs, WritePcs, ClosePcs, ShutPcs
<1>9. SessAt(z.pc, z.st, ss, t)
  <2>1. /\ t # ss.reader /\ t # ss.writer /\ ~InQueue(t, ss.lock.waiting)
        /\ ~InQueue(t, ss.cond) /\ ~InQueue(t, ss.deinit)
    BY <1>4 DEF SessWaiting
  <2> QED
    BY <1>6, <1>7, <2>1 DEF SessAt, SessPcs, RecvPcs, EndPcs, ShutPcs, ClosePcs, WritePcs
<1>10. Serves(z, ss)
  <2>1. Hosted(s.pc, s.st, ss) /\ z = Goto(s, t, "receive")
    BY <1>3, <1>4 DEF z
  <2> QED
    BY <1>4, <1>5, <1>7, <1>8, <1>9, <2>1, GoesOn
<1> QED
  BY <1>1, <1>10

HandPcs == {"handler", "locked"} \cup WritePcs

(* A handler that runs. *)
LEMMA HandlerFacts ==
  ASSUME NEW s, NEW x, NEW t, Mid(s, t, SessWaiting(x)), Hosted(s.pc, s.st, x),
         s.pc[t] \in HandPcs
  PROVE  /\ t \in Tasks /\ t \notin SessWaiting(x) /\ t # x.closer
         /\ t # x.reader /\ t # x.writer /\ ~InQueue(t, x.lock.waiting)
         /\ ~InQueue(t, x.cond) /\ ~InQueue(t, x.deinit)
         /\ x.enabled /\ s.pc[t] # "handler" => t = x.lock.owner
         /\ s.pc[t] = "handler" => t # x.lock.owner
<1>1. t \in Tasks /\ t \notin SessWaiting(x)
  BY RunnerLive
<1>2. /\ t # x.reader /\ t # x.writer /\ ~InQueue(t, x.lock.waiting)
      /\ ~InQueue(t, x.cond) /\ ~InQueue(t, x.deinit)
  BY <1>1 DEF SessWaiting
<1>3. /\ SessAt(s.pc, s.st, x, t) /\ Held(s.pc, x.lock, x.closer)
      /\ Led(s.pc, x.closer, x.enabled, x.epoll)
  BY <1>1 DEF Hosted, AllAt
<1>4. s.pc[t] \notin ClosePcs \cup EndPcs \cup {""} /\ t # Nobody
  BY <1>1, TaskNames DEF HandPcs, WritePcs, ClosePcs, ShutPcs, EndPcs
<1>5. t # x.closer
  BY <1>3, <1>4 DEF Led
<1>6. x.enabled /\ s.pc[t] # "handler" => t = x.lock.owner
  BY <1>2, <1>3 DEF SessAt, HandPcs
<1>7. s.pc[t] = "handler" => t # x.lock.owner
  BY <1>3, <1>4 DEF Held, OwnerPcs, WritePcs, ClosePcs, ShutPcs
<1> QED
  BY <1>1, <1>2, <1>5, <1>6, <1>7

(* It goes on to write, to unlock or to close. *)
LEMMA HandlerKind ==
  ASSUME NEW pc, NEW pc2, NEW c, NEW t, pc[t] \in HandPcs, t # c,
         pc2[t] \in {"locked", "close in"} \cup WritePcs
  PROVE  SameKind(pc, pc2, c, t) /\ pc2[t] \in OwnerPcs
<1>1. /\ pc[t] \in BusyPcs /\ pc2[t] \in BusyPcs /\ pc2[t] \in OwnerPcs
      /\ pc[t] \notin RecvPcs /\ pc2[t] \notin RecvPcs /\ pc[t] # "closed" /\ pc2[t] # "closed"
      /\ pc[t] # "reading" /\ pc2[t] # "reading"
  BY DEF HandPcs, BusyPcs, OwnerPcs, WritePcs, ClosePcs, ShutPcs, RecvPcs
<1> QED
  BY <1>1 DEF SameKind

(* What its place means when it waits for nobody. *)
LEMMA HandlerAt ==
  ASSUME NEW pc, NEW st, NEW y, NEW t, pc[t] \in {"close in"} \cup WritePcs,
         t # y.reader, t = y.writer => pc[t] = "writing", ~InQueue(t, y.lock.waiting),
         ~InQueue(t, y.cond), ~InQueue(t, y.deinit), t # y.closer,
         y.enabled => t = y.lock.owner
  PROVE  SessAt(pc, st, y, t)
<1>1. /\ pc[t] \in SessPcs /\ pc[t] # "done" /\ pc[t] \notin EndPcs /\ pc[t] # "drained"
      /\ pc[t] \notin ShutPcs /\ pc[t] # "closed" /\ pc[t] # "locked"
  BY DEF WritePcs, SessPcs, OwnerPcs, ClosePcs, ShutPcs, EndPcs
<1> QED
  BY <1>1 DEF SessAt

(* Without a change of the session. *)
LEMMA HandlerGoes ==
  ASSUME NEW s, NEW x, NEW t, Mid(s, t, SessWaiting(x)), Hosted(s.pc, s.st, x),
         s.pc[t] \in HandPcs, NEW l \in Pcs \ AioPcs, l \in {"write", "unlock", "close in"},
         x.enabled => t = x.lock.owner
  PROVE  Serves(Goto(s, t, l), x)
<1> DEFINE z == Goto(s, t, l)
<1>1. /\ t \in Tasks /\ t \notin SessWaiting(x) /\ t # x.closer
      /\ t # x.reader /\ t # x.writer /\ ~InQueue(t, x.lock.waiting)
      /\ ~InQueue(t, x.cond) /\ ~InQueue(t, x.deinit)
  BY HandlerFacts
<1>2. l \in {"locked", "close in"} \cup WritePcs /\ l \in {"close in"} \cup WritePcs
  BY DEF WritePcs
<1>3. Mid(z, t, SessWaiting(x)) /\ Others1(s, z, t) /\ z.pc[t] = l
  <2>1. Mid(s, t, SessWaiting(x)) /\ l \in Pcs \ AioPcs
    OBVIOUS
  <2>2. GoneTo1(s, z, t, SessWaiting(x), l)
    BY ONLY <2>1, MidGoes
  <2> QED
    BY ONLY <2>2 DEF GoneTo1
<1>4. z = Goto(s, t, l)
  OBVIOUS
<1> HIDE DEF z
<1>5. SameKind(s.pc, z.pc, x.closer, t) /\ l \in OwnerPcs
  BY <1>1, <1>2, <1>3, HandlerKind
<1>6. SessAt(z.pc, z.st, x, t)
  BY <1>1, <1>2, <1>3, HandlerAt
<1>7. Serves(z, x)
  BY <1>4, <1>5, <1>6, GoesOn
<1> QED
  BY <1>7 DEF z

(* A step that changes the lock, too. *)
LeavesLock(x, y) ==
  /\ y.closer = x.closer /\ y.epoll = x.epoll
  /\ y.msgs = x.msgs /\ y.inbuf = x.inbuf /\ y.sent = x.sent /\ (y.enabled => x.enabled)

(* Such a step keeps the session in order when the lock is still held. *)
LEMMA LockMove ==
  ASSUME NEW pc, NEW st, NEW x, Hosted(pc, st, x), NEW t \in Tasks, NEW pc2, NEW st2, NEW y,
         Moves(pc, st, pc2, st2, t), LeavesLock(x, y), SameKind(pc, pc2, x.closer, t),
         t = x.closer => pc[t] # "", Held(pc2, y.lock, y.closer),
         SessKeeps(t, x, y), SessAt(pc2, st2, y, t), Listed(y), Conn(y), Edge(y),
         Polls(pc2, y)
  PROVE  Hosted(pc2, st2, y)
<1>1. /\ x \in SessRec /\ AllAt(pc, st, x)
      /\ Led(pc, x.closer, x.enabled, x.epoll)
      /\ Messages(pc, x.closer, x.msgs, x.inbuf, x.sent)
  BY DEF Hosted, Listed
<1>2. \A u \in Tasks \ {t} : pc2[u] = pc[u]
  BY DEF Moves
<1>3. AllAt(pc2, st2, y)
  BY <1>1, AllMove
<1>4. x.closer \in Tasks \cup {Nobody}
  BY <1>1, SessFields
<1>6. Led(pc2, x.closer, x.enabled, x.epoll)
  BY <1>1, <1>2, <1>4, LedMove
<1>7. Messages(pc2, x.closer, x.msgs, x.inbuf, x.sent)
  BY <1>1, <1>2, HoldersMove
<1>8. /\ Led(pc2, y.closer, y.enabled, y.epoll)
      /\ Messages(pc2, y.closer, y.msgs, y.inbuf, y.sent)
  BY <1>6, <1>7 DEF LeavesLock, Led
<1> QED
  BY <1>3, <1>8 DEF Hosted

(* The lock is asked for. *)
AsksLock(x, y, q) ==
  /\ y \in SessRec /\ y.msgs = x.msgs /\ y.lock = q /\ y.closer = x.closer
  /\ y.epoll = x.epoll /\ y.sent = x.sent /\ y.inbuf = x.inbuf
  /\ y.cond = x.cond /\ y.deinit = x.deinit /\ y.reader = x.reader /\ y.writer = x.writer
  /\ y.num = x.num /\ y.peer = x.peer /\ y.out = x.out /\ y.nospace = x.nospace
  /\ y.set = x.set /\ y.fd = x.fd /\ y.robbed = x.robbed /\ y.ctx = x.ctx
  /\ y.pending = x.pending /\ y.enabled = x.enabled

(* Asking for the lock changes nothing but the lock. *)
LEMMA AskFields ==
  ASSUME NEW x, Listed(x), Conn(x), Edge(x),
         NEW q \in [owner : Tasks \cup {Nobody}, waiting : Seq(Tasks)],
         Distinct(q.waiting, Tasks)
  PROVE  LET y == [x EXCEPT !.lock = q]
         IN  AsksLock(x, y, q) /\ Listed(y) /\ Conn(y) /\ Edge(y) /\ LeavesLock(x, y)
<1> DEFINE y == [x EXCEPT !.lock = q]
<1>1. x \in SessRec
  BY DEF Listed
<1>2. AsksLock(x, y, q)
  BY <1>1 DEF SessRec, AsksLock
<1> HIDE DEF y
<1>3. Listed(y)
  BY <1>2 DEF Listed, AsksLock
<1>4. Conn(y) /\ Edge(y)
  BY <1>2 DEF Conn, Edge, AsksLock
<1>5. LeavesLock(x, y)
  BY <1>2 DEF LeavesLock, AsksLock
<1>6. AsksLock(x, y, q) /\ Listed(y) /\ Conn(y) /\ Edge(y) /\ LeavesLock(x, y)
  BY <1>2, <1>3, <1>4, <1>5
<1> QED
  BY <1>6 DEF y

(* The lock is free, ... *)
LEMMA LockTaken ==
  ASSUME NEW s, NEW x, NEW t, Mid(s, t, SessWaiting(x)), Hosted(s.pc, s.st, x),
         s.pc[t] = "handler", x.enabled, x.lock.owner = Nobody
  PROVE  Serves(Goto(s, t, "write"), [x EXCEPT !.lock = Lock(x.lock, t)])
<1> DEFINE z == Goto(s, t, "write")
           q == Lock(x.lock, t)
           y == [x EXCEPT !.lock = q]
<1>0. s.pc[t] \in HandPcs
  BY DEF HandPcs
<1>1. /\ t \in Tasks /\ t \notin SessWaiting(x) /\ t # x.closer
      /\ t # x.reader /\ t # x.writer /\ ~InQueue(t, x.lock.waiting)
      /\ ~InQueue(t, x.cond) /\ ~InQueue(t, x.deinit)
  BY <1>0, HandlerFacts
<1>2. "write" \in Pcs \ AioPcs /\ "write" \notin AioPcs
  BY DEF Pcs, AioPcs
<1>3. Mid(z, t, SessWaiting(x)) /\ Others1(s, z, t) /\ z.pc[t] = "write"
  BY <1>2, MidGoto
<1> HIDE DEF z
<1>4. /\ x \in SessRec /\ Listed(x) /\ Conn(x) /\ Edge(x) /\ Held(s.pc, x.lock, x.closer)
      /\ Distinct(x.lock.waiting, Tasks)
  BY DEF Hosted, Listed
<1>5. x.lock \in [owner : Tasks \cup {Nobody}, waiting : Seq(Tasks)]
  BY <1>4, SessFields
<1>6. q \in [owner : Tasks \cup {Nobody}, waiting : Seq(Tasks)]
      /\ q.owner = t /\ q.waiting = x.lock.waiting
  BY <1>1, <1>5 DEF Lock
<1> HIDE DEF q
<1>7. AsksLock(x, y, q) /\ Listed(y) /\ Conn(y) /\ Edge(y) /\ LeavesLock(x, y)
  BY <1>4, <1>6, AskFields
<1> HIDE DEF y
<1>8. Moves(s.pc, s.st, z.pc, z.st, t)
  BY <1>3 DEF Moves, Others1
<1>9. SameKind(s.pc, z.pc, x.closer, t) /\ z.pc[t] \in OwnerPcs
  BY <1>0, <1>1, <1>3, HandlerKind DEF WritePcs
<1>10. Held(z.pc, y.lock, y.closer)
  BY <1>1, <1>6, <1>7, <1>9, TaskNames DEF Held, AsksLock
<1>11. SessKeeps(t, x, y)
  BY <1>6, <1>7, TaskNames DEF SessKeeps, AsksLock
<1>12. SessAt(z.pc, z.st, y, t)
  <2>1. z.pc[t] \in {"close in"} \cup WritePcs
    BY <1>3 DEF WritePcs
  <2>2. /\ t # y.reader /\ t # y.writer /\ ~InQueue(t, y.lock.waiting)
        /\ ~InQueue(t, y.cond) /\ ~InQueue(t, y.deinit) /\ t # y.closer /\ t = y.lock.owner
    BY <1>1, <1>6, <1>7 DEF AsksLock
  <2> QED
    BY <2>1, <2>2, HandlerAt
<1>13. Polls(z.pc, y)
  BY <1>3, <1>7 DEF Hosted, Polls, AsksLock, Others1
<1>14. Hosted(z.pc, z.st, y)
  BY <1>1, <1>7, <1>8, <1>9, <1>10, <1>11, <1>12, <1>13, LockMove
<1>15. SessWaiting(y) = SessWaiting(x)
  BY <1>6, <1>7 DEF SessWaiting, AsksLock
<1>16. After(z, SessWaiting(y))
  BY <1>2, <1>3, <1>15, MidEnd
<1>17. Serves(z, y)
  BY <1>14, <1>16, SessEnds
<1> QED
  BY <1>17 DEF z, y, q

(* ... or somebody has it. *)
LEMMA LockAwaited ==
  ASSUME NEW s, NEW x, NEW t, Mid(s, t, SessWaiting(x)), Hosted(s.pc, s.st, x),
         s.pc[t] = "handler", x.enabled, x.lock.owner # Nobody
  PROVE  Serves(taskswitch(s, t, "locked"), [x EXCEPT !.lock = Lock(x.lock, t)])
<1> DEFINE W == SessWaiting(x)
           z == taskswitch(s, t, "locked")
           w == Append(x.lock.waiting, t)
           q == Lock(x.lock, t)
           y == [x EXCEPT !.lock = q]
<1>0. s.pc[t] \in HandPcs
  BY DEF HandPcs
<1>1. /\ t \in Tasks /\ t \notin SessWaiting(x) /\ t # x.closer
      /\ t # x.reader /\ t # x.writer /\ ~InQueue(t, x.lock.waiting)
      /\ ~InQueue(t, x.cond) /\ ~InQueue(t, x.deinit) /\ t # x.lock.owner
  BY <1>0, HandlerFacts
<1>2. "locked" \in Pcs \ AioPcs
  BY DEF Pcs, AioPcs
<1>3. After(z, W \cup {t}) /\ MidTo(s, t, "locked", z)
  BY <1>2, MidSwitch
<1> HIDE DEF z
<1>4. /\ x \in SessRec /\ Listed(x) /\ Conn(x) /\ Edge(x) /\ Held(s.pc, x.lock, x.closer)
      /\ Distinct(x.lock.waiting, Tasks)
  BY DEF Hosted, Listed
<1>5. x.lock \in [owner : Tasks \cup {Nobody}, waiting : Seq(Tasks)]
      /\ x.lock.waiting \in Seq(Tasks) /\ x.lock.owner \in Tasks \cup {Nobody}
  BY <1>4, SessFields
<1>6. /\ w \in Seq(Tasks) /\ Distinct(w, Tasks)
      /\ \A u : InQueue(u, w) <=> InQueue(u, x.lock.waiting) \/ u = t
  BY <1>1, <1>4, <1>5, AppendTo
<1>7. q = [x.lock EXCEPT !.waiting = w]
  BY DEF Lock
<1> HIDE DEF q, w
<1>8. q \in [owner : Tasks \cup {Nobody}, waiting : Seq(Tasks)]
      /\ q.owner = x.lock.owner /\ q.waiting = w
  BY <1>5, <1>6, <1>7
<1>9. AsksLock(x, y, q) /\ Listed(y) /\ Conn(y) /\ Edge(y) /\ LeavesLock(x, y)
  BY <1>4, <1>6, <1>8, AskFields
<1> HIDE DEF y
<1>10. SessWaiting(y) = W \cup {t}
  BY <1>1, <1>6, <1>8, <1>9 DEF SessWaiting, AsksLock
<1>11. ASSUME On(z) PROVE Hosted(z.pc, z.st, y)
  <2>1. /\ z.st = s.st /\ z.pc[t] = "locked" /\ \A v \in Tasks \ {t} : z.pc[v] = s.pc[v]
    BY <1>3, <1>11 DEF MidTo
  <2>2. Moves(s.pc, s.st, z.pc, z.st, t)
    BY <2>1 DEF Moves
  <2>3. SameKind(s.pc, z.pc, x.closer, t)
    BY <1>0, <1>1, <2>1, HandlerKind
  <2>4. Held(z.pc, y.lock, y.closer)
    <3>1. x.lock.owner # t /\ x.lock.owner \in Tasks
      BY <1>1, <1>5
    <3> QED
      BY <1>4, <1>6, <1>8, <1>9, <2>1, <3>1 DEF Held, AsksLock
  <2>5. SessKeeps(t, x, y)
    BY <1>6, <1>8, <1>9 DEF SessKeeps, AsksLock
  <2>6. SessAt(z.pc, z.st, y, t)
    <3>1. /\ t # y.reader /\ t # y.writer /\ InQueue(t, y.lock.waiting)
          /\ ~InQueue(t, y.cond) /\ ~InQueue(t, y.deinit) /\ t # y.closer
      BY <1>1, <1>6, <1>8, <1>9 DEF AsksLock
    <3>2. /\ z.pc[t] \in SessPcs /\ z.pc[t] \notin EndPcs /\ z.pc[t] \notin ShutPcs
          /\ z.pc[t] \notin WritePcs \cup ClosePcs
      BY <2>1 DEF WritePcs, SessPcs, OwnerPcs, ClosePcs, ShutPcs, EndPcs
    <3> QED
      BY <2>1, <3>1, <3>2 DEF SessAt
  <2>7. Polls(z.pc, y)
    BY <1>9, <2>1 DEF Hosted, Polls, AsksLock
  <2> QED
    BY <1>1, <1>9, <2>2, <2>3, <2>4, <2>5, <2>6, <2>7, LockMove
<1>12. Serves(z, y)
  BY <1>3, <1>10, <1>11, SessEnds
<1> QED
  BY <1>12 DEF z, y, q

(* rpc_response up to the lock. *)
LEMMA ResponseStep ==
  ASSUME Serves(sch, ss), NEW t \in Tasks, rpc_response(t)
  PROVE  Serves(sch', ss')
<1>1. On(sch) /\ sch.running = t /\ sch.pc[t] = "handler"
  BY DEF rpc_response, At
<1>2. InSession(sch, ss)
  BY <1>1, IsInSession
<1>3. Mid(sch, t, SessWaiting(ss)) /\ Hosted(sch.pc, sch.st, ss)
  BY <1>1, <1>2, SessMid DEF AioPcs
<1>4. CASE ~ss.enabled /\ Step(Goto(sch, t, "unlock"), ss)
  <2>1. sch' = Goto(sch, t, "unlock") /\ ss' = ss
    BY <1>4 DEF Step
  <2>2. /\ "unlock" \in {"write", "unlock", "close in"} /\ sch.pc[t] \in HandPcs
        /\ "unlock" \in Pcs \ AioPcs
    BY <1>1 DEF HandPcs, Pcs, AioPcs
  <2> QED
    BY <1>3, <1>4, <2>1, <2>2, HandlerGoes
<1>5. CASE /\ ss.enabled /\ ss.lock.owner = Nobody
           /\ Step(Goto(sch, t, "write"), [ss EXCEPT !.lock = Lock(@, t)])
  <2>1. sch' = Goto(sch, t, "write") /\ ss' = [ss EXCEPT !.lock = Lock(ss.lock, t)]
    BY <1>5 DEF Step
  <2> QED
    BY <1>1, <1>3, <1>5, <2>1, LockTaken
<1>6. CASE /\ ss.enabled /\ ss.lock.owner # Nobody
           /\ Step(taskswitch(sch, t, "locked"), [ss EXCEPT !.lock = Lock(@, t)])
  <2>1. sch' = taskswitch(sch, t, "locked") /\ ss' = [ss EXCEPT !.lock = Lock(ss.lock, t)]
    BY <1>6 DEF Step
  <2> QED
    BY <1>1, <1>3, <1>6, <2>1, LockAwaited
<1>7. CASE Step(Abort(sch, "device"), ss)
  <2>1. sch' = Abort(sch, "device") /\ ss' = ss
    BY <1>7 DEF Step
  <2>2. "device" \in Whys /\ Blamed("device", ss) /\ sch \in Thread
    BY <1>3 DEF Whys, Blamed, Mid
  <2> QED
    BY <2>1, <2>2, SessAborted
<1> QED
  BY <1>4, <1>5, <1>6, <1>7 DEF rpc_response, DeviceFails

(* It has been handed the lock. *)
LEMMA ResponseLockedStep ==
  ASSUME Serves(sch, ss), NEW t \in Tasks, ResponseLocked(t)
  PROVE  Serves(sch', ss')
<1>1. /\ On(sch) /\ sch.running = t /\ sch.pc[t] = "locked" /\ ss' = ss
      /\ sch' = IF ss.lock.owner # t THEN Abort(sch, "qlock") ELSE Goto(sch, t, "write")
  BY DEF ResponseLocked, At, Step
<1>2. InSession(sch, ss)
  BY <1>1, IsInSession
<1>3. Mid(sch, t, SessWaiting(ss)) /\ Hosted(sch.pc, sch.st, ss)
  BY <1>1, <1>2, SessMid DEF AioPcs
<1>4. sch.pc[t] \in HandPcs /\ sch \in Thread
  BY <1>1, <1>3 DEF HandPcs, Mid
<1>5. CASE ss.lock.owner # t
  <2>1. ~ss.enabled
    BY <1>1, <1>3, <1>4, <1>5, HandlerFacts
  <2>2. "qlock" \in Whys /\ Blamed("qlock", ss)
    BY <2>1 DEF Whys, Blamed
  <2> QED
    BY <1>1, <1>4, <1>5, <2>2, SessAborted
<1>6. CASE ss.lock.owner = t
  <2>1. /\ sch' = Goto(sch, t, "write") /\ "write" \in {"write", "unlock", "close in"}
        /\ "write" \in Pcs \ AioPcs
    BY <1>1, <1>6 DEF Pcs, AioPcs
  <2> QED
    BY <1>1, <1>3, <1>4, <1>6, <2>1, HandlerGoes
<1> QED
  BY <1>5, <1>6

(* Who writes has the lock, so that nobody else waits to write. *)
LEMMA NoWriter ==
  ASSUME NEW s, NEW x, NEW t, Mid(s, t, SessWaiting(x)), Hosted(s.pc, s.st, x),
         s.pc[t] \in {"write", "writing"}, x.enabled
  PROVE  x.writer = Nobody /\ t = x.lock.owner
<1>0. s.pc[t] \in HandPcs /\ s.pc[t] # "handler"
  BY DEF HandPcs, WritePcs
<1>1. t = x.lock.owner /\ t # x.writer
  BY <1>0, HandlerFacts
<1>2. x.writer \in Tasks \cup {Nobody} /\ AllAt(s.pc, s.st, x)
  BY SessFields DEF Hosted, Listed
<1>3. ASSUME x.writer \in Tasks PROVE FALSE
  <2> DEFINE w == x.writer
  <2>1. SessAt(s.pc, s.st, x, w) /\ w = x.writer
    BY <1>2, <1>3 DEF AllAt
  <2> HIDE DEF w
  <2>2. w = x.lock.owner
    BY <2>1 DEF SessAt, WritePcs
  <2> QED
    BY <1>1, <2>1, <2>2
<1> QED
  BY <1>1, <1>2, <1>3

(* What writing changes. *)
Writes(x, y) ==
  /\ y \in SessRec /\ y.msgs = x.msgs /\ y.lock = x.lock /\ y.closer = x.closer
  /\ y.epoll = x.epoll /\ y.sent = x.sent /\ y.inbuf = x.inbuf
  /\ y.cond = x.cond /\ y.deinit = x.deinit /\ y.reader = x.reader
  /\ y.num = x.num /\ y.peer = x.peer
  /\ y.set = x.set /\ y.fd = x.fd /\ y.robbed = x.robbed /\ y.ctx = x.ctx
  /\ y.pending = x.pending /\ y.enabled = x.enabled

(* The answer is written, ... *)
LEMMA AnswerPut ==
  ASSUME NEW s, NEW x, NEW t, Mid(s, t, SessWaiting(x)), Hosted(s.pc, s.st, x),
         s.pc[t] \in {"write", "writing"}, x.num = "mine", x.peer # "closed", x.out < Cap
  PROVE  Serves(Goto(s, t, "unlock"), [x EXCEPT !.out = x.out + 1])
<1> DEFINE z == Goto(s, t, "unlock")
           o == x.out + 1
           y == [x EXCEPT !.out = o]
<1>0. s.pc[t] \in HandPcs /\ s.pc[t] # "handler"
  BY DEF HandPcs, WritePcs
<1>1. /\ t \in Tasks /\ t \notin SessWaiting(x) /\ t # x.closer
      /\ t # x.reader /\ t # x.writer /\ ~InQueue(t, x.lock.waiting)
      /\ ~InQueue(t, x.cond) /\ ~InQueue(t, x.deinit)
  BY <1>0, HandlerFacts
<1>2. "unlock" \in Pcs \ AioPcs /\ "unlock" \notin AioPcs
  BY DEF Pcs, AioPcs
<1>3. Mid(z, t, SessWaiting(x)) /\ Others1(s, z, t) /\ z.pc[t] = "unlock"
  BY <1>2, MidGoto
<1> HIDE DEF z
<1>4. x \in SessRec /\ Listed(x) /\ Conn(x) /\ Edge(x)
  BY DEF Hosted, Listed
<1>5. x.writer = Nobody /\ t = x.lock.owner
  <2>1. x.enabled
    BY <1>4 DEF Conn
  <2> QED
    BY <2>1, NoWriter
<1>6. o \in Nat /\ o <= Cap
  BY <1>4, SessFields, Bounds
<1> HIDE DEF o
<1>7. Writes(x, y) /\ y.out = o /\ y.writer = x.writer
  BY <1>4, <1>6 DEF SessRec, Writes
<1> HIDE DEF y
<1>8. Listed(y)
  BY <1>4, <1>6, <1>7 DEF Listed, Writes
<1>9. Conn(y) /\ Edge(y)
  BY <1>4, <1>5, <1>7 DEF Conn, Edge, Writes
<1>10. Moves(s.pc, s.st, z.pc, z.st, t)
  BY <1>3 DEF Moves, Others1
<1>11. SameKind(s.pc, z.pc, x.closer, t) /\ z.pc[t] \in OwnerPcs
  BY <1>0, <1>1, <1>3, HandlerKind DEF WritePcs
<1>12. SessKeeps(t, x, y) /\ Leaves(x, y)
  BY <1>7 DEF SessKeeps, Leaves, Writes
<1>13. SessAt(z.pc, z.st, y, t)
  <2>1. z.pc[t] \in {"close in"} \cup WritePcs
    BY <1>3 DEF WritePcs
  <2>2. /\ t # y.reader /\ t # y.writer /\ ~InQueue(t, y.lock.waiting)
        /\ ~InQueue(t, y.cond) /\ ~InQueue(t, y.deinit) /\ t # y.closer /\ t = y.lock.owner
    BY <1>1, <1>5, <1>7 DEF Writes
  <2> QED
    BY <2>1, <2>2, HandlerAt
<1>14. Polls(z.pc, y)
  BY <1>3, <1>7 DEF Hosted, Polls, Writes, Others1
<1>15. Hosted(z.pc, z.st, y)
  BY <1>1, <1>8, <1>9, <1>10, <1>11, <1>12, <1>13, <1>14, KindMove
<1>16. SessWaiting(y) = SessWaiting(x)
  BY <1>7 DEF SessWaiting, Writes
<1>17. After(z, SessWaiting(y))
  BY <1>2, <1>3, <1>16, MidEnd
<1>18. Serves(z, y)
  BY <1>15, <1>17, SessEnds
<1> QED
  BY <1>18 DEF z, y, o

(* ... or waits for room in the socket. *)
LEMMA AnswerBlocked ==
  ASSUME NEW s, NEW x, NEW t, Mid(s, t, SessWaiting(x)), Hosted(s.pc, s.st, x),
         s.pc[t] \in {"write", "writing"}, x.num = "mine", x.peer # "closed", x.out = Cap
  PROVE  /\ x.writer = Nobody
         /\ Serves(taskswitch(s, t, "writing"), [x EXCEPT !.writer = t, !.nospace = TRUE])
<1> DEFINE W == SessWaiting(x)
           z == taskswitch(s, t, "writing")
           y == [x EXCEPT !.writer = t, !.nospace = TRUE]
<1>0. s.pc[t] \in HandPcs /\ s.pc[t] # "handler"
  BY DEF HandPcs, WritePcs
<1>1. /\ t \in Tasks /\ t \notin SessWaiting(x) /\ t # x.closer
      /\ t # x.reader /\ t # x.writer /\ ~InQueue(t, x.lock.waiting)
      /\ ~InQueue(t, x.cond) /\ ~InQueue(t, x.deinit)
  BY <1>0, HandlerFacts
<1>2. "writing" \in Pcs \ AioPcs
  BY DEF Pcs, AioPcs
<1>3. After(z, W \cup {t}) /\ MidTo(s, t, "writing", z)
  BY <1>2, MidSwitch
<1> HIDE DEF z
<1>4. x \in SessRec /\ Listed(x) /\ Conn(x) /\ Edge(x)
  BY DEF Hosted, Listed
<1>5. x.writer = Nobody /\ t = x.lock.owner
  <2>1. x.enabled
    BY <1>4 DEF Conn
  <2> QED
    BY <2>1, NoWriter
<1>6. Writes(x, y) /\ y.out = x.out /\ y.writer = t /\ y.nospace
  BY <1>1, <1>4 DEF SessRec, Writes
<1> HIDE DEF y
<1>7. SessWaiting(y) = W \cup {t}
  BY <1>1, <1>5, <1>6, TaskNames DEF SessWaiting, Writes
<1>8. ASSUME On(z) PROVE Hosted(z.pc, z.st, y)
  <2>1. /\ z.st = s.st /\ z.pc[t] = "writing" /\ \A v \in Tasks \ {t} : z.pc[v] = s.pc[v]
    BY <1>3, <1>8 DEF MidTo
  <2>2. Moves(s.pc, s.st, z.pc, z.st, t)
    BY <2>1 DEF Moves
  <2>3. SameKind(s.pc, z.pc, x.closer, t) /\ z.pc[t] \in OwnerPcs
    BY <1>0, <1>1, <2>1, HandlerKind DEF WritePcs
  <2>4. Listed(y)
    BY <1>4, <1>6 DEF Listed, Writes
  <2>5. Conn(y)
    BY <1>4, <1>6 DEF Conn, Writes
  <2>6. Edge(y)
    <3>1. ~(x.out < Cap)
      BY <1>4, SessFields, Bounds
    <3> QED
      BY <1>4, <1>6, <3>1 DEF Edge, Writes
  <2>7. SessKeeps(t, x, y) /\ Leaves(x, y)
    BY <1>6 DEF SessKeeps, Leaves, Writes
  <2>8. SessAt(z.pc, z.st, y, t)
    <3>1. z.pc[t] \in {"close in"} \cup WritePcs
      BY <2>1 DEF WritePcs
    <3>2. /\ t # y.reader /\ ~InQueue(t, y.lock.waiting)
          /\ ~InQueue(t, y.cond) /\ ~InQueue(t, y.deinit) /\ t # y.closer /\ t = y.lock.owner
      BY <1>1, <1>5, <1>6 DEF Writes
    <3> QED
      BY <2>1, <3>1, <3>2, HandlerAt
  <2>9. Polls(z.pc, y)
    BY <1>6, <2>1 DEF Hosted, Polls, Writes
  <2> QED
    BY <1>1, <2>2, <2>3, <2>4, <2>5, <2>6, <2>7, <2>8, <2>9, KindMove
<1>9. Serves(z, y)
  BY <1>3, <1>7, <1>8, SessEnds
<1> QED
  BY <1>5, <1>9 DEF z, y

(* The write loop. *)
LEMMA WriteTo ==
  ASSUME NEW t, Mid(sch, t, SessWaiting(ss)), Hosted(sch.pc, sch.st, ss),
         sch.pc[t] \in {"write", "writing"}, Write(t)
  PROVE  Serves(sch', ss')
<1>1. /\ ss \in SessRec /\ Conn(ss) /\ sch \in Thread /\ sch.pc[t] \in HandPcs
      /\ sch.pc[t] # "handler" /\ ss.out <= Cap
  BY DEF Mid, Hosted, Listed, HandPcs, WritePcs
<1>2. ss.num \in {"mine", "free", "rival"}
  BY <1>1, SessFields
<1>3. ss.enabled => t = ss.lock.owner
  BY <1>1, HandlerFacts
<1>4. /\ "unlock" \in {"write", "unlock", "close in"} /\ "unlock" \in Pcs \ AioPcs
      /\ "close in" \in {"write", "unlock", "close in"} /\ "close in" \in Pcs \ AioPcs
  BY DEF Pcs, AioPcs
<1>5. CASE ss.num = "rival"
  <2>1. sch' = Abort(sch, "foreign") /\ ss' = ss
    BY <1>5 DEF Write, Step
  <2>2. "foreign" \in Whys /\ Blamed("foreign", ss)
    BY <1>1, <1>5 DEF Whys, Conn, Blamed
  <2> QED
    BY <1>1, <2>1, <2>2, SessAborted
<1>6. CASE ss.num = "free"
  <2>1. sch' = Goto(sch, t, "close in") /\ ss' = ss
    BY <1>6 DEF Write, Step
  <2> QED
    BY <1>1, <1>3, <1>4, <2>1, HandlerGoes
<1>7. CASE ss.num = "mine" /\ ss.peer = "closed"
  <2>1. \/ sch' = Goto(sch, t, "unlock") /\ ss' = ss
        \/ sch' = Goto(sch, t, "close in") /\ ss' = ss
        \/ sch' = Abort(sch, "sigpipe") /\ ss' = ss
    BY <1>7 DEF Write, Step
  <2>2. "sigpipe" \in Whys /\ Blamed("sigpipe", ss)
    BY <1>7 DEF Whys, Blamed
  <2>3. CASE sch' = Goto(sch, t, "unlock") /\ ss' = ss
    BY <1>1, <1>3, <1>4, <2>3, HandlerGoes
  <2>4. CASE sch' = Goto(sch, t, "close in") /\ ss' = ss
    BY <1>1, <1>3, <1>4, <2>4, HandlerGoes
  <2>5. CASE sch' = Abort(sch, "sigpipe") /\ ss' = ss
    BY <1>1, <2>2, <2>5, SessAborted
  <2> QED
    BY <2>1, <2>3, <2>4, <2>5
<1>8. CASE ss.num = "mine" /\ ss.peer # "closed" /\ ss.out < Cap
  <2>1. sch' = Goto(sch, t, "unlock") /\ ss' = [ss EXCEPT !.out = ss.out + 1]
    <3>1. ss.out # Cap
      BY <1>1, <1>8, SessFields, Bounds
    <3>2. Write(t) = Step(Goto(sch, t, "unlock"), [ss EXCEPT !.out = ss.out + 1])
      BY <1>8, <3>1 DEF Write
    <3> QED
      BY <3>2 DEF Step
  <2> QED
    BY <1>8, <2>1, AnswerPut
<1>9. CASE ss.num = "mine" /\ ss.peer # "closed" /\ ss.out = Cap
  <2>1. ss.writer = Nobody
    BY <1>9, AnswerBlocked
  <2>2. ~(ss.out < Cap)
    BY <1>9, Bounds
  <2>3. /\ sch' = taskswitch(sch, t, "writing")
        /\ ss' = [ss EXCEPT !.writer = t, !.nospace = TRUE]
    BY <1>9, <2>1, <2>2 DEF Write, Step
  <2> QED
    BY <1>9, <2>3, AnswerBlocked
<1>10. ss.out < Cap \/ ss.out = Cap
  BY <1>1, SessFields, Bounds
<1> QED
  BY <1>2, <1>5, <1>6, <1>7, <1>8, <1>9, <1>10

(* A handler writes its answer, or closes the channel after an error. *)
LEMMA ResponseWriteStep ==
  ASSUME Serves(sch, ss), NEW t \in Tasks, ResponseWrite(t)
  PROVE  Serves(sch', ss')
<1>1. /\ On(sch) /\ sch.running = t /\ sch.pc[t] \in {"write", "writing"}
      /\ Write(t) \/ (sch' = Goto(sch, t, "close in") /\ ss' = ss)
  BY DEF ResponseWrite, At, Step
<1>2. InSession(sch, ss)
  BY <1>1, IsInSession
<1>3. Mid(sch, t, SessWaiting(ss)) /\ Hosted(sch.pc, sch.st, ss)
  BY <1>1, <1>2, SessMid DEF AioPcs
<1>4. CASE Write(t)
  BY <1>1, <1>3, <1>4, WriteTo
<1>5. CASE sch' = Goto(sch, t, "close in") /\ ss' = ss
  <2>1. sch.pc[t] \in HandPcs /\ sch.pc[t] # "handler"
    BY <1>1 DEF HandPcs, WritePcs
  <2>2. "close in" \in {"write", "unlock", "close in"} /\ "close in" \in Pcs \ AioPcs
    BY DEF Pcs, AioPcs
  <2>3. ss.enabled => t = ss.lock.owner
    BY <1>3, <2>1, HandlerFacts
  <2> QED
    BY <1>3, <1>5, <2>1, <2>2, <2>3, HandlerGoes
<1> QED
  BY <1>1, <1>4, <1>5

(* What qunlock makes of lock k. *)
HandsOn(k, q) ==
  /\ q \in [owner : Tasks \cup {Nobody}, waiting : Seq(Tasks)] /\ Distinct(q.waiting, Tasks)
  /\ \A u : InQueue(u, q.waiting) => InQueue(u, k.waiting)
  /\ \A u : InQueue(u, k.waiting) => InQueue(u, q.waiting) \/ u = q.owner
  /\ q.owner # Nobody => InQueue(q.owner, k.waiting) /\ ~InQueue(q.owner, q.waiting)
  /\ q.waiting # <<>> => q.owner # Nobody

(* It hands it to the head of the queue. *)
LEMMA UnlockHandsOn ==
  ASSUME NEW k \in [owner : Tasks \cup {Nobody}, waiting : Seq(Tasks)],
         Distinct(k.waiting, Tasks)
  PROVE  HandsOn(k, Unlock(k))
<1>1. CASE k.waiting = <<>>
  <2> DEFINE q == Unlock(k)
  <2>1. q.owner = Nobody /\ q.waiting = <<>>
        /\ q \in [owner : Tasks \cup {Nobody}, waiting : Seq(Tasks)]
    BY <1>1 DEF Unlock, NoQLock
  <2> HIDE DEF q
  <2>2. HandsOn(k, q)
    BY <1>1, <2>1, EmptyQueue DEF HandsOn
  <2> QED
    BY <2>2 DEF q
<1>2. CASE k.waiting # <<>>
  <2> DEFINE a == Head(k.waiting)
             w == Tail(k.waiting)
             q == Unlock(k)
  <2>1. /\ a \in Tasks /\ w \in Seq(Tasks) /\ Distinct(w, Tasks) /\ ~InQueue(a, w)
        /\ \A u : InQueue(u, k.waiting) <=> u = a \/ InQueue(u, w)
    BY <1>2, TailOf
  <2>2. q = [owner |-> a, waiting |-> w]
    BY <1>2 DEF Unlock
  <2> HIDE DEF a, w, q
  <2>3. q.owner = a /\ q.waiting = w
        /\ q \in [owner : Tasks \cup {Nobody}, waiting : Seq(Tasks)]
    BY <2>1, <2>2
  <2>4. HandsOn(k, q)
    BY <2>1, <2>3, TaskNames DEF HandsOn
  <2> QED
    BY <2>4 DEF q
<1> QED
  BY <1>1, <1>2

(* Some no longer wait. *)
Readied(s, t, V, z) == Mid(z, t, V) /\ z.st = s.st /\ z.pc = s.pc

(* All of a queue is ready, ... *)
LEMMA QueueReady ==
  ASSUME NEW s, NEW t, NEW W, Mid(s, t, W), NEW q \in Seq(Tasks), Distinct(q, Tasks),
         NEW V \in SUBSET W, \A u \in Tasks : InQueue(u, q) <=> u \in V
  PROVE  Readied(s, t, W \ V, ReadyAll(s, q))
BY MidReadyAll DEF Readied

(* ... or its head, as qunlock has it. *)
LEMMA UnlockReady ==
  ASSUME NEW s, NEW t, NEW W, Mid(s, t, W),
         NEW k \in [owner : Tasks \cup {Nobody}, waiting : Seq(Tasks)],
         \A u \in Tasks : InQueue(u, k.waiting) => u \in W
  PROVE  Readied(s, t, W \ {Unlock(k).owner}, ReadyHead(s, k.waiting))
<1>0. W \in SUBSET Tasks
  BY RunnerLive
<1>1. CASE k.waiting = <<>>
  <2>1. ReadyHead(s, k.waiting) = s /\ Unlock(k).owner = Nobody
    BY <1>1 DEF ReadyHead, Unlock, NoQLock
  <2>2. W \ {Nobody} = W
    BY <1>0, TaskNames
  <2> QED
    BY <2>1, <2>2 DEF Readied
<1>2. CASE k.waiting # <<>>
  <2> DEFINE a == Head(k.waiting)
  <2>1. a \in Tasks /\ InQueue(a, k.waiting)
    BY <1>2, TailOf
  <2>2. ReadyHead(s, k.waiting) = taskready(s, a) /\ Unlock(k).owner = a
    BY <1>2 DEF ReadyHead, Unlock
  <2> HIDE DEF a
  <2>3. a \in W
    BY <2>1
  <2>4. /\ Mid(taskready(s, a), t, W \ {a}) /\ taskready(s, a).st = s.st
        /\ taskready(s, a).pc = s.pc
    BY <2>3, MidReady
  <2> QED
    BY <2>2, <2>4 DEF Readied
<1> QED
  BY <1>1, <1>2

(* What is left of the session when a handler has unlocked and put its     *)
(* message.                                                                *)
Quits(x, y) ==
  /\ y \in SessRec /\ y.closer = x.closer /\ y.epoll = x.epoll /\ y.sent = x.sent
  /\ y.inbuf = x.inbuf /\ y.cond = x.cond /\ y.reader = x.reader /\ y.writer = x.writer
  /\ y.num = x.num /\ y.peer = x.peer /\ y.out = x.out /\ y.nospace = x.nospace
  /\ y.set = x.set /\ y.fd = x.fd /\ y.robbed = x.robbed /\ y.ctx = x.ctx
  /\ y.pending = x.pending /\ y.enabled = x.enabled
  /\ x.msgs = y.msgs + 1
  /\ \/ y.msgs = 0 /\ y.deinit = <<>>
     \/ y.msgs # 0 /\ y.deinit = x.deinit
  /\ HandsOn(x.lock, y.lock)

(* Who waits then. *)
LEMMA QuitWaiting ==
  ASSUME NEW pc, NEW st, NEW x, Hosted(pc, st, x), NEW y, Quits(x, y)
  PROVE  SessWaiting(y) = (SessWaiting(x) \ {y.lock.owner}) \
                            {u \in Tasks : y.msgs = 0 /\ InQueue(u, x.deinit)}
<1>1. AllAt(pc, st, x)
  BY DEF Hosted
<1> DEFINE a == y.lock.owner
           V == {u \in Tasks : y.msgs = 0 /\ InQueue(u, x.deinit)}
<1>2. /\ y.lock.waiting \in Seq(Tasks)
      /\ \A u : InQueue(u, y.lock.waiting) => InQueue(u, x.lock.waiting) /\ u # a
      /\ \A u : InQueue(u, x.lock.waiting) => InQueue(u, y.lock.waiting) \/ u = a
      /\ a # Nobody => InQueue(a, x.lock.waiting)
  BY EmptyQueue DEF Quits, HandsOn
<1>3. ASSUME NEW u \in Tasks
      PROVE  u \in SessWaiting(y) <=> u \in (SessWaiting(x) \ {a}) \ V
  <2>1. SessAt(pc, st, x, u) /\ u # Nobody
    BY <1>1, TaskNames DEF AllAt
  <2>2. /\ InQueue(u, y.deinit) <=> InQueue(u, x.deinit) /\ u \notin V
        /\ u \in V => InQueue(u, x.deinit)
    BY EmptyQueue DEF Quits
  <2> HIDE DEF V
  <2>3. CASE InQueue(u, x.lock.waiting)
    BY <1>2, <2>1, <2>2, <2>3 DEF SessWaiting, SessAt, Quits
  <2>4. CASE ~InQueue(u, x.lock.waiting)
    BY <1>2, <2>1, <2>2, <2>4 DEF SessWaiting, SessAt, Quits
  <2> QED
    BY <2>3, <2>4
<1>4. SessWaiting(y) \in SUBSET Tasks /\ SessWaiting(x) \in SUBSET Tasks
  BY DEF SessWaiting
<1> QED
  BY <1>3, <1>4

(* There is one message less: a was b + 1. *)
Fewer(a, b, i, n) ==
  /\ a # 0 /\ a - 1 = b /\ (b # 0 => b > 0)
  /\ a + i <= n + 1 => b + i <= n + 1
  /\ a + i <= n => b + i <= n

(* Counting. *)
LEMMA FewerHeld ==
  ASSUME NEW a \in Nat, NEW b \in Nat, NEW i \in Nat, NEW n \in Nat, a = b + 1
  PROVE  Fewer(a, b, i, n)
BY DEF Fewer

(* The session goes on without the handler. *)
LEMMA QuitMove ==
  ASSUME NEW pc, NEW st, NEW x, Hosted(pc, st, x), NEW t \in Tasks, pc[t] = "unlock",
         t \notin SessWaiting(x), t # x.closer, x.enabled => t = x.lock.owner,
         NEW y, Quits(x, y), NEW pc2, NEW st2, Moves(pc, st, pc2, st2, t),
         pc2[t] = "", st2[t] # "live"
  PROVE  Hosted(pc2, st2, y)
<1>1. /\ Listed(x) /\ Conn(x) /\ Edge(x) /\ AllAt(pc, st, x) /\ Polls(pc, x)
      /\ Held(pc, x.lock, x.closer) /\ Led(pc, x.closer, x.enabled, x.epoll)
      /\ Messages(pc, x.closer, x.msgs, x.inbuf, x.sent) /\ x \in SessRec
  BY DEF Hosted, Listed
<1>2. /\ pc[t] \notin RecvPcs /\ pc[t] \in BusyPcs /\ pc[t] # "closed"
      /\ pc2[t] \notin RecvPcs /\ pc2[t] \notin BusyPcs /\ pc2[t] # "closed"
      /\ pc2[t] \notin OwnerPcs /\ t # Nobody
  BY TaskNames DEF RecvPcs, BusyPcs, OwnerPcs, WritePcs, ClosePcs, ShutPcs
<1>3. /\ y.msgs \in Nat /\ x.msgs \in Nat /\ x.msgs = y.msgs + 1 /\ x.inbuf \in Nat
      /\ x.sent \in Nat
  BY <1>1, SessFields DEF Quits
<1>0. /\ x.msgs # 0 /\ x.msgs - 1 = y.msgs /\ (y.msgs # 0 => y.msgs > 0)
      /\ x.msgs + x.inbuf <= x.sent + 1 => y.msgs + x.inbuf <= x.sent + 1
      /\ x.msgs + x.inbuf <= x.sent => y.msgs + x.inbuf <= x.sent
  <2>1. Fewer(x.msgs, y.msgs, x.inbuf, x.sent)
    BY ONLY <1>3, FewerHeld
  <2> QED
    BY ONLY <2>1 DEF Fewer
<1>4. Listed(y)
  <2>1. Distinct(y.deinit, Tasks) /\ Distinct(y.lock.waiting, Tasks)
    BY <1>1, EmptyQueue DEF Listed, Quits, HandsOn
  <2> QED
    BY <1>1, <2>1 DEF Listed, Quits
<1>5. Conn(y)
  <2>1. y.deinit # <<>> => y.msgs > 0
    BY <1>0 DEF Quits
  <2> QED
    BY <1>1, <2>1 DEF Conn, Quits
<1>6. Edge(y)
  BY <1>1 DEF Edge, Quits
<1>7. AllAt(pc2, st2, y)
  <2>1. SessKeeps(t, x, y)
    <3>1. \A u : InQueue(u, y.deinit) => InQueue(u, x.deinit)
      BY EmptyQueue DEF Quits
    <3>2. x.msgs # 0
      BY <1>0
    <3> QED
      BY <3>1, <3>2 DEF SessKeeps, Quits, HandsOn
  <2>2. /\ t # y.reader /\ t # y.writer /\ ~InQueue(t, y.lock.waiting)
        /\ ~InQueue(t, y.cond) /\ ~InQueue(t, y.deinit) /\ t # y.closer
    BY EmptyQueue DEF SessWaiting, Quits, HandsOn
  <2>3. SessAt(pc2, st2, y, t)
    BY <2>2 DEF SessAt, EndPcs, ShutPcs, ClosePcs, WritePcs
  <2> QED
    BY <1>1, <2>1, <2>3, AllMove
<1>8. Polls(pc2, y)
  BY <1>1 DEF Polls, Moves, Quits
<1>9. Held(pc2, y.lock, y.closer)
  <2> DEFINE a == y.lock.owner
  <2>1. y.lock.waiting # <<>> => a # Nobody
    BY DEF Quits, HandsOn
  <2>2. ASSUME a # Nobody
        PROVE  pc2[a] \in OwnerPcs /\ a # y.closer /\ ~InQueue(a, y.lock.waiting)
    <3>1. a \in Tasks /\ InQueue(a, x.lock.waiting) /\ ~InQueue(a, y.lock.waiting)
      BY <2>2 DEF Quits, HandsOn
    <3> HIDE DEF a
    <3>2. pc[a] = "locked" /\ a # t
      BY <1>1, <3>1 DEF AllAt, SessAt, SessWaiting
    <3>3. pc2[a] = "locked"
      BY <3>1, <3>2 DEF Moves
    <3>4. a # x.closer
      BY <1>1, <3>1, <3>2, TaskNames DEF Led, ClosePcs, ShutPcs, EndPcs
    <3> QED
      BY <3>1, <3>3, <3>4 DEF OwnerPcs, Quits
  <2> QED
    BY <2>1, <2>2 DEF Held
<1>10. Led(pc2, y.closer, y.enabled, y.epoll)
  <2> DEFINE c == x.closer
  <2>1. \A u \in Tasks : /\ pc2[u] \in RecvPcs <=> pc[u] \in RecvPcs
                         /\ pc2[u] = "closed" <=> pc[u] = "closed"
    BY <1>2 DEF Moves
  <2>2. \A u \in Tasks : LeadAt(pc2, c, u) <=> LeadAt(pc, c, u)
    BY <2>1 DEF LeadAt, Moves
  <2>3. c # Nobody => pc2[c] \in ClosePcs \cup EndPcs \cup {""}
    <3>1. c \in Tasks \cup {Nobody}
      BY <1>1, SessFields
    <3> QED
      BY <1>1, <3>1 DEF Led, Moves
  <2>4. Led(pc2, c, x.enabled, x.epoll)
    BY <1>1, <2>1, <2>2, <2>3 DEF Led
  <2> QED
    BY <2>4 DEF Quits
<1>11. Messages(pc2, y.closer, y.msgs, y.inbuf, y.sent)
  <2> DEFINE H == Holders(pc, x.closer)
             I == Holders(pc2, x.closer)
  <2>1. t \in H /\ t \notin I /\ \A u \in Tasks : u # t => (u \in H <=> u \in I)
    BY <1>2 DEF Holders, Moves
  <2>2. H \in SUBSET Tasks /\ I \in SUBSET Tasks
    BY DEF Holders
  <2>3. Cardinality(H) = x.msgs /\ x.msgs + x.inbuf <= x.sent + 1
        /\ (~Spare(pc) => x.msgs + x.inbuf <= x.sent)
    BY <1>1 DEF Messages
  <2>4. Spare(pc2) <=> Spare(pc)
    BY DEF Spare, Moves
  <2>5. Cardinality(I) = Cardinality(Holders(pc2, y.closer))
    BY DEF Quits
  <2> HIDE DEF H, I
  <2>6. Moved(t, H, I)
    BY <2>1, <2>2, TaskNames, CountMove
  <2>7. Cardinality(I) = y.msgs
    BY <1>0, <2>1, <2>3, <2>6 DEF Moved
  <2>8. y.msgs + y.inbuf <= y.sent + 1 /\ (~Spare(pc2) => y.msgs + y.inbuf <= y.sent)
    BY <1>0, <2>3, <2>4 DEF Quits
  <2> QED
    BY <2>5, <2>7, <2>8 DEF Messages
<1> QED
  BY <1>4, <1>5, <1>6, <1>7, <1>8, <1>9, <1>10, <1>11 DEF Hosted

(* Who is at the end of the session has found no messages or sleeps.       *)
(* A handler that is done has the lock to give up, and its message.        *)
LEMMA DoneFacts ==
  ASSUME NEW s, NEW x, NEW t, Mid(s, t, SessWaiting(x)), Hosted(s.pc, s.st, x),
         s.pc[t] = "unlock"
  PROVE  /\ t \in Tasks /\ t \notin SessWaiting(x) /\ t # x.closer
         /\ x.enabled => t = x.lock.owner
         /\ x \in SessRec /\ x.msgs \in Nat /\ x.msgs # 0 /\ s \in Thread
         /\ x.lock \in [owner : Tasks \cup {Nobody}, waiting : Seq(Tasks)]
         /\ Distinct(x.lock.waiting, Tasks)
         /\ x.deinit \in Seq(Tasks) /\ Distinct(x.deinit, Tasks)
<1>1. s.pc[t] \in HandPcs /\ s.pc[t] # "handler" /\ s.pc[t] \in BusyPcs
  BY DEF HandPcs, WritePcs, BusyPcs, OwnerPcs
<1>2. /\ t \in Tasks /\ t \notin SessWaiting(x) /\ t # x.closer
      /\ x.enabled => t = x.lock.owner
  BY <1>1, HandlerFacts
<1>3. /\ x \in SessRec /\ Distinct(x.lock.waiting, Tasks) /\ Distinct(x.deinit, Tasks)
      /\ x.msgs = Cardinality(Holders(s.pc, x.closer)) /\ s \in Thread
  BY DEF Hosted, Listed, Messages, Mid
<1>4. x.msgs \in Nat /\ x.lock \in [owner : Tasks \cup {Nobody}, waiting : Seq(Tasks)]
      /\ x.deinit \in Seq(Tasks)
  BY <1>3, SessFields
<1>5. x.msgs # 0
  <2> DEFINE H == Holders(s.pc, x.closer)
  <2>1. t \in H /\ H \in SUBSET Tasks
    BY <1>1, <1>2 DEF Holders
  <2> HIDE DEF H
  <2>2. IsFiniteSet(H)
    BY <2>1, TaskNames, SubsetCount
  <2>3. Cardinality(H) # 0
    BY <2>1, <2>2, FS_EmptySet
  <2> QED
    BY <1>3, <2>3 DEF H
<1> QED
  BY <1>2, <1>3, <1>4, <1>5

(* The message is put: who waits in bufpool_deinit is woken by the last. *)
PutBy(x, q) ==
  IF x.msgs = 1 THEN [x EXCEPT !.lock = q, !.msgs = 0, !.deinit = <<>>]
  ELSE [x EXCEPT !.lock = q, !.msgs = x.msgs - 1]

(* What bufpool_put leaves as it is. *)
LEMMA PutFields ==
  ASSUME NEW x \in SessRec, x.msgs # 0, NEW q, HandsOn(x.lock, q)
  PROVE  Quits(x, PutBy(x, q)) /\ PutBy(x, q).lock = q
<1>1. x.msgs \in Nat /\ q \in [owner : Tasks \cup {Nobody}, waiting : Seq(Tasks)]
      /\ <<>> \in Seq(Tasks)
  BY SessFields DEF HandsOn
<1>2. CASE x.msgs = 1
  <2> DEFINE y == [x EXCEPT !.lock = q, !.msgs = 0, !.deinit = <<>>]
  <2>1. /\ y \in SessRec /\ y.closer = x.closer /\ y.epoll = x.epoll /\ y.sent = x.sent
        /\ y.inbuf = x.inbuf /\ y.cond = x.cond /\ y.reader = x.reader
        /\ y.writer = x.writer
        /\ y.num = x.num /\ y.peer = x.peer /\ y.out = x.out /\ y.nospace = x.nospace
        /\ y.set = x.set /\ y.fd = x.fd /\ y.robbed = x.robbed /\ y.ctx = x.ctx
        /\ y.pending = x.pending /\ y.enabled = x.enabled
        /\ y.msgs = 0 /\ y.deinit = <<>> /\ y.lock = q
    BY <1>1 DEF SessRec
  <2>2. PutBy(x, q) = y
    BY <1>2 DEF PutBy
  <2> HIDE DEF y
  <2>3. x.msgs = y.msgs + 1
    BY <1>2, <2>1
  <2> QED
    BY <2>1, <2>2, <2>3 DEF Quits
<1>3. CASE x.msgs # 1
  <2> DEFINE m == x.msgs - 1
             y == [x EXCEPT !.lock = q, !.msgs = m]
  <2>1. m \in Nat /\ m # 0 /\ x.msgs = m + 1
    BY <1>1, <1>3
  <2>2. PutBy(x, q) = y
    BY <1>3 DEF PutBy
  <2> HIDE DEF m
  <2>3. /\ y \in SessRec /\ y.closer = x.closer /\ y.epoll = x.epoll /\ y.sent = x.sent
        /\ y.inbuf = x.inbuf /\ y.cond = x.cond /\ y.reader = x.reader
        /\ y.writer = x.writer
        /\ y.num = x.num /\ y.peer = x.peer /\ y.out = x.out /\ y.nospace = x.nospace
        /\ y.set = x.set /\ y.fd = x.fd /\ y.robbed = x.robbed /\ y.ctx = x.ctx
        /\ y.pending = x.pending /\ y.enabled = x.enabled
        /\ y.msgs = m /\ y.deinit = x.deinit /\ y.lock = q
    BY <1>1, <2>1 DEF SessRec
  <2> HIDE DEF y
  <2> QED
    BY <2>1, <2>2, <2>3 DEF Quits
<1> QED
  BY <1>2, <1>3

(* A handler is done. *)
LEMMA DoneStep ==
  ASSUME NEW s, NEW x, NEW t, Mid(s, t, SessWaiting(x)), Hosted(s.pc, s.st, x),
         s.pc[t] = "unlock"
  PROVE  LET a == ReadyHead(s, x.lock.waiting)
             b == IF x.msgs = 1 THEN ReadyAll(a, x.deinit) ELSE a
         IN  Serves(taskexit(b, t), PutBy(x, Unlock(x.lock)))
<1> DEFINE W == SessWaiting(x)
           q == Unlock(x.lock)
           y == PutBy(x, q)
           V == {u \in Tasks : y.msgs = 0 /\ InQueue(u, x.deinit)}
           a == ReadyHead(s, x.lock.waiting)
           b == IF x.msgs = 1 THEN ReadyAll(a, x.deinit) ELSE a
           z == taskexit(b, t)
<1>1. /\ t \in Tasks /\ t \notin W /\ t # x.closer
      /\ x.enabled => t = x.lock.owner
      /\ x \in SessRec /\ x.msgs \in Nat /\ x.msgs # 0
      /\ x.lock \in [owner : Tasks \cup {Nobody}, waiting : Seq(Tasks)]
      /\ Distinct(x.lock.waiting, Tasks)
      /\ x.deinit \in Seq(Tasks) /\ Distinct(x.deinit, Tasks)
  BY DoneFacts
<1>2. HandsOn(x.lock, q)
  BY <1>1, UnlockHandsOn
<1>3. Quits(x, y) /\ y.lock = q
  <2> HIDE DEF q
  <2> QED
    BY <1>1, <1>2, PutFields
<1>4. Mid(a, t, W \ {q.owner}) /\ a.st = s.st /\ a.pc = s.pc
  <2>1. \A u \in Tasks : InQueue(u, x.lock.waiting) => u \in W
    BY DEF SessWaiting
  <2> HIDE DEF W, q, a
  <2>2. Readied(s, t, W \ {Unlock(x.lock).owner}, ReadyHead(s, x.lock.waiting))
    <3>1. Mid(s, t, W)
      BY DEF W
    <3> QED
      BY <1>1, <2>1, <3>1, UnlockReady
  <2> QED
    BY <2>2 DEF Readied, q, a
<1> HIDE DEF a, y
<1>5. SessWaiting(y) = (W \ {q.owner}) \ V
  <2> HIDE DEF q
  <2> QED
    BY <1>3, QuitWaiting
<1>6. x.msgs = 1 <=> y.msgs = 0
  <2>1. y \in SessRec /\ x.msgs = y.msgs + 1
    BY <1>3 DEF Quits
  <2>2. y.msgs \in Nat
    BY <2>1, SessFields
  <2>3. \A m, n \in Nat : m = n + 1 => (m = 1 <=> n = 0)
    OBVIOUS
  <2> QED
    BY <1>1, <2>1, <2>2, <2>3
<1>7. Mid(b, t, SessWaiting(y)) /\ b.st = s.st /\ b.pc = s.pc
  <2>1. CASE x.msgs = 1
    <3>1. \A u \in Tasks : InQueue(u, x.deinit) <=> u \in V
      BY <1>6, <2>1
    <3>2. V \in SUBSET (W \ {q.owner})
      <4>1. \A u \in V : u \in W /\ u # q.owner
        <5> SUFFICES ASSUME NEW u \in V PROVE u \in W /\ u # q.owner
          OBVIOUS
        <5>1. u \in Tasks /\ InQueue(u, x.deinit) /\ SessAt(s.pc, s.st, x, u)
          BY DEF Hosted, AllAt
        <5>2. ~InQueue(u, x.lock.waiting) /\ u # Nobody
          BY <5>1, TaskNames DEF SessAt
        <5> HIDE DEF q
        <5> QED
          BY <1>2, <5>1, <5>2 DEF HandsOn, SessWaiting
      <4> QED
        BY <4>1
    <3> HIDE DEF V, W, q
    <3>3. Readied(a, t, (W \ {q.owner}) \ V, ReadyAll(a, x.deinit))
      BY <1>1, <1>4, <3>1, <3>2, QueueReady
    <3> QED
      BY <1>4, <1>5, <2>1, <3>3 DEF Readied
  <2>2. CASE x.msgs # 1
    <3>1. V = {}
      BY <1>6, <2>2
    <3> HIDE DEF V, W, q
    <3> QED
      BY <1>4, <1>5, <2>2, <3>1
  <2> QED
    BY <2>1, <2>2
<1> HIDE DEF b
<1>8. After(z, SessWaiting(y)) /\ GoneTo(b, t, z)
  BY <1>7, MidExits
<1> HIDE DEF z
<1>9. ASSUME On(z) PROVE Hosted(z.pc, z.st, y)
  <2>1. /\ z.st[t] # "live" /\ z.pc[t] = ""
        /\ \A u \in Tasks \ {t} : z.pc[u] = s.pc[u] /\ z.st[u] = s.st[u]
    BY <1>7, <1>8, <1>9 DEF GoneTo
  <2>2. Moves(s.pc, s.st, z.pc, z.st, t)
    BY <2>1 DEF Moves
  <2> HIDE DEF W, q, V
  <2>3. t \notin SessWaiting(x)
    BY <1>1 DEF W
  <2> QED
    BY <1>1, <1>3, <2>1, <2>2, <2>3, QuitMove
<1>10. Serves(z, y)
  BY <1>8, <1>9, SessEnds
<1> QED
  BY <1>10 DEF z, y, b, a

(* done: of rpc_response. *)
LEMMA ResponseDoneStep ==
  ASSUME Serves(sch, ss), NEW t \in Tasks, ResponseDone(t)
  PROVE  Serves(sch', ss')
<1> DEFINE q == Unlock(ss.lock)
           x == [ss EXCEPT !.lock = q]
           u == AfterUnlock(sch, ss.lock)
           put == MsgPut(u, x)
<1>1. /\ On(sch) /\ sch.running = t /\ sch.pc[t] = "unlock"
      /\ sch' = taskexit(put[1], t) /\ ss' = put[2]
  BY DEF ResponseDone, At, Step
<1>2. InSession(sch, ss)
  BY <1>1, IsInSession
<1>3. Mid(sch, t, SessWaiting(ss)) /\ Hosted(sch.pc, sch.st, ss)
  BY <1>1, <1>2, SessMid DEF AioPcs
<1>4. ss \in SessRec /\ sch \in Thread /\ t # Nobody /\ (ss.enabled => t = ss.lock.owner)
      /\ ss.msgs \in Nat /\ ss.msgs # 0
      /\ ss.lock \in [owner : Tasks \cup {Nobody}, waiting : Seq(Tasks)]
      /\ Distinct(ss.lock.waiting, Tasks)
  BY <1>1, <1>3, DoneFacts, TaskNames
<1>5. x.msgs = ss.msgs /\ x.deinit = ss.deinit
  BY <1>4 DEF SessRec
<1>6. put[2] = PutBy(ss, q) /\ put[1] = IF ss.msgs = 1 THEN ReadyAll(u, ss.deinit) ELSE u
  <2> HIDE DEF q, u
  <2>1. CASE ss.msgs = 1
    <3>1. put = <<ReadyAll(u, ss.deinit), [x EXCEPT !.msgs = 0, !.deinit = <<>>]>>
      BY <1>5, <2>1 DEF MsgPut
    <3>2. [x EXCEPT !.msgs = 0, !.deinit = <<>>]
            = [ss EXCEPT !.lock = q, !.msgs = 0, !.deinit = <<>>]
      BY <1>4 DEF SessRec
    <3> HIDE DEF x
    <3> QED
      BY <2>1, <3>1, <3>2 DEF PutBy
  <2>2. CASE ss.msgs # 1
    <3>1. put = <<u, [x EXCEPT !.msgs = ss.msgs - 1]>>
      BY <1>5, <2>2 DEF MsgPut
    <3>2. [x EXCEPT !.msgs = ss.msgs - 1] = [ss EXCEPT !.lock = q, !.msgs = ss.msgs - 1]
      BY <1>4 DEF SessRec
    <3> HIDE DEF x
    <3> QED
      BY <2>2, <3>1, <3>2 DEF PutBy
  <2> QED
    BY <2>1, <2>2
<1> HIDE DEF put, x
<1>7. CASE ss.lock.owner = Nobody
  <2>1. u = Abort(sch, "qunlock")
    BY <1>7 DEF AfterUnlock
  <2>2. /\ u \in Thread /\ u.thread = "aborted" /\ u.why = "qunlock" /\ ~On(u)
    <3>1. "qunlock" \in Whys
      BY DEF Whys
    <3> QED
      BY <1>4, <2>1, <3>1, Aborted
  <2> HIDE DEF u, q
  <2>3. put[1].thread = "aborted" /\ put[1].why = "qunlock"
    <3>1. ReadyAll(u, ss.deinit).thread = "aborted" /\ ReadyAll(u, ss.deinit).why = "qunlock"
      BY <2>2 DEF ReadyAll, Thread
    <3> QED
      BY <1>6, <2>2, <3>1
  <2>4. sch' = put[1] /\ ~On(put[1])
    BY <1>1, <2>3 DEF taskexit, On
  <2>5. ss'.enabled = ss.enabled
    <3>1. HandsOn(ss.lock, q)
      BY <1>4, UnlockHandsOn DEF q
    <3>2. Quits(ss, PutBy(ss, q))
      BY <1>4, <3>1, PutFields
    <3> QED
      BY <1>1, <1>6, <3>2 DEF Quits
  <2>6. Blamed("qunlock", ss')
    BY <1>4, <1>7, <2>5 DEF Blamed
  <2> QED
    BY <2>3, <2>4, <2>6 DEF Serves
<1>8. CASE ss.lock.owner # Nobody
  <2>1. u = ReadyHead(sch, ss.lock.waiting)
    BY <1>8 DEF AfterUnlock
  <2> QED
    BY <1>1, <1>3, <1>6, <2>1, DoneStep
<1> QED
  BY <1>7, <1>8

(* Who runs in rpc_chan_close or at the end of the session. *)
LEMMA CloseFacts ==
  ASSUME NEW s, NEW x, NEW t, Mid(s, t, SessWaiting(x)), Hosted(s.pc, s.st, x),
         s.pc[t] \in ClosePcs \cup EndPcs
  PROVE  /\ t \in Tasks /\ t \notin SessWaiting(x) /\ s.pc[t] # ""
         /\ t # x.reader /\ t # x.writer /\ ~InQueue(t, x.lock.waiting)
         /\ ~InQueue(t, x.cond) /\ ~InQueue(t, x.deinit)
         /\ s.pc[t] \in ShutPcs => ~x.enabled /\ x.num # "mine"
         /\ s.pc[t] \in EndPcs => t = x.closer
         /\ t = x.closer => ~x.enabled /\ t # x.lock.owner
         /\ s.pc[t] = "drained" => x.msgs = 0
<1>1. t \in Tasks /\ t \notin SessWaiting(x) /\ t # Nobody
  BY RunnerLive, TaskNames
<1>2. /\ t # x.reader /\ t # x.writer /\ ~InQueue(t, x.lock.waiting)
      /\ ~InQueue(t, x.cond) /\ ~InQueue(t, x.deinit)
  BY <1>1 DEF SessWaiting
<1>3. SessAt(s.pc, s.st, x, t) /\ Held(s.pc, x.lock, x.closer)
  BY <1>1 DEF Hosted, AllAt
<1>4. s.pc[t] # ""
  BY DEF ClosePcs, ShutPcs, EndPcs
<1>5. t = x.closer => t # x.lock.owner
  BY <1>1, <1>3 DEF Held
<1> QED
  BY <1>1, <1>2, <1>3, <1>4, <1>5 DEF SessAt

(* What closing changes. *)
Closes(x, y) ==
  /\ y \in SessRec /\ Leaves(x, y) /\ y.cond = x.cond /\ y.deinit = x.deinit
  /\ ~y.enabled /\ y.num # "mine" /\ y.peer = x.peer /\ y.out = x.out
  /\ y.reader \in {x.reader, Nobody} /\ y.writer \in {x.writer, Nobody}
  /\ y.reader # Nobody \/ y.writer # Nobody => y.ctx

(* The places between which the closing task goes. *)
LEMMA CloseKind ==
  ASSUME NEW pc, NEW pc2, NEW c, NEW t, pc[t] \in ClosePcs,
         \/ pc2[t] \in ShutPcs
         \/ t # c /\ pc2[t] = "unlock"
         \/ t = c /\ pc2[t] = "deinit"
  PROVE  SameKind(pc, pc2, c, t)
<1>1. /\ pc[t] \in BusyPcs /\ pc[t] \notin RecvPcs /\ pc[t] # "closed" /\ pc[t] # "reading"
      /\ pc2[t] \notin RecvPcs /\ pc2[t] # "closed" /\ pc2[t] # "reading"
  BY DEF BusyPcs, OwnerPcs, WritePcs, ClosePcs, ShutPcs, RecvPcs
<1>2. pc2[t] # "deinit" => pc2[t] \in BusyPcs
  BY DEF BusyPcs, OwnerPcs, WritePcs, ClosePcs, ShutPcs
<1>3. t = c => pc2[t] \in ClosePcs \cup EndPcs
  BY DEF ClosePcs, EndPcs
<1>4. t # c => pc2[t] # "deinit"
  BY DEF ShutPcs
<1> QED
  BY <1>1, <1>2, <1>3, <1>4 DEF SameKind

(* The session goes on with the number closed. *)
LEMMA CloseMove ==
  ASSUME NEW pc, NEW st, NEW x, Hosted(pc, st, x), NEW t \in Tasks, pc[t] \in ClosePcs,
         t \notin SessWaiting(x), t = x.closer => t # x.lock.owner,
         NEW y, Closes(x, y), NEW pc2, NEW st2, Moves(pc, st, pc2, st2, t),
         \/ pc2[t] \in ShutPcs
         \/ t # x.closer /\ pc2[t] = "unlock"
         \/ t = x.closer /\ pc2[t] = "deinit"
  PROVE  Hosted(pc2, st2, y)
<1>1. Listed(x) /\ Conn(x) /\ Polls(pc, x)
  BY DEF Hosted
<1>2. SameKind(pc, pc2, x.closer, t) /\ pc[t] # ""
  BY CloseKind DEF ClosePcs, ShutPcs
<1>3. t = x.lock.owner => pc2[t] \in OwnerPcs
  BY DEF OwnerPcs, WritePcs, ClosePcs
<1>4. Listed(y)
  BY <1>1 DEF Listed, Closes, Leaves
<1>5. Conn(y)
  BY <1>1 DEF Conn, Closes, Leaves
<1>6. Edge(y)
  BY DEF Edge, Closes
<1>7. SessKeeps(t, x, y) /\ Leaves(x, y)
  BY TaskNames DEF SessKeeps, Closes, Leaves
<1>8. Polls(pc2, y)
  <2>1. pc2[t] # "poll"
    BY DEF ShutPcs
  <2> QED
    BY <1>1, <2>1 DEF Polls, Moves, Closes, Leaves
<1>9. SessAt(pc2, st2, y, t)
  <2>1. /\ t # y.reader /\ t # y.writer /\ ~InQueue(t, y.lock.waiting)
        /\ ~InQueue(t, y.cond) /\ ~InQueue(t, y.deinit)
    BY TaskNames DEF SessWaiting, Closes, Leaves
  <2>2. ~y.enabled /\ y.num # "mine" /\ y.closer = x.closer
    BY DEF Closes, Leaves
  <2>3. /\ pc2[t] \in SessPcs /\ pc2[t] # "done" /\ pc2[t] # "drained"
        /\ (pc2[t] \in EndPcs => pc2[t] = "deinit")
    BY DEF SessPcs, OwnerPcs, WritePcs, ClosePcs, ShutPcs, EndPcs
  <2>4. pc2[t] = "deinit" => t = x.closer
    BY DEF ShutPcs
  <2> QED
    BY <2>1, <2>2, <2>3, <2>4 DEF SessAt
<1> QED
  BY <1>2, <1>3, <1>4, <1>5, <1>6, <1>7, <1>8, <1>9, KindMove

(* A step that closes and does not switch. *)
LEMMA CloseGoes ==
  ASSUME NEW s, NEW x, NEW t, Mid(s, t, SessWaiting(x)), Hosted(s.pc, s.st, x),
         s.pc[t] \in ClosePcs, NEW y, Closes(x, y), SessWaiting(y) = SessWaiting(x),
         NEW l \in Pcs \ AioPcs,
         \/ l \in ShutPcs
         \/ t # x.closer /\ l = "unlock"
         \/ t = x.closer /\ l = "deinit"
  PROVE  Serves(Goto(s, t, l), y)
<1> DEFINE z == Goto(s, t, l)
<1>1. /\ t \in Tasks /\ t \notin SessWaiting(x) /\ (t = x.closer => t # x.lock.owner)
  BY CloseFacts
<1>2. Mid(z, t, SessWaiting(x)) /\ Others1(s, z, t) /\ z.pc[t] = l
  <2>1. Mid(s, t, SessWaiting(x)) /\ l \in Pcs \ AioPcs
    OBVIOUS
  <2>2. GoneTo1(s, z, t, SessWaiting(x), l)
    BY ONLY <2>1, MidGoes
  <2> QED
    BY ONLY <2>2 DEF GoneTo1
<1> HIDE DEF z
<1>3. Moves(s.pc, s.st, z.pc, z.st, t)
  BY <1>2 DEF Moves, Others1
<1>4. Hosted(z.pc, z.st, y)
  <2>1. \/ z.pc[t] \in ShutPcs
        \/ t # x.closer /\ z.pc[t] = "unlock"
        \/ t = x.closer /\ z.pc[t] = "deinit"
    BY <1>2
  <2> QED
    BY <1>1, <1>3, <2>1, CloseMove
<1>5. After(z, SessWaiting(y))
  BY <1>2, MidEnd
<1>6. Serves(z, y)
  BY <1>4, <1>5, SessEnds
<1> QED
  BY <1>6 DEF z

(* When nobody is woken. *)
ClosedTo(x, y) ==
  /\ y \in SessRec /\ Leaves(x, y) /\ y.cond = x.cond /\ y.deinit = x.deinit
  /\ ~y.enabled /\ y.num # "mine" /\ y.peer = x.peer /\ y.out = x.out
  /\ y.reader = x.reader /\ y.writer = x.writer /\ y.ctx = x.ctx
  /\ x.reader # Nobody \/ x.writer # Nobody => x.ctx

(* Then those who wait go on waiting. *)
LEMMA ClosedIs ==
  ASSUME NEW x, NEW y, ClosedTo(x, y)
  PROVE  Closes(x, y) /\ SessWaiting(y) = SessWaiting(x)
<1>1. Closes(x, y)
  BY DEF ClosedTo, Closes
<1>2. SessWaiting(y) = SessWaiting(x)
  BY DEF ClosedTo, Leaves, SessWaiting
<1> QED
  BY <1>1, <1>2

(* close() of the number. *)
ShutTo(v, y) ==
  /\ y \in SessRec /\ y.cond = v.cond /\ y.deinit = v.deinit
  /\ y.enabled = v.enabled /\ y.num = "free" /\ y.peer = v.peer /\ y.out = v.out
  /\ y.reader = v.reader /\ y.writer = v.writer /\ y.ctx = v.ctx
  /\ y.lock = v.lock /\ y.closer = v.closer /\ y.epoll = v.epoll
  /\ y.msgs = v.msgs /\ y.inbuf = v.inbuf /\ y.sent = v.sent

(* What it changes. *)
LEMMA ShutFields ==
  ASSUME NEW v \in SessRec
  PROVE  ShutTo(v, Shut(v))
<1> DEFINE h == v.harm \/ v.num = "rival"
           y == [v EXCEPT !.num = "free", !.set = FALSE, !.pending = FALSE, !.harm = h]
<1>1. h \in BOOLEAN
  OBVIOUS
<1>2. Shut(v) = y
  BY DEF Shut
<1>3. ASSUME NEW b \in BOOLEAN, h = b PROVE ShutTo(v, y)
  <2>1. y = [v EXCEPT !.num = "free", !.set = FALSE, !.pending = FALSE, !.harm = b]
    BY <1>3
  <2> HIDE DEF y, h
  <2>2. /\ y \in SessRec /\ y.cond = v.cond /\ y.deinit = v.deinit
        /\ y.enabled = v.enabled /\ y.num = "free" /\ y.peer = v.peer /\ y.out = v.out
        /\ y.reader = v.reader /\ y.writer = v.writer /\ y.ctx = v.ctx
        /\ y.lock = v.lock /\ y.closer = v.closer /\ y.epoll = v.epoll
        /\ y.msgs = v.msgs /\ y.inbuf = v.inbuf /\ y.sent = v.sent
    BY <2>1 DEF SessRec
  <2> QED
    BY <2>2 DEF ShutTo
<1>4. ShutTo(v, y)
  BY <1>1, <1>3
<1> QED
  BY <1>2, <1>4

(* The number is closed, ... *)
LEMMA ClosedFields ==
  ASSUME NEW x, Listed(x), Conn(x), NEW v, v = [x EXCEPT !.enabled = FALSE],
         NEW y, y = IF v.fd /\ v.num # "free" THEN Shut(v) ELSE v
  PROVE  ClosedTo(x, y)
<1>1. x \in SessRec
  BY DEF Listed
<1>0. v = [x EXCEPT !.enabled = FALSE]
  OBVIOUS
<1>2. /\ v \in SessRec /\ v.lock = x.lock /\ v.closer = x.closer /\ v.epoll = x.epoll
      /\ v.msgs = x.msgs /\ v.inbuf = x.inbuf /\ v.sent = x.sent
      /\ v.cond = x.cond /\ v.deinit = x.deinit
      /\ ~v.enabled /\ v.num = x.num /\ v.peer = x.peer /\ v.out = x.out
      /\ v.reader = x.reader /\ v.writer = x.writer /\ v.ctx = x.ctx /\ v.fd = x.fd
  BY ONLY <1>0, <1>1 DEF SessRec
<1>3. /\ x.reader # Nobody \/ x.writer # Nobody => x.ctx
      /\ x.num = "mine" => x.fd
  BY DEF Conn
<1>4. CASE v.fd /\ v.num # "free"
  <2>1. y = Shut(v)
    BY <1>4
  <2>2. ShutTo(v, y)
    BY <1>2, <2>1, ShutFields
  <2>3. /\ y \in SessRec /\ y.cond = v.cond /\ y.deinit = v.deinit
        /\ y.enabled = v.enabled /\ y.num = "free" /\ y.peer = v.peer /\ y.out = v.out
        /\ y.reader = v.reader /\ y.writer = v.writer /\ y.ctx = v.ctx
        /\ y.lock = v.lock /\ y.closer = v.closer /\ y.epoll = v.epoll
        /\ y.msgs = v.msgs /\ y.inbuf = v.inbuf /\ y.sent = v.sent
    BY ONLY <2>2 DEF ShutTo
  <2> QED
    BY ONLY <1>2, <1>3, <2>3 DEF ClosedTo, Leaves
<1>5. CASE ~(v.fd /\ v.num # "free")
  <2>1. y = v
    BY <1>5
  <2>2. v.num # "mine"
    BY <1>2, <1>3, <1>5
  <2> QED
    BY <1>2, <1>3, <2>1, <2>2 DEF ClosedTo, Leaves
<1> QED
  BY <1>4, <1>5

(* ... twice. *)
LEMMA CloseNumberStep ==
  ASSUME Serves(sch, ss), NEW t \in Tasks, CloseNumber(t)
  PROVE  Serves(sch', ss')
<1> DEFINE x == [ss EXCEPT !.enabled = FALSE]
<1>1. PICK l \in {"close in", "close out"} :
        /\ On(sch) /\ sch.running = t /\ sch.pc[t] = l
        /\ sch' = Goto(sch, t, IF l = "close in" THEN "close out" ELSE "dereg in")
        /\ ss' = IF x.fd /\ x.num # "free" THEN Shut(x) ELSE x
  BY DEF CloseNumber, At, Step
<1>2. sch.pc[t] \notin {"session", "init"} /\ sch.pc[t] \notin AioPcs /\ sch.pc[t] \in ClosePcs
  BY <1>1 DEF AioPcs, ClosePcs, ShutPcs
<1>3. InSession(sch, ss)
  BY <1>1, <1>2, IsInSession
<1>4. Mid(sch, t, SessWaiting(ss)) /\ Hosted(sch.pc, sch.st, ss)
  BY <1>1, <1>2, <1>3, SessMid
<1> DEFINE n == IF l = "close in" THEN "close out" ELSE "dereg in"
           y == IF x.fd /\ x.num # "free" THEN Shut(x) ELSE x
<1>5. n \in Pcs \ AioPcs /\ n \in ShutPcs
  BY DEF Pcs, AioPcs, ShutPcs
<1>6. Closes(ss, y) /\ SessWaiting(y) = SessWaiting(ss)
  <2>1. Listed(ss) /\ Conn(ss)
    BY <1>4 DEF Hosted
  <2>2. x = [ss EXCEPT !.enabled = FALSE]
    OBVIOUS
  <2> HIDE DEF x
  <2>3. y = IF x.fd /\ x.num # "free" THEN Shut(x) ELSE x
    OBVIOUS
  <2> HIDE DEF y
  <2>4. ClosedTo(ss, y)
    BY <2>1, <2>2, <2>3, ClosedFields
  <2> QED
    BY <2>4, ClosedIs
<1>7. sch' = Goto(sch, t, n) /\ ss' = y
  BY <1>1
<1> HIDE DEF n, y, x
<1>8. Serves(Goto(sch, t, n), y)
  BY <1>2, <1>4, <1>5, <1>6, CloseGoes
<1> QED
  BY <1>7, <1>8

(* rpc_chan_close ends. *)
LEMMA ChanCloseStep ==
  ASSUME Serves(sch, ss), NEW t \in Tasks, rpc_chan_close(t)
  PROVE  Serves(sch', ss')
<1> DEFINE n == IF ss.closer = t THEN "deinit" ELSE "unlock"
           y == [ss EXCEPT !.fd = FALSE]
<1>1. On(sch) /\ sch.running = t /\ sch.pc[t] = "close end" /\ sch' = Goto(sch, t, n) /\ ss' = y
  BY DEF rpc_chan_close, At, Step
<1>2. /\ sch.pc[t] \notin {"session", "init"} /\ sch.pc[t] \notin AioPcs
      /\ sch.pc[t] \in ClosePcs /\ sch.pc[t] \in ShutPcs
  BY <1>1 DEF AioPcs, ClosePcs, ShutPcs
<1>3. InSession(sch, ss)
  BY <1>1, <1>2, IsInSession
<1>4. Mid(sch, t, SessWaiting(ss)) /\ Hosted(sch.pc, sch.st, ss)
  BY <1>1, <1>2, <1>3, SessMid
<1>5. n \in Pcs \ AioPcs
  BY DEF Pcs, AioPcs
<1>6. ClosedTo(ss, y)
  <2>1. ss \in SessRec /\ Conn(ss)
    BY <1>4 DEF Hosted, Listed
  <2>2. ~ss.enabled /\ ss.num # "mine"
    BY <1>2, <1>4, CloseFacts
  <2>0. ss \in SessRec
    BY <2>1
  <2>3. /\ y \in SessRec /\ Leaves(ss, y) /\ y.cond = ss.cond /\ y.deinit = ss.deinit
        /\ y.enabled = ss.enabled /\ y.num = ss.num /\ y.peer = ss.peer /\ y.out = ss.out
        /\ y.reader = ss.reader /\ y.writer = ss.writer /\ y.ctx = ss.ctx
    <3>1. y \in SessRec /\ y = [ss EXCEPT !.fd = FALSE]
      BY ONLY <2>0, ZenonT(60) DEF SessRec
    <3> QED
      BY ONLY <2>0, <3>1 DEF SessRec, Leaves
  <2> HIDE DEF y
  <2> QED
    BY <2>1, <2>2, <2>3 DEF ClosedTo, Conn
<1>7. (t # ss.closer /\ n = "unlock") \/ (t = ss.closer /\ n = "deinit")
  OBVIOUS
<1> HIDE DEF n, y
<1>8. Serves(Goto(sch, t, n), y)
  BY <1>2, <1>4, <1>5, <1>6, <1>7, CloseGoes, ClosedIs
<1> QED
  BY <1>1, <1>8

(* One that may wait is ready. *)
LEMMA IfReady ==
  ASSUME NEW s, NEW t, NEW W, Mid(s, t, W), NEW p \in W \cup {Nobody}
  PROVE  Readied(s, t, W \ {p}, ReadyIf(s, p))
<1>1. CASE p = Nobody
  <2>1. W \in SUBSET Tasks
    BY RunnerLive
  <2>2. W \ {p} = W
    BY <1>1, <2>1, TaskNames
  <2>3. ReadyIf(s, p) = s
    BY <1>1 DEF ReadyIf
  <2> QED
    BY <2>2, <2>3 DEF Readied
<1>2. CASE p # Nobody
  <2>1. p \in W
    BY <1>2
  <2>2. ReadyIf(s, p) = taskready(s, p)
    BY <1>2 DEF ReadyIf
  <2> QED
    BY <2>1, <2>2, MidReady DEF Readied
<1> QED
  BY <1>1, <1>2

(* The descriptor is forgotten. *)
LEMMA ForgottenFields ==
  ASSUME NEW x \in SessRec, ~x.enabled, x.num # "mine"
  PROVE  Closes(x, Forgotten(x)) /\ Unwaited(x, Forgotten(x), x.reader, x.writer)
<1> DEFINE y == Forgotten(x)
<1>1. /\ y \in SessRec /\ y.cond = x.cond /\ y.deinit = x.deinit
      /\ y.enabled = x.enabled /\ y.num = x.num /\ y.peer = x.peer /\ y.out = x.out
      /\ y.reader = Nobody /\ y.writer = Nobody
      /\ y.lock = x.lock /\ y.closer = x.closer /\ y.epoll = x.epoll
      /\ y.msgs = x.msgs /\ y.inbuf = x.inbuf /\ y.sent = x.sent
  BY DEF Forgotten, SessRec
<1> HIDE DEF y
<1>2. Closes(x, y)
  BY <1>1 DEF Closes, Leaves
<1>3. Unwaited(x, y, x.reader, x.writer)
  BY <1>1 DEF Unwaited
<1> QED
  BY <1>2, <1>3 DEF y

(* Who waited for the socket runs first. *)
LEMMA DeregisterYields ==
  ASSUME NEW s, NEW x, NEW t, Mid(s, t, SessWaiting(x)), Hosted(s.pc, s.st, x),
         s.pc[t] \in ShutPcs, NEW l \in Pcs \ AioPcs, l \in ShutPcs
  PROVE  Serves(taskyield(ReadyIf(ReadyIf(s, x.reader), x.writer), t, l), Forgotten(x))
<1> DEFINE W == SessWaiting(x)
           p == x.reader
           q == x.writer
           u == ReadyIf(s, p)
           v == ReadyIf(u, q)
           z == taskyield(v, t, l)
           y == Forgotten(x)
<1>0. s.pc[t] \in ClosePcs
  BY DEF ClosePcs
<1>1. /\ t \in Tasks /\ t \notin W /\ (t = x.closer => t # x.lock.owner)
      /\ ~x.enabled /\ x.num # "mine" /\ x \in SessRec
  BY <1>0, CloseFacts DEF Hosted, Listed
<1>2. Closes(x, y) /\ Unwaited(x, y, p, q)
  BY <1>1, ForgottenFields
<1> HIDE DEF y
<1>3. /\ p \in W \cup {Nobody} /\ q \in (W \ {p}) \cup {Nobody}
      /\ SessWaiting(y) = (W \ {p}) \ {q}
  <2> HIDE DEF p, q
  <2> QED
    BY <1>2, TwoLess
<1> HIDE DEF p, q
<1>4. Readied(s, t, W \ {p}, u)
  <2> HIDE DEF u
  <2>1. Mid(s, t, W)
    OBVIOUS
  <2> HIDE DEF W
  <2> QED
    BY <1>3, <2>1, IfReady DEF u
<1> HIDE DEF u, W
<1>5. Readied(u, t, SessWaiting(y), v)
  <2>1. Mid(u, t, W \ {p})
    BY <1>4 DEF Readied
  <2> QED
    BY <1>3, <2>1, IfReady
<1> HIDE DEF v
<1>6. Mid(v, t, SessWaiting(y)) /\ v.st = s.st /\ v.pc = s.pc
  BY <1>4, <1>5 DEF Readied
<1>7. After(z, SessWaiting(y)) /\ MidTo(v, t, l, z)
  BY <1>6, MidYield
<1> HIDE DEF z
<1>8. ASSUME On(z) PROVE Hosted(z.pc, z.st, y)
  <2>1. /\ z.st = s.st /\ z.pc[t] = l /\ \A r \in Tasks \ {t} : z.pc[r] = s.pc[r]
    BY <1>6, <1>7, <1>8 DEF MidTo
  <2>2. Moves(s.pc, s.st, z.pc, z.st, t)
    BY <2>1 DEF Moves
  <2>3. t \notin SessWaiting(x)
    BY <1>1 DEF W
  <2> QED
    BY <1>0, <1>1, <1>2, <2>1, <2>2, <2>3, CloseMove
<1>9. Serves(z, y)
  BY <1>7, <1>8, SessEnds
<1> QED
  BY <1>9 DEF z, y, v, u, q, p

(* task_fd_deregister, twice. *)
LEMMA DeregisterStep ==
  ASSUME Serves(sch, ss), NEW t \in Tasks, Deregister(t)
  PROVE  Serves(sch', ss')
<1>1. PICK l \in {"dereg in", "dereg out"} :
        /\ On(sch) /\ sch.running = t /\ sch.pc[t] = l
        /\ IF ss.fd /\ ss.ctx /\ ss.num = "free"
           THEN /\ sch' = task_fd_deregister(sch, ss, t,
                            IF l = "dereg in" THEN "dereg out" ELSE "close end")
                /\ ss' = Forgotten(ss)
           ELSE /\ sch' = Goto(sch, t, IF l = "dereg in" THEN "dereg out" ELSE "close end")
                /\ ss' = ss
  BY DEF Deregister, At, Step
<1>2. /\ sch.pc[t] \notin {"session", "init"} /\ sch.pc[t] \notin AioPcs
      /\ sch.pc[t] \in ClosePcs /\ sch.pc[t] \in ShutPcs
  BY <1>1 DEF AioPcs, ClosePcs, ShutPcs
<1>3. InSession(sch, ss)
  BY <1>1, <1>2, IsInSession
<1>4. Mid(sch, t, SessWaiting(ss)) /\ Hosted(sch.pc, sch.st, ss)
  BY <1>1, <1>2, <1>3, SessMid
<1>5. ss \in SessRec /\ Conn(ss) /\ ~ss.enabled /\ ss.num # "mine"
  BY <1>2, <1>4, CloseFacts DEF Hosted, Listed
<1> DEFINE n == IF l = "dereg in" THEN "dereg out" ELSE "close end"
<1>6. n \in Pcs \ AioPcs /\ n \in ShutPcs
  BY DEF Pcs, AioPcs, ShutPcs
<1> HIDE DEF n
<1>7. CASE ~(ss.fd /\ ss.ctx /\ ss.num = "free")
  <2>1. sch' = Goto(sch, t, n) /\ ss' = ss
    BY <1>1, <1>7 DEF n
  <2>2. Closes(ss, ss)
    BY <1>5 DEF Closes, Leaves, Conn
  <2> QED
    BY <1>2, <1>4, <1>6, <2>1, <2>2, CloseGoes
<1>8. CASE ss.fd /\ ss.ctx /\ ss.num = "free"
  <2>1. sch' = task_fd_deregister(sch, ss, t, n) /\ ss' = Forgotten(ss)
    BY <1>1, <1>8 DEF n
  <2>2. CASE ss.reader = Nobody /\ ss.writer = Nobody
    <3>1. sch' = Goto(sch, t, n)
      BY <2>1, <2>2 DEF task_fd_deregister
    <3>2. Closes(ss, Forgotten(ss)) /\ Unwaited(ss, Forgotten(ss), ss.reader, ss.writer)
      BY <1>5, ForgottenFields
    <3>3. SessWaiting(Forgotten(ss)) = SessWaiting(ss)
      BY <2>2, <3>2 DEF Unwaited, SessWaiting
    <3> DEFINE y == Forgotten(ss)
    <3>4. Closes(ss, y) /\ SessWaiting(y) = SessWaiting(ss)
      BY <3>2, <3>3
    <3> HIDE DEF y
    <3>5. Serves(Goto(sch, t, n), y)
      BY <1>2, <1>4, <1>6, <3>4, CloseGoes
    <3> QED
      BY <2>1, <3>1, <3>5 DEF y
  <2>3. CASE ~(ss.reader = Nobody /\ ss.writer = Nobody)
    <3>1. sch' = taskyield(ReadyIf(ReadyIf(sch, ss.reader), ss.writer), t, n)
      BY <2>1, <2>3 DEF task_fd_deregister
    <3> QED
      BY <1>2, <1>4, <1>6, <2>1, <3>1, DeregisterYields
  <2> QED
    BY <2>2, <2>3
<1> QED
  BY <1>7, <1>8

(* The message of the closer is put. *)
Ends1(x, y, t) ==
  /\ y \in SessRec /\ y.closer = t /\ y.epoll = x.epoll /\ y.sent = x.sent
  /\ y.inbuf = x.inbuf /\ y.cond = x.cond /\ y.reader = x.reader /\ y.writer = x.writer
  /\ y.num = x.num /\ y.peer = x.peer /\ y.out = x.out /\ y.nospace = x.nospace
  /\ y.set = x.set /\ y.fd = x.fd /\ y.robbed = x.robbed /\ y.ctx = x.ctx
  /\ y.pending = x.pending /\ y.enabled = x.enabled /\ y.lock = x.lock
  /\ x.msgs = y.msgs + 1 /\ y.deinit = x.deinit /\ x.deinit = <<>>

(* Counting. *)
LEMMA ClosedCount ==
  \A a, b, i, n \in Nat : a = b + 1 =>
    a - 1 = b /\ (a + i <= n + 1 => b + i <= n + 1 /\ b + i <= n)
OBVIOUS

(* There is a closer. *)
LEMMA CloserMove ==
  ASSUME NEW pc, NEW st, NEW x, Hosted(pc, st, x), NEW t \in Tasks, pc[t] = "closed",
         t \notin SessWaiting(x), NEW y, Ends1(x, y, t), NEW pc2, NEW st2,
         Moves(pc, st, pc2, st2, t), pc2[t] = "close in"
  PROVE  Hosted(pc2, st2, y)
<1>1. /\ Listed(x) /\ Conn(x) /\ Edge(x) /\ AllAt(pc, st, x) /\ Polls(pc, x)
      /\ Held(pc, x.lock, x.closer) /\ Led(pc, x.closer, x.enabled, x.epoll)
      /\ Messages(pc, x.closer, x.msgs, x.inbuf, x.sent) /\ x \in SessRec
  BY DEF Hosted, Listed
<1>2. /\ pc[t] \notin RecvPcs /\ pc[t] \in BusyPcs /\ pc[t] \notin OwnerPcs
      /\ pc2[t] \notin RecvPcs /\ pc2[t] \in ClosePcs /\ pc2[t] # "closed" /\ t # Nobody
      /\ pc2[t] # "reading" /\ pc2[t] # "" /\ pc2[t] # "poll"
  BY TaskNames DEF RecvPcs, BusyPcs, OwnerPcs, WritePcs, ClosePcs, ShutPcs
<1>3. x.closer = Nobody /\ ~x.enabled /\ t # x.lock.owner
  <2>1. SessAt(pc, st, x, t)
    BY <1>1 DEF AllAt
  <2> QED
    BY <1>1, <1>2, <2>1 DEF Led, Held, SessAt
<1>4. \A u \in Tasks : pc[u] \in RecvPcs \/ pc[u] = "closed" => u = t
  BY <1>1 DEF Led, LeadAt
<1>5. /\ y.msgs \in Nat /\ x.msgs \in Nat /\ x.msgs = y.msgs + 1 /\ x.inbuf \in Nat
      /\ x.sent \in Nat
  BY <1>1, SessFields DEF Ends1
<1>6. Listed(y)
  BY <1>1 DEF Listed, Ends1
<1>7. Conn(y)
  BY <1>1 DEF Conn, Ends1
<1>8. Edge(y)
  BY <1>1 DEF Edge, Ends1
<1>9. AllAt(pc2, st2, y)
  <2>1. SessKeeps(t, x, y)
    BY <1>3, TaskNames DEF SessKeeps, Ends1
  <2>2. /\ t # y.reader /\ t # y.writer /\ ~InQueue(t, y.lock.waiting)
        /\ ~InQueue(t, y.cond) /\ ~InQueue(t, y.deinit)
    BY DEF SessWaiting, Ends1
  <2>3. ~y.enabled
    BY <1>3 DEF Ends1
  <2>4. SessAt(pc2, st2, y, t)
    BY <2>2, <2>3 DEF SessAt, EndPcs, ShutPcs, SessPcs, OwnerPcs, ClosePcs
  <2> QED
    BY <1>1, <2>1, <2>4, AllMove
<1>10. Polls(pc2, y)
  BY <1>1, <1>2 DEF Polls, Moves, Ends1
<1>11. Held(pc2, y.lock, y.closer)
  <2> DEFINE k == x.lock
  <2>1. k.owner \in Tasks \cup {Nobody} /\ Held(pc, k, x.closer) /\ t # k.owner
    BY <1>1, <1>3, SessFields
  <2>2. y.lock = k /\ y.closer = t
    BY DEF Ends1
  <2>3. \A u \in Tasks \ {t} : pc2[u] = pc[u]
    BY DEF Moves
  <2> HIDE DEF k
  <2>4. Held(pc2, k, t)
    BY ONLY <2>1, <2>3 DEF Held
  <2> QED
    BY ONLY <2>2, <2>4
<1>12. Led(pc2, y.closer, y.enabled, y.epoll)
  <2>1. \A u \in Tasks : pc2[u] \notin RecvPcs /\ pc2[u] # "closed"
    BY <1>2, <1>4 DEF Moves
  <2>2. \A u \in Tasks : LeadAt(pc2, t, u) <=> u = t
    BY <1>2, <2>1 DEF LeadAt
  <2>3. y.closer = t /\ ~y.enabled
    BY <1>3 DEF Ends1
  <2> QED
    BY <1>2, <2>1, <2>2, <2>3 DEF Led
<1>13. Messages(pc2, y.closer, y.msgs, y.inbuf, y.sent)
  <2> DEFINE H == Holders(pc, Nobody)
             I == Holders(pc2, t)
  <2>1. t \in H /\ t \notin I /\ \A u \in Tasks : u # t => (u \in H <=> u \in I)
    BY <1>2, TaskNames DEF Holders, Moves
  <2>2. H \in SUBSET Tasks /\ I \in SUBSET Tasks
    BY DEF Holders
  <2>3. Cardinality(H) = x.msgs /\ x.msgs + x.inbuf <= x.sent + 1
    BY <1>1, <1>3 DEF Messages
  <2>4. y.closer = t /\ y.inbuf = x.inbuf /\ y.sent = x.sent
    BY DEF Ends1
  <2> HIDE DEF H, I
  <2>5. Moved(t, H, I)
    BY <2>1, <2>2, TaskNames, CountMove
  <2>7. x.msgs - 1 = y.msgs /\ y.msgs + x.inbuf <= x.sent + 1 /\ y.msgs + x.inbuf <= x.sent
    BY <1>5, <2>3, ClosedCount
  <2>8. Cardinality(I) = y.msgs
    BY <2>1, <2>3, <2>5, <2>7 DEF Moved
  <2> QED
    BY <2>4, <2>7, <2>8 DEF Messages, I
<1> QED
  BY <1>6, <1>7, <1>8, <1>9, <1>10, <1>11, <1>12, <1>13 DEF Hosted

(* rpc_msg_handler of CONNCLOSED. *)
LEMMA MsgHandlerStep ==
  ASSUME Serves(sch, ss), NEW t \in Tasks, rpc_msg_handler(t)
  PROVE  Serves(sch', ss')
<1> DEFINE x == [ss EXCEPT !.closer = t]
           put == MsgPut(sch, x)
<1>1. /\ On(sch) /\ sch.running = t /\ sch.pc[t] = "closed"
      /\ sch' = Goto(put[1], t, "close in") /\ ss' = put[2]
  BY DEF rpc_msg_handler, At, Step
<1>2. InSession(sch, ss)
  BY <1>1, IsInSession
<1>3. Mid(sch, t, SessWaiting(ss)) /\ Hosted(sch.pc, sch.st, ss)
  BY <1>1, <1>2, SessMid DEF AioPcs
<1>4. /\ ss \in SessRec /\ sch \in Thread /\ AllAt(sch.pc, sch.st, ss)
      /\ Led(sch.pc, ss.closer, ss.enabled, ss.epoll)
      /\ ss.msgs = Cardinality(Holders(sch.pc, ss.closer))
  BY <1>3 DEF Hosted, Listed, Messages, Mid
<1>5. ss.closer = Nobody /\ t # Nobody
  BY <1>1, <1>4, TaskNames DEF Led
<1>6. ss.msgs \in Nat /\ ss.deinit \in Seq(Tasks)
  BY <1>4, SessFields
<1>7. ss.deinit = <<>>
  <2> SUFFICES ASSUME ss.deinit # <<>> PROVE FALSE
    OBVIOUS
  <2> DEFINE u == Head(ss.deinit)
  <2>1. u \in Tasks /\ InQueue(u, ss.deinit)
    BY <1>6, TailOf
  <2> HIDE DEF u
  <2>2. sch.pc[u] = "drained" /\ u = ss.closer
    BY <1>4, <2>1 DEF AllAt, SessAt, EndPcs
  <2> QED
    BY <1>5, <2>1, <2>2, TaskNames
<1>8. ss.msgs # 0
  <2> DEFINE H == Holders(sch.pc, ss.closer)
  <2>1. t \in H /\ H \in SUBSET Tasks
    BY <1>1, <1>5 DEF Holders, BusyPcs
  <2> HIDE DEF H
  <2>2. IsFiniteSet(H)
    BY <2>1, TaskNames, SubsetCount
  <2>3. Cardinality(H) # 0
    BY <2>1, <2>2, FS_EmptySet
  <2> QED
    BY <1>4, <2>3 DEF H
<1> DEFINE m == ss.msgs - 1
           y == [ss EXCEPT !.closer = t, !.msgs = m]
<1>9. m \in Nat /\ ss.msgs = m + 1
  BY <1>6, <1>8
<1>10. put[1] = sch /\ put[2] = y
  <2>1. CASE ss.msgs = 1
    <3>1. x.msgs = 1 /\ x.deinit = <<>>
      BY <1>4, <1>7, <2>1 DEF SessRec
    <3>2. put = <<ReadyAll(sch, <<>>), [x EXCEPT !.msgs = 0, !.deinit = <<>>]>>
      BY <3>1 DEF MsgPut
    <3>3. ReadyAll(sch, <<>>) = sch
      BY <1>4 DEF ReadyAll, Thread
    <3>4. m = 0
      BY <2>1
    <3> HIDE DEF m
    <3>5. [x EXCEPT !.msgs = 0, !.deinit = <<>>] = y
      BY <1>4, <1>7, <3>4 DEF SessRec
    <3> QED
      BY <3>2, <3>3, <3>5
  <2>2. CASE ss.msgs # 1
    <3>1. x.msgs = ss.msgs
      BY <1>4 DEF SessRec
    <3>2. put = <<sch, [x EXCEPT !.msgs = m]>>
      BY <2>2, <3>1 DEF MsgPut
    <3>3. [x EXCEPT !.msgs = m] = y
      BY <1>4 DEF SessRec
    <3> QED
      BY <3>2, <3>3
  <2> QED
    BY <2>1, <2>2
<1> HIDE DEF put, x, m
<1>11. Ends1(ss, y, t)
  <2>1. /\ y \in SessRec /\ y.closer = t /\ y.epoll = ss.epoll /\ y.sent = ss.sent
        /\ y.inbuf = ss.inbuf /\ y.cond = ss.cond /\ y.reader = ss.reader
        /\ y.writer = ss.writer /\ y.num = ss.num /\ y.peer = ss.peer /\ y.out = ss.out
        /\ y.nospace = ss.nospace /\ y.set = ss.set /\ y.fd = ss.fd
        /\ y.robbed = ss.robbed /\ y.ctx = ss.ctx /\ y.pending = ss.pending
        /\ y.enabled = ss.enabled /\ y.lock = ss.lock /\ y.deinit = ss.deinit /\ y.msgs = m
    BY <1>4, <1>9 DEF SessRec
  <2> QED
    BY <1>7, <1>9, <2>1 DEF Ends1
<1> DEFINE z == Goto(sch, t, "close in")
<1>12. "close in" \in Pcs \ AioPcs /\ "close in" \notin AioPcs
  BY DEF Pcs, AioPcs
<1>13. Mid(z, t, SessWaiting(ss)) /\ Others1(sch, z, t) /\ z.pc[t] = "close in"
  <2>1. Mid(sch, t, SessWaiting(ss)) /\ "close in" \in Pcs \ AioPcs
    BY <1>3, <1>12
  <2>2. GoneTo1(sch, z, t, SessWaiting(ss), "close in")
    BY ONLY <2>1, MidGoes
  <2> QED
    BY ONLY <2>2 DEF GoneTo1
<1>14. sch' = z /\ ss' = y
  BY <1>1, <1>10
<1> HIDE DEF z, y
<1>15. Moves(sch.pc, sch.st, z.pc, z.st, t)
  BY <1>13 DEF Moves, Others1
<1>16. Hosted(z.pc, z.st, y)
  <2>1. t \notin SessWaiting(ss)
    BY <1>3, RunnerLive
  <2> QED
    BY <1>1, <1>3, <1>11, <1>13, <1>15, <2>1, CloserMove
<1>17. SessWaiting(y) = SessWaiting(ss)
  BY <1>11 DEF Ends1, SessWaiting
<1>18. After(z, SessWaiting(y))
  BY <1>12, <1>13, <1>17, MidEnd
<1>19. Serves(z, y)
  BY <1>16, <1>18, SessEnds
<1> QED
  BY <1>14, <1>19

(* The closer waits for the messages of the others, ... *)
LEMMA DrainStep ==
  ASSUME NEW s, NEW x, NEW t, Mid(s, t, SessWaiting(x)), Hosted(s.pc, s.st, x),
         s.pc[t] = "deinit", x.msgs # 0
  PROVE  Serves(taskswitch(s, t, "drained"), [x EXCEPT !.deinit = Append(x.deinit, t)])
<1> DEFINE W == SessWaiting(x)
           z == taskswitch(s, t, "drained")
           w == Append(x.deinit, t)
           y == [x EXCEPT !.deinit = w]
<1>1. /\ t \in Tasks /\ t \notin SessWaiting(x)
      /\ t # x.reader /\ t # x.writer /\ ~InQueue(t, x.lock.waiting)
      /\ ~InQueue(t, x.cond) /\ ~InQueue(t, x.deinit)
      /\ t = x.closer /\ ~x.enabled /\ t # x.lock.owner
  <2>1. s.pc[t] \in ClosePcs \cup EndPcs /\ s.pc[t] \in EndPcs
    BY DEF EndPcs
  <2> QED
    BY <2>1, CloseFacts
<1>2. "drained" \in Pcs \ AioPcs
  BY DEF Pcs, AioPcs
<1>3. After(z, W \cup {t}) /\ MidTo(s, t, "drained", z)
  BY <1>2, MidSwitch
<1> HIDE DEF z
<1>4. /\ x \in SessRec /\ Listed(x) /\ Conn(x) /\ Edge(x) /\ Distinct(x.deinit, Tasks)
  BY DEF Hosted, Listed
<1>5. x.deinit \in Seq(Tasks) /\ x.msgs \in Nat
  BY <1>4, SessFields
<1>6. /\ w \in Seq(Tasks) /\ Distinct(w, Tasks)
      /\ \A u : InQueue(u, w) <=> InQueue(u, x.deinit) \/ u = t
  BY <1>1, <1>4, <1>5, AppendTo
<1> HIDE DEF w
<1>7. /\ y \in SessRec /\ y.closer = x.closer /\ y.epoll = x.epoll /\ y.sent = x.sent
      /\ y.inbuf = x.inbuf /\ y.cond = x.cond /\ y.reader = x.reader /\ y.writer = x.writer
      /\ y.num = x.num /\ y.peer = x.peer /\ y.out = x.out /\ y.nospace = x.nospace
      /\ y.set = x.set /\ y.fd = x.fd /\ y.robbed = x.robbed /\ y.ctx = x.ctx
      /\ y.pending = x.pending /\ y.enabled = x.enabled /\ y.lock = x.lock
      /\ y.msgs = x.msgs /\ y.deinit = w
  BY <1>4, <1>6 DEF SessRec
<1> HIDE DEF y
<1>8. SessWaiting(y) = W \cup {t}
  BY <1>1, <1>6, <1>7 DEF SessWaiting
<1>9. ASSUME On(z) PROVE Hosted(z.pc, z.st, y)
  <2>1. /\ z.st = s.st /\ z.pc[t] = "drained" /\ \A v \in Tasks \ {t} : z.pc[v] = s.pc[v]
    BY <1>3, <1>9 DEF MidTo
  <2>2. Moves(s.pc, s.st, z.pc, z.st, t)
    BY <2>1 DEF Moves
  <2>3. Leaves(x, y)
    BY <1>7 DEF Leaves
  <2>4. SessKeeps(t, x, y)
    BY <1>6, <1>7 DEF SessKeeps
  <2>5. SameKind(s.pc, z.pc, x.closer, t) /\ t = x.closer /\ s.pc[t] # ""
    BY <1>1, <2>1 DEF SameKind, RecvPcs, EndPcs
  <2>6. SessAt(z.pc, z.st, y, t)
    <3>1. /\ z.pc[t] \in SessPcs /\ z.pc[t] \notin ShutPcs
          /\ z.pc[t] \notin WritePcs \cup ClosePcs
      BY <2>1 DEF WritePcs, SessPcs, ClosePcs, ShutPcs, EndPcs
    <3> QED
      BY <1>1, <1>6, <1>7, <2>1, <3>1 DEF SessAt
  <2>7. Listed(y)
    BY <1>4, <1>6, <1>7 DEF Listed
  <2>8. Conn(y)
    <3>1. x.msgs > 0
      BY <1>5
    <3> QED
      BY <1>4, <1>7, <3>1 DEF Conn
  <2>9. Edge(y)
    BY <1>4, <1>7 DEF Edge
  <2>10. Polls(z.pc, y)
    BY <1>7, <2>1 DEF Hosted, Polls
  <2> QED
    BY <1>1, <2>2, <2>3, <2>4, <2>5, <2>6, <2>7, <2>8, <2>9, <2>10, KindMove
<1>10. Serves(z, y)
  BY <1>3, <1>8, <1>9, SessEnds
<1> QED
  BY <1>10 DEF z, y, w

(* ... and ends, with the poller. *)
LEMMA LastStep ==
  ASSUME NEW s, NEW x, NEW t, Mid(s, t, SessWaiting(x)), Hosted(s.pc, s.st, x),
         s.pc[t] \in EndPcs, x.msgs = 0
  PROVE  Serves(taskexit(s, t), taskio_deinit(x))
<1> DEFINE W == SessWaiting(x)
           z == taskexit(s, t)
           y == taskio_deinit(x)
<1>1. /\ t \in Tasks /\ t \notin SessWaiting(x)
      /\ t # x.reader /\ t # x.writer /\ ~InQueue(t, x.lock.waiting)
      /\ ~InQueue(t, x.cond) /\ ~InQueue(t, x.deinit)
      /\ t = x.closer /\ ~x.enabled /\ t # x.lock.owner /\ t # Nobody
  <2>1. s.pc[t] \in ClosePcs \cup EndPcs /\ s.pc[t] \in EndPcs
    OBVIOUS
  <2> QED
    BY <2>1, CloseFacts, TaskNames
<1>2. After(z, W) /\ GoneTo(s, t, z)
  BY MidExits
<1> HIDE DEF z
<1>3. /\ Listed(x) /\ Conn(x) /\ Edge(x) /\ AllAt(s.pc, s.st, x) /\ Polls(s.pc, x)
      /\ Held(s.pc, x.lock, x.closer) /\ Led(s.pc, x.closer, x.enabled, x.epoll)
      /\ Messages(s.pc, x.closer, x.msgs, x.inbuf, x.sent) /\ x \in SessRec
  BY DEF Hosted, Listed
<1>4. \A u \in Tasks : s.pc[u] # "poll"
  BY DEF Mid, AioIdle
<1>5. /\ y \in SessRec /\ y.closer = x.closer /\ y.epoll = "closed" /\ y.sent = x.sent
      /\ y.inbuf = x.inbuf /\ y.cond = x.cond /\ y.reader = x.reader /\ y.writer = x.writer
      /\ y.num = x.num /\ y.peer = x.peer /\ y.out = x.out /\ y.nospace = x.nospace
      /\ y.set = x.set /\ y.fd = x.fd /\ y.robbed = x.robbed /\ y.ctx = x.ctx
      /\ y.pending = x.pending /\ y.enabled = x.enabled /\ y.lock = x.lock
      /\ y.msgs = x.msgs /\ y.deinit = x.deinit
  BY <1>3 DEF SessRec, taskio_deinit
<1> HIDE DEF y
<1>6. SessWaiting(y) = W
  BY <1>5 DEF SessWaiting
<1>7. ASSUME On(z) PROVE Hosted(z.pc, z.st, y)
  <2>1. /\ z.st[t] # "live" /\ z.pc[t] = ""
        /\ \A u \in Tasks \ {t} : z.pc[u] = s.pc[u] /\ z.st[u] = s.st[u]
    BY <1>2, <1>7 DEF GoneTo
  <2>2. Moves(s.pc, s.st, z.pc, z.st, t)
    BY <2>1 DEF Moves
  <2>3. Listed(y) /\ Conn(y) /\ Edge(y)
    <3>1. Listed(y)
      BY <1>3, <1>5 DEF Listed
    <3>2. Conn(y)
      BY <1>3, <1>5 DEF Conn
    <3>3. Edge(y)
      BY <1>3, <1>5 DEF Edge
    <3> QED
      BY <3>1, <3>2, <3>3
  <2>4. AllAt(z.pc, z.st, y)
    <3>1. SessKeeps(t, x, y)
      BY <1>5 DEF SessKeeps
    <3>2. SessAt(z.pc, z.st, y, t)
      BY <1>1, <1>5, <2>1 DEF SessAt, EndPcs, ShutPcs, ClosePcs, WritePcs
    <3> QED
      BY <1>1, <1>3, <2>2, <3>1, <3>2, AllMove
  <2>5. Polls(z.pc, y)
    BY <1>4, <2>1 DEF Polls
  <2>6. Held(z.pc, y.lock, y.closer)
    <3>1. x.lock.owner \in Tasks \cup {Nobody}
      BY <1>3, SessFields
    <3> DEFINE k == x.lock
               c == x.closer
    <3>2. Held(s.pc, k, c) /\ k.owner \in Tasks \cup {Nobody} /\ t # k.owner
      BY <1>1, <1>3, <3>1
    <3> HIDE DEF k, c
    <3>3. t \in Tasks /\ \A u \in Tasks \ {t} : z.pc[u] = s.pc[u]
      BY <1>1, <2>1
    <3>4. Held(z.pc, k, c)
      BY <3>2, <3>3, HeldMove
    <3> QED
      BY <1>5, <3>4 DEF k, c
  <2>7. Led(z.pc, y.closer, y.enabled, y.epoll)
    <3>1. s.pc[t] \notin RecvPcs /\ s.pc[t] # "closed" /\ s.pc[t] # "" /\ "" \notin RecvPcs
      BY DEF EndPcs, RecvPcs
    <3>2. \A u \in Tasks : LeadAt(s.pc, t, u) => u = t
      BY <1>1, <1>3, <3>1 DEF Led, LeadAt
    <3>3. ASSUME NEW u \in Tasks PROVE z.pc[u] \notin RecvPcs /\ z.pc[u] # "closed"
      <4>1. CASE u = t
        BY ONLY <2>1, <3>1, <4>1
      <4>2. CASE u # t
        <5>1. z.pc[u] = s.pc[u] /\ ~LeadAt(s.pc, t, u)
          BY ONLY <2>1, <3>2, <3>3, <4>2
        <5> QED
          BY ONLY <5>1 DEF LeadAt
      <4> QED
        BY ONLY <4>1, <4>2
    <3>4. \A u \in Tasks : ~LeadAt(z.pc, t, u)
      BY <2>1, <3>3 DEF LeadAt
    <3>5. y.closer = t /\ ~y.enabled /\ y.epoll # "on"
      BY <1>1, <1>5
    <3> QED
      BY <2>1, <3>3, <3>4, <3>5 DEF Led
  <2>8. Messages(z.pc, y.closer, y.msgs, y.inbuf, y.sent)
    <3>1. s.pc[t] # "reading" /\ s.pc[t] # "closed"
      BY DEF EndPcs
    <3>2. Holders(z.pc, t) = Holders(s.pc, t)
      BY <2>1 DEF Holders
    <3>3. Spare(z.pc) <=> Spare(s.pc)
      BY <2>1, <3>1 DEF Spare
    <3>4. Messages(z.pc, t, x.msgs, x.inbuf, x.sent)
      BY <1>1, <1>3, <3>2, <3>3 DEF Messages
    <3> QED
      BY <1>1, <1>5, <3>4
  <2> QED
    BY <2>3, <2>4, <2>5, <2>6, <2>7, <2>8 DEF Hosted
<1>8. Serves(z, y)
  BY <1>2, <1>6, <1>7, SessEnds
<1> QED
  BY <1>8 DEF z, y

(* rpc_conn_closed behind rpc_chan_close. *)
LEMMA ConnClosedStep ==
  ASSUME Serves(sch, ss), NEW t \in Tasks, rpc_conn_closed(t)
  PROVE  Serves(sch', ss')
<1>1. On(sch) /\ sch.running = t /\ sch.pc[t] \in {"deinit", "drained"}
  BY DEF rpc_conn_closed, At
<1>2. sch.pc[t] \notin {"session", "init"} /\ sch.pc[t] \notin AioPcs /\ sch.pc[t] \in EndPcs
  BY <1>1 DEF AioPcs, EndPcs
<1>3. InSession(sch, ss)
  BY <1>1, <1>2, IsInSession
<1>4. Mid(sch, t, SessWaiting(ss)) /\ Hosted(sch.pc, sch.st, ss)
  BY <1>1, <1>2, <1>3, SessMid
<1>5. CASE sch.pc[t] = "deinit" /\ ss.msgs # 0
  <2>1. /\ sch' = taskswitch(sch, t, "drained")
        /\ ss' = [ss EXCEPT !.deinit = Append(ss.deinit, t)]
    BY <1>5 DEF rpc_conn_closed, At, Step
  <2> QED
    BY <1>4, <1>5, <2>1, DrainStep
<1>6. CASE ss.msgs = 0
  <2>1. sch' = taskexit(sch, t) /\ ss' = taskio_deinit(ss)
    BY <1>6 DEF rpc_conn_closed, At, Step
  <2> QED
    BY <1>2, <1>4, <1>6, <2>1, LastStep
<1>7. CASE sch.pc[t] = "drained" /\ ss.msgs # 0
  <2>1. ss.msgs = 0
    BY <1>2, <1>4, <1>7, CloseFacts
  <2> QED
    BY <1>7, <2>1
<1> QED
  BY <1>1, <1>5, <1>6, <1>7

(* The first task of a thread is created. *)
LEMMA FirstIsCreated ==
  ASSUME NEW fn
  PROVE  libtask_start(fn).thread # "aborted"
<1> DEFINE s == taskcreate(NoTasks, fn, FALSE)
<1>1. NoTasks.thread = "on" /\ NoTasks.cache = <<>>
  BY DEF NoTasks
<1>2. s = taskalloc(NoTasks, fn, FALSE)
  BY <1>1 DEF taskcreate, On
<1>3. s.thread = "on" /\ "thread" \in DOMAIN s
  BY <1>1, <1>2 DEF taskalloc, taskready, NoTasks
<1> HIDE DEF s
<1>4. taskscheduler(s).thread # "aborted"
  <2>1. CASE s.count = 0
    <3>1. taskscheduler(s) = End(s, "exited")
      BY <1>3, <2>1 DEF taskscheduler, On
    <3> QED
      BY <3>1 DEF End
  <2>2. CASE s.count # 0 /\ s.runq = <<>>
    <3> DEFINE f == taskcachefree(s)
               how == IF f.count = 0 THEN "exited" ELSE "stalled"
    <3>1. taskscheduler(s) = End(f, how)
      BY <1>3, <2>2 DEF taskscheduler, On
    <3>2. how # "aborted"
      OBVIOUS
    <3>3. f.thread = "on" /\ "thread" \in DOMAIN f
      BY <1>3 DEF taskcachefree
    <3> HIDE DEF f, how
    <3>4. End(f, how).thread = how
      BY <3>3 DEF End
    <3> QED
      BY <3>1, <3>2, <3>4
  <2>3. CASE s.count # 0 /\ s.runq # <<>>
    <3> DEFINE h == Head(s.runq)
               q == Tail(s.runq)
               n == IF s.nswitch = 2 THEN 2 ELSE s.nswitch + 1
    <3>1. taskscheduler(s) = [s EXCEPT !.running = h, !.runq = q, !.nswitch = n]
      BY <1>3, <2>3 DEF taskscheduler, On
    <3> HIDE DEF h, q, n
    <3> QED
      BY <1>3, <3>1
  <2> QED
    BY <2>1, <2>2, <2>3
<1> QED
  BY <1>4 DEF libtask_start, s

(* At the places of the first task nobody else is there yet. *)
LEMMA IsEarly ==
  ASSUME NEW s, NEW x, NEW t \in Tasks, Serves(s, x), On(s), s.running = t,
         s.pc[t] \in {"session", "init"}
  PROVE  Early(s, x)
<1>1. ASSUME InSession(s, x) PROVE FALSE
  <2>1. s.st[t] = "live" /\ SessAt(s.pc, s.st, x, t)
    BY <1>1 DEF InSession, Acc, Placed, Hosted, AllAt
  <2>2. s.pc[t] \in SessPcs
    BY <2>1 DEF SessAt
  <2> QED
    BY <2>2 DEF SessPcs, RecvPcs, OwnerPcs, WritePcs, ClosePcs, ShutPcs, EndPcs, AioPcs
<1> QED
  BY <1>1 DEF Serves

(* It is in the middle of its step. *)
LEMMA EarlyMid ==
  ASSUME NEW s, NEW x, NEW t \in Tasks, Early(s, x), On(s), s.running = t
  PROVE  /\ Mid(s, t, {}) /\ s.st[t] = "live"
         /\ \A u \in Tasks \ {t} : s.st[u] # "live" /\ s.pc[u] = ""
         /\ Cardinality(Live(s)) = 1
<1>1. Acc(s, t, {}) /\ s \in Thread
  BY DEF Early, Acc
<1>2. s.st[t] = "live" /\ \A u \in Tasks \ {t} : s.st[u] # "live" /\ s.pc[u] = ""
  BY <1>1 DEF Early, Acc, Placed
<1>3. \A u \in Tasks : s.pc[u] \notin AioPcs
  BY DEF Early, AioPcs
<1>4. AioIdle(s)
  BY <1>3 DEF AioIdle, OneAio, AioPcs
<1>5. Live(s) = {t}
  BY <1>2 DEF Live
<1>6. Cardinality(Live(s)) = 1
  BY <1>5, FS_Singleton
<1> QED
  BY <1>1, <1>2, <1>4, <1>6 DEF Mid

(* The hello is read, or the process aborts. *)
LEMMA ReadHelloStep ==
  ASSUME Serves(sch, ss), NEW t \in Tasks, ReadHello(t)
  PROVE  Serves(sch', ss')
<1>1. /\ On(sch) /\ sch.running = t /\ sch.pc[t] = "session" /\ ss' = ss
      /\ ss.num = "mine" => ss.peer # "new"
      /\ sch' = CASE ss.num = "mine" /\ ss.peer = "open" -> Goto(sch, t, "init")
                  [] ss.num = "rival" -> Abort(sch, "foreign")
                  [] ss.num = "free" \/ (ss.num = "mine" /\ ss.peer = "closed") ->
                       Abort(sch, "hello")
  BY DEF ReadHello, At, Step
<1>2. Early(sch, ss)
  BY <1>1, IsEarly
<1>3. Alone(ss) /\ sch \in Thread
  BY <1>2 DEF Early, Acc
<1>4. /\ ss.num \in {"mine", "free", "rival"} /\ ss.peer \in {"new", "open", "closed"}
      /\ ss.num # "mine" => ss.robbed
  BY <1>3, SessFields DEF Alone
<1>5. CASE ss.num = "mine" /\ ss.peer = "open"
  <2> DEFINE z == Goto(sch, t, "init")
  <2>1. sch' = z
    BY <1>1, <1>5
  <2>2. "init" \in Pcs /\ sch.st[t] = "live" /\ Acc(sch, t, {}) /\ sch.running = t
    BY <1>1, <1>2, EarlyMid DEF Pcs, Mid
  <2>3. /\ Acc(z, t, {}) /\ z.st = sch.st /\ z.thread = sch.thread /\ z.running = sch.running
        /\ z.pc[t] = "init" /\ \A u \in Tasks \ {t} : z.pc[u] = sch.pc[u]
    BY <2>2, GoneOn
  <2> HIDE DEF z
  <2>4. Early(z, ss)
    <3>1. \A u \in Tasks : /\ z.pc[u] \in {"", "session", "init"}
                           /\ z.pc[u] = "init" => ss.peer # "new"
                           /\ z.st[u] = "live" => z.pc[u] # "" /\ u = z.running
      BY <1>1, <1>2, <1>5, <2>3 DEF Early
    <3> QED
      BY <1>1, <1>3, <2>3, <3>1 DEF Early
  <2>5. z.thread # "aborted"
    BY <1>1, <2>3 DEF On
  <2> QED
    BY <1>1, <2>1, <2>4, <2>5 DEF Serves
<1>6. CASE ss.num = "rival"
  <2>1. sch' = Abort(sch, "foreign")
    BY <1>1, <1>6
  <2>2. "foreign" \in Whys /\ Blamed("foreign", ss)
    BY <1>4, <1>6 DEF Whys, Blamed
  <2> QED
    BY <1>1, <1>3, <2>1, <2>2, SessAborted
<1>7. CASE ss.num = "free" \/ (ss.num = "mine" /\ ss.peer = "closed")
  <2>1. sch' = Abort(sch, "hello")
    BY <1>1, <1>7
  <2>2. "hello" \in Whys /\ Blamed("hello", ss)
    BY <1>4, <1>7 DEF Whys, Blamed
  <2> QED
    BY <1>1, <1>3, <2>1, <2>2, SessAborted
<1> QED
  BY <1>1, <1>4, <1>5, <1>6, <1>7

(* The channel is opened: only t sleeps on t->cond. *)
Opened(x, y, t) ==
  /\ y \in SessRec /\ y.num = "mine" /\ y.peer = x.peer /\ y.robbed = x.robbed
  /\ y.sent = x.sent /\ y.inbuf = x.inbuf /\ y.out = x.out /\ y.pending
  /\ y.epoll = "on" /\ y.ctx /\ y.set /\ y.enabled /\ y.fd
  /\ y.reader = Nobody /\ y.writer = Nobody /\ y.lock.owner = Nobody
  /\ y.lock.waiting = <<>> /\ y.msgs = 0 /\ y.closer = Nobody
  /\ y.deinit = <<>> /\ y.cond = <<t>>

(* The fields of the session. *)
LEMMA OpenFields ==
  ASSUME NEW x, Alone(x), x.num = "mine", NEW t \in Tasks
  PROVE  Opened(x, [rpc_chan_init(task_sockfd_register(taskio_init(x)))
                      EXCEPT !.cond = Append(@, t)], t)
<1> DEFINE y == [rpc_chan_init(task_sockfd_register(taskio_init(x)))
                   EXCEPT !.cond = Append(@, t)]
           q == <<t>>
<1>1. x \in SessRec /\ x.cond = <<>>
  BY DEF Alone
<1>2. q \in Seq(Tasks) /\ Append(<<>>, t) = q
  OBVIOUS
<1>3. y = [x EXCEPT !.epoll = "on", !.ctx = TRUE, !.set = TRUE, !.pending = TRUE,
                    !.enabled = TRUE, !.fd = TRUE, !.cond = q]
  BY <1>1, <1>2 DEF rpc_chan_init, task_sockfd_register, taskio_init, SessRec
<1> HIDE DEF y, q
<1>4. /\ y \in SessRec /\ y.num = x.num /\ y.peer = x.peer /\ y.robbed = x.robbed
      /\ y.sent = x.sent /\ y.inbuf = x.inbuf /\ y.out = x.out /\ y.pending
      /\ y.epoll = "on" /\ y.ctx /\ y.set /\ y.enabled /\ y.fd
      /\ y.reader = x.reader /\ y.writer = x.writer /\ y.lock = x.lock
      /\ y.msgs = x.msgs /\ y.closer = x.closer
      /\ y.deinit = x.deinit /\ y.cond = q
  BY <1>1, <1>2, <1>3 DEF SessRec
<1>5. Opened(x, y, t)
  BY <1>4 DEF Opened, Alone, q
<1> QED
  BY <1>5 DEF y

(* The places of the three tasks: t sleeps, a is aiotask, b the receiver. *)
Three(pc, t, a, b) ==
  /\ t \in Tasks /\ a \in Tasks /\ b \in Tasks /\ t # a /\ t # b /\ a # b
  /\ pc[t] = "done" /\ pc[a] = "aiotask" /\ pc[b] = "recv"
  /\ \A u \in Tasks \ {t, a, b} : pc[u] = ""

(* The session begins. *)
LEMMA Opens ==
  ASSUME NEW x, Alone(x), x.peer # "new", NEW pc, NEW st, NEW t, NEW a, NEW b,
         Three(pc, t, a, b), \A u \in Tasks \ {t, a, b} : st[u] # "live",
         NEW y, Opened(x, y, t)
  PROVE  Hosted(pc, st, y) /\ SessWaiting(y) = {t}
<1> DEFINE q == <<t>>
<1>1. t \in Tasks /\ t # Nobody
  BY TaskNames DEF Three
<1>2. /\ q \in Seq(Tasks) /\ Distinct(q, Tasks)
      /\ \A u \in Tasks : InQueue(u, q) <=> u = t
  <2>1. q \in Seq(Tasks) /\ Len(q) = 1 /\ q[1] = t
    BY <1>1
  <2> HIDE DEF q
  <2>2. 1..Len(q) = {1}
    BY <2>1
  <2> QED
    BY <2>1, <2>2 DEF Distinct, InQueue
<1>3. y.cond = q
  BY DEF Opened
<1> HIDE DEF q
<1>4. \A u \in Tasks : u # Nobody /\ u # y.reader /\ u # y.writer /\ u # y.lock.owner
                       /\ ~InQueue(u, y.lock.waiting) /\ ~InQueue(u, y.deinit)
                       /\ u # y.closer /\ (InQueue(u, y.cond) <=> u = t)
  BY <1>2, <1>3, TaskNames, EmptyQueue DEF Opened
<1>5. SessWaiting(y) = {t}
  BY <1>1, <1>4 DEF SessWaiting
<1>6. x.sent \in Nat /\ x.sent <= MaxReq /\ x.inbuf = x.sent /\ x.out = 0
  BY SessFields DEF Alone
<1>7. Listed(y)
  <2>1. y.out <= Cap /\ y.sent <= MaxReq
    BY <1>6, Bounds DEF Opened
  <2>2. \E d \in Tasks : y.cond = <<d>>
    BY <1>1 DEF Opened
  <2>3. Distinct(y.lock.waiting, Tasks) /\ Distinct(y.deinit, Tasks)
    BY EmptyQueue DEF Opened
  <2> QED
    BY <2>1, <2>2, <2>3 DEF Listed, Opened
<1>8. Conn(y)
  BY DEF Conn, Opened
<1>9. Edge(y)
  BY DEF Edge, Opened
<1>10. AllAt(pc, st, y)
  <2> SUFFICES ASSUME NEW u \in Tasks PROVE SessAt(pc, st, y, u)
    BY DEF AllAt
  <2>1. pc[u] \in {"done", "aiotask", "recv", ""} /\ (pc[u] = "done" <=> u = t)
    BY DEF Three
  <2>2. st[u] = "live" => pc[u] # ""
    BY DEF Three
  <2>3. st[u] = "live" => pc[u] \in SessPcs
    BY <2>1, <2>2 DEF SessPcs, RecvPcs, AioPcs
  <2>4. /\ pc[u] \notin EndPcs /\ pc[u] # "drained" /\ pc[u] \notin ShutPcs
        /\ pc[u] # "closed" /\ pc[u] \notin WritePcs \cup ClosePcs /\ pc[u] # "locked"
    BY <2>1 DEF EndPcs, ShutPcs, WritePcs, ClosePcs
  <2> QED
    BY <1>4, <2>1, <2>3, <2>4 DEF SessAt
<1>11. Polls(pc, y)
  BY DEF Polls, Opened
<1>12. Held(pc, y.lock, y.closer)
  BY DEF Held, Opened
<1>13. Led(pc, y.closer, y.enabled, y.epoll)
  <2>1. b \in Tasks /\ \A u \in Tasks : pc[u] \in RecvPcs \/ pc[u] = "closed" <=> u = b
    BY DEF Three, RecvPcs
  <2>2. pc[b] \in RecvPcs
    BY DEF Three, RecvPcs
  <2>3. \A u \in Tasks : LeadAt(pc, y.closer, u) <=> u = b
    BY <1>4, <2>1 DEF LeadAt
  <2>4. y.closer = Nobody
    BY DEF Opened
  <2> QED
    BY <2>1, <2>2, <2>3, <2>4 DEF Led
<1>14. Messages(pc, y.closer, y.msgs, y.inbuf, y.sent)
  <2>1. \A u \in Tasks : pc[u] \in {"done", "aiotask", "recv", ""}
    BY DEF Three
  <2>2. Holders(pc, y.closer) = {}
    BY <2>1 DEF Holders, BusyPcs, OwnerPcs, WritePcs, ClosePcs, ShutPcs
  <2>3. y.msgs = 0 /\ y.inbuf = y.sent /\ y.sent \in Nat
    BY <1>6 DEF Opened
  <2> QED
    BY <2>2, <2>3, FS_EmptySet DEF Messages
<1> QED
  BY <1>5, <1>7, <1>8, <1>9, <1>10, <1>11, <1>12, <1>13, <1>14 DEF Hosted

(* The two tasks of the session are created: a is aiotask, b the receiver. *)
Starts(z, t, a, b) ==
  /\ Mid(z, t, {}) /\ a # b /\ a # t /\ b # t
  /\ z.pc[a] = "aiotask" /\ z.pc[b] = "recv"
  /\ \A u \in Tasks \ {t, a, b} : z.pc[u] = "" /\ z.st[u] # "live"

(* ... while the first runs. *)
LEMMA OpenCreates ==
  ASSUME NEW s, NEW t, Mid(s, t, {}), Cardinality(Live(s)) = 1,
         \A u \in Tasks \ {t} : s.st[u] # "live" /\ s.pc[u] = "", s.pc[t] = "init"
  PROVE  \E a, b \in Tasks : Starts(taskcreate(taskio_start(s), "recv", TRUE), t, a, b)
<1> DEFINE y == taskio_start(s)
           z == taskcreate(y, "recv", TRUE)
<1>1. t \in Tasks /\ s \in Thread /\ On(s)
  BY DEF Mid
<1>2. /\ MaxTask \in Nat /\ MaxTask >= 4 /\ Cardinality(Live(s)) < MaxTask
  <2> DEFINE n == Cardinality(Live(s))
  <2>1. n = 1
    OBVIOUS
  <2> HIDE DEF n
  <2>2. MaxReq \in Nat /\ MaxTask \in Nat /\ MaxTask >= MaxReq + 4
    BY Bounds
  <2>3. MaxTask >= 4 /\ n < MaxTask
    BY ONLY <2>1, <2>2
  <2> QED
    BY <2>2, <2>3 DEF n
<1>3. \A u \in Tasks : s.pc[u] \notin AioPcs
  BY DEF AioPcs
<1>4. MadeIn(s, t, {}, "aiotask", y)
  <2>1. "aiotask" \in Pcs /\ TRUE \in BOOLEAN
    BY DEF Pcs
  <2>2. MadeIn(s, t, {}, "aiotask", taskcreate(s, "aiotask", TRUE))
    BY <1>2, <1>3, <2>1, MidCreate
  <2> QED
    BY <2>2 DEF taskio_start
<1>5. On(y)
  BY <1>1, SmallCreated DEF taskio_start
<1> HIDE DEF y
<1>6. Mid(y, t, {})
  BY <1>4, <1>5 DEF MadeIn
<1>7. PICK a \in Tasks :
        /\ y.st[a] = "live" /\ y.pc[a] = "aiotask" /\ a # t
        /\ \A v \in Tasks \ {a} : y.st[v] = s.st[v] /\ y.pc[v] = s.pc[v]
  BY <1>4, <1>5 DEF MadeIn
<1>8. Cardinality(Live(y)) < MaxTask
  <2>1. Live(y) \in SUBSET {t, a}
    BY <1>7 DEF Live
  <2>2. IsFiniteSet({t, a}) /\ Cardinality({t, a}) = 2
    <3>1. Cardinality({t}) = 1 /\ IsFiniteSet({t})
      BY FS_Singleton
    <3>2. Cardinality({t} \cup {a}) = Cardinality({t}) + 1 /\ IsFiniteSet({t} \cup {a})
      BY <1>7, <3>1, FS_AddElement
    <3>3. {t} \cup {a} = {t, a}
      OBVIOUS
    <3>4. Cardinality({t} \cup {a}) = 1 + 1
      BY <3>1, <3>2
    <3> QED
      BY ONLY <3>2, <3>3, <3>4
  <2> DEFINE n == Cardinality(Live(y))
  <2>3. n <= 2 /\ n \in Nat
    BY <2>1, <2>2, FS_Subset, FS_CardinalityType
  <2> HIDE DEF n
  <2>4. n < MaxTask
    BY ONLY <1>2, <2>3
  <2> QED
    BY <2>4 DEF n
<1>9. MadeIn(y, t, {}, "recv", z)
  <2>1. "recv" \in Pcs /\ "recv" \notin AioPcs /\ TRUE \in BOOLEAN
    BY DEF Pcs, AioPcs
  <2> QED
    BY <1>6, <1>8, <2>1, MidCreate
<1>10. On(z)
  BY <1>5, <1>6, SmallCreated DEF Mid
<1> HIDE DEF z
<1>11. Mid(z, t, {})
  BY <1>9, <1>10 DEF MadeIn
<1>12. PICK b \in Tasks :
        /\ y.st[b] # "live" /\ z.pc[b] = "recv" /\ b # t
        /\ \A v \in Tasks \ {b} : z.st[v] = y.st[v] /\ z.pc[v] = y.pc[v]
  BY <1>9, <1>10 DEF MadeIn
<1>13. /\ a # b /\ z.pc[a] = "aiotask"
       /\ \A u \in Tasks \ {t, a, b} : z.pc[u] = "" /\ z.st[u] # "live"
  BY <1>7, <1>12
<1> QED
  BY <1>7, <1>11, <1>12, <1>13 DEF y, z, Starts

(* task_new_session. *)
LEMMA NewSessionStep ==
  ASSUME Serves(sch, ss), NEW t \in Tasks, task_new_session(t)
  PROVE  Serves(sch', ss')
<1> DEFINE s == taskcreate(taskio_start(sch), "recv", TRUE)
           y == [rpc_chan_init(task_sockfd_register(taskio_init(ss)))
                   EXCEPT !.cond = Append(@, t)]
<1>1. /\ On(sch) /\ sch.running = t /\ sch.pc[t] = "init"
      /\ CASE ss.num = "mine" -> sch' = taskswitch(s, t, "done") /\ ss' = y
           [] ss.num = "free" -> sch' = Abort(sch, "register") /\ ss' = ss
           [] ss.num = "rival" -> sch' = Abort(sch, "foreign") /\ ss' = ss
  BY DEF task_new_session, At, Step
<1> HIDE DEF s, y
<1>2. Early(sch, ss)
  BY <1>1, IsEarly
<1>3. Alone(ss) /\ sch \in Thread /\ ss.peer # "new"
  BY <1>1, <1>2 DEF Early, Acc
<1>4. ss.num \in {"mine", "free", "rival"} /\ (ss.num # "mine" => ss.robbed)
  BY <1>3, SessFields DEF Alone
<1>5. CASE ss.num = "mine"
  <2>1. sch' = taskswitch(s, t, "done") /\ ss' = y
    BY <1>1, <1>5
  <2>2. Opened(ss, y, t)
    BY <1>3, <1>5, OpenFields DEF y
  <2>3. /\ Mid(sch, t, {}) /\ Cardinality(Live(sch)) = 1
        /\ \A u \in Tasks \ {t} : sch.st[u] # "live" /\ sch.pc[u] = ""
    BY <1>1, <1>2, EarlyMid
  <2>4. PICK a, b \in Tasks :
          /\ Mid(s, t, {}) /\ a # b /\ a # t /\ b # t
          /\ s.pc[a] = "aiotask" /\ s.pc[b] = "recv"
          /\ \A u \in Tasks \ {t, a, b} : s.pc[u] = "" /\ s.st[u] # "live"
    <3>1. sch.pc[t] = "init"
      BY <1>1
    <3> QED
      <4>1. \E a, b \in Tasks : Starts(s, t, a, b)
        BY ONLY <2>3, <3>1, OpenCreates DEF s
      <4> QED
        BY <4>1 DEF Starts
  <2> DEFINE z == taskswitch(s, t, "done")
  <2>5. "done" \in Pcs \ AioPcs
    BY DEF Pcs, AioPcs
  <2>6. After(z, {} \cup {t}) /\ MidTo(s, t, "done", z)
    BY <2>4, <2>5, MidSwitch
  <2> HIDE DEF z
  <2>7. ASSUME On(z) PROVE Hosted(z.pc, z.st, y)
    <3>1. Three(z.pc, t, a, b) /\ \A u \in Tasks \ {t, a, b} : z.st[u] # "live"
      BY <2>4, <2>6, <2>7 DEF MidTo, Three
    <3> QED
      BY <1>3, <2>2, <3>1, Opens
  <2>8. SessWaiting(y) = {t}
    <3> DEFINE p == [u \in Tasks |-> IF u = t THEN "done" ELSE
                                     IF u = a THEN "aiotask" ELSE
                                     IF u = b THEN "recv" ELSE ""]
               g == [u \in Tasks |-> "none"]
    <3>1. Three(p, t, a, b) /\ \A u \in Tasks \ {t, a, b} : g[u] # "live"
      BY <2>4 DEF Three
    <3> HIDE DEF p, g
    <3> QED
      BY <1>3, <2>2, <3>1, Opens
  <2>9. After(z, SessWaiting(y))
    BY <2>6, <2>8
  <2>10. Serves(z, y)
    BY <2>7, <2>9, SessEnds
  <2> QED
    BY <2>1, <2>10 DEF z
<1>6. CASE ss.num = "free"
  <2>1. sch' = Abort(sch, "register") /\ ss' = ss
    BY <1>1, <1>6
  <2>2. "register" \in Whys /\ Blamed("register", ss)
    BY <1>4, <1>6 DEF Whys, Blamed
  <2> QED
    BY <1>3, <2>1, <2>2, SessAborted
<1>7. CASE ss.num = "rival"
  <2>1. sch' = Abort(sch, "foreign") /\ ss' = ss
    BY <1>1, <1>7
  <2>2. "foreign" \in Whys /\ Blamed("foreign", ss)
    BY <1>4, <1>7 DEF Whys, Blamed
  <2> QED
    BY <1>3, <2>1, <2>2, SessAborted
<1> QED
  BY <1>4, <1>5, <1>6, <1>7

(***************************************************************************)
(* The program of the session, and what follows.                           *)
(***************************************************************************)
LEMMA SessionInit == Init => SessInv
<1> SUFFICES ASSUME Init, prog = "session"
             PROVE  Serves(sch, ss)
  BY DEF SessInv
<1> DEFINE x == libtask_start("session")
<1>1. sch = x
  BY DEF Init, First
<1>2. FirstRuns(x, "session")
  BY FirstTask DEF Pcs
<1>3. x.thread # "aborted"
  BY FirstIsCreated
<1> HIDE DEF x
<1>4. PICK w \in BOOLEAN : ss = NewSession(w)
  BY DEF Init
<1>5. Alone(ss)
  <2>1. <<>> \in Seq(Tasks) /\ NoQLock \in [owner : Tasks \cup {Nobody}, waiting : Seq(Tasks)]
        /\ NoQLock.owner = Nobody /\ NoQLock.waiting = <<>>
    BY DEF NoQLock
  <2>2. MaxReq \in Nat /\ 0 <= MaxReq
    BY Bounds
  <2>3. ss \in SessRec
    <3> DEFINE e == <<>>
               k == NoQLock
    <3>1. ss = [num |-> "mine", window |-> w, robbed |-> FALSE, harm |-> FALSE,
                peer |-> "new", sent |-> 0, inbuf |-> 0, out |-> 0, pending |-> FALSE,
                nospace |-> FALSE, epoll |-> "none", set |-> FALSE, ctx |-> FALSE,
                reader |-> Nobody, writer |-> Nobody, enabled |-> FALSE, fd |-> FALSE,
                lock |-> k, msgs |-> 0, closer |-> Nobody, cond |-> e, deinit |-> e]
      BY <1>4 DEF NewSession
    <3>2. e \in Seq(Tasks) /\ k \in [owner : Tasks \cup {Nobody}, waiting : Seq(Tasks)]
      BY <2>1
    <3> HIDE DEF e, k
    <3> QED
      BY <3>1, <3>2 DEF SessRec
  <2>4. /\ ss.num = "mine" /\ ~ss.pending /\ ~ss.nospace /\ ss.epoll = "none" /\ ~ss.set
        /\ ~ss.ctx /\ ss.reader = Nobody /\ ss.writer = Nobody /\ ~ss.enabled /\ ~ss.fd
        /\ ss.lock = NoQLock /\ ss.msgs = 0 /\ ss.closer = Nobody /\ ss.cond = <<>>
        /\ ss.deinit = <<>> /\ ss.sent = 0 /\ ss.inbuf = 0 /\ ss.out = 0
    BY <1>4 DEF NewSession
  <2> QED
    BY <2>1, <2>2, <2>3, <2>4 DEF Alone
<1>6. ASSUME On(x) PROVE Early(x, ss)
  <2>1. /\ Acc(x, x.running, {})
        /\ \A u \in Tasks : /\ x.pc[u] \in {"", "session"}
                            /\ x.st[u] = "live" => x.pc[u] = "session" /\ u = x.running
    BY <1>2, <1>6 DEF FirstRuns
  <2> QED
    BY <1>5, <2>1 DEF Early
<1> QED
  BY <1>1, <1>3, <1>6 DEF Serves

(* Every step keeps the invariant of the session, ... *)
LEMMA SessionStep == SessInv /\ [Next]_vars => SessInv'
<1> SUFFICES ASSUME SessInv, [Next]_vars
             PROVE  SessInv'
  OBVIOUS
<1>1. CASE UNCHANGED vars
  BY <1>1 DEF vars, SessInv
<1>2. CASE Next /\ prog = "session"
  <2>0. Serves(sch, ss)
    BY <1>2 DEF SessInv
  <2>1. ASSUME Client PROVE Serves(sch', ss')
    <3>1. On(sch) /\ sch' = sch /\ (Hello \/ Request \/ TakeAnswer \/ HangUp)
      BY <2>1 DEF Client
    <3> QED
      BY <2>0, <3>1, HelloStep, RequestStep, TakeAnswerStep, HangUpStep
  <2>2. ASSUME Rival PROVE Serves(sch', ss')
    <3>1. On(sch) /\ sch' = sch /\ (RivalTakes \/ RivalDrops \/ RivalRobs)
      BY <2>2 DEF Rival
    <3>2. Serves(sch, ss')
      BY <2>0, <3>1, RivalStep
    <3> QED
      BY <3>1, <3>2
  <2>3. ASSUME NEW t \in Tasks,
               \/ ReadHello(t) \/ task_new_session(t)
               \/ (aiotask(t) \/ AioYielded(t, ss.epoll = "closed")) /\ UNCHANGED ss
               \/ AioPolled(t)
               \/ rpc_recv_task(t) \/ _rpc_receive(t) \/ Reading(t)
               \/ rpc_response(t) \/ ResponseLocked(t) \/ ResponseWrite(t) \/ ResponseDone(t)
               \/ rpc_msg_handler(t) \/ CloseNumber(t) \/ Deregister(t)
               \/ rpc_chan_close(t) \/ rpc_conn_closed(t)
        PROVE  Serves(sch', ss')
    <3>1. CASE ReadHello(t)
      BY <2>0, <3>1, ReadHelloStep
    <3>2. CASE task_new_session(t)
      BY <2>0, <3>2, NewSessionStep
    <3>3. CASE aiotask(t) /\ UNCHANGED ss
      BY <2>0, <3>3, SessAio
    <3>4. CASE AioYielded(t, ss.epoll = "closed") /\ UNCHANGED ss
      BY <2>0, <3>4, SessAioYielded
    <3>5. CASE AioPolled(t)
      BY <2>0, <3>5, SessPolled
    <3>6. CASE rpc_recv_task(t)
      BY <2>0, <3>6, RecvStep
    <3>7. CASE _rpc_receive(t)
      BY <2>0, <3>7, ReceiveStep
    <3>8. CASE Reading(t)
      BY <2>0, <3>8, ReadingStep
    <3>9. CASE rpc_response(t)
      BY <2>0, <3>9, ResponseStep
    <3>10. CASE ResponseLocked(t)
      BY <2>0, <3>10, ResponseLockedStep
    <3>11. CASE ResponseWrite(t)
      BY <2>0, <3>11, ResponseWriteStep
    <3>12. CASE ResponseDone(t)
      BY <2>0, <3>12, ResponseDoneStep
    <3>13. CASE rpc_msg_handler(t)
      BY <2>0, <3>13, MsgHandlerStep
    <3>14. CASE CloseNumber(t)
      BY <2>0, <3>14, CloseNumberStep
    <3>15. CASE Deregister(t)
      BY <2>0, <3>15, DeregisterStep
    <3>16. CASE rpc_chan_close(t)
      BY <2>0, <3>16, ChanCloseStep
    <3>17. CASE rpc_conn_closed(t)
      BY <2>0, <3>17, ConnClosedStep
    <3> QED
      BY <2>3, <3>1, <3>2, <3>3, <3>4, <3>5, <3>6, <3>7, <3>8, <3>9, <3>10, <3>11, <3>12,
         <3>13, <3>14, <3>15, <3>16, <3>17
  <2>4. SessionNext /\ prog' = prog
    BY <1>2 DEF Next
  <2> QED
    BY <2>1, <2>2, <2>3, <2>4 DEF SessionNext, SessInv
<1>3. CASE Next /\ prog # "session"
  BY <1>3 DEF Next, SessInv
<1> QED
  BY <1>1, <1>2, <1>3

(* ... which therefore holds throughout. *)
THEOREM SessionInvariance == Spec => []SessInv
BY SessionInit, SessionStep, PTL DEF Spec

(* The list of who waits in a field. *)
LEMMA OneOf ==
  ASSUME NEW p \in Tasks \cup {Nobody}
  PROVE  /\ One(p) \in Seq(Tasks) /\ Distinct(One(p), Tasks)
         /\ \A t \in Tasks : InQueue(t, One(p)) <=> t = p
<1> DEFINE q == One(p)
<1>1. CASE p = Nobody
  <2>1. q = <<>>
    BY <1>1 DEF One
  <2> QED
    BY <1>1, <2>1, EmptyQueue, TaskNames
<1>2. CASE p \in Tasks
  <2>1. q = <<p>>
    BY <1>2, TaskNames DEF One
  <2> HIDE DEF q
  <2>2. q \in Seq(Tasks) /\ Len(q) = 1 /\ q[1] = p
    BY <1>2, <2>1
  <2>3. 1..Len(q) = {1}
    BY <2>2
  <2>4. q \in Seq(Tasks) /\ Distinct(q, Tasks) /\ \A t \in Tasks : InQueue(t, q) <=> t = p
    BY <2>2, <2>3 DEF Distinct, InQueue
  <2> QED
    BY <2>4 DEF q
<1> QED
  BY <1>1, <1>2

(* The lists of the session; no task is in two of them. *)
SessLists(r, w, k, c, d) ==
  /\ r \in Tasks \cup {Nobody} /\ w \in Tasks \cup {Nobody}
  /\ k \in Seq(Tasks) /\ c \in Seq(Tasks) /\ d \in Seq(Tasks)
  /\ Distinct(k, Tasks) /\ Distinct(c, Tasks) /\ Distinct(d, Tasks)
  /\ \A t \in Tasks :
       /\ t = r => t # w /\ ~InQueue(t, k) /\ ~InQueue(t, c) /\ ~InQueue(t, d)
       /\ t = w => ~InQueue(t, k) /\ ~InQueue(t, c) /\ ~InQueue(t, d)
       /\ InQueue(t, k) => ~InQueue(t, c) /\ ~InQueue(t, d)
       /\ InQueue(t, c) => ~InQueue(t, d)

(* Those who wait are in one of these lists. *)
LEMMA SessWaitIn ==
  ASSUME NEW r, NEW w, NEW k, NEW c, NEW d, SessLists(r, w, k, c, d), NEW W,
         W = {t \in Tasks : \/ t = r \/ t = w \/ InQueue(t, k)
                            \/ InQueue(t, c) \/ InQueue(t, d)}
  PROVE  WaitIn(<<One(r), One(w), k, c, d>>, W)
<1> DEFINE p == One(r)
           q == One(w)
           L == <<p, q, k, c, d>>
<1>1. /\ p \in Seq(Tasks) /\ Distinct(p, Tasks) /\ \A t \in Tasks : InQueue(t, p) <=> t = r
  BY OneOf DEF SessLists
<1>2. /\ q \in Seq(Tasks) /\ Distinct(q, Tasks) /\ \A t \in Tasks : InQueue(t, q) <=> t = w
  BY OneOf DEF SessLists
<1>3. /\ Len(L) = 5 /\ 1..Len(L) = {1, 2, 3, 4, 5}
      /\ L[1] = p /\ L[2] = q /\ L[3] = k /\ L[4] = c /\ L[5] = d
  OBVIOUS
<1> HIDE DEF L, p, q
<1>4. \A i \in 1..Len(L) : L[i] \in Seq(Tasks) /\ Distinct(L[i], Tasks)
  BY <1>1, <1>2, <1>3 DEF SessLists
<1>5. \A i \in 1..Len(L) : \A t : t \in SetOf(L[i]) <=> InQueue(t, L[i])
  BY <1>4, ListOf
<1>6. ASSUME NEW t \in Tasks
      PROVE  t \in W <=> \E i \in 1..Len(L) : t \in SetOf(L[i])
  BY <1>1, <1>2, <1>3, <1>5
<1>7. ASSUME NEW t \in Tasks, NEW i \in 1..Len(L), NEW j \in 1..Len(L),
             t \in SetOf(L[i]), t \in SetOf(L[j])
      PROVE  i = j
  <2>1. InQueue(t, L[i]) /\ InQueue(t, L[j])
    BY <1>5, <1>7
  <2> QED
    BY <1>1, <1>2, <1>3, <2>1 DEF SessLists
<1>8. WaitIn(L, W)
  BY <1>4, <1>6, <1>7 DEF WaitIn
<1> QED
  BY <1>8 DEF L, p, q

(* It is so with the lists of the session. *)
LEMMA SessListed ==
  ASSUME NEW pc, NEW st, NEW x, Hosted(pc, st, x)
  PROVE  SessLists(x.reader, x.writer, x.lock.waiting, x.cond, x.deinit)
<1>1. x \in SessRec /\ Distinct(x.lock.waiting, Tasks) /\ Distinct(x.deinit, Tasks)
  BY DEF Hosted, Listed
<1>2. Distinct(x.cond, Tasks)
  <2> DEFINE q == x.cond
  <2>1. PICK d \in Tasks : q = <<d>>
    BY DEF Hosted, Listed
  <2> HIDE DEF q
  <2>2. Len(q) = 1
    BY <2>1
  <2>3. 1..Len(q) = {1}
    BY <2>2
  <2>4. Distinct(q, Tasks)
    BY <2>3 DEF Distinct
  <2> QED
    BY <2>4 DEF q
<1>3. /\ x.reader \in Tasks \cup {Nobody} /\ x.writer \in Tasks \cup {Nobody}
      /\ x.lock.waiting \in Seq(Tasks) /\ x.cond \in Seq(Tasks) /\ x.deinit \in Seq(Tasks)
  BY <1>1, SessFields
<1>4. \A t \in Tasks : /\ t = x.reader => pc[t] = "reading"
                       /\ t = x.writer => pc[t] = "writing"
                       /\ InQueue(t, x.lock.waiting) => pc[t] = "locked"
                       /\ InQueue(t, x.cond) => pc[t] = "done"
                       /\ InQueue(t, x.deinit) => pc[t] = "drained"
  BY DEF Hosted, AllAt, SessAt
<1> QED
  BY <1>1, <1>2, <1>3, <1>4 DEF SessLists

(* No task of the session is lost or queued twice. *)
THEOREM SessionTasksAccounted == Spec => [](prog = "session" => TasksAccounted)
<1>1. SessInv => (prog = "session" => TasksAccounted)
  <2> SUFFICES ASSUME SessInv, prog = "session", On(sch)
               PROVE  OnePlace(Waits) /\ Counted
    BY DEF TasksAccounted
  <2> DEFINE r == ss.reader
             w == ss.writer
             k == ss.lock.waiting
             c == ss.cond
             d == ss.deinit
             W == SessWaiting(ss)
  <2>1. Waits = <<One(r), One(w), k, c, d>>
    BY DEF Waits, SessionWaits
  <2>2. SessLists(r, w, k, c, d) /\ Acc(sch, sch.running, W)
    <3>1. CASE Early(sch, ss)
      <4>1. r = Nobody /\ w = Nobody /\ k = <<>> /\ c = <<>> /\ d = <<>>
        BY <3>1 DEF Early, Alone
      <4>2. W = {}
        BY <4>1, EmptyQueue, TaskNames DEF SessWaiting
      <4>3. SessLists(Nobody, Nobody, <<>>, <<>>, <<>>)
        <5>1. <<>> \in Seq(Tasks)
          OBVIOUS
        <5> QED
          BY <5>1, EmptyQueue, TaskNames DEF SessLists
      <4> QED
        BY <3>1, <4>1, <4>2, <4>3 DEF Early
    <3>2. CASE InSession(sch, ss)
      BY <3>2, SessListed DEF InSession
    <3> QED
      BY <3>1, <3>2 DEF SessInv, Serves
  <2>3. W = {t \in Tasks : \/ t = r \/ t = w \/ InQueue(t, k)
                           \/ InQueue(t, c) \/ InQueue(t, d)}
    BY DEF SessWaiting
  <2> HIDE DEF r, w, k, c, d, W
  <2>4. WaitIn(<<One(r), One(w), k, c, d>>, W)
    BY <2>2, <2>3, SessWaitIn
  <2> QED
    BY <2>1, <2>2, <2>4, InPlaces
<1> QED
  BY <1>1, SessionInvariance, PTL

(* The thread sleeps only when the client is served and what is gone is    *)
(* wound up.                                                               *)
THEOREM SessionWaitersBlocked == Spec => [](prog = "session" => WaitersBlocked)
<1>1. SessInv => (prog = "session" => WaitersBlocked)
  <2> SUFFICES ASSUME SessInv, prog = "session", On(sch)
               PROVE  SessionServed
    BY DEF WaitersBlocked
  <2>1. CASE Early(sch, ss)
    <3>1. ss.lock.waiting = <<>> /\ ss.deinit = <<>>
      BY <2>1 DEF Early, Alone
    <3>2. ~Polling
      <4>1. sch.running \in Tasks \cup {Nobody}
        BY <2>1, SchedFields DEF Early, Acc
      <4> QED
        BY <2>1, <4>1 DEF Polling, Early
    <3> QED
      BY <3>1, <3>2 DEF SessionServed
  <2>2. CASE InSession(sch, ss)
    <3>1. /\ ss \in SessRec /\ Conn(ss) /\ Edge(ss)
          /\ Held(sch.pc, ss.lock, ss.closer) /\ sch \in Thread
      BY <2>2 DEF InSession, Hosted, Listed, Acc
    <3>2. /\ ss.lock.waiting # <<>> => ss.lock.owner # Nobody
          /\ ss.deinit # <<>> => ss.msgs > 0
      BY <3>1 DEF Held, Conn
    <3>3. ASSUME Polling, ~(ss.pending /\ Events(ss) # {})
          PROVE  IF ss.num = "mine"
                 THEN /\ ss.reader # Nobody /\ ss.inbuf = 0 /\ ss.peer = "open"
                      /\ ss.writer # Nobody => ss.out = Cap
                 ELSE ss.robbed \/ (ss.ctx /\ {ss.reader, ss.writer} # {Nobody})
      <4> DEFINE t == sch.running
      <4>1. t \in Tasks /\ sch.pc[t] = "poll"
        BY <3>1, <3>3, SchedFields DEF Polling
      <4> HIDE DEF t
      <4>2. t = sch.running
        BY DEF t
      <4>3. ss.reader # Nobody \/ ss.writer # Nobody
        BY <2>2, <4>1, <4>2, SomebodyPolls
      <4>4. ss.enabled => ss.reader # Nobody
        BY <2>2, <4>1, <4>2, ReceiverReads
      <4>5. CASE ss.num = "mine"
        <5>1. /\ ss.inbuf > 0 \/ ss.peer = "closed" => Events(ss) # {}
              /\ ss.out < Cap \/ ss.peer = "closed" => Events(ss) # {}
          BY DEF Events
        <5>2. ss.peer # "closed"
          BY <3>1, <3>3, <4>3, <4>5, <5>1 DEF Edge
        <5>3. ss.peer = "open" /\ ss.reader # Nobody
          BY <3>1, <4>4, <4>5, <5>2, SessFields DEF Conn
        <5>4. ~(ss.inbuf > 0)
          BY <3>1, <3>3, <4>5, <5>1, <5>3 DEF Edge
        <5>5. ss.inbuf = 0
          BY <3>1, <5>4, SessFields
        <5>6. ss.writer # Nobody => ~(ss.out < Cap)
          BY <3>1, <3>3, <4>5, <5>1 DEF Edge
        <5>7. ss.out <= Cap /\ ss.out \in Nat /\ Cap \in Nat
          BY <2>2, <3>1, SessFields, Bounds DEF InSession, Hosted, Listed
        <5>8. ss.writer # Nobody => ss.out = Cap
          BY ONLY <5>6, <5>7
        <5> QED
          BY <4>5, <5>3, <5>5, <5>8
      <4>6. CASE ss.num # "mine"
        BY <3>1, <4>3, <4>6 DEF Conn
      <4> QED
        BY <4>5, <4>6
    <3> QED
      BY <3>2, <3>3 DEF SessionServed
  <2> QED
    BY <2>1, <2>2 DEF SessInv, Serves
<1> QED
  BY <1>1, SessionInvariance, PTL

(* A session aborts the process only for the causes named. *)
THEOREM SessionAbortsExplained == Spec => [](prog = "session" => AbortsExplained)
<1>1. SessInv => (prog = "session" => AbortsExplained)
  BY DEF SessInv, Serves, Blamed, AbortsExplained, SessionAborts
<1> QED
  BY <1>1, SessionInvariance, PTL

(***************************************************************************)
(* Whichever program the thread runs.                                      *)
(***************************************************************************)
LEMMA OneProgram == Spec => [](prog \in {"session", "locks", "channels", "timer"})
<1> DEFINE P == prog \in {"session", "locks", "channels", "timer"}
<1>1. Init => P
  BY DEF Init, First
<1>2. P /\ [Next]_vars => P'
  BY DEF Next, vars
<1> QED
  BY <1>1, <1>2, PTL DEF Spec

(* No task of a thread is lost or queued twice, and taskcount is right. *)
THEOREM AllTasksAccounted == Spec => []TasksAccounted
<1>1. /\ prog \in {"session", "locks", "channels", "timer"}
      /\ prog = "locks" => TasksAccounted
      /\ prog = "channels" => TasksAccounted
      /\ prog = "timer" => TasksAccounted
      /\ prog = "session" => TasksAccounted
      => TasksAccounted
  OBVIOUS
<1> QED
  BY <1>1, OneProgram, LockTasksAccounted, ChannelTasksAccounted, TimerTasksAccounted,
     SessionTasksAccounted, PTL

(* Nobody waits for what is to be had. *)
THEOREM AllWaitersBlocked == Spec => []WaitersBlocked
<1>1. /\ prog \in {"session", "locks", "channels", "timer"}
      /\ prog = "locks" => WaitersBlocked
      /\ prog = "channels" => WaitersBlocked
      /\ prog = "timer" => WaitersBlocked
      /\ prog = "session" => WaitersBlocked
      => WaitersBlocked
  OBVIOUS
<1> QED
  BY <1>1, OneProgram, LockWaitersBlocked, ChannelWaitersBlocked, TimerWaitersBlocked,
     SessionWaitersBlocked, PTL

(* The asserts hold, and the process aborts only for the causes named. *)
THEOREM AllAbortsExplained == Spec => []AbortsExplained
<1>1. /\ prog \in {"session", "locks", "channels", "timer"}
      /\ prog = "locks" => AbortsExplained
      /\ prog = "channels" => AbortsExplained
      /\ prog = "timer" => AbortsExplained
      /\ prog = "session" => AbortsExplained
      => AbortsExplained
  OBVIOUS
<1> QED
  BY <1>1, OneProgram, LockAbortsExplained, ChannelAbortsExplained, TimerAbortsExplained,
     SessionAbortsExplained, PTL
=============================================================================
