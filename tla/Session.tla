------------------------------ MODULE Session -------------------------------
(***************************************************************************)
(* A session thread of the iosplitter server: task_new_session and the     *)
(* tasks it starts, aiotask (taskio.c), rpc_recv_task, a handler for each  *)
(* request and the handler of the CONNCLOSED message (rpc.c,               *)
(* iosplitter.c), on the scheduler of module Task, the locks of module     *)
(* TaskLocks and the waits of module TaskIo.                               *)
(*                                                                         *)
(* The client is external: it says hello, sends requests, takes the        *)
(* answers and hangs up when it likes.  The other threads of the process   *)
(* are the rival.  They share the table of descriptors: a number that is   *)
(* closed may be given to the next connection at once, and a rival between *)
(* the two close() of its own rpc_chan_close closes the number that it     *)
(* has just given up and we were given (window).  Where this thread would  *)
(* read from or write to a rival's connection the model stops, aborted.    *)
(*                                                                         *)
(* A message is one unit on the wire: module Rpc has its fragments.        *)
(***************************************************************************)
EXTENDS TaskIo

CONSTANTS
  MaxReq,     \* bound: requests of the client
  Cap         \* answers that the socket holds

ASSUME SessionAssumption ==
  /\ MaxReq \in Nat /\ Cap \in Nat \ {0}
  /\ MaxTask >= MaxReq + 4     \* a session has four tasks beside the handlers

VARIABLE ss

SessionState ==
  [num     : {"mine", "free", "rival"},      \* whose the number t->fd is
   window  : BOOLEAN,
   robbed  : BOOLEAN,                        \* a rival has closed our number
   harm    : BOOLEAN,                        \* we have closed a rival's
   peer    : {"new", "open", "closed"},      \* the client, with or without hello
   sent    : 0..MaxReq, inbuf : 0..MaxReq, out : 0..Cap,
   pending : BOOLEAN,                        \* on the ready list of epoll
   nospace : BOOLEAN,                        \* a write found the socket full
   epoll   : {"none", "on", "closed"},       \* taskio_epollfd
   set     : BOOLEAN,                        \* our socket is in the epoll set
   ctx     : BOOLEAN,                        \* TCarray[t->fd] is not NULL
   reader  : Tasks \cup {Nobody}, writer : Tasks \cup {Nobody},
   enabled : BOOLEAN,                        \* rcp->enabled
   fd      : BOOLEAN,                        \* rcp->infd = rcp->outfd = t->fd, or -1
   lock    : [owner : Tasks \cup {Nobody}, waiting : Seq(Tasks)],
   msgs    : 0..(MaxReq + 1),                \* rcp->msgpool.issued
   closer  : Tasks \cup {Nobody},            \* the handler of CONNCLOSED
   cond    : Seq(Tasks), deinit : Seq(Tasks)]

NewSession(window) ==
  [num |-> "mine", window |-> window, robbed |-> FALSE, harm |-> FALSE,
   peer |-> "new", sent |-> 0, inbuf |-> 0, out |-> 0, pending |-> FALSE,
   nospace |-> FALSE, epoll |-> "none", set |-> FALSE, ctx |-> FALSE,
   reader |-> Nobody, writer |-> Nobody, enabled |-> FALSE, fd |-> FALSE,
   lock |-> NoQLock, msgs |-> 0, closer |-> Nobody, cond |-> <<>>, deinit |-> <<>>]

(* close() of the number by anybody: the last reference to our socket goes *)
(* and takes it out of the epoll set                                       *)
Shut(x) ==
  [x EXCEPT !.num = "free", !.set = FALSE, !.pending = FALSE,
            !.harm = @ \/ x.num = "rival"]
-----------------------------------------------------------------------------
(* the client *)
Wake(x) == [x EXCEPT !.pending = x.set]

Connected == ss.num = "mine" /\ ss.peer # "closed"

Hello == Connected /\ ss.peer = "new" /\ ss' = [ss EXCEPT !.peer = "open"]

Request ==
  /\ Connected /\ ss.peer = "open" /\ ss.sent < MaxReq
  /\ ss' = Wake([ss EXCEPT !.sent = @ + 1, !.inbuf = @ + 1])

TakeAnswer ==
  /\ Connected /\ ss.out > 0
  /\ LET x == [ss EXCEPT !.out = @ - 1, !.nospace = FALSE]
     IN  ss' = IF ss.nospace THEN Wake(x) ELSE x

HangUp == Connected /\ ss' = Wake([ss EXCEPT !.peer = "closed"])

Client == (Hello \/ Request \/ TakeAnswer \/ HangUp) /\ On(sch) /\ UNCHANGED sch

(* the other threads: accept(), close(), and the close of the window *)
RivalTakes == ss.num = "free" /\ ss' = [ss EXCEPT !.num = "rival"]
RivalDrops == ss.num = "rival" /\ ss' = [ss EXCEPT !.num = "free"]
RivalRobs ==
  /\ ss.window /\ ss.num = "mine"
  /\ ss' = [Shut(ss) EXCEPT !.window = FALSE, !.robbed = TRUE]

Rival == (RivalTakes \/ RivalDrops \/ RivalRobs) /\ On(sch) /\ UNCHANGED sch
-----------------------------------------------------------------------------
Step(s, x) == sch' = s /\ ss' = x

(* task_new_session up to taskio_init: a blocking read of the hello *)
ReadHello(t) ==
  /\ At(t, "session")
  /\ ss.num = "mine" => ss.peer # "new"
  /\ Step(CASE ss.num = "mine" /\ ss.peer = "open" -> Goto(sch, t, "init")
            [] ss.num = "rival" -> Abort(sch, "foreign")
            [] ss.num = "free" \/ (ss.num = "mine" /\ ss.peer = "closed") ->
                 Abort(sch, "hello"),
          ss)

(* the poller of the thread, and its end; the event descriptor for libaio  *)
(* that comes with it is never used                                        *)
taskio_init(x)   == [x EXCEPT !.epoll = "on"]
taskio_deinit(x) == [x EXCEPT !.epoll = "closed"]

(* edge-triggered: what is ready when the socket joins the set is reported *)
task_sockfd_register(x) == [x EXCEPT !.ctx = TRUE, !.set = TRUE, !.pending = TRUE]

(* the channel, with rpc_recv_task, which is started with it *)
rpc_chan_init(x) == [x EXCEPT !.enabled = TRUE, !.fd = TRUE]

(* the rest of task_new_session, up to the sleep on t->cond *)
task_new_session(t) ==
  LET s == taskcreate(taskio_start(sch), "recv", TRUE)
      x == rpc_chan_init(task_sockfd_register(taskio_init(ss)))
  IN  /\ At(t, "init")
      /\ CASE ss.num = "mine" ->
                Step(taskswitch(s, t, "done"), [x EXCEPT !.cond = Append(@, t)])
           [] ss.num = "free" -> Step(Abort(sch, "register"), ss)
           [] ss.num = "rival" -> Step(Abort(sch, "foreign"), ss)
-----------------------------------------------------------------------------
(* what epoll reports of our socket now *)
Events(x) ==
  (IF x.inbuf > 0 THEN {"in"} ELSE {})
    \cup (IF x.out < Cap THEN {"out"} ELSE {})
    \cup (IF x.peer = "closed" THEN {"in", "hup"} ELSE {})

(* epoll_wait returns: the thread sleeps in it as long as nothing is ready *)
AioPolled(t) ==
  /\ At(t, "poll") /\ ss.pending /\ Events(ss) # {}
  /\ Step(AioYield(sockio_done(sch, ss, Events(ss)), t),
          [Served(ss, Events(ss)) EXCEPT !.pending = FALSE])
-----------------------------------------------------------------------------
(* rpc_recv_task ends: CONNCLOSED, a handler for it, taskexit *)
RecvFails(s, x, t) ==
  Step(taskexit(taskcreate(s, "closed", TRUE), t), [x EXCEPT !.enabled = FALSE])

(* the read loop of task_netrw for rpc_recv_task, which has message x.msgs *)
Read(s, x, t) ==
  CASE x.num = "rival" -> Step(Abort(s, "foreign"), x)
    [] x.num = "free" -> RecvFails(s, x, t)
    [] x.num = "mine" /\ x.inbuf > 0 ->
         Step(taskcreate(Goto(s, t, "receive"), "handler", TRUE),
              [x EXCEPT !.inbuf = @ - 1])
    [] x.num = "mine" /\ x.inbuf = 0 /\ x.peer = "closed" -> RecvFails(s, x, t)
    [] x.num = "mine" /\ x.inbuf = 0 /\ x.peer # "closed" ->
         IF x.reader # Nobody THEN Step(Abort(s, "reader"), x)
         ELSE Step(taskswitch(s, t, "reading"), [x EXCEPT !.reader = t])

rpc_recv_task(t) ==
  /\ At(t, "recv")
  /\ Step(Goto(tasksystem(sch, t), t, "receive"), ss)

(* _rpc_receive: a message buffer, and the lookups before the read *)
_rpc_receive(t) ==
  LET x == [ss EXCEPT !.msgs = @ + 1]
  IN  /\ At(t, "receive")
      /\ IF ~ss.enabled \/ ~ss.fd \/ ~ss.ctx THEN RecvFails(sch, x, t)
         ELSE Read(sch, x, t)

(* woken by sockio_done or by task_fd_deregister *)
Reading(t) == At(t, "reading") /\ Read(sch, ss, t)
-----------------------------------------------------------------------------
(* ssd_read, after which rpc_msg_handler asserts that it has not failed *)
DeviceFails == Step(Abort(sch, "device"), ss)

(* rpc_msg_handler of a request, and rpc_response up to the lock *)
rpc_response(t) ==
  /\ At(t, "handler")
  /\ \/ DeviceFails
     \/ ~ss.enabled /\ Step(Goto(sch, t, "unlock"), ss)
     \/ /\ ss.enabled /\ ss.lock.owner = Nobody
        /\ Step(Goto(sch, t, "write"), [ss EXCEPT !.lock = Lock(@, t)])
     \/ /\ ss.enabled /\ ss.lock.owner # Nobody
        /\ Step(taskswitch(sch, t, "locked"), [ss EXCEPT !.lock = Lock(@, t)])

ResponseLocked(t) ==
  /\ At(t, "locked")
  /\ Step(IF ss.lock.owner # t THEN Abort(sch, "qlock") ELSE Goto(sch, t, "write"), ss)

(* the write loop of task_netrw.  A write to a client that has hung up     *)
(* may still succeed, or fails, or raises SIGPIPE, which nobody handles.   *)
Write(t) ==
  CASE ss.num = "rival" -> Step(Abort(sch, "foreign"), ss)
    [] ss.num = "free" -> Step(Goto(sch, t, "close in"), ss)
    [] ss.num = "mine" /\ ss.peer = "closed" ->
         \/ Step(Goto(sch, t, "unlock"), ss)
         \/ Step(Goto(sch, t, "close in"), ss)
         \/ Step(Abort(sch, "sigpipe"), ss)
    [] ss.num = "mine" /\ ss.peer # "closed" /\ ss.out < Cap ->
         Step(Goto(sch, t, "unlock"), [ss EXCEPT !.out = @ + 1])
    [] ss.num = "mine" /\ ss.peer # "closed" /\ ss.out = Cap ->
         IF ss.writer # Nobody THEN Step(Abort(sch, "writer"), ss)
         ELSE Step(taskswitch(sch, t, "writing"),
                   [ss EXCEPT !.writer = t, !.nospace = TRUE])

ResponseWrite(t) ==
  \/ /\ At(t, "write")
     /\ IF ss.fd /\ ss.ctx THEN Write(t) ELSE Step(Goto(sch, t, "close in"), ss)
  \/ At(t, "writing") /\ Write(t)

(* rpc_msg_put: the last one wakes a waiting bufpool_deinit *)
MsgPut(s, x) ==
  IF x.msgs = 1
  THEN <<ReadyAll(s, x.deinit), [x EXCEPT !.msgs = 0, !.deinit = <<>>]>>
  ELSE <<s, [x EXCEPT !.msgs = @ - 1]>>

(* done: of rpc_response, also for a handler that never took the lock *)
ResponseDone(t) ==
  LET put == MsgPut(AfterUnlock(sch, ss.lock), [ss EXCEPT !.lock = Unlock(@)])
  IN  /\ At(t, "unlock")
      /\ Step(taskexit(put[1], t), put[2])
-----------------------------------------------------------------------------
(* rpc_chan_close, called by a handler whose write failed and by the       *)
(* handler of CONNCLOSED: infd and outfd are the same number, tested and   *)
(* closed twice                                                            *)
CloseNumber(t) ==
  \E l \in {"close in", "close out"} :
    /\ At(t, l)
    /\ LET x == [ss EXCEPT !.enabled = FALSE]
       IN  Step(Goto(sch, t, IF l = "close in" THEN "close out" ELSE "dereg in"),
                IF x.fd /\ x.num # "free" THEN Shut(x) ELSE x)

(* task_fd_deregister refuses a number that is open, ours or not *)
Deregister(t) ==
  \E l \in {"dereg in", "dereg out"} :
    LET next == IF l = "dereg in" THEN "dereg out" ELSE "close end"
    IN  /\ At(t, l)
        /\ IF ss.fd /\ ss.ctx /\ ss.num = "free"
           THEN Step(task_fd_deregister(sch, ss, t, next), Forgotten(ss))
           ELSE Step(Goto(sch, t, next), ss)

(* a handler goes on to done:, the handler of CONNCLOSED to the deinit     *)
rpc_chan_close(t) ==
  /\ At(t, "close end")
  /\ Step(Goto(sch, t, IF ss.closer = t THEN "deinit" ELSE "unlock"),
          [ss EXCEPT !.fd = FALSE])

rpc_msg_handler(t) ==
  LET put == MsgPut(sch, [ss EXCEPT !.closer = t])
  IN  /\ At(t, "closed")
      /\ Step(Goto(put[1], t, "close in"), put[2])

(* rpc_chan_deinit waits for the messages of the other handlers, then      *)
(* taskio_deinit                                                           *)
rpc_conn_closed(t) ==
  \/ /\ At(t, "deinit") /\ ss.msgs # 0
     /\ Step(taskswitch(sch, t, "drained"), [ss EXCEPT !.deinit = Append(@, t)])
  \/ /\ At(t, "deinit") /\ ss.msgs = 0
     /\ Step(taskexit(sch, t), taskio_deinit(ss))
  \/ /\ At(t, "drained")
     /\ IF ss.msgs # 0 THEN Step(Abort(sch, "bufpool_deinit"), ss)
        ELSE Step(taskexit(sch, t), taskio_deinit(ss))

SessionNext ==
  \/ Client \/ Rival
  \/ \E t \in Tasks :
       \/ ReadHello(t) \/ task_new_session(t)
       \/ (aiotask(t) \/ AioYielded(t, ss.epoll = "closed")) /\ UNCHANGED ss
       \/ AioPolled(t)
       \/ rpc_recv_task(t) \/ _rpc_receive(t) \/ Reading(t)
       \/ rpc_response(t) \/ ResponseLocked(t) \/ ResponseWrite(t) \/ ResponseDone(t)
       \/ rpc_msg_handler(t) \/ CloseNumber(t) \/ Deregister(t)
       \/ rpc_chan_close(t) \/ rpc_conn_closed(t)
-----------------------------------------------------------------------------
SessionWaits ==
  <<One(ss.reader), One(ss.writer), ss.lock.waiting, ss.cond, ss.deinit>>

(* When the thread sleeps in epoll_wait, a client that is connected has    *)
(* had all its requests read and its answers written as far as there is    *)
(* room, and a connection that is gone has been wound up; but the thread   *)
(* sleeps for ever when a rival has closed its number, or was given it     *)
(* before task_fd_deregister asked.  Nobody waits for a free lock or for   *)
(* messages that have been put.                                            *)
SessionServed ==
  /\ ss.lock.waiting # <<>> => ss.lock.owner # Nobody
  /\ ss.deinit # <<>> => ss.msgs > 0
  /\ Polling /\ ~(ss.pending /\ Events(ss) # {}) =>
       IF ss.num = "mine"
       THEN /\ ss.reader # Nobody /\ ss.inbuf = 0 /\ ss.peer = "open"
            /\ ss.writer # Nobody => ss.out = Cap
       ELSE ss.robbed \/ (ss.ctx /\ {ss.reader, ss.writer} # {Nobody})

(* why a session can abort the process: a handler that never took the lock *)
(* may find it free, or take it from the task it was just handed to; the   *)
(* device may fail a read                                                  *)
SessionAborts ==
  CASE sch.why \in {"hello", "sigpipe"} -> ss.peer = "closed" \/ ss.robbed
    [] sch.why = "register" -> ss.robbed
    [] sch.why = "foreign" -> ss.robbed \/ ~ss.enabled
    [] sch.why \in {"qlock", "qunlock"} -> ~ss.enabled
    [] sch.why = "device" -> TRUE
    [] OTHER -> FALSE
=============================================================================
