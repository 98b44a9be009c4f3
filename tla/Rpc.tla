-------------------------------- MODULE Rpc ---------------------------------
(***************************************************************************)
(* An RPC connection of the iosplitter: rpc/rpc.c with the two programs    *)
(* that use it, the requesting tasks of client.c and the request handler   *)
(* of iosplitter.c.                                                        *)
(*                                                                         *)
(* The two processes run in parallel.  Inside one, tasks are libtask       *)
(* coroutines: a step is the code from one suspension point to the next    *)
(* (qlock, a read or write that would block, tasksleep).  A task_netwrite  *)
(* may block at any fragment, so that other tasks run between the header   *)
(* and the payload of a message.  The buffer pools are the counters that   *)
(* module BufPool shows them to be: a blocking get waits while issued is   *)
(* at its maximum.  A failed assert or abort() ends the process, and the   *)
(* kernel then closes its socket.                                          *)
(***************************************************************************)
EXTENDS Naturals, Sequences, FiniteSets

CONSTANTS
  Requester,  \* the client's tasks
  NoTask,     \* nil, as the owner of a lock
  NoMsg,      \* no message
  Kind,       \* the requests made: a subset of {"open", "read", "write"}
  MaxSeq,     \* bound: the requests made in all
  Cap,        \* bound: fragments a socket buffers in one direction
  MsgMax,     \* nmax of the message pool, by side
  DataMax,    \* nmax of the data pool, by side
  MaxLoss,    \* bound: 1 if the connection may break, 0 if not
  MaxErr      \* bound: the reads and writes that the server's device fails

Side  == {"client", "server"}
SeqId == 1..MaxSeq

(* a handler task is named by the seqid of the request it serves *)
Task    == Requester \cup SeqId
Home(t) == IF t \in Requester THEN "client" ELSE "server"
Peer(s) == IF s = "client" THEN "server" ELSE "client"

ASSUME KindAssumption == Kind \subseteq {"open", "read", "write"}
ASSUME BoundAssumption ==
  MaxSeq \in Nat /\ Cap \in Nat \ {0} /\ MaxLoss \in {0, 1} /\ MaxErr \in Nat
ASSUME PoolAssumption == MsgMax \in [Side -> Nat] /\ DataMax \in [Side -> Nat]
ASSUME NameAssumption ==
  /\ IsFiniteSet(Requester) /\ Requester \cap SeqId = {} /\ NoTask \notin Task
  /\ NoMsg \notin [seq : 0..MaxSeq, kind : Kind, req : BOOLEAN]

(* rpc_chan_init makes the message pool for 3 * (nway + 1) messages, and   *)
(* the client has fewer than nway tasks: each of them has a request and a  *)
(* response at most, the receiver one more                                 *)
ASSUME SizeAssumption ==
  /\ MsgMax["client"] > 2 * Cardinality(Requester)
  /\ MsgMax["server"] > Cardinality(Requester)

VARIABLES
  pc,        \* where a task is
  msg,       \* the message a task works on: its seqid, kind and direction
  resp,      \* msgp->resp of a requester
  seqid,     \* rcp->seqid of the client
  hash,      \* the seqids in the client's rcp->hash
  served,    \* the requests the server has a response to
  wire,      \* wire[s]: the fragments that side s has still to read
  up,        \* the connection is established
  fd,        \* fd[s]: rcp->infd and outfd are open
  enabled,   \* rcp->enabled
  owner,     \* rcp->fdlock.owner
  waiting,   \* rcp->fdlock.waiting
  msgs,      \* rcp->msgpool.issued
  bufs,      \* rcp->datapool.issued
  recv,      \* where rpc_recv_task is
  cur,       \* the header rpc_recv_task has read
  closer,    \* where the handler of the CONNCLOSED message is
  proc,      \* the process: running, exited or aborted
  losses,    \* how often the connection broke
  failed     \* the requests the server's device has failed

taskVars == <<pc, msg, resp, seqid, hash, served>>
lockVars == <<owner, waiting>>
poolVars == <<msgs, bufs>>
recvVars == <<recv, cur, closer>>
faultVars == <<losses, failed>>
vars == <<taskVars, wire, up, fd, enabled, lockVars, poolVars, recvVars, proc, faultVars>>

Message == [seq : SeqId, kind : Kind, req : BOOLEAN]

(* a read returns data, a write carries them *)
HasPayload(m) == m.kind = IF m.req THEN "write" ELSE "read"
One(b) == IF b THEN 1 ELSE 0

Init ==
  /\ pc      = [t \in Task |-> IF t \in Requester THEN "idle" ELSE "none"]
  /\ msg     = [t \in Task |-> NoMsg]
  /\ resp    = [c \in Requester |-> NoMsg]
  /\ seqid   = 1
  /\ hash    = {}
  /\ served  = {}
  /\ wire    = [s \in Side |-> <<>>]
  /\ up      = TRUE
  /\ fd      = [s \in Side |-> TRUE]
  /\ enabled = [s \in Side |-> TRUE]
  /\ owner   = [s \in Side |-> NoTask]
  /\ waiting = [s \in Side |-> <<>>]
  /\ msgs    = [s \in Side |-> 1]
  /\ bufs    = [s \in Side |-> 0]
  /\ recv    = [s \in Side |-> "hdr"]
  /\ cur     = [s \in Side |-> NoMsg]
  /\ closer  = [s \in Side |-> "none"]
  /\ proc    = [s \in Side |-> "run"]
  /\ losses  = 0
  /\ failed  = {}
-----------------------------------------------------------------------------
(* assert(ok) in side s: if it fails, what else the step does is lost *)
Assert(s, ok) ==
  /\ proc' = [proc EXCEPT ![s] = IF ok THEN @ ELSE "abort"]
  /\ up'   = (up /\ ok)

(* qlock: taken at once, or wait at the tail *)
qlock(s, t) ==
  IF owner[s] = NoTask
  THEN owner' = [owner EXCEPT ![s] = t] /\ UNCHANGED waiting
  ELSE waiting' = [waiting EXCEPT ![s] = Append(@, t)] /\ UNCHANGED owner

AfterLock(s) == IF owner[s] = NoTask THEN "hdr" ELSE "lock"

(* fault: the lock is freed and its waiters are left asleep *)
qunlock_free(s) ==
  owner' = [owner EXCEPT ![s] = NoTask] /\ UNCHANGED waiting

(* qunlock hands the lock to the oldest waiter; it aborts without an owner *)
qunlock(s) ==
  /\ owner'   = [owner EXCEPT ![s] = IF waiting[s] = <<>> THEN NoTask
                                     ELSE Head(waiting[s])]
  /\ waiting' = [waiting EXCEPT ![s] = IF @ = <<>> THEN @ ELSE Tail(@)]

rpc_chan_close(s) ==
  /\ enabled' = [enabled EXCEPT ![s] = FALSE]
  /\ fd'      = [fd EXCEPT ![s] = FALSE]
  /\ up'      = FALSE
-----------------------------------------------------------------------------
(* do_write, do_read and send_open up to rpc_msg_get: rpc_databuf_get for  *)
(* the payload of a write                                                  *)
rpc_databuf_get(c, k) ==
  LET n == One(k = "write")
  IN  /\ proc["client"] = "run"
      /\ pc[c] = "idle"
      /\ seqid + Cardinality({d \in Requester : pc[d] = "msg"}) <= MaxSeq
      /\ bufs["client"] + n <= DataMax["client"]
      /\ bufs' = [bufs EXCEPT !["client"] = @ + n]
      /\ pc'   = [pc EXCEPT ![c] = "msg"]
      /\ msg'  = [msg EXCEPT ![c] = [seq |-> 0, kind |-> k, req |-> TRUE]]
      /\ UNCHANGED <<resp, seqid, hash, served, wire, up, fd, enabled, lockVars,
                     msgs, recvVars, proc, faultVars>>

rpc_msg_get(c) ==
  /\ msgs["client"] < MsgMax["client"]
  /\ msgs'  = [msgs EXCEPT !["client"] = @ + 1]
  /\ msg'   = [msg EXCEPT ![c].seq = seqid]
  /\ seqid' = seqid + 1

hash_add(n) == hash' = hash \cup {n}
hash_rem(n) == hash' = hash \ {n}

(* the request a response belongs to: seqid_cmp of the entries in the table *)
hash_lookup(n) == {c \in Requester : n \in hash /\ msg[c] # NoMsg /\ msg[c].seq = n}

(* fault: the request is sent without entering the hash table *)
rpc_request_unhashed(c) ==
  /\ proc["client"] = "run"
  /\ pc[c] = "msg"
  /\ rpc_msg_get(c)
  /\ pc'    = [pc EXCEPT ![c] = AfterLock("client")]
  /\ qlock("client", c)
  /\ Assert("client", enabled["client"])
  /\ UNCHANGED <<resp, hash, served, wire, fd, enabled, bufs, recvVars, faultVars>>

(***************************************************************************)
(* rpc_msg_get and rpc_request, up to the lock.  When the channel is not   *)
(* enabled rpc_request fails (or, in a pool being torn down, rpc_msg_get   *)
(* does), and the client's tasks assert that it does not.                  *)
(***************************************************************************)
rpc_request(c) ==
  /\ proc["client"] = "run"
  /\ pc[c] = "msg"
  /\ rpc_msg_get(c)
  /\ hash_add(seqid)
  /\ pc'    = [pc EXCEPT ![c] = AfterLock("client")]
  /\ qlock("client", c)
  /\ Assert("client", enabled["client"])
  /\ UNCHANGED <<resp, served, wire, fd, enabled, bufs, recvVars, faultVars>>

(* a waiter resumes in _qlock, which aborts if it was not made the owner *)
qlock_wakeup(t) ==
  LET s == Home(t)
  IN  /\ proc[s] = "run"
      /\ pc[t] = "lock"
      /\ \A i \in 1..Len(waiting[s]) : waiting[s][i] # t
      /\ pc' = [pc EXCEPT ![t] = "hdr"]
      /\ Assert(s, owner[s] = t)
      /\ UNCHANGED <<msg, resp, seqid, hash, served, wire, fd, enabled, lockVars,
                     poolVars, recvVars, faultVars>>

(***************************************************************************)
(* The sending half of rpc_request and rpc_response: task_netwrite of the  *)
(* header, then of the payload.  A write on a broken connection fails, or  *)
(* is buffered and lost.                                                   *)
(***************************************************************************)
task_netwrite(t, part) ==
  LET s == Home(t)
  IN  /\ proc[s] = "run"
      /\ pc[t] = part
      /\ fd[s]
      /\ up => Len(wire[Peer(s)]) < Cap
      /\ wire' = IF up THEN [wire EXCEPT ![Peer(s)] =
                               Append(@, [m |-> msg[t], part |-> part])]
                 ELSE wire

(* fault: the lock is dropped between header and payload *)
SendHdr_unlocked(t) ==
  /\ task_netwrite(t, "hdr")
  /\ HasPayload(msg[t])
  /\ qunlock(Home(t))
  /\ pc' = [pc EXCEPT ![t] = "pay"]
  /\ UNCHANGED <<msg, resp, seqid, hash, served, up, fd, enabled, poolVars, recvVars,
                 proc, faultVars>>

SendHdr(t) ==
  /\ task_netwrite(t, "hdr")
  /\ HasPayload(msg[t])
  /\ pc' = [pc EXCEPT ![t] = "pay"]
  /\ UNCHANGED <<msg, resp, seqid, hash, served, up, fd, enabled, lockVars,
                 poolVars, recvVars, proc, faultVars>>

(* rpc_msg_put of a server's message and of its payload *)
rpc_msg_put(t) ==
  /\ msgs' = [msgs EXCEPT !["server"] = @ - 1]
  /\ bufs' = [bufs EXCEPT !["server"] = @ - One(HasPayload(msg[t]))]

(* the last fragment is out: unlock, then sleep for the response (client)  *)
(* or put the message (server)                                             *)
SendLast(t) ==
  LET s == Home(t)
  IN  /\ \/ task_netwrite(t, "hdr") /\ ~HasPayload(msg[t])
         \/ task_netwrite(t, "pay")
      /\ qunlock(s)
      /\ Assert(s, owner[s] # NoTask)
      /\ IF s = "client"
         THEN pc' = [pc EXCEPT ![t] = "wait"] /\ UNCHANGED poolVars
         ELSE pc' = [pc EXCEPT ![t] = "done"] /\ rpc_msg_put(t)
      /\ UNCHANGED <<msg, resp, seqid, hash, served, fd, enabled, recvVars, faultVars>>

(* task_netwrite fails: errout closes the channel, which may yield *)
SendFail(t) ==
  LET s == Home(t)
  IN  /\ proc[s] = "run"
      /\ pc[t] \in {"hdr", "pay"}
      /\ ~(up /\ fd[s])
      /\ rpc_chan_close(s)
      /\ pc' = [pc EXCEPT ![t] = "err"]
      /\ UNCHANGED <<msg, resp, seqid, hash, served, wire, lockVars, poolVars,
                     recvVars, proc, faultVars>>

(* the rest of errout: unlock; the client's task asserts that rpc_request  *)
(* has not failed, the server's handler puts its message                   *)
SendError(t) ==
  LET s == Home(t)
  IN  /\ proc[s] = "run"
      /\ pc[t] = "err"
      /\ qunlock(s)
      /\ Assert(s, owner[s] # NoTask /\ s = "server")
      /\ pc' = [pc EXCEPT ![t] = "done"]
      /\ IF s = "client" THEN UNCHANGED poolVars ELSE rpc_msg_put(t)
      /\ UNCHANGED <<msg, resp, seqid, hash, served, wire, fd, enabled, recvVars,
                     faultVars>>

(* rpc_request returns 0; the caller puts the message and its response,    *)
(* and task_do_io asserts that the status of the response is 0             *)
rpc_request_done(c) ==
  /\ proc["client"] = "run"
  /\ pc[c] = "woken"
  /\ msgs' = [msgs EXCEPT !["client"] = @ - 2]
  /\ bufs' = [bufs EXCEPT !["client"] = @ - One(HasPayload(msg[c]))
                                          - One(HasPayload(resp[c]))]
  /\ pc'   = [pc EXCEPT ![c] = "idle"]
  /\ msg'  = [msg EXCEPT ![c] = NoMsg]
  /\ resp' = [resp EXCEPT ![c] = NoMsg]
  /\ Assert("client", resp[c].seq \notin failed)
  /\ UNCHANGED <<seqid, hash, served, wire, fd, enabled, lockVars, recvVars, faultVars>>
-----------------------------------------------------------------------------
(***************************************************************************)
(* rpc_recv_task.  The message for the next turn is taken at the end of    *)
(* this one, with no suspension in between: bufpool_get does not block and *)
(* the result is asserted.                                                 *)
(***************************************************************************)
CanRead(s, at) == proc[s] = "run" /\ recv[s] = at /\ fd[s] /\ wire[s] # <<>>

(* the CONNCLOSED message: the channel is disabled, its handler created *)
RecvEnd(s) ==
  /\ recv'    = [recv EXCEPT ![s] = "end"]
  /\ enabled' = [enabled EXCEPT ![s] = FALSE]
  /\ closer'  = [closer EXCEPT ![s] = "start"]

NextTurn(s) ==
  /\ msgs' = [msgs EXCEPT ![s] = @ + 1]
  /\ cur'  = [cur EXCEPT ![s] = NoMsg]
  /\ IF enabled[s] THEN recv' = [recv EXCEPT ![s] = "hdr"] /\ UNCHANGED <<enabled, closer>>
     ELSE RecvEnd(s)

(* create the handler of a request *)
NewHandler(m) ==
  /\ pc'  = [pc EXCEPT ![m.seq] = "ready"]
  /\ msg' = [msg EXCEPT ![m.seq] = [m EXCEPT !.req = FALSE]]
  /\ UNCHANGED <<resp, hash>>

(* fault: the first entry found is taken for the request *)
_rpc_response_first(m) ==
  LET For == {c \in Requester : msg[c] # NoMsg /\ msg[c].seq \in hash
                                  /\ \A n \in hash : msg[c].seq <= n}
  IN  /\ hash_rem(m.seq)
      /\ resp' = [c \in Requester |-> IF c \in For THEN m ELSE resp[c]]
      /\ pc'   = [t \in Task |-> IF t \in For /\ pc[t] = "wait" THEN "woken" ELSE pc[t]]
      /\ UNCHANGED msg

(* fault: the entry stays in the hash table *)
_rpc_response_keep(m) ==
  LET For == hash_lookup(m.seq)
  IN  /\ resp' = [c \in Requester |-> IF c \in For THEN m ELSE resp[c]]
      /\ pc'   = [t \in Task |-> IF t \in For /\ pc[t] = "wait" THEN "woken" ELSE pc[t]]
      /\ UNCHANGED <<msg, hash>>

(* _rpc_response: find the request, link the response, wake the requester; *)
(* a wake-up of a task that does not sleep yet is lost                     *)
_rpc_response(m) ==
  LET For == hash_lookup(m.seq)
  IN  /\ hash_rem(m.seq)
      /\ resp' = [c \in Requester |-> IF c \in For THEN m ELSE resp[c]]
      /\ pc'   = [t \in Task |-> IF t \in For /\ pc[t] = "wait" THEN "woken" ELSE pc[t]]
      /\ UNCHANGED msg

Deliver(s, m) ==
  /\ IF m.req THEN NewHandler(m) ELSE _rpc_response(m)
  /\ wire' = [wire EXCEPT ![s] = Tail(@)]
  /\ NextTurn(s)
  /\ Assert(s, msgs[s] < MsgMax[s] /\ (m.req \/ m.seq \in hash))
  /\ UNCHANGED <<seqid, served, fd, lockVars, bufs, faultVars>>

(* a header without payload is a whole message *)
ReadHdr(s) ==
  /\ CanRead(s, "hdr")
  /\ ~HasPayload(Head(wire[s]).m)
  /\ Deliver(s, Head(wire[s]).m)

(* a header with payload: rpc_databuf_get, which may sleep, comes next *)
ReadBigHdr(s) ==
  /\ CanRead(s, "hdr")
  /\ HasPayload(Head(wire[s]).m)
  /\ cur'  = [cur EXCEPT ![s] = Head(wire[s]).m]
  /\ wire' = [wire EXCEPT ![s] = Tail(@)]
  /\ recv' = [recv EXCEPT ![s] = "buf"]
  /\ UNCHANGED <<taskVars, up, fd, enabled, lockVars, poolVars, closer, proc, faultVars>>

ReadBuf(s) ==
  /\ proc[s] = "run"
  /\ recv[s] = "buf"
  /\ bufs[s] < DataMax[s]
  /\ bufs' = [bufs EXCEPT ![s] = @ + 1]
  /\ recv' = [recv EXCEPT ![s] = "pay"]
  /\ UNCHANGED <<taskVars, wire, up, fd, enabled, lockVars, msgs, cur, closer, proc,
                 faultVars>>

ReadPay(s) == CanRead(s, "pay") /\ Deliver(s, cur[s])

(* fault: the data buffer of a payload that does not come is leaked *)
ReadFail_leak(s) ==
  /\ proc[s] = "run"
  /\ recv[s] \in {"hdr", "pay"}
  /\ ~(up /\ fd[s])
  /\ cur' = [cur EXCEPT ![s] = NoMsg]
  /\ RecvEnd(s)
  /\ UNCHANGED <<taskVars, wire, up, fd, lockVars, poolVars, proc, faultVars>>

(* task_netread fails: errout of _rpc_receive, and rpc_recv_task ends *)
ReadFail(s) ==
  /\ proc[s] = "run"
  /\ recv[s] \in {"hdr", "pay"}
  /\ ~(up /\ fd[s])
  /\ bufs' = [bufs EXCEPT ![s] = @ - One(recv[s] = "pay")]
  /\ cur'  = [cur EXCEPT ![s] = NoMsg]
  /\ RecvEnd(s)
  /\ UNCHANGED <<taskVars, wire, up, fd, lockVars, msgs, proc, faultVars>>
-----------------------------------------------------------------------------
(* rpc_response up to its lock.  If the channel is disabled it skips the    *)
(* lock but not the unlock.                                                *)
rpc_response(t) ==
  LET k == msg[t].kind
  IN  /\ served' = served \cup {t}
      /\ IF enabled["server"]
         THEN /\ qlock("server", t)
              /\ pc'   = [pc EXCEPT ![t] = AfterLock("server")]
              /\ bufs' = [bufs EXCEPT !["server"] = @ + One(k = "read") - One(k = "write")]
              /\ UNCHANGED <<msgs, up, proc>>
         ELSE /\ qunlock("server")
              /\ Assert("server", owner["server"] # NoTask)
              /\ pc'   = [pc EXCEPT ![t] = "done"]
              /\ msgs' = [msgs EXCEPT !["server"] = @ - 1]
              /\ bufs' = [bufs EXCEPT !["server"] = @ - One(k = "write")]

(* ssd_read or ssd_write: the device transfers less than asked *)
DeviceFails(t) == Cardinality(failed) < MaxErr /\ failed' = failed \cup {t}

(***************************************************************************)
(* rpc_msg_handler: a read gets a data buffer (and may sleep for it), a    *)
(* write puts its payload; then the response.  A read the device fails     *)
(* aborts the server, a failed write is answered with the status -1.       *)
(***************************************************************************)
rpc_msg_handler(t) ==
  LET k == msg[t].kind
  IN  /\ proc["server"] = "run"
      /\ pc[t] = "ready"
      /\ k = "read" => bufs["server"] < DataMax["server"]
      /\ \/ /\ k = "read" /\ DeviceFails(t)
            /\ Assert("server", FALSE)
            /\ UNCHANGED <<pc, served, lockVars, poolVars>>
         \/ /\ UNCHANGED failed \/ (k = "write" /\ DeviceFails(t))
            /\ rpc_response(t)
      /\ UNCHANGED <<msg, resp, seqid, hash, wire, fd, enabled, recvVars, losses>>

(* the handler of the CONNCLOSED message closes the channel *)
ConnClosed(s) ==
  /\ proc[s] = "run"
  /\ closer[s] = "start"
  /\ rpc_chan_close(s)
  /\ closer' = [closer EXCEPT ![s] = "msgs"]
  /\ UNCHANGED <<taskVars, wire, lockVars, bufs, recv, cur, proc, faultVars>>

(* fault: the server keeps the CONNCLOSED message *)
rpc_conn_closed_keep == ConnClosed("server") /\ UNCHANGED msgs

(* the server's handler has put the message *)
rpc_conn_closed ==
  /\ ConnClosed("server")
  /\ msgs' = [msgs EXCEPT !["server"] = @ - 1]

(* the client's keeps it *)
default_handler == ConnClosed("client") /\ UNCHANGED msgs

(* fault: rpc_chan_deinit does not wait for the messages *)
deinit_msgpool_nowait(s) ==
  /\ proc[s] = "run"
  /\ closer[s] = "msgs"
  /\ closer' = [closer EXCEPT ![s] = "data"]
  /\ UNCHANGED <<taskVars, wire, up, fd, enabled, lockVars, poolVars, recv, cur, proc,
                 faultVars>>

(* rpc_chan_deinit: bufpool_deinit waits until all messages are back,      *)
(* then until all data buffers are; hash_deinit asserts an empty table     *)
deinit_msgpool(s) ==
  /\ proc[s] = "run"
  /\ closer[s] = "msgs"
  /\ msgs[s] = 0
  /\ closer' = [closer EXCEPT ![s] = "data"]
  /\ UNCHANGED <<taskVars, wire, up, fd, enabled, lockVars, poolVars, recv, cur, proc,
                 faultVars>>

deinit_datapool(s) ==
  /\ proc[s] = "run"
  /\ closer[s] = "data"
  /\ bufs[s] = 0
  /\ closer' = [closer EXCEPT ![s] = "done"]
  /\ Assert(s, s = "client" => hash = {})
  /\ UNCHANGED <<taskVars, wire, fd, enabled, lockVars, poolVars, recv, cur, faultVars>>

(* tmain of client.c ends after the last request *)
client_exit ==
  /\ proc["client"] = "run"
  /\ seqid > MaxSeq
  /\ \A c \in Requester : pc[c] = "idle"
  /\ proc' = [proc EXCEPT !["client"] = "exit"]
  /\ up'   = FALSE
  /\ UNCHANGED <<taskVars, wire, fd, enabled, lockVars, poolVars, recvVars, faultVars>>

(* the network breaks the connection *)
LinkDown ==
  /\ up
  /\ losses < MaxLoss
  /\ up'     = FALSE
  /\ losses' = losses + 1
  /\ UNCHANGED <<taskVars, wire, fd, enabled, lockVars, poolVars, recvVars, proc, failed>>

SendStep(t) ==
  qlock_wakeup(t) \/ SendHdr(t) \/ SendLast(t) \/ SendFail(t) \/ SendError(t)

ClientStep(c) ==
  \/ SendStep(c) \/ rpc_request(c) \/ rpc_request_done(c)

HandlerStep(t) == SendStep(t) \/ rpc_msg_handler(t)

RecvStep(s) ==
  \/ ReadHdr(s) \/ ReadBigHdr(s) \/ ReadBuf(s) \/ ReadPay(s) \/ ReadFail(s)

CloseStep(s) ==
  \/ s = "server" /\ rpc_conn_closed
  \/ s = "client" /\ default_handler
  \/ deinit_msgpool(s) \/ deinit_datapool(s)

Next ==
  \/ \E c \in Requester : ClientStep(c) \/ \E k \in Kind : rpc_databuf_get(c, k)
  \/ \E t \in SeqId : HandlerStep(t)
  \/ \E s \in Side : RecvStep(s) \/ CloseStep(s)
  \/ client_exit
  \/ LinkDown

Spec == Init /\ [][Next]_vars

(***************************************************************************)
(* libtask's run queue is FIFO and its poller readies a task whose socket  *)
(* is ready, so a task that can go on does.  Nothing makes the client      *)
(* start a request, the connection break or the device fail.               *)
(***************************************************************************)
Fairness ==
  /\ \A c \in Requester : WF_vars(ClientStep(c))
  /\ \A t \in SeqId : WF_vars(HandlerStep(t))
  /\ \A s \in Side : WF_vars(RecvStep(s)) /\ WF_vars(CloseStep(s))

FairSpec == Spec /\ Fairness
-----------------------------------------------------------------------------
Sending == {"lock", "hdr", "pay", "err"}
Count(S) == Cardinality(S)

(* Types of the variables. *)
TypeOK ==
  /\ pc \in [Task -> {"idle", "msg", "wait", "woken", "none", "ready", "done"} \cup Sending]
  /\ msg     \in [Task -> [seq : 0..MaxSeq, kind : Kind, req : BOOLEAN] \cup {NoMsg}]
  /\ resp    \in [Requester -> Message \cup {NoMsg}]
  /\ seqid   \in 1..(MaxSeq + 1)
  /\ hash    \subseteq SeqId /\ served \subseteq SeqId
  /\ wire    \in [Side -> Seq([m : Message, part : {"hdr", "pay"}])]
  /\ up      \in BOOLEAN
  /\ fd      \in [Side -> BOOLEAN] /\ enabled \in [Side -> BOOLEAN]
  /\ owner   \in [Side -> Task \cup {NoTask}] /\ waiting \in [Side -> Seq(Task)]
  /\ msgs    \in [Side -> Nat] /\ bufs \in [Side -> Nat]
  /\ recv    \in [Side -> {"hdr", "buf", "pay", "end"}]
  /\ cur     \in [Side -> Message \cup {NoMsg}]
  /\ closer  \in [Side -> {"none", "start", "msgs", "data", "done"}]
  /\ proc    \in [Side -> {"run", "abort", "exit"}]
  /\ losses  \in 0..MaxLoss /\ failed \subseteq SeqId

(* rpc_recv_task, which only counts bytes, always finds a header where it  *)
(* reads one, and after it the payload of that very message: no writer     *)
(* gets between the two task_netwrite calls of another, even when the      *)
(* socket is full and the first one sleeps.                                *)
FramesIntact ==
  \A s \in Side : proc[s] = "run" /\ wire[s] # <<>> =>
    CASE recv[s] = "hdr"           -> Head(wire[s]).part = "hdr"
      [] recv[s] \in {"buf", "pay"} -> Head(wire[s]) = [m |-> cur[s], part |-> "pay"]
      [] OTHER                     -> TRUE

(* rpc_request returns with the response to its own request, which the     *)
(* server has given to its device, and a response never comes to a task    *)
(* that is not asleep yet (the wake-up would be lost).                     *)
ResponseMatches ==
  \A c \in Requester :
    /\ resp[c] # NoMsg <=> pc[c] = "woken"
    /\ pc[c] = "woken" => /\ resp[c] = [msg[c] EXCEPT !.req = FALSE]
                          /\ msg[c].seq \in served

(* While the channel is enabled, the hash table holds exactly the requests *)
(* a task waits for: none is forgotten, and no entry outlives its message. *)
HashIsOutstanding ==
  proc["client"] = "run" /\ enabled["client"] =>
    hash = {msg[c].seq : c \in {d \in Requester : pc[d] \in Sending \cup {"wait"}}}

(* Every message and data buffer issued is one that some task will put (or *)
(* the client's CONNCLOSED message, which its handler keeps): neither side *)
(* leaks a buffer or puts one twice, on any path through the errors.       *)
ClientBuffers ==
  proc["client"] = "run" =>
    /\ msgs["client"] = 1 + Count({c \in Requester : pc[c] \in Sending \cup {"wait", "woken"}})
                          + Count({c \in Requester : pc[c] = "woken"})
    /\ bufs["client"] = One(recv["client"] = "pay")
                          + Count({c \in Requester : msg[c] # NoMsg /\ HasPayload(msg[c])})
                          + Count({c \in Requester : pc[c] = "woken" /\ HasPayload(resp[c])})

ServerBuffers ==
  proc["server"] = "run" =>
    /\ msgs["server"] = One(recv["server"] # "end" \/ closer["server"] = "start")
                          + Count({t \in SeqId : pc[t] \in Sending \cup {"ready"}})
    /\ bufs["server"] = One(recv["server"] = "pay")
                          + Count({t \in SeqId : pc[t] = "ready" /\ msg[t].kind = "write"})
                          + Count({t \in SeqId : pc[t] \in Sending /\ HasPayload(msg[t])})

BuffersAccounted == ClientBuffers /\ ServerBuffers

(* rpc_chan_deinit leaves the message pool only when no handler can touch  *)
(* the channel any more, so the data pool is torn down with no task in     *)
(* bufpool_get and the zeroed channel has no user.                         *)
TeardownIsSafe ==
  proc["server"] = "run" /\ closer["server"] \in {"data", "done"} =>
    /\ recv["server"] = "end"
    /\ \A t \in SeqId : pc[t] \in {"none", "done"}
    /\ bufs["server"] = 0
    /\ owner["server"] = NoTask /\ waiting["server"] = <<>>

(* While the connection holds and the other process has not aborted, a     *)
(* process aborts only because of its device: the server when a read fails *)
(* (no other assert of a response's sender or of the receiver, no unlock   *)
(* of a free lock), the client when the task that has got the response to  *)
(* a failed write looks at its status (no orphan response, no message pool *)
(* found empty by rpc_recv_task, no request on a channel that was closed). *)
AbortExplained ==
  [][\A s \in Side : losses = 0 /\ proc[Peer(s)] # "abort" /\ proc[s] = "run"
                     /\ proc'[s] = "abort" =>
       \/ s = "server" /\ \E t \in failed' : pc[t] = "ready" /\ msg[t].kind = "read"
       \/ s = "client" /\ \E c \in Requester : /\ pc[c] = "woken" /\ pc'[c] = "idle"
                                                /\ resp[c].seq \in failed]_vars

(* A request made over a connection that holds is answered, unless one of  *)
(* the processes has aborted.                                              *)
Answered ==
  \A c \in Requester :
    pc[c] # "idle" ~> pc[c] = "idle" \/ losses > 0 \/ \E s \in Side : proc[s] = "abort"

(* When the client has ended, or the connection is lost, the server gives  *)
(* the whole channel back (or has aborted).                                *)
ServerTearsDown == ~up ~> closer["server"] = "done" \/ proc["server"] = "abort"

(* rpc.txt: rpc_request "will return when a response is received (or on    *)
(* errors such as connection closed)".                                     *)
RequestReturns ==
  \A c \in Requester : pc[c] = "wait" ~> pc[c] # "wait" \/ proc["client"] # "run"

(* qunlock aborts when the lock has no owner; rpc.txt: a task that uses a  *)
(* disabled channel "will either fail immediately, or if it was waiting on *)
(* the fd, will get an error".                                             *)
ServerSurvives == proc["server"] # "abort"
=============================================================================
