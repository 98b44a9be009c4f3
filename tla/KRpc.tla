-------------------------------- MODULE KRpc --------------------------------
(***************************************************************************)
(* The RPC channel of the multipath plugin: rpc.c and network.c of the     *)
(* kernel module, with the two thread pools and the commands that use it   *)
(* (read_cmd, write_cmd, the response handlers, init_cachebox and          *)
(* deinit_cachebox of mp_plugin_example.c).                                *)
(*                                                                         *)
(* Worlds run in parallel.  A step is a critical section of a lock, a      *)
(* read or write of the socket, or a plain access to rcp->enabled; the     *)
(* puts at the end of a request are one step.  A message is named by its   *)
(* command: rpc_msg_get gives every message a new seqid.  The server is    *)
(* external: module Rpc describes it, here it answers requests in any      *)
(* order as long as the connection is up.                                  *)
(***************************************************************************)
EXTENDS KBufPool, ThreadPool

CONSTANTS
  Cmd,       \* bound: the SCSI commands, one request each
  NoCmd,     \* no command
  CLOSED,    \* the message that says that the connection is closed
  Cap,       \* bound: fragments a socket buffers in one direction
  SrvMax,    \* nmax of the server's message pool, (NTASK + 1) * 3
  MaxFault   \* bound: the kinds of fault in a behaviour, see FaultKind

ASSUME ChannelAssumption ==
  /\ SrvMax \in Nat /\ Cap \in Nat \ {0} /\ MaxFault \in Nat
  /\ nmsg_max < ndata_max /\ nmsg_max < WorkMax /\ nmsg_max < SrvMax
ASSUME NameAssumption ==
  /\ IsFiniteSet(Cmd) /\ NoCmd \notin Cmd /\ CLOSED \notin Cmd /\ CLOSED # NoCmd
  /\ NoWork \notin Worker

(* an initialisation fails, the connection is lost, vmk_SgCopyTo fails; an  *)
(* init_cachebox and a connection fail once                                *)
FaultKind == {"init", "link", "copy"}

VARIABLES
  cmd,      \* the state of a command
  isRead,   \* cmd->isReadCdb
  pc,       \* where a worker is in the work it has taken
  lock,     \* rcp->lock: who has it
  hash,     \* the commands whose message is in rcp->hash
  enabled,  \* rcp->enabled
  sock,     \* rcp->socket
  up,       \* the connection is established
  out,      \* fragments on their way to the server
  in,       \* fragments on their way to the plugin
  recv,     \* where rpc_recv_thread is
  rm,       \* the message it receives
  main,     \* where init_cachebox or deinit_cachebox is
  srv,      \* external: requests the server has received and not answered
  srvIn,    \* external: the request whose payload the server reads next
  srvOut,   \* external: the response whose payload the server writes next
  crash,    \* why an assert failed or memory was used that is not initialised
  faults    \* the faults there were

cmdVars  == <<cmd, isRead>>
chanVars == <<lock, hash, enabled>>
netVars  == <<sock, up, out, in>>
recvVars == <<recv, rm>>
srvVars  == <<srv, srvIn, srvOut>>
endVars  == <<main, crash, faults>>
vars == <<bp, tpVars, cmdVars, pc, chanVars, netVars, recvVars, srvVars, endVars>>

Init ==
  /\ TpInit
  /\ bp      = [p \in BufPool |-> NoPool]
  /\ cmd     = [c \in Cmd |-> "new"]
  /\ isRead  = [c \in Cmd |-> FALSE]
  /\ pc      = [w \in Worker |-> "none"]
  /\ lock    = NoWork
  /\ hash    = {}
  /\ enabled = FALSE
  /\ sock    = "none"
  /\ up      = FALSE
  /\ out     = <<>>
  /\ in      = <<>>
  /\ recv    = "none"
  /\ rm      = NoCmd
  /\ main    = "send_tp"
  /\ srv     = {}
  /\ srvIn   = NoCmd
  /\ srvOut  = NoCmd
  /\ crash   = "no"
  /\ faults  = {}
-----------------------------------------------------------------------------
Alive == crash = "no"

Fault(f) == Cardinality(faults) < MaxFault /\ faults' = faults \cup {f}

(* an assert fails, or a pointer leads nowhere; what else the step did is lost *)
Broken(why) ==
  /\ crash' = why
  /\ UNCHANGED <<bp, tpVars, cmdVars, pc, chanVars, netVars, recvVars, srvVars, main>>

Crash(why) == Broken(why) /\ UNCHANGED faults
-----------------------------------------------------------------------------
(* init_cachebox: each step of it succeeds, ...                            *)
InitStep(s, t) == Alive /\ main = s /\ main' = t /\ UNCHANGED <<crash, faults>>

InitSendPool ==
  /\ InitStep("send_tp", "client_setup")
  /\ thread_pool_init("send")
  /\ UNCHANGED <<bp, cmdVars, pc, chanVars, netVars, recvVars, srvVars>>

client_setup ==
  /\ InitStep("client_setup", "hash_init")
  /\ sock' = "open"
  /\ up'   = TRUE
  /\ UNCHANGED <<bp, tpVars, cmdVars, pc, chanVars, out, in, recvVars, srvVars>>

hash_init ==
  /\ InitStep("hash_init", "msgpool")
  /\ UNCHANGED <<bp, tpVars, cmdVars, pc, chanVars, netVars, recvVars, srvVars>>

InitPool(p) ==
  /\ IF p = "msg" THEN InitStep("msgpool", "ploadpool") ELSE InitStep("ploadpool", "tp")
  /\ bufpool_init_reserve(p)
  /\ enabled' = (p = "payload")
  /\ UNCHANGED <<tpVars, cmdVars, pc, lock, hash, netVars, recvVars, srvVars>>

InitRecvPool ==
  /\ InitStep("tp", "recv_thread")
  /\ thread_pool_init("recv")
  /\ UNCHANGED <<bp, cmdVars, pc, chanVars, netVars, recvVars, srvVars>>

InitRecvThread ==
  /\ InitStep("recv_thread", "loaded")
  /\ recv' = "get"
  /\ UNCHANGED <<bp, tpVars, cmdVars, pc, chanVars, netVars, rm, srvVars>>

(* ... or one fails.  thread_pool_init then may leave worlds behind that   *)
(* use the pool, since nthreads is not yet set; _rpc_chan_deinit locks a   *)
(* payload pool that has no lock yet.  Otherwise what was made is undone.  *)
InitFails ==
  /\ Alive
  /\ Fault("init")
  /\ \/ /\ main \in {"send_tp", "tp", "msgpool", "ploadpool"}
        /\ crash' = "init" /\ UNCHANGED main
     \/ /\ main = "send_tp"
        /\ main' = "gone" /\ UNCHANGED crash
     \/ /\ main \in {"client_setup", "hash_init"}
        /\ main' = "send_shut" /\ UNCHANGED crash
     \/ /\ main = "tp"
        /\ main' = "ploadpool_deinit" /\ UNCHANGED crash
     \/ /\ main = "recv_thread"
        /\ main' = "recv_shut" /\ UNCHANGED crash
  /\ UNCHANGED <<bp, tpVars, cmdVars, pc, chanVars, netVars, recvVars, srvVars>>

Boot == {"send_tp", "client_setup", "hash_init", "msgpool", "ploadpool", "tp",
         "recv_thread"}

init_cachebox ==
  \/ InitSendPool \/ client_setup \/ hash_init
  \/ \E p \in BufPool : InitPool(p)
  \/ InitRecvPool \/ InitRecvThread \/ InitFails
-----------------------------------------------------------------------------
(* ExampleDeviceStartCommand gives the command to send_tp.  One world      *)
(* calls it at a time.                                                     *)
StartCommand(c, r) ==
  /\ Alive
  /\ main = "loaded"
  /\ cmd[c] = "new"
  /\ wakeups["send"] = 0
  /\ Works("send") < WorkMax
  /\ schedule_work("send", c)
  /\ cmd'    = [cmd EXCEPT ![c] = "queued"]
  /\ isRead' = [isRead EXCEPT ![c] = r]
  /\ UNCHANGED <<bp, pc, chanVars, netVars, recvVars, srvVars, endVars>>

SendWakeup ==
  /\ Alive
  /\ Wakeup("send")
  /\ UNCHANGED <<bp, cmdVars, pc, chanVars, netVars, recvVars, srvVars, endVars>>

WorkerIdle(w) ==
  /\ Alive
  /\ Idle(w)
  /\ UNCHANGED <<bp, cmdVars, pc, chanVars, netVars, recvVars, srvVars, endVars>>

WorkerTake(w) ==
  /\ Alive
  /\ TakeWork(w)
  /\ pc' = [pc EXCEPT ![w] = IF w \in SendWorker THEN "msg" ELSE "handle"]
  /\ UNCHANGED <<bp, cmdVars, chanVars, netVars, recvVars, srvVars, endVars>>
-----------------------------------------------------------------------------
Run(w, places) == Alive /\ pc[w] \in places

(* read_cmd and write_cmd, run by a world of send_tp *)
Go(w, to) == pc' = [pc EXCEPT ![w] = to]

AfterMsg(w) == IF isRead[data[w]] THEN "enabled" ELSE "payload"

rpc_msg_get(w) ==
  /\ Run(w, {"msg", "msgwait"})
  /\ IF bp["msg"].state # "INITIALIZED" THEN Crash("pool")
     ELSE /\ \/ /\ pc[w] = "msgwait" => Room("msg", FALSE)
                /\ _bufpool_get("msg", FALSE)
                /\ Go(w, AfterMsg(w))
             \/ /\ pc[w] = "msg" /\ MustWait("msg", FALSE)
                /\ Go(w, "msgwait")
                /\ UNCHANGED bp
          /\ UNCHANGED <<tpVars, cmdVars, chanVars, netVars, recvVars, srvVars, endVars>>

(* a payload buffer for a write, filled from the command: vmk_SgCopyFrom   *)
(* may fail                                                                *)
rpc_payload_get(w) ==
  /\ Run(w, {"payload"})
  /\ IF bp["payload"].state # "INITIALIZED" THEN Crash("pool")
     ELSE /\ _bufpool_get("payload", TRUE)
          /\ Go(w, "enabled") \/ Go(w, "error")
          /\ UNCHANGED <<tpVars, cmdVars, chanVars, netVars, recvVars, srvVars, endVars>>

(* rpc_async_request: the test of enabled, made without the lock, ... *)
rpc_async_request(w) ==
  /\ Run(w, {"enabled"})
  /\ Go(w, IF enabled THEN "lock" ELSE "error")
  /\ UNCHANGED <<bp, tpVars, cmdVars, chanVars, netVars, recvVars, srvVars, endVars>>

(* ... RPC_CHAN_LOCK and hash_add, ... *)
RequestLock(w) ==
  /\ Run(w, {"lock"})
  /\ lock = NoWork
  /\ lock' = w
  /\ hash' = hash \cup {data[w]}
  /\ Go(w, "hdr")
  /\ UNCHANGED <<bp, tpVars, cmdVars, enabled, netVars, recvVars, srvVars, endVars>>

(* socket_write of one fragment: it waits while the socket is full *)
socket_write(f) ==
  /\ sock = "open"
  /\ Len(out) < Cap
  /\ out' = Append(out, f)
  /\ UNCHANGED <<sock, up, in>>

(* ... the header, the payload of a write, ... *)
RequestWrite(w) ==
  /\ Run(w, {"hdr", "body"})
  /\ socket_write(<<data[w], pc[w]>>)
  /\ Go(w, IF pc[w] = "hdr" /\ ~isRead[data[w]] THEN "body" ELSE "unlock")
  /\ UNCHANGED <<bp, tpVars, cmdVars, chanVars, recvVars, srvVars, endVars>>

(* ... and, after a last look at the message, RPC_CHAN_UNLOCK *)
RequestUnlock(w) ==
  /\ Run(w, {"unlock"})
  /\ lock' = NoWork
  /\ WorkDone(w)
  /\ Go(w, "none")
  /\ UNCHANGED <<bp, cmdVars, hash, enabled, netVars, recvVars, srvVars, endVars>>

RequestFails(w) ==
  /\ Run(w, {"hdr", "body"})
  /\ ~up
  /\ Go(w, "close")
  /\ UNCHANGED <<bp, tpVars, cmdVars, chanVars, netVars, recvVars, srvVars, endVars>>

(* rpc_chan_close, called by a sender with the lock and by the handler of  *)
(* CLOSED without it: the test of enabled, then the rest                   *)
TestEnabled(w) ==
  /\ Run(w, {"close"})
  /\ Go(w, IF enabled THEN "closing" ELSE "closed")
  /\ UNCHANGED <<bp, tpVars, cmdVars, chanVars, netVars, recvVars, srvVars, endVars>>

(* vmk_SocketClose of a closed socket fails, and the assert with it *)
socket_close ==
  /\ enabled' = FALSE
  /\ sock'    = "closed"
  /\ up'      = FALSE
  /\ UNCHANGED <<lock, hash, out, in>>

rpc_chan_close(w) ==
  /\ Run(w, {"closing"})
  /\ IF sock = "closed" THEN Crash("socket")
     ELSE /\ socket_close
          /\ Go(w, "closed")
          /\ UNCHANGED <<bp, tpVars, cmdVars, recvVars, srvVars, endVars>>

(* fault: a failed request does not put its payload *)
RequestError_leak(w) ==
  LET c == data[w]
  IN  /\ Run(w, {"error", "closed"})
      /\ w \in SendWorker
      /\ lock' = IF lock = w THEN NoWork ELSE lock
      /\ bp'   = [bp EXCEPT !["msg"] = bufpool_put(@, "msg")]
      /\ cmd'  = [cmd EXCEPT ![c] = "failed"]
      /\ WorkDone(w)
      /\ Go(w, "none")
      /\ UNCHANGED <<isRead, hash, enabled, netVars, recvVars, srvVars, endVars>>

(* the error path: RPC_CHAN_UNLOCK if it was locked, rpc_msg_put, and      *)
(* ExampleIssueFail completes the command.  A message added to the hash    *)
(* table stays there.                                                      *)
RequestError(w) ==
  LET c == data[w]
  IN  /\ Run(w, {"error", "closed"})
      /\ w \in SendWorker
      /\ lock' = IF lock = w THEN NoWork ELSE lock
      /\ bp'   = [bp EXCEPT !["msg"] = bufpool_put(@, "msg"),
                            !["payload"] = IF isRead[c] THEN @
                                           ELSE bufpool_put(@, "payload")]
      /\ cmd'  = [cmd EXCEPT ![c] = "failed"]
      /\ WorkDone(w)
      /\ Go(w, "none")
      /\ UNCHANGED <<isRead, hash, enabled, netVars, recvVars, srvVars, endVars>>
-----------------------------------------------------------------------------
(* rpc_recv_thread and _rpc_recv: a message buffer, which may come from    *)
(* the reserve, ...                                                        *)
Rx(s, t) == Alive /\ recv = s /\ recv' = t

RecvGet ==
  /\ Alive
  /\ recv \in {"get", "getwait"}
  /\ IF bp["msg"].state # "INITIALIZED" THEN Crash("pool")
     ELSE /\ \/ /\ recv = "getwait" => Room("msg", TRUE)
                /\ _bufpool_get("msg", TRUE)
                /\ recv' = "hdr"
             \/ /\ MustWait("msg", TRUE)
                /\ Rx("get", "getwait")
                /\ UNCHANGED bp
          /\ UNCHANGED <<tpVars, cmdVars, pc, chanVars, netVars, rm, srvVars, endVars>>

(* socket_read of one fragment *)
socket_read(f) ==
  /\ sock = "open"
  /\ in # <<>> /\ Head(in) = f
  /\ in' = Tail(in)
  /\ UNCHANGED <<sock, up, out>>

(* ... the header, ... *)
RecvHdr(c) ==
  /\ Rx("hdr", IF isRead[c] THEN "payload" ELSE "work")
  /\ socket_read(<<c, "hdr">>)
  /\ rm' = c
  /\ UNCHANGED <<bp, tpVars, cmdVars, pc, chanVars, srvVars, endVars>>

(* ... a payload buffer, ... *)
RecvPayloadGet ==
  /\ Rx("payload", "body")
  /\ _bufpool_get("payload", TRUE)
  /\ UNCHANGED <<tpVars, cmdVars, pc, chanVars, netVars, rm, srvVars, endVars>>

(* ... and the payload *)
RecvBody ==
  /\ Rx("body", "work")
  /\ socket_read(<<rm, "body">>)
  /\ UNCHANGED <<bp, tpVars, cmdVars, pc, chanVars, rm, srvVars, endVars>>

(* a read fails: the message becomes the CLOSED one.  A payload is put to  *)
(* bp, which is NULL.                                                      *)
RecvFails ==
  /\ ~up
  /\ \/ /\ Rx("hdr", "work")
        /\ rm' = CLOSED
        /\ UNCHANGED <<bp, tpVars, cmdVars, pc, chanVars, netVars, srvVars, endVars>>
     \/ Alive /\ recv = "body" /\ Crash("payload")

(* new_work and schedule_work; the thread ends after CLOSED *)
RecvWork ==
  /\ Rx("work", "wake")
  /\ Works("recv") < WorkMax
  /\ schedule_work("recv", rm)
  /\ UNCHANGED <<bp, cmdVars, pc, chanVars, netVars, rm, srvVars, endVars>>

RecvWakeup ==
  /\ Rx("wake", IF rm = CLOSED THEN "exit" ELSE "get")
  /\ Wakeup("recv")
  /\ rm' = NoCmd
  /\ UNCHANGED <<bp, cmdVars, pc, chanVars, netVars, srvVars, endVars>>

rpc_recv_thread ==
  \/ RecvGet \/ (\E c \in Cmd : RecvHdr(c)) \/ RecvPayloadGet \/ RecvBody
  \/ RecvFails \/ RecvWork \/ RecvWakeup
-----------------------------------------------------------------------------
(* _rpc_recv_handler, run by a world of rcp->tp.  cb_mpp_req_handler puts  *)
(* the CLOSED message and closes the channel.                              *)
cb_mpp_req_handler(w) ==
  /\ Run(w, {"handle"})
  /\ data[w] = CLOSED
  /\ bp' = [bp EXCEPT !["msg"] = bufpool_put(@, "msg")]
  /\ Go(w, "close")
  /\ UNCHANGED <<tpVars, cmdVars, chanVars, netVars, recvVars, srvVars, endVars>>

HandlerEnd(w) ==
  /\ Run(w, {"closed"})
  /\ w \in RecvWorker
  /\ WorkDone(w)
  /\ Go(w, "none")
  /\ UNCHANGED <<bp, cmdVars, chanVars, netVars, recvVars, srvVars, endVars>>

(* messages put back while they are in the hash table: the pool has reused *)
(* their links                                                             *)
Stale == {c \in hash : cmd[c] = "failed"}

(* fault: the table is searched without the lock *)
_rpc_response_nolock(w) ==
  LET c == data[w]
  IN  /\ Run(w, {"handle"})
      /\ c # CLOSED
      /\ IF c \notin hash THEN Crash("orphan")
         ELSE \/ /\ hash' = hash \ {c}
                 /\ Go(w, "resp")
                 /\ UNCHANGED <<bp, tpVars, cmdVars, lock, enabled, netVars, recvVars,
                                srvVars, endVars>>
              \/ Stale # {} /\ Crash("stale")

(* _rpc_response up to the response handler: the request is found in the   *)
(* table and taken out.  A stale entry leads the search astray if it is in *)
(* the same bucket.                                                        *)
_rpc_response(w) ==
  LET c == data[w]
  IN  /\ Run(w, {"handle"})
      /\ c # CLOSED
      /\ lock = NoWork
      /\ IF c \notin hash THEN Crash("orphan")
         ELSE \/ /\ hash' = hash \ {c}
                 /\ Go(w, "resp")
                 /\ UNCHANGED <<bp, tpVars, cmdVars, lock, enabled, netVars, recvVars,
                                srvVars, endVars>>
              \/ Stale # {} /\ Crash("stale")

(* cb_mpp_resp_handler, resp_read_cmd and resp_write_cmd: vmk_SgCopyTo     *)
(* copies the payload of a read, which is asserted; then rpc_msg_put of    *)
(* the request and its response with their payload, and cmd->done.         *)
(* Neither looks at the status of the response.                            *)
cb_mpp_resp_handler(w) ==
  /\ Run(w, {"resp"})
  /\ \/ /\ bp'  = [bp EXCEPT !["msg"] = bufpool_put(bufpool_put(@, "msg"), "msg"),
                              !["payload"] = bufpool_put(@, "payload")]
        /\ cmd' = [cmd EXCEPT ![data[w]] = "done"]
        /\ WorkDone(w)
        /\ Go(w, "none")
        /\ UNCHANGED <<isRead, chanVars, netVars, recvVars, srvVars, endVars>>
     \/ isRead[data[w]] /\ Fault("copy") /\ Broken("copy")

WorkerStep(w) ==
  \/ WorkerIdle(w) \/ WorkerTake(w)
  \/ rpc_msg_get(w) \/ rpc_payload_get(w) \/ rpc_async_request(w) \/ RequestLock(w)
  \/ RequestWrite(w) \/ RequestUnlock(w) \/ RequestFails(w) \/ RequestError(w)
  \/ TestEnabled(w) \/ rpc_chan_close(w)
  \/ cb_mpp_req_handler(w) \/ HandlerEnd(w) \/ _rpc_response(w) \/ cb_mpp_resp_handler(w)
-----------------------------------------------------------------------------
(* External: the server and the network *)
SrvReceive(c) ==
  /\ Alive
  /\ up /\ out # <<>>
  /\ \/ /\ srvIn = NoCmd /\ Head(out) = <<c, "hdr">>
        /\ srvIn' = IF isRead[c] THEN NoCmd ELSE c
        /\ srv'   = IF isRead[c] THEN srv \cup {c} ELSE srv
     \/ /\ srvIn = c /\ Head(out) = <<c, "body">>
        /\ srvIn' = NoCmd
        /\ srv'   = srv \cup {c}
  /\ out' = Tail(out)
  /\ UNCHANGED <<bp, tpVars, cmdVars, pc, chanVars, sock, up, in, recvVars, srvOut, endVars>>

SrvRespond(c) ==
  LET part == IF srvOut = c THEN "body" ELSE "hdr"
      last == srvOut = c \/ ~isRead[c]
  IN  /\ Alive /\ up /\ c \in srv /\ srvOut \in {NoCmd, c}
      /\ Len(in) < Cap
      /\ in'     = Append(in, <<c, part>>)
      /\ srvOut' = IF last THEN NoCmd ELSE c
      /\ srv'    = IF last THEN srv \ {c} ELSE srv
      /\ UNCHANGED <<bp, tpVars, cmdVars, pc, chanVars, sock, up, out, recvVars, srvIn,
                     endVars>>

LinkDown ==
  /\ Alive
  /\ up
  /\ Fault("link")
  /\ up' = FALSE
  /\ UNCHANGED <<bp, tpVars, cmdVars, pc, chanVars, sock, out, in, recvVars, srvVars, main,
                 crash>>
-----------------------------------------------------------------------------
(* deinit_cachebox, called when the plugin has no device left: rpc_chan_close, *)
Unload ==
  /\ Alive
  /\ main = "loaded"
  /\ \A c \in Cmd : cmd[c] # "queued"
  /\ wakeups["send"] = 0
  /\ main' = IF enabled THEN "closing" ELSE "join"
  /\ UNCHANGED <<bp, tpVars, cmdVars, pc, chanVars, netVars, recvVars, srvVars, crash,
                 faults>>

UnloadClose ==
  /\ Alive
  /\ main = "closing"
  /\ IF sock = "closed" THEN Crash("socket")
     ELSE /\ socket_close
          /\ main' = "join"
          /\ UNCHANGED <<bp, tpVars, cmdVars, pc, recvVars, srvVars, crash, faults>>

(* fault: the receiver is not joined *)
JoinRecvThread_skip ==
  /\ Alive
  /\ main = "join"
  /\ main' = "recv_shut"
  /\ UNCHANGED <<bp, tpVars, cmdVars, pc, chanVars, netVars, recvVars, srvVars, crash,
                 faults>>

JoinRecvThread ==
  /\ Alive
  /\ main = "join"
  /\ recv = "exit"
  /\ main' = "recv_shut"
  /\ UNCHANGED <<bp, tpVars, cmdVars, pc, chanVars, netVars, recvVars, srvVars, crash,
                 faults>>

(* thread_pool_deinit of either pool, in the places shut, wake and join of main *)
thread_pool_deinit(p, shut, wake, join, next) ==
  /\ Alive
  /\ \/ main = shut /\ main' = wake /\ Shut(p)
     \/ main = wake /\ main' = join /\ ShutWake(p)
     \/ main = join /\ main' = next /\ Joined(p) /\ UNCHANGED tpVars
  /\ crash' = IF main = join /\ (active[p] # 0 \/ work_list[p] # <<>>) THEN "works" ELSE "no"
  /\ UNCHANGED <<bp, cmdVars, pc, chanVars, netVars, recvVars, srvVars, faults>>

bufpool_deinit(p, s, next) ==
  /\ Alive
  /\ main = s
  /\ \/ DeinitBegin(p) /\ UNCHANGED main
     \/ DeinitEnd(p) /\ main' = next
  /\ UNCHANGED <<tpVars, cmdVars, pc, chanVars, netVars, recvVars, srvVars, crash, faults>>

(* hash_deinit asserts that the table is empty *)
hash_deinit ==
  /\ Alive
  /\ main = "hash_deinit"
  /\ IF hash # {} THEN Crash("table")
     ELSE /\ main' = "send_shut"
          /\ UNCHANGED <<bp, tpVars, cmdVars, pc, chanVars, netVars, recvVars, srvVars,
                         crash, faults>>

deinit_cachebox ==
  \/ Unload \/ UnloadClose \/ JoinRecvThread
  \/ thread_pool_deinit("recv", "recv_shut", "recv_wake", "recv_join", "ploadpool_deinit")
  \/ bufpool_deinit("payload", "ploadpool_deinit", "msgpool_deinit")
  \/ bufpool_deinit("msg", "msgpool_deinit", "hash_deinit")
  \/ hash_deinit
  \/ thread_pool_deinit("send", "send_shut", "send_wake", "send_join", "gone")
-----------------------------------------------------------------------------
(* the steps that are not up to PSA, an administrator or a fault *)
Step ==
  \/ SendWakeup
  \/ \E w \in Worker : WorkerStep(w)
  \/ rpc_recv_thread
  \/ \E c \in Cmd : SrvReceive(c) \/ SrvRespond(c)

Next ==
  \/ init_cachebox
  \/ \E c \in Cmd, r \in BOOLEAN : StartCommand(c, r)
  \/ Step
  \/ LinkDown
  \/ deinit_cachebox

Spec == Init /\ [][Next]_vars
-----------------------------------------------------------------------------
TypeOK ==
  /\ bp \in [BufPool -> BufPoolType]
  /\ cmd \in [Cmd -> {"new", "queued", "done", "failed"}]
  /\ hash \subseteq Cmd /\ srv \subseteq Cmd
  /\ lock \in Worker \cup {NoWork}

One(b) == IF b THEN 1 ELSE 0

(* the worlds that hold a request they have not sent *)
Sending == {w \in SendWorker : pc[w] \notin {"none", "msg", "msgwait"}}

(* the requests sent that wait for their response *)
Pending ==
  {c \in hash : cmd[c] = "queued" /\ \A w \in Sending : data[w] # c}

At(l) == {w \in RecvWorker : pc[w] = l}

(* the responses received and not yet handled *)
Received ==
  {i \in 1..Len(work_list["recv"]) : work_list["recv"][i] # CLOSED}

MsgsHeld ==
  Cardinality(Sending) + Cardinality(Pending) + Len(work_list["recv"])
  + One(recv \in {"hdr", "payload", "body", "work"})
  + Cardinality(At("handle")) + 2 * Cardinality(At("resp"))

PayloadsHeld ==
  Cardinality({w \in Sending : ~isRead[data[w]] /\ pc[w] # "payload"})
  + Cardinality({c \in Pending : ~isRead[c]})
  + Cardinality({i \in Received : isRead[work_list["recv"][i]]})
  + One(recv = "body" \/ (recv = "work" /\ rm # CLOSED /\ isRead[rm]))
  + Cardinality({w \in At("handle") : data[w] # CLOSED /\ isRead[data[w]]})
  + Cardinality(At("resp"))

(* Both pools count exactly the buffers that a request, a response or the  *)
(* receiver holds, on the error paths too; no buffer is lost or put twice, *)
(* and the pool stays below nmax.                                          *)
BuffersAccounted ==
  /\ bp["msg"].issued = MsgsHeld
  /\ bp["payload"].issued = PayloadsHeld
  /\ \A p \in BufPool : /\ bp[p].owned = bp[p].freelist + bp[p].issued
                         /\ bp[p].owned <= nmax[p]

(* While rpc_async_request reads its message, between RPC_CHAN_LOCK and    *)
(* RPC_CHAN_UNLOCK, the response cannot have completed the command and put *)
(* the message back.                                                       *)
SenderOwnsMessage ==
  \A w \in SendWorker :
    pc[w] \in {"hdr", "body", "unlock"} => cmd[data[w]] = "queued" /\ data[w] \in hash

(* The sizes rpc_chan_init gives the pools go together: a world that waits *)
(* sees room when a buffer is free, although it looks at the number owned  *)
(* only; a payload and a work are there for every message; and the         *)
(* server's pool holds all requests, whose receiver would abort otherwise. *)
PoolsSuffice ==
  /\ bp["msg"].freelist > 0 => Room("msg", FALSE)
  /\ recv = "payload" \/ (\E w \in SendWorker : pc[w] = "payload")
       => ~MustWait("payload", TRUE)
  /\ Works("recv") <= WorkMax
  /\ Cardinality(srv) + One(srvIn # NoCmd) + 1 <= SrvMax

(* Senders that hold the lock and write to a full socket, workers that     *)
(* need the lock, the receiver that needs their buffers and the server     *)
(* that waits for the receiver never all wait for one another; neither     *)
(* does the unload.  No wake-up of a worker is lost.                       *)
NoStall ==
  /\ main = "loaded" /\ up /\ Alive /\ (\E c \in Cmd : cmd[c] = "queued")
       => ENABLED Step
  /\ main \notin Boot \cup {"loaded", "gone"} /\ Alive
       => ENABLED (Step \/ deinit_cachebox)

(* Why an assert fails, or something is used uninitialised: part of the    *)
(* initialisation has failed; vmk_SgCopyTo has failed; the connection was  *)
(* lost and the socket closed twice, or a payload put to a NULL pool; the  *)
(* connection was lost and a request that had failed is still in the table *)
(* when a response is looked up or the table is given back.  Also after a  *)
(* fault a response finds its request, and the pools are torn down after   *)
(* their last user with all their works done.                              *)
CrashExplained ==
  CASE crash = "no" -> TRUE
    [] crash \in {"init", "copy"} -> crash \in faults
    [] crash \in {"socket", "payload"} -> "link" \in faults
    [] crash \in {"stale", "table"} -> "link" \in faults /\ Stale # {}
    [] OTHER -> FALSE
=============================================================================
