------------------------------- MODULE MppIo --------------------------------
(***************************************************************************)
(* The life of a SCSI command in the multipath plugin                      *)
(* (vmware_kernel/mpp/mp_plugin_example.c): start, issue, completion,      *)
(* retry with failover, task management and SCSI-2 reservations, on one    *)
(* open device whose paths are claimed.                                    *)
(*                                                                         *)
(* The actors run in parallel: the storage stack PSA, that queues commands *)
(* and calls ExampleDeviceStartCommand; kernel threads that complete       *)
(* commands or work for the send thread pool; the start timer; the retry   *)
(* world; a world that does task management.  A step is a critical section *)
(* of the device's or the plugin's lock, or one atomic operation.          *)
(***************************************************************************)
EXTENDS Naturals, FiniteSets, Sequences

CONSTANTS
  Cmd,       \* struct ExampleCommand and its vmk_ScsiCommand
  NoCmd,
  NPaths,    \* exDev->numPaths
  NoPath,
  Cpu,       \* the threads that complete commands and run works
  Kind,      \* the commands issued, see Kinds
  MaxIssue,  \* bound: commands queued by PSA
  MaxFault   \* bound: link changes, failed allocations and task management calls

Path == 0..(NPaths - 1)

(* rw: read or write, sent over the rpc channel; sensitive: reservation    *)
(* sensitive; the others, too, are issued on a path                        *)
Kinds == {"rw", "sensitive", "reserve", "release"}

(* whoever runs the loop of ExampleDeviceStartCommand *)
Starter == Cpu \cup {"psa", "timer", "tm"}

ASSUME CountAssumption ==
  NPaths \in Nat \ {0} /\ MaxIssue \in Nat /\ MaxFault \in Nat
ASSUME NameAssumption ==
  /\ IsFiniteSet(Cmd) /\ IsFiniteSet(Cpu) /\ Kind \subseteq Kinds
  /\ NoCmd \notin Cmd /\ NoPath \notin Path
  /\ Cpu \cap {"psa", "timer", "tm"} = {}

VARIABLES
  cst,       \* where a command is, see TypeOK
  kind,      \* cmd->cdb[0] and cmd->flags
  cpath,     \* exCmd->scsiPath
  st,        \* st[e]: where e is in the loop of ExampleDeviceStartCommand
  tpath,     \* exPath of a thread in Example_CompletePathCommand
  state,     \* the path state PSA keeps: on, or dead (not on)
  link,      \* does the path reach its target?
  active,    \* activePathIndex
  refCount, pathCmds,          \* refCount and activeCmdCount of a path
  activeCmdCount, busyCount, blocked,
  timer,     \* startTimer # VMK_INVALID_TIMER
  retryQueue,
  world,     \* where the retry world is
  wcmd,      \* its command
  wpath,     \* the path ExampleDevice_AttemptFailover holds
  reserved, reserving,         \* the flags EXAMPLE_DEVICE_RESERVED, _RESERVING
  pendingReserves, resPath,    \* resInfo
  resvUpdate,                  \* resvUpdateInProgress
  cmdQ, abtQ,                  \* resvSensitiveCmdQueue, resvSensitiveAbtQueue
  tm,        \* where task management is
  issued,    \* the commands queued by PSA
  faults     \* the disturbances

cmdVars   == <<cst, kind, cpath>>
pathVars  == <<active, refCount, pathCmds>>
netVars   == <<state, link>>
countVars == <<activeCmdCount, blocked>>
timerVars == <<busyCount, timer>>
worldVars == <<world, wcmd, wpath>>
resVars   == <<reserved, reserving, pendingReserves, resPath>>
rsioVars  == <<resvUpdate, cmdQ, abtQ>>
loopVars  == <<st, tpath>>
bounds    == <<issued, faults>>
vars == <<cmdVars, pathVars, netVars, countVars, timerVars, worldVars, resVars,
          rsioVars, loopVars, retryQueue, tm, bounds>>

Init ==
  /\ cst  = [c \in Cmd |-> "idle"]
  /\ kind = [c \in Cmd |-> "none"]
  /\ cpath = [c \in Cmd |-> NoPath]
  /\ st    = [e \in Starter |-> "no"]
  /\ tpath = [k \in Cpu |-> NoPath]
  /\ state = [p \in Path |-> "on"]
  /\ link  = [p \in Path |-> TRUE]
  /\ active = 0
  /\ refCount = [p \in Path |-> 0] /\ pathCmds = [p \in Path |-> 0]
  /\ activeCmdCount = 0 /\ busyCount = 0 /\ blocked = 0
  /\ timer = FALSE
  /\ retryQueue = <<>>
  /\ world = "idle" /\ wcmd = NoCmd /\ wpath = NoPath
  /\ reserved = FALSE /\ reserving = FALSE
  /\ pendingReserves = 0 /\ resPath = NoPath
  /\ resvUpdate = FALSE /\ cmdQ = {} /\ abtQ = {}
  /\ tm = "no"
  /\ issued = 0 /\ faults = 0
-----------------------------------------------------------------------------
Count(S) == Cardinality(S)
Fault == faults < MaxFault /\ faults' = faults + 1 /\ UNCHANGED issued
At(w) == world = w

(* ExampleDeviceSchedStart: arm the timer unless it is, with a busy count *)
ExampleDeviceSchedStart ==
  /\ timer' = TRUE
  /\ busyCount' = IF timer THEN busyCount ELSE busyCount + 1

(* ExampleUpdateDevOnRel *)
ExampleUpdateDevOnRel ==
  /\ reserved' = FALSE
  /\ resPath'  = IF reserved THEN NoPath ELSE resPath
  /\ UNCHANGED <<reserving, pendingReserves>>

(* ExampleUpdateDevOnRes; it asserts pendingReserves > 0 *)
ExampleUpdateDevOnRes(p) ==
  /\ reserved' = TRUE
  /\ reserving' = FALSE
  /\ pendingReserves' = pendingReserves - 1
  /\ resPath' = p

(* fault: a reserve is counted only when the device is not reserved *)
BeginReserve_once ==
  /\ pendingReserves' = pendingReserves + IF reserved THEN 0 ELSE 1
  /\ reserving' = (reserving \/ ~reserved)
  /\ resPath'   = IF reserved THEN resPath ELSE active
  /\ UNCHANGED reserved

(* a RESERVE is issued on the active path *)
BeginReserve ==
  /\ pendingReserves' = pendingReserves + 1
  /\ reserving' = (reserving \/ ~reserved)
  /\ resPath'   = IF reserved THEN resPath ELSE active
  /\ UNCHANGED reserved

ExamplePathIncRefCount(p) == refCount' = [refCount EXCEPT ![p] = @ + 1]
ExamplePathDecRefCount(p) == refCount' = [refCount EXCEPT ![p] = @ - 1]

(* the path down which the next command goes *)
TakePath(p) ==
  /\ ExamplePathIncRefCount(p)
  /\ pathCmds' = [pathCmds EXCEPT ![p] = @ + 1]
-----------------------------------------------------------------------------
(* PSA queues a command on the device and starts the device *)
Queue(c, k) ==
  /\ cst[c] = "idle"
  /\ st["psa"] = "no"
  /\ issued < MaxIssue
  /\ issued' = issued + 1
  /\ cst'  = [cst EXCEPT ![c] = "queued"]
  /\ kind' = [kind EXCEPT ![c] = k]
  /\ st'   = [st EXCEPT !["psa"] = "check"]
  /\ UNCHANGED <<cpath, pathVars, netVars, countVars, timerVars, worldVars, resVars,
                 rsioVars, tpath, retryQueue, tm, faults>>

(* what a starter does when it leaves the loop *)
AfterStart(e) ==
  IF e = "timer" \/ (e \in Cpu /\ tpath[e] # NoPath) THEN "end" ELSE "no"

(* the loop of ExampleDeviceStartCommand: ExampleDevice_IsBlocked, ... *)
StartCheck(e) ==
  /\ st[e] = "check"
  /\ st' = [st EXCEPT ![e] = IF blocked > 0 THEN AfterStart(e) ELSE "get"]
  /\ UNCHANGED <<cmdVars, pathVars, netVars, countVars, timerVars, worldVars,
                 resVars, rsioVars, tpath, retryQueue, tm, bounds>>

(* ... then take a command and give it to the send thread pool, ... *)
StartGet(e) ==
  /\ st[e] = "get"
  /\ \E c \in Cmd :
       /\ cst[c] = "queued"
       /\ cst' = [cst EXCEPT ![c] = "work"]
  /\ st' = [st EXCEPT ![e] = "check"]
  /\ UNCHANGED <<kind, cpath, pathVars, netVars, countVars, timerVars, worldVars,
                 resVars, rsioVars, tpath, retryQueue, tm, bounds>>

(* ... or leave when the queue is empty ... *)
StartEmpty(e) ==
  /\ st[e] = "get"
  /\ \A c \in Cmd : cst[c] # "queued"
  /\ st' = [st EXCEPT ![e] = AfterStart(e)]
  /\ UNCHANGED <<cmdVars, pathVars, netVars, countVars, timerVars, worldVars,
                 resVars, rsioVars, tpath, retryQueue, tm, bounds>>

(* ... or when ExampleAllocateExCommand fails: try again from the timer *)
StartNoMem(e) ==
  /\ st[e] = "get"
  /\ Fault
  /\ st'   = [st EXCEPT ![e] = AfterStart(e)]
  /\ ExampleDeviceSchedStart
  /\ UNCHANGED <<cmdVars, pathVars, netVars, countVars, worldVars, resVars, rsioVars,
                 tpath, retryQueue, tm>>

(* ExampleDeviceStartFromTimer, up to the loop *)
ExampleDeviceStartFromTimer ==
  /\ timer
  /\ st["timer"] = "no"
  /\ timer' = FALSE
  /\ st'    = [st EXCEPT !["timer"] = "check"]
  /\ UNCHANGED <<cmdVars, pathVars, netVars, countVars, busyCount, worldVars,
                 resVars, rsioVars, tpath, retryQueue, tm, bounds>>

(* ... and after it *)
TimerEnd ==
  /\ st["timer"] = "end"
  /\ busyCount' = busyCount - 1
  /\ st' = [st EXCEPT !["timer"] = "no"]
  /\ UNCHANGED <<cmdVars, pathVars, netVars, countVars, timer, worldVars, resVars,
                 rsioVars, tpath, retryQueue, tm, bounds>>
-----------------------------------------------------------------------------
(***************************************************************************)
(* ExampleIssueCommand, by a worker of the send thread pool.  A read or    *)
(* write goes over the rpc channel (should_cb_handle), and has a path all  *)
(* the same.  When the call that issues the command fails, ExampleIssueFail*)
(* has it completed with an error, which is what Complete does.            *)
(***************************************************************************)
ExampleIssueCommand(c) ==
  /\ cst[c] = "work"
  /\ ~(kind[c] = "sensitive" /\ resvUpdate)
  /\ activeCmdCount' = activeCmdCount + 1
  /\ cst'   = [cst EXCEPT ![c] = IF kind[c] = "rw" THEN "rpc" ELSE "path"]
  /\ cpath' = [cpath EXCEPT ![c] = active]
  /\ TakePath(active)
  /\ cmdQ' = IF kind[c] = "sensitive" THEN cmdQ \cup {c} ELSE cmdQ
  /\ IF kind[c] = "reserve" THEN BeginReserve ELSE UNCHANGED resVars
  /\ UNCHANGED <<kind, active, netVars, blocked, timerVars, worldVars, resvUpdate, abtQ,
                 loopVars, retryQueue, tm, bounds>>

(* a reservation sensitive command during a reservation update is queued   *)
(* as if it were being aborted, with no path                               *)
IssueLost(c) ==
  /\ cst[c] = "work"
  /\ kind[c] = "sensitive" /\ resvUpdate
  /\ activeCmdCount' = activeCmdCount + 1
  /\ cst'  = [cst EXCEPT ![c] = "lost"]
  /\ abtQ' = abtQ \cup {c}
  /\ UNCHANGED <<kind, cpath, pathVars, netVars, blocked, timerVars, worldVars,
                 resVars, resvUpdate, cmdQ, loopVars, retryQueue, tm, bounds>>

(* ExampleCompleteDeviceCommand by e, up to its last call, which restarts  *)
(* the device                                                              *)
ExampleCompleteDeviceCommand(e, c) ==
  /\ cst'   = [cst EXCEPT ![c] = "idle"]
  /\ kind'  = [kind EXCEPT ![c] = "none"]
  /\ cpath' = [cpath EXCEPT ![c] = NoPath]
  /\ activeCmdCount' = activeCmdCount - 1
  /\ cmdQ'  = cmdQ \ {c}
  /\ abtQ'  = abtQ \ {c}
  /\ st'    = [st EXCEPT ![e] = "check"]
  /\ UNCHANGED resvUpdate

(* neither resp_read_cmd nor resp_write_cmd looks at the status of the     *)
(* response: the command is good                                           *)
RespOutcome == {"ok"}

(* read_cmd or write_cmd cannot send: ExampleIssueFail lets PSA requeue it *)
SendOutcome == {"error"}

(* ... on a path, issued or not; por: the sense data say power-on or reset *)
PathOutcome(p) == IF link[p] THEN {"ok", "error", "por"} ELSE {"noconnect", "error"}

Outcome(c) ==
  IF cst[c] = "rpc" THEN RespOutcome \cup SendOutcome ELSE PathOutcome(cpath[c])

(* fault: reservation sensitive commands, too, are retried *)
ToRetry_all(c, o) == o = "noconnect"

(* Example_PathDetermineFailure: retry, unless it is reservation sensitive *)
ToRetry(c, o) == o = "noconnect" /\ kind[c] # "sensitive"

(***************************************************************************)
(* Example_CompletePathCommand.  A command that finds its path dead will   *)
(* be retried: first the device is blocked, ...                            *)
(***************************************************************************)
Example_CompletePathCommand(c, o) ==
  /\ cst[c] \in {"path", "rpc"}
  /\ o \in Outcome(c)
  /\ cst' = [cst EXCEPT ![c] = IF ToRetry(c, o) THEN "failed" ELSE "done"]
  /\ blocked' = blocked + IF ToRetry(c, o) THEN 1 ELSE 0
  /\ state' = CASE o = "ok"        -> [state EXCEPT ![cpath[c]] = "on"]
                [] o = "noconnect" -> [state EXCEPT ![cpath[c]] = "dead"]
                [] OTHER           -> state
  /\ CASE o = "ok" /\ kind[c] = "reserve" -> ExampleUpdateDevOnRes(cpath[c])
       [] o = "ok" /\ kind[c] = "release" -> ExampleUpdateDevOnRel
       [] o = "por"                       -> ExampleUpdateDevOnRel
       [] OTHER                           -> UNCHANGED resVars
  /\ UNCHANGED <<kind, cpath, pathVars, link, activeCmdCount, timerVars, worldVars,
                 rsioVars, loopVars, retryQueue, tm, bounds>>

(* ... then ExampleQueueCmdToRetry wakes the retry world; ... *)
ExampleQueueCmdToRetry(k, c) ==
  /\ cst[c] = "failed"
  /\ st[k] = "no"
  /\ retryQueue' = Append(retryQueue, c)
  /\ cst'   = [cst EXCEPT ![c] = "retry"]
  /\ st'    = [st EXCEPT ![k] = "end"]
  /\ tpath' = [tpath EXCEPT ![k] = cpath[c]]
  /\ cpath' = [cpath EXCEPT ![c] = NoPath]
  /\ UNCHANGED <<kind, pathVars, netVars, countVars, timerVars, worldVars, resVars,
                 rsioVars, tm, bounds>>

(* ... any other one is completed, with its error if it has one *)
CompleteDone(k, c) ==
  /\ cst[c] = "done"
  /\ st[k] = "no"
  /\ tpath' = [tpath EXCEPT ![k] = cpath[c]]
  /\ ExampleCompleteDeviceCommand(k, c)
  /\ UNCHANGED <<pathVars, netVars, blocked, timerVars, worldVars, resVars, retryQueue,
                 tm, bounds>>

(* deref_count: the thread gives its path back *)
DerefCount(k) ==
  /\ st[k] = "end"
  /\ ExamplePathDecRefCount(tpath[k])
  /\ pathCmds' = [pathCmds EXCEPT ![tpath[k]] = @ - 1]
  /\ tpath' = [tpath EXCEPT ![k] = NoPath]
  /\ st'    = [st EXCEPT ![k] = "no"]
  /\ UNCHANGED <<cmdVars, active, netVars, countVars, timerVars, worldVars, resVars,
                 rsioVars, retryQueue, tm, bounds>>

(* the worker completes the command of IssueLost *)
CompleteLost(k, c) ==
  /\ cst[c] = "lost"
  /\ st[k] = "no"
  /\ ExampleCompleteDeviceCommand(k, c)
  /\ UNCHANGED <<pathVars, netVars, blocked, timerVars, worldVars, resVars, tpath,
                 retryQueue, tm, bounds>>
-----------------------------------------------------------------------------
(***************************************************************************)
(* Example_RetryWorld: take a command from the retry queue, fail over if   *)
(* the active path is not on, issue the command again, unblock the device. *)
(***************************************************************************)
Dequeue ==
  /\ At("idle")
  /\ retryQueue # <<>>
  /\ wcmd' = Head(retryQueue)
  /\ retryQueue' = Tail(retryQueue)
  /\ cst'   = [cst EXCEPT ![Head(retryQueue)] = "world"]
  /\ world' = "pick"
  /\ UNCHANGED <<kind, cpath, pathVars, netVars, countVars, timerVars, wpath,
                 resVars, rsioVars, loopVars, tm, bounds>>

(* failoverNeeded *)
Pick ==
  /\ At("pick")
  /\ world' = IF state[active] # "on" /\ NPaths # 1 THEN "failover" ELSE "retry"
  /\ UNCHANGED <<cmdVars, pathVars, netVars, countVars, timerVars, wcmd, wpath,
                 resVars, rsioVars, loopVars, retryQueue, tm, bounds>>

(* the first path after the active one that is on, or else the next one *)
ExampleGetFailoverPathIndex ==
  LET after(p) == (p + NPaths - active) % NPaths
      others   == Path \ {active}
      on       == {p \in others : state[p] = "on"}
      from     == IF on = {} THEN others ELSE on
  IN  CHOOSE p \in from : \A q \in from : after(p) <= after(q)

(* ExampleDevice_AttemptFailover holds the new path, then looks whether a  *)
(* reservation is left on another one (ExampleUpdateResvOnFailover)        *)
ExampleDevice_AttemptFailover ==
  LET p == ExampleGetFailoverPathIndex
  IN  /\ At("failover")
      /\ active' = p
      /\ wpath'  = p
      /\ ExamplePathIncRefCount(p)
      /\ world' = "resv"
      /\ UNCHANGED <<cmdVars, pathCmds, netVars, countVars, timerVars, wcmd, resVars,
                     rsioVars, loopVars, retryQueue, tm, bounds>>

ExampleUpdateResvOnFailover ==
  /\ At("resv")
  /\ world' = IF (reserved \/ reserving) /\ resPath # wpath THEN "abort" ELSE "deref"
  /\ UNCHANGED <<cmdVars, pathVars, netVars, countVars, timerVars, wcmd, wpath,
                 resVars, rsioVars, loopVars, retryQueue, tm, bounds>>

(* ExampleAbortAllRSIOs: an abort is sent for each command, which is moved *)
(* to the other queue ...                                                  *)
AbortOne ==
  /\ At("abort")
  /\ resvUpdate' = TRUE
  /\ \E c \in cmdQ : cmdQ' = cmdQ \ {c} /\ abtQ' = abtQ \cup {c}
  /\ UNCHANGED <<cmdVars, pathVars, netVars, countVars, timerVars, worldVars,
                 resVars, loopVars, retryQueue, tm, bounds>>

(* ... and if some are left, wait for a completion or for five seconds ... *)
AbortWait ==
  /\ At("abort")
  /\ cmdQ = {} /\ abtQ # {}
  /\ resvUpdate' = TRUE
  /\ cmdQ' = abtQ /\ abtQ' = {}
  /\ world' = "wait"
  /\ UNCHANGED <<cmdVars, pathVars, netVars, countVars, timerVars, wcmd, wpath,
                 resVars, loopVars, retryQueue, tm, bounds>>

(* ... to try again *)
AbortAgain ==
  /\ At("wait")
  /\ world' = "abort"
  /\ UNCHANGED <<cmdVars, pathVars, netVars, countVars, timerVars, wcmd, wpath,
                 resVars, rsioVars, loopVars, retryQueue, tm, bounds>>

(* all are gone: the update is over *)
AbortEnd ==
  /\ At("abort")
  /\ cmdQ = {} /\ abtQ = {}
  /\ resvUpdate' = FALSE
  /\ world' = "reset"
  /\ UNCHANGED <<cmdVars, pathVars, netVars, countVars, timerVars, wcmd, wpath,
                 resVars, cmdQ, abtQ, loopVars, retryQueue, tm, bounds>>

(* the reset of the unit down the new path: it succeeds or not *)
Reset ==
  /\ At("reset")
  /\ ExampleUpdateDevOnRel \/ UNCHANGED resVars
  /\ world' = "deref"
  /\ UNCHANGED <<cmdVars, pathVars, netVars, countVars, timerVars, wcmd, wpath,
                 rsioVars, loopVars, retryQueue, tm, bounds>>

(* fault: the path is not given back *)
FailoverEnd_held ==
  /\ At("deref")
  /\ wpath' = NoPath
  /\ world' = "retry"
  /\ UNCHANGED <<cmdVars, pathVars, netVars, countVars, timerVars, wcmd, resVars,
                 rsioVars, loopVars, retryQueue, tm, bounds>>

FailoverEnd ==
  /\ At("deref")
  /\ ExamplePathDecRefCount(wpath)
  /\ wpath' = NoPath
  /\ world' = "retry"
  /\ UNCHANGED <<cmdVars, active, pathCmds, netVars, countVars, timerVars, wcmd,
                 resVars, rsioVars, loopVars, retryQueue, tm, bounds>>

(* a busy count on the device, then ExampleRetryCmd: always down the path *)
ExampleRetryCmd ==
  /\ At("retry")
  /\ busyCount' = busyCount + 1
  /\ cst'   = [cst EXCEPT ![wcmd] = "path"]
  /\ cpath' = [cpath EXCEPT ![wcmd] = active]
  /\ TakePath(active)
  /\ wcmd'  = NoCmd
  /\ world' = "unblock"
  /\ UNCHANGED <<kind, active, netVars, countVars, timer, wpath, resVars, rsioVars,
                 loopVars, retryQueue, tm, bounds>>

(* fault: the count is compared after the decrement, with one *)
ExampleDevice_Unblock_late ==
  /\ At("unblock")
  /\ blocked' = blocked - 1
  /\ world' = IF blocked' = 1 THEN "sched" ELSE "unbusy"
  /\ UNCHANGED <<cmdVars, pathVars, netVars, activeCmdCount, timerVars, wcmd, wpath,
                 resVars, rsioVars, loopVars, retryQueue, tm, bounds>>

(* ExampleDevice_Unblock: the last one schedules the start of the device *)
ExampleDevice_Unblock ==
  /\ At("unblock")
  /\ blocked' = blocked - 1
  /\ world' = IF blocked = 1 THEN "sched" ELSE "unbusy"
  /\ UNCHANGED <<cmdVars, pathVars, netVars, activeCmdCount, timerVars, wcmd, wpath,
                 resVars, rsioVars, loopVars, retryQueue, tm, bounds>>

Sched ==
  /\ At("sched")
  /\ ExampleDeviceSchedStart
  /\ world' = "unbusy"
  /\ UNCHANGED <<cmdVars, pathVars, netVars, countVars, wcmd, wpath, resVars,
                 rsioVars, loopVars, retryQueue, tm, bounds>>

ExampleDeviceDecBusyCount ==
  /\ At("unbusy")
  /\ busyCount' = busyCount - 1
  /\ world' = "idle"
  /\ UNCHANGED <<cmdVars, pathVars, netVars, countVars, timer, wcmd, wpath, resVars,
                 rsioVars, loopVars, retryQueue, tm, bounds>>
-----------------------------------------------------------------------------
(* the commands A leave the retry queue, which keeps its order *)
TakeFromRetryQueue(A) ==
  LET kept == {i \in DOMAIN retryQueue : retryQueue[i] \notin A}
  IN  \E f \in [1..Count(kept) -> kept] :
        /\ \A i, j \in DOMAIN f : i < j => f[i] < f[j]
        /\ retryQueue' = [i \in DOMAIN f |-> retryQueue[f[i]]]

(* fault: the device stays blocked for the commands that are taken out *)
TakeAborts_blocked(A) ==
  /\ tm = "no"
  /\ Fault
  /\ TakeFromRetryQueue(A)
  /\ cst' = [c \in Cmd |-> IF c \in A THEN "abort" ELSE cst[c]]
  /\ tm' = "abort"
  /\ UNCHANGED <<kind, cpath, pathVars, netVars, countVars, timerVars, worldVars, resVars,
                 rsioVars, loopVars>>

(***************************************************************************)
(* ExampleDeviceTaskManagement: under the plugin's lock the commands A it  *)
(* aborts leave the retry queue, each with an ExampleDevice_Unblock ...    *)
(***************************************************************************)
TakeAborts(A) ==
  /\ tm = "no"
  /\ Fault
  /\ TakeFromRetryQueue(A)
  /\ cst' = [c \in Cmd |-> IF c \in A THEN "abort" ELSE cst[c]]
  /\ blocked' = blocked - Count(A)
  /\ IF A # {} /\ blocked = Count(A)
     THEN ExampleDeviceSchedStart ELSE UNCHANGED timerVars
  /\ tm' = "abort"
  /\ UNCHANGED <<kind, cpath, pathVars, netVars, activeCmdCount, worldVars, resVars,
                 rsioVars, loopVars>>

(* ... are completed one by one ... *)
CompleteAborted(c) ==
  /\ tm = "abort"
  /\ st["tm"] = "no"
  /\ cst[c] = "abort"
  /\ ExampleCompleteDeviceCommand("tm", c)
  /\ UNCHANGED <<pathVars, netVars, blocked, timerVars, worldVars, resVars, tpath,
                 retryQueue, tm, bounds>>

(* ... and the request is sent down the paths; a reset ends a reservation *)
TmPaths ==
  /\ tm = "abort"
  /\ st["tm"] = "no"
  /\ \A c \in Cmd : cst[c] # "abort"
  /\ tm' = "no"
  /\ ExampleUpdateDevOnRel \/ UNCHANGED resVars
  /\ UNCHANGED <<cmdVars, pathVars, netVars, countVars, timerVars, worldVars,
                 rsioVars, loopVars, retryQueue, bounds>>

(* a link fails or comes back; one always works *)
LinkChange(p) ==
  /\ Fault
  /\ link' = [link EXCEPT ![p] = ~@]
  /\ \E q \in Path : link'[q]
  /\ UNCHANGED <<cmdVars, pathVars, state, countVars, timerVars, worldVars, resVars,
                 rsioVars, loopVars, retryQueue, tm>>

(* the state of a path after the TUR of a probe *)
ExampleUpdatePathState(p) == IF link[p] THEN "on" ELSE "dead"

ExampleProbePath(p) ==
  /\ state' = [state EXCEPT ![p] = ExampleUpdatePathState(p)]
  /\ UNCHANGED <<cmdVars, pathVars, link, countVars, timerVars, worldVars, resVars,
                 rsioVars, loopVars, retryQueue, tm, bounds>>

StartStep(e) == StartCheck(e) \/ StartGet(e) \/ StartEmpty(e) \/ StartNoMem(e)

CmdStep(c) ==
  \/ ExampleIssueCommand(c) \/ IssueLost(c)
  \/ \E o \in {"ok", "error", "por", "noconnect"} : Example_CompletePathCommand(c, o)
  \/ \E k \in Cpu :
       ExampleQueueCmdToRetry(k, c) \/ CompleteDone(k, c) \/ CompleteLost(k, c)

CpuStep(k) == StartStep(k) \/ DerefCount(k)

TimerStep == StartStep("timer") \/ ExampleDeviceStartFromTimer \/ TimerEnd

TmStep == StartStep("tm") \/ TmPaths \/ \E c \in Cmd : CompleteAborted(c)

WorldStep ==
  \/ Dequeue \/ Pick \/ ExampleDevice_AttemptFailover \/ ExampleUpdateResvOnFailover
  \/ AbortOne \/ AbortWait \/ AbortAgain \/ AbortEnd \/ Reset \/ FailoverEnd
  \/ ExampleRetryCmd \/ ExampleDevice_Unblock \/ Sched \/ ExampleDeviceDecBusyCount

Next ==
  \/ \E c \in Cmd : CmdStep(c) \/ \E k \in Kind : Queue(c, k)
  \/ \E k \in Cpu : CpuStep(k)
  \/ StartStep("psa") \/ TimerStep \/ TmStep \/ WorldStep
  \/ \E A \in SUBSET {c \in Cmd : cst[c] = "retry"} : TakeAborts(A)
  \/ \E p \in Path : LinkChange(p) \/ ExampleProbePath(p)

Spec == Init /\ [][Next]_vars

(***************************************************************************)
(* The threads, worlds and the timer run, and an adapter completes every   *)
(* command it was given.  The rpc channel need not: nothing completes the  *)
(* reads and writes that are pending when its connection closes.  PSA need *)
(* not queue commands, and a path need not be probed.                      *)
(***************************************************************************)
Fairness ==
  /\ \A c \in Cmd : WF_vars(cst[c] # "rpc" /\ CmdStep(c))
  /\ \A k \in Cpu : WF_vars(CpuStep(k))
  /\ WF_vars(StartStep("psa")) /\ WF_vars(TimerStep) /\ WF_vars(TmStep)
  /\ WF_vars(WorldStep)

FairSpec == Spec /\ Fairness
-----------------------------------------------------------------------------
(* Types of the variables. *)
TypeOK ==
  /\ cst   \in [Cmd -> {"idle", "queued", "work", "path", "rpc", "lost", "done", "failed",
                        "retry", "world", "abort"}]
  /\ kind  \in [Cmd -> Kind \cup {"none"}] /\ cpath \in [Cmd -> Path \cup {NoPath}]
  /\ st    \in [Starter -> {"no", "check", "get", "end"}]
  /\ tpath \in [Cpu -> Path \cup {NoPath}]
  /\ state \in [Path -> {"on", "dead"}] /\ link \in [Path -> BOOLEAN]
  /\ active \in Path
  /\ refCount \in [Path -> Nat] /\ pathCmds \in [Path -> Nat]
  /\ {activeCmdCount, busyCount, blocked, pendingReserves} \subseteq Nat
  /\ {timer, reserved, reserving, resvUpdate} \subseteq BOOLEAN
  /\ retryQueue \in Seq(Cmd)
  /\ world \in {"idle", "pick", "failover", "resv", "abort", "wait", "reset", "deref",
                "retry", "unblock", "sched", "unbusy"}
  /\ wcmd \in Cmd \cup {NoCmd} /\ {wpath, resPath} \subseteq Path \cup {NoPath}
  /\ cmdQ \subseteq Cmd /\ abtQ \subseteq Cmd
  /\ tm \in {"no", "abort"}
  /\ issued \in 0..MaxIssue /\ faults \in 0..MaxFault

Outstanding == {c \in Cmd : cst[c] \notin {"idle", "queued", "work"}}

(* The block count is the number of commands that wait for the retry world *)
(* or are on their way to it: the device is not blocked for good, and no   *)
(* retry finds it unblocked (the asserts of ExampleDevice_Unblock,         *)
(* ExampleRetryCmd, ExampleDevice_AttemptFailover, ExampleAbortAllRSIOs).  *)
BlockedByRetries ==
  blocked = Len(retryQueue) + Count({c \in Cmd : cst[c] = "failed"})
            + IF world \in {"idle", "sched", "unbusy"} THEN 0 ELSE 1

(* A path's counts are those of its users, so it can be unclaimed when     *)
(* they drop to zero: the commands issued on it, the threads that have     *)
(* completed one and still hold the path, and the failover that chose it.  *)
PathCounts ==
  \A p \in Path :
    LET cmds == Count({c \in Cmd : cpath[c] = p}) + Count({k \in Cpu : tpath[k] = p})
    IN  /\ pathCmds[p] = cmds
        /\ refCount[p] = cmds + IF wpath = p THEN 1 ELSE 0

(* The device's counts: its commands, and the timers and worlds that will  *)
(* still touch it.                                                         *)
DeviceCounts ==
  /\ activeCmdCount = Count(Outstanding)
  /\ busyCount = (IF timer THEN 1 ELSE 0) + (IF st["timer"] # "no" THEN 1 ELSE 0)
                 + (IF world \in {"unblock", "sched", "unbusy"} THEN 1 ELSE 0)

(* What ExampleUnclaimPath destroys once its counts are zero has no user   *)
(* left, and what has no user left does not keep it waiting: the counts of *)
(* every path and of the device are those of their users, on the failure   *)
(* paths too.                                                              *)
CountsHeld == PathCounts /\ DeviceCounts

(* A command in the device's queue is never forgotten: somebody is in the  *)
(* loop of ExampleDeviceStartCommand, the timer is armed, or the device is *)
(* blocked or about to be started by ExampleDevice_Unblock.                *)
NobodyForgotten ==
  (\E c \in Cmd : cst[c] = "queued") =>
    \/ blocked > 0 \/ timer \/ At("sched")
    \/ \E e \in Starter : st[e] \in {"check", "get"}

(* The two queues hold exactly the outstanding reservation sensitive       *)
(* commands, each once, and none of those is ever retried.                 *)
SensitiveTracked ==
  /\ cmdQ \cap abtQ = {}
  /\ cmdQ \cup abtQ = {c \in Outstanding : kind[c] = "sensitive"}
  /\ \A c \in Cmd :
       cst[c] \in {"failed", "retry", "world", "abort"} => kind[c] # "sensitive"

(* ExampleUpdateDevOnRes never finds pendingReserves at zero.  (The count  *)
(* may be too high: a RESERVE that fails is never uncounted.)              *)
ReservesCounted ==
  pendingReserves >= Count({c \in Outstanding : kind[c] = "reserve" /\ cst[c] # "done"})

(* Every command the device was given, other than a read or write, is      *)
(* completed, through failures of links, lost allocations, failovers with  *)
(* ExampleAbortAllRSIOs, retries and task management.                      *)
Completed == \A c \in Cmd : cst[c] = "queued" /\ kind[c] # "rw" ~> cst[c] = "idle"

(* ExampleUpdateResvOnFailover: "If there are reservation sensitive IO's   *)
(* outstanding we do not want to issue logical unit reset down the newly   *)
(* selected path."                                                         *)
ResetFindsNoSensitive ==
  At("reset") => \A c \in Outstanding : kind[c] # "sensitive"
=============================================================================
