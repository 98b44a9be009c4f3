------------------------------ MODULE MppPaths ------------------------------
(***************************************************************************)
(* The life of devices and paths in the multipath plugin                   *)
(* (vmware_kernel/mpp/mp_plugin_example.c): paths are claimed, probed,     *)
(* turned on and off and unclaimed, devices are created, registered,       *)
(* opened and destroyed, while commands are in flight, retried, failed     *)
(* over and aborted.                                                       *)
(*                                                                         *)
(* The storage stack PSA is external.  As the comments of the source say,  *)
(* it serialises pathClaim*, pathUnclaim, pathProbe and pathSetState: they *)
(* are one actor, mg.  It does not unclaim a path while a command is being *)
(* issued on it, closes a device after its commands are done, and unloads  *)
(* the module after the last path is unclaimed.  Everything else runs in   *)
(* parallel.  A step is a critical section of a device's or a path's lock. *)
(*                                                                         *)
(* A freed ExampleDevice is not reused by the model: whoever still uses it *)
(* leaves its mark in stale.                                               *)
(***************************************************************************)
EXTENDS MppModule, FiniteSets, FiniteSetsExt

CONSTANTS
  Path,         \* struct vmk_ScsiPath and its ExamplePath
  NoPath,
  Dev,          \* struct ExampleDevice, 1 .. the number ever made
  NoDev,
  Cmd,          \* commands on the device
  NoCmd,
  MaxPaths,     \* EXAMPLE_MAX_PATHS_PER_DEVICE
  maxDevices,
  Answer,       \* what a probe can find: "on", "standby", "dead"
  MaxOp         \* bound: calls by users and by PSA

ASSUME PathsAssumption ==
  /\ MaxPaths \in Nat \ {0} /\ maxDevices \in Nat \ {0} /\ MaxOp \in Nat
  /\ MaxFault \in Nat
  /\ Answer \subseteq {"on", "standby", "dead"}
  /\ IsFiniteSet(Path) /\ IsFiniteSet(Cmd) /\ IsFiniteSet(Dev) /\ Dev \subseteq Nat
  /\ NoPath \notin Path /\ NoDev \notin Dev /\ NoCmd \notin Cmd

Index  == 0..(MaxPaths - 1)
Prober == {"mg", "dp"}   \* PSA's path operations, PSA's probes of a device

(* the UID the paths of an array share, or one made from the path's name *)
Uid == {"standard"} \cup Path

VARIABLES
  createdDevices,  \* [0..maxDevices-1 -> Dev or NoDev]
  dev,             \* the devices, see Blank
  path,            \* the paths, see Init
  plugin,          \* enabled, or claiming
  mg,              \* the path operation: pc, p, d, i, working
  pr,              \* the probes: pc, p, d, i, own (is it a device's probe?),
                   \* ok (VMK_OK, where somebody looks)
  user,            \* who has the device open: pc, d, p, i
  cmd,             \* the commands: pc, d, p
  comp,            \* the thread that completes a command: pc, d, p
  direct,          \* a command on a path: pc, p
  rw,              \* the retry world: pc, c, d, p, q
  retryQueue,
  tm,              \* the timer's callback: the device, or NoDev
  stale,           \* the places that used what was freed
  ops

objVars  == <<createdDevices, dev, path>>
psaVars  == <<plugin, mg>>
cmdVars  == <<cmd, retryQueue>>
vars == <<modVars, faults, objVars, psaVars, pr, user, cmdVars, comp, direct, rw,
          tm, stale, ops>>

Blank == [st |-> "unused", uid |-> "standard", paths |-> [i \in Index |-> NoPath],
          n |-> 0, active |-> 0, open |-> 0, busy |-> 0, timer |-> FALSE,
          probe |-> FALSE, known |-> FALSE, reg |-> FALSE,
          removing |-> FALSE, update |-> FALSE]
Idle == [pc |-> "idle", p |-> NoPath, d |-> NoDev]

Init ==
  /\ ModuleInit
  /\ createdDevices = [i \in 0..(maxDevices - 1) |-> NoDev]
  /\ dev  = [d \in Dev |-> Blank]
  /\ path = [p \in Path |-> [ex |-> FALSE, d |-> NoDev, ref |-> 0, cmds |-> 0,
                             state |-> "dead"]]
  /\ plugin = "enabled"
  /\ mg   = [pc |-> "idle", p |-> NoPath, d |-> NoDev, i |-> 0, working |-> FALSE]
  /\ pr   = [e \in Prober |-> [pc |-> "idle", p |-> NoPath, d |-> NoDev, i |-> 0,
                               own |-> FALSE, ok |-> TRUE]]
  /\ user = [pc |-> "out", p |-> NoPath, d |-> NoDev, i |-> 0]
  /\ cmd  = [c \in Cmd |-> Idle]
  /\ comp = [c \in Cmd |-> Idle]
  /\ direct = [pc |-> "idle", p |-> NoPath]
  /\ rw   = [pc |-> "idle", c |-> NoCmd, d |-> NoDev, p |-> NoPath, q |-> NoPath]
  /\ retryQueue = <<>>
  /\ tm = NoDev
  /\ stale = {}
  /\ ops = 0
-----------------------------------------------------------------------------
Up == phase = "up"
Op == Up /\ ops < MaxOp /\ ops' = ops + 1
Alive(d) == dev[d].st = "live"
AtRest(p) == path[p].ex /\ mg.pc = "idle"

ExamplePathIncRefCount(f, p) == [f EXCEPT ![p].ref = @ + 1]
ExamplePathDecRefCount(f, p) == [f EXCEPT ![p].ref = @ - 1]
TakePath(f, p) == [f EXCEPT ![p].ref = @ + 1, ![p].cmds = @ + 1]
DropPath(f, p) == [f EXCEPT ![p].ref = @ - 1, ![p].cmds = @ - 1]

(* a mark where device d is used, if it is gone *)
Marked(site, d) == IF Alive(d) THEN {} ELSE {site}

Active(d) == dev[d].paths[dev[d].active]

(* ExampleGetFailoverPathIndex: the next path that is on, else the next    *)
(* path, else the same; dist counts from the active path                   *)
ExampleGetFailoverPathIndex(d) ==
  LET dist(i) == (i + MaxPaths - dev[d].active) % MaxPaths
      first(S) == CHOOSE i \in S : \A j \in S : dist(i) <= dist(j)
      others == {i \in Index : i # dev[d].active /\ dev[d].paths[i] # NoPath}
      on == {i \in others : path[dev[d].paths[i]].state = "on"}
  IN  CASE on # {} -> first(on)
        [] on = {} /\ others # {} -> first(others)
        [] OTHER -> dev[d].active

(* the loops over exDev->paths: the next slot that is used *)
Used(d, i)  == {j \in Index : j >= i /\ dev[d].paths[j] # NoPath}

(* ExampleHasMoreWorkingPaths: a path other than p is on or in standby *)
HasMoreWorkingPaths(p) ==
  LET d == path[p].d IN
  /\ dev[d].n # 1
  /\ \E i \in Index : /\ dev[d].paths[i] \notin {NoPath, p}
                      /\ path[dev[d].paths[i]].state \in {"on", "standby"}

(* ExampleDeviceSchedStart *)
ExampleDeviceSchedStart(f, d) ==
  IF f[d].timer THEN f ELSE [f EXCEPT ![d].timer = TRUE, ![d].busy = @ + 1]

-----------------------------------------------------------------------------
(* PSA offers paths *)
ExamplePathClaimBegin ==
  /\ Up /\ mg.pc = "idle" /\ plugin = "enabled"
  /\ plugin' = "claim"
  /\ UNCHANGED <<modVars, faults, objVars, mg, pr, user, cmdVars, comp, direct, rw,
                 tm, stale, ops>>

(* ExampleCreateExPath: PSA's state of a new path is dead *)
NewExPath(p) ==
  path' = [path EXCEPT ![p] = [ex |-> TRUE, d |-> NoDev, ref |-> 0, cmds |-> 0,
                               state |-> "dead"]]

Free   == {i \in 1..(maxDevices - 1) : createdDevices[i] = NoDev}
Unused == {d \in Dev : dev[d].st = "unused"}

(* ExampleCreateDevice, in the first free slot but 0 *)
ExampleCreateDevice(d, u) ==
  /\ dev' = [dev EXCEPT ![d] = [Blank EXCEPT !.st = "live", !.uid = u]]
  /\ createdDevices' = [createdDevices EXCEPT ![Min(Free)] = d]

(* ExampleClaimPath, up to deviceSema's unlock: find or make the device;   *)
(* with no slot left the path is not claimed                               *)
ExampleClaimPath(p, u) ==
  /\ Up /\ mg.pc = "idle" /\ plugin = "claim" /\ ~path[p].ex
  /\ u \in {"standard", p}
  /\ LET same == {d \in Dev : Alive(d) /\ dev[d].uid = u} IN
     \/ /\ same # {}
        /\ mg' = [mg EXCEPT !.pc = "add", !.p = p, !.d = Min(same)]
        /\ NewExPath(p)
        /\ UNCHANGED <<dev, createdDevices>>
     \/ /\ same = {} /\ Free # {} /\ Unused # {}
        /\ mg' = [mg EXCEPT !.pc = "add", !.p = p, !.d = Min(Unused)]
        /\ NewExPath(p)
        /\ ExampleCreateDevice(Min(Unused), u)
     \/ /\ same = {} /\ Free = {}
        /\ UNCHANGED <<mg, objVars>>
  /\ UNCHANGED <<modVars, faults, plugin, pr, user, cmdVars, comp, direct, rw, tm,
                 stale, ops>>

(* ... add the path to the device, or give up when it has too many *)
ClaimAdd ==
  /\ mg.pc = "add"
  /\ LET d == mg.d
         room == {i \in Index : dev[d].paths[i] = NoPath}
     IN  IF room = {}
         THEN /\ path' = [path EXCEPT ![mg.p].ex = FALSE]
              /\ mg' = [mg EXCEPT !.pc = "idle", !.p = NoPath, !.d = NoDev]
              /\ UNCHANGED dev
         ELSE /\ dev'  = [dev EXCEPT ![d].paths[Min(room)] = mg.p, ![d].n = @ + 1]
              /\ path' = [path EXCEPT ![mg.p].d = d]
              /\ mg'   = [mg EXCEPT !.pc = "update"]
  /\ UNCHANGED <<modVars, faults, createdDevices, plugin, pr, user, cmdVars, comp,
                 direct, rw, tm, stale, ops>>

(* ... and let ExamplePathClaimEnd probe a device that is in use *)
ClaimUpdate ==
  /\ mg.pc = "update"
  /\ dev' = [dev EXCEPT ![mg.d].update = @ \/ dev[mg.d].reg]
  /\ mg'  = [mg EXCEPT !.pc = "idle", !.p = NoPath, !.d = NoDev]
  /\ UNCHANGED <<modVars, faults, createdDevices, path, plugin, pr, user, cmdVars,
                 comp, direct, rw, tm, stale, ops>>

(* ExamplePathClaimEnd: no more paths; for each device ... *)
ExamplePathClaimEnd ==
  /\ mg.pc = "idle" /\ plugin = "claim"
  /\ plugin' = "enabled"
  /\ mg' = [mg EXCEPT !.pc = "end", !.i = 0]
  /\ UNCHANGED <<modVars, faults, objVars, pr, user, cmdVars, comp, direct, rw, tm,
                 stale, ops>>

(* the devices it still has to see to: new ones, and those with a new path *)
Due == {i \in mg.i..(maxDevices - 1) :
          LET d == createdDevices[i] IN
          d # NoDev /\ (~dev[d].reg \/ dev[d].update)}

EndDone ==
  /\ mg.pc = "end" /\ Due = {}
  /\ mg' = [mg EXCEPT !.pc = "idle", !.i = 0]
  /\ UNCHANGED <<modVars, faults, objVars, plugin, pr, user, cmdVars, comp, direct,
                 rw, tm, stale, ops>>

(* ... pass over a new one that gets no vmk_ScsiDevice *)
EndNoMemory ==
  /\ mg.pc = "end" /\ Due # {} /\ ~dev[createdDevices[Min(Due)]].reg
  /\ Fault
  /\ mg' = [mg EXCEPT !.i = Min(Due) + 1]
  /\ UNCHANGED <<modVars, objVars, plugin, pr, user, cmdVars, comp, direct, rw, tm,
                 stale, ops>>

(* ... probe the device *)
EndProbe ==
  /\ mg.pc = "end" /\ Due # {}
  /\ LET d == createdDevices[Min(Due)] IN
     /\ dev' = [dev EXCEPT ![d].update = FALSE]
     /\ mg'  = [mg EXCEPT !.pc = "probed", !.i = Min(Due), !.d = d]
     /\ pr'  = [pr EXCEPT !["mg"] = [@ EXCEPT !.pc = "open", !.d = d, !.own = TRUE]]
  /\ UNCHANGED <<modVars, faults, createdDevices, path, plugin, user, cmdVars, comp,
                 direct, rw, tm, stale, ops>>

(* ... register a new device; without a probe or a registration it is freed *)
EndRegister ==
  /\ mg.pc = "probed" /\ pr["mg"].pc = "idle"
  /\ LET d == mg.d IN
     \/ /\ dev[d].reg
        /\ mg' = [mg EXCEPT !.pc = "end", !.d = NoDev, !.i = @ + 1]
        /\ UNCHANGED <<dev, faults>>
     \/ /\ ~dev[d].reg /\ ~pr["mg"].ok
        /\ mg' = [mg EXCEPT !.pc = "idle", !.d = NoDev, !.i = 0]
        /\ UNCHANGED <<dev, faults>>
     \/ /\ ~dev[d].reg /\ pr["mg"].ok
        /\ dev' = [dev EXCEPT ![d].known = TRUE]
        /\ mg' = [mg EXCEPT !.pc = "flag"]
        /\ UNCHANGED faults
     \/ /\ ~dev[d].reg /\ pr["mg"].ok
        /\ Fault
        /\ mg' = [mg EXCEPT !.pc = "end", !.d = NoDev, !.i = @ + 1]
        /\ UNCHANGED dev
  /\ pr' = [pr EXCEPT !["mg"].ok = TRUE]
  /\ UNCHANGED <<modVars, createdDevices, path, plugin, user, cmdVars, comp,
                 direct, rw, tm, stale, ops>>

EndFlag ==
  /\ mg.pc = "flag"
  /\ dev' = [dev EXCEPT ![mg.d].reg = TRUE]
  /\ mg'  = [mg EXCEPT !.pc = "end", !.d = NoDev, !.i = @ + 1]
  /\ UNCHANGED <<modVars, faults, createdDevices, path, plugin, pr, user, cmdVars,
                 comp, direct, rw, tm, stale, ops>>
-----------------------------------------------------------------------------
(* ExampleUnclaimPath: PSA wants the path back; the last working path of   *)
(* several is kept                                                         *)
ExampleUnclaimPath(p) ==
  /\ Up /\ AtRest(p) /\ plugin = "claim"
  /\ LET d == path[p].d
         working == HasMoreWorkingPaths(p)
     IN  mg' = IF /\ ~working /\ dev[d].n # 1
                  /\ path[p].state \in {"on", "standby"}
               THEN mg
               ELSE [mg EXCEPT !.pc = "remove", !.p = p, !.d = d, !.working = working]
  /\ UNCHANGED <<modVars, faults, objVars, plugin, pr, user, cmdVars, comp, direct,
                 rw, tm, stale, ops>>

(* the path leaves its slot; the active path changes when it is the one *)
Removed(p, d) ==
  LET i == CHOOSE j \in Index : dev[d].paths[j] = p
  IN  [dev EXCEPT ![d].active = IF i = @ THEN ExampleGetFailoverPathIndex(d) ELSE @,
                  ![d].paths[i] = NoPath,
                  ![d].n = @ - 1,
                  ![d].removing = (dev[d].n = 1)]

Refused == [mg EXCEPT !.pc = "idle", !.p = NoPath, !.d = NoDev, !.working = FALSE]

(* ... leave an open device its last path, else remove the path ... *)
UnclaimRemove ==
  /\ mg.pc = "remove"
  /\ IF dev[mg.d].open > 0 /\ ~mg.working
     THEN mg' = Refused /\ UNCHANGED dev
     ELSE /\ dev' = Removed(mg.p, mg.d)
          /\ mg'  = [mg EXCEPT !.pc = IF dev[mg.d].n = 1 THEN "drain" ELSE "wait"]
  /\ UNCHANGED <<modVars, faults, createdDevices, path, plugin, pr, user, cmdVars,
                 comp, direct, rw, tm, stale, ops>>

(* fault: it does not wait for the retry world and the timer *)
ExampleDrainBusyCount_not ==
  /\ mg.pc = "drain"
  /\ mg' = [mg EXCEPT !.pc = "destroy"]
  /\ UNCHANGED <<modVars, faults, objVars, plugin, pr, user, cmdVars, comp, direct,
                 rw, tm, stale, ops>>

(* ... a device without paths: wait for the retry world and the timer ... *)
ExampleDrainBusyCount ==
  /\ mg.pc = "drain"
  /\ dev[mg.d].busy = 0
  /\ mg' = [mg EXCEPT !.pc = "destroy"]
  /\ UNCHANGED <<modVars, faults, objVars, plugin, pr, user, cmdVars, comp, direct,
                 rw, tm, stale, ops>>

(* vmk_ScsiUnregisterDevice fails while an operation of the device runs *)
InUse == dev[mg.d].reg /\ pr["dp"].d = mg.d

(* ... then ExampleDestroyDevice: PSA forgets the device, it is freed ... *)
ExampleDestroyDevice ==
  /\ mg.pc = "destroy" /\ ~InUse
  /\ dev' = [dev EXCEPT ![mg.d] = [Blank EXCEPT !.st = "freed"]]
  /\ createdDevices' = [i \in DOMAIN createdDevices |->
                          IF createdDevices[i] = mg.d THEN NoDev ELSE createdDevices[i]]
  /\ mg' = [mg EXCEPT !.pc = "wait"]
  /\ UNCHANGED <<modVars, faults, path, plugin, pr, user, cmdVars, comp, direct, rw,
                 tm, stale, ops>>

(* ... or PSA still uses it: the path goes back to the active slot ... *)
UnclaimUndo ==
  /\ mg.pc = "destroy" /\ dev[mg.d].reg
  /\ IF InUse THEN UNCHANGED faults ELSE Fault
  /\ dev' = [dev EXCEPT ![mg.d].removing = FALSE,
                        ![mg.d].paths[dev[mg.d].active] = mg.p,
                        ![mg.d].n = @ + 1]
  /\ mg' = Refused
  /\ UNCHANGED <<modVars, createdDevices, path, plugin, pr, user, cmdVars, comp,
                 direct, rw, tm, stale, ops>>

(* ... and wait until nobody has the path, before ExampleDestroyExPath *)
UnclaimDone ==
  /\ mg.pc = "wait"
  /\ path[mg.p].ref = 0
  /\ path'  = [path EXCEPT ![mg.p].ex = FALSE, ![mg.p].d = NoDev,
                           ![mg.p].state = "dead"]
  /\ stale' = stale \cup (IF path[mg.p].cmds = 0 THEN {} ELSE {"cmds"})
  /\ mg' = Refused
  /\ UNCHANGED <<modVars, faults, createdDevices, dev, plugin, pr, user, cmdVars,
                 comp, direct, rw, tm, ops>>
-----------------------------------------------------------------------------
(* PSA probes a path: ExampleProbePath *)
ProbePath(p) ==
  /\ Op /\ AtRest(p)
  /\ mg' = [mg EXCEPT !.pc = "probe"]
  /\ pr' = [pr EXCEPT !["mg"] = [@ EXCEPT !.pc = "tur", !.p = p, !.d = path[p].d]]
  /\ UNCHANGED <<modVars, faults, objVars, plugin, user, cmdVars, comp, direct, rw,
                 tm, stale>>

(* ExamplePathSetState: an administrator turns a path on or off, unless it *)
(* is the last that works; then it is probed                               *)
ExamplePathSetState(p, s) ==
  /\ Op /\ AtRest(p) /\ path[p].state # s
  /\ \/ /\ s = "on"
        /\ path' = [path EXCEPT ![p].state = IF @ = "off" THEN "dead" ELSE @]
     \/ /\ s = "off" /\ HasMoreWorkingPaths(p)
        /\ path' = [path EXCEPT ![p].state = "off"]
  /\ mg' = [mg EXCEPT !.pc = "probe"]
  /\ pr' = [pr EXCEPT !["mg"] = [@ EXCEPT !.pc = "tur", !.p = p, !.d = path[p].d]]
  /\ UNCHANGED <<modVars, faults, createdDevices, dev, plugin, user, cmdVars, comp,
                 direct, rw, tm, stale>>

PathProbed ==
  /\ mg.pc = "probe" /\ pr["mg"].pc = "idle"
  /\ mg' = [mg EXCEPT !.pc = "idle"]
  /\ pr' = [pr EXCEPT !["mg"].ok = TRUE]
  /\ UNCHANGED <<modVars, faults, objVars, plugin, user, cmdVars, comp, direct,
                 rw, tm, stale, ops>>

(* PSA probes a device: ExampleDeviceProbe *)
DeviceProbe(d) ==
  /\ Op /\ pr["dp"].pc = "idle" /\ Alive(d) /\ dev[d].known
  /\ pr' = [pr EXCEPT !["dp"] = [@ EXCEPT !.pc = "open", !.d = d, !.own = TRUE]]
  /\ UNCHANGED <<modVars, faults, objVars, psaVars, user, cmdVars, comp, direct, rw,
                 tm, stale>>

Stopped(e) == [pr[e] EXCEPT !.pc = "idle", !.p = NoPath, !.d = NoDev, !.i = 0,
                            !.own = FALSE]

(* the next path of the device: take a reference on it; or the last section *)
NextPath(e, f, i) ==
  LET d == pr[e].d IN
  IF Used(d, i) # {}
  THEN LET j == Min(Used(d, i)) IN
       /\ pr'   = [pr EXCEPT ![e].pc = "tur", ![e].i = j, ![e].p = dev[d].paths[j]]
       /\ path' = ExamplePathIncRefCount(f, dev[d].paths[j])
       /\ dev'  = [dev EXCEPT ![d].probe = TRUE]
  ELSE /\ pr'   = [pr EXCEPT ![e].pc = "close", ![e].p = NoPath]
       /\ path' = f
       /\ dev'  = [dev EXCEPT ![d].probe = FALSE]

(* ExampleDeviceProbe: ExampleDeviceOpen ... *)
ProbeOpen(e) ==
  /\ pr[e].pc = "open"
  /\ LET d == pr[e].d IN
     /\ stale' = stale \cup Marked("probe", d)
     /\ IF dev[d].removing \/ ~Alive(d)
        THEN /\ pr' = [pr EXCEPT ![e] = [Stopped(e) EXCEPT !.ok = (e = "dp")]]
             /\ UNCHANGED dev
        ELSE /\ dev' = [dev EXCEPT ![d].open = @ + 1]
             /\ pr'  = [pr EXCEPT ![e].pc = "begin"]
  /\ UNCHANGED <<modVars, faults, createdDevices, path, psaVars, user, cmdVars, comp,
                 direct, rw, tm, ops>>

(* ... one probe at a time ... *)
ProbeBegin(e) ==
  /\ pr[e].pc = "begin"
  /\ LET d == pr[e].d IN
     IF dev[d].probe
     THEN /\ pr' = [pr EXCEPT ![e].pc = "close", ![e].ok = (e = "dp")]
          /\ UNCHANGED <<dev, path>>
     ELSE NextPath(e, path, 0)
  /\ UNCHANGED <<modVars, faults, createdDevices, psaVars, user, cmdVars, comp, direct,
                 rw, tm, stale, ops>>

(* ... ExampleProbePath and ExampleUpdatePathState: the path answers a     *)
(* TEST UNIT READY, or not.  A path that gets into or out of PDL starts a  *)
(* probe of its registered device; inside one that is VMK_BUSY ...         *)
ExampleUpdatePathState(e, s, pdl) ==
  /\ pr[e].pc = "tur"
  /\ LET p == pr[e].p
         d == pr[e].d
     IN  /\ stale' = stale \cup Marked("probe", d)
                            \cup (IF path[p].ex THEN {} ELSE {"probe"})
         /\ path' = [path EXCEPT ![p].state = IF @ = "off" THEN "off" ELSE s]
         /\ pr' = [pr EXCEPT ![e] =
               CASE @.own -> [@ EXCEPT !.pc = "dec"]
                 [] ~@.own /\ pdl /\ path[p].state # "off" /\ dev[d].reg ->
                      [@ EXCEPT !.pc = "open", !.own = TRUE, !.p = NoPath]
                 [] OTHER -> Stopped(e)]
  /\ UNCHANGED <<modVars, faults, createdDevices, dev, psaVars, user, cmdVars, comp,
                 direct, rw, tm, ops>>

(* ... there is no memory for the command ... *)
ProbeNoMemory(e) ==
  /\ pr[e].pc = "tur"
  /\ Fault
  /\ pr' = [pr EXCEPT ![e] = IF @.own THEN [@ EXCEPT !.pc = "dec", !.ok = (e = "dp")]
                             ELSE Stopped(e)]
  /\ UNCHANGED <<modVars, objVars, psaVars, user, cmdVars, comp, direct, rw, tm, stale,
                 ops>>

(* ... drop the path ... *)
ProbeDrop(e) ==
  /\ pr[e].pc = "dec"
  /\ path' = ExamplePathDecRefCount(path, pr[e].p)
  /\ pr'   = [pr EXCEPT ![e].pc = "next"]
  /\ UNCHANGED <<modVars, faults, createdDevices, dev, psaVars, user, cmdVars, comp,
                 direct, rw, tm, stale, ops>>

ProbeNext(e) ==
  /\ pr[e].pc = "next"
  /\ NextPath(e, path, pr[e].i + 1)
  /\ UNCHANGED <<modVars, faults, createdDevices, psaVars, user, cmdVars, comp, direct,
                 rw, tm, stale, ops>>

(* ... ExampleDeviceClose *)
ProbeClose(e) ==
  /\ pr[e].pc = "close"
  /\ stale' = stale \cup Marked("probe", pr[e].d)
  /\ dev' = [dev EXCEPT ![pr[e].d].open = @ - 1]
  /\ pr'  = [pr EXCEPT ![e] = Stopped(e)]
  /\ UNCHANGED <<modVars, faults, createdDevices, path, psaVars, user, cmdVars, comp,
                 direct, rw, tm, ops>>
-----------------------------------------------------------------------------
(* fault: a device that is being removed can be opened *)
ExampleDeviceOpen_removing(d) ==
  /\ Op /\ user.pc = "out" /\ Alive(d) /\ dev[d].known
  /\ dev'  = [dev EXCEPT ![d].open = @ + 1]
  /\ user' = [user EXCEPT !.pc = "open", !.d = d]
  /\ UNCHANGED <<modVars, faults, createdDevices, path, psaVars, pr, cmdVars, comp,
                 direct, rw, tm, stale>>

(* a user opens the device, VMK_BUSY while it is being removed *)
ExampleDeviceOpen(d) ==
  /\ Op /\ user.pc = "out" /\ Alive(d) /\ dev[d].known
  /\ ~dev[d].removing
  /\ dev'  = [dev EXCEPT ![d].open = @ + 1]
  /\ user' = [user EXCEPT !.pc = "open", !.d = d]
  /\ UNCHANGED <<modVars, faults, createdDevices, path, psaVars, pr, cmdVars, comp,
                 direct, rw, tm, stale>>

(* ... and closes it once its commands are done *)
ExampleDeviceClose ==
  /\ user.pc = "open"
  /\ \A c \in Cmd : cmd[c].pc = "idle"
  /\ dev'  = [dev EXCEPT ![user.d].open = @ - 1]
  /\ user' = [user EXCEPT !.pc = "out", !.d = NoDev]
  /\ UNCHANGED <<modVars, faults, createdDevices, path, psaVars, pr, cmdVars, comp,
                 direct, rw, tm, stale, ops>>

(* ExampleDeviceInquiry, on the active path *)
ExampleDeviceInquiry ==
  /\ Op /\ user.pc = "open" /\ Active(user.d) # NoPath
  /\ path' = ExamplePathIncRefCount(path, Active(user.d))
  /\ user' = [user EXCEPT !.pc = "inquiry", !.p = Active(user.d)]
  /\ UNCHANGED <<modVars, faults, createdDevices, dev, psaVars, pr, cmdVars, comp,
                 direct, rw, tm, stale>>

InquiryEnd ==
  /\ user.pc = "inquiry"
  /\ path' = ExamplePathDecRefCount(path, user.p)
  /\ user' = [user EXCEPT !.pc = "open", !.p = NoPath]
  /\ UNCHANGED <<modVars, faults, createdDevices, dev, psaVars, pr, cmdVars, comp,
                 direct, rw, tm, stale, ops>>

(* ExampleDeviceTaskManagement: the paths with a command in flight and the *)
(* active path; take a reference on the next one ...                       *)
TaskNext(f, i) ==
  LET d == user.d
      due == {j \in Used(d, i) : f[dev[d].paths[j]].cmds > 0 \/ j = dev[d].active}
  IN  IF due # {}
      THEN /\ path' = ExamplePathIncRefCount(f, dev[d].paths[Min(due)])
           /\ user' = [user EXCEPT !.pc = "task", !.i = Min(due),
                                   !.p = dev[d].paths[Min(due)]]
      ELSE /\ path' = f
           /\ user' = [user EXCEPT !.pc = "open", !.i = 0, !.p = NoPath]

ExampleDeviceTaskManagement ==
  /\ Op /\ user.pc = "open"
  /\ TaskNext(path, 0)
  /\ UNCHANGED <<modVars, faults, createdDevices, dev, psaVars, pr, cmdVars, comp,
                 direct, rw, tm, stale>>

(* ... forward the request to whatever the slot holds by now ... *)
TaskIssue ==
  /\ user.pc = "task"
  /\ stale' = stale \cup (IF dev[user.d].paths[user.i] = user.p THEN {} ELSE {"task"})
  /\ user' = [user EXCEPT !.pc = "issued"]
  /\ UNCHANGED <<modVars, faults, objVars, psaVars, pr, cmdVars, comp, direct, rw, tm,
                 ops>>

(* ... drop the reference and go on *)
TaskDrop ==
  /\ user.pc = "issued"
  /\ TaskNext(ExamplePathDecRefCount(path, user.p), user.i + 1)
  /\ UNCHANGED <<modVars, faults, createdDevices, dev, psaVars, pr, cmdVars, comp,
                 direct, rw, tm, stale, ops>>
-----------------------------------------------------------------------------
(* ExampleIssueCommand: a command of an open device, on its active path *)
ExampleIssueCommand(c) ==
  /\ Op /\ user.pc # "out" /\ cmd[c].pc = "idle" /\ Active(user.d) # NoPath
  /\ path' = TakePath(path, Active(user.d))
  /\ cmd'  = [cmd EXCEPT ![c] = [pc |-> "flight", p |-> Active(user.d), d |-> user.d]]
  /\ UNCHANGED <<modVars, faults, createdDevices, dev, psaVars, pr, user, retryQueue,
                 comp, direct, rw, tm, stale>>

(* Example_CompletePathCommand: it worked, its path does ... *)
CompleteDone(c) ==
  /\ cmd[c].pc = "flight" /\ comp[c].pc = "idle"
  /\ path' = [path EXCEPT ![cmd[c].p].state = IF @ = "dead" THEN "on" ELSE @]
  /\ cmd'  = [cmd EXCEPT ![c] = Idle]
  /\ comp' = [comp EXCEPT ![c] = [cmd[c] EXCEPT !.pc = "start"]]
  /\ UNCHANGED <<modVars, faults, createdDevices, dev, psaVars, pr, user, retryQueue,
                 direct, rw, tm, stale, ops>>

(* ... or its path is dead: ExampleQueueCmdToRetry *)
CompleteRetry(c) ==
  /\ cmd[c].pc = "flight" /\ comp[c].pc = "idle"
  /\ Fault
  /\ path' = [path EXCEPT ![cmd[c].p].state = "dead"]
  /\ cmd'  = [cmd EXCEPT ![c].pc = "retry", ![c].p = NoPath]
  /\ retryQueue' = Append(retryQueue, c)
  /\ comp' = [comp EXCEPT ![c] = [cmd[c] EXCEPT !.pc = "deref"]]
  /\ UNCHANGED <<modVars, createdDevices, dev, psaVars, pr, user, direct, rw, tm,
                 stale, ops>>

(* PSA may have closed the device by now, and unclaimed its last path *)
LateMark(d) == IF Alive(d) /\ ~dev[d].removing THEN {} ELSE {"done"}

(* ExampleCompleteDeviceCommand after cmd->done: start the device again *)
CompleteStart(c) ==
  /\ comp[c].pc = "start"
  /\ stale' = stale \cup LateMark(comp[c].d)
  /\ comp'  = [comp EXCEPT ![c].pc = "deref"]
  /\ UNCHANGED <<modVars, faults, objVars, psaVars, pr, user, cmdVars, direct, rw, tm,
                 ops>>

(* ... without memory for a command, from the timer *)
CompleteSched(c) ==
  /\ comp[c].pc = "start" /\ Alive(comp[c].d)
  /\ Fault
  /\ stale' = stale \cup LateMark(comp[c].d)
  /\ dev'  = ExampleDeviceSchedStart(dev, comp[c].d)
  /\ comp' = [comp EXCEPT ![c].pc = "deref"]
  /\ UNCHANGED <<modVars, createdDevices, path, psaVars, pr, user, cmdVars, direct,
                 rw, tm, ops>>

(* the completing thread drops its path *)
CompleteDeref(c) ==
  /\ comp[c].pc = "deref"
  /\ path' = DropPath(path, comp[c].p)
  /\ comp' = [comp EXCEPT ![c] = Idle]
  /\ UNCHANGED <<modVars, faults, createdDevices, dev, psaVars, pr, user, cmdVars,
                 direct, rw, tm, stale, ops>>

(* ExamplePathIssueCommandDirect: PSA sends a command down a path *)
ExamplePathIssueCommandDirect(p) ==
  /\ Op /\ direct.pc = "idle" /\ path[p].ex
  /\ mg.p # p
  /\ path' = TakePath(path, p)
  /\ direct' = [pc |-> "flight", p |-> p]
  /\ UNCHANGED <<modVars, faults, createdDevices, dev, psaVars, pr, user, cmdVars,
                 comp, rw, tm, stale>>

(* ExampleCompletePathCommandDirect: when the command failed it looks at   *)
(* the path's device                                                       *)
DirectComplete(ok) ==
  /\ direct.pc = "flight"
  /\ stale' = stale \cup (IF ok THEN {} ELSE Marked("direct", path[direct.p].d))
  /\ direct' = [direct EXCEPT !.pc = "deref"]
  /\ UNCHANGED <<modVars, faults, objVars, psaVars, pr, user, cmdVars, comp, rw, tm,
                 ops>>

DirectDeref ==
  /\ direct.pc = "deref"
  /\ path' = DropPath(path, direct.p)
  /\ direct' = [pc |-> "idle", p |-> NoPath]
  /\ UNCHANGED <<modVars, faults, createdDevices, dev, psaVars, pr, user, cmdVars,
                 comp, rw, tm, stale, ops>>
-----------------------------------------------------------------------------
InRetry(pc) == rw.pc = pc

(* Example_RetryWorld: the next command; is the active path on? *)
RetryLook ==
  /\ world = "loop" /\ retryWorldState = "running"
  /\ InRetry("idle") /\ retryQueue # <<>>
  /\ LET c == Head(retryQueue)
         d == cmd[c].d
     IN  /\ stale' = stale \cup Marked("retry", d)
         /\ Active(d) # NoPath
         /\ path' = ExamplePathIncRefCount(path, Active(d))
         /\ rw' = [rw EXCEPT !.pc = "look", !.c = c, !.d = d, !.p = Active(d)]
  /\ retryQueue' = Tail(retryQueue)
  /\ UNCHANGED <<modVars, faults, createdDevices, dev, psaVars, pr, user, cmd, comp,
                 direct, tm, ops>>

RetryLooked ==
  /\ InRetry("look")
  /\ rw' = [rw EXCEPT !.pc = IF path[rw.p].state = "on" THEN "busy" ELSE "failover",
                      !.p = NoPath]
  /\ path' = ExamplePathDecRefCount(path, rw.p)
  /\ UNCHANGED <<modVars, faults, createdDevices, dev, psaVars, pr, user, cmdVars,
                 comp, direct, tm, stale, ops>>

(* ExampleDevice_AttemptFailover, unless there is only one path *)
ExampleDevice_AttemptFailover ==
  /\ InRetry("failover")
  /\ IF dev[rw.d].n = 1
     THEN rw' = [rw EXCEPT !.pc = "busy"] /\ UNCHANGED <<dev, path>>
     ELSE LET i == ExampleGetFailoverPathIndex(rw.d) IN
          /\ dev'  = [dev EXCEPT ![rw.d].active = i]
          /\ path' = ExamplePathIncRefCount(path, dev[rw.d].paths[i])
          /\ rw'   = [rw EXCEPT !.pc = "resv", !.p = dev[rw.d].paths[i]]
  /\ UNCHANGED <<modVars, faults, createdDevices, psaVars, pr, user, cmdVars, comp,
                 direct, tm, stale, ops>>

(* ExampleAbortAllRSIOs: take the path of a command in flight ... *)
AbortTake(c) ==
  /\ InRetry("resv") /\ cmd[c].pc = "flight"
  /\ rw' = [rw EXCEPT !.pc = "abort", !.q = cmd[c].p]
  /\ UNCHANGED <<modVars, faults, objVars, psaVars, pr, user, cmdVars, comp, direct, tm,
                 stale, ops>>

(* ... and abort the command on it, with no reference and no lock *)
AbortIssue ==
  /\ InRetry("abort")
  /\ stale' = stale \cup (IF path[rw.q].ex THEN {} ELSE {"abort"})
  /\ rw' = [rw EXCEPT !.pc = "resv", !.q = NoPath]
  /\ UNCHANGED <<modVars, faults, objVars, psaVars, pr, user, cmdVars, comp, direct, tm,
                 ops>>

FailoverEnd ==
  /\ InRetry("resv")
  /\ path' = ExamplePathDecRefCount(path, rw.p)
  /\ rw'   = [rw EXCEPT !.pc = "busy", !.p = NoPath]
  /\ UNCHANGED <<modVars, faults, createdDevices, dev, psaVars, pr, user, cmdVars,
                 comp, direct, tm, stale, ops>>

(* keep the device busy, ... *)
RetryBusy ==
  /\ InRetry("busy")
  /\ stale' = stale \cup Marked("retry", rw.d)
  /\ dev' = [dev EXCEPT ![rw.d].busy = @ + 1]
  /\ rw'  = [rw EXCEPT !.pc = "retry"]
  /\ UNCHANGED <<modVars, faults, createdDevices, path, psaVars, pr, user, cmdVars,
                 comp, direct, tm, ops>>

(* ... ExampleRetryCmd, ... *)
ExampleRetryCmd ==
  /\ InRetry("retry") /\ Active(rw.d) # NoPath
  /\ path' = TakePath(path, Active(rw.d))
  /\ cmd'  = [cmd EXCEPT ![rw.c].pc = "flight", ![rw.c].p = Active(rw.d)]
  /\ rw'   = [rw EXCEPT !.pc = "unblock", !.c = NoCmd]
  /\ UNCHANGED <<modVars, faults, createdDevices, dev, psaVars, pr, user, retryQueue,
                 comp, direct, tm, stale, ops>>

(* ... ExampleDevice_Unblock, which schedules a start when it was the last, *)
ExampleDevice_Unblock ==
  /\ InRetry("unblock")
  /\ stale' = stale \cup Marked("retry", rw.d)
  /\ dev' = IF retryQueue = <<>> THEN ExampleDeviceSchedStart(dev, rw.d) ELSE dev
  /\ rw'  = [rw EXCEPT !.pc = "unbusy"]
  /\ UNCHANGED <<modVars, faults, createdDevices, path, psaVars, pr, user, cmdVars,
                 comp, direct, tm, ops>>

RetryEnd ==
  /\ InRetry("unbusy")
  /\ stale' = stale \cup Marked("retry", rw.d)
  /\ dev' = [dev EXCEPT ![rw.d].busy = @ - 1]
  /\ rw'  = [rw EXCEPT !.pc = "idle", !.d = NoDev]
  /\ UNCHANGED <<modVars, faults, createdDevices, path, psaVars, pr, user, cmdVars,
                 comp, direct, tm, ops>>

(* ExampleDeviceStartFromTimer *)
TimerFire(d) ==
  /\ dev[d].timer /\ tm = NoDev
  /\ dev' = [dev EXCEPT ![d].timer = FALSE]
  /\ tm'  = d
  /\ UNCHANGED <<modVars, faults, createdDevices, path, psaVars, pr, user, cmdVars,
                 comp, direct, rw, stale, ops>>

TimerEnd ==
  /\ tm # NoDev
  /\ stale' = stale \cup Marked("timer", tm)
  /\ dev' = [dev EXCEPT ![tm].busy = @ - 1]
  /\ tm'  = NoDev
  /\ UNCHANGED <<modVars, faults, createdDevices, path, psaVars, pr, user, cmdVars,
                 comp, direct, rw, ops>>
-----------------------------------------------------------------------------
(* the module, while nothing of the plugin is at work *)
Quiet == /\ \A p \in Path : ~path[p].ex
         /\ mg.pc = "idle" /\ pr["dp"].pc = "idle" /\ user.pc = "out"

Module ==
  /\ \/ Build \/ BuildFails \/ ExampleStartWorld \/ WorldStarted \/ LoaderKilled \/ Undo
     \/ WorldBegin \/ Cleanup \/ UnregisterFails \/ ExampleStopWorld
  /\ UNCHANGED <<objVars, psaVars, pr, user, cmdVars, comp, direct, rw, tm, stale, ops>>

Unload ==
  /\ Quiet
  /\ cleanup_module
  /\ UNCHANGED <<objVars, psaVars, pr, user, cmdVars, comp, direct, rw, tm, stale, ops>>

RetryWorldEnds ==
  /\ rw.pc = "idle"
  /\ WorldExit \/ WorldKilled
  /\ UNCHANGED <<objVars, psaVars, pr, user, cmdVars, comp, direct, rw, tm, stale, ops>>

Claim ==
  \/ ExamplePathClaimBegin \/ ExamplePathClaimEnd \/ ClaimAdd \/ ClaimUpdate
  \/ EndDone \/ EndNoMemory \/ EndProbe \/ EndRegister \/ EndFlag
  \/ \E p \in Path, u \in Uid : ExampleClaimPath(p, u)

Unclaim ==
  \/ \E p \in Path : ExampleUnclaimPath(p)
  \/ UnclaimRemove \/ ExampleDrainBusyCount \/ ExampleDestroyDevice \/ UnclaimUndo
  \/ UnclaimDone

Probe ==
  \/ \E p \in Path : ProbePath(p) \/ ExamplePathSetState(p, "on")
                       \/ ExamplePathSetState(p, "off")
  \/ PathProbed
  \/ \E d \in Dev : DeviceProbe(d)
  \/ \E e \in Prober :
        \/ ProbeOpen(e) \/ ProbeBegin(e) \/ ProbeNoMemory(e) \/ ProbeDrop(e)
        \/ ProbeNext(e) \/ ProbeClose(e)
        \/ \E s \in Answer, pdl \in BOOLEAN : ExampleUpdatePathState(e, s, pdl)

Use ==
  \/ \E d \in Dev : ExampleDeviceOpen(d)
  \/ ExampleDeviceClose \/ ExampleDeviceInquiry \/ InquiryEnd
  \/ ExampleDeviceTaskManagement \/ TaskIssue \/ TaskDrop

Command ==
  \/ \E c \in Cmd : \/ ExampleIssueCommand(c) \/ CompleteDone(c) \/ CompleteRetry(c)
                    \/ CompleteStart(c) \/ CompleteSched(c) \/ CompleteDeref(c)
                    \/ AbortTake(c)
  \/ \E p \in Path : ExamplePathIssueCommandDirect(p)
  \/ DirectComplete(TRUE) \/ DirectComplete(FALSE) \/ DirectDeref
  \/ RetryLook \/ RetryLooked \/ ExampleDevice_AttemptFailover \/ AbortIssue
  \/ FailoverEnd \/ RetryBusy \/ ExampleRetryCmd \/ ExampleDevice_Unblock \/ RetryEnd
  \/ \E d \in Dev : TimerFire(d)
  \/ TimerEnd

Next ==
  \/ Module \/ Unload \/ RetryWorldEnds
  \/ Claim \/ Unclaim \/ Probe \/ Use \/ Command

Spec == Init /\ [][Next]_vars
-----------------------------------------------------------------------------
(***************************************************************************)
(* A claimed path that is not on its way in or out is in exactly one slot  *)
(* of a live device; numPaths counts the slots; a device that somebody has *)
(* open, or that the retry world works for, has an active path, which      *)
(* ExampleIssueCommand, ExampleDeviceInquiry and Example_RetryWorld        *)
(* dereference without a test.                                             *)
(***************************************************************************)
ActivePathExists ==
  /\ \A p \in Path : path[p].ex /\ mg.p # p =>
       /\ Alive(path[p].d)
       /\ Cardinality({i \in Index : dev[path[p].d].paths[i] = p}) = 1
  /\ \A d \in Dev : dev[d].n = Cardinality(Used(d, 0))
  /\ \A d \in Dev : dev[d].open > 0 \/ (rw.d = d /\ rw.c # NoCmd)
                     => Active(d) # NoPath

(***************************************************************************)
(* A device or a path that was freed is used in four places only: by a     *)
(* completing thread that starts the device after cmd->done; by the        *)
(* completion of a failed direct command, after its path was the last; by  *)
(* the abort of a reservation sensitive command, whose path has no         *)
(* reference; and by task management, that reads its slot again without    *)
(* the lock.  The probes, the retry world, the timer, inquiries and        *)
(* retried commands never do, and no path is freed with commands.          *)
(***************************************************************************)
StaleUses == stale \subseteq {"done", "direct", "abort", "task"}
=============================================================================
