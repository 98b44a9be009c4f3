----------------------------- MODULE MppModule ------------------------------
(***************************************************************************)
(* Loading and unloading the plugin (init_module, cleanup_module of        *)
(* vmware_kernel/mpp/mp_plugin_example.c) and the handshake that starts    *)
(* and stops its retry world (ExampleStartWorld, ExampleStopWorld,         *)
(* the ends of Example_RetryWorld).                                        *)
(*                                                                         *)
(* init_module makes one resource after the other; when one cannot be      *)
(* made, its error path destroys those that were.  cleanup_module destroys *)
(* them in an order of its own.                                            *)
(***************************************************************************)
EXTENDS Naturals, Sequences

CONSTANT MaxFault   \* bound: failures of calls to the kernel, and worlds killed

VARIABLES
  phase,            \* what the loader is doing, see ModuleTypeOK
  step,             \* the resource it is at, an index
  live,             \* the resources that exist
  retryWorldState,
  world,            \* the retry world's thread: none, created, in its loop, gone
  killed,           \* a world was told to die while it waited
  faults

modVars == <<phase, step, live, retryWorldState, world, killed>>

(* "registered" is the plugin known to PSA, "cachebox" what init_cachebox  *)
(* makes and "retryWorld" the started world                                *)
BuildOrder ==
  <<"module", "miscHeap", "createdDevices", "log", "lockDomain", "timerQueue",
    "exCommandHeap", "pluginLock", "deviceSema", "plugin", "config",
    "registered", "cachebox", "retryWorld">>

(* the error path of init_module, for the resources that exist *)
UndoOrder ==
  <<"cachebox", "registered", "plugin", "deviceSema", "pluginLock", "timerQueue",
    "exCommandHeap", "lockDomain", "log", "createdDevices", "miscHeap", "module",
    "config">>

(* fault: the lock domain goes before the lock *)
CleanupOrder_domain ==
  <<"cachebox", "createdDevices", "retryWorld", "registered", "log", "plugin",
    "deviceSema", "lockDomain", "pluginLock", "timerQueue", "exCommandHeap",
    "miscHeap", "module", "config">>

(* cleanup_module *)
CleanupOrder ==
  <<"cachebox", "createdDevices", "retryWorld", "registered", "log", "plugin",
    "deviceSema", "pluginLock", "lockDomain", "timerQueue", "exCommandHeap",
    "miscHeap", "module", "config">>

Resource == {BuildOrder[i] : i \in DOMAIN BuildOrder}

(* what a resource is made of: the heap, the module, the lock domain that  *)
(* its creation names                                                      *)
Needs(r) ==
  CASE r \in {"log", "lockDomain", "timerQueue", "plugin"} -> {"module", "miscHeap"}
    [] r = "createdDevices" -> {"miscHeap"}
    [] r = "pluginLock"     -> {"module", "miscHeap", "lockDomain"}
    [] r \in {"miscHeap", "exCommandHeap", "deviceSema"} -> {"module"}
    [] r = "registered"     -> {"plugin"}
    [] r = "cachebox"       -> {"module", "miscHeap", "lockDomain"}
    [] r = "retryWorld"     -> {"module", "plugin", "pluginLock"}
    [] OTHER -> {}

ModuleInit ==
  /\ phase = "init" /\ step = 1 /\ live = {}
  /\ retryWorldState = "none" /\ world = "none" /\ killed = FALSE
  /\ faults = 0

Fault == faults < MaxFault /\ faults' = faults + 1
-----------------------------------------------------------------------------
(* init_module: the next resource, up to the world *)
Build ==
  /\ phase = "init" /\ step < Len(BuildOrder)
  /\ live' = live \cup {BuildOrder[step]}
  /\ step' = step + 1
  /\ UNCHANGED <<phase, retryWorldState, world, killed, faults>>

(* ... it cannot be made, goto error *)
BuildFails ==
  /\ phase = "init"
  /\ Fault
  /\ phase' = "undo" /\ step' = 1
  /\ UNCHANGED <<live, retryWorldState, world, killed>>

(* ExampleStartWorld: create the world, then wait *)
ExampleStartWorld ==
  /\ phase = "init" /\ step = Len(BuildOrder)
  /\ retryWorldState' = "starting"
  /\ world' = "created"
  /\ phase' = "starting"
  /\ UNCHANGED <<step, live, killed, faults>>

(* ... and see it running: ExampleStartPlugin enables the plugin *)
WorldStarted ==
  /\ phase = "starting" /\ retryWorldState = "running"
  /\ phase' = "up"
  /\ live'  = live \cup {"retryWorld"}
  /\ UNCHANGED <<step, retryWorldState, world, killed, faults>>

(* ... or the loader is killed while it waits: VMK_DEATH_PENDING, VMK_FAILURE *)
LoaderKilled ==
  /\ phase = "starting" /\ retryWorldState = "starting"
  /\ Fault
  /\ killed' = TRUE
  /\ phase' = "undo" /\ step' = 1
  /\ UNCHANGED <<live, retryWorldState, world>>

(* the error path *)
Undo ==
  /\ phase = "undo"
  /\ IF step > Len(UndoOrder)
     THEN phase' = "gone" /\ UNCHANGED <<step, live>>
     ELSE /\ live' = live \ {UndoOrder[step]}
          /\ step' = step + 1
          /\ UNCHANGED phase
  /\ UNCHANGED <<retryWorldState, world, killed, faults>>

(* Example_RetryWorld begins *)
WorldBegin ==
  /\ world = "created"
  /\ world' = "loop"
  /\ retryWorldState' = "running"
  /\ UNCHANGED <<phase, step, live, killed, faults>>

(* its loop ends *)
WorldExit ==
  /\ world = "loop" /\ retryWorldState = "stopping"
  /\ world' = "gone"
  /\ retryWorldState' = "stopped"
  /\ UNCHANGED <<phase, step, live, killed, faults>>

(* it is killed while it waits for work: VMK_DEATH_PENDING *)
WorldKilled ==
  /\ world = "loop" /\ phase = "up"
  /\ Fault
  /\ killed' = TRUE
  /\ world' = "gone"
  /\ retryWorldState' = "stopped"
  /\ UNCHANGED <<phase, step, live>>

(* cleanup_module is called *)
cleanup_module ==
  /\ phase = "up"
  /\ phase' = "cleanup" /\ step' = 1
  /\ UNCHANGED <<live, retryWorldState, world, killed, faults>>

(* ExampleStopWorld: tell the world to stop, wait until it has *)
ExampleStopWorld ==
  /\ phase = "cleanup" /\ CleanupOrder[step] = "retryWorld"
  /\ IF retryWorldState = "stopped"
     THEN live' = live \ {"retryWorld"} /\ step' = step + 1 /\ UNCHANGED retryWorldState
     ELSE retryWorldState' = "stopping" /\ UNCHANGED <<live, step>>
  /\ UNCHANGED <<phase, world, killed, faults>>

(* the other resources *)
Cleanup ==
  /\ phase = "cleanup" /\ CleanupOrder[step] # "retryWorld"
  /\ live' = live \ {CleanupOrder[step]}
  /\ IF step = Len(CleanupOrder)
     THEN phase' = "gone" /\ UNCHANGED step
     ELSE step' = step + 1 /\ UNCHANGED phase
  /\ UNCHANGED <<retryWorldState, world, killed, faults>>

(* the plugin cannot be unregistered: "The module will be unloaded anyway." *)
UnregisterFails ==
  /\ phase = "cleanup" /\ CleanupOrder[step] = "registered"
  /\ Fault
  /\ phase' = "gone"
  /\ UNCHANGED <<step, live, retryWorldState, world, killed>>
-----------------------------------------------------------------------------
ModuleTypeOK ==
  /\ phase \in {"init", "starting", "up", "undo", "cleanup", "gone"}
  /\ step \in 1..(Len(BuildOrder) + 1)
  /\ live \subseteq Resource
  /\ retryWorldState \in {"none", "starting", "running", "stopping", "stopped"}
  /\ world \in {"none", "created", "loop", "gone"}
  /\ killed \in BOOLEAN
  /\ faults \in 0..MaxFault

(***************************************************************************)
(* init_module, its error path and cleanup_module agree on what rests on   *)
(* what: whatever exists, the heaps, locks and handles it was made of      *)
(* exist; the retry world never runs without the plugin's lock and the     *)
(* command heap; a failed load, and an unload that unregisters the plugin, *)
(* leave nothing.  A load whose world was killed may leave the retry world *)
(* behind.                                                                 *)
(***************************************************************************)
ResourcesOutliveUsers ==
  /\ \A r \in live : Needs(r) \subseteq live
  /\ world = "loop" => {"pluginLock", "exCommandHeap"} \subseteq live \/ killed
  /\ phase = "gone" => live = {} \/ CleanupOrder[step] = "registered"
=============================================================================
