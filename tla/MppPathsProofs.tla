--------------------------- MODULE MppPathsProofs ---------------------------
(***************************************************************************)
(* Proofs about the multipath plugin, for any number of paths, devices,    *)
(* commands and failures: first about loading and unloading it while its   *)
(* devices, paths and commands live their own life (MppModule within       *)
(* MppPaths), then about those devices and paths.                          *)
(***************************************************************************)
EXTENDS MppPaths, Counting, FiniteSetTheorems, TLAPS

(***************************************************************************)
(* Counts and queues.                                                      *)
(***************************************************************************)

(* The size of a subset of a finite set is a natural number. *)
LEMMA SubsetCount ==
  ASSUME NEW S, IsFiniteSet(S), NEW T \in SUBSET S
  PROVE  IsFiniteSet(T) /\ Cardinality(T) \in Nat
BY FS_Subset, FS_CardinalityType

(* A step that changes the membership of one element only changes the size *)
(* by as much.                                                             *)
LEMMA CountStep ==
  ASSUME NEW S, IsFiniteSet(S), NEW T \in SUBSET S, NEW U \in SUBSET S, NEW x \in S,
         \A y \in S : y # x => (y \in T <=> y \in U)
  PROVE  /\ Cardinality(T) \in Nat /\ Cardinality(U) \in Nat
         /\ Cardinality(U) = Cardinality(T) + (IF x \in U THEN 1 ELSE 0)
                                           - (IF x \in T THEN 1 ELSE 0)
         /\ x \in T => Cardinality(T) >= 1
         /\ x \in U => Cardinality(U) >= 1
<1>1. /\ IsFiniteSet(T) /\ Cardinality(T) \in Nat
      /\ IsFiniteSet(U) /\ Cardinality(U) \in Nat
  BY SubsetCount
<1>2. T \ {x} = U \ {x}
  OBVIOUS
<1>3. Cardinality(T \ {x}) = IF x \in T THEN Cardinality(T)-1 ELSE Cardinality(T)
  BY <1>1, FS_RemoveElement
<1>4. Cardinality(U \ {x}) = IF x \in U THEN Cardinality(U)-1 ELSE Cardinality(U)
  BY <1>1, FS_RemoveElement
<1>5. Cardinality(T \ {x}) \in Nat
  BY <1>1, FS_RemoveElement, FS_CardinalityType
<1> QED
  BY <1>1, <1>2, <1>3, <1>4, <1>5

(* That is how it changes. *)
LEMMA CountMove ==
  ASSUME NEW S, IsFiniteSet(S), NEW T \in SUBSET S, NEW U \in SUBSET S, NEW x \in S,
         \A y \in S : y # x => (y \in T <=> y \in U)
  PROVE  Moved(x, T, U)
<1>1. /\ Cardinality(T) \in Nat /\ Cardinality(U) \in Nat
      /\ Cardinality(U) = Cardinality(T) + (IF x \in U THEN 1 ELSE 0)
                                           - (IF x \in T THEN 1 ELSE 0)
      /\ x \in T => Cardinality(T) >= 1
  BY CountStep
<1>2. CASE x \in U /\ x \in T
  BY <1>1, <1>2 DEF Moved
<1>3. CASE x \in U /\ x \notin T
  BY <1>1, <1>3 DEF Moved
<1>4. CASE x \notin U /\ x \in T
  BY <1>1, <1>4 DEF Moved
<1>5. CASE x \notin U /\ x \notin T
  BY <1>1, <1>5 DEF Moved
<1> QED
  BY <1>2, <1>3, <1>4, <1>5

(* A set has no members exactly when its size is zero. *)
LEMMA CountZero ==
  ASSUME NEW S, IsFiniteSet(S), NEW T \in SUBSET S
  PROVE  Cardinality(T) = 0 <=> T = {}
BY SubsetCount, FS_EmptySet

(* A non-empty set of naturals has a least element. *)
LEMMA LeastNat ==
  ASSUME NEW T \in SUBSET Nat, T # {}
  PROVE  \E x \in T : \A y \in T : x <= y
<1> DEFINE R == OpToRel(<, Nat)
<1>1. IsWellFoundedOn(R, Nat)
  BY NatLessThanWellFounded
<1>2. \A x, y \in Nat : <<y, x>> \in R <=> y < x
  BY DEF OpToRel
<1> HIDE DEF R
<1>3. PICK x \in T : \A y \in T : ~ (<<y, x>> \in R)
  BY <1>1, WFMin
<1>4. \A y \in T : x <= y
  <2> TAKE y \in T
  <2>1. x \in Nat /\ y \in Nat /\ ~(y < x)
    BY <1>2, <1>3
  <2> QED
    BY <2>1
<1> QED
  BY <1>4

(* What is in a queue after an entry is added. *)
LEMMA AppendTo ==
  ASSUME NEW S, NEW q \in Seq(S), NEW x \in S, NEW T
  PROVE  /\ Append(q, x) \in Seq(S) /\ Len(Append(q, x)) = Len(q) + 1
         /\ \A y : InQueue(y, Append(q, x)) <=> InQueue(y, q) \/ y = x
         /\ Distinct(q, T) /\ ~InQueue(x, q) => Distinct(Append(q, x), T)
         /\ Distinct(q, T) /\ x \notin T => Distinct(Append(q, x), T)
<1>1. /\ Append(q, x) \in Seq(S) /\ Len(q) \in Nat /\ Len(Append(q, x)) = Len(q) + 1
      /\ \A i \in 1..Len(q) : Append(q, x)[i] = q[i]
      /\ Append(q, x)[Len(q) + 1] = x
  OBVIOUS
<1>2. \A i : i \in 1..Len(Append(q, x)) <=> i \in 1..Len(q) \/ i = Len(q) + 1
  BY <1>1
<1>3. \A y : InQueue(y, Append(q, x)) <=> InQueue(y, q) \/ y = x
  BY <1>1, <1>2 DEF InQueue
<1>4. Distinct(q, T) /\ (~InQueue(x, q) \/ x \notin T) => Distinct(Append(q, x), T)
  BY <1>1, <1>2 DEF Distinct, InQueue
<1> QED
  BY <1>1, <1>3, <1>4

(* What is in a queue before and after its first entry is taken. *)
LEMMA TailOf ==
  ASSUME NEW S, NEW q \in Seq(S), q # <<>>, NEW T
  PROVE  /\ Head(q) \in S /\ Tail(q) \in Seq(S)
         /\ Len(q) \in Nat /\ Len(q) >= 1 /\ Len(Tail(q)) = Len(q) - 1
         /\ \A y : InQueue(y, q) <=> y = Head(q) \/ InQueue(y, Tail(q))
         /\ Distinct(q, T) => /\ Distinct(Tail(q), T)
                              /\ Head(q) \in T => ~InQueue(Head(q), Tail(q))
<1>1. /\ Head(q) \in S /\ Tail(q) \in Seq(S) /\ Len(q) \in Nat /\ Len(q) >= 1
      /\ Len(Tail(q)) = Len(q) - 1 /\ Head(q) = q[1]
      /\ \A i \in 1..(Len(q) - 1) : Tail(q)[i] = q[i + 1]
  OBVIOUS
<1>2. \A i \in 1..Len(q) : i = 1 \/ (i - 1 \in 1..(Len(q) - 1) /\ Tail(q)[i - 1] = q[i])
  BY <1>1
<1>3. \A y : InQueue(y, q) <=> y = Head(q) \/ InQueue(y, Tail(q))
  <2> TAKE y
  <2>1. InQueue(y, q) => y = Head(q) \/ InQueue(y, Tail(q))
    BY <1>1, <1>2 DEF InQueue
  <2>2. InQueue(y, Tail(q)) => InQueue(y, q)
    <3>1. \A i \in 1..(Len(q) - 1) : i + 1 \in 1..Len(q)
      BY <1>1
    <3> QED
      BY <1>1, <3>1 DEF InQueue
  <2>3. InQueue(Head(q), q)
    BY <1>1 DEF InQueue
  <2> QED
    BY <2>1, <2>2, <2>3
<1>4. \A i \in 1..(Len(q) - 1) : i + 1 \in 1..Len(q) /\ i + 1 # 1
  BY <1>1
<1>5. 1 \in 1..Len(q)
  BY <1>1
<1>6. Distinct(q, T) => Distinct(Tail(q), T)
  <2> SUFFICES ASSUME Distinct(q, T), NEW i \in 1..Len(Tail(q)), NEW j \in 1..Len(Tail(q)),
                      Tail(q)[i] = Tail(q)[j], Tail(q)[i] \in T
               PROVE  i = j
    BY DEF Distinct
  <2>1. i + 1 = j + 1
    BY <1>1, <1>4 DEF Distinct
  <2> QED
    BY <2>1
<1>7. Distinct(q, T) /\ Head(q) \in T => ~InQueue(Head(q), Tail(q))
  BY <1>1, <1>4, <1>5 DEF Distinct, InQueue
<1> QED
  BY <1>1, <1>3, <1>6, <1>7

(* Nothing is in an empty queue. *)
LEMMA EmptyQueue ==
  (\A y : ~InQueue(y, <<>>)) /\ \A T : Distinct(<<>>, T)
BY DEF InQueue, Distinct

(***************************************************************************)
(* The three orders.  What a resource needs is made before it; the error   *)
(* path of init_module and cleanup_module destroy nothing that a resource  *)
(* they have still to destroy needs; the error path sees to everything but *)
(* the world, cleanup_module to everything.                                *)
(***************************************************************************)
LEMMA Orders ==
  /\ Len(BuildOrder) = 14 /\ Len(UndoOrder) = 13 /\ Len(CleanupOrder) = 14
  /\ BuildOrder[14] = "retryWorld"
  /\ CleanupOrder[3] = "retryWorld" /\ CleanupOrder[4] = "registered"
  /\ Resource = {BuildOrder[i] : i \in 1..14}
  /\ Resource = {CleanupOrder[i] : i \in 1..14}
  /\ Resource \ {"retryWorld"} = {UndoOrder[i] : i \in 1..13}
  /\ Resource \ {"retryWorld"} = {BuildOrder[i] : i \in 1..13}
<1>1. DOMAIN BuildOrder = 1..14
  BY DEF BuildOrder
<1>2. Resource = {BuildOrder[i] : i \in 1..14}
  BY <1>1 DEF Resource
<1> HIDE DEF Resource
<1> DEFINE R == {"module", "miscHeap", "createdDevices", "log", "lockDomain", "timerQueue",
    "exCommandHeap", "pluginLock", "deviceSema", "plugin", "config",
    "registered", "cachebox", "retryWorld"}
<1>3. {BuildOrder[i] : i \in 1..14} = R
  BY DEF BuildOrder
<1>4. {CleanupOrder[i] : i \in 1..14} = R
  BY DEF CleanupOrder
<1>5. {UndoOrder[i] : i \in 1..13} = R \ {"retryWorld"}
  BY DEF UndoOrder
<1>6. {BuildOrder[i] : i \in 1..13} = R \ {"retryWorld"}
  BY DEF BuildOrder
<1>7. /\ Len(BuildOrder) = 14 /\ Len(UndoOrder) = 13 /\ Len(CleanupOrder) = 14
      /\ BuildOrder[14] = "retryWorld"
      /\ CleanupOrder[3] = "retryWorld" /\ CleanupOrder[4] = "registered"
  BY DEF BuildOrder, UndoOrder, CleanupOrder
<1> QED
  BY <1>2, <1>3, <1>4, <1>5, <1>6, <1>7

(***************************************************************************)
(* What a resource needs is made before it.                                *)
(***************************************************************************)
LEMMA MadeAfterNeeds ==
  ASSUME NEW i \in 1..14
  PROVE  Needs(BuildOrder[i]) \subseteq {BuildOrder[j] : j \in 1..(i - 1)}
<1> SUFFICES ASSUME NEW x \in Needs(BuildOrder[i])
             PROVE  \E j \in 1..14 : j < i /\ x = BuildOrder[j]
  OBVIOUS
<1> QED
  BY SMTT(60) DEF Needs, BuildOrder

(***************************************************************************)
(* The error path of init_module destroys nothing that a resource after it *)
(* in its order needs.                                                     *)
(***************************************************************************)
LEMMA UndoneBeforeNeeds ==
  ASSUME NEW i \in 1..13, NEW j \in 1..13, i < j
  PROVE  UndoOrder[i] \notin Needs(UndoOrder[j])
BY SMTT(60) DEF Needs, UndoOrder

(***************************************************************************)
(* cleanup_module destroys nothing that a resource after it in its order   *)
(* needs.                                                                  *)
(***************************************************************************)
LEMMA CleanedBeforeNeeds ==
  ASSUME NEW i \in 1..14, NEW j \in 1..14, i < j
  PROVE  CleanupOrder[i] \notin Needs(CleanupOrder[j])
BY SMTT(60) DEF Needs, CleanupOrder

-----------------------------------------------------------------------------
(* what is left of an order from place i on *)
UndoFrom(i)    == {UndoOrder[j] : j \in i..13}
CleanupFrom(i) == {CleanupOrder[j] : j \in i..14}

(* what init_module has made, and where the world is *)
Loading ==
  /\ phase = "init" =>
       /\ step \in 1..14 /\ live = {BuildOrder[j] : j \in 1..(step - 1)}
       /\ world = "none" /\ retryWorldState = "none"
  /\ phase = "starting" =>
       /\ live = {BuildOrder[j] : j \in 1..13}
       /\ \/ world = "created" /\ retryWorldState = "starting"
          \/ world = "loop" /\ retryWorldState = "running"
  /\ phase = "up" =>
       /\ live = Resource
       /\ \/ world = "loop" /\ retryWorldState = "running"
          \/ world = "gone" /\ retryWorldState = "stopped"

(* what the error path has still to destroy; only a killed load leaves a   *)
(* world                                                                   *)
Undoing ==
  phase = "undo" =>
    /\ step \in 1..14 /\ live \subseteq UndoFrom(step)
    /\ \A r \in live : Needs(r) \subseteq live
    /\ world \in {"created", "loop"} => killed
    /\ retryWorldState # "stopping"

(* what cleanup_module has still to destroy; the world ends before its     *)
(* locks go                                                                *)
Unloading ==
  phase = "cleanup" =>
    /\ step \in 1..14 /\ live = CleanupFrom(step)
    /\ \/ world = "loop" /\ retryWorldState \in {"running", "stopping"} /\ step <= 3
       \/ world = "gone" /\ retryWorldState = "stopped"

Unloaded ==
  phase = "gone" =>
    /\ live = {} \/ (step = 4 /\ live = CleanupFrom(4))
    /\ world \in {"created", "loop"} => killed
    /\ retryWorldState # "stopping"

ModuleInv == ModuleTypeOK /\ Loading /\ Undoing /\ Unloading /\ Unloaded

(* the steps of MppModule *)
ModuleStep ==
  \/ Build \/ BuildFails \/ ExampleStartWorld \/ WorldStarted \/ LoaderKilled \/ Undo
  \/ WorldBegin \/ Cleanup \/ UnregisterFails \/ ExampleStopWorld
  \/ cleanup_module \/ WorldExit \/ WorldKilled

(* a step of the devices, paths and commands, of which the module sees a   *)
(* failure at most                                                         *)
OtherStep == UNCHANGED modVars /\ (Fault \/ UNCHANGED faults)

(***************************************************************************)
(* Claims, probes, commands and the timer do not touch what the loader     *)
(* keeps: a step of the plugin is one of the loader and the retry world's  *)
(* ends, or leaves it alone.                                               *)
(***************************************************************************)
LEMMA StepIsModuleStep ==
  ASSUME [Next]_vars
  PROVE  ModuleStep \/ OtherStep
<1>1. CASE Module
  BY <1>1 DEF Module, ModuleStep
<1>2. CASE Unload
  BY <1>2 DEF Unload, ModuleStep
<1>3. CASE RetryWorldEnds
  BY <1>3 DEF RetryWorldEnds, ModuleStep
<1>4. CASE Claim
  BY <1>4, Zenon DEF Claim, OtherStep, ExamplePathClaimBegin, ExamplePathClaimEnd, ClaimAdd,
       ClaimUpdate, EndDone, EndNoMemory, EndProbe, EndRegister, EndFlag, ExampleClaimPath
<1>5. CASE Unclaim
  BY <1>5, Zenon DEF Unclaim, OtherStep, ExampleUnclaimPath, UnclaimRemove,
       ExampleDrainBusyCount, ExampleDestroyDevice, UnclaimUndo, UnclaimDone
<1>6. CASE Probe
  BY <1>6, ZenonT(30) DEF Probe, OtherStep, ProbePath, ExamplePathSetState, PathProbed,
       DeviceProbe, ProbeOpen, ProbeBegin, ProbeNoMemory, ProbeDrop, ProbeNext, ProbeClose,
       ExampleUpdatePathState
<1>7. CASE Use
  BY <1>7, Zenon DEF Use, OtherStep, ExampleDeviceOpen, ExampleDeviceClose,
       ExampleDeviceInquiry, InquiryEnd, ExampleDeviceTaskManagement, TaskIssue, TaskDrop
<1>8. CASE Command
  BY <1>8, Zenon DEF Command, OtherStep, ExampleIssueCommand, CompleteDone, CompleteRetry,
       CompleteStart, CompleteSched, CompleteDeref, AbortTake,
       ExamplePathIssueCommandDirect, DirectComplete, DirectDeref, RetryLook, RetryLooked,
       ExampleDevice_AttemptFailover, AbortIssue, FailoverEnd, RetryBusy,
       ExampleRetryCmd, ExampleDevice_Unblock, RetryEnd, TimerFire, TimerEnd
<1>9. CASE UNCHANGED vars
  BY <1>9 DEF vars, modVars, OtherStep
<1> QED
  BY <1>1, <1>2, <1>3, <1>4, <1>5, <1>6, <1>7, <1>8, <1>9 DEF Next

(***************************************************************************)
(* init_module begins with nothing.                                        *)
(***************************************************************************)
LEMMA ModuleInvInit ==
  ASSUME Init
  PROVE  ModuleInv
<1>1. /\ phase = "init" /\ step = 1 /\ live = {} /\ retryWorldState = "none"
      /\ world = "none" /\ killed = FALSE /\ faults = 0
  BY DEF Init, ModuleInit
<1>2. {BuildOrder[j] : j \in 1..(step - 1)} = {}
  BY <1>1
<1>3. ModuleTypeOK
  <2>1. MaxFault \in Nat
    BY PathsAssumption
  <2>2. step \in 1..(Len(BuildOrder) + 1)
    BY <1>1, Orders
  <2>3. killed \in BOOLEAN
    BY Zenon DEF Init, ModuleInit
  <2>4. faults \in 0..MaxFault
    BY <1>1, <2>1
  <2> QED
    BY <1>1, <2>2, <2>3, <2>4, Zenon DEF ModuleTypeOK
<1>4. Loading
  BY <1>1, <1>2 DEF Loading
<1> QED
  BY <1>1, <1>3, <1>4 DEF ModuleInv, Undoing, Unloading, Unloaded

(***************************************************************************)
(* Every step of the loader and the world keeps the invariant.             *)
(***************************************************************************)
LEMMA ModuleInvNext ==
  ASSUME ModuleInv, ModuleStep \/ OtherStep
  PROVE  ModuleInv'
<1> USE Orders, PathsAssumption
<1> USE DEF ModuleInv, ModuleTypeOK
<1> DEFINE Made(i) == {BuildOrder[j] : j \in 1..(i - 1)}
<1>1. CASE Build
  <2>1. /\ phase = "init" /\ phase' = phase /\ step \in 1..13 /\ step' = step + 1
        /\ live' = live \cup {BuildOrder[step]} /\ live = Made(step)
        /\ UNCHANGED <<retryWorldState, world, killed, faults>>
    BY <1>1 DEF Build, Loading
  <2>2. live' = Made(step')
    <3>1. 1..(step' - 1) = (1..(step - 1)) \cup {step}
      BY <2>1
    <3> QED
      BY <2>1, <3>1
  <2>3. live' \subseteq Resource
    BY <2>1, BuildOrder[step] \in Resource
  <2> QED
    BY <2>1, <2>2, <2>3 DEF Loading, Undoing, Unloading, Unloaded
<1>2. CASE BuildFails
  <2>1. /\ phase = "init" /\ phase' = "undo" /\ step' = 1 /\ step \in 1..14
        /\ live = Made(step) /\ live' = live /\ world = "none" /\ retryWorldState = "none"
        /\ UNCHANGED <<retryWorldState, world, killed>> /\ faults' \in 0..MaxFault
    BY <1>2 DEF BuildFails, Loading, Fault
  <2>2. live' \subseteq UndoFrom(step')
    BY <2>1 DEF UndoFrom
  <2>3. ASSUME NEW r \in live' PROVE Needs(r) \subseteq live'
    <3>1. PICK j \in 1..14 : j < step /\ r = BuildOrder[j]
      BY <2>1
    <3>2. Made(j) \subseteq Made(step)
      BY <2>1, <3>1
    <3> QED
      BY <2>1, <3>1, <3>2, MadeAfterNeeds
  <2> QED
    BY <2>1, <2>2, <2>3 DEF Loading, Undoing, Unloading, Unloaded
<1>3. CASE ExampleStartWorld
  BY <1>3 DEF ExampleStartWorld, Loading, Undoing, Unloading, Unloaded
<1>4. CASE WorldStarted
  <2>1. /\ phase = "starting" /\ phase' = "up" /\ live' = live \cup {"retryWorld"}
        /\ live = {BuildOrder[j] : j \in 1..13}
        /\ world = "loop" /\ retryWorldState = "running"
        /\ UNCHANGED <<step, retryWorldState, world, killed, faults>>
    BY <1>4 DEF WorldStarted, Loading
  <2>2. "retryWorld" \in Resource
    BY BuildOrder[14] \in Resource
  <2>3. live' = Resource
    BY <2>1, <2>2
  <2> QED
    BY <2>1, <2>3 DEF Loading, Undoing, Unloading, Unloaded
<1>5. CASE LoaderKilled
  <2>1. /\ phase = "starting" /\ phase' = "undo" /\ step' = 1 /\ live' = live /\ killed'
        /\ live = {BuildOrder[j] : j \in 1..13}
        /\ retryWorldState = "starting"
        /\ UNCHANGED <<retryWorldState, world>> /\ faults' \in 0..MaxFault
    BY <1>5 DEF LoaderKilled, Loading, Fault
  <2>2. live' \subseteq UndoFrom(step')
    BY <2>1 DEF UndoFrom
  <2>3. ASSUME NEW r \in live' PROVE Needs(r) \subseteq live'
    <3>1. PICK j \in 1..13 : r = BuildOrder[j]
      BY <2>1
    <3>2. Made(j) \subseteq {BuildOrder[k] : k \in 1..13}
      BY <3>1
    <3> QED
      BY <2>1, <3>1, <3>2, MadeAfterNeeds
  <2> QED
    BY <1>5, <2>1, <2>2, <2>3 DEF LoaderKilled, Loading, Undoing, Unloading, Unloaded
<1>6. CASE Undo
  <2>0. /\ phase = "undo" /\ step \in 1..14 /\ live \subseteq UndoFrom(step)
        /\ UNCHANGED <<retryWorldState, world, killed, faults>>
    BY <1>6 DEF Undo, Undoing
  <2>1. CASE step > 13
    <3>1. UndoFrom(step) = {}
      BY <2>0, <2>1 DEF UndoFrom
    <3> QED
      BY <1>6, <2>0, <2>1, <3>1 DEF Undo, Undoing, Loading, Unloading, Unloaded
  <2>2. CASE step \in 1..13
    <3>1. /\ live' = live \ {UndoOrder[step]} /\ step' = step + 1 /\ phase' = phase
      BY <1>6, <2>2 DEF Undo
    <3>2. UndoFrom(step) \ {UndoOrder[step]} \subseteq UndoFrom(step')
      BY <2>2, <3>1 DEF UndoFrom
    <3>3. live' \subseteq UndoFrom(step')
      BY <2>0, <3>1, <3>2
    <3>4. ASSUME NEW r \in live' PROVE Needs(r) \subseteq live'
      <4>1. PICK j \in 1..13 : j > step /\ r = UndoOrder[j]
        BY <2>0, <2>2, <3>1, <3>3 DEF UndoFrom
      <4>2. UndoOrder[step] \notin Needs(r)
        BY <2>2, <4>1, UndoneBeforeNeeds
      <4>3. Needs(r) \subseteq live
        BY <2>0, <3>1 DEF Undoing
      <4> QED
        BY <3>1, <4>2, <4>3
    <3> QED
      BY <2>0, <2>2, <3>1, <3>3, <3>4 DEF Undoing, Loading, Unloading, Unloaded
  <2> QED
    BY <2>0, <2>1, <2>2
<1>7. CASE WorldBegin
  BY <1>7 DEF WorldBegin, Loading, Undoing, Unloading, Unloaded
<1>8. CASE Cleanup
  <2>1. /\ phase = "cleanup" /\ step \in 1..14 /\ CleanupOrder[step] # "retryWorld"
        /\ live = CleanupFrom(step) /\ live' = live \ {CleanupOrder[step]}
        /\ UNCHANGED <<retryWorldState, world, killed, faults>>
    BY <1>8 DEF Cleanup, Unloading
  <2>2. step # 3
    BY <2>1
  <2>3. CASE step = 14
    <3>1. live' = {}
      BY <2>1, <2>3 DEF CleanupFrom
    <3> QED
      BY <1>8, <2>1, <2>3, <3>1 DEF Cleanup, Loading, Undoing, Unloading, Unloaded
  <2>4. CASE step \in 1..13
    <3>1. step' = step + 1 /\ phase' = phase
      BY <1>8, <2>4 DEF Cleanup
    <3>2. \A j \in 1..14 : j > step => CleanupOrder[j] # CleanupOrder[step]
      BY <2>4 DEF CleanupOrder
    <3>3. live' = CleanupFrom(step')
      BY <2>1, <2>4, <3>1, <3>2 DEF CleanupFrom
    <3> QED
      BY <2>1, <2>2, <2>4, <3>1, <3>3 DEF Loading, Undoing, Unloading, Unloaded
  <2> QED
    BY <2>1, <2>3, <2>4
<1>9. CASE UnregisterFails
  <2>1. phase = "cleanup" /\ CleanupOrder[step] = "registered" /\ step \in 1..14
    BY <1>9 DEF UnregisterFails, Unloading
  <2>2. step = 4
    BY <2>1 DEF CleanupOrder
  <2> QED
    BY <1>9, <2>1, <2>2 DEF UnregisterFails, Fault, Loading, Undoing, Unloading, Unloaded
<1>10. CASE ExampleStopWorld
  <2>1. /\ phase = "cleanup" /\ CleanupOrder[step] = "retryWorld" /\ step \in 1..14
        /\ live = CleanupFrom(step) /\ UNCHANGED <<phase, world, killed, faults>>
    BY <1>10 DEF ExampleStopWorld, Unloading
  <2>2. step = 3
    BY <2>1 DEF CleanupOrder
  <2>3. CASE retryWorldState = "stopped"
    <3>1. live' = live \ {CleanupOrder[3]} /\ step' = 4 /\ UNCHANGED retryWorldState
      BY <1>10, <2>2, <2>3 DEF ExampleStopWorld
    <3>2. \A j \in 4..14 : CleanupOrder[j] # CleanupOrder[3]
      BY DEF CleanupOrder
    <3>3. live' = CleanupFrom(step')
      BY <2>1, <2>2, <3>1, <3>2 DEF CleanupFrom
    <3> QED
      BY <2>1, <2>2, <2>3, <3>1, <3>3 DEF Loading, Undoing, Unloading, Unloaded
  <2>4. CASE retryWorldState # "stopped"
    BY <1>10, <2>1, <2>2, <2>4
       DEF ExampleStopWorld, Loading, Undoing, Unloading, Unloaded
  <2> QED
    BY <2>3, <2>4
<1>11. CASE cleanup_module
  <2>1. CleanupFrom(1) = Resource
    BY DEF CleanupFrom
  <2> QED
    BY <1>11, <2>1 DEF cleanup_module, Loading, Undoing, Unloading, Unloaded
<1>12. CASE WorldExit
  BY <1>12 DEF WorldExit, Loading, Undoing, Unloading, Unloaded
<1>13. CASE WorldKilled
  BY <1>13 DEF WorldKilled, Fault, Loading, Undoing, Unloading, Unloaded
<1>14. CASE OtherStep
  BY <1>14 DEF OtherStep, modVars, Fault, Loading, Undoing, Unloading, Unloaded
<1> QED
  BY <1>1, <1>2, <1>3, <1>4, <1>5, <1>6, <1>7, <1>8, <1>9, <1>10, <1>11, <1>12,
     <1>13, <1>14 DEF ModuleStep

(***************************************************************************)
(* The loader's state agrees with what exists: init_module has made the    *)
(* resources before its step, the error path and cleanup_module have those *)
(* from their step on left, and a world outlives its load only when it was *)
(* killed.                                                                 *)
(***************************************************************************)
THEOREM ModuleInvariance == Spec => []ModuleInv
<1>1. Init => ModuleInv
  BY ModuleInvInit
<1>2. ModuleInv /\ [Next]_vars => ModuleInv'
  BY ModuleInvNext, StepIsModuleStep
<1> QED
  BY <1>1, <1>2, PTL DEF Spec

(***************************************************************************)
(* The loader's variables keep their types: its step never leaves the      *)
(* order it walks.                                                         *)
(***************************************************************************)
THEOREM ModuleTypeCorrect == Spec => []ModuleTypeOK
<1>1. ModuleInv => ModuleTypeOK
  BY DEF ModuleInv
<1> QED
  BY <1>1, ModuleInvariance, PTL

(***************************************************************************)
(* init_module, its error path and cleanup_module agree on what rests on   *)
(* what, whatever the plugin does between load and unload and wherever a   *)
(* call to the kernel fails: what exists has all it needs, the retry world *)
(* has its lock and its heap, and nothing is left behind.                  *)
(***************************************************************************)
THEOREM ResourcesOutliveUsersHolds == Spec => []ResourcesOutliveUsers
<1>1. ModuleInv => ResourcesOutliveUsers
  <2> SUFFICES ASSUME ModuleInv PROVE ResourcesOutliveUsers
    OBVIOUS
  <2> USE Orders
  <2>0. \A i \in 1..14 : BuildOrder[i] \in Resource
    OBVIOUS
  <2>1. ASSUME NEW r \in live PROVE Needs(r) \subseteq live
    <3>0. PICK j \in 1..14 : r = BuildOrder[j]
      BY DEF ModuleInv, ModuleTypeOK
    <3>1. CASE phase = "init"
      <4>1. PICK k \in 1..14 : k < step /\ r = BuildOrder[k]
        BY <3>1 DEF ModuleInv, Loading
      <4>2. {BuildOrder[i] : i \in 1..(k - 1)} \subseteq live
        BY <3>1, <4>1 DEF ModuleInv, Loading
      <4> QED
        BY <4>1, <4>2, MadeAfterNeeds
    <3>2. CASE phase = "starting"
      <4>1. PICK k \in 1..13 : r = BuildOrder[k]
        BY <3>2 DEF ModuleInv, Loading
      <4>2. {BuildOrder[i] : i \in 1..(k - 1)} \subseteq live
        BY <3>2, <4>1 DEF ModuleInv, Loading
      <4> QED
        BY <4>1, <4>2, MadeAfterNeeds
    <3>3. CASE phase = "up"
      <4>1. {BuildOrder[i] : i \in 1..(j - 1)} \subseteq live
        BY <3>3 DEF ModuleInv, Loading
      <4> QED
        BY <3>0, <4>1, MadeAfterNeeds
    <3>4. CASE phase = "undo"
      BY <3>4 DEF ModuleInv, Undoing
    <3>5. ASSUME NEW s \in 1..14, live = CleanupFrom(s) PROVE Needs(r) \subseteq live
      <4>1. PICK k \in 1..14 : k >= s /\ r = CleanupOrder[k]
        BY <3>5 DEF CleanupFrom
      <4>2. Needs(r) \subseteq Resource
        BY <3>0, MadeAfterNeeds
      <4> SUFFICES ASSUME NEW x \in Needs(r) PROVE x \in live
        OBVIOUS
      <4>3. PICK i \in 1..14 : x = CleanupOrder[i]
        BY <4>2
      <4>4. i >= s
        BY <4>1, <4>3, CleanedBeforeNeeds
      <4> QED
        BY <3>5, <4>3, <4>4 DEF CleanupFrom
    <3>6. CASE phase = "cleanup"
      BY <3>5, <3>6 DEF ModuleInv, Unloading
    <3>7. CASE phase = "gone"
      BY <3>5, <3>7 DEF ModuleInv, Unloaded
    <3> QED
      BY <3>1, <3>2, <3>3, <3>4, <3>6, <3>7 DEF ModuleInv, ModuleTypeOK
  <2>2. ASSUME world = "loop" PROVE {"pluginLock", "exCommandHeap"} \subseteq live \/ killed
    <3>1. BuildOrder[8] = "pluginLock" /\ BuildOrder[7] = "exCommandHeap"
      BY DEF BuildOrder
    <3>2. CleanupOrder[8] = "pluginLock" /\ CleanupOrder[11] = "exCommandHeap"
      BY DEF CleanupOrder
    <3>3. CASE phase = "cleanup"
      BY <2>2, <3>2, <3>3 DEF ModuleInv, Unloading, CleanupFrom
    <3>4. CASE phase \in {"init", "starting", "up"}
      BY <2>2, <3>1, <3>4, <2>0 DEF ModuleInv, Loading
    <3> QED
      BY <2>2, <3>3, <3>4 DEF ModuleInv, ModuleTypeOK, Undoing, Unloaded
  <2>3. phase = "gone" => live = {} \/ CleanupOrder[step] = "registered"
    BY DEF ModuleInv, Unloaded
  <2> QED
    BY <2>1, <2>2, <2>3 DEF ResourcesOutliveUsers
<1> QED
  BY <1>1, ModuleInvariance, PTL
-----------------------------------------------------------------------------
(***************************************************************************)
(* Devices and paths.  All that follows is said of behaviours up to the    *)
(* first use of what was freed.                                            *)
(***************************************************************************)
One(b) == IF b THEN 1 ELSE 0

(* the types *)
DevType ==
  [st : {"unused", "live", "freed"}, uid : Uid, paths : [Index -> Path \cup {NoPath}],
   n : Nat, active : Index, open : Nat, busy : Nat, timer : BOOLEAN, probe : BOOLEAN,
   known : BOOLEAN, reg : BOOLEAN, removing : BOOLEAN, update : BOOLEAN]
PathType ==
  [ex : BOOLEAN, d : Dev \cup {NoDev}, ref : Nat, cmds : Nat,
   state : {"on", "standby", "dead", "off"}]
MgPc == {"idle", "add", "update", "end", "probed", "flag", "remove", "drain", "destroy",
         "wait", "probe"}
PrPc == {"idle", "open", "begin", "tur", "dec", "next", "close"}
RwPc == {"idle", "look", "failover", "resv", "abort", "busy", "retry", "unblock", "unbusy"}

TypeObj ==
  /\ createdDevices \in [0..(maxDevices - 1) -> Dev \cup {NoDev}]
  /\ dev \in [Dev -> DevType]
  /\ path \in [Path -> PathType]
MgType == [pc : MgPc, p : Path \cup {NoPath}, d : Dev \cup {NoDev}, i : Nat, working : BOOLEAN]
TypeMg == mg \in MgType
PrType == [pc : PrPc, p : Path \cup {NoPath}, d : Dev \cup {NoDev}, i : Nat, own : BOOLEAN,
           ok : BOOLEAN]
TypePr == pr \in [Prober -> PrType]
TypeUser == user \in [pc : {"out", "open", "inquiry", "task", "issued"},
                      p : Path \cup {NoPath}, d : Dev \cup {NoDev}, i : Nat]
TypeCmd ==
  /\ cmd \in [Cmd -> [pc : {"idle", "flight", "retry"}, p : Path \cup {NoPath},
                      d : Dev \cup {NoDev}]]
  /\ retryQueue \in Seq(Cmd)
TypeComp == comp \in [Cmd -> [pc : {"idle", "start", "deref"}, p : Path \cup {NoPath},
                              d : Dev \cup {NoDev}]]
TypeDirect == direct \in [pc : {"idle", "flight", "deref"}, p : Path \cup {NoPath}]
TypeRw == rw \in [pc : RwPc, c : Cmd \cup {NoCmd}, d : Dev \cup {NoDev},
                  p : Path \cup {NoPath}, q : Path \cup {NoPath}]
TypeTm == tm \in Dev \cup {NoDev}

(* the path operation has its path out of the slots *)
Out(p) == mg.p = p /\ mg.pc \in {"add", "drain", "destroy", "wait"}

(* the slots of the devices *)
SlotOwner ==
  \A d \in Dev, i \in Index :
    LET p == dev[d].paths[i] IN
    p # NoPath => path[p].ex /\ path[p].d = d /\ Alive(d) /\ ~Out(p)
SlotOnce ==
  \A d \in Dev, i, j \in Index :
    dev[d].paths[i] = dev[d].paths[j] /\ dev[d].paths[i] # NoPath => i = j
SlotOf ==
  \A p \in Path : path[p].ex /\ ~Out(p) =>
    path[p].d \in Dev /\ \E i \in Index : dev[path[p].d].paths[i] = p
SlotCount == \A d \in Dev : dev[d].n = Cardinality(Used(d, 0))
SlotActive == \A d \in Dev : dev[d].n # 0 => Active(d) # NoPath
Slots == SlotOwner /\ SlotOnce /\ SlotOf /\ SlotCount /\ SlotActive

(* devices, by what the path operation does *)
Emptied(d) == mg.pc \in {"drain", "destroy"} /\ mg.d = d
Devices ==
  \A d \in Dev :
    /\ Alive(d) /\ dev[d].n = 0 =>
         (mg.pc = "add" /\ mg.d = d /\ dev[d].active = 0 /\ ~dev[d].known) \/ Emptied(d)
    /\ dev[d].removing <=> Emptied(d)
    /\ Emptied(d) => dev[d].n = 0
    /\ dev[d].known /\ ~dev[d].reg => mg.pc = "flag" /\ mg.d = d
    /\ ~Alive(d) => dev[d].n = 0 /\ ~dev[d].known
Drained ==
  \A d \in Dev :
    /\ dev[d].n = 0 => dev[d].open = 0
    /\ (mg.pc = "destroy" /\ mg.d = d) \/ ~Alive(d) => dev[d].busy = 0
Created == \A i \in 0..(maxDevices - 1) :
             createdDevices[i] # NoDev => Alive(createdDevices[i])

(* the path operation *)
Management ==
  /\ mg.pc \in {"idle", "end", "probed", "flag", "probe"} => mg.p = NoPath
  /\ mg.pc \in {"add", "update", "remove", "drain", "destroy", "wait"} =>
       mg.p \in Path /\ path[mg.p].ex
  /\ mg.pc \in {"add", "update", "remove", "drain", "destroy", "probed", "flag"} =>
       mg.d \in Dev /\ Alive(mg.d)
  /\ mg.pc = "add" => path[mg.p].d = NoDev
  /\ mg.pc \in {"update", "remove", "drain", "destroy"} => path[mg.p].d = mg.d
  /\ mg.pc = "remove" /\ mg.working => dev[mg.d].n # 1

(* the probes *)
Within(r, d) == r.d = d /\ r.own /\ r.pc \notin {"idle", "open"}
Holds(r, p)  == r.p = p /\ r.own /\ r.pc \in {"tur", "dec"}
Inside(e, d)  == Within(pr[e], d)
ProbeOn(e, p) == Holds(pr[e], p)
Probes ==
  /\ \A e \in Prober :
       /\ pr[e].pc = "idle" <=> pr[e].d = NoDev
       /\ pr[e].pc = "idle" => ~pr[e].own
       /\ pr[e].pc # "idle" => Alive(pr[e].d)
       /\ pr[e].pc \in {"tur", "dec"} => pr[e].p \in Path
       /\ pr[e].pc \notin {"idle", "tur"} => pr[e].own
  /\ pr["mg"].pc # "idle" => mg.pc \in {"probe", "probed"}
  /\ pr["mg"].pc = "tur" /\ ~pr["mg"].own => path[pr["mg"].p].ex
  /\ pr["dp"].pc # "idle" => pr["dp"].own /\ dev[pr["dp"].d].known

(* the open count and the busy count *)
Opens ==
  \A d \in Dev :
    dev[d].open = One(user.pc # "out" /\ user.d = d) + One(Inside("mg", d))
                    + One(Inside("dp", d))
Busy ==
  \A d \in Dev :
    dev[d].busy = One(rw.d = d /\ rw.pc \in {"retry", "unblock", "unbusy"})
                    + One(dev[d].timer) + One(tm = d)

(* users, commands and the retry world *)
Users ==
  /\ user.pc # "out" <=> user.d # NoDev
  /\ user.pc \in {"inquiry", "task", "issued"} <=> user.p # NoPath
  /\ direct.pc # "idle" <=> direct.p # NoPath
  /\ \A c \in Cmd : /\ comp[c].pc # "idle" <=> comp[c].p # NoPath
                    /\ comp[c].pc # "idle" <=> comp[c].d # NoDev
Commands ==
  /\ \A c \in Cmd :
       /\ cmd[c].pc = "flight" <=> cmd[c].p # NoPath
       /\ cmd[c].pc # "idle" => user.pc # "out" /\ cmd[c].d = user.d
  /\ \A c \in Cmd : InQueue(c, retryQueue) => cmd[c].pc = "retry" /\ rw.c # c
  /\ Distinct(retryQueue, Cmd)
World ==
  /\ rw.c # NoCmd <=> rw.pc \notin {"idle", "unblock", "unbusy"}
  /\ rw.c # NoCmd => cmd[rw.c].pc = "retry" /\ cmd[rw.c].d = rw.d
  /\ rw.pc # "idle" <=> rw.d # NoDev
  /\ rw.pc \in {"look", "resv", "abort"} <=> rw.p # NoPath

(* the counts of a path *)
FlightOn(p) == {c \in Cmd : cmd[c].p = p}
CompOn(p) == {c \in Cmd : comp[c].p = p}
Counts ==
  \A p \in Path :
    /\ path[p].cmds = Cardinality(FlightOn(p)) + Cardinality(CompOn(p)) + One(direct.p = p)
    /\ path[p].ref  = path[p].cmds + One(user.p = p) + One(ProbeOn("mg", p))
                        + One(ProbeOn("dp", p)) + One(rw.p = p)
Refs == \A p \in Path : path[p].ref > 0 => path[p].ex /\ path[p].d \in Dev

Types == TypeObj /\ TypeMg /\ TypePr /\ TypeUser /\ TypeCmd /\ TypeComp /\ TypeDirect
           /\ TypeRw /\ TypeTm
PathsInv ==
  /\ Types /\ Slots /\ Devices /\ Drained /\ Created /\ Management /\ Probes /\ Opens /\ Busy
  /\ Users /\ Commands /\ World /\ Counts /\ Refs
-----------------------------------------------------------------------------
(* The names of the probers, and the shape of what is written. *)
LEMMA PathNames ==
  /\ "mg" \in Prober /\ "dp" \in Prober
  /\ \A e \in Prober : e = "mg" \/ e = "dp"
  /\ NoPath \notin Path /\ NoDev \notin Dev /\ NoCmd \notin Cmd
  /\ IsFiniteSet(Cmd) /\ IsFiniteSet(Index) /\ 0 \in Index /\ Index \in SUBSET Nat
<1>1. MaxPaths - 1 \in Nat
  BY PathsAssumption
<1>2. IsFiniteSet(0..(MaxPaths - 1))
  BY <1>1, FS_Interval
<1> QED
  BY <1>1, <1>2, PathsAssumption DEF Prober, Index

(* What a step leaves of the devices, the paths and the path operation. *)
DevShape ==
  \A d \in Dev :
    /\ dev'[d].st = dev[d].st /\ dev'[d].paths = dev[d].paths /\ dev'[d].n = dev[d].n
    /\ dev'[d].active = dev[d].active /\ dev'[d].removing = dev[d].removing
    /\ dev'[d].known = dev[d].known /\ dev'[d].reg = dev[d].reg
PathShape ==
  \A p \in Path : path'[p].ex = path[p].ex /\ path'[p].d = path[p].d

(* Such a step leaves all that is said of slots. *)
LEMMA ShapeKept ==
  ASSUME PathsInv, DevShape, PathShape, UNCHANGED <<mg, createdDevices>>
  PROVE  Slots' /\ Devices' /\ Created' /\ Management'
<1> USE DEF PathsInv, DevShape, PathShape
<1>0. TypeObj /\ TypeMg
  BY DEF Types
<1>1. \A d \in Dev : Alive(d)' = Alive(d) /\ Emptied(d)' = Emptied(d) /\ Active(d)' = Active(d)
                     /\ Used(d, 0)' = Used(d, 0)
  BY DEF Alive, Emptied, Active, Used
<1>2. \A p : Out(p)' = Out(p)
  BY DEF Out
<1>3. SlotOwner'
  BY <1>0, <1>1, <1>2 DEF Slots, SlotOwner, TypeObj, DevType
<1>4. SlotOnce'
  BY DEF Slots, SlotOnce
<1>5. SlotOf'
  BY <1>2 DEF Slots, SlotOf
<1>6. SlotCount' /\ SlotActive'
  BY <1>1 DEF Slots, SlotCount, SlotActive
<1>7. Devices'
  BY <1>1 DEF Devices
<1>8. Created'
  BY <1>0, <1>1 DEF Created, TypeObj
<1>9. Management'
  BY <1>0, <1>1 DEF Management, TypeMg, MgType
<1> QED
  BY <1>3, <1>4, <1>5, <1>6, <1>7, <1>8, <1>9 DEF Slots

(* The commands on a path when one of them moves. *)
LEMMA FlightMove ==
  ASSUME NEW c \in Cmd, \A b \in Cmd \ {c} : cmd'[b].p = cmd[b].p, NEW q
  PROVE  /\ Cardinality(FlightOn(q)) \in Nat
         /\ Cardinality(FlightOn(q)')
              = Cardinality(FlightOn(q)) + One(cmd'[c].p = q) - One(cmd[c].p = q)
<1>1. /\ FlightOn(q) \in SUBSET Cmd /\ FlightOn(q)' \in SUBSET Cmd
      /\ \A b \in Cmd : b # c => (b \in FlightOn(q) <=> b \in FlightOn(q)')
      /\ c \in FlightOn(q) <=> cmd[c].p = q
      /\ c \in FlightOn(q)' <=> cmd'[c].p = q
  BY DEF FlightOn
<1> QED
  BY <1>1, CountStep, PathNames DEF One

(* The completing threads on a path when one of them moves. *)
LEMMA CompMove ==
  ASSUME NEW c \in Cmd, \A b \in Cmd \ {c} : comp'[b].p = comp[b].p, NEW q
  PROVE  /\ Cardinality(CompOn(q)) \in Nat
         /\ Cardinality(CompOn(q)')
              = Cardinality(CompOn(q)) + One(comp'[c].p = q) - One(comp[c].p = q)
<1>1. /\ CompOn(q) \in SUBSET Cmd /\ CompOn(q)' \in SUBSET Cmd
      /\ \A b \in Cmd : b # c => (b \in CompOn(q) <=> b \in CompOn(q)')
      /\ c \in CompOn(q) <=> comp[c].p = q
      /\ c \in CompOn(q)' <=> comp'[c].p = q
  BY DEF CompOn
<1> QED
  BY <1>1, CountStep, PathNames DEF One

(* They can be counted. *)
LEMMA OnPathCount ==
  ASSUME NEW q
  PROVE  Cardinality(FlightOn(q)) \in Nat /\ Cardinality(CompOn(q)) \in Nat
BY SubsetCount, PathNames DEF FlightOn, CompOn

(* Who has a path keeps it. *)
LEMMA RefHeld ==
  ASSUME PathsInv, NEW p \in Path,
         user.p = p \/ rw.p = p \/ ProbeOn("mg", p) \/ ProbeOn("dp", p)
  PROVE  path[p].ref > 0 /\ path[p].ex /\ path[p].d \in Dev
<1>1. /\ path[p].ref = path[p].cmds + One(user.p = p) + One(ProbeOn("mg", p))
                         + One(ProbeOn("dp", p)) + One(rw.p = p)
      /\ path[p].cmds \in Nat
  BY DEF PathsInv, Counts, Types, TypeObj, PathType
<1>2. path[p].ref > 0
  BY <1>1 DEF One
<1> QED
  BY <1>2 DEF PathsInv, Refs

(* An active path is claimed, and its device is alive. *)
LEMMA ActiveIsClaimed ==
  ASSUME PathsInv, NEW d \in Dev, Active(d) # NoPath
  PROVE  /\ Active(d) \in Path /\ path[Active(d)].ex /\ path[Active(d)].d = d
         /\ Alive(d) /\ ~Out(Active(d))
<1>1. dev[d].active \in Index /\ dev[d].paths \in [Index -> Path \cup {NoPath}]
  BY DEF PathsInv, Types, TypeObj, DevType
<1> QED
  BY <1>1 DEF PathsInv, Slots, SlotOwner, Active

(* What a step that leaves its variables alone leaves true. *)
LEMMA PartsKept ==
  ASSUME PathsInv
  PROVE  /\ UNCHANGED <<user, cmd, retryQueue, rw>> => Commands'
         /\ UNCHANGED <<cmd, rw>> => World'
         /\ UNCHANGED <<user, direct, comp>> => Users'
         /\ UNCHANGED <<user, pr>> /\ (\A d \in Dev : dev'[d].open = dev[d].open) => Opens'
         /\ UNCHANGED <<rw, tm>>
              /\ (\A d \in Dev : dev'[d].busy = dev[d].busy /\ dev'[d].timer = dev[d].timer)
            => Busy'
         /\ UNCHANGED mg /\ DevShape
              /\ (\A d \in Dev : dev'[d].busy = dev[d].busy /\ dev'[d].open = dev[d].open)
            => Drained'
         /\ UNCHANGED <<mg, pr>> /\ DevShape /\ PathShape => Probes'
         /\ UNCHANGED <<cmd, comp, direct, user, pr, rw>>
              /\ (\A p \in Path : path'[p].cmds = path[p].cmds /\ path'[p].ref = path[p].ref)
            => Counts'
<1> USE DEF PathsInv
<1>1. UNCHANGED <<user, cmd, retryQueue, rw>> => Commands'
  BY DEF Commands, InQueue, Distinct
<1>2. UNCHANGED <<cmd, rw>> => World'
  BY DEF World
<1>3. UNCHANGED <<user, direct, comp>> => Users'
  BY DEF Users
<1>4. UNCHANGED <<user, pr>> /\ (\A d \in Dev : dev'[d].open = dev[d].open) => Opens'
  BY DEF Opens, Inside
<1>5. UNCHANGED <<rw, tm>>
        /\ (\A d \in Dev : dev'[d].busy = dev[d].busy /\ dev'[d].timer = dev[d].timer)
      => Busy'
  BY DEF Busy
<1>6. UNCHANGED mg /\ DevShape
        /\ (\A d \in Dev : dev'[d].busy = dev[d].busy /\ dev'[d].open = dev[d].open)
      => Drained'
  BY DEF Drained, DevShape, Alive
<1>7. UNCHANGED <<mg, pr>> /\ DevShape /\ PathShape => Probes'
  BY PathNames DEF Probes, DevShape, PathShape, Alive, Types, TypePr, PrType
<1>8. ASSUME UNCHANGED <<cmd, comp, direct, user, pr, rw>>,
             \A p \in Path : path'[p].cmds = path[p].cmds /\ path'[p].ref = path[p].ref
      PROVE  Counts'
  <2>1. \A p : FlightOn(p)' = FlightOn(p) /\ CompOn(p)' = CompOn(p)
               /\ ProbeOn("mg", p)' = ProbeOn("mg", p) /\ ProbeOn("dp", p)' = ProbeOn("dp", p)
    BY <1>8 DEF FlightOn, CompOn, ProbeOn
  <2> QED
    BY <1>8, <2>1 DEF Counts
<1> QED
  BY <1>1, <1>2, <1>3, <1>4, <1>5, <1>6, <1>7, <1>8

(* The types of a device whose counters change, ... *)
LEMMA DevTyped ==
  ASSUME NEW f \in [Dev -> DevType], NEW d \in Dev, NEW k \in Nat
  PROVE  /\ [f EXCEPT ![d].open = k] \in [Dev -> DevType]
         /\ [f EXCEPT ![d].busy = k] \in [Dev -> DevType]
<1>1. f[d] \in DevType
  OBVIOUS
<1>2. [f[d] EXCEPT !.open = k] \in DevType
  BY <1>1 DEF DevType
<1>3. [f[d] EXCEPT !.busy = k] \in DevType
  BY <1>1 DEF DevType
<1> QED
  BY <1>1, <1>2, <1>3

(* ... or whose active path does. *)
LEMMA ActiveTyped ==
  ASSUME NEW f \in [Dev -> DevType], NEW d \in Dev, NEW i \in Index
  PROVE  [f EXCEPT ![d].active = i] \in [Dev -> DevType]
<1>1. f[d] \in DevType
  OBVIOUS
<1>2. [f[d] EXCEPT !.active = i] \in DevType
  BY <1>1 DEF DevType
<1> QED
  BY <1>1, <1>2

(* ... or one of its flags. *)
LEMMA FlagTyped ==
  ASSUME NEW f \in [Dev -> DevType], NEW d \in Dev, NEW b \in BOOLEAN
  PROVE  /\ [f EXCEPT ![d].update = b] \in [Dev -> DevType]
         /\ [f EXCEPT ![d].known = b] \in [Dev -> DevType]
         /\ [f EXCEPT ![d].reg = b] \in [Dev -> DevType]
<1>1. f[d] \in DevType
  OBVIOUS
<1>2. [f[d] EXCEPT !.update = b] \in DevType
  BY <1>1 DEF DevType
<1>3. [f[d] EXCEPT !.known = b] \in DevType
  BY <1>1 DEF DevType
<1>4. [f[d] EXCEPT !.reg = b] \in DevType
  BY <1>1 DEF DevType
<1> QED
  BY <1>1, <1>2, <1>3, <1>4

(* What is left alone keeps its type. *)
LEMMA TypesKept ==
  ASSUME PathsInv,
         createdDevices' = createdDevices
         \/ createdDevices' \in [0..(maxDevices - 1) -> Dev \cup {NoDev}],
         dev' = dev \/ dev' \in [Dev -> DevType],
         path' = path \/ path' \in [Path -> PathType],
         mg' = mg \/ TypeMg', pr' = pr \/ TypePr', user' = user \/ TypeUser',
         UNCHANGED <<cmd, retryQueue>> \/ TypeCmd', comp' = comp \/ TypeComp',
         direct' = direct \/ TypeDirect', rw' = rw \/ TypeRw', tm' = tm \/ TypeTm'
  PROVE  Types'
<1> USE DEF PathsInv, Types
<1>1. TypeObj'
  BY DEF TypeObj
<1>2. TypeMg' /\ TypePr' /\ TypeUser'
  BY DEF TypeMg, TypePr, TypeUser
<1>3. TypeCmd' /\ TypeComp' /\ TypeDirect'
  BY DEF TypeCmd, TypeComp, TypeDirect
<1>4. TypeRw' /\ TypeTm'
  BY DEF TypeRw, TypeTm
<1> QED
  BY <1>1, <1>2, <1>3, <1>4

(* Who takes a reference takes it on a claimed path. *)
LEMMA RefsKept ==
  ASSUME PathsInv, PathShape,
         \A p \in Path : path'[p].ref > 0 =>
           path[p].ref > 0 \/ (path[p].ex /\ path[p].d \in Dev)
  PROVE  Refs'
BY DEF PathsInv, PathShape, Refs

(* Who has a device open keeps it, and a path of it. *)
LEMMA OpenKeeps ==
  ASSUME PathsInv, NEW d \in Dev, dev[d].open > 0
  PROVE  /\ Alive(d) /\ dev[d].n # 0 /\ ~Emptied(d) /\ ~dev[d].removing
         /\ Active(d) \in Path /\ path[Active(d)].ex /\ path[Active(d)].d = d
<1>1. dev[d].n # 0
  BY DEF PathsInv, Drained
<1>2. Alive(d) /\ ~Emptied(d) /\ ~dev[d].removing
  BY <1>1 DEF PathsInv, Devices
<1>3. Active(d) # NoPath
  BY <1>1 DEF PathsInv, Slots, SlotActive
<1> QED
  BY <1>1, <1>2, <1>3, ActiveIsClaimed

(* So does the user, ... *)
LEMMA UserKeeps ==
  ASSUME PathsInv, user.pc # "out"
  PROVE  user.d \in Dev /\ dev[user.d].open > 0
<1>1. user.d \in Dev
  BY DEF PathsInv, Types, TypeUser, Users
<1> QED
  BY <1>1 DEF PathsInv, Opens, One

(* ... a probe that got into the device ... *)
LEMMA ProbeKeeps ==
  ASSUME PathsInv, NEW e \in Prober, pr[e].pc \notin {"idle", "open"}, pr[e].own
  PROVE  pr[e].d \in Dev /\ dev[pr[e].d].open > 0
<1>1. pr[e].d \in Dev
  BY DEF PathsInv, Types, TypePr, PrType, Probes
<1>2. Inside(e, pr[e].d)
  BY DEF Inside, Within
<1> QED
  BY <1>1, <1>2, PathNames DEF PathsInv, Opens, One

(* ... and the retry world with a command, whose user is still there. *)
LEMMA RetryKeeps ==
  ASSUME PathsInv, rw.c # NoCmd
  PROVE  /\ rw.c \in Cmd /\ rw.d \in Dev /\ dev[rw.d].open > 0
         /\ user.pc # "out" /\ rw.d = user.d
<1>1. rw.c \in Cmd
  BY DEF PathsInv, Types, TypeRw
<1>2. user.pc # "out" /\ rw.d = user.d
  BY <1>1 DEF PathsInv, World, Commands
<1> QED
  BY <1>1, <1>2, UserKeeps

(* A path is taken: what a reference more changes. *)
LEMMA RefTaken ==
  ASSUME path \in [Path -> PathType], NEW q \in Path, path' = [path EXCEPT ![q].ref = @ + 1]
  PROVE  /\ path' \in [Path -> PathType] /\ PathShape
         /\ \A p \in Path : path'[p].cmds = path[p].cmds
                            /\ path'[p].ref = path[p].ref + One(p = q)
<1> DEFINE r == [path[q] EXCEPT !.ref = path[q].ref + 1]
<1>1. /\ path[q] \in PathType
      /\ \A p \in Path : path[p].ref \in Nat
  BY DEF PathType
<1>2. /\ r \in PathType /\ r.ref = path[q].ref + 1 /\ r.ex = path[q].ex /\ r.d = path[q].d
      /\ r.cmds = path[q].cmds
  BY ONLY <1>1 DEF PathType
<1>3. path' = [path EXCEPT ![q] = r]
  OBVIOUS
<1> HIDE DEF r
<1>4. path'[q] = r /\ \A p \in Path \ {q} : path'[p] = path[p]
  BY <1>3
<1>5. path' \in [Path -> PathType]
  BY <1>2, <1>3
<1>6. PathShape
  BY <1>2, <1>4 DEF PathShape
<1>7. \A p \in Path : path'[p].cmds = path[p].cmds /\ path'[p].ref = path[p].ref + One(p = q)
  BY <1>1, <1>2, <1>4 DEF One
<1> QED
  BY <1>5, <1>6, <1>7

(* The references of those who have no command on the path. *)
LEMMA RefMove ==
  ASSUME PathsInv, UNCHANGED <<cmd, comp, direct>>, path' \in [Path -> PathType],
         \A p \in Path :
           /\ path'[p].cmds = path[p].cmds
           /\ path'[p].ref = path[p].ref + One(user'.p = p) - One(user.p = p)
                               + One(rw'.p = p) - One(rw.p = p)
                               + One(ProbeOn("mg", p)') - One(ProbeOn("mg", p))
                               + One(ProbeOn("dp", p)') - One(ProbeOn("dp", p))
  PROVE  Counts'
<1> SUFFICES ASSUME NEW p \in Path
             PROVE  /\ path'[p].cmds = Cardinality(FlightOn(p)') + Cardinality(CompOn(p)')
                                         + One(direct'.p = p)
                    /\ path'[p].ref  = path'[p].cmds + One(user'.p = p) + One(ProbeOn("mg", p)')
                                         + One(ProbeOn("dp", p)') + One(rw'.p = p)
  BY DEF Counts
<1>1. FlightOn(p)' = FlightOn(p) /\ CompOn(p)' = CompOn(p)
  BY DEF FlightOn, CompOn
<1>2. path[p].cmds = Cardinality(FlightOn(p)) + Cardinality(CompOn(p)) + One(direct.p = p)
  BY DEF PathsInv, Counts
<1>3. path[p].ref = path[p].cmds + One(user.p = p) + One(ProbeOn("mg", p))
                        + One(ProbeOn("dp", p)) + One(rw.p = p)
  BY DEF PathsInv, Counts
<1>4. path[p].cmds \in Nat /\ path[p].ref \in Nat
  BY DEF PathsInv, Types, TypeObj, PathType
<1> QED
  BY <1>1, <1>2, <1>3, <1>4 DEF One
-----------------------------------------------------------------------------
(* A user opens a device that is not being removed. *)
LEMMA OpenKept ==
  ASSUME PathsInv, NEW d \in Dev, ExampleDeviceOpen(d)
  PROVE  PathsInv'
<1> USE DEF PathsInv, ExampleDeviceOpen, psaVars, cmdVars
<1>1. dev \in [Dev -> DevType] /\ user.d = NoDev
  BY DEF Types, TypeObj, TypeUser, Users
<1>2. /\ \A a \in Dev : dev'[a].open = dev[a].open + One(a = d)
      /\ \A a \in Dev : dev'[a].busy = dev[a].busy /\ dev'[a].timer = dev[a].timer
      /\ DevShape /\ PathShape
  BY <1>1 DEF DevType, One, DevShape, PathShape
<1>3. Types'
  <2>1. dev' \in [Dev -> DevType]
    BY <1>1 DEF DevType
  <2>2. TypeUser'
    BY DEF Types, TypeUser
  <2> QED
    BY <2>1, <2>2, TypesKept
<1>4. dev[d].n # 0
  BY DEF Devices
<1>5. Drained'
  BY <1>2, <1>4 DEF Drained, DevShape, Alive, One
<1>6. Opens'
  BY <1>1, <1>2 DEF Opens, Inside, One, DevType, Users, TypeUser, Types
<1>7. Users' /\ Commands'
  BY PathNames DEF Users, Commands
<1>8. Refs'
  BY <1>2, RefsKept
<1>9. Counts'
  BY RefMove, <1>3 DEF ProbeOn, One, Types, TypeObj, PathType
<1> QED
  BY <1>2, <1>3, <1>5, <1>6, <1>7, <1>8, <1>9, ShapeKept, PartsKept

(* It closes the device: it has no command left. *)
LEMMA CloseKept ==
  ASSUME PathsInv, ExampleDeviceClose
  PROVE  PathsInv'
<1> USE DEF PathsInv, ExampleDeviceClose, psaVars, cmdVars
<1>1. dev \in [Dev -> DevType] /\ user.d \in Dev /\ dev[user.d].open > 0 /\ user.p = NoPath
  BY UserKeeps DEF Types, TypeObj, TypeUser, Users
<1>2. /\ \A a \in Dev : dev'[a].open = dev[a].open - One(a = user.d)
      /\ \A a \in Dev : dev'[a].busy = dev[a].busy /\ dev'[a].timer = dev[a].timer
      /\ DevShape /\ PathShape
  BY <1>1 DEF DevType, One, DevShape, PathShape
<1>3. Types'
  <2>1. dev' \in [Dev -> DevType]
    BY <1>1 DEF DevType
  <2>2. TypeUser'
    BY DEF Types, TypeUser
  <2> QED
    BY <2>1, <2>2, TypesKept
<1>4. user'.p = user.p /\ user'.pc = "out" /\ user'.d = NoDev
  BY DEF Types, TypeUser
<1>5. Drained'
  <2>1. dev[user.d].n # 0
    BY <1>1, OpenKeeps
  <2> QED
    BY <1>1, <1>2, <2>1 DEF Drained, DevShape, Alive, One
<1>6. Opens'
  BY <1>1, <1>2, <1>4, PathNames DEF Opens, Inside, One, DevType
<1>7. Users' /\ Commands'
  BY <1>1, <1>4 DEF Users, Commands, World
<1>8. Refs'
  BY <1>2, RefsKept
<1>9. Counts'
  BY RefMove, <1>3, <1>4 DEF ProbeOn, One, Types, TypeObj, PathType
<1> QED
  BY <1>2, <1>3, <1>5, <1>6, <1>7, <1>8, <1>9, ShapeKept, PartsKept

(* A user takes or drops a reference, or goes from one path to another. *)
LEMMA UserRefKept ==
  ASSUME PathsInv, path' \in [Path -> PathType], TypeUser', PathShape,
         UNCHANGED <<createdDevices, dev, mg, pr, cmd, retryQueue, comp, direct, rw, tm>>,
         user.pc # "out", user'.pc # "out", user'.d = user.d,
         user'.pc \in {"inquiry", "task", "issued"} <=> user'.p # NoPath,
         user'.p # NoPath => user'.p = user.p \/ (path[user'.p].ex /\ path[user'.p].d \in Dev),
         \A p \in Path : /\ path'[p].cmds = path[p].cmds
                         /\ path'[p].ref = path[p].ref + One(user'.p = p) - One(user.p = p)
  PROVE  PathsInv'
<1> USE DEF PathsInv
<1>1. DevShape
  BY DEF DevShape
<1>2. Types'
  BY TypesKept
<1>3. Users' /\ Commands' /\ Opens'
  BY DEF Users, Commands, Opens, Inside
<1>4. Refs'
  <2> HIDE DEF PathsInv
  <2>0. \A p \in Path : path[p].ref \in Nat
    BY DEF PathsInv, Types, TypeObj, PathType
  <2>1. \A p \in Path : path'[p].ref > 0 => path[p].ref > 0 \/ user'.p = p
    BY <2>0 DEF One
  <2>2. \A p \in Path : user.p = p => path[p].ref > 0
    BY RefHeld
  <2> QED
    BY <2>1, <2>2, RefsKept, PathNames DEF Refs, PathsInv
<1>5. Counts'
  BY RefMove DEF ProbeOn, One, Types, TypeObj, PathType
<1> QED
  BY <1>1, <1>2, <1>3, <1>4, <1>5, ShapeKept, PartsKept

(* An inquiry takes the active path ... *)
LEMMA InquiryKept ==
  ASSUME PathsInv, ExampleDeviceInquiry
  PROVE  PathsInv'
<1> USE DEF ExampleDeviceInquiry, ExamplePathIncRefCount, psaVars, cmdVars
<1> DEFINE q == Active(user.d)
<1>1. /\ user.d \in Dev /\ q \in Path /\ path[q].ex /\ path[q].d \in Dev
      /\ user.p = NoPath /\ path \in [Path -> PathType] /\ TypeUser
  BY UserKeeps, OpenKeeps DEF PathsInv, Types, TypeObj, TypeUser, Users
<1> HIDE DEF q
<1>2. path' = [path EXCEPT ![q].ref = @ + 1] /\ user' = [user EXCEPT !.pc = "inquiry", !.p = q]
  BY DEF q
<1>3. path' \in [Path -> PathType] /\ TypeUser' /\ PathShape
  <2>1. path' \in [Path -> PathType]
    BY <1>1, <1>2 DEF PathType
  <2>2. TypeUser'
    BY <1>1, <1>2 DEF TypeUser
  <2>3. PathShape
    BY <1>1, <1>2 DEF PathType, PathShape
  <2> QED
    BY <2>1, <2>2, <2>3
<1>4. user'.pc = "inquiry" /\ user'.p = q /\ user'.d = user.d
  BY <1>1, <1>2 DEF TypeUser
<1>5. \A p \in Path : /\ path'[p].cmds = path[p].cmds
                      /\ path'[p].ref = path[p].ref + One(user'.p = p) - One(user.p = p)
  BY <1>1, <1>2, <1>4, PathNames DEF PathType, One
<1> QED
  BY <1>1, <1>3, <1>4, <1>5, UserRefKept, PathNames

(* ... and drops it. *)
LEMMA InquiryEndKept ==
  ASSUME PathsInv, InquiryEnd
  PROVE  PathsInv'
<1> USE DEF InquiryEnd, ExamplePathDecRefCount, psaVars, cmdVars
<1>1. user.p \in Path /\ path \in [Path -> PathType] /\ TypeUser
  BY DEF PathsInv, Types, TypeObj, TypeUser, Users
<1>2. path[user.p].ref > 0
  BY <1>1, OnPathCount DEF PathsInv, Counts, One
<1>3. path' \in [Path -> PathType] /\ TypeUser' /\ PathShape
  <2>1. path' \in [Path -> PathType]
    BY <1>1, <1>2 DEF PathType
  <2>2. TypeUser'
    BY <1>1, <1>2 DEF TypeUser
  <2>3. PathShape
    BY <1>1, <1>2 DEF PathType, PathShape
  <2> QED
    BY <2>1, <2>2, <2>3
<1>4. user'.pc = "open" /\ user'.p = NoPath /\ user'.d = user.d
  BY <1>1 DEF TypeUser
<1>5. \A p \in Path : /\ path'[p].cmds = path[p].cmds
                      /\ path'[p].ref = path[p].ref + One(user'.p = p) - One(user.p = p)
  BY <1>1, <1>4, PathNames DEF PathType, One
<1> QED
  BY <1>1, <1>3, <1>4, <1>5, UserRefKept, PathNames

(* Task management that issues its request keeps its path. *)
LEMMA TaskIssueKept ==
  ASSUME PathsInv, TaskIssue
  PROVE  PathsInv'
<1> USE DEF TaskIssue, objVars, psaVars, cmdVars
<1>1. user.p \in Path /\ path \in [Path -> PathType] /\ TypeUser
  BY DEF PathsInv, Types, TypeObj, TypeUser, Users
<1>2. TypeUser' /\ PathShape
  BY <1>1 DEF TypeUser, PathShape
<1>3. user'.pc = "issued" /\ user'.p = user.p /\ user'.d = user.d
  BY <1>1 DEF TypeUser
<1>4. \A p \in Path : /\ path'[p].cmds = path[p].cmds
                      /\ path'[p].ref = path[p].ref + One(user'.p = p) - One(user.p = p)
  BY <1>1, <1>3 DEF PathType, One
<1> QED
  BY <1>1, <1>2, <1>3, <1>4, UserRefKept, PathNames

(* The least of a set of slots is one of them. *)
LEMMA LeastSlot ==
  ASSUME NEW S \in SUBSET Nat, S # {}
  PROVE  Min(S) \in S /\ \A x \in S : Min(S) <= x
BY LeastNat DEF Min

(* A slot that is used has a claimed path of the device. *)
LEMMA UsedSlot ==
  ASSUME PathsInv, NEW d \in Dev, NEW i \in Index, dev[d].paths[i] # NoPath
  PROVE  /\ dev[d].paths[i] \in Path /\ path[dev[d].paths[i]].ex
         /\ path[dev[d].paths[i]].d = d /\ Alive(d) /\ ~Out(dev[d].paths[i])
<1>1. dev[d].paths \in [Index -> Path \cup {NoPath}]
  BY DEF PathsInv, Types, TypeObj, DevType
<1> QED
  BY <1>1 DEF PathsInv, Slots, SlotOwner

(* The next path of task management. *)
LEMMA TaskNextKept ==
  ASSUME PathsInv, NEW i \in Nat, NEW f \in [Path -> PathType], user.pc # "out",
         UNCHANGED <<createdDevices, dev, mg, pr, cmd, retryQueue, comp, direct, rw, tm>>,
         \A p \in Path : /\ f[p].cmds = path[p].cmds
                         /\ f[p].ref = path[p].ref - One(user.p = p)
                         /\ f[p].ex = path[p].ex /\ f[p].d = path[p].d,
         TaskNext(f, i)
  PROVE  PathsInv'
<1> DEFINE d == user.d
           due == {j \in Used(d, i) : f[dev[d].paths[j]].cmds > 0 \/ j = dev[d].active}
           k == Min(due)
           q == dev[d].paths[k]
<1>1. d \in Dev /\ TypeUser /\ path \in [Path -> PathType]
  BY UserKeeps DEF PathsInv, Types, TypeObj
<1>2. CASE due = {}
  <2>1. path' = f /\ user' = [user EXCEPT !.pc = "open", !.i = 0, !.p = NoPath]
    BY <1>2 DEF TaskNext
  <2>2. /\ user'.pc = "open" /\ user'.p = NoPath /\ user'.d = user.d
        /\ TypeUser' /\ PathShape
    BY <1>1, <2>1 DEF TypeUser, PathShape
  <2>3. \A p \in Path : /\ path'[p].cmds = path[p].cmds
                        /\ path'[p].ref = path[p].ref + One(user'.p = p) - One(user.p = p)
    BY <1>1, <2>1, <2>2, PathNames DEF One, PathType
  <2> QED
    BY <1>1, <2>1, <2>2, <2>3, UserRefKept
<1>3. CASE due # {}
  <2>1. k \in due /\ k \in Index /\ dev[d].paths[k] # NoPath /\ k \in Nat
    <3>1. due \in SUBSET Index /\ due \in SUBSET Nat
      BY PathNames DEF Used
    <3>2. k \in due
      BY <1>3, <3>1, LeastSlot
    <3> QED
      BY <3>1, <3>2, PathNames DEF Used
  <2>2. q \in Path /\ path[q].ex /\ path[q].d \in Dev
    <3> HIDE DEF k
    <3> QED
      BY <1>1, <2>1, UsedSlot
  <2>3. path' = [f EXCEPT ![q].ref = @ + 1]
        /\ user' = [user EXCEPT !.pc = "task", !.i = k, !.p = q]
    BY <1>3 DEF TaskNext, ExamplePathIncRefCount
  <2> HIDE DEF due, k, q
  <2>4. /\ user'.pc = "task" /\ user'.p = q /\ user'.d = user.d
        /\ TypeUser' /\ PathShape /\ path' \in [Path -> PathType]
    <3>1. path' \in [Path -> PathType]
      BY <1>1, <2>2, <2>3 DEF PathType
    <3>2. TypeUser' /\ user'.pc = "task" /\ user'.p = q /\ user'.d = user.d
      BY <1>1, <2>1, <2>2, <2>3 DEF TypeUser
    <3>3. PathShape
      BY <1>1, <2>2, <2>3 DEF PathType, PathShape
    <3> QED
      BY <3>1, <3>2, <3>3
  <2>5. \A p \in Path : /\ path'[p].cmds = path[p].cmds
                        /\ path'[p].ref = path[p].ref + One(user'.p = p) - One(user.p = p)
    BY <1>1, <2>2, <2>3, <2>4, PathNames DEF One, PathType
  <2> QED
    BY <1>1, <2>2, <2>4, <2>5, UserRefKept, PathNames
<1> QED
  BY <1>2, <1>3

(* Task management begins ... *)
LEMMA TaskKept ==
  ASSUME PathsInv, ExampleDeviceTaskManagement
  PROVE  PathsInv'
<1> USE DEF ExampleDeviceTaskManagement, psaVars, cmdVars
<1>1. user.p = NoPath /\ path \in [Path -> PathType]
  BY DEF PathsInv, Types, TypeObj, Users
<1>2. \A p \in Path : path[p].ref = path[p].ref - One(user.p = p)
  BY <1>1, PathNames DEF One, PathType
<1> QED
  BY <1>1, <1>2, TaskNextKept

(* ... and goes on to the next path. *)
LEMMA TaskDropKept ==
  ASSUME PathsInv, TaskDrop
  PROVE  PathsInv'
<1> USE DEF TaskDrop, psaVars, cmdVars
<1>1. user.p \in Path /\ path \in [Path -> PathType] /\ user.i \in Nat
  BY DEF PathsInv, Types, TypeObj, TypeUser, Users
<1>2. path[user.p].ref > 0
  BY <1>1, OnPathCount DEF PathsInv, Counts, One
<1> DEFINE f == ExamplePathDecRefCount(path, user.p)
<1>3. f \in [Path -> PathType]
  BY <1>1, <1>2 DEF PathType, ExamplePathDecRefCount
<1>4. \A p \in Path : /\ f[p].cmds = path[p].cmds
                      /\ f[p].ref = path[p].ref - One(user.p = p)
                      /\ f[p].ex = path[p].ex /\ f[p].d = path[p].d
  BY <1>1 DEF PathType, ExamplePathDecRefCount, One
<1> HIDE DEF f
<1>5. TaskNext(f, user.i + 1)
  BY DEF f
<1> QED
  BY <1>1, <1>3, <1>4, <1>5, TaskNextKept
-----------------------------------------------------------------------------
(* The commands on a path. *)
OnIt(p) == Cardinality(FlightOn(p)) + Cardinality(CompOn(p)) + One(direct.p = p)

(* A step of a command that keeps these counts. *)
LEMMA CommandStep ==
  ASSUME PathsInv, path' \in [Path -> PathType], PathShape, DevShape,
         UNCHANGED <<createdDevices, mg, pr, user>>, rw'.p = rw.p,
         Types', Users', Commands', World', Busy', Drained', Opens',
         \A p \in Path :
           /\ path'[p].cmds = OnIt(p)'
           /\ path'[p].ref = path[p].ref + path'[p].cmds - path[p].cmds
           /\ path'[p].ref > path[p].ref => path[p].ex /\ path[p].d \in Dev
  PROVE  PathsInv'
<1>0. \A p \in Path : path[p].ref \in Nat /\ path[p].cmds \in Nat /\ path'[p].ref \in Nat
                      /\ path'[p].cmds \in Nat
  BY DEF PathsInv, Types, TypeObj, PathType
<1>1. Refs'
  BY <1>0, RefsKept
<1>2. Counts'
  <2> SUFFICES ASSUME NEW p \in Path
               PROVE  path'[p].ref = path'[p].cmds + One(user'.p = p) + One(ProbeOn("mg", p)')
                                         + One(ProbeOn("dp", p)') + One(rw'.p = p)
    BY DEF Counts, OnIt
  <2>1. path[p].ref = path[p].cmds + One(user.p = p) + One(ProbeOn("mg", p))
                        + One(ProbeOn("dp", p)) + One(rw.p = p)
    BY DEF PathsInv, Counts
  <2>2. ProbeOn("mg", p)' = ProbeOn("mg", p) /\ ProbeOn("dp", p)' = ProbeOn("dp", p)
    BY DEF ProbeOn
  <2> QED
    BY <1>0, <2>1, <2>2 DEF One
<1>3. Slots' /\ Devices' /\ Created' /\ Management'
  BY ShapeKept
<1>4. Probes'
  BY PartsKept
<1> QED
  BY <1>1, <1>2, <1>3, <1>4 DEF PathsInv

(* What is on a path when a command moves. *)
LEMMA OnItMove ==
  ASSUME PathsInv, NEW c \in Cmd, NEW p \in Path, UNCHANGED direct,
         \A b \in Cmd \ {c} : cmd'[b].p = cmd[b].p /\ comp'[b].p = comp[b].p
  PROVE  OnIt(p)' = path[p].cmds + One(cmd'[c].p = p) - One(cmd[c].p = p)
                      + One(comp'[c].p = p) - One(comp[c].p = p)
<1>1. /\ Cardinality(FlightOn(p)) \in Nat
      /\ Cardinality(FlightOn(p)')
           = Cardinality(FlightOn(p)) + One(cmd'[c].p = p) - One(cmd[c].p = p)
  BY FlightMove
<1>2. /\ Cardinality(CompOn(p)) \in Nat
      /\ Cardinality(CompOn(p)')
           = Cardinality(CompOn(p)) + One(comp'[c].p = p) - One(comp[c].p = p)
  BY CompMove
<1>3. path[p].cmds = Cardinality(FlightOn(p)) + Cardinality(CompOn(p)) + One(direct.p = p)
  BY DEF PathsInv, Counts
<1> QED
  BY <1>1, <1>2, <1>3 DEF OnIt, One

(* What is on a path when a direct command moves, or none does. *)
LEMMA OnItDirect ==
  ASSUME PathsInv, NEW p \in Path, UNCHANGED <<cmd, comp>>
  PROVE  OnIt(p)' = path[p].cmds + One(direct'.p = p) - One(direct.p = p)
<1>1. FlightOn(p)' = FlightOn(p) /\ CompOn(p)' = CompOn(p)
  BY DEF FlightOn, CompOn
<1>2. path[p].cmds = Cardinality(FlightOn(p)) + Cardinality(CompOn(p)) + One(direct.p = p)
  BY DEF PathsInv, Counts
<1> QED
  BY <1>1, <1>2, OnPathCount DEF OnIt, One

(* The user's command takes the active path. *)
LEMMA IssueKept ==
  ASSUME PathsInv, NEW c \in Cmd, ExampleIssueCommand(c)
  PROVE  PathsInv'
<1> USE DEF ExampleIssueCommand, psaVars, cmdVars
<1> DEFINE q == Active(user.d)
<1>1. /\ user.d \in Dev /\ q \in Path /\ path[q].ex /\ path[q].d \in Dev
      /\ path \in [Path -> PathType] /\ TypeCmd
  BY UserKeeps, OpenKeeps DEF PathsInv, Types, TypeObj
<1> HIDE DEF q
<1>2. /\ path' = [path EXCEPT ![q].ref = @ + 1, ![q].cmds = @ + 1]
      /\ cmd' = [cmd EXCEPT ![c] = [pc |-> "flight", p |-> q, d |-> user.d]]
  BY DEF q, TakePath
<1>3. \A p \in Path : /\ path'[p].cmds = path[p].cmds + One(p = q)
                      /\ path'[p].ref = path[p].ref + One(p = q)
  BY <1>1, <1>2 DEF PathType, One
<1>4. path' \in [Path -> PathType]
  BY <1>1, <1>2 DEF PathType
<1>5. TypeCmd'
  BY <1>1, <1>2 DEF TypeCmd
<1>6. PathShape /\ DevShape
  BY <1>1, <1>2 DEF PathType, PathShape, DevShape
<1>7. cmd[c].p = NoPath /\ ~InQueue(c, retryQueue) /\ rw.c # c
  BY PathNames DEF PathsInv, Commands, World
<1>8. \A b \in Cmd : cmd'[b] = IF b = c THEN [pc |-> "flight", p |-> q, d |-> user.d]
      ELSE cmd[b]
  BY <1>1, <1>2 DEF TypeCmd
<1>9. Commands' /\ World'
  BY <1>1, <1>7, <1>8, PathNames DEF PathsInv, Commands, World, Types, TypeRw, InQueue
<1>10. \A p \in Path : path'[p].cmds = OnIt(p)'
  <2> SUFFICES ASSUME NEW p \in Path PROVE path'[p].cmds = OnIt(p)'
    OBVIOUS
  <2>1. OnIt(p)' = path[p].cmds + One(cmd'[c].p = p) - One(cmd[c].p = p)
                      + One(comp'[c].p = p) - One(comp[c].p = p)
    BY <1>8, OnItMove
  <2> QED
    BY <1>1, <1>3, <1>7, <1>8, <2>1, PathNames DEF One, PathType
<1>11. Types'
  BY <1>4, <1>5, TypesKept
<1>12. Users' /\ Busy' /\ Drained' /\ Opens'
  BY <1>6, PartsKept
<1> QED
  BY <1>1, <1>3, <1>4, <1>6, <1>9, <1>10, <1>11, <1>12, CommandStep DEF One, PathType

(* A command that is done passes its path to the completing thread. *)
LEMMA DoneKept ==
  ASSUME PathsInv, NEW c \in Cmd, CompleteDone(c)
  PROVE  PathsInv'
<1> USE DEF CompleteDone, psaVars, cmdVars, Idle
<1>1. path \in [Path -> PathType] /\ TypeCmd /\ TypeComp /\ cmd[c].p \in Path
  BY PathNames DEF PathsInv, Types, TypeObj, TypeCmd, Commands
<1>2. /\ cmd[c].d \in Dev /\ user.pc # "out" /\ comp[c].p = NoPath
      /\ ~InQueue(c, retryQueue) /\ rw.c # c
  BY UserKeeps, PathNames DEF PathsInv, Commands, World, Users
<1>3. path' \in [Path -> PathType]
  BY <1>1 DEF PathType
<1>4. TypeCmd' /\ TypeComp'
  BY <1>1 DEF TypeCmd, TypeComp
<1>5. /\ PathShape /\ DevShape
      /\ \A p \in Path : path'[p].cmds = path[p].cmds /\ path'[p].ref = path[p].ref
  BY <1>1 DEF PathType, PathShape, DevShape
<1>6. /\ \A b \in Cmd \ {c} : cmd'[b] = cmd[b] /\ comp'[b] = comp[b]
      /\ cmd'[c] = [pc |-> "idle", p |-> NoPath, d |-> NoDev]
      /\ comp'[c].pc = "start" /\ comp'[c].p = cmd[c].p /\ comp'[c].d = cmd[c].d
  BY <1>1 DEF TypeCmd, TypeComp
<1>7. Commands' /\ World'
  BY <1>2, <1>6, PathNames DEF PathsInv, Commands, World, Types, TypeRw, InQueue
<1>8. Users'
  BY <1>1, <1>2, <1>6, PathNames DEF PathsInv, Users
<1>9. \A p \in Path : path'[p].cmds = OnIt(p)'
  <2> SUFFICES ASSUME NEW p \in Path PROVE path'[p].cmds = OnIt(p)'
    OBVIOUS
  <2>1. OnIt(p)' = path[p].cmds + One(cmd'[c].p = p) - One(cmd[c].p = p)
                      + One(comp'[c].p = p) - One(comp[c].p = p)
    BY <1>6, OnItMove
  <2> QED
    BY <1>1, <1>2, <1>5, <1>6, <2>1, PathNames DEF One, PathType
<1>10. Types'
  BY <1>3, <1>4, TypesKept
<1>11. Busy' /\ Drained' /\ Opens'
  BY <1>5, PartsKept
<1>12. UNCHANGED <<createdDevices, mg, pr, user>> /\ rw'.p = rw.p
  BY DEF CompleteDone
<1>13. \A p \in Path : /\ path'[p].cmds = OnIt(p)'
                       /\ path'[p].ref = path[p].ref + path'[p].cmds - path[p].cmds
                       /\ path'[p].ref > path[p].ref => path[p].ex /\ path[p].d \in Dev
  <2>1. \A p \in Path : path[p].ref \in Nat /\ path[p].cmds \in Nat
    BY <1>1 DEF PathType
  <2> QED
    BY ONLY <1>5, <1>9, <2>1
<1> QED
  BY ONLY PathsInv, <1>3, <1>5, <1>7, <1>8, <1>9, <1>10, <1>11, <1>12, <1>13, CommandStep

(* A command that is to be retried does the same, and is queued. *)
LEMMA CompleteRetryKept ==
  ASSUME PathsInv, NEW c \in Cmd, CompleteRetry(c)
  PROVE  PathsInv'
<1> USE DEF CompleteRetry, psaVars, cmdVars, Idle
<1>1. path \in [Path -> PathType] /\ TypeCmd /\ TypeComp /\ cmd[c].p \in Path
  BY PathNames DEF PathsInv, Types, TypeObj, TypeCmd, Commands
<1>2. /\ cmd[c].d \in Dev /\ cmd[c].d = user.d /\ user.pc # "out" /\ comp[c].p = NoPath
      /\ ~InQueue(c, retryQueue) /\ rw.c # c
  BY UserKeeps, PathNames DEF PathsInv, Commands, World, Users
<1>3. path' \in [Path -> PathType]
  BY <1>1 DEF PathType
<1>4. /\ TypeCmd'
      /\ \A b : InQueue(b, retryQueue') <=> InQueue(b, retryQueue) \/ b = c
      /\ Distinct(retryQueue', Cmd)
  <2>1. Distinct(retryQueue, Cmd) /\ retryQueue \in Seq(Cmd)
    BY <1>1 DEF PathsInv, Commands, TypeCmd
  <2>2. /\ retryQueue' \in Seq(Cmd) /\ Distinct(retryQueue', Cmd)
        /\ \A b : InQueue(b, retryQueue') <=> InQueue(b, retryQueue) \/ b = c
    BY <1>2, <2>1, AppendTo
  <2> QED
    BY <1>1, <2>2 DEF TypeCmd
<1>5. TypeComp'
  <2> DEFINE k == [cmd[c] EXCEPT !.pc = "deref"]
             K == [pc : {"idle", "start", "deref"}, p : Path \cup {NoPath},
                   d : Dev \cup {NoDev}]
  <2>1. k \in K
    BY ONLY <1>1 DEF TypeCmd
  <2>2. comp' = [comp EXCEPT ![c] = k] /\ comp \in [Cmd -> K]
    BY <1>1 DEF TypeComp
  <2> HIDE DEF k, K
  <2>3. comp' \in [Cmd -> K]
    BY ONLY <2>1, <2>2
  <2> QED
    BY ONLY <2>3 DEF TypeComp, K
<1>6. /\ PathShape /\ DevShape
      /\ \A p \in Path : path'[p].cmds = path[p].cmds /\ path'[p].ref = path[p].ref
  BY <1>1 DEF PathType, PathShape, DevShape
<1>7. /\ \A b \in Cmd \ {c} : cmd'[b] = cmd[b] /\ comp'[b] = comp[b]
      /\ cmd'[c].pc = "retry" /\ cmd'[c].p = NoPath /\ cmd'[c].d = cmd[c].d
      /\ comp'[c].pc = "deref" /\ comp'[c].p = cmd[c].p /\ comp'[c].d = cmd[c].d
  BY <1>1 DEF TypeCmd, TypeComp
<1>0. UNCHANGED <<createdDevices, dev, mg, pr, user, direct, rw, tm>>
  OBVIOUS
<1> HIDE DEF CompleteRetry
<1>8. Commands' /\ World'
  <2>1. Commands'
    BY <1>0, <1>2, <1>4, <1>7 DEF PathsInv, Commands
  <2>2. World'
    BY <1>0, <1>2, <1>7 DEF PathsInv, World, Types, TypeRw
  <2> QED
    BY <2>1, <2>2
<1>9. Users'
  BY <1>0, <1>1, <1>2, <1>7, PathNames DEF PathsInv, Users
<1>10. \A p \in Path : path'[p].cmds = OnIt(p)'
  <2> SUFFICES ASSUME NEW p \in Path PROVE path'[p].cmds = OnIt(p)'
    OBVIOUS
  <2>1. OnIt(p)' = path[p].cmds + One(cmd'[c].p = p) - One(cmd[c].p = p)
                      + One(comp'[c].p = p) - One(comp[c].p = p)
    BY <1>0, <1>7, OnItMove
  <2> QED
    BY <1>1, <1>2, <1>6, <1>7, <2>1, PathNames DEF One, PathType
<1>11. Types'
  BY <1>0, <1>3, <1>4, <1>5, TypesKept
<1>12. Busy' /\ Drained' /\ Opens'
  BY <1>0, <1>6, PartsKept
<1> QED
  BY <1>0, <1>1, <1>3, <1>6, <1>8, <1>9, <1>10, <1>11, <1>12, CommandStep DEF PathType

(* The completing thread starts the device, in a behaviour where it is     *)
(* still there: perhaps from the timer, ...                                *)
LEMMA StartKept ==
  ASSUME PathsInv, NEW c \in Cmd, CompleteStart(c) \/ CompleteSched(c), stale' = {}
  PROVE  PathsInv'
<1> USE DEF CompleteStart, CompleteSched, objVars, psaVars, cmdVars
<1>1. /\ path \in [Path -> PathType] /\ dev \in [Dev -> DevType] /\ TypeComp
      /\ comp[c].d \in Dev
  BY DEF PathsInv, Types, TypeObj, TypeComp, Users
<1>2. /\ \A b \in Cmd : comp'[b].p = comp[b].p /\ comp'[b].d = comp[b].d
      /\ \A b \in Cmd : b # c => comp'[b].pc = comp[b].pc
      /\ comp'[c].pc = "deref" /\ TypeComp'
  BY <1>1 DEF TypeComp
<1>3. Alive(comp[c].d) /\ ~dev[comp[c].d].removing
  BY DEF LateMark
<1>4. /\ dev' \in [Dev -> DevType] /\ DevShape
      /\ \A a \in Dev : /\ dev'[a].open = dev[a].open
                        /\ dev'[a].busy - One(dev'[a].timer) = dev[a].busy - One(dev[a].timer)
                        /\ a # comp[c].d => dev'[a].busy = dev[a].busy
  <2> DEFINE d == comp[c].d
  <2>1. \A a \in Dev : dev[a] \in DevType /\ dev[a].busy \in Nat /\ dev[a].timer \in BOOLEAN
    BY <1>1 DEF DevType
  <2>2. CASE dev' = dev
    BY <1>1, <2>1, <2>2 DEF DevShape
  <2>3. CASE ~dev[d].timer /\ dev' = [dev EXCEPT ![d].timer = TRUE, ![d].busy = @ + 1]
    <3> DEFINE n == dev[d].busy + 1
               r == [dev[d] EXCEPT !.timer = TRUE, !.busy = n]
    <3>1. /\ d \in Dev /\ dev \in [Dev -> DevType] /\ dev[d] \in DevType
          /\ n \in Nat /\ n = dev[d].busy + 1
      BY <1>1, <2>1
    <3>2. dev' = [dev EXCEPT ![d] = r]
      BY ONLY <2>3, <3>1
    <3> HIDE DEF n
    <3>3. /\ r \in DevType /\ r.timer /\ r.busy = n /\ r.open = dev[d].open
          /\ r.st = dev[d].st /\ r.paths = dev[d].paths /\ r.n = dev[d].n
          /\ r.known = dev[d].known /\ r.reg = dev[d].reg /\ r.active = dev[d].active
          /\ r.removing = dev[d].removing /\ r.probe = dev[d].probe
          /\ r.update = dev[d].update /\ r.uid = dev[d].uid
      BY ONLY <3>1 DEF DevType
    <3> HIDE DEF r, d
    <3>4. dev' \in [Dev -> DevType] /\ dev'[d] = r /\ \A a \in Dev \ {d} : dev'[a] = dev[a]
      BY ONLY <3>1, <3>2, <3>3
    <3>5. DevShape
      BY ONLY <3>1, <3>3, <3>4 DEF DevShape
    <3>6. \A a \in Dev : /\ dev'[a].open = dev[a].open
                         /\ dev'[a].busy - One(dev'[a].timer) = dev[a].busy - One(dev[a].timer)
                         /\ a # d => dev'[a].busy = dev[a].busy
      BY ONLY <2>1, <2>3, <3>1, <3>3, <3>4 DEF One
    <3> QED
      BY <3>4, <3>5, <3>6 DEF d
  <2> QED
    BY <2>2, <2>3 DEF ExampleDeviceSchedStart
<1>5. Busy'
  <2> SUFFICES ASSUME NEW a \in Dev
               PROVE  dev'[a].busy = One(rw'.d = a /\ rw'.pc \in {"retry", "unblock", "unbusy"})
                                       + One(dev'[a].timer) + One(tm' = a)
    BY DEF Busy
  <2>1. dev[a].busy = One(rw.d = a /\ rw.pc \in {"retry", "unblock", "unbusy"})
                        + One(dev[a].timer) + One(tm = a)
    BY DEF PathsInv, Busy
  <2>2. dev[a].busy \in Nat /\ dev'[a].busy \in Nat /\ UNCHANGED <<rw, tm>>
    BY <1>1, <1>4 DEF DevType
  <2> QED
    BY <1>4, <2>1, <2>2 DEF One
<1>6. Drained'
  BY <1>1, <1>3, <1>4 DEF PathsInv, Drained, DevShape, Devices, Emptied, Alive
<1>7. Users'
  BY <1>2 DEF PathsInv, Users
<1>8. PathShape /\ path' = path /\ UNCHANGED <<cmd, retryQueue, rw, user, pr>>
  BY DEF PathShape
<1>9. \A p \in Path : path'[p].cmds = OnIt(p)'
  <2>1. \A p \in Path : CompOn(p)' = CompOn(p) /\ FlightOn(p)' = FlightOn(p)
    BY <1>2 DEF CompOn, FlightOn
  <2> QED
    BY <2>1 DEF PathsInv, Counts, OnIt
<1>10. Types'
  BY <1>2, <1>4, TypesKept
<1>11. Opens' /\ Commands' /\ World'
  BY <1>4, <1>8, PartsKept
<1> QED
  BY <1>1, <1>4, <1>5, <1>6, <1>7, <1>8, <1>9, <1>10, <1>11, CommandStep DEF PathType

(* ... and drops its path. *)
LEMMA DerefKept ==
  ASSUME PathsInv, NEW c \in Cmd, CompleteDeref(c)
  PROVE  PathsInv'
<1> USE DEF CompleteDeref, DropPath, psaVars, cmdVars, Idle
<1>1. path \in [Path -> PathType] /\ TypeComp /\ comp[c].p \in Path
  BY PathNames DEF PathsInv, Types, TypeObj, TypeComp, Users
<1>2. /\ \A b \in Cmd \ {c} : comp'[b] = comp[b]
      /\ comp'[c] = [pc |-> "idle", p |-> NoPath, d |-> NoDev] /\ TypeComp'
  BY <1>1 DEF TypeComp
<1>3. \A p \in Path : path'[p].cmds = path[p].cmds - One(p = comp[c].p)
                      /\ path'[p].ref = path[p].ref - One(p = comp[c].p)
  BY <1>1 DEF PathType, One
<1>4. \A p \in Path : path'[p].cmds = OnIt(p)'
  <2> SUFFICES ASSUME NEW p \in Path PROVE path'[p].cmds = OnIt(p)'
    OBVIOUS
  <2>1. OnIt(p)' = path[p].cmds + One(cmd'[c].p = p) - One(cmd[c].p = p)
                      + One(comp'[c].p = p) - One(comp[c].p = p)
    BY <1>2, OnItMove
  <2> QED
    BY <1>1, <1>2, <1>3, <2>1, PathNames DEF One, PathType
<1>5. path[comp[c].p].cmds > 0 /\ path[comp[c].p].ref > 0
  <2> DEFINE q == comp[c].p
  <2>1. Cardinality(CompOn(q)) >= 1
    BY SubsetCount, CountZero, PathNames DEF CompOn
  <2> HIDE DEF q
  <2>2. path[q].cmds > 0 /\ path[q].ref > 0
    BY <1>1, <2>1, OnPathCount DEF PathsInv, Counts, One, q
  <2> QED
    BY <2>2 DEF q
<1>6. path' \in [Path -> PathType]
  BY <1>1, <1>5 DEF PathType
<1>7. PathShape /\ DevShape
  BY <1>1 DEF PathType, PathShape, DevShape
<1>8. Users'
  BY <1>2, PathNames DEF PathsInv, Users
<1>9. Types'
  BY <1>2, <1>6, TypesKept
<1>10. Commands' /\ World' /\ Busy' /\ Drained' /\ Opens'
  BY <1>7, PartsKept
<1>11. \A p \in Path : /\ path'[p].ref = path[p].ref + path'[p].cmds - path[p].cmds
                       /\ ~(path'[p].ref > path[p].ref)
  BY <1>1, <1>3 DEF PathType, One
<1>12. UNCHANGED <<createdDevices, mg, pr, user, rw>>
  OBVIOUS
<1> HIDE DEF CompleteDeref
<1> QED
  BY <1>4, <1>6, <1>7, <1>8, <1>9, <1>10, <1>11, <1>12, CommandStep

(* PSA's command on a path that is not on its way out. *)
LEMMA DirectIssueKept ==
  ASSUME PathsInv, NEW q \in Path, ExamplePathIssueCommandDirect(q)
  PROVE  PathsInv'
<1> USE DEF ExamplePathIssueCommandDirect, TakePath, psaVars, cmdVars
<1>1. path \in [Path -> PathType] /\ TypeDirect /\ direct.p = NoPath
  BY PathNames DEF PathsInv, Types, TypeObj, Users
<1>2. path[q].ex /\ path[q].d \in Dev
  BY DEF PathsInv, Slots, SlotOf, Out
<1>3. TypeDirect' /\ direct'.p = q /\ direct'.pc = "flight"
  BY DEF TypeDirect
<1>4. \A p \in Path : path'[p].cmds = path[p].cmds + One(p = q)
                      /\ path'[p].ref = path[p].ref + One(p = q)
  BY <1>1 DEF PathType, One
<1>5. \A p \in Path : path'[p].cmds = OnIt(p)'
  <2> SUFFICES ASSUME NEW p \in Path PROVE path'[p].cmds = OnIt(p)'
    OBVIOUS
  <2>1. OnIt(p)' = path[p].cmds + One(direct'.p = p) - One(direct.p = p)
    BY OnItDirect
  <2> QED
    BY <1>1, <1>3, <1>4, <2>1, PathNames DEF One, PathType
<1>6. path' \in [Path -> PathType]
  BY <1>1 DEF PathType
<1>7. PathShape /\ DevShape
  BY <1>1 DEF PathType, PathShape, DevShape
<1>8. Users'
  BY <1>3, PathNames DEF PathsInv, Users
<1>9. Types'
  BY <1>3, <1>6, TypesKept
<1>10. Commands' /\ World' /\ Busy' /\ Drained' /\ Opens'
  BY <1>7, PartsKept
<1>11. \A p \in Path : /\ path'[p].ref = path[p].ref + path'[p].cmds - path[p].cmds
                       /\ path'[p].ref > path[p].ref => p = q
  BY <1>1, <1>4 DEF PathType, One
<1>12. UNCHANGED <<createdDevices, mg, pr, user, rw>>
  OBVIOUS
<1> HIDE DEF ExamplePathIssueCommandDirect
<1> QED
  BY <1>2, <1>5, <1>6, <1>7, <1>8, <1>9, <1>10, <1>11, <1>12, CommandStep

(* It completes, ... *)
LEMMA DirectCompleteKept ==
  ASSUME PathsInv, NEW ok \in BOOLEAN, DirectComplete(ok)
  PROVE  PathsInv'
<1> USE DEF DirectComplete, objVars, psaVars, cmdVars
<1>1. path \in [Path -> PathType] /\ TypeDirect
  BY DEF PathsInv, Types, TypeObj
<1>2. TypeDirect' /\ direct'.p = direct.p /\ direct'.pc = "deref"
  BY <1>1 DEF TypeDirect
<1>3. \A p \in Path : path'[p].cmds = OnIt(p)'
  <2> SUFFICES ASSUME NEW p \in Path PROVE path'[p].cmds = OnIt(p)'
    OBVIOUS
  <2>1. OnIt(p)' = path[p].cmds + One(direct'.p = p) - One(direct.p = p)
    BY OnItDirect
  <2> QED
    BY <1>1, <1>2, <2>1 DEF One, PathType
<1>4. PathShape /\ DevShape /\ path' = path
  BY DEF PathShape, DevShape
<1>5. Users'
  BY <1>2, PathNames DEF PathsInv, Users
<1>6. Types'
  BY <1>2, TypesKept
<1>7. Commands' /\ World' /\ Busy' /\ Drained' /\ Opens'
  BY <1>4, PartsKept
<1> QED
  BY <1>1, <1>3, <1>4, <1>5, <1>6, <1>7, CommandStep DEF PathType

(* ... and its path is dropped. *)
LEMMA DirectDerefKept ==
  ASSUME PathsInv, DirectDeref
  PROVE  PathsInv'
<1> USE DEF DirectDeref, DropPath, psaVars, cmdVars
<1>1. path \in [Path -> PathType] /\ TypeDirect /\ direct.p \in Path
  BY PathNames DEF PathsInv, Types, TypeObj, TypeDirect, Users
<1>2. TypeDirect' /\ direct'.p = NoPath /\ direct'.pc = "idle"
  BY DEF TypeDirect
<1>3. \A p \in Path : path'[p].cmds = path[p].cmds - One(p = direct.p)
                      /\ path'[p].ref = path[p].ref - One(p = direct.p)
  BY <1>1 DEF PathType, One
<1>4. \A p \in Path : path'[p].cmds = OnIt(p)'
  <2> SUFFICES ASSUME NEW p \in Path PROVE path'[p].cmds = OnIt(p)'
    OBVIOUS
  <2>1. OnIt(p)' = path[p].cmds + One(direct'.p = p) - One(direct.p = p)
    BY OnItDirect
  <2> QED
    BY <1>1, <1>2, <1>3, <2>1, PathNames DEF One, PathType
<1>5. path[direct.p].cmds > 0 /\ path[direct.p].ref > 0
  BY <1>1, OnPathCount DEF PathsInv, Counts, One
<1>6. path' \in [Path -> PathType]
  BY <1>1, <1>5 DEF PathType
<1>7. PathShape /\ DevShape
  BY <1>1 DEF PathType, PathShape, DevShape
<1>8. Users'
  BY <1>2, PathNames DEF PathsInv, Users
<1>9. Types'
  BY <1>2, <1>6, TypesKept
<1>10. Commands' /\ World' /\ Busy' /\ Drained' /\ Opens'
  BY <1>7, PartsKept
<1>11. \A p \in Path : /\ path'[p].ref = path[p].ref + path'[p].cmds - path[p].cmds
                       /\ ~(path'[p].ref > path[p].ref)
  BY <1>1, <1>3 DEF PathType, One
<1>12. UNCHANGED <<createdDevices, mg, pr, user, rw>>
  OBVIOUS
<1> HIDE DEF DirectDeref
<1> QED
  BY <1>4, <1>6, <1>7, <1>8, <1>9, <1>10, <1>11, <1>12, CommandStep
-----------------------------------------------------------------------------
(* A step of the retry world that takes or drops a reference, or none. *)
LEMMA RetryStep ==
  ASSUME PathsInv, TypeRw', path' \in [Path -> PathType], PathShape,
         DevShape \/ (Slots' /\ Devices' /\ Created' /\ Management' /\ Probes'),
         dev' \in [Dev -> DevType],
         UNCHANGED <<createdDevices, mg, pr, user, cmd, comp, direct, tm>>,
         retryQueue' \in Seq(Cmd),
         Commands', World', Busy', Drained',
         \A d \in Dev : dev'[d].open = dev[d].open,
         rw'.p # NoPath => rw'.p = rw.p \/ (path[rw'.p].ex /\ path[rw'.p].d \in Dev),
         \A p \in Path : /\ path'[p].cmds = path[p].cmds
                         /\ path'[p].ref = path[p].ref + One(rw'.p = p) - One(rw.p = p)
  PROVE  PathsInv'
<1>1. TypeCmd'
  BY DEF PathsInv, Types, TypeCmd
<1>2. Types'
  BY <1>1, TypesKept
<1>3. Refs'
  <2>0. \A p \in Path : path[p].ref \in Nat
    BY DEF PathsInv, Types, TypeObj, PathType
  <2>1. \A p \in Path : path'[p].ref > 0 => path[p].ref > 0 \/ rw'.p = p
    BY <2>0 DEF One
  <2>2. \A p \in Path : rw.p = p => path[p].ref > 0
    BY RefHeld
  <2> QED
    BY <2>1, <2>2, RefsKept, PathNames DEF Refs, PathsInv
<1>4. Counts'
  <2>1. \A p \in Path : path[p].ref \in Nat
    BY DEF PathsInv, Types, TypeObj, PathType
  <2> QED
    BY <2>1, RefMove DEF ProbeOn, One
<1>5. Slots' /\ Devices' /\ Created' /\ Management'
  BY ShapeKept
<1>6. Probes' /\ Users' /\ Opens'
  BY PartsKept
<1> QED
  BY <1>2, <1>3, <1>4, <1>5, <1>6 DEF PathsInv

(* The retry world takes a command and looks at the active path ... *)
LEMMA RetryLookKept ==
  ASSUME PathsInv, RetryLook
  PROVE  PathsInv'
<1> DEFINE c == Head(retryQueue)
           d == cmd[c].d
           q == Active(d)
<1>1. /\ TypeCmd /\ TypeRw /\ path \in [Path -> PathType] /\ dev \in [Dev -> DevType]
      /\ retryQueue # <<>> /\ retryQueue \in Seq(Cmd) /\ Distinct(retryQueue, Cmd)
      /\ rw.pc = "idle"
  BY DEF PathsInv, Types, TypeObj, TypeCmd, Commands, RetryLook, InRetry
<1>2. /\ c \in Cmd /\ Tail(retryQueue) \in Seq(Cmd) /\ Distinct(Tail(retryQueue), Cmd)
      /\ \A y : InQueue(y, retryQueue) <=> y = c \/ InQueue(y, Tail(retryQueue))
      /\ ~InQueue(c, Tail(retryQueue))
  BY <1>1, TailOf
<1>3. /\ path' = [path EXCEPT ![q].ref = @ + 1]
      /\ rw' = [rw EXCEPT !.pc = "look", !.c = c, !.d = d, !.p = q]
      /\ retryQueue' = Tail(retryQueue)
      /\ UNCHANGED <<createdDevices, dev, mg, pr, user, cmd, comp, direct, tm>>
  BY DEF RetryLook, ExamplePathIncRefCount, psaVars, cmdVars
<1> HIDE DEF c
<1>4. cmd[c].pc = "retry" /\ user.pc # "out" /\ d = user.d
  BY <1>2 DEF PathsInv, Commands
<1>5. d \in Dev /\ q \in Path /\ path[q].ex /\ path[q].d \in Dev
  BY <1>4, UserKeeps, OpenKeeps
<1>6. rw.c = NoCmd /\ rw.p = NoPath
  BY <1>1 DEF PathsInv, World
<1> HIDE DEF d, q
<1>7. /\ rw'.pc = "look" /\ rw'.c = c /\ rw'.d = d /\ rw'.p = q /\ TypeRw'
  BY <1>1, <1>2, <1>3, <1>5 DEF TypeRw, RwPc
<1>8. path' \in [Path -> PathType]
  <2>1. path \in [Path -> PathType] /\ path' = [path EXCEPT ![q].ref = @ + 1] /\ q \in Path
    BY <1>1, <1>3, <1>5
  <2> QED
    BY <2>1 DEF PathType
<1>9. /\ PathShape /\ DevShape
      /\ \A p \in Path : path'[p].cmds = path[p].cmds /\ path'[p].ref = path[p].ref + One(p = q)
  BY <1>1, <1>3, <1>5 DEF PathType, PathShape, DevShape, One
<1>10. \A p \in Path : path'[p].ref = path[p].ref + One(rw'.p = p) - One(rw.p = p)
  BY <1>1, <1>6, <1>7, <1>9, PathNames DEF PathType, One
<1>11. Commands'
  <2>1. retryQueue' = Tail(retryQueue) /\ rw'.c = c
    BY <1>3, <1>7
  <2> QED
    BY <1>2, <1>3, <1>6, <2>1 DEF PathsInv, Commands
<1>12. World'
  BY <1>2, <1>3, <1>4, <1>5, <1>7, PathNames DEF World, d
<1>13. Busy'
  BY <1>1, <1>3, <1>7 DEF PathsInv, Busy, One
<1>14. Drained'
  BY <1>3, <1>9, PartsKept
<1> QED
  BY <1>1, <1>2, <1>3, <1>5, <1>7, <1>8, <1>9, <1>10, <1>11, <1>12, <1>13, <1>14, RetryStep

(* ... drops it, ... *)
LEMMA RetryLookedKept ==
  ASSUME PathsInv, RetryLooked \/ FailoverEnd
  PROVE  PathsInv'
<1>1. /\ TypeRw /\ path \in [Path -> PathType] /\ dev \in [Dev -> DevType] /\ TypeCmd
      /\ rw.pc \in {"look", "resv"}
  BY DEF PathsInv, Types, TypeObj, RetryLooked, FailoverEnd, InRetry
<1>2. rw.p \in Path /\ rw.c # NoCmd /\ rw.d # NoDev
  BY <1>1 DEF PathsInv, World, TypeRw
<1>3. /\ path' = [path EXCEPT ![rw.p].ref = @ - 1]
      /\ UNCHANGED <<createdDevices, dev, mg, pr, user, cmd, retryQueue, comp, direct, tm>>
  BY DEF RetryLooked, FailoverEnd, ExamplePathDecRefCount, psaVars, cmdVars
<1>4. /\ rw'.pc \in {"busy", "failover"} /\ rw'.p = NoPath /\ rw'.c = rw.c /\ rw'.d = rw.d
      /\ TypeRw'
  BY <1>1 DEF RetryLooked, FailoverEnd, TypeRw, RwPc
<1>5. path' \in [Path -> PathType]
  BY <1>1, <1>2, <1>3, RefHeld DEF PathType
<1>6. /\ PathShape /\ DevShape
      /\ \A p \in Path : path'[p].cmds = path[p].cmds
                         /\ path'[p].ref = path[p].ref - One(p = rw.p)
  BY <1>1, <1>2, <1>3 DEF PathType, PathShape, DevShape, One
<1>7. \A p \in Path : path'[p].ref = path[p].ref + One(rw'.p = p) - One(rw.p = p)
  BY <1>1, <1>4, <1>6, PathNames DEF PathType, One
<1>8. Commands'
  BY <1>3, <1>4 DEF PathsInv, Commands
<1>9. World'
  BY <1>2, <1>3, <1>4 DEF PathsInv, World
<1>10. Busy'
  BY <1>1, <1>3, <1>4 DEF PathsInv, Busy, One
<1>11. Drained'
  BY <1>3, <1>6, PartsKept
<1>12. retryQueue' \in Seq(Cmd) /\ dev' \in [Dev -> DevType]
  BY <1>1, <1>3 DEF TypeCmd
<1> QED
  BY <1>3, <1>4, <1>5, <1>6, <1>7, <1>8, <1>9, <1>10, <1>11, <1>12, RetryStep

(* ... aborts what is on another path. *)
LEMMA AbortKept ==
  ASSUME PathsInv, AbortIssue \/ \E c \in Cmd : AbortTake(c)
  PROVE  PathsInv'
<1>1. /\ TypeRw /\ path \in [Path -> PathType] /\ dev \in [Dev -> DevType] /\ TypeCmd
      /\ rw.pc \in {"abort", "resv"}
  BY DEF PathsInv, Types, TypeObj, AbortTake, AbortIssue, InRetry
<1>2. UNCHANGED <<createdDevices, dev, mg, path, pr, user, cmd, retryQueue, comp, direct, tm>>
  BY DEF AbortTake, AbortIssue, objVars, psaVars, cmdVars
<1>3. /\ rw'.pc \in {"abort", "resv"} /\ rw'.p = rw.p /\ rw'.c = rw.c /\ rw'.d = rw.d
      /\ TypeRw'
  <2>1. CASE AbortIssue
    BY <1>1, <2>1 DEF AbortIssue, TypeRw, RwPc
  <2>2. CASE \E c \in Cmd : AbortTake(c)
    BY <1>1, <2>2 DEF AbortTake, TypeRw, RwPc, TypeCmd
  <2> QED
    BY <2>1, <2>2
<1>4. PathShape /\ DevShape
  BY <1>2 DEF PathShape, DevShape
<1>5. \A p \in Path : path'[p].ref = path[p].ref + One(rw'.p = p) - One(rw.p = p)
  BY <1>1, <1>2, <1>3 DEF PathType, One
<1>6. Commands' /\ World'
  BY <1>1, <1>2, <1>3 DEF PathsInv, Commands, World
<1>7. Busy'
  BY <1>1, <1>2, <1>3 DEF PathsInv, Busy, One
<1>8. Drained'
  BY <1>2, <1>4, PartsKept
<1>9. retryQueue' \in Seq(Cmd)
  BY <1>1, <1>2 DEF TypeCmd
<1> QED
  BY <1>1, <1>2, <1>3, <1>4, <1>5, <1>6, <1>7, <1>8, <1>9, RetryStep

(* The index that ExampleGetFailoverPathIndex finds has a path, if the     *)
(* active slot has one, and is another one, if there is one.               *)
LEMMA FailoverIndex ==
  ASSUME PathsInv, NEW d \in Dev
  PROVE  LET i == ExampleGetFailoverPathIndex(d)
             others == {j \in Index : j # dev[d].active /\ dev[d].paths[j] # NoPath}
         IN  /\ i \in Index
             /\ others # {} => i \in others
             /\ others = {} => i = dev[d].active
<1> DEFINE dist(i) == (i + MaxPaths - dev[d].active) % MaxPaths
           others == {j \in Index : j # dev[d].active /\ dev[d].paths[j] # NoPath}
           on == {i \in others : path[dev[d].paths[i]].state = "on"}
           first(S) == CHOOSE i \in S : \A j \in S : dist(i) <= dist(j)
<1>1. dev[d].active \in Index /\ MaxPaths \in Nat \ {0}
  BY PathsAssumption DEF PathsInv, Types, TypeObj, DevType
<1>2. \A j \in Index : dist(j) \in Nat
  BY <1>1 DEF Index
<1>3. ASSUME NEW S \in SUBSET Index, S # {} PROVE first(S) \in S
  <2> DEFINE D == {dist(j) : j \in S}
  <2>1. D \in SUBSET Nat /\ D # {}
    BY <1>2, <1>3
  <2>2. PICK x \in D : \A y \in D : x <= y
    BY <2>1, LeastNat
  <2>3. PICK k \in S : x = dist(k)
    OBVIOUS
  <2> HIDE DEF dist
  <2>4. \E i \in S : \A j \in S : dist(i) <= dist(j)
    BY <2>2, <2>3
  <2> QED
    BY <2>4
<1> HIDE DEF dist, first
<1>4. ExampleGetFailoverPathIndex(d) =
        CASE on # {} -> first(on)
          [] on = {} /\ others # {} -> first(others)
          [] OTHER -> dev[d].active
  BY DEF ExampleGetFailoverPathIndex, first, dist
<1>5. on # {} => first(on) \in on
  <2>1. on \in SUBSET Index
    OBVIOUS
  <2> QED
    BY <2>1, <1>3
<1>6. others # {} => first(others) \in others
  <2>1. others \in SUBSET Index
    OBVIOUS
  <2> QED
    BY <2>1, <1>3
<1> QED
  BY <1>1, <1>4, <1>5, <1>6

(* The failover makes another path the active one, and takes it. *)
LEMMA FailoverKept ==
  ASSUME PathsInv, ExampleDevice_AttemptFailover
  PROVE  PathsInv'
<1> DEFINE d == rw.d
           i == ExampleGetFailoverPathIndex(d)
           q == dev[d].paths[i]
<1>1. /\ TypeRw /\ path \in [Path -> PathType] /\ dev \in [Dev -> DevType] /\ TypeMg
      /\ retryQueue \in Seq(Cmd) /\ rw.pc = "failover"
  BY DEF PathsInv, Types, TypeObj, TypeCmd, ExampleDevice_AttemptFailover, InRetry
<1>2. rw.p = NoPath /\ rw.c # NoCmd /\ rw.d # NoDev
  BY <1>1 DEF PathsInv, World
<1>3. UNCHANGED <<createdDevices, mg, pr, user, cmd, retryQueue, comp, direct, tm>>
  BY DEF ExampleDevice_AttemptFailover, psaVars, cmdVars
<1>4. d \in Dev /\ dev[d].n # 0 /\ Active(d) # NoPath
  BY <1>2, RetryKeeps, OpenKeeps, PathNames
<1>5. CASE dev[d].n = 1
  <2>1. rw' = [rw EXCEPT !.pc = "busy"] /\ UNCHANGED <<dev, path>>
    BY <1>5 DEF ExampleDevice_AttemptFailover
  <2>2. rw'.pc = "busy" /\ rw'.p = rw.p /\ rw'.c = rw.c /\ rw'.d = rw.d /\ TypeRw'
    BY <1>1, <2>1 DEF TypeRw, RwPc
  <2>3. PathShape /\ DevShape
    BY <2>1 DEF PathShape, DevShape
  <2>4. \A p \in Path : path'[p].ref = path[p].ref + One(rw'.p = p) - One(rw.p = p)
    BY <1>1, <2>1, <2>2 DEF PathType, One
  <2>5. Commands' /\ World'
    BY <1>1, <1>2, <1>3, <2>2 DEF PathsInv, Commands, World
  <2>6. Busy'
    BY <1>1, <1>3, <2>1, <2>2 DEF PathsInv, Busy, One
  <2>7. Drained'
    BY <1>3, <2>1, <2>3, PartsKept
  <2> QED
    BY <1>1, <1>2, <1>3, <2>1, <2>2, <2>3, <2>4, <2>5, <2>6, <2>7, RetryStep
<1>6. CASE dev[d].n # 1
  <2>1. i \in Index /\ q # NoPath
    BY <1>4, FailoverIndex DEF Active
  <2>2. q \in Path /\ path[q].ex /\ path[q].d \in Dev
    <3> HIDE DEF i
    <3> QED
      BY <1>4, <2>1, UsedSlot
  <2>3. /\ dev' = [dev EXCEPT ![d].active = i]
        /\ path' = [path EXCEPT ![q].ref = @ + 1]
        /\ rw' = [rw EXCEPT !.pc = "resv", !.p = q]
    BY <1>6 DEF ExampleDevice_AttemptFailover, ExamplePathIncRefCount
  <2> HIDE DEF i
  <2>4. /\ \A a \in Dev : /\ dev'[a].st = dev[a].st /\ dev'[a].paths = dev[a].paths
                          /\ dev'[a].n = dev[a].n /\ dev'[a].open = dev[a].open
                          /\ dev'[a].known = dev[a].known /\ dev'[a].busy = dev[a].busy
                          /\ dev'[a].reg = dev[a].reg /\ dev'[a].timer = dev[a].timer
                          /\ dev'[a].removing = dev[a].removing
                          /\ dev'[a].active = IF a = d THEN i ELSE dev[a].active
    BY <1>1, <1>4, <2>1, <2>3 DEF DevType
  <2>5. dev' \in [Dev -> DevType]
    <3>1. dev \in [Dev -> DevType] /\ dev' = [dev EXCEPT ![d].active = i] /\ d \in Dev
          /\ i \in Index
      BY <1>1, <1>4, <2>1, <2>3
    <3> QED
      BY <3>1, ActiveTyped
  <2>6. path \in [Path -> PathType] /\ q \in Path /\ path' = [path EXCEPT ![q].ref = @ + 1]
    BY <1>1, <2>2, <2>3
  <2>7. /\ path' \in [Path -> PathType] /\ PathShape
        /\ \A p \in Path : path'[p].cmds = path[p].cmds
                           /\ path'[p].ref = path[p].ref + One(p = q)
    BY ONLY <2>6, RefTaken
  <2>8. rw'.pc = "resv" /\ rw'.p = q /\ rw'.c = rw.c /\ rw'.d = rw.d /\ TypeRw'
    BY <1>1, <2>2, <2>3 DEF TypeRw, RwPc
  <2>9. /\ \A a \in Dev : /\ Alive(a)' = Alive(a) /\ Emptied(a)' = Emptied(a)
                          /\ Used(a, 0)' = Used(a, 0)
        /\ \A p : Out(p)' = Out(p)
    BY <1>3, <2>4 DEF Alive, Emptied, Used, Out
  <2>10. Slots'
    <3>1. SlotOwner'
      BY <2>4, <2>7, <2>9, <1>1 DEF PathsInv, Slots, SlotOwner, PathShape, DevType
    <3>2. SlotOnce' /\ SlotOf' /\ SlotCount'
      BY <2>4, <2>7, <2>9 DEF PathsInv, Slots, SlotOnce, SlotOf, SlotCount, PathShape
    <3>3. SlotActive'
      BY <2>1, <2>4 DEF PathsInv, Slots, SlotActive, Active, q
    <3> QED
      BY <3>1, <3>2, <3>3 DEF Slots
  <2>11. Devices' /\ Created'
    BY <1>1, <1>3, <1>4, <2>4, <2>9 DEF PathsInv, Devices, Created, Types, TypeObj
  <2>12. Management'
    BY <1>1, <1>3, <2>4, <2>7, <2>9 DEF PathsInv, Management, TypeMg, MgType, PathShape
  <2>13. Probes'
    BY <1>3, <2>4, <2>7, <2>9, PathNames DEF PathsInv, Probes, PathShape, Types, TypePr,
       PrType, Alive
  <2>14. \A p \in Path : path'[p].ref = path[p].ref + One(rw'.p = p) - One(rw.p = p)
    BY <1>1, <1>2, <2>7, <2>8, PathNames DEF PathType, One
  <2>15. Commands' /\ World'
    BY <1>1, <1>2, <1>3, <2>2, <2>8, PathNames DEF PathsInv, Commands, World
  <2>16. Busy'
    BY <1>1, <1>3, <2>4, <2>8 DEF PathsInv, Busy, One
  <2>17. Drained'
    BY <1>3, <2>4, <2>9 DEF PathsInv, Drained
  <2> QED
    BY <1>1, <1>3, <2>2, <2>4, <2>5, <2>7, <2>8, <2>10, <2>11, <2>12, <2>13, <2>14,
       <2>15, <2>16, <2>17, RetryStep
<1> QED
  BY <1>5, <1>6

(* The retry world keeps the device busy while it retries the command. *)
LEMMA RetryBusyKept ==
  ASSUME PathsInv, RetryBusy
  PROVE  PathsInv'
<1>1. /\ TypeRw /\ path \in [Path -> PathType] /\ dev \in [Dev -> DevType]
      /\ retryQueue \in Seq(Cmd) /\ rw.pc = "busy"
  BY DEF PathsInv, Types, TypeObj, TypeCmd, RetryBusy, InRetry
<1>2. rw.p = NoPath /\ rw.c # NoCmd /\ rw.d # NoDev
  BY <1>1 DEF PathsInv, World
<1>3. /\ UNCHANGED <<createdDevices, path, mg, pr, user, cmd, retryQueue, comp, direct, tm>>
      /\ dev' = [dev EXCEPT ![rw.d].busy = @ + 1] /\ rw' = [rw EXCEPT !.pc = "retry"]
  BY DEF RetryBusy, psaVars, cmdVars
<1>4. rw.d \in Dev /\ Alive(rw.d) /\ ~Emptied(rw.d)
  BY <1>2, RetryKeeps, OpenKeeps, PathNames
<1>5. dev' \in [Dev -> DevType]
  <2>1. dev \in [Dev -> DevType] /\ dev' = [dev EXCEPT ![rw.d].busy = @ + 1] /\ rw.d \in Dev
    BY <1>1, <1>3, <1>4
  <2>2. dev[rw.d].busy + 1 \in Nat
    BY <2>1 DEF DevType
  <2> QED
    BY <2>1, <2>2, DevTyped
<1>6. /\ DevShape /\ PathShape
      /\ \A a \in Dev : /\ dev'[a].open = dev[a].open /\ dev'[a].timer = dev[a].timer
                        /\ dev'[a].busy = dev[a].busy + One(a = rw.d)
  BY <1>1, <1>3, <1>4 DEF DevType, DevShape, PathShape, One
<1>7. rw'.pc = "retry" /\ rw'.p = rw.p /\ rw'.c = rw.c /\ rw'.d = rw.d /\ TypeRw'
  BY <1>1, <1>3 DEF TypeRw, RwPc
<1>8. Busy'
  BY <1>1, <1>3, <1>6, <1>7 DEF PathsInv, Busy, One, DevType
<1>9. Drained'
  BY <1>3, <1>4, <1>6 DEF PathsInv, Drained, DevShape, Emptied, Alive, One
<1>10. Commands' /\ World'
  BY <1>1, <1>2, <1>3, <1>7 DEF PathsInv, Commands, World
<1>11. \A p \in Path : path'[p].ref = path[p].ref + One(rw'.p = p) - One(rw.p = p)
  BY <1>1, <1>3, <1>7 DEF PathType, One
<1> QED
  BY <1>1, <1>2, <1>3, <1>5, <1>6, <1>7, <1>8, <1>9, <1>10, <1>11, RetryStep

(* It has a busy count on the device until it is done with it. *)
LEMMA BusyKeeps ==
  ASSUME PathsInv, rw.pc \in {"retry", "unblock", "unbusy"}
  PROVE  /\ rw.d \in Dev /\ dev[rw.d].busy > 0 /\ Alive(rw.d)
         /\ ~(mg.pc = "destroy" /\ mg.d = rw.d)
<1>1. rw.d \in Dev
  BY DEF PathsInv, World, Types, TypeRw
<1>2. dev[rw.d].busy > 0
  BY <1>1 DEF PathsInv, Busy, One
<1> QED
  BY <1>1, <1>2 DEF PathsInv, Drained

(* The retried command takes the active path. *)
LEMMA RetryCmdKept ==
  ASSUME PathsInv, ExampleRetryCmd
  PROVE  PathsInv'
<1> DEFINE c == rw.c
           q == Active(rw.d)
<1>1. /\ TypeRw /\ path \in [Path -> PathType] /\ TypeCmd /\ rw.pc = "retry"
  BY DEF PathsInv, Types, TypeObj, ExampleRetryCmd, InRetry
<1>2. rw.p = NoPath /\ rw.c # NoCmd /\ rw.d # NoDev
  BY <1>1 DEF PathsInv, World
<1>3. /\ UNCHANGED <<createdDevices, dev, mg, pr, user, retryQueue, comp, direct, tm>>
      /\ path' = [path EXCEPT ![q].ref = @ + 1, ![q].cmds = @ + 1]
      /\ cmd' = [cmd EXCEPT ![c].pc = "flight", ![c].p = q]
      /\ rw' = [rw EXCEPT !.pc = "unblock", !.c = NoCmd]
  BY DEF ExampleRetryCmd, TakePath, psaVars, cmdVars
<1>4. c \in Cmd /\ q \in Path /\ path[q].ex /\ path[q].d \in Dev /\ user.pc # "out"
  BY <1>2, RetryKeeps, OpenKeeps, PathNames
<1>5. /\ cmd[c].p = NoPath /\ cmd[c].pc = "retry" /\ cmd[c].d = user.d
      /\ ~InQueue(c, retryQueue)
  BY <1>2, <1>4 DEF PathsInv, World, Commands
<1> HIDE DEF c, q
<1>6. \A p \in Path : /\ path'[p].cmds = path[p].cmds + One(p = q)
                      /\ path'[p].ref = path[p].ref + One(p = q)
  BY <1>1, <1>3, <1>4 DEF PathType, One
<1>7. path' \in [Path -> PathType]
  <2>1. /\ path \in [Path -> PathType] /\ q \in Path
        /\ path' = [path EXCEPT ![q].ref = @ + 1, ![q].cmds = @ + 1]
    BY <1>1, <1>3, <1>4
  <2> QED
    BY <2>1 DEF PathType
<1>8. /\ TypeCmd' /\ cmd'[c].pc = "flight" /\ cmd'[c].p = q /\ cmd'[c].d = cmd[c].d
      /\ \A b \in Cmd \ {c} : cmd'[b] = cmd[b]
  BY <1>1, <1>3, <1>4 DEF TypeCmd
<1>9. rw'.pc = "unblock" /\ rw'.p = rw.p /\ rw'.c = NoCmd /\ rw'.d = rw.d /\ TypeRw'
  BY <1>1, <1>3 DEF TypeRw, RwPc
<1>10. PathShape /\ DevShape
  BY <1>1, <1>3, <1>4 DEF PathType, PathShape, DevShape
<1>11. Commands'
  <2>1. retryQueue' = retryQueue /\ user' = user
    BY <1>3
  <2>2. \A b \in Cmd : cmd'[b].pc = "flight" <=> cmd'[b].p # NoPath
    BY <1>4, <1>8, PathNames DEF PathsInv, Commands
  <2>3. \A b \in Cmd : cmd'[b].pc # "idle" => user'.pc # "out" /\ cmd'[b].d = user'.d
    BY <1>4, <1>5, <1>8, <2>1 DEF PathsInv, Commands
  <2>4. \A b \in Cmd : InQueue(b, retryQueue') => cmd'[b].pc = "retry" /\ rw'.c # b
    BY <1>5, <1>8, <1>9, <2>1, PathNames DEF PathsInv, Commands
  <2>5. Distinct(retryQueue', Cmd)
    BY <2>1 DEF PathsInv, Commands
  <2> QED
    BY <2>2, <2>3, <2>4, <2>5 DEF Commands
<1>12. World'
  BY <1>2, <1>3, <1>9 DEF World
<1>13. \A p \in Path : path'[p].cmds = OnIt(p)'
  <2> SUFFICES ASSUME NEW p \in Path PROVE path'[p].cmds = OnIt(p)'
    OBVIOUS
  <2>1. OnIt(p)' = path[p].cmds + One(cmd'[c].p = p) - One(cmd[c].p = p)
                      + One(comp'[c].p = p) - One(comp[c].p = p)
    <3>1. /\ direct' = direct
          /\ \A b \in Cmd \ {c} : cmd'[b].p = cmd[b].p /\ comp'[b].p = comp[b].p
      BY <1>3, <1>8
    <3> QED
      BY <1>4, <3>1, OnItMove
  <2> QED
    BY <1>1, <1>3, <1>5, <1>6, <1>8, <2>1, PathNames DEF One, PathType
<1>14. Types'
  BY <1>3, <1>7, <1>8, <1>9, TypesKept
<1>15. Busy'
  BY <1>1, <1>3, <1>9 DEF PathsInv, Busy, One
<1>16. Users' /\ Drained' /\ Opens'
  BY <1>3, <1>10, PartsKept
<1>17. \A p \in Path : /\ path'[p].ref = path[p].ref + path'[p].cmds - path[p].cmds
                       /\ path'[p].ref > path[p].ref => p = q
  BY <1>1, <1>6 DEF PathType, One
<1> QED
  BY <1>3, <1>4, <1>7, <1>9, <1>10, <1>11, <1>12, <1>13, <1>14, <1>15, <1>16, <1>17,
     CommandStep

(* The last of the retried commands schedules a start of the device ... *)
LEMMA UnblockKept ==
  ASSUME PathsInv, ExampleDevice_Unblock
  PROVE  PathsInv'
<1>1. /\ TypeRw /\ path \in [Path -> PathType] /\ dev \in [Dev -> DevType]
      /\ retryQueue \in Seq(Cmd) /\ rw.pc = "unblock"
  BY DEF PathsInv, Types, TypeObj, TypeCmd, ExampleDevice_Unblock, InRetry
<1>2. rw.p = NoPath /\ rw.c = NoCmd /\ rw.d # NoDev
  BY <1>1 DEF PathsInv, World
<1>3. /\ UNCHANGED <<createdDevices, path, mg, pr, user, cmd, retryQueue, comp, direct, tm>>
      /\ dev' = dev \/ dev' = ExampleDeviceSchedStart(dev, rw.d)
      /\ rw' = [rw EXCEPT !.pc = "unbusy"]
  BY DEF ExampleDevice_Unblock, psaVars, cmdVars
<1>4. rw.d \in Dev /\ Alive(rw.d) /\ ~(mg.pc = "destroy" /\ mg.d = rw.d)
  BY <1>1, BusyKeeps
<1>5. /\ dev' \in [Dev -> DevType] /\ DevShape
      /\ \A a \in Dev : /\ dev'[a].open = dev[a].open
                        /\ dev'[a].busy - One(dev'[a].timer) = dev[a].busy - One(dev[a].timer)
                        /\ a # rw.d => dev'[a].busy = dev[a].busy
  <2>1. dev \in [Dev -> DevType] /\ rw.d \in Dev
        /\ (dev' = dev \/ dev' = ExampleDeviceSchedStart(dev, rw.d))
    BY <1>1, <1>3, <1>4
  <2> QED
    BY <2>1 DEF ExampleDeviceSchedStart, DevType, DevShape, One
<1>6. rw'.pc = "unbusy" /\ rw'.p = rw.p /\ rw'.c = rw.c /\ rw'.d = rw.d /\ TypeRw'
  BY <1>1, <1>3 DEF TypeRw, RwPc
<1>7. Busy'
  <2> SUFFICES ASSUME NEW a \in Dev
               PROVE  dev'[a].busy = One(rw'.d = a /\ rw'.pc \in {"retry", "unblock", "unbusy"})
                                       + One(dev'[a].timer) + One(tm' = a)
    BY DEF Busy
  <2>1. dev[a].busy = One(rw.d = a /\ rw.pc \in {"retry", "unblock", "unbusy"})
                        + One(dev[a].timer) + One(tm = a)
    BY DEF PathsInv, Busy
  <2>2. dev[a].busy \in Nat /\ dev'[a].busy \in Nat /\ UNCHANGED tm
    BY <1>1, <1>3, <1>5 DEF DevType
  <2> QED
    BY <1>1, <1>5, <1>6, <2>1, <2>2 DEF One
<1>8. Drained'
  BY <1>3, <1>4, <1>5 DEF PathsInv, Drained, DevShape, Alive
<1>9. Commands' /\ World'
  BY <1>1, <1>2, <1>3, <1>6 DEF PathsInv, Commands, World
<1>10. \A p \in Path : path'[p].ref = path[p].ref + One(rw'.p = p) - One(rw.p = p)
  BY <1>1, <1>3, <1>6 DEF PathType, One
<1>11. PathShape
  BY <1>3 DEF PathShape
<1> QED
  BY <1>1, <1>2, <1>3, <1>5, <1>6, <1>7, <1>8, <1>9, <1>10, <1>11, RetryStep

(* ... and leaves it. *)
LEMMA RetryEndKept ==
  ASSUME PathsInv, RetryEnd
  PROVE  PathsInv'
<1>1. /\ TypeRw /\ path \in [Path -> PathType] /\ dev \in [Dev -> DevType]
      /\ retryQueue \in Seq(Cmd) /\ rw.pc = "unbusy"
  BY DEF PathsInv, Types, TypeObj, TypeCmd, RetryEnd, InRetry
<1>2. rw.p = NoPath /\ rw.c = NoCmd /\ rw.d # NoDev
  BY <1>1 DEF PathsInv, World
<1>3. /\ UNCHANGED <<createdDevices, path, mg, pr, user, cmd, retryQueue, comp, direct, tm>>
      /\ dev' = [dev EXCEPT ![rw.d].busy = @ - 1]
      /\ rw' = [rw EXCEPT !.pc = "idle", !.d = NoDev]
  BY DEF RetryEnd, psaVars, cmdVars
<1>4. /\ rw.d \in Dev /\ Alive(rw.d) /\ ~(mg.pc = "destroy" /\ mg.d = rw.d)
      /\ dev[rw.d].busy > 0
  BY <1>1, BusyKeeps
<1>5. dev' \in [Dev -> DevType]
  <2>1. dev[rw.d].busy - 1 \in Nat
    BY <1>1, <1>4 DEF DevType
  <2> QED
    BY <1>1, <1>3, <1>4, <2>1, DevTyped
<1>6. /\ DevShape /\ PathShape
      /\ \A a \in Dev : /\ dev'[a].open = dev[a].open /\ dev'[a].timer = dev[a].timer
                        /\ dev'[a].busy = dev[a].busy - One(a = rw.d)
  BY <1>1, <1>3, <1>4 DEF DevType, DevShape, PathShape, One
<1>7. rw'.pc = "idle" /\ rw'.p = rw.p /\ rw'.c = rw.c /\ rw'.d = NoDev /\ TypeRw'
  BY <1>1, <1>3 DEF TypeRw, RwPc
<1>8. Busy'
  <2> SUFFICES ASSUME NEW a \in Dev
               PROVE  dev'[a].busy = One(rw'.d = a /\ rw'.pc \in {"retry", "unblock", "unbusy"})
                                       + One(dev'[a].timer) + One(tm' = a)
    BY DEF Busy
  <2>1. dev[a].busy = One(rw.d = a /\ rw.pc \in {"retry", "unblock", "unbusy"})
                        + One(dev[a].timer) + One(tm = a)
    BY DEF PathsInv, Busy
  <2>2. dev[a].busy \in Nat /\ dev'[a].busy \in Nat /\ UNCHANGED tm
    BY <1>1, <1>3, <1>5 DEF DevType
  <2> QED
    BY <1>1, <1>6, <1>7, <2>1, <2>2 DEF One
<1>9. Drained'
  BY <1>3, <1>4, <1>6 DEF PathsInv, Drained, DevShape, Alive, One
<1>10. Commands' /\ World'
  BY <1>1, <1>2, <1>3, <1>7 DEF PathsInv, Commands, World
<1>11. \A p \in Path : path'[p].ref = path[p].ref + One(rw'.p = p) - One(rw.p = p)
  BY <1>1, <1>3, <1>7 DEF PathType, One
<1> QED
  BY <1>1, <1>2, <1>3, <1>5, <1>6, <1>7, <1>8, <1>9, <1>10, <1>11, RetryStep

(* The timer fires: its busy count goes to the callback, ... *)
LEMMA TimerFireKept ==
  ASSUME PathsInv, NEW d \in Dev, TimerFire(d)
  PROVE  PathsInv'
<1>1. /\ dev \in [Dev -> DevType] /\ dev[d].timer /\ tm = NoDev /\ tm' = d
      /\ dev' = [dev EXCEPT ![d].timer = FALSE]
      /\ UNCHANGED <<createdDevices, path, mg, pr, user, cmd, retryQueue, comp, direct, rw>>
  BY DEF PathsInv, Types, TypeObj, TimerFire, psaVars, cmdVars
<1>2. dev' \in [Dev -> DevType]
  <2>1. [dev[d] EXCEPT !.timer = FALSE] \in DevType
    BY <1>1 DEF DevType
  <2> QED
    BY <1>1, <2>1
<1>3. /\ DevShape /\ PathShape
      /\ \A a \in Dev : /\ dev'[a].open = dev[a].open /\ dev'[a].busy = dev[a].busy
                        /\ dev'[a].timer = (a # d /\ dev[a].timer)
  BY <1>1 DEF DevType, DevShape, PathShape
<1>4. Types'
  BY <1>1, <1>2, TypesKept DEF TypeTm
<1>5. Busy'
  BY <1>1, <1>3, PathNames DEF PathsInv, Busy, One, DevType
<1>6. Refs'
  BY <1>1, <1>3, RefsKept
<1>7. Drained' /\ Opens' /\ Users' /\ Commands' /\ World' /\ Probes' /\ Counts'
  BY <1>1, <1>3, PartsKept
<1>8. Slots' /\ Devices' /\ Created' /\ Management'
  BY <1>1, <1>3, ShapeKept
<1> QED
  BY <1>4, <1>5, <1>6, <1>7, <1>8 DEF PathsInv

(* ... which keeps the device until it drops it. *)
LEMMA TimerKeeps ==
  ASSUME PathsInv, tm # NoDev
  PROVE  tm \in Dev /\ dev[tm].busy > 0 /\ Alive(tm) /\ ~(mg.pc = "destroy" /\ mg.d = tm)
<1>1. tm \in Dev
  BY DEF PathsInv, Types, TypeTm
<1>2. dev[tm].busy > 0
  BY <1>1 DEF PathsInv, Busy, One
<1> QED
  BY <1>1, <1>2 DEF PathsInv, Drained

(* The callback ends. *)
LEMMA TimerEndKept ==
  ASSUME PathsInv, TimerEnd
  PROVE  PathsInv'
<1>1. /\ dev \in [Dev -> DevType] /\ tm # NoDev /\ tm' = NoDev
      /\ dev' = [dev EXCEPT ![tm].busy = @ - 1]
      /\ UNCHANGED <<createdDevices, path, mg, pr, user, cmd, retryQueue, comp, direct, rw>>
  BY DEF PathsInv, Types, TypeObj, TimerEnd, psaVars, cmdVars
<1>2. tm \in Dev /\ dev[tm].busy > 0 /\ Alive(tm)
  BY <1>1, TimerKeeps
<1>3. dev' \in [Dev -> DevType]
  <2>1. dev[tm].busy - 1 \in Nat
    BY <1>1, <1>2 DEF DevType
  <2> QED
    BY <1>1, <1>2, <2>1, DevTyped
<1>4. /\ DevShape /\ PathShape
      /\ \A a \in Dev : /\ dev'[a].open = dev[a].open /\ dev'[a].timer = dev[a].timer
                        /\ dev'[a].busy = dev[a].busy - One(a = tm)
  BY <1>1, <1>2 DEF DevType, DevShape, PathShape, One
<1>5. Types'
  BY <1>1, <1>3, TypesKept DEF TypeTm
<1>6. Busy'
  <2> SUFFICES ASSUME NEW a \in Dev
               PROVE  dev'[a].busy = One(rw'.d = a /\ rw'.pc \in {"retry", "unblock", "unbusy"})
                                       + One(dev'[a].timer) + One(tm' = a)
    BY DEF Busy
  <2>1. dev[a].busy = One(rw.d = a /\ rw.pc \in {"retry", "unblock", "unbusy"})
                        + One(dev[a].timer) + One(tm = a)
    BY DEF PathsInv, Busy
  <2>2. dev[a].busy \in Nat /\ dev'[a].busy \in Nat
    BY <1>1, <1>3 DEF DevType
  <2> QED
    BY <1>1, <1>4, <2>1, <2>2, PathNames DEF One
<1>7. Drained'
  BY <1>1, <1>2, <1>4, TimerKeeps DEF PathsInv, Drained, DevShape, Alive, One
<1>8. Refs'
  BY <1>1, <1>4, RefsKept
<1>9. Opens' /\ Users' /\ Commands' /\ World' /\ Probes' /\ Counts'
  BY <1>1, <1>4, PartsKept
<1>10. Slots' /\ Devices' /\ Created' /\ Management'
  BY <1>1, <1>4, ShapeKept
<1> QED
  BY <1>5, <1>6, <1>7, <1>8, <1>9, <1>10 DEF PathsInv
-----------------------------------------------------------------------------
(* A step of a probe that takes or drops a reference, or none. *)
LEMMA ProbeStep ==
  ASSUME PathsInv, TypePr', path' \in [Path -> PathType], dev' \in [Dev -> DevType],
         PathShape, DevShape,
         UNCHANGED <<createdDevices, mg, user, cmd, retryQueue, comp, direct, rw, tm>>,
         \A d \in Dev : dev'[d].busy = dev[d].busy /\ dev'[d].timer = dev[d].timer,
         Probes', Opens', Drained',
         \A p \in Path :
           /\ path'[p].cmds = path[p].cmds
           /\ path'[p].ref = path[p].ref + One(ProbeOn("mg", p)') - One(ProbeOn("mg", p))
                               + One(ProbeOn("dp", p)') - One(ProbeOn("dp", p))
           /\ path'[p].ref > path[p].ref => path[p].ex /\ path[p].d \in Dev
  PROVE  PathsInv'
<1>0. \A p \in Path : path[p].ref \in Nat /\ path'[p].ref \in Nat
  BY DEF PathsInv, Types, TypeObj, PathType
<1>1. Types'
  BY TypesKept
<1>2. Refs'
  BY <1>0, RefsKept
<1>3. Counts'
  <2>1. \A p \in Path :
           /\ path'[p].cmds = path[p].cmds
           /\ path'[p].ref = path[p].ref + One(user'.p = p) - One(user.p = p)
                               + One(rw'.p = p) - One(rw.p = p)
                               + One(ProbeOn("mg", p)') - One(ProbeOn("mg", p))
                               + One(ProbeOn("dp", p)') - One(ProbeOn("dp", p))
    BY <1>0 DEF One
  <2> QED
    BY <2>1, RefMove
<1>4. Slots' /\ Devices' /\ Created' /\ Management'
  BY ShapeKept
<1>5. Busy' /\ Users' /\ Commands' /\ World'
  BY PartsKept
<1> QED
  BY <1>1, <1>2, <1>3, <1>4, <1>5 DEF PathsInv

(* A step of a probe that leaves devices and paths as they are. *)
LEMMA ProbeOnlyStep ==
  ASSUME PathsInv, TypePr', path' \in [Path -> PathType], PathShape,
         UNCHANGED <<createdDevices, dev, mg, user, cmd, retryQueue, comp, direct, rw, tm>>,
         Probes',
         \A d \in Dev : (Inside("mg", d)' <=> Inside("mg", d))
         /\ (Inside("dp", d)' <=> Inside("dp", d)),
         \A p \in Path :
           /\ path'[p].cmds = path[p].cmds /\ path'[p].ref = path[p].ref
           /\ ProbeOn("mg", p)' <=> ProbeOn("mg", p)
           /\ ProbeOn("dp", p)' <=> ProbeOn("dp", p)
  PROVE  PathsInv'
<1>1. DevShape /\ dev \in [Dev -> DevType]
  BY DEF DevShape, PathsInv, Types, TypeObj
<1>2. Drained'
  BY <1>1, PartsKept
<1>3. Opens'
  BY DEF PathsInv, Opens, One
<1>4. \A p \in Path :
           /\ path'[p].cmds = path[p].cmds
           /\ path'[p].ref = path[p].ref + One(ProbeOn("mg", p)') - One(ProbeOn("mg", p))
                               + One(ProbeOn("dp", p)') - One(ProbeOn("dp", p))
           /\ ~(path'[p].ref > path[p].ref)
  <2>1. \A p \in Path : path[p].ref \in Nat
    BY DEF PathsInv, Types, TypeObj, PathType
  <2> QED
    BY <2>1 DEF One
<1> QED
  BY <1>1, <1>2, <1>3, <1>4, ProbeStep

(* One probe takes a step. *)
LEMMA PrTyped ==
  ASSUME TypePr, NEW e \in Prober, NEW r \in PrType, pr' = [pr EXCEPT ![e] = r]
  PROVE  TypePr' /\ pr'[e] = r /\ \A o \in Prober \ {e} : pr'[o] = pr[o]
BY DEF TypePr

(* PSA begins to probe a device that it knows. *)
LEMMA DeviceProbeKept ==
  ASSUME PathsInv, NEW d \in Dev, DeviceProbe(d)
  PROVE  PathsInv'
<1>1. /\ TypePr /\ path \in [Path -> PathType] /\ pr["dp"].pc = "idle"
      /\ Alive(d) /\ dev[d].known
      /\ pr' = [pr EXCEPT !["dp"] = [pr["dp"] EXCEPT !.pc = "open", !.d = d, !.own = TRUE]]
      /\ UNCHANGED <<createdDevices, dev, path, mg, user, cmd, retryQueue, comp, direct,
                     rw, tm>>
  BY DEF PathsInv, Types, TypeObj, DeviceProbe, objVars, psaVars, cmdVars
<1>2. /\ pr'["mg"] = pr["mg"] /\ pr'["dp"].pc = "open" /\ pr'["dp"].d = d /\ pr'["dp"].own
      /\ TypePr'
  <2> DEFINE r == [pr["dp"] EXCEPT !.pc = "open", !.d = d, !.own = TRUE]
  <2>0. pr["dp"] \in PrType
    BY <1>1, PathNames DEF TypePr
  <2>1. r \in PrType /\ r.pc = "open" /\ r.d = d /\ r.own
    BY <2>0 DEF PrType, PrPc
  <2> HIDE DEF r
  <2>2. pr' = [pr EXCEPT !["dp"] = r]
    BY <1>1 DEF r
  <2>3. TypePr' /\ pr'["dp"] = r /\ \A o \in Prober \ {"dp"} : pr'[o] = pr[o]
    BY <1>1, <2>1, <2>2, PathNames, PrTyped
  <2> QED
    BY <2>1, <2>3, PathNames
<1>3. Probes'
  BY <1>1, <1>2, PathNames DEF PathsInv, Probes, Alive
<1>4. /\ \A a \in Dev : (Inside("mg", a)' <=> Inside("mg", a))
                        /\ (Inside("dp", a)' <=> Inside("dp", a))
      /\ \A p \in Path : (ProbeOn("mg", p)' <=> ProbeOn("mg", p))
                         /\ (ProbeOn("dp", p)' <=> ProbeOn("dp", p))
  BY <1>1, <1>2 DEF Inside, ProbeOn, Within, Holds
<1>5. PathShape
  BY <1>1 DEF PathShape
<1> QED
  BY <1>1, <1>2, <1>3, <1>4, <1>5, ProbeOnlyStep

(* One probe goes on, or stops. *)
LEMMA ProberStep ==
  ASSUME PathsInv, NEW e \in Prober, NEW r \in PrType, pr' = [pr EXCEPT ![e] = r],
         path' \in [Path -> PathType], dev' \in [Dev -> DevType], PathShape, DevShape,
         UNCHANGED <<createdDevices, mg, user, cmd, retryQueue, comp, direct, rw, tm>>,
         \A d \in Dev : dev'[d].busy = dev[d].busy /\ dev'[d].timer = dev[d].timer,
         pr[e].pc # "idle",
         r.pc # "idle" => r.d = pr[e].d /\ r.own,
         r.pc = "idle" => r.d = NoDev /\ ~r.own,
         r.pc \in {"tur", "dec"} => r.p \in Path,
         \A d \in Dev : dev'[d].open = dev[d].open + One(Within(r, d)) - One(Inside(e, d)),
         Drained',
         \A p \in Path :
           /\ path'[p].cmds = path[p].cmds
           /\ path'[p].ref = path[p].ref + One(Holds(r, p)) - One(ProbeOn(e, p))
           /\ path'[p].ref > path[p].ref => path[p].ex /\ path[p].d \in Dev
  PROVE  PathsInv'
<1>1. TypePr' /\ pr'[e] = r /\ \A o \in Prober \ {e} : pr'[o] = pr[o]
  <2>1. TypePr
    BY DEF PathsInv, Types
  <2> QED
    BY <2>1, PrTyped
<1>2. /\ \A a \in Dev : dev'[a].st = "live" <=> Alive(a)
      /\ pr[e].d \in Dev /\ Alive(pr[e].d)
  <2>1. pr[e].d \in Dev
    BY DEF PathsInv, Types, TypePr, PrType, Probes
  <2> QED
    BY <2>1 DEF PathsInv, Probes, DevShape, Alive
<1>3. Probes'
  <2>1. \A o \in Prober :
           /\ pr'[o].pc = "idle" <=> pr'[o].d = NoDev
           /\ pr'[o].pc = "idle" => ~pr'[o].own
           /\ pr'[o].pc # "idle" => dev'[pr'[o].d].st = "live"
           /\ pr'[o].pc \in {"tur", "dec"} => pr'[o].p \in Path
           /\ pr'[o].pc \notin {"idle", "tur"} => pr'[o].own
    <3> SUFFICES ASSUME NEW o \in Prober
                 PROVE  /\ pr'[o].pc = "idle" <=> pr'[o].d = NoDev
                        /\ pr'[o].pc = "idle" => ~pr'[o].own
                        /\ pr'[o].pc # "idle" => dev'[pr'[o].d].st = "live"
                        /\ pr'[o].pc \in {"tur", "dec"} => pr'[o].p \in Path
                        /\ pr'[o].pc \notin {"idle", "tur"} => pr'[o].own
      OBVIOUS
    <3>1. CASE o = e
      BY <1>1, <1>2, <3>1, PathNames
    <3>2. CASE o # e
      <4>1. pr'[o] = pr[o] /\ (pr[o].pc # "idle" => pr[o].d \in Dev)
        BY <1>1, <3>2 DEF PathsInv, Types, TypePr, PrType, Probes
      <4> QED
        BY <1>2, <4>1 DEF PathsInv, Probes
    <3> QED
      BY <3>1, <3>2
  <2>2. \A o \in Prober : pr'[o].pc # "idle" => pr[o].pc # "idle" /\ pr'[o].d = pr[o].d
    BY <1>1
  <2>3. pr'["mg"].pc # "idle" => mg'.pc \in {"probe", "probed"}
    BY <2>2, PathNames DEF PathsInv, Probes
  <2>4. pr'["mg"].pc = "tur" /\ ~pr'["mg"].own => path'[pr'["mg"].p].ex
    <3>1. CASE e = "mg"
      BY <1>1, <3>1
    <3>2. CASE e # "mg"
      <4>1. pr'["mg"] = pr["mg"]
        BY <1>1, <3>2, PathNames
      <4> QED
        BY <4>1, PathNames DEF PathsInv, Probes, PathShape
    <3> QED
      BY <3>1, <3>2
  <2>5. pr'["dp"].pc # "idle" => pr'["dp"].own /\ dev'[pr'["dp"].d].known
    <3>1. pr["dp"].pc # "idle" => pr["dp"].d \in Dev
      BY PathNames DEF PathsInv, Types, TypePr, PrType, Probes
    <3>2. pr'["dp"].pc # "idle" => pr'["dp"].own
      <4>1. CASE e = "dp"
        BY <1>1, <4>1
      <4>2. CASE e # "dp"
        BY <1>1, <4>2, PathNames DEF PathsInv, Probes
      <4> QED
        BY <4>1, <4>2
    <3> QED
      BY <2>2, <3>1, <3>2, PathNames DEF PathsInv, Probes, DevShape
  <2> QED
    BY <2>1, <2>3, <2>4, <2>5 DEF Probes, Alive
<1>4. \A d \in Dev : dev[d].open \in Nat /\ dev'[d].open \in Nat
  BY DEF PathsInv, Types, TypeObj, DevType
<1>5. \A p \in Path : path[p].ref \in Nat /\ path'[p].ref \in Nat
  BY DEF PathsInv, Types, TypeObj, PathType
<1>6. /\ \A d : Inside(e, d)' = Within(r, d)
      /\ \A p : ProbeOn(e, p)' = Holds(r, p)
      /\ \A o \in Prober \ {e} : /\ \A d : Inside(o, d)' = Inside(o, d)
                                 /\ \A p : ProbeOn(o, p)' = ProbeOn(o, p)
  BY <1>1 DEF Inside, ProbeOn, Within, Holds
<1>7. Opens'
  <2> SUFFICES ASSUME NEW d \in Dev
               PROVE  dev'[d].open = One(user'.pc # "out" /\ user'.d = d)
                                       + One(Inside("mg", d)') + One(Inside("dp", d)')
    BY DEF Opens
  <2>1. dev[d].open = One(user.pc # "out" /\ user.d = d) + One(Inside("mg", d))
                    + One(Inside("dp", d))
    BY DEF PathsInv, Opens
  <2>2. CASE e = "mg"
    BY <1>4, <1>6, <2>1, <2>2, PathNames DEF One
  <2>3. CASE e = "dp"
    BY <1>4, <1>6, <2>1, <2>3, PathNames DEF One
  <2> QED
    BY <2>2, <2>3, PathNames
<1>8. \A p \in Path :
           path'[p].ref = path[p].ref + One(ProbeOn("mg", p)') - One(ProbeOn("mg", p))
                               + One(ProbeOn("dp", p)') - One(ProbeOn("dp", p))
  <2>2. CASE e = "mg"
    BY <1>5, <1>6, <2>2, PathNames DEF One
  <2>3. CASE e = "dp"
    BY <1>5, <1>6, <2>3, PathNames DEF One
  <2> QED
    BY <2>2, <2>3, PathNames
<1> QED
  BY <1>1, <1>3, <1>7, <1>8, ProbeStep

(* A probe opens its device, or is told that it is being removed. *)
LEMMA ProbeOpenKept ==
  ASSUME PathsInv, NEW e \in Prober, ProbeOpen(e)
  PROVE  PathsInv'
<1> DEFINE d == pr[e].d
<1>1. /\ pr[e] \in PrType /\ path \in [Path -> PathType] /\ dev \in [Dev -> DevType]
      /\ pr[e].pc = "open"
      /\ UNCHANGED <<createdDevices, path, mg, user, cmd, retryQueue, comp, direct, rw, tm>>
  BY DEF PathsInv, Types, TypeObj, TypePr, ProbeOpen, psaVars, cmdVars
<1>2. d \in Dev /\ Alive(d) /\ pr[e].own
  BY <1>1 DEF PathsInv, Probes, PrType
<1>3. /\ \A a \in Dev : ~Inside(e, a)
      /\ \A p \in Path : ~ProbeOn(e, p)
  BY <1>1 DEF Inside, ProbeOn, Within, Holds
<1>4. PathShape /\ \A p \in Path : path[p].ref \in Nat
  BY <1>1 DEF PathShape, PathType
<1>5. CASE dev[d].removing
  <2> DEFINE r == [Stopped(e) EXCEPT !.ok = (e = "dp")]
  <2>1. pr' = [pr EXCEPT ![e] = r] /\ dev' = dev
    BY <1>5 DEF ProbeOpen
  <2>2. r \in PrType /\ r.pc = "idle" /\ r.d = NoDev /\ ~r.own
    BY <1>1 DEF Stopped, PrType, PrPc
  <2> HIDE DEF r
  <2>3. /\ \A a \in Dev : ~Within(r, a)
        /\ \A p \in Path : ~Holds(r, p)
    BY <2>2 DEF Within, Holds
  <2>4. DevShape
    BY <2>1 DEF DevShape
  <2>5. Drained'
    BY <1>1, <2>1, <2>4, PartsKept
  <2>6. \A a \in Dev : dev[a].open = dev[a].open + One(Within(r, a)) - One(Inside(e, a))
    BY <1>1, <1>3, <2>3 DEF One, DevType
  <2>7. \A p \in Path : path[p].ref = path[p].ref + One(Holds(r, p)) - One(ProbeOn(e, p))
                        /\ ~(path[p].ref > path[p].ref)
    BY <1>3, <1>4, <2>3 DEF One
  <2> QED
    BY <1>1, <1>4, <2>1, <2>2, <2>4, <2>5, <2>6, <2>7, ProberStep
<1>6. CASE ~dev[d].removing
  <2> DEFINE r == [pr[e] EXCEPT !.pc = "begin"]
  <2>1. pr' = [pr EXCEPT ![e] = r] /\ dev' = [dev EXCEPT ![d].open = @ + 1]
    BY <1>2, <1>6 DEF ProbeOpen
  <2>2. r \in PrType /\ r.pc = "begin" /\ r.d = d /\ r.own
    BY <1>1, <1>2 DEF PrType, PrPc
  <2> HIDE DEF r
  <2>3. /\ \A a \in Dev : Within(r, a) <=> a = d
        /\ \A p \in Path : ~Holds(r, p)
    BY <2>2 DEF Within, Holds
  <2>4. /\ DevShape
        /\ \A a \in Dev : /\ dev'[a].busy = dev[a].busy /\ dev'[a].timer = dev[a].timer
                          /\ dev'[a].open = dev[a].open + One(a = d)
    BY <1>1, <1>2, <2>1 DEF DevType, DevShape, One
  <2>5. dev' \in [Dev -> DevType]
    <3>1. dev[d].open + 1 \in Nat
      BY <1>1, <1>2 DEF DevType
    <3> QED
      BY <1>1, <1>2, <2>1, <3>1, DevTyped
  <2>6. dev[d].n # 0
    <3>1. ~(mg.pc = "add" /\ mg.d = d /\ ~dev[d].known)
      BY <1>1, PathNames DEF PathsInv, Probes
    <3> QED
      BY <1>2, <1>6, <3>1 DEF PathsInv, Devices
  <2>7. Drained'
    BY <1>1, <1>2, <2>4, <2>6 DEF PathsInv, Drained, DevShape, Alive, One
  <2>8. \A a \in Dev : dev'[a].open = dev[a].open + One(Within(r, a)) - One(Inside(e, a))
    BY <1>1, <1>3, <2>3, <2>4 DEF One, DevType
  <2>9. \A p \in Path : path[p].ref = path[p].ref + One(Holds(r, p)) - One(ProbeOn(e, p))
                        /\ ~(path[p].ref > path[p].ref)
    BY <1>3, <1>4, <2>3 DEF One
  <2> QED
    BY <1>1, <1>4, <2>1, <2>2, <2>4, <2>5, <2>7, <2>8, <2>9, ProberStep
<1> QED
  BY <1>5, <1>6

(* It closes the device. *)
LEMMA ProbeCloseKept ==
  ASSUME PathsInv, NEW e \in Prober, ProbeClose(e)
  PROVE  PathsInv'
<1> DEFINE d == pr[e].d
           r == Stopped(e)
<1>1. /\ pr[e] \in PrType /\ path \in [Path -> PathType] /\ dev \in [Dev -> DevType]
      /\ pr[e].pc = "close" /\ pr' = [pr EXCEPT ![e] = r]
      /\ dev' = [dev EXCEPT ![d].open = @ - 1]
      /\ UNCHANGED <<createdDevices, path, mg, user, cmd, retryQueue, comp, direct, rw, tm>>
  BY DEF PathsInv, Types, TypeObj, TypePr, ProbeClose, psaVars, cmdVars
<1>2. d \in Dev /\ Alive(d) /\ pr[e].own
  BY <1>1 DEF PathsInv, Probes, PrType
<1>3. /\ \A a \in Dev : Inside(e, a) <=> a = d
      /\ \A p \in Path : ~ProbeOn(e, p)
  BY <1>1, <1>2 DEF Inside, ProbeOn, Within, Holds
<1>4. PathShape /\ \A p \in Path : path[p].ref \in Nat
  BY <1>1 DEF PathShape, PathType
<1>5. r \in PrType /\ r.pc = "idle" /\ r.d = NoDev /\ ~r.own
  BY <1>1 DEF Stopped, PrType, PrPc
<1> HIDE DEF r
<1>6. /\ \A a \in Dev : ~Within(r, a)
      /\ \A p \in Path : ~Holds(r, p)
  BY <1>5 DEF Within, Holds
<1>7. /\ DevShape
      /\ \A a \in Dev : /\ dev'[a].busy = dev[a].busy /\ dev'[a].timer = dev[a].timer
                        /\ dev'[a].open = dev[a].open - One(a = d)
  BY <1>1, <1>2 DEF DevType, DevShape, One
<1>8. dev[d].open > 0 /\ dev[d].n # 0
  BY <1>1, <1>2, ProbeKeeps, OpenKeeps
<1>9. dev' \in [Dev -> DevType]
  <2>1. dev[d].open - 1 \in Nat
    BY <1>1, <1>2, <1>8 DEF DevType
  <2> QED
    BY <1>1, <1>2, <2>1, DevTyped
<1>10. Drained'
  BY <1>1, <1>2, <1>7, <1>8 DEF PathsInv, Drained, DevShape, Alive, One
<1>11. \A a \in Dev : dev'[a].open = dev[a].open + One(Within(r, a)) - One(Inside(e, a))
  BY <1>1, <1>3, <1>6, <1>7 DEF One, DevType
<1>12. \A p \in Path : /\ path'[p].cmds = path[p].cmds
                       /\ path'[p].ref = path[p].ref + One(Holds(r, p)) - One(ProbeOn(e, p))
                       /\ ~(path'[p].ref > path[p].ref)
  BY <1>1, <1>3, <1>4, <1>6 DEF One
<1>13. /\ path' \in [Path -> PathType] /\ pr[e].pc # "idle" /\ pr' = [pr EXCEPT ![e] = r]
       /\ UNCHANGED <<createdDevices, mg, user, cmd, retryQueue, comp, direct, rw, tm>>
  BY <1>1
<1> QED
  BY <1>4, <1>5, <1>7, <1>9, <1>10, <1>11, <1>12, <1>13, ProberStep

(* A probe takes its next path, or has seen them all. *)
LEMMA NextPathKept ==
  ASSUME PathsInv, NEW e \in Prober, NEW i \in Nat, pr[e].pc \in {"begin", "next"},
         NextPath(e, path, i),
         UNCHANGED <<createdDevices, mg, user, cmd, retryQueue, comp, direct, rw, tm>>
  PROVE  PathsInv'
<1> DEFINE d == pr[e].d
           j == Min(Used(d, i))
           q == dev[d].paths[j]
<1>1. pr[e] \in PrType /\ path \in [Path -> PathType] /\ dev \in [Dev -> DevType]
  BY DEF PathsInv, Types, TypeObj, TypePr
<1>2. d \in Dev /\ pr[e].own
  BY <1>1 DEF PathsInv, Probes, PrType
<1>3. /\ \A a \in Dev : Inside(e, a) <=> a = d
      /\ \A p \in Path : ~ProbeOn(e, p)
  BY <1>1, <1>2 DEF Inside, ProbeOn, Within, Holds
<1>4. \A p \in Path : path[p].ref \in Nat
  BY <1>1 DEF PathType
<1>5. \A b \in BOOLEAN : [dev EXCEPT ![d].probe = b] \in [Dev -> DevType]
  <2>1. \A b \in BOOLEAN : [dev[d] EXCEPT !.probe = b] \in DevType
    BY <1>1, <1>2 DEF DevType
  <2> QED
    BY <1>1, <2>1
<1>6. CASE Used(d, i) # {}
  <2>1. j \in Index /\ j \in Nat /\ q # NoPath
    <3>1. Used(d, i) \in SUBSET Nat
      BY PathNames DEF Used
    <3>2. j \in Used(d, i)
      BY <1>6, <3>1, LeastSlot
    <3> QED
      BY <3>1, <3>2 DEF Used
  <2>2. q \in Path /\ path[q].ex /\ path[q].d \in Dev
    <3> HIDE DEF j
    <3> QED
      BY <1>2, <2>1, UsedSlot
  <2> DEFINE r == [pr[e] EXCEPT !.pc = "tur", !.i = j, !.p = q]
  <2>3. /\ pr' = [pr EXCEPT ![e] = r]
        /\ path' = [path EXCEPT ![q].ref = @ + 1]
        /\ dev' = [dev EXCEPT ![d].probe = TRUE]
    BY <1>6 DEF NextPath, ExamplePathIncRefCount
  <2> HIDE DEF j
  <2>4. r \in PrType /\ r.pc = "tur" /\ r.d = d /\ r.own /\ r.p = q
    BY <1>1, <1>2, <2>1, <2>2 DEF PrType, PrPc
  <2> HIDE DEF r, q
  <2>5. /\ \A a \in Dev : Within(r, a) <=> a = d
        /\ \A p \in Path : Holds(r, p) <=> p = q
    BY <2>4 DEF Within, Holds
  <2>6. /\ DevShape /\ dev' \in [Dev -> DevType]
        /\ \A a \in Dev : /\ dev'[a].busy = dev[a].busy /\ dev'[a].timer = dev[a].timer
                          /\ dev'[a].open = dev[a].open
    <3>1. dev' = [dev EXCEPT ![d].probe = TRUE] /\ dev \in [Dev -> DevType] /\ d \in Dev
      BY <1>1, <1>2, <2>3
    <3>2. dev' \in [Dev -> DevType]
      BY <1>5, <3>1
    <3>3. DevShape
      BY <3>1 DEF DevType, DevShape
    <3>4. \A a \in Dev : /\ dev'[a].busy = dev[a].busy /\ dev'[a].timer = dev[a].timer
                         /\ dev'[a].open = dev[a].open
      BY <3>1 DEF DevType
    <3> QED
      BY <3>2, <3>3, <3>4
  <2>7. path \in [Path -> PathType] /\ q \in Path /\ path' = [path EXCEPT ![q].ref = @ + 1]
    BY <1>1, <2>2, <2>3
  <2>8. /\ path' \in [Path -> PathType] /\ PathShape
        /\ \A p \in Path : path'[p].cmds = path[p].cmds
                           /\ path'[p].ref = path[p].ref + One(p = q)
    BY ONLY <2>7, RefTaken
  <2>9. \A p \in Path : /\ path'[p].ref = path[p].ref + One(Holds(r, p)) - One(ProbeOn(e, p))
                        /\ path'[p].ref > path[p].ref => p = q
    BY <1>3, <1>4, <2>5, <2>8 DEF One
  <2>10. \A a \in Dev : dev'[a].open = dev[a].open + One(Within(r, a)) - One(Inside(e, a))
    BY <1>1, <1>3, <2>5, <2>6 DEF One, DevType
  <2>11. Drained'
    BY <2>6, PartsKept
  <2>12. pr' = [pr EXCEPT ![e] = r] /\ pr[e].pc # "idle" /\ pr[e].d = d
    BY <2>3
  <2>13. /\ r.pc # "idle" => r.d = pr[e].d /\ r.own
         /\ r.pc = "idle" => r.d = NoDev /\ ~r.own
         /\ r.pc \in {"tur", "dec"} => r.p \in Path
    BY ONLY <2>2, <2>4, <2>12
  <2>14. \A p \in Path : /\ path'[p].cmds = path[p].cmds
                         /\ path'[p].ref = path[p].ref + One(Holds(r, p)) - One(ProbeOn(e, p))
                         /\ path'[p].ref > path[p].ref => path[p].ex /\ path[p].d \in Dev
    BY ONLY <2>2, <2>8, <2>9
  <2>15. UNCHANGED <<createdDevices, mg, user, cmd, retryQueue, comp, direct, rw, tm>>
    OBVIOUS
  <2> QED
    BY ONLY PathsInv, e \in Prober, <2>4, <2>6, <2>8, <2>10, <2>11, <2>12, <2>13, <2>14,
            <2>15, ProberStep
<1>7. CASE Used(d, i) = {}
  <2> DEFINE r == [pr[e] EXCEPT !.pc = "close", !.p = NoPath]
  <2>1. /\ pr' = [pr EXCEPT ![e] = r] /\ path' = path
        /\ dev' = [dev EXCEPT ![d].probe = FALSE]
    BY <1>7 DEF NextPath
  <2>2. r \in PrType /\ r.pc = "close" /\ r.d = d /\ r.own
    BY <1>1, <1>2 DEF PrType, PrPc
  <2> HIDE DEF r
  <2>3. /\ \A a \in Dev : Within(r, a) <=> a = d
        /\ \A p \in Path : ~Holds(r, p)
    BY <2>2 DEF Within, Holds
  <2>4. /\ DevShape /\ dev' \in [Dev -> DevType]
        /\ \A a \in Dev : /\ dev'[a].busy = dev[a].busy /\ dev'[a].timer = dev[a].timer
                          /\ dev'[a].open = dev[a].open
    <3>1. dev' = [dev EXCEPT ![d].probe = FALSE] /\ dev \in [Dev -> DevType] /\ d \in Dev
      BY <1>1, <1>2, <2>1
    <3>2. dev' \in [Dev -> DevType]
      BY <1>5, <3>1
    <3>3. DevShape
      BY <3>1 DEF DevType, DevShape
    <3>4. \A a \in Dev : /\ dev'[a].busy = dev[a].busy /\ dev'[a].timer = dev[a].timer
                         /\ dev'[a].open = dev[a].open
      BY <3>1 DEF DevType
    <3> QED
      BY <3>2, <3>3, <3>4
  <2>5. /\ PathShape /\ path' \in [Path -> PathType]
        /\ \A p \in Path : path'[p].cmds = path[p].cmds
    BY <1>1, <2>1 DEF PathShape
  <2>6. \A p \in Path : /\ path'[p].ref = path[p].ref + One(Holds(r, p)) - One(ProbeOn(e, p))
                        /\ ~(path'[p].ref > path[p].ref)
    BY <1>3, <1>4, <2>1, <2>3 DEF One
  <2>7. \A a \in Dev : dev'[a].open = dev[a].open + One(Within(r, a)) - One(Inside(e, a))
    BY <1>1, <1>3, <2>3, <2>4 DEF One, DevType
  <2>8. Drained'
    BY <2>4, PartsKept
  <2>9. pr' = [pr EXCEPT ![e] = r]
    BY <2>1
  <2> QED
    BY <2>2, <2>4, <2>5, <2>6, <2>7, <2>8, <2>9, ProberStep
<1> QED
  BY <1>6, <1>7

(* A probe that leaves the counts of its device and of its path alone. *)
LEMMA ProberOnly ==
  ASSUME PathsInv, NEW e \in Prober, NEW r \in PrType, pr' = [pr EXCEPT ![e] = r],
         path' \in [Path -> PathType], PathShape,
         UNCHANGED <<createdDevices, dev, mg, user, cmd, retryQueue, comp, direct, rw, tm>>,
         pr[e].pc # "idle",
         r.pc # "idle" => r.d = pr[e].d /\ r.own,
         r.pc = "idle" => r.d = NoDev /\ ~r.own,
         r.pc \in {"tur", "dec"} => r.p \in Path,
         \A d \in Dev : Within(r, d) <=> Inside(e, d),
         \A p \in Path : /\ path'[p].cmds = path[p].cmds /\ path'[p].ref = path[p].ref
                         /\ Holds(r, p) <=> ProbeOn(e, p)
  PROVE  PathsInv'
<1>1. DevShape /\ dev' \in [Dev -> DevType]
  BY DEF DevShape, PathsInv, Types, TypeObj
<1>2. Drained'
  BY <1>1, PartsKept
<1>3. \A d \in Dev : dev'[d].open = dev[d].open + One(Within(r, d)) - One(Inside(e, d))
  <2>1. \A d \in Dev : dev[d].open \in Nat
    BY DEF PathsInv, Types, TypeObj, DevType
  <2> QED
    BY <2>1 DEF One
<1>4. \A p \in Path :
           /\ path'[p].ref = path[p].ref + One(Holds(r, p)) - One(ProbeOn(e, p))
           /\ ~(path'[p].ref > path[p].ref)
  <2>1. \A p \in Path : path[p].ref \in Nat
    BY DEF PathsInv, Types, TypeObj, PathType
  <2> QED
    BY <2>1 DEF One
<1> QED
  BY <1>1, <1>2, <1>3, <1>4, ProberStep

(* A probe begins, unless another one is at it. *)
LEMMA ProbeBeginKept ==
  ASSUME PathsInv, NEW e \in Prober, ProbeBegin(e)
  PROVE  PathsInv'
<1> DEFINE d == pr[e].d
<1>1. /\ pr[e] \in PrType /\ path \in [Path -> PathType] /\ pr[e].pc = "begin"
      /\ UNCHANGED <<createdDevices, mg, user, cmd, retryQueue, comp, direct, rw, tm>>
  BY DEF PathsInv, Types, TypeObj, TypePr, ProbeBegin, psaVars, cmdVars
<1>2. CASE dev[d].probe
  <2> DEFINE r == [pr[e] EXCEPT !.pc = "close", !.ok = (e = "dp")]
  <2>1. pr' = [pr EXCEPT ![e] = r] /\ UNCHANGED <<dev, path>>
    BY <1>2 DEF ProbeBegin
  <2>2. pr[e].own
    BY <1>1 DEF PathsInv, Probes
  <2>3. r \in PrType /\ r.pc = "close" /\ r.d = d /\ r.own
    BY <1>1, <2>2 DEF PrType, PrPc
  <2> HIDE DEF r
  <2>4. /\ \A a \in Dev : Within(r, a) <=> Inside(e, a)
        /\ \A p \in Path : Holds(r, p) <=> ProbeOn(e, p)
    BY <1>1, <2>2, <2>3 DEF Within, Holds, Inside, ProbeOn
  <2>5. PathShape
    BY <2>1 DEF PathShape
  <2> QED
    BY <1>1, <2>1, <2>3, <2>4, <2>5, ProberOnly
<1>3. CASE ~dev[d].probe
  <2>1. NextPath(e, path, 0)
    BY <1>3 DEF ProbeBegin
  <2> QED
    BY <1>1, <2>1, NextPathKept
<1> QED
  BY <1>2, <1>3

(* It goes on to the next path. *)
LEMMA ProbeNextKept ==
  ASSUME PathsInv, NEW e \in Prober, ProbeNext(e)
  PROVE  PathsInv'
<1>1. /\ pr[e] \in PrType /\ pr[e].pc = "next" /\ NextPath(e, path, pr[e].i + 1)
      /\ UNCHANGED <<createdDevices, mg, user, cmd, retryQueue, comp, direct, rw, tm>>
  BY DEF PathsInv, Types, TypePr, ProbeNext, psaVars, cmdVars
<1>2. pr[e].i + 1 \in Nat
  BY <1>1 DEF PrType
<1> QED
  BY <1>1, <1>2, NextPathKept

(* The path answers; the probe of a path may become one of its device. *)
LEMMA UpdateKept ==
  ASSUME PathsInv, NEW e \in Prober, NEW s \in Answer, NEW pdl \in BOOLEAN,
         ExampleUpdatePathState(e, s, pdl)
  PROVE  PathsInv'
<1> DEFINE p == pr[e].p
           d == pr[e].d
           r == CASE pr[e].own -> [pr[e] EXCEPT !.pc = "dec"]
                  [] ~pr[e].own /\ pdl /\ path[p].state # "off" /\ dev[d].reg ->
                       [pr[e] EXCEPT !.pc = "open", !.own = TRUE, !.p = NoPath]
                  [] OTHER -> Stopped(e)
<1>1. /\ pr[e] \in PrType /\ path \in [Path -> PathType] /\ pr[e].pc = "tur"
      /\ UNCHANGED <<createdDevices, dev, mg, user, cmd, retryQueue, comp, direct, rw, tm>>
      /\ pr' = [pr EXCEPT ![e] = r]
      /\ path' = [path EXCEPT ![p].state = IF @ = "off" THEN "off" ELSE s]
  BY DEF PathsInv, Types, TypeObj, TypePr, ExampleUpdatePathState, psaVars, cmdVars
<1>2. p \in Path /\ s \in {"on", "standby", "dead"}
  BY <1>1, PathsAssumption DEF PathsInv, Probes
<1>3. /\ r \in PrType
      /\ pr[e].own => r.pc = "dec" /\ r.d = d /\ r.own /\ r.p = p
      /\ ~pr[e].own => \/ r.pc = "idle" /\ r.d = NoDev /\ ~r.own
                       \/ r.pc = "open" /\ r.d = d /\ r.own
  <2>1. [pr[e] EXCEPT !.pc = "dec"] \in PrType
    BY <1>1 DEF PrType, PrPc
  <2>2. [pr[e] EXCEPT !.pc = "open", !.own = TRUE, !.p = NoPath] \in PrType
    BY <1>1 DEF PrType, PrPc
  <2>3. Stopped(e) \in PrType
    BY <1>1 DEF Stopped, PrType, PrPc
  <2>4. CASE pr[e].own
    BY <1>1, <2>1, <2>4 DEF PrType
  <2>5. CASE ~pr[e].own /\ pdl /\ path[p].state # "off" /\ dev[d].reg
    BY <1>1, <2>2, <2>5 DEF PrType
  <2>6. CASE ~pr[e].own /\ ~(pdl /\ path[p].state # "off" /\ dev[d].reg)
    BY <1>1, <2>3, <2>6 DEF PrType, Stopped
  <2> QED
    BY <2>4, <2>5, <2>6
<1> HIDE DEF r
<1>4. /\ \A a \in Dev : Within(r, a) <=> Inside(e, a)
      /\ \A q \in Path : Holds(r, q) <=> ProbeOn(e, q)
  BY <1>1, <1>3 DEF Within, Holds, Inside, ProbeOn
<1>5. path' \in [Path -> PathType]
  BY <1>1, <1>2 DEF PathType
<1>6. /\ PathShape
      /\ \A q \in Path : path'[q].cmds = path[q].cmds /\ path'[q].ref = path[q].ref
  BY <1>1, <1>2 DEF PathShape, PathType
<1>7. /\ pr' = [pr EXCEPT ![e] = r] /\ pr[e].pc # "idle"
      /\ UNCHANGED <<createdDevices, dev, mg, user, cmd, retryQueue, comp, direct, rw, tm>>
  BY <1>1
<1> QED
  BY <1>2, <1>3, <1>4, <1>5, <1>6, <1>7, ProberOnly

(* There is no memory for the probe. *)
LEMMA NoMemoryKept ==
  ASSUME PathsInv, NEW e \in Prober, ProbeNoMemory(e)
  PROVE  PathsInv'
<1> DEFINE p == pr[e].p
           d == pr[e].d
           r == IF pr[e].own THEN [pr[e] EXCEPT !.pc = "dec", !.ok = (e = "dp")] ELSE Stopped(e)
<1>1. /\ pr[e] \in PrType /\ path \in [Path -> PathType] /\ pr[e].pc = "tur"
      /\ UNCHANGED <<createdDevices, dev, path, mg, user, cmd, retryQueue, comp, direct,
                     rw, tm>>
      /\ pr' = [pr EXCEPT ![e] = r]
  BY DEF PathsInv, Types, TypeObj, TypePr, ProbeNoMemory, objVars, psaVars, cmdVars
<1>2. p \in Path
  BY <1>1 DEF PathsInv, Probes
<1>3. /\ r \in PrType
      /\ pr[e].own => r.pc = "dec" /\ r.d = d /\ r.own /\ r.p = p
      /\ ~pr[e].own => r.pc = "idle" /\ r.d = NoDev /\ ~r.own
  BY <1>1 DEF PrType, PrPc, Stopped
<1> HIDE DEF r
<1>4. /\ \A a \in Dev : Within(r, a) <=> Inside(e, a)
      /\ \A q \in Path : Holds(r, q) <=> ProbeOn(e, q)
  BY <1>1, <1>3 DEF Within, Holds, Inside, ProbeOn
<1>5. PathShape
  BY <1>1 DEF PathShape
<1> QED
  BY <1>1, <1>2, <1>3, <1>4, <1>5, ProberOnly

(* The probe drops its path. *)
LEMMA ProbeDropKept ==
  ASSUME PathsInv, NEW e \in Prober, ProbeDrop(e)
  PROVE  PathsInv'
<1> DEFINE q == pr[e].p
           r == [pr[e] EXCEPT !.pc = "next"]
<1>1. /\ pr[e] \in PrType /\ path \in [Path -> PathType] /\ pr[e].pc = "dec"
      /\ UNCHANGED <<createdDevices, dev, mg, user, cmd, retryQueue, comp, direct, rw, tm>>
      /\ pr' = [pr EXCEPT ![e] = r] /\ path' = [path EXCEPT ![q].ref = @ - 1]
  BY DEF PathsInv, Types, TypeObj, TypePr, ProbeDrop, ExamplePathDecRefCount, psaVars,
         cmdVars
<1>2. q \in Path /\ pr[e].own /\ pr[e].d \in Dev
  BY <1>1 DEF PathsInv, Probes, PrType
<1>3. path[q].ref > 0
  <2>1. ProbeOn(e, q)
    BY <1>1, <1>2 DEF ProbeOn, Holds
  <2> QED
    BY <1>2, <2>1, RefHeld, PathNames
<1>4. r \in PrType /\ r.pc = "next" /\ r.d = pr[e].d /\ r.own
  BY <1>1, <1>2 DEF PrType, PrPc
<1> HIDE DEF r
<1>5. /\ \A a \in Dev : Within(r, a) <=> Inside(e, a)
      /\ \A p \in Path : ~Holds(r, p)
      /\ \A p \in Path : ProbeOn(e, p) <=> p = q
  BY <1>1, <1>2, <1>4 DEF Within, Holds, Inside, ProbeOn
<1>6. path' \in [Path -> PathType]
  <2>1. path[q].ref - 1 \in Nat
    BY <1>1, <1>2, <1>3 DEF PathType
  <2>2. [path[q] EXCEPT !.ref = path[q].ref - 1] \in PathType
    BY <1>1, <1>2, <2>1 DEF PathType
  <2> QED
    BY <1>1, <2>2
<1>7. /\ PathShape
      /\ \A p \in Path : path'[p].cmds = path[p].cmds /\ path'[p].ref = path[p].ref - One(p = q)
  BY <1>1, <1>2 DEF PathShape, PathType, One
<1>8. \A p \in Path : /\ path'[p].ref = path[p].ref + One(Holds(r, p)) - One(ProbeOn(e, p))
                      /\ ~(path'[p].ref > path[p].ref)
  <2>1. \A p \in Path : path[p].ref \in Nat
    BY <1>1 DEF PathType
  <2> QED
    BY <1>5, <1>7, <2>1 DEF One
<1>9. \A a \in Dev : dev'[a].open = dev[a].open + One(Within(r, a)) - One(Inside(e, a))
  <2>1. \A a \in Dev : dev[a].open \in Nat /\ dev' = dev
    BY <1>1 DEF PathsInv, Types, TypeObj, DevType
  <2> QED
    BY <1>5, <2>1 DEF One
<1>10. DevShape /\ dev' \in [Dev -> DevType]
  BY <1>1 DEF DevShape, PathsInv, Types, TypeObj
<1>11. Drained'
  BY <1>1, <1>10, PartsKept
<1>12. /\ pr' = [pr EXCEPT ![e] = r] /\ pr[e].pc # "idle"
       /\ UNCHANGED <<createdDevices, dev, mg, user, cmd, retryQueue, comp, direct, rw, tm>>
  BY <1>1
<1> QED
  BY <1>4, <1>6, <1>7, <1>8, <1>9, <1>10, <1>11, <1>12, ProberStep
-----------------------------------------------------------------------------
(* The path operation where it has no path out of its slot, has emptied no *)
(* device and adds no path.                                                *)
Calm == {"idle", "end", "probed", "flag", "probe", "remove", "update"}

(* What it leaves of the slots when it goes from one of these to another. *)
LEMMA CalmStep ==
  ASSUME PathsInv, TypeMg', TypePr', dev' \in [Dev -> DevType], path' \in [Path -> PathType],
         mg.pc \in Calm, mg'.pc \in Calm, PathShape,
         UNCHANGED <<createdDevices, user, cmd, retryQueue, comp, direct, rw, tm>>,
         \A d \in Dev :
           /\ dev'[d].st = dev[d].st /\ dev'[d].paths = dev[d].paths /\ dev'[d].n = dev[d].n
           /\ dev'[d].active = dev[d].active /\ dev'[d].removing = dev[d].removing
           /\ dev'[d].open = dev[d].open /\ dev'[d].busy = dev[d].busy
           /\ dev'[d].timer = dev[d].timer
           /\ dev'[d].known /\ ~dev'[d].reg => mg'.pc = "flag" /\ mg'.d = d
           /\ dev'[d].known => Alive(d),
         \A p \in Path :
           /\ path'[p].cmds = path[p].cmds /\ path'[p].ref = path[p].ref
           /\ ProbeOn("mg", p)' <=> ProbeOn("mg", p)
           /\ ProbeOn("dp", p)' <=> ProbeOn("dp", p),
         \A d \in Dev : /\ Inside("mg", d)' <=> Inside("mg", d)
                        /\ Inside("dp", d)' <=> Inside("dp", d),
         Management', Probes'
  PROVE  PathsInv'
<1>1. /\ \A d \in Dev : /\ Alive(d)' = Alive(d) /\ Active(d)' = Active(d)
                        /\ Used(d, 0)' = Used(d, 0) /\ ~Emptied(d) /\ ~Emptied(d)'
      /\ \A p : ~Out(p) /\ ~Out(p)'
  BY DEF Alive, Emptied, Active, Used, Out, Calm
<1>2. dev \in [Dev -> DevType] /\ path \in [Path -> PathType]
      /\ createdDevices \in [0..(maxDevices - 1) -> Dev \cup {NoDev}]
  BY DEF PathsInv, Types, TypeObj
<1>3. Slots'
  <2>1. SlotOwner'
    <3> SUFFICES ASSUME NEW d \in Dev, NEW i \in Index, dev'[d].paths[i] # NoPath
                 PROVE  (/\ path[dev[d].paths[i]].ex /\ path[dev[d].paths[i]].d = d
                         /\ Alive(d) /\ ~Out(dev[d].paths[i]))'
      BY <1>1 DEF SlotOwner
    <3>1. dev[d].paths[i] \in Path /\ dev'[d].paths[i] = dev[d].paths[i]
      BY <1>2 DEF DevType
    <3> QED
      BY <1>1, <3>1 DEF PathsInv, Slots, SlotOwner, PathShape
  <2>2. SlotOnce'
    BY DEF PathsInv, Slots, SlotOnce
  <2>3. SlotOf'
    BY <1>1 DEF PathsInv, Slots, SlotOf, PathShape
  <2>4. SlotCount' /\ SlotActive'
    BY <1>1 DEF PathsInv, Slots, SlotCount, SlotActive
  <2> QED
    BY <2>1, <2>2, <2>3, <2>4 DEF Slots
<1>4. Devices'
  BY <1>1 DEF PathsInv, Devices, Calm
<1>5. Created'
  BY <1>1, <1>2 DEF PathsInv, Created
<1>6. Drained'
  BY <1>1 DEF PathsInv, Drained, Calm
<1>7. Opens'
  BY DEF PathsInv, Opens, One
<1>8. Counts'
  <2>1. \A p : FlightOn(p)' = FlightOn(p) /\ CompOn(p)' = CompOn(p)
    BY DEF FlightOn, CompOn
  <2> QED
    BY <2>1 DEF PathsInv, Counts, One
<1>9. Refs'
  BY <1>2, RefsKept
<1>10. Types'
  BY TypesKept
<1>11. Busy' /\ Users' /\ Commands' /\ World'
  BY PartsKept
<1> QED
  BY <1>3, <1>4, <1>5, <1>6, <1>7, <1>8, <1>9, <1>10, <1>11 DEF PathsInv

(* ... and the probes are where they were, PSA's one of a path at rest. *)
LEMMA CalmOnly ==
  ASSUME PathsInv, TypeMg', TypePr', dev' \in [Dev -> DevType],
         mg.pc \in Calm, mg'.pc \in Calm, pr["mg"].pc = "idle",
         UNCHANGED <<createdDevices, path, user, cmd, retryQueue, comp, direct, rw, tm>>,
         \A e \in Prober : /\ pr'[e].pc = pr[e].pc /\ pr'[e].p = pr[e].p
                           /\ pr'[e].d = pr[e].d /\ pr'[e].own = pr[e].own,
         \A d \in Dev :
           /\ dev'[d].st = dev[d].st /\ dev'[d].paths = dev[d].paths /\ dev'[d].n = dev[d].n
           /\ dev'[d].active = dev[d].active /\ dev'[d].removing = dev[d].removing
           /\ dev'[d].open = dev[d].open /\ dev'[d].busy = dev[d].busy
           /\ dev'[d].timer = dev[d].timer
           /\ dev'[d].known /\ ~dev'[d].reg => mg'.pc = "flag" /\ mg'.d = d
           /\ dev'[d].known => Alive(d)
           /\ dev[d].known => dev'[d].known,
         Management'
  PROVE  PathsInv'
<1>1. PathShape /\ path' \in [Path -> PathType]
  BY DEF PathShape, PathsInv, Types, TypeObj
<1>2. \A e \in Prober : /\ \A d : Inside(e, d)' <=> Inside(e, d)
                        /\ \A p : ProbeOn(e, p)' <=> ProbeOn(e, p)
  BY DEF Inside, ProbeOn, Within, Holds
<1>3. Probes'
  <2>1. \A e \in Prober : pr[e].pc # "idle" => pr[e].d \in Dev
    BY DEF PathsInv, Types, TypePr, PrType, Probes
  <2>2. \A e \in Prober :
           /\ pr'[e].pc = "idle" <=> pr'[e].d = NoDev
           /\ pr'[e].pc = "idle" => ~pr'[e].own
           /\ pr'[e].pc # "idle" => dev'[pr'[e].d].st = "live"
           /\ pr'[e].pc \in {"tur", "dec"} => pr'[e].p \in Path
           /\ pr'[e].pc \notin {"idle", "tur"} => pr'[e].own
    BY <2>1 DEF PathsInv, Probes, Alive
  <2>3. pr'["dp"].pc # "idle" => pr'["dp"].own /\ dev'[pr'["dp"].d].known
    BY <2>1, PathNames DEF PathsInv, Probes
  <2> QED
    BY <2>2, <2>3, PathNames DEF Probes, Alive
<1> QED
  BY <1>1, <1>2, <1>3, PathNames, CalmStep

(* What the path operation finds of its own and of PSA's probe. *)
LEMMA CalmFacts ==
  ASSUME PathsInv
  PROVE  /\ TypeMg /\ TypePr /\ dev \in [Dev -> DevType]
         /\ \A d \in Dev : dev[d].known => Alive(d)
         /\ \A d \in Dev : dev[d].known /\ ~dev[d].reg => mg.pc = "flag" /\ mg.d = d
         /\ mg.pc \notin {"probe", "probed"} => pr["mg"].pc = "idle"
BY DEF PathsInv, Types, TypeObj, Devices, Probes

(* The next device of ExamplePathClaimEnd. *)
LEMMA EndNext ==
  ASSUME NEW m \in MgType
  PROVE  LET x == [m EXCEPT !.pc = "end", !.d = NoDev, !.i = @ + 1]
         IN  x \in MgType /\ x.pc = "end" /\ x.p = m.p
<1>1. m.i + 1 \in Nat
  BY DEF MgType
<1>2. \A k \in Nat : [m EXCEPT !.pc = "end", !.d = NoDev, !.i = k] \in MgType
  BY DEF MgType, MgPc
<1> QED
  BY <1>1, <1>2 DEF MgType

(* PSA has no more paths, and the devices are seen to. *)
LEMMA EndKept ==
  ASSUME PathsInv, ExamplePathClaimEnd \/ EndDone \/ EndNoMemory
  PROVE  PathsInv'
<1>0. TypeMg /\ TypePr /\ dev \in [Dev -> DevType]
  BY CalmFacts
<1>1. /\ UNCHANGED <<createdDevices, dev, path, pr, user, cmd, retryQueue, comp, direct,
                     rw, tm>>
      /\ mg.pc \in {"idle", "end"}
  BY DEF ExamplePathClaimEnd, EndDone, EndNoMemory, objVars, psaVars, cmdVars
<1>2. TypeMg' /\ mg'.p = mg.p /\ mg'.pc \in {"idle", "end"}
  <2>1. CASE ExamplePathClaimEnd
    BY <1>0, <2>1 DEF ExamplePathClaimEnd, TypeMg, MgType, MgPc
  <2>2. CASE EndDone
    BY <1>0, <2>2 DEF EndDone, TypeMg, MgType, MgPc
  <2>3. CASE EndNoMemory
    <3>1. Due # {} /\ mg' = [mg EXCEPT !.i = Min(Due) + 1] /\ mg.pc = "end"
      BY <2>3 DEF EndNoMemory
    <3>2. Due \in SUBSET Nat
      BY <1>0 DEF Due, TypeMg, MgType
    <3>3. Min(Due) + 1 \in Nat
      BY <3>1, <3>2, LeastSlot
    <3> QED
      BY <1>0, <3>1, <3>3 DEF TypeMg, MgType
  <2> QED
    BY <2>1, <2>2, <2>3
<1>3. mg.p = NoPath
  BY <1>1 DEF PathsInv, Management
<1>4. Management'
  BY <1>2, <1>3 DEF Management
<1>5. mg.pc \in Calm /\ mg'.pc \in Calm /\ pr["mg"].pc = "idle"
  BY <1>1, <1>2, CalmFacts DEF Calm
<1>6. \A d \in Dev : /\ dev'[d].known /\ ~dev'[d].reg => mg'.pc = "flag" /\ mg'.d = d
                     /\ dev'[d].known => Alive(d)
  BY <1>1, CalmFacts
<1>7. TypePr' /\ dev' \in [Dev -> DevType]
  BY <1>0, <1>1 DEF TypePr
<1> QED
  BY <1>1, <1>2, <1>4, <1>5, <1>6, <1>7, CalmOnly

(* A device that is to be probed is one that was made. *)
LEMMA EndProbeKept ==
  ASSUME PathsInv, EndProbe
  PROVE  PathsInv'
<1> DEFINE k == Min(Due)
           d == createdDevices[k]
           r == [pr["mg"] EXCEPT !.pc = "open", !.d = d, !.own = TRUE]
<1>1. /\ UNCHANGED <<createdDevices, path, user, cmd, retryQueue, comp, direct, rw, tm>>
      /\ mg.pc = "end" /\ Due # {}
      /\ dev' = [dev EXCEPT ![d].update = FALSE]
      /\ mg'  = [mg EXCEPT !.pc = "probed", !.i = k, !.d = d]
      /\ pr'  = [pr EXCEPT !["mg"] = r]
  BY DEF EndProbe, psaVars, cmdVars
<1>2. k \in Due /\ k \in Nat
  <2>1. Due \in SUBSET Nat
    BY CalmFacts DEF Due, TypeMg, MgType
  <2> QED
    BY <1>1, <2>1, LeastSlot
<1>3. d \in Dev /\ Alive(d)
  <2>1. mg.i \in Nat /\ maxDevices \in Nat
        /\ createdDevices \in [0..(maxDevices - 1) -> Dev \cup {NoDev}]
    BY CalmFacts, PathsAssumption DEF TypeMg, MgType, PathsInv, Types, TypeObj
  <2>2. \A j \in Due : j \in mg.i..(maxDevices - 1) /\ createdDevices[j] # NoDev
    BY ONLY DEF Due
  <2>3. k \in mg.i..(maxDevices - 1) /\ createdDevices[k] # NoDev
    BY <1>2, <2>2
  <2> HIDE DEF k
  <2>4. k \in 0..(maxDevices - 1) /\ createdDevices[k] # NoDev
    BY ONLY <2>1, <2>3
  <2> QED
    BY <2>1, <2>4 DEF PathsInv, Created
<1> HIDE DEF k, d
<1>4. /\ TypeMg' /\ mg'.pc = "probed" /\ mg'.p = mg.p /\ mg'.d = d
  BY <1>1, <1>2, <1>3, CalmFacts DEF TypeMg, MgType, MgPc
<1>5. dev' \in [Dev -> DevType]
  <2>1. dev \in [Dev -> DevType]
    BY CalmFacts
  <2> QED
    BY <1>1, <1>3, <2>1, FlagTyped
<1>6. \A a \in Dev :
        /\ dev'[a].st = dev[a].st /\ dev'[a].paths = dev[a].paths /\ dev'[a].n = dev[a].n
        /\ dev'[a].active = dev[a].active /\ dev'[a].removing = dev[a].removing
        /\ dev'[a].open = dev[a].open /\ dev'[a].busy = dev[a].busy
        /\ dev'[a].timer = dev[a].timer /\ dev'[a].known = dev[a].known
        /\ dev'[a].reg = dev[a].reg
  BY <1>1, <1>3, CalmFacts DEF DevType
<1>7. r \in PrType /\ r.pc = "open" /\ r.d = d /\ r.own
  <2>1. pr["mg"] \in PrType
    BY CalmFacts, PathNames DEF TypePr
  <2> QED
    BY <1>3, <2>1 DEF PrType, PrPc
<1> HIDE DEF r
<1>8. TypePr' /\ pr'["mg"] = r /\ pr'["dp"] = pr["dp"] /\ pr["mg"].pc = "idle"
  <2>1. TypePr' /\ pr'["mg"] = r /\ \A o \in Prober \ {"mg"} : pr'[o] = pr[o]
    BY <1>1, <1>7, CalmFacts, PathNames, PrTyped
  <2> QED
    BY <1>1, <2>1, CalmFacts, PathNames
<1>9. Management'
  <2>1. mg.p = NoPath
    BY <1>1 DEF PathsInv, Management
  <2>2. dev'[d].st = "live"
    BY <1>3, <1>6 DEF Alive
  <2> QED
    BY <1>3, <1>4, <2>1, <2>2 DEF Management, Alive
<1>10. Probes'
  <2>1. pr["dp"].pc # "idle" => pr["dp"].d \in Dev
    BY PathNames DEF PathsInv, Types, TypePr, PrType, Probes
  <2> QED
    BY <1>3, <1>4, <1>6, <1>7, <1>8, <2>1, PathNames DEF PathsInv, Probes, Alive
<1>11. /\ \A p : (ProbeOn("mg", p)' <=> ProbeOn("mg", p))
          /\ (ProbeOn("dp", p)' <=> ProbeOn("dp", p))
       /\ \A a : (Inside("mg", a)' <=> Inside("mg", a))
          /\ (Inside("dp", a)' <=> Inside("dp", a))
  BY <1>7, <1>8 DEF Inside, ProbeOn, Within, Holds
<1>12. /\ PathShape /\ path' \in [Path -> PathType]
       /\ \A p \in Path : path'[p].cmds = path[p].cmds /\ path'[p].ref = path[p].ref
       /\ mg.pc \in Calm /\ mg'.pc \in Calm
       /\ UNCHANGED <<createdDevices, user, cmd, retryQueue, comp, direct, rw, tm>>
  BY <1>1, <1>4 DEF PathShape, PathsInv, Types, TypeObj, Calm
<1>13. \A a \in Dev : /\ dev'[a].known /\ ~dev'[a].reg => mg'.pc = "flag" /\ mg'.d = a
                      /\ dev'[a].known => Alive(a)
  BY <1>1, <1>6, CalmFacts
<1> QED
  BY <1>4, <1>5, <1>6, <1>8, <1>9, <1>10, <1>11, <1>12, <1>13, CalmStep

(* A new device is registered, or not. *)
LEMMA EndRegisterKept ==
  ASSUME PathsInv, EndRegister
  PROVE  PathsInv'
<1>1. /\ UNCHANGED <<createdDevices, path, user, cmd, retryQueue, comp, direct, rw, tm>>
      /\ mg.pc = "probed" /\ pr["mg"].pc = "idle" /\ pr' = [pr EXCEPT !["mg"].ok = TRUE]
  BY DEF EndRegister, psaVars, cmdVars
<1>2. mg.p = NoPath /\ mg.d \in Dev /\ Alive(mg.d) /\ mg.i \in Nat
  BY <1>1, CalmFacts DEF PathsInv, Management, TypeMg, MgType
<1>3. TypePr' /\ \A e \in Prober : /\ pr'[e].pc = pr[e].pc /\ pr'[e].p = pr[e].p
                                   /\ pr'[e].d = pr[e].d /\ pr'[e].own = pr[e].own
  BY <1>1, CalmFacts, PathNames, ZenonT(60) DEF TypePr, PrType
<1>4. CASE dev' = dev
  <2>1. mg'.pc \in {"end", "idle"} /\ mg'.p = mg.p /\ TypeMg'
    <3>1. \/ mg' = [mg EXCEPT !.pc = "end", !.d = NoDev, !.i = @ + 1]
          \/ mg' = [mg EXCEPT !.pc = "idle", !.d = NoDev, !.i = 0]
          \/ dev[mg.d].reg # TRUE /\ dev' = [dev EXCEPT ![mg.d].known = TRUE]
      BY DEF EndRegister
    <3>2. CASE dev[mg.d].reg # TRUE /\ dev' = [dev EXCEPT ![mg.d].known = TRUE]
      BY <1>1, <1>2, <1>4, <3>2, CalmFacts, ZenonT(60) DEF DevType
    <3>3. TypeMg
      BY CalmFacts
    <3>4. CASE mg' = [mg EXCEPT !.pc = "end", !.d = NoDev, !.i = @ + 1]
      BY <3>3, <3>4, EndNext DEF TypeMg
    <3>5. CASE mg' = [mg EXCEPT !.pc = "idle", !.d = NoDev, !.i = 0]
      BY <1>2, <3>3, <3>5 DEF TypeMg, MgType, MgPc
    <3> QED
      BY <3>1, <3>2, <3>4, <3>5
  <2>2. Management'
    BY <1>2, <2>1 DEF Management
  <2> QED
    BY <1>1, <1>3, <1>4, <2>1, <2>2, CalmFacts, CalmOnly DEF Calm
<1>5. CASE ~dev[mg.d].reg /\ dev' = [dev EXCEPT ![mg.d].known = TRUE]
           /\ mg' = [mg EXCEPT !.pc = "flag"]
  <2>1. mg'.pc = "flag" /\ mg'.p = mg.p /\ mg'.d = mg.d /\ TypeMg'
    BY <1>5, CalmFacts DEF TypeMg, MgType, MgPc
  <2>2. dev' \in [Dev -> DevType]
    <3>1. dev \in [Dev -> DevType]
      BY CalmFacts
    <3> QED
      BY <1>2, <1>5, <3>1, FlagTyped
  <2>3. \A a \in Dev :
        /\ dev'[a].st = dev[a].st /\ dev'[a].paths = dev[a].paths /\ dev'[a].n = dev[a].n
        /\ dev'[a].active = dev[a].active /\ dev'[a].removing = dev[a].removing
        /\ dev'[a].open = dev[a].open /\ dev'[a].busy = dev[a].busy
        /\ dev'[a].timer = dev[a].timer /\ dev'[a].known = (dev[a].known \/ a = mg.d)
        /\ dev'[a].reg = dev[a].reg
    <3>1. /\ dev \in [Dev -> DevType] /\ mg.d \in Dev
          /\ dev' = [dev EXCEPT ![mg.d].known = TRUE]
      BY <1>2, <1>5, CalmFacts
    <3> QED
      BY <3>1, ZenonT(60) DEF DevType
  <2>4. Management'
    BY <1>2, <2>1, <2>3 DEF Management, Alive
  <2>5. \A a \in Dev : /\ dev'[a].known /\ ~dev'[a].reg => mg'.pc = "flag" /\ mg'.d = a
                       /\ dev'[a].known => Alive(a)
                       /\ dev[a].known => dev'[a].known
    BY <1>1, <1>2, <2>1, <2>3, CalmFacts, ZenonT(60)
  <2> QED
    BY <1>1, <1>3, <2>1, <2>2, <2>3, <2>4, <2>5, CalmOnly DEF Calm
<1> QED
  BY <1>4, <1>5 DEF EndRegister

(* PSA may open a registered device; then it is marked so. *)
LEMMA EndFlagKept ==
  ASSUME PathsInv, EndFlag
  PROVE  PathsInv'
<1>0. TypeMg /\ TypePr /\ dev \in [Dev -> DevType]
  BY CalmFacts
<1>1. /\ UNCHANGED <<createdDevices, path, pr, user, cmd, retryQueue, comp, direct, rw, tm>>
      /\ mg.pc = "flag" /\ dev' = [dev EXCEPT ![mg.d].reg = TRUE]
      /\ mg' = [mg EXCEPT !.pc = "end", !.d = NoDev, !.i = @ + 1]
  BY DEF EndFlag, psaVars, cmdVars
<1>2. mg.p = NoPath /\ mg.d \in Dev
  BY <1>1 DEF PathsInv, Management
<1>3. TypeMg' /\ mg'.pc = "end" /\ mg'.p = mg.p
  BY <1>0, <1>1, EndNext DEF TypeMg
<1>4. Management'
  BY <1>2, <1>3 DEF Management
<1>5. TypePr' /\ dev' \in [Dev -> DevType]
  BY <1>0, <1>1, <1>2, FlagTyped DEF TypePr
<1>6. \A a \in Dev :
        /\ dev'[a].st = dev[a].st /\ dev'[a].paths = dev[a].paths /\ dev'[a].n = dev[a].n
        /\ dev'[a].active = dev[a].active /\ dev'[a].removing = dev[a].removing
        /\ dev'[a].open = dev[a].open /\ dev'[a].busy = dev[a].busy
        /\ dev'[a].timer = dev[a].timer /\ dev'[a].known = dev[a].known
        /\ dev'[a].reg = (dev[a].reg \/ a = mg.d)
  <2>1. /\ dev \in [Dev -> DevType] /\ mg.d \in Dev
        /\ dev' = [dev EXCEPT ![mg.d].reg = TRUE]
    BY <1>0, <1>1, <1>2
  <2> QED
    BY <2>1, ZenonT(60) DEF DevType
<1>7. mg.pc \in Calm /\ mg'.pc \in Calm /\ pr["mg"].pc = "idle"
  BY <1>1, <1>3, CalmFacts DEF Calm
<1>8. \A d \in Dev : /\ dev'[d].known /\ ~dev'[d].reg => mg'.pc = "flag" /\ mg'.d = d
                     /\ dev'[d].known => Alive(d)
  BY <1>6, CalmFacts
<1>9. \A e \in Prober : /\ pr'[e].pc = pr[e].pc /\ pr'[e].p = pr[e].p
                        /\ pr'[e].d = pr[e].d /\ pr'[e].own = pr[e].own
  BY <1>1
<1>10. UNCHANGED <<createdDevices, path, user, cmd, retryQueue, comp, direct, rw, tm>>
  BY <1>1
<1> QED
  BY <1>3, <1>4, <1>5, <1>6, <1>7, <1>8, <1>9, <1>10, CalmOnly

(* A new path of a device that is in use asks for a probe. *)
LEMMA ClaimUpdateKept ==
  ASSUME PathsInv, ClaimUpdate
  PROVE  PathsInv'
<1>0. TypeMg /\ TypePr /\ dev \in [Dev -> DevType]
  BY CalmFacts
<1> DEFINE b == dev[mg.d].update \/ dev[mg.d].reg
<1>1. /\ UNCHANGED <<createdDevices, path, pr, user, cmd, retryQueue, comp, direct, rw, tm>>
      /\ mg.pc = "update" /\ dev' = [dev EXCEPT ![mg.d].update = b]
      /\ mg' = [mg EXCEPT !.pc = "idle", !.p = NoPath, !.d = NoDev]
  BY DEF ClaimUpdate, psaVars, cmdVars
<1>2. mg.d \in Dev
  BY <1>1 DEF PathsInv, Management
<1>3. TypeMg' /\ mg'.pc = "idle" /\ mg'.p = NoPath
  BY <1>0, <1>1 DEF TypeMg, MgType, MgPc
<1>4. Management'
  BY <1>3 DEF Management
<1>5. TypePr' /\ dev' \in [Dev -> DevType]
  <2>1. b \in BOOLEAN
    OBVIOUS
  <2> QED
    BY <1>0, <1>1, <1>2, <2>1, FlagTyped DEF TypePr
<1>6. \A a \in Dev :
        /\ dev'[a].st = dev[a].st /\ dev'[a].paths = dev[a].paths /\ dev'[a].n = dev[a].n
        /\ dev'[a].active = dev[a].active /\ dev'[a].removing = dev[a].removing
        /\ dev'[a].open = dev[a].open /\ dev'[a].busy = dev[a].busy
        /\ dev'[a].timer = dev[a].timer /\ dev'[a].known = dev[a].known
        /\ dev'[a].reg = dev[a].reg
  <2> HIDE DEF b
  <2>1. /\ dev \in [Dev -> DevType] /\ mg.d \in Dev
        /\ dev' = [dev EXCEPT ![mg.d].update = b]
    BY <1>0, <1>1, <1>2
  <2> QED
    BY <2>1 DEF DevType
<1>7. mg.pc \in Calm /\ mg'.pc \in Calm /\ pr["mg"].pc = "idle"
  BY <1>1, <1>3, CalmFacts DEF Calm
<1>8. \A d \in Dev : /\ dev'[d].known /\ ~dev'[d].reg => mg'.pc = "flag" /\ mg'.d = d
                     /\ dev'[d].known => Alive(d)
  BY <1>1, <1>6, CalmFacts
<1>9. \A e \in Prober : /\ pr'[e].pc = pr[e].pc /\ pr'[e].p = pr[e].p
                        /\ pr'[e].d = pr[e].d /\ pr'[e].own = pr[e].own
  BY <1>1
<1>10. UNCHANGED <<createdDevices, path, user, cmd, retryQueue, comp, direct, rw, tm>>
  BY <1>1
<1> QED
  BY <1>3, <1>4, <1>5, <1>6, <1>7, <1>8, <1>9, <1>10, CalmOnly

(* The probe of a path is done. *)
LEMMA PathProbedKept ==
  ASSUME PathsInv, PathProbed
  PROVE  PathsInv'
<1>0. TypeMg /\ TypePr /\ dev \in [Dev -> DevType]
  BY CalmFacts
<1>1. /\ UNCHANGED <<createdDevices, dev, path, user, cmd, retryQueue, comp, direct, rw, tm>>
      /\ mg.pc = "probe" /\ pr["mg"].pc = "idle" /\ pr' = [pr EXCEPT !["mg"].ok = TRUE]
      /\ mg' = [mg EXCEPT !.pc = "idle"]
  BY DEF PathProbed, objVars, psaVars, cmdVars
<1>2. mg.p = NoPath
  BY <1>1 DEF PathsInv, Management
<1>3. TypeMg' /\ mg'.pc = "idle" /\ mg'.p = mg.p
  BY <1>0, <1>1 DEF TypeMg, MgType, MgPc
<1>4. Management'
  BY <1>2, <1>3 DEF Management
<1>5. TypePr' /\ \A e \in Prober : /\ pr'[e].pc = pr[e].pc /\ pr'[e].p = pr[e].p
                                   /\ pr'[e].d = pr[e].d /\ pr'[e].own = pr[e].own
  BY <1>0, <1>1, PathNames, ZenonT(60) DEF TypePr, PrType
<1>6. mg.pc \in Calm /\ mg'.pc \in Calm
  BY <1>1, <1>3 DEF Calm
<1>7. \A d \in Dev : /\ dev'[d].known /\ ~dev'[d].reg => mg'.pc = "flag" /\ mg'.d = d
                     /\ dev'[d].known => Alive(d)
  BY <1>1, CalmFacts
<1> QED
  BY <1>0, <1>1, <1>3, <1>4, <1>5, <1>6, <1>7, CalmOnly

(* PSA probes a path, or an administrator turns it on or off. *)
LEMMA ProbePathKept ==
  ASSUME PathsInv, NEW q \in Path,
         ProbePath(q) \/ ExamplePathSetState(q, "on") \/ ExamplePathSetState(q, "off")
  PROVE  PathsInv'
<1>0. TypeMg /\ TypePr /\ dev \in [Dev -> DevType] /\ path \in [Path -> PathType]
  BY CalmFacts DEF PathsInv, Types, TypeObj
<1> DEFINE r == [pr["mg"] EXCEPT !.pc = "tur", !.p = q, !.d = path[q].d]
<1>1. /\ UNCHANGED <<createdDevices, dev, user, cmd, retryQueue, comp, direct, rw, tm>>
      /\ path[q].ex /\ mg.pc = "idle" /\ mg' = [mg EXCEPT !.pc = "probe"]
      /\ pr' = [pr EXCEPT !["mg"] = r]
  BY DEF ProbePath, ExamplePathSetState, AtRest, objVars, psaVars, cmdVars
<1>2. /\ path' \in [Path -> PathType] /\ PathShape
      /\ \A p \in Path : path'[p].cmds = path[p].cmds /\ path'[p].ref = path[p].ref
  <2>1. path' = path \/
        \E s \in {"on", "standby", "dead", "off"} : path' = [path EXCEPT ![q].state = s]
    <3>1. path[q].state \in {"on", "standby", "dead", "off"}
      BY <1>0 DEF PathType
    <3> QED
      BY <3>1 DEF ProbePath, ExamplePathSetState, objVars
  <2> QED
    BY <1>0, <2>1 DEF PathType, PathShape
<1>3. mg.p = NoPath /\ pr["mg"].pc = "idle"
  BY <1>1, CalmFacts DEF PathsInv, Management
<1>4. path[q].d \in Dev /\ Alive(path[q].d)
  <2>1. ~Out(q)
    BY <1>1 DEF Out
  <2>2. path[q].d \in Dev /\ \E i \in Index : dev[path[q].d].paths[i] = q
    BY <1>1, <2>1 DEF PathsInv, Slots, SlotOf
  <2> QED
    BY <2>2, UsedSlot, PathNames
<1>5. TypeMg' /\ mg'.pc = "probe" /\ mg'.p = mg.p
  BY <1>0, <1>1 DEF TypeMg, MgType, MgPc
<1>6. r \in PrType /\ r.pc = "tur" /\ r.p = q /\ r.d = path[q].d /\ r.own = pr["mg"].own
  <2>1. pr["mg"] \in PrType
    BY <1>0, PathNames DEF TypePr
  <2> QED
    BY <1>4, <2>1 DEF PrType, PrPc
<1> HIDE DEF r
<1>7. TypePr' /\ pr'["mg"] = r /\ pr'["dp"] = pr["dp"]
  <2>1. TypePr' /\ pr'["mg"] = r /\ \A o \in Prober \ {"mg"} : pr'[o] = pr[o]
    BY <1>0, <1>1, <1>6, PathNames, PrTyped
  <2> QED
    BY <2>1, PathNames
<1>8. ~pr["mg"].own
  BY <1>3, PathNames DEF PathsInv, Probes
<1>9. Management'
  BY <1>3, <1>5 DEF Management
<1>10. Probes'
  BY <1>0, <1>1, <1>2, <1>4, <1>5, <1>6, <1>7, PathNames DEF PathsInv, Probes, Alive, PathShape
<1>11. /\ \A p : (ProbeOn("mg", p)' <=> ProbeOn("mg", p))
          /\ (ProbeOn("dp", p)' <=> ProbeOn("dp", p))
       /\ \A a : (Inside("mg", a)' <=> Inside("mg", a))
          /\ (Inside("dp", a)' <=> Inside("dp", a))
  BY <1>3, <1>6, <1>7, <1>8 DEF Inside, ProbeOn, Within, Holds
<1>12. \A a \in Dev : /\ dev'[a].known /\ ~dev'[a].reg => mg'.pc = "flag" /\ mg'.d = a
                      /\ dev'[a].known => Alive(a)
  BY <1>1, CalmFacts
<1>13. mg.pc \in Calm /\ mg'.pc \in Calm
  BY <1>1, <1>5 DEF Calm
<1> QED
  BY <1>0, <1>1, <1>2, <1>5, <1>7, <1>9, <1>10, <1>11, <1>12, <1>13, CalmStep

(* PSA wants a path back. *)
LEMMA UnclaimKept ==
  ASSUME PathsInv, NEW q \in Path, ExampleUnclaimPath(q)
  PROVE  PathsInv'
<1>0. TypeMg /\ TypePr /\ dev \in [Dev -> DevType]
  BY CalmFacts
<1> DEFINE d == path[q].d
           w == HasMoreWorkingPaths(q)
<1>1. /\ UNCHANGED <<createdDevices, dev, path, pr, user, cmd, retryQueue, comp, direct,
                     rw, tm>>
      /\ mg.pc = "idle" /\ path[q].ex
      /\ mg' = mg \/ mg' = [mg EXCEPT !.pc = "remove", !.p = q, !.d = d, !.working = w]
  BY DEF ExampleUnclaimPath, AtRest, objVars, psaVars, cmdVars
<1>2. d \in Dev /\ Alive(d)
  <2>1. ~Out(q)
    BY <1>1 DEF Out
  <2>2. path[q].d \in Dev /\ \E i \in Index : dev[path[q].d].paths[i] = q
    BY <1>1, <2>1 DEF PathsInv, Slots, SlotOf
  <2> QED
    BY <2>2, UsedSlot, PathNames
<1>3. w \in BOOLEAN /\ (w => dev[d].n # 1)
  BY DEF HasMoreWorkingPaths
<1> HIDE DEF d, w
<1>4. /\ TypeMg' /\ mg'.pc \in {"idle", "remove"}
      /\ mg'.pc = "idle" => mg'.p = mg.p
      /\ mg'.pc = "remove" => mg'.p = q /\ mg'.d = d /\ mg'.working = w
  <2>1. CASE mg' = mg
    BY <1>0, <1>1, <2>1 DEF TypeMg
  <2>2. CASE mg' = [mg EXCEPT !.pc = "remove", !.p = q, !.d = d, !.working = w]
    <3>1. mg \in MgType
      BY <1>0 DEF TypeMg
    <3> QED
      BY <1>2, <1>3, <2>2, <3>1 DEF TypeMg, MgType, MgPc
  <2> QED
    BY <1>1, <2>1, <2>2
<1>5. Management'
  <2>1. mg.p = NoPath /\ path' = path /\ dev' = dev /\ path[q].ex
    BY <1>1 DEF PathsInv, Management
  <2>2. path[q].d = d
    BY DEF d
  <2> QED
    BY <1>2, <1>3, <1>4, <2>1, <2>2 DEF Management, Alive
<1>6. mg.pc \in Calm /\ mg'.pc \in Calm /\ pr["mg"].pc = "idle"
  BY <1>1, <1>4, CalmFacts DEF Calm
<1>7. \A a \in Dev : /\ dev'[a].known /\ ~dev'[a].reg => mg'.pc = "flag" /\ mg'.d = a
                     /\ dev'[a].known => Alive(a)
  BY <1>1, CalmFacts
<1>8. TypePr' /\ dev' \in [Dev -> DevType]
  BY <1>0, <1>1 DEF TypePr
<1>9. UNCHANGED <<createdDevices, dev, path, pr, user, cmd, retryQueue, comp, direct, rw, tm>>
  BY <1>1
<1> QED
  BY <1>4, <1>5, <1>6, <1>7, <1>8, <1>9, CalmOnly

(* The path operation changes slots, and nobody's counts. *)
LEMMA SlotStep ==
  ASSUME PathsInv, TypeMg', dev' \in [Dev -> DevType], path' \in [Path -> PathType],
         createdDevices' \in [0..(maxDevices - 1) -> Dev \cup {NoDev}],
         UNCHANGED <<pr, user, cmd, retryQueue, comp, direct, rw, tm>>,
         mg.pc \notin {"probe", "probed"},
         \A d \in Dev :
           /\ dev'[d].open = dev[d].open /\ dev'[d].busy = dev[d].busy
           /\ dev'[d].timer = dev[d].timer
           /\ pr["dp"].d = d => dev'[d].st = dev[d].st /\ dev'[d].known = dev[d].known,
         \A p \in Path :
           /\ path'[p].cmds = path[p].cmds /\ path'[p].ref = path[p].ref
           /\ path[p].ref > 0 => path'[p].ex /\ path'[p].d \in Dev,
         Slots', Devices', Drained', Created', Management'
  PROVE  PathsInv'
<1>1. Types'
  BY TypesKept
<1>2. pr["mg"].pc = "idle"
  BY CalmFacts
<1>3. Probes'
  <2>1. pr["dp"].pc # "idle" => pr["dp"].d \in Dev
    BY PathNames DEF PathsInv, Types, TypePr, PrType, Probes
  <2> QED
    BY <1>2, <2>1, PathNames DEF PathsInv, Probes, Alive
<1>4. Refs'
  BY DEF Refs
<1>5. Opens' /\ Busy' /\ Users' /\ Commands' /\ World' /\ Counts'
  BY PartsKept
<1> QED
  BY <1>1, <1>3, <1>4, <1>5 DEF PathsInv

(* The last path of an open device stays. *)
LEMMA RefusedKept ==
  ASSUME PathsInv, mg.pc = "remove", mg' = Refused,
         UNCHANGED <<createdDevices, dev, path, pr, user, cmd, retryQueue, comp, direct,
                     rw, tm>>
  PROVE  PathsInv'
<1>0. mg \in MgType /\ TypePr /\ dev \in [Dev -> DevType]
  BY CalmFacts DEF TypeMg
<1>1. TypeMg' /\ mg'.pc = "idle" /\ mg'.p = NoPath
  BY <1>0 DEF Refused, TypeMg, MgType, MgPc
<1>2. Management'
  BY <1>1 DEF Management
<1>3. mg.pc \in Calm /\ mg'.pc \in Calm /\ pr["mg"].pc = "idle"
  BY <1>1, CalmFacts DEF Calm
<1>4. \A a \in Dev : /\ dev'[a].known /\ ~dev'[a].reg => mg'.pc = "flag" /\ mg'.d = a
                     /\ dev'[a].known => Alive(a)
  BY CalmFacts
<1>5. TypePr' /\ dev' \in [Dev -> DevType]
  BY <1>0 DEF TypePr
<1> QED
  BY <1>1, <1>2, <1>3, <1>4, <1>5, CalmOnly

(* The used slots of a device. *)
UsedOf(f) == {j \in Index : j >= 0 /\ f[j] # NoPath}

(* How many there are, when one of them changes. *)
LEMMA SlotCounts ==
  ASSUME NEW f, NEW g, NEW i \in Index, \A j \in Index \ {i} : f[j] = g[j]
  PROVE  /\ Cardinality(UsedOf(f)) \in Nat
         /\ f[i] # NoPath /\ g[i] = NoPath
              => Cardinality(UsedOf(g)) = Cardinality(UsedOf(f)) - 1
         /\ f[i] = NoPath /\ g[i] # NoPath
              => Cardinality(UsedOf(g)) = Cardinality(UsedOf(f)) + 1
         /\ Cardinality(UsedOf(f)) = 0 <=> UsedOf(f) = {}
         /\ Cardinality(UsedOf(g)) = 0 <=> UsedOf(g) = {}
<1>0. IsFiniteSet(Index) /\ Index \in SUBSET Nat
  BY PathNames
<1>1. /\ UsedOf(f) \in SUBSET Index /\ UsedOf(g) \in SUBSET Index
      /\ \A j \in Index : j # i => (j \in UsedOf(f) <=> j \in UsedOf(g))
      /\ i \in UsedOf(f) <=> f[i] # NoPath
      /\ i \in UsedOf(g) <=> g[i] # NoPath
  BY <1>0 DEF UsedOf
<1>2. Moved(i, UsedOf(f), UsedOf(g))
  <2>1. IsFiniteSet(Index)
    BY <1>0
  <2> QED
    BY <1>1, <2>1, CountMove
<1>3. (Cardinality(UsedOf(f)) = 0 <=> UsedOf(f) = {})
      /\ (Cardinality(UsedOf(g)) = 0 <=> UsedOf(g) = {})
  BY <1>0, <1>1, CountZero
<1> QED
  BY <1>1, <1>2, <1>3 DEF Moved

(* A path leaves its slot. *)
LEMMA RemoveKept ==
  ASSUME PathsInv, UnclaimRemove
  PROVE  PathsInv'
<1> DEFINE d == mg.d
           q == mg.p
           i == CHOOSE j \in Index : dev[d].paths[j] = q
           act == IF i = dev[d].active THEN ExampleGetFailoverPathIndex(d) ELSE dev[d].active
<1>0. /\ mg \in MgType /\ dev \in [Dev -> DevType] /\ path \in [Path -> PathType]
      /\ createdDevices \in [0..(maxDevices - 1) -> Dev \cup {NoDev}]
  BY CalmFacts DEF TypeMg, PathsInv, Types, TypeObj
<1>1. /\ UNCHANGED <<createdDevices, path, pr, user, cmd, retryQueue, comp, direct, rw, tm>>
      /\ mg.pc = "remove"
  BY DEF UnclaimRemove, psaVars, cmdVars
<1>2. CASE dev[d].open > 0 /\ ~mg.working
  <2>1. mg' = Refused /\ dev' = dev
    BY <1>2 DEF UnclaimRemove
  <2> QED
    BY <1>1, <2>1, RefusedKept
<1>3. CASE ~(dev[d].open > 0 /\ ~mg.working)
  <2>1. /\ q \in Path /\ path[q].ex /\ path[q].d = d /\ d \in Dev /\ Alive(d)
        /\ mg.working => dev[d].n # 1
    BY <1>1 DEF PathsInv, Management
  <2>2. i \in Index /\ dev[d].paths[i] = q
    <3>1. ~Out(q)
      BY <1>1 DEF Out
    <3>2. \E j \in Index : dev[d].paths[j] = q
      BY <2>1, <3>1 DEF PathsInv, Slots, SlotOf
    <3> QED
      BY <3>2
  <2>3. /\ dev' = Removed(q, d)
        /\ mg' = [mg EXCEPT !.pc = IF dev[d].n = 1 THEN "drain" ELSE "wait"]
    BY <1>3 DEF UnclaimRemove
  <2>4. dev' = [dev EXCEPT ![d].active = act, ![d].paths[i] = NoPath, ![d].n = @ - 1,
                           ![d].removing = (dev[d].n = 1)]
    BY <2>3 DEF Removed
  <2>5. act \in Index
    BY <1>0, <2>1, FailoverIndex DEF DevType
  <2> HIDE DEF i, act
  <2>6. dev[d] \in DevType /\ dev[d].n \in Nat /\ dev[d].paths \in [Index -> Path \cup {NoPath}]
        /\ dev[d].active \in Index
    BY <1>0, <2>1 DEF DevType
  <2>7. /\ dev[d].n # 0
        /\ [dev[d].paths EXCEPT ![i] = NoPath] \in [Index -> Path \cup {NoPath}]
    <3>1. i \in Used(d, 0)
      BY <2>1, <2>2, PathNames DEF Used
    <3>2. Used(d, 0) \in SUBSET Index
      BY DEF Used
    <3>3. dev[d].n = Cardinality(Used(d, 0))
      BY <2>1 DEF PathsInv, Slots, SlotCount
    <3> QED
      BY <2>6, <3>1, <3>2, <3>3, CountZero, PathNames
  <2> DEFINE x == [dev[d] EXCEPT !.active = act, !.paths = [@ EXCEPT ![i] = NoPath],
      !.n = @ - 1,
                                 !.removing = (dev[d].n = 1)]
  <2>8. x \in DevType
    <3>1. dev[d].n - 1 \in Nat /\ (dev[d].n = 1) \in BOOLEAN
      BY <2>6, <2>7
    <3>2. \A f \in [Index -> Path \cup {NoPath}], k \in Nat, b \in BOOLEAN :
             [dev[d] EXCEPT !.active = act, !.paths = f, !.n = k, !.removing = b] \in DevType
      BY <2>5, <2>6 DEF DevType
    <3> QED
      BY <2>7, <3>1, <3>2
  <2>9. /\ x.st = dev[d].st /\ x.open = dev[d].open /\ x.busy = dev[d].busy
        /\ x.timer = dev[d].timer /\ x.known = dev[d].known /\ x.reg = dev[d].reg
        /\ x.active = act /\ x.n = dev[d].n - 1 /\ x.removing = (dev[d].n = 1)
        /\ x.paths = [dev[d].paths EXCEPT ![i] = NoPath]
    BY <2>6 DEF DevType
  <2>10. dev' = [dev EXCEPT ![d] = x]
    BY <1>0, <2>1, <2>4, ZenonT(60)
  <2> HIDE DEF x
  <2>11. /\ dev' \in [Dev -> DevType] /\ dev'[d] = x
         /\ \A a \in Dev \ {d} : dev'[a] = dev[a]
    BY <1>0, <2>1, <2>8, <2>10
  <2>12. /\ TypeMg' /\ mg'.p = q /\ mg'.d = d
         /\ mg'.pc = IF dev[d].n = 1 THEN "drain" ELSE "wait"
    BY <1>0, <2>3 DEF TypeMg, MgType, MgPc
  <2>13. /\ \A a \in Dev : Alive(a)' = Alive(a)
         /\ \A p \in Path : ~Out(p) /\ (Out(p)' <=> p = q)
         /\ \A a \in Dev : ~Emptied(a) /\ (Emptied(a)' <=> a = d /\ dev[d].n = 1)
    BY <1>1, <2>9, <2>11, <2>12 DEF Alive, Out, Emptied
  <2>14. /\ \A j \in Index : x.paths[j] = IF j = i THEN NoPath ELSE dev[d].paths[j]
    BY <2>2, <2>6, <2>9
  <2>15. \A j \in Index : dev[d].paths[j] = q => j = i
    BY <2>1, <2>2, PathNames DEF PathsInv, Slots, SlotOnce
  <2>16. \A a \in Dev, j \in Index :
            /\ dev'[a].paths[j] # NoPath => dev'[a].paths[j] = dev[a].paths[j]
            /\ dev'[a].paths[j] # q
    <3> SUFFICES ASSUME NEW a \in Dev, NEW j \in Index
                 PROVE  /\ dev'[a].paths[j] # NoPath => dev'[a].paths[j] = dev[a].paths[j]
                        /\ dev'[a].paths[j] # q
      OBVIOUS
    <3>1. CASE a = d
      BY <2>1, <2>11, <2>14, <2>15, <3>1, PathNames
    <3>2. CASE a # d
      <4>1. dev'[a] = dev[a]
        BY <2>11, <3>2
      <4>2. dev[a].paths[j] # q
        BY <2>1, <3>2, UsedSlot, PathNames
      <4> QED
        BY <4>1, <4>2
    <3> QED
      BY <3>1, <3>2
  <2>17. SlotOwner'
    <3> SUFFICES ASSUME NEW a \in Dev, NEW j \in Index, dev'[a].paths[j] # NoPath
                 PROVE  (/\ path[dev[a].paths[j]].ex /\ path[dev[a].paths[j]].d = a
                         /\ Alive(a) /\ ~Out(dev[a].paths[j]))'
      BY DEF SlotOwner
    <3>1. /\ dev'[a].paths[j] = dev[a].paths[j] /\ dev[a].paths[j] # NoPath
          /\ dev'[a].paths[j] # q
      BY <2>16
    <3>2. ~Out(dev[a].paths[j])'
      BY <2>12, <3>1 DEF Out
    <3> QED
      BY <1>1, <2>13, <3>1, <3>2, UsedSlot
  <2>18. SlotOnce'
    BY <2>16 DEF PathsInv, Slots, SlotOnce
  <2>19. SlotOf'
    <3> SUFFICES ASSUME NEW p \in Path, path[p].ex, p # q
                 PROVE  path[p].d \in Dev /\ \E j \in Index : dev'[path[p].d].paths[j] = p
      BY <1>1, <2>13 DEF SlotOf
    <3>1. path[p].d \in Dev
      BY <2>13 DEF PathsInv, Slots, SlotOf
    <3>2. PICK j \in Index : dev[path[p].d].paths[j] = p
      BY <2>13 DEF PathsInv, Slots, SlotOf
    <3>3. dev'[path[p].d].paths[j] = p
      BY <2>2, <2>11, <2>14, <3>1, <3>2
    <3> QED
      BY <3>1, <3>3
  <2>20. /\ Cardinality(UsedOf(x.paths)) = dev[d].n - 1
         /\ (dev[d].n - 1 = 0) <=> UsedOf(x.paths) = {}
    <3>1. dev[d].n = Cardinality(UsedOf(dev[d].paths))
      BY <2>1 DEF PathsInv, Slots, SlotCount, Used, UsedOf
    <3>2. dev[d].paths[i] # NoPath /\ x.paths[i] = NoPath
          /\ \A j \in Index \ {i} : dev[d].paths[j] = x.paths[j]
      BY <2>1, <2>2, <2>14, PathNames
    <3> DEFINE f == dev[d].paths
               g == x.paths
    <3>3. /\ dev[d].n = Cardinality(UsedOf(f)) /\ f[i] # NoPath /\ g[i] = NoPath
          /\ \A j \in Index \ {i} : f[j] = g[j]
      BY <3>1, <3>2
    <3> HIDE DEF f, g
    <3>4. /\ Cardinality(UsedOf(g)) = Cardinality(UsedOf(f)) - 1
          /\ Cardinality(UsedOf(g)) = 0 <=> UsedOf(g) = {}
      BY <2>2, <3>3, SlotCounts
    <3>5. Cardinality(UsedOf(g)) = dev[d].n - 1 /\ (dev[d].n - 1 = 0 <=> UsedOf(g) = {})
      BY <3>3, <3>4
    <3> QED
      BY <3>5 DEF g
  <2>21. SlotCount'
    <3> SUFFICES ASSUME NEW a \in Dev
                 PROVE  dev'[a].n = Cardinality(UsedOf(dev'[a].paths))
      BY DEF SlotCount, Used, UsedOf
    <3>1. CASE a = d
      BY <2>9, <2>11, <2>20, <3>1
    <3>2. CASE a # d
      BY <2>11, <3>2 DEF PathsInv, Slots, SlotCount, Used, UsedOf
    <3> QED
      BY <3>1, <3>2
  <2>22. SlotActive'
    <3>1. \A a \in Dev \ {d} : dev'[a].n # 0 => Active(a)' # NoPath
      BY <2>11 DEF PathsInv, Slots, SlotActive, Active
    <3>2. ASSUME dev[d].n - 1 # 0 PROVE x.paths[act] # NoPath
      <4>1. CASE i # dev[d].active
        <5>1. act = dev[d].active /\ dev[d].paths[dev[d].active] # NoPath
          BY <2>1, <2>7, <4>1 DEF act, PathsInv, Slots, SlotActive, Active
        <5> QED
          BY <2>6, <2>14, <4>1, <5>1
      <4>2. CASE i = dev[d].active
        <5>1. PICK k \in Index : x.paths[k] # NoPath
          BY <2>20, <3>2 DEF UsedOf
        <5>2. k # dev[d].active /\ dev[d].paths[k] # NoPath
          BY <2>14, <4>2, <5>1
        <5>3. act = ExampleGetFailoverPathIndex(d)
          BY <4>2 DEF act
        <5>4. act # dev[d].active /\ dev[d].paths[act] # NoPath
          BY <2>1, <5>2, <5>3, FailoverIndex
        <5> QED
          BY <2>5, <2>14, <4>2, <5>4
      <4> QED
        BY <4>1, <4>2
    <3>3. dev'[d].n # 0 => Active(d)' # NoPath
      <4>1. dev'[d].n = dev[d].n - 1 /\ dev'[d].paths = x.paths /\ dev'[d].active = act
        BY <2>9, <2>11
      <4>2. Active(d)' = x.paths[act]
        BY <2>12, <4>1 DEF Active
      <4> QED
        BY <3>2, <4>1, <4>2
    <3> QED
      BY <2>12, <3>1, <3>3 DEF SlotActive
  <2>23. Devices'
    <3>1. \A a \in Dev \ {d} : Alive(a) => dev[a].n # 0
      BY <1>1, <2>13 DEF PathsInv, Devices
    <3>2. \A a \in Dev : ~dev[a].removing /\ ~(dev[a].known /\ ~dev[a].reg)
      BY <1>1, <2>13 DEF PathsInv, Devices
    <3>3. \A a \in Dev : ~Alive(a) => dev[a].n = 0 /\ ~dev[a].known
      BY DEF PathsInv, Devices
    <3>4. dev'[d].n = dev[d].n - 1 /\ dev'[d].removing = (dev[d].n = 1)
          /\ dev'[d].known = dev[d].known /\ dev'[d].reg = dev[d].reg
      BY <2>9, <2>11
    <3> SUFFICES ASSUME NEW a \in Dev
                 PROVE  /\ Alive(a)' /\ dev'[a].n = 0 => Emptied(a)'
                        /\ dev'[a].removing <=> Emptied(a)'
                        /\ Emptied(a)' => dev'[a].n = 0
                        /\ ~(dev'[a].known /\ ~dev'[a].reg)
                        /\ ~Alive(a)' => dev'[a].n = 0 /\ ~dev'[a].known
      BY DEF Devices
    <3>5. CASE a = d
      <4>1. dev'[a].n = dev[a].n - 1 /\ dev[a].n \in Nat /\ dev[a].n # 0
        BY <2>6, <2>7, <3>4, <3>5
      <4>2. Emptied(a)' <=> dev[a].n = 1
        BY <2>13, <3>5
      <4>3. Alive(a)' /\ ~(dev'[a].known /\ ~dev'[a].reg)
        BY <2>1, <2>13, <3>2, <3>4, <3>5
      <4>4. dev'[a].removing <=> dev[a].n = 1
        BY <3>4, <3>5
      <4>5. dev'[a].n = 0 <=> dev[a].n = 1
        BY <4>1
      <4> QED
        BY <4>2, <4>3, <4>4, <4>5
    <3>6. CASE a # d
      BY <2>11, <2>13, <3>1, <3>2, <3>3, <3>6
    <3> QED
      BY <3>5, <3>6
  <2>24. Drained'
    <3>1. dev[d].n = 1 => dev[d].open = 0
      <4>1. dev[d].open \in Nat
        BY <2>6 DEF DevType
      <4> QED
        BY <1>3, <2>1, <4>1
    <3>2. mg'.pc # "destroy"
      BY <2>12
    <3> QED
      BY <2>1, <2>6, <2>9, <2>11, <2>13, <3>1, <3>2 DEF PathsInv, Drained
  <2>25. Created'
    BY <1>0, <1>1, <2>13 DEF PathsInv, Created
  <2>26. Management'
    BY <1>1, <2>1, <2>9, <2>11, <2>12 DEF Management, Alive
  <2>27. \A a \in Dev :
           /\ dev'[a].open = dev[a].open /\ dev'[a].busy = dev[a].busy
           /\ dev'[a].timer = dev[a].timer
           /\ dev'[a].st = dev[a].st /\ dev'[a].known = dev[a].known
    BY <2>9, <2>11
  <2>28. \A p \in Path :
           /\ path'[p].cmds = path[p].cmds /\ path'[p].ref = path[p].ref
           /\ path[p].ref > 0 => path'[p].ex /\ path'[p].d \in Dev
    BY <1>1 DEF PathsInv, Refs
  <2>29. /\ path' \in [Path -> PathType] /\ mg.pc \notin {"probe", "probed"}
         /\ createdDevices' \in [0..(maxDevices - 1) -> Dev \cup {NoDev}]
         /\ UNCHANGED <<pr, user, cmd, retryQueue, comp, direct, rw, tm>>
    BY <1>0, <1>1
  <2>30. Slots'
    BY <2>17, <2>18, <2>19, <2>21, <2>22 DEF Slots
  <2>31. TypeMg' /\ dev' \in [Dev -> DevType]
    BY <2>11, <2>12
  <2> QED
    BY <2>23, <2>24, <2>25, <2>26, <2>27, <2>28, <2>29, <2>30, <2>31, SlotStep
<1> QED
  BY <1>2, <1>3

(* A step of the module, or of nobody. *)
LEMMA SameKept ==
  ASSUME PathsInv,
         UNCHANGED <<createdDevices, dev, path, mg, pr, user, cmd, retryQueue, comp, direct, rw,
                     tm>>
  PROVE  PathsInv'
<1>1. DevShape /\ PathShape
  BY DEF DevShape, PathShape
<1>2. Types'
  BY TypesKept
<1>3. Slots' /\ Devices' /\ Created' /\ Management'
  BY <1>1, ShapeKept
<1>4. Drained' /\ Probes' /\ Opens' /\ Busy' /\ Users' /\ Commands' /\ World' /\ Counts'
  BY <1>1, PartsKept
<1>5. Refs'
  BY DEF PathsInv, Refs
<1> QED
  BY <1>2, <1>3, <1>4, <1>5 DEF PathsInv

(* A device without paths has no slot that is used. *)
LEMMA NoSlots ==
  ASSUME PathsInv, NEW d \in Dev
  PROVE  dev[d].n = 0 <=> \A i \in Index : dev[d].paths[i] = NoPath
<1>1. /\ dev[d].n = Cardinality(Used(d, 0)) /\ Used(d, 0) \in SUBSET Index
      /\ \A i \in Index : i >= 0
  BY PathNames DEF PathsInv, Slots, SlotCount, Used
<1>2. dev[d].n = 0 <=> Used(d, 0) = {}
  BY <1>1, CountZero, PathNames
<1> QED
  BY <1>1, <1>2 DEF Used

(* The slots, when paths come and go that are in none of them. *)
LEMMA SlotsFrame ==
  ASSUME PathsInv,
         \A a \in Dev :
           \/ /\ dev'[a].paths = dev[a].paths /\ dev'[a].n = dev[a].n
              /\ dev'[a].active = dev[a].active /\ dev'[a].st = dev[a].st
           \/ /\ dev[a].n = 0 /\ dev'[a].n = 0
              /\ \A i \in Index : dev'[a].paths[i] = NoPath,
         \A p \in Path : path[p].ex /\ ~Out(p) =>
           path'[p].ex /\ path'[p].d = path[p].d /\ ~Out(p)',
         \A p \in Path : path'[p].ex /\ ~Out(p)' => path[p].ex /\ ~Out(p)
  PROVE  Slots'
<1>1. \A a \in Dev, i \in Index : dev'[a].paths[i] = dev[a].paths[i]
  BY NoSlots
<1>2. SlotOwner'
  <2> SUFFICES ASSUME NEW a \in Dev, NEW i \in Index, dev'[a].paths[i] # NoPath
               PROVE  (/\ path[dev[a].paths[i]].ex /\ path[dev[a].paths[i]].d = a
                       /\ Alive(a) /\ ~Out(dev[a].paths[i]))'
    BY DEF SlotOwner
  <2>1. dev'[a].paths[i] = dev[a].paths[i] /\ dev[a].paths[i] # NoPath
    BY <1>1
  <2>2. dev[a].n # 0
    BY <2>1, NoSlots
  <2>3. dev'[a].st = dev[a].st
    BY <2>2
  <2>4. PICK p \in Path : p = dev[a].paths[i]
    BY <2>1, UsedSlot
  <2>5. path[p].ex /\ path[p].d = a /\ Alive(a) /\ ~Out(p) /\ dev'[a].paths[i] = p
    BY <2>1, <2>4, UsedSlot
  <2>6. path'[p].ex /\ path'[p].d = a /\ ~Out(p)'
    BY <2>5
  <2>7. ~Out(dev[a].paths[i])'
    BY <2>5, <2>6 DEF Out
  <2> QED
    BY <2>3, <2>5, <2>6, <2>7 DEF Alive
<1>3. SlotOnce'
  BY <1>1 DEF PathsInv, Slots, SlotOnce
<1>4. SlotOf'
  <2> SUFFICES ASSUME NEW p \in Path, path'[p].ex, ~Out(p)'
               PROVE  path'[p].d \in Dev /\ \E i \in Index : dev'[path'[p].d].paths[i] = p
    BY DEF SlotOf
  <2>1. path[p].ex /\ ~Out(p) /\ path'[p].d = path[p].d
    OBVIOUS
  <2> QED
    BY <1>1, <2>1 DEF PathsInv, Slots, SlotOf
<1>5. SlotCount'
  <2> SUFFICES ASSUME NEW a \in Dev PROVE dev'[a].n = Cardinality(Used(a, 0)')
    BY DEF SlotCount
  <2>1. Used(a, 0)' = Used(a, 0)
    BY <1>1 DEF Used
  <2>2. dev'[a].n = dev[a].n
    OBVIOUS
  <2> QED
    BY <2>1, <2>2 DEF PathsInv, Slots, SlotCount
<1>6. SlotActive'
  BY DEF PathsInv, Slots, SlotActive, Active
<1> QED
  BY <1>2, <1>3, <1>4, <1>5, <1>6 DEF Slots

(* The slots, when the path operation puts its path in one. *)
LEMMA SlotAdded ==
  ASSUME PathsInv, NEW d \in Dev, NEW q \in Path, NEW i \in Index,
         Alive(d), Out(q), path[q].ex, dev[d].paths[i] = NoPath,
         dev[d].n = 0 => i = dev[d].active,
         mg'.pc \notin {"add", "drain", "destroy", "wait"},
         \A a \in Dev \ {d} : dev'[a] = dev[a],
         dev'[d].st = dev[d].st, dev'[d].active = dev[d].active, dev'[d].n = dev[d].n + 1,
         \A j \in Index : dev'[d].paths[j] = IF j = i THEN q ELSE dev[d].paths[j],
         path'[q].ex, path'[q].d = d, \A p \in Path \ {q} : path'[p] = path[p]
  PROVE  Slots'
<1>0. /\ dev[d].paths \in [Index -> Path \cup {NoPath}] /\ dev[d].n \in Nat
      /\ dev[d].active \in Index
  BY DEF PathsInv, Types, TypeObj, DevType
<1>1. /\ \A p : ~Out(p)'
      /\ \A p \in Path : Out(p) => p = q
  BY DEF Out
<1>2. \A j \in Index : dev'[d].paths[j] = IF j = i THEN q ELSE dev[d].paths[j]
  OBVIOUS
<1>3. \A a \in Dev, j \in Index : dev[a].paths[j] # q
  BY UsedSlot, PathNames
<1>4. SlotOwner'
  <2> SUFFICES ASSUME NEW a \in Dev, NEW j \in Index, dev'[a].paths[j] # NoPath
               PROVE  (/\ path[dev[a].paths[j]].ex /\ path[dev[a].paths[j]].d = a
                       /\ Alive(a) /\ ~Out(dev[a].paths[j]))'
    BY DEF SlotOwner
  <2>0. ~Out(dev[a].paths[j])'
    BY DEF Out
  <2>1. CASE a = d /\ j = i
    BY <1>2, <2>0, <2>1 DEF Alive
  <2>2. CASE a # d \/ j # i
    <3>1. dev'[a].paths[j] = dev[a].paths[j] /\ dev'[a].st = dev[a].st
      BY <1>2, <2>2
    <3>2. dev[a].paths[j] \in Path \ {q} /\ path[dev[a].paths[j]].ex
          /\ path[dev[a].paths[j]].d = a /\ Alive(a)
      BY <1>3, <3>1, UsedSlot
    <3> QED
      BY <2>0, <3>1, <3>2 DEF Alive
  <2> QED
    BY <2>1, <2>2
<1>5. SlotOnce'
  <2> SUFFICES ASSUME NEW a \in Dev, NEW j \in Index, NEW k \in Index,
                      dev'[a].paths[j] = dev'[a].paths[k], dev'[a].paths[j] # NoPath
               PROVE  j = k
    BY DEF SlotOnce
  <2>1. CASE a = d
    <3>1. CASE j # i /\ k # i
      <4>1. dev[d].paths[j] = dev[d].paths[k] /\ dev[d].paths[j] # NoPath
        BY <1>2, <2>1, <3>1
      <4> QED
        BY <4>1 DEF PathsInv, Slots, SlotOnce
    <3>2. CASE j = i \/ k = i
      <4>1. dev'[d].paths[j] = dev'[d].paths[k]
        BY <2>1
      <4>2. dev[d].paths[j] # q /\ dev[d].paths[k] # q
        BY <1>3
      <4>3. /\ dev'[d].paths[j] = IF j = i THEN q ELSE dev[d].paths[j]
            /\ dev'[d].paths[k] = IF k = i THEN q ELSE dev[d].paths[k]
        BY <1>2
      <4> QED
        BY <3>2, <4>1, <4>2, <4>3
    <3> QED
      BY <3>1, <3>2
  <2>2. CASE a # d
    BY <2>2 DEF PathsInv, Slots, SlotOnce
  <2> QED
    BY <2>1, <2>2
<1>6. SlotOf'
  <2> SUFFICES ASSUME NEW p \in Path, path'[p].ex
               PROVE  path'[p].d \in Dev /\ \E j \in Index : dev'[path'[p].d].paths[j] = p
    BY DEF SlotOf
  <2>1. CASE p = q
    BY <1>2, <2>1
  <2>2. CASE p # q
    <3>1. path[p].ex /\ ~Out(p) /\ path'[p].d = path[p].d
      BY <1>1, <2>2
    <3>2. path[p].d \in Dev
      BY <3>1 DEF PathsInv, Slots, SlotOf
    <3>3. PICK j \in Index : dev[path[p].d].paths[j] = p
      BY <3>1 DEF PathsInv, Slots, SlotOf
    <3>4. dev'[path[p].d].paths[j] = p
      <4>1. CASE path[p].d = d
        <5>1. dev[d].paths[j] = p /\ j # i
          BY <3>3, <4>1, PathNames
        <5>2. dev'[d].paths[j] = p
          BY <1>2, <5>1
        <5> QED
          BY <4>1, <5>2
      <4>2. CASE path[p].d # d
        BY <3>2, <3>3, <4>2
      <4> QED
        BY <4>1, <4>2
    <3> QED
      BY <3>1, <3>2, <3>4
  <2> QED
    BY <2>1, <2>2
<1>7. SlotCount'
  <2> SUFFICES ASSUME NEW a \in Dev
               PROVE  dev'[a].n = Cardinality(UsedOf(dev'[a].paths))
    BY DEF SlotCount, Used, UsedOf
  <2>1. dev[a].n = Cardinality(UsedOf(dev[a].paths))
    BY DEF PathsInv, Slots, SlotCount, Used, UsedOf
  <2>2. CASE a # d
    BY <2>1, <2>2
  <2>3. CASE a = d
    <3> DEFINE f == dev[d].paths
               g == dev'[d].paths
    <3>1. /\ f[i] = NoPath /\ g[i] # NoPath /\ \A j \in Index \ {i} : f[j] = g[j]
          /\ dev[d].n = Cardinality(UsedOf(f))
      BY <1>2, <2>1, <2>3, PathNames
    <3> HIDE DEF f, g
    <3>2. Cardinality(UsedOf(g)) = Cardinality(UsedOf(f)) + 1
      BY <3>1, SlotCounts
    <3>3. Cardinality(UsedOf(g)) = dev'[d].n
      BY <3>1, <3>2
    <3> QED
      BY <2>3, <3>3 DEF g
  <2> QED
    BY <2>2, <2>3
<1>8. SlotActive'
  <2> SUFFICES ASSUME NEW a \in Dev, dev'[a].n # 0
               PROVE  dev'[a].paths[dev'[a].active] # NoPath
    BY DEF SlotActive, Active
  <2>1. CASE a # d
    BY <2>1 DEF PathsInv, Slots, SlotActive, Active
  <2>2. CASE a = d
    <3>1. dev[d].active # i => dev[d].paths[dev[d].active] # NoPath
      BY DEF PathsInv, Slots, SlotActive, Active
    <3> QED
      BY <1>0, <1>2, <2>2, <3>1, PathNames
  <2> QED
    BY <2>1, <2>2
<1> QED
  BY <1>4, <1>5, <1>6, <1>7, <1>8 DEF Slots

(* The waiting for the retry world and the timer ends. *)
LEMMA DrainKept ==
  ASSUME PathsInv, ExampleDrainBusyCount
  PROVE  PathsInv'
<1>0. /\ mg \in MgType /\ dev \in [Dev -> DevType] /\ path \in [Path -> PathType]
      /\ createdDevices \in [0..(maxDevices - 1) -> Dev \cup {NoDev}]
  BY CalmFacts DEF TypeMg, PathsInv, Types, TypeObj
<1>1. /\ UNCHANGED <<createdDevices, dev, path, pr, user, cmd, retryQueue, comp, direct,
                     rw, tm>>
      /\ mg.pc = "drain" /\ dev[mg.d].busy = 0 /\ mg' = [mg EXCEPT !.pc = "destroy"]
  BY DEF ExampleDrainBusyCount, objVars, cmdVars
<1>2. TypeMg' /\ mg'.pc = "destroy" /\ mg'.p = mg.p /\ mg'.d = mg.d
  BY <1>0, <1>1 DEF TypeMg, MgType, MgPc
<1>3. /\ \A p : Out(p)' = Out(p)
      /\ \A a \in Dev : Emptied(a)' = Emptied(a) /\ Alive(a)' = Alive(a)
  BY <1>1, <1>2 DEF Out, Emptied, Alive
<1>4. Slots'
  BY <1>1, <1>3, SlotsFrame
<1>5. Devices'
  BY <1>1, <1>2, <1>3 DEF PathsInv, Devices
<1>6. Drained'
  BY <1>1, <1>2, <1>3 DEF PathsInv, Drained
<1>7. Created'
  BY <1>0, <1>1, <1>3 DEF PathsInv, Created
<1>8. Management'
  BY <1>1, <1>2 DEF PathsInv, Management, Alive
<1>9. \A p \in Path : path[p].ref > 0 => path'[p].ex /\ path'[p].d \in Dev
  BY <1>1 DEF PathsInv, Refs
<1>10. mg.pc \notin {"probe", "probed"} /\ dev' \in [Dev -> DevType]
       /\ path' \in [Path -> PathType]
       /\ createdDevices' \in [0..(maxDevices - 1) -> Dev \cup {NoDev}]
  BY <1>0, <1>1
<1> QED
  BY <1>1, <1>2, <1>4, <1>5, <1>6, <1>7, <1>8, <1>9, <1>10, SlotStep

(* A path that nobody has is gone. *)
LEMMA PathGone ==
  ASSUME PathsInv, NEW q \in Path, Out(q), path[q].ref = 0,
         TypeMg', mg'.pc = "idle", mg'.p = NoPath, ~path'[q].ex,
         path' \in [Path -> PathType], path'[q].ref = path[q].ref, path'[q].cmds = path[q].cmds,
         \A p \in Path \ {q} : path'[p] = path[p],
         mg.pc \in {"add", "wait"}, mg.pc = "add" => dev[mg.d].n # 0,
         UNCHANGED <<createdDevices, dev, pr, user, cmd, retryQueue, comp, direct, rw, tm>>
  PROVE  PathsInv'
<1>0. /\ dev' \in [Dev -> DevType]
      /\ createdDevices' \in [0..(maxDevices - 1) -> Dev \cup {NoDev}]
  BY DEF PathsInv, Types, TypeObj
<1>1. /\ \A p : ~Out(p)'
      /\ \A p \in Path : Out(p) => p = q
  BY DEF Out
<1>2. Slots'
  <2>1. \A p \in Path : path[p].ex /\ ~Out(p) =>
          path'[p].ex /\ path'[p].d = path[p].d /\ ~Out(p)'
    BY <1>1
  <2>2. \A p \in Path : path'[p].ex /\ ~Out(p)' => path[p].ex /\ ~Out(p)
    BY <1>1
  <2> QED
    BY <2>1, <2>2, SlotsFrame
<1>3. \A a \in Dev : ~Emptied(a) /\ ~Emptied(a)' /\ (Alive(a)' <=> Alive(a))
  BY DEF Emptied, Alive
<1>4. Devices'
  BY <1>3 DEF PathsInv, Devices
<1>5. Drained'
  BY <1>3 DEF PathsInv, Drained
<1>6. Created'
  BY <1>3 DEF PathsInv, Created, Types, TypeObj
<1>7. Management'
  BY DEF Management
<1>8. \A p \in Path :
        /\ path'[p].cmds = path[p].cmds /\ path'[p].ref = path[p].ref
        /\ path[p].ref > 0 => path'[p].ex /\ path'[p].d \in Dev
  <2>1. \A p \in Path : path[p].ref > 0 => p # q
    OBVIOUS
  <2> QED
    BY <2>1 DEF PathsInv, Refs
<1>9. mg.pc \notin {"probe", "probed"}
  OBVIOUS
<1> QED
  BY <1>0, <1>2, <1>4, <1>5, <1>6, <1>7, <1>8, <1>9, SlotStep

(* Its path operation is done. *)
LEMMA UnclaimDoneKept ==
  ASSUME PathsInv, UnclaimDone
  PROVE  PathsInv'
<1> DEFINE q == mg.p
<1>0. mg \in MgType /\ path \in [Path -> PathType]
  BY CalmFacts DEF TypeMg, PathsInv, Types, TypeObj
<1>1. /\ UNCHANGED <<createdDevices, dev, pr, user, cmd, retryQueue, comp, direct, rw, tm>>
      /\ mg.pc = "wait" /\ path[q].ref = 0 /\ mg' = Refused
      /\ path' = [path EXCEPT ![q].ex = FALSE, ![q].d = NoDev, ![q].state = "dead"]
  BY DEF UnclaimDone, cmdVars
<1>2. q \in Path /\ Out(q)
  BY <1>1 DEF PathsInv, Management, Out
<1>3. TypeMg' /\ mg'.pc = "idle" /\ mg'.p = NoPath
  BY <1>0, <1>1 DEF Refused, TypeMg, MgType, MgPc
<1>4. /\ path' \in [Path -> PathType] /\ ~path'[q].ex
      /\ path'[q].ref = path[q].ref /\ path'[q].cmds = path[q].cmds
      /\ \A p \in Path \ {q} : path'[p] = path[p]
  <2> DEFINE x == [path[q] EXCEPT !.ex = FALSE, !.d = NoDev, !.state = "dead"]
  <2>1. path' = [path EXCEPT ![q] = x]
    BY <1>0, <1>1, <1>2
  <2>2. x \in PathType /\ ~x.ex /\ x.ref = path[q].ref /\ x.cmds = path[q].cmds
    <3>1. path[q] \in PathType
      BY <1>0, <1>2
    <3> QED
      BY <3>1 DEF PathType
  <2> HIDE DEF x, q
  <2> QED
    BY <1>0, <1>2, <2>1, <2>2
<1>5. mg.pc \in {"add", "wait"} /\ (mg.pc = "add" => dev[mg.d].n # 0)
  BY <1>1
<1> HIDE DEF q
<1> QED
  BY <1>1, <1>2, <1>3, <1>4, <1>5, PathGone

(* What is left of a device without paths, once nobody waits for it. *)
LEMMA EmptyDevice ==
  ASSUME PathsInv, NEW d \in Dev, dev[d].n = 0
  PROVE  /\ dev[d].open = 0
         /\ ~Alive(d) \/ (mg.pc = "destroy" /\ mg.d = d) => dev[d].busy = 0 /\ ~dev[d].timer
<1>1. dev[d].open = 0
  BY DEF PathsInv, Drained
<1>2. ASSUME ~Alive(d) \/ (mg.pc = "destroy" /\ mg.d = d)
      PROVE  dev[d].busy = 0 /\ ~dev[d].timer
  <2>1. dev[d].busy = 0
    BY <1>2 DEF PathsInv, Drained
  <2>2. dev[d].busy = One(rw.d = d /\ rw.pc \in {"retry", "unblock", "unbusy"})
                      + One(dev[d].timer) + One(tm = d)
    BY DEF PathsInv, Busy
  <2> QED
    BY <2>1, <2>2 DEF One
<1> QED
  BY <1>1, <1>2

(* The path operation puts its path into a slot of its device. *)
LEMMA PathAdded ==
  ASSUME PathsInv, NEW d \in Dev, NEW q \in Path, NEW i \in Index,
         mg.pc \in {"add", "destroy"}, mg.d = d, mg.p = q, path[q].ex, Alive(d),
         dev[d].paths[i] = NoPath, dev[d].n = 0 => i = dev[d].active,
         TypeMg', mg'.pc \in {"idle", "update"},
         mg'.pc = "idle" => mg'.p = NoPath, mg'.pc = "update" => mg'.p = q /\ mg'.d = d,
         dev' \in [Dev -> DevType], \A a \in Dev \ {d} : dev'[a] = dev[a],
         dev'[d].st = dev[d].st, dev'[d].active = dev[d].active, dev'[d].n = dev[d].n + 1,
         \A j \in Index : dev'[d].paths[j] = IF j = i THEN q ELSE dev[d].paths[j],
         ~dev'[d].removing,
         dev'[d].open = dev[d].open, dev'[d].busy = dev[d].busy,
         dev'[d].timer = dev[d].timer, dev'[d].known = dev[d].known,
         dev'[d].reg = dev[d].reg,
         path' \in [Path -> PathType], path'[q].ex, path'[q].d = d,
         path'[q].ref = path[q].ref, path'[q].cmds = path[q].cmds,
         \A p \in Path \ {q} : path'[p] = path[p],
         UNCHANGED <<createdDevices, pr, user, cmd, retryQueue, comp, direct, rw, tm>>
  PROVE  PathsInv'
<1>0. createdDevices' \in [0..(maxDevices - 1) -> Dev \cup {NoDev}]
  BY DEF PathsInv, Types, TypeObj
<1>1. Out(q)
  BY DEF Out
<1>2. Slots'
  BY <1>1, SlotAdded
<1>3. /\ \A a \in Dev : ~Emptied(a)' /\ (Alive(a)' <=> Alive(a))
      /\ \A a \in Dev : Emptied(a) => a = d
  BY DEF Emptied, Alive
<1>4. dev[d].n \in Nat
  BY DEF PathsInv, Types, TypeObj, DevType
<1>5. Devices'
  <2> SUFFICES ASSUME NEW a \in Dev
               PROVE  /\ ~(Alive(a)' /\ dev'[a].n = 0)
                      /\ ~dev'[a].removing
                      /\ ~(dev'[a].known /\ ~dev'[a].reg)
                      /\ ~Alive(a)' => dev'[a].n = 0 /\ ~dev'[a].known
    BY <1>3 DEF Devices
  <2>1. CASE a = d
    <3>1. dev'[d].n # 0
      BY <1>4
    <3>2. ~(dev[d].known /\ ~dev[d].reg)
      BY DEF PathsInv, Devices
    <3>3. ~(dev'[d].known /\ ~dev'[d].reg)
      BY <3>2
    <3> QED
      BY <1>3, <2>1, <3>1, <3>3
  <2>2. CASE a # d
    BY <1>3, <2>2 DEF PathsInv, Devices
  <2> QED
    BY <2>1, <2>2
<1>6. Drained'
  <2>1. \A a \in Dev \ {d} : dev'[a].n = dev[a].n /\ dev'[a].open = dev[a].open
                             /\ dev'[a].busy = dev[a].busy
    OBVIOUS
  <2>2. dev'[d].n # 0
    BY <1>4
  <2>3. mg'.pc # "destroy"
    OBVIOUS
  <2> QED
    BY <1>3, <2>1, <2>2, <2>3 DEF PathsInv, Drained
<1>7. Created'
  BY <1>3 DEF PathsInv, Created, Types, TypeObj
<1>8. Management'
  BY DEF Management, Alive
<1>9. \A a \in Dev :
        /\ dev'[a].open = dev[a].open /\ dev'[a].busy = dev[a].busy
        /\ dev'[a].timer = dev[a].timer
        /\ dev'[a].st = dev[a].st /\ dev'[a].known = dev[a].known
  OBVIOUS
<1>10. \A p \in Path :
         /\ path'[p].cmds = path[p].cmds /\ path'[p].ref = path[p].ref
         /\ path[p].ref > 0 => path'[p].ex /\ path'[p].d \in Dev
  BY DEF PathsInv, Refs
<1>11. mg.pc \notin {"probe", "probed"}
  OBVIOUS
<1> QED
  BY <1>0, <1>2, <1>5, <1>6, <1>7, <1>8, <1>9, <1>10, <1>11, SlotStep

(* A device that gets another path. *)
WithPath(x, i, q) == [x EXCEPT !.removing = FALSE, !.paths = [x.paths EXCEPT ![i] = q],
                               !.n = x.n + 1]

(* It is a device. *)
LEMMA AddedType ==
  ASSUME NEW x \in DevType, NEW i \in Index, NEW q \in Path
  PROVE  LET y == WithPath(x, i, q)
         IN  /\ y \in DevType /\ y.st = x.st /\ y.active = x.active /\ y.n = x.n + 1
             /\ \A j \in Index : y.paths[j] = IF j = i THEN q ELSE x.paths[j]
             /\ y.open = x.open /\ y.busy = x.busy /\ y.timer = x.timer
             /\ y.known = x.known /\ y.reg = x.reg /\ ~y.removing
<1>1. x.paths \in [Index -> Path \cup {NoPath}] /\ x.n + 1 \in Nat
  BY DEF DevType
<1>2. /\ [x.paths EXCEPT ![i] = q] \in [Index -> Path \cup {NoPath}]
      /\ \A j \in Index : [x.paths EXCEPT ![i] = q][j] = IF j = i THEN q ELSE x.paths[j]
  BY <1>1
<1> DEFINE g == [x.paths EXCEPT ![i] = q]
           n == x.n + 1
<1>3. /\ g \in [Index -> Path \cup {NoPath}] /\ n \in Nat
      /\ \A j \in Index : g[j] = IF j = i THEN q ELSE x.paths[j]
      /\ WithPath(x, i, q) = [x EXCEPT !.removing = FALSE, !.paths = g, !.n = n]
  BY <1>1, <1>2 DEF WithPath
<1>4. n = x.n + 1
  OBVIOUS
<1> HIDE DEF g, n
<1>5. LET y == WithPath(x, i, q)
      IN  /\ y \in DevType /\ y.st = x.st /\ y.active = x.active /\ y.n = n
          /\ y.paths = g /\ ~y.removing
          /\ y.open = x.open /\ y.busy = x.busy /\ y.timer = x.timer
          /\ y.known = x.known /\ y.reg = x.reg
  BY <1>3 DEF DevType
<1> QED
  BY <1>3, <1>4, <1>5

(* A new path gets the first slot that is free. *)
LEMMA AddKept ==
  ASSUME PathsInv, ClaimAdd
  PROVE  PathsInv'
<1> DEFINE d == mg.d
           q == mg.p
           room == {i \in Index : dev[d].paths[i] = NoPath}
           k == Min(room)
<1>0. mg \in MgType /\ path \in [Path -> PathType] /\ dev \in [Dev -> DevType]
  BY CalmFacts DEF TypeMg, PathsInv, Types, TypeObj
<1>1. /\ UNCHANGED <<createdDevices, pr, user, cmd, retryQueue, comp, direct, rw, tm>>
      /\ mg.pc = "add"
  BY DEF ClaimAdd, cmdVars
<1>2. q \in Path /\ Out(q) /\ path[q].ex /\ path[q].d = NoDev /\ d \in Dev /\ Alive(d)
  BY <1>1 DEF PathsInv, Management, Out
<1>3. CASE room = {}
  <2>1. /\ path' = [path EXCEPT ![q].ex = FALSE]
        /\ mg' = [mg EXCEPT !.pc = "idle", !.p = NoPath, !.d = NoDev]
        /\ dev' = dev
    BY <1>3 DEF ClaimAdd
  <2>2. TypeMg' /\ mg'.pc = "idle" /\ mg'.p = NoPath
    BY <1>0, <2>1 DEF TypeMg, MgType, MgPc
  <2>3. path[q].ref = 0
    <3>1. path[q].ref \in Nat
      BY <1>0, <1>2 DEF PathType
    <3> QED
      BY <1>2, <3>1, PathNames DEF PathsInv, Refs
  <2>4. /\ path' \in [Path -> PathType] /\ ~path'[q].ex
        /\ path'[q].ref = path[q].ref /\ path'[q].cmds = path[q].cmds
        /\ \A p \in Path \ {q} : path'[p] = path[p]
    <3> DEFINE x == [path[q] EXCEPT !.ex = FALSE]
    <3>1. path' = [path EXCEPT ![q] = x]
      BY <1>0, <1>2, <2>1
    <3>2. x \in PathType /\ ~x.ex /\ x.ref = path[q].ref /\ x.cmds = path[q].cmds
      <4>1. path[q] \in PathType
        BY <1>0, <1>2
      <4> QED
        BY <4>1 DEF PathType
    <3> HIDE DEF x, q
    <3> QED
      BY <1>0, <1>2, <3>1, <3>2
  <2>5. dev[d].n # 0
    BY <1>2, <1>3, NoSlots, PathNames
  <2>6. mg.pc \in {"add", "wait"} /\ (mg.pc = "add" => dev[mg.d].n # 0)
    BY <1>1, <2>5
  <2> HIDE DEF q
  <2> QED
    BY <1>1, <1>2, <2>1, <2>2, <2>3, <2>4, <2>6, PathGone
<1>4. CASE room # {}
  <2>1. /\ dev'  = [dev EXCEPT ![d].paths[k] = q, ![d].n = @ + 1]
        /\ path' = [path EXCEPT ![q].d = d]
        /\ mg'   = [mg EXCEPT !.pc = "update"]
    BY <1>4 DEF ClaimAdd
  <2>2. k \in Index /\ dev[d].paths[k] = NoPath /\ \A j \in room : k <= j
    <3>1. room \in SUBSET Nat
      BY PathNames
    <3>2. k \in room /\ \A j \in room : k <= j
      BY <1>4, <3>1, LeastSlot
    <3> QED
      BY <3>2
  <2>3. TypeMg' /\ mg'.pc = "update" /\ mg'.p = q /\ mg'.d = d
    BY <1>0, <2>1 DEF TypeMg, MgType, MgPc
  <2>4. /\ path' \in [Path -> PathType] /\ path'[q].ex /\ path'[q].d = d
        /\ path'[q].ref = path[q].ref /\ path'[q].cmds = path[q].cmds
        /\ \A p \in Path \ {q} : path'[p] = path[p]
    <3> DEFINE x == [path[q] EXCEPT !.d = d]
    <3>1. path' = [path EXCEPT ![q] = x]
      BY <1>0, <1>2, <2>1
    <3>2. x \in PathType /\ x.ex /\ x.d = d /\ x.ref = path[q].ref /\ x.cmds = path[q].cmds
      <4>1. path[q] \in PathType /\ path[q].ex /\ d \in Dev
        BY <1>0, <1>2
      <4> HIDE DEF d, q
      <4> QED
        BY <4>1 DEF PathType
    <3> HIDE DEF x, q, d
    <3> QED
      BY <1>0, <1>2, <3>1, <3>2
  <2>5. ~dev[d].removing /\ (dev[d].n = 0 => k = dev[d].active)
    <3>1. ~Emptied(d)
      BY <1>1 DEF Emptied
    <3>2. ~dev[d].removing /\ (dev[d].n = 0 => dev[d].active = 0)
      BY <1>2, <3>1 DEF PathsInv, Devices
    <3>3. dev[d].n = 0 => k = 0
      <4>1. dev[d].n = 0 => 0 \in room
        BY <1>2, NoSlots, PathNames
      <4>2. k \in Nat
        BY <2>2, PathNames
      <4> HIDE DEF k, room
      <4> QED
        BY <2>2, <4>1, <4>2
    <3> QED
      BY <3>2, <3>3
  <2> DEFINE y == WithPath(dev[d], k, q)
  <2>6. /\ y \in DevType /\ y.st = dev[d].st /\ y.active = dev[d].active
        /\ y.n = dev[d].n + 1
        /\ \A j \in Index : y.paths[j] = IF j = k THEN q ELSE dev[d].paths[j]
        /\ y.open = dev[d].open /\ y.busy = dev[d].busy /\ y.timer = dev[d].timer
        /\ y.known = dev[d].known /\ y.reg = dev[d].reg /\ ~y.removing
    <3>1. dev[d] \in DevType
      BY <1>0, <1>2
    <3>2. q \in Path /\ k \in Index
      BY <1>2, <2>2
    <3> HIDE DEF d, q, k
    <3> QED
      BY <3>1, <3>2, AddedType
  <2>7. dev' = [dev EXCEPT ![d] = y]
    <3>1. dev[d] \in DevType
      BY <1>0, <1>2
    <3>2. y = [dev[d] EXCEPT !.paths = [@ EXCEPT ![k] = q], !.n = @ + 1]
      <4> HIDE DEF k, q, d
      <4> QED
        BY <2>5, <3>1 DEF DevType, WithPath
    <3> HIDE DEF y, k, q
    <3> QED
      BY <1>0, <1>2, <2>1, <3>2
  <2> HIDE DEF y
  <2>8. dev' \in [Dev -> DevType] /\ dev'[d] = y /\ \A a \in Dev \ {d} : dev'[a] = dev[a]
    BY <1>0, <1>2, <2>6, <2>7
  <2>9. mg.pc \in {"add", "destroy"} /\ mg.d = d /\ mg.p = q
    BY <1>1
  <2> HIDE DEF d, q, k, room
  <2> QED
    BY <1>1, <1>2, <2>2, <2>3, <2>4, <2>5, <2>6, <2>8, <2>9, PathAdded
<1> QED
  BY <1>3, <1>4

(* A device that PSA still uses gets its path back. *)
LEMMA UndoKept ==
  ASSUME PathsInv, UnclaimUndo
  PROVE  PathsInv'
<1> DEFINE d == mg.d
           q == mg.p
           k == dev[d].active
           y == WithPath(dev[d], k, q)
<1>0. mg \in MgType /\ path \in [Path -> PathType] /\ dev \in [Dev -> DevType]
  BY CalmFacts DEF TypeMg, PathsInv, Types, TypeObj
<1>1. /\ UNCHANGED <<createdDevices, path, pr, user, cmd, retryQueue, comp, direct, rw, tm>>
      /\ mg.pc = "destroy" /\ mg' = Refused
      /\ dev' = [dev EXCEPT ![d].removing = FALSE, ![d].paths[k] = q, ![d].n = @ + 1]
  BY DEF UnclaimUndo, cmdVars
<1>2. /\ q \in Path /\ path[q].ex /\ path[q].d = d /\ d \in Dev /\ Alive(d)
      /\ dev[d].n = 0
  BY <1>1 DEF PathsInv, Management, Devices, Emptied
<1>3. k \in Index /\ dev[d].paths[k] = NoPath /\ dev[d] \in DevType
  <2>1. dev[d] \in DevType
    BY <1>0, <1>2
  <2>2. k \in Index
    BY <2>1 DEF DevType
  <2> QED
    BY <1>2, <2>1, <2>2, NoSlots
<1>4. TypeMg' /\ mg'.pc = "idle" /\ mg'.p = NoPath
  BY <1>0, <1>1 DEF Refused, TypeMg, MgType, MgPc
<1>5. /\ y \in DevType /\ y.st = dev[d].st /\ y.active = dev[d].active
      /\ y.n = dev[d].n + 1
      /\ \A j \in Index : y.paths[j] = IF j = k THEN q ELSE dev[d].paths[j]
      /\ y.open = dev[d].open /\ y.busy = dev[d].busy /\ y.timer = dev[d].timer
      /\ y.known = dev[d].known /\ y.reg = dev[d].reg /\ ~y.removing
  <2> HIDE DEF d, q, k
  <2> QED
    BY <1>2, <1>3, AddedType
<1>6. dev' = [dev EXCEPT ![d] = y]
  <2>1. y = [dev[d] EXCEPT !.removing = FALSE, !.paths = [@ EXCEPT ![k] = q], !.n = @ + 1]
    <3> HIDE DEF k, q, d
    <3> QED
      BY <1>3 DEF DevType, WithPath
  <2> HIDE DEF y, k, q
  <2> QED
    BY <1>0, <1>1, <1>2, <2>1
<1> HIDE DEF y
<1>7. dev' \in [Dev -> DevType] /\ dev'[d] = y /\ \A a \in Dev \ {d} : dev'[a] = dev[a]
  BY <1>0, <1>2, <1>5, <1>6
<1>8. mg.pc \in {"add", "destroy"} /\ mg.d = d /\ mg.p = q
  BY <1>1
<1>9. /\ path' \in [Path -> PathType] /\ path'[q].ex /\ path'[q].d = d
      /\ path'[q].ref = path[q].ref /\ path'[q].cmds = path[q].cmds
      /\ \A p \in Path \ {q} : path'[p] = path[p]
      /\ dev[d].n = 0 => k = dev[d].active
  <2> HIDE DEF d, q
  <2> QED
    BY <1>0, <1>1, <1>2
<1> HIDE DEF d, q, k
<1>10. /\ dev'[d].st = dev[d].st /\ dev'[d].active = dev[d].active
       /\ dev'[d].n = dev[d].n + 1 /\ ~dev'[d].removing
       /\ \A j \in Index : dev'[d].paths[j] = IF j = k THEN q ELSE dev[d].paths[j]
       /\ dev'[d].open = dev[d].open /\ dev'[d].busy = dev[d].busy
       /\ dev'[d].timer = dev[d].timer /\ dev'[d].known = dev[d].known
       /\ dev'[d].reg = dev[d].reg
  BY <1>5, <1>7
<1>11. UNCHANGED <<createdDevices, pr, user, cmd, retryQueue, comp, direct, rw, tm>>
  BY <1>1
<1> QED
  BY <1>2, <1>3, <1>4, <1>7, <1>8, <1>9, <1>10, <1>11, PathAdded

(* A device without paths is destroyed. *)
LEMMA DestroyKept ==
  ASSUME PathsInv, ExampleDestroyDevice
  PROVE  PathsInv'
<1> DEFINE d == mg.d
           x == [Blank EXCEPT !.st = "freed"]
<1>0. /\ mg \in MgType /\ path \in [Path -> PathType] /\ dev \in [Dev -> DevType]
      /\ createdDevices \in [0..(maxDevices - 1) -> Dev \cup {NoDev}]
  BY CalmFacts DEF TypeMg, PathsInv, Types, TypeObj
<1>1. /\ UNCHANGED <<path, pr, user, cmd, retryQueue, comp, direct, rw, tm>>
      /\ mg.pc = "destroy" /\ ~InUse /\ mg' = [mg EXCEPT !.pc = "wait"]
      /\ dev' = [dev EXCEPT ![d] = x]
      /\ createdDevices' = [i \in DOMAIN createdDevices |->
                              IF createdDevices[i] = d THEN NoDev ELSE createdDevices[i]]
  BY DEF ExampleDestroyDevice, cmdVars
<1>2. /\ mg.p \in Path /\ path[mg.p].ex /\ path[mg.p].d = d /\ d \in Dev /\ Alive(d)
      /\ Emptied(d) /\ dev[d].n = 0
  BY <1>1 DEF PathsInv, Management, Devices, Emptied
<1>3. TypeMg' /\ mg'.pc = "wait" /\ mg'.p = mg.p /\ mg'.d = d
  BY <1>0, <1>1 DEF TypeMg, MgType, MgPc
<1>4. /\ x \in DevType /\ x.st = "freed" /\ x.n = 0 /\ x.open = 0 /\ x.busy = 0
      /\ ~x.timer /\ ~x.known /\ ~x.removing /\ \A i \in Index : x.paths[i] = NoPath
  BY PathNames DEF Blank, DevType, Uid
<1> HIDE DEF x
<1>5. dev' \in [Dev -> DevType] /\ dev'[d] = x /\ \A a \in Dev \ {d} : dev'[a] = dev[a]
  BY <1>0, <1>1, <1>2, <1>4
<1>6. dev[d].open = 0 /\ dev[d].busy = 0 /\ ~dev[d].timer
  BY <1>1, <1>2, EmptyDevice
<1>7. pr["dp"].d # d
  <2> SUFFICES ASSUME pr["dp"].d = d PROVE FALSE
    OBVIOUS
  <2>1. pr["dp"].pc # "idle"
    BY <1>2, PathNames DEF PathsInv, Probes
  <2>2. dev[d].known
    BY <2>1 DEF PathsInv, Probes
  <2>3. dev[d].reg
    BY <1>1, <1>2, <2>2 DEF PathsInv, Devices
  <2> QED
    BY <1>1, <2>3 DEF InUse
<1>8. /\ \A a \in Dev : Alive(a)' <=> Alive(a) /\ a # d
      /\ \A p : Out(p)' <=> Out(p)
      /\ \A a \in Dev : ~Emptied(a)' /\ (Emptied(a) <=> a = d)
  BY <1>1, <1>2, <1>3, <1>4, <1>5 DEF Alive, Out, Emptied
<1>9. Slots'
  <2>1. \A a \in Dev :
          \/ /\ dev'[a].paths = dev[a].paths /\ dev'[a].n = dev[a].n
             /\ dev'[a].active = dev[a].active /\ dev'[a].st = dev[a].st
          \/ /\ dev[a].n = 0 /\ dev'[a].n = 0
             /\ \A i \in Index : dev'[a].paths[i] = NoPath
    BY <1>2, <1>4, <1>5
  <2> QED
    BY <1>1, <1>8, <2>1, SlotsFrame
<1>10. Devices'
  <2> SUFFICES ASSUME NEW a \in Dev
               PROVE  /\ ~(Alive(a)' /\ dev'[a].n = 0)
                      /\ ~dev'[a].removing
                      /\ ~(dev'[a].known /\ ~dev'[a].reg)
                      /\ ~Alive(a)' => dev'[a].n = 0 /\ ~dev'[a].known
    BY <1>8 DEF Devices
  <2>1. CASE a = d
    BY <1>4, <1>5, <1>8, <2>1
  <2>2. CASE a # d
    BY <1>1, <1>5, <1>8, <2>2 DEF PathsInv, Devices
  <2> QED
    BY <2>1, <2>2
<1>11. Drained'
  <2> SUFFICES ASSUME NEW a \in Dev
               PROVE  /\ dev'[a].n = 0 => dev'[a].open = 0
                      /\ ~Alive(a)' => dev'[a].busy = 0
    BY <1>3 DEF Drained
  <2>1. CASE a = d
    BY <1>4, <1>5, <2>1
  <2>2. CASE a # d
    BY <1>5, <1>8, <2>2 DEF PathsInv, Drained
  <2> QED
    BY <2>1, <2>2
<1>12. /\ createdDevices' \in [0..(maxDevices - 1) -> Dev \cup {NoDev}]
       /\ \A i \in 0..(maxDevices - 1) :
            createdDevices'[i] # NoDev =>
              createdDevices'[i] = createdDevices[i] /\ createdDevices[i] # d
  <2> HIDE DEF d
  <2> QED
    BY <1>0, <1>1
<1>13. Created'
  <2> SUFFICES ASSUME NEW i \in 0..(maxDevices - 1), createdDevices'[i] # NoDev
               PROVE  dev'[createdDevices'[i]].st = "live"
    BY DEF Created, Alive
  <2>1. createdDevices[i] \in Dev \ {d} /\ createdDevices'[i] = createdDevices[i]
    BY <1>0, <1>12
  <2>2. dev[createdDevices[i]].st = "live"
    BY <2>1, PathNames DEF PathsInv, Created, Alive
  <2> QED
    BY <1>5, <2>1, <2>2
<1>14. Management'
  BY <1>1, <1>2, <1>3 DEF Management
<1>15. \A a \in Dev :
         /\ dev'[a].open = dev[a].open /\ dev'[a].busy = dev[a].busy
         /\ dev'[a].timer = dev[a].timer
         /\ pr["dp"].d = a => dev'[a].st = dev[a].st /\ dev'[a].known = dev[a].known
  <2>1. dev[d].timer \in BOOLEAN /\ x.timer \in BOOLEAN
    BY <1>0, <1>2, <1>4 DEF DevType
  <2>2. dev'[d].timer = dev[d].timer
    BY <1>4, <1>5, <1>6, <2>1
  <2> QED
    BY <1>4, <1>5, <1>6, <1>7, <2>2
<1>16. \A p \in Path :
         /\ path'[p].cmds = path[p].cmds /\ path'[p].ref = path[p].ref
         /\ path[p].ref > 0 => path'[p].ex /\ path'[p].d \in Dev
  BY <1>1 DEF PathsInv, Refs
<1>17. mg.pc \notin {"probe", "probed"} /\ path' \in [Path -> PathType]
  BY <1>0, <1>1
<1> QED
  BY <1>1, <1>3, <1>5, <1>9, <1>10, <1>11, <1>12, <1>13, <1>14, <1>15, <1>16, <1>17, SlotStep

(* A path that is new to the plugin. *)
LEMMA NewPath ==
  ASSUME PathsInv, NEW q \in Path, ~path[q].ex, NewExPath(q)
  PROVE  /\ path' \in [Path -> PathType]
         /\ path'[q].ex /\ path'[q].d = NoDev
         /\ path[q].ref = 0 /\ path[q].cmds = 0 /\ path'[q].ref = 0 /\ path'[q].cmds = 0
         /\ \A p \in Path \ {q} : path'[p] = path[p]
<1> DEFINE x == [ex |-> TRUE, d |-> NoDev, ref |-> 0, cmds |-> 0, state |-> "dead"]
<1>1. /\ path \in [Path -> PathType] /\ path[q] \in PathType /\ path' = [path EXCEPT ![q] = x]
  BY DEF PathsInv, Types, TypeObj, NewExPath
<1>2. x \in PathType /\ x.ex /\ x.d = NoDev /\ x.ref = 0 /\ x.cmds = 0
  BY DEF PathType
<1> HIDE DEF x
<1>3. /\ path[q].ref \in Nat /\ path[q].cmds \in Nat
  BY <1>1 DEF PathType
<1>4. path[q].ref = 0
  BY <1>3 DEF PathsInv, Refs
<1>5. path[q].ref = path[q].cmds + One(user.p = q) + One(ProbeOn("mg", q))
                      + One(ProbeOn("dp", q)) + One(rw.p = q)
  BY DEF PathsInv, Counts
<1>6. path[q].cmds = 0
  BY <1>3, <1>4, <1>5 DEF One
<1> QED
  BY <1>1, <1>2, <1>4, <1>6

(* A path is claimed, for a device that is there or for a new one. *)
LEMMA PathOffered ==
  ASSUME PathsInv, NEW q \in Path, ~path[q].ex, NewExPath(q), mg.pc = "idle",
         NEW d \in Dev,
         TypeMg', mg'.pc = "add", mg'.p = q, mg'.d = d,
         dev' \in [Dev -> DevType], \A a \in Dev \ {d} : dev'[a] = dev[a],
         createdDevices' \in [0..(maxDevices - 1) -> Dev \cup {NoDev}],
         \/ dev'[d] = dev[d] /\ Alive(d) /\ createdDevices' = createdDevices
         \/ /\ ~Alive(d) /\ dev'[d].st = "live" /\ dev'[d].n = 0 /\ dev'[d].active = 0
            /\ dev'[d].open = 0 /\ dev'[d].busy = 0 /\ ~dev'[d].timer /\ ~dev'[d].known
            /\ ~dev'[d].removing /\ \A i \in Index : dev'[d].paths[i] = NoPath
            /\ \A i \in 0..(maxDevices - 1) :
                 createdDevices'[i] = createdDevices[i] \/ createdDevices'[i] = d,
         UNCHANGED <<pr, user, cmd, retryQueue, comp, direct, rw, tm>>
  PROVE  PathsInv'
<1>1. /\ path' \in [Path -> PathType]
      /\ path'[q].ex /\ path'[q].d = NoDev
      /\ path[q].ref = 0 /\ path[q].cmds = 0 /\ path'[q].ref = 0 /\ path'[q].cmds = 0
      /\ \A p \in Path \ {q} : path'[p] = path[p]
  BY NewPath
<1>2. /\ \A p : ~Out(p) /\ (Out(p)' <=> p = q)
      /\ \A a \in Dev : ~Emptied(a) /\ ~Emptied(a)'
  BY DEF Out, Emptied
<1>3. /\ \A a \in Dev : Alive(a)' <=> Alive(a) \/ a = d
      /\ ~Alive(d) => dev[d].n = 0
  BY DEF PathsInv, Devices, Alive
<1>4. \A a \in Dev : /\ Alive(a) => dev[a].n # 0
                     /\ ~dev[a].removing /\ ~(dev[a].known /\ ~dev[a].reg)
                     /\ ~Alive(a) => dev[a].n = 0 /\ ~dev[a].known
  BY <1>2 DEF PathsInv, Devices
<1>5. Slots'
  <2>1. \A a \in Dev :
          \/ /\ dev'[a].paths = dev[a].paths /\ dev'[a].n = dev[a].n
             /\ dev'[a].active = dev[a].active /\ dev'[a].st = dev[a].st
          \/ /\ dev[a].n = 0 /\ dev'[a].n = 0
             /\ \A i \in Index : dev'[a].paths[i] = NoPath
    BY <1>3
  <2>2. \A p \in Path : path[p].ex /\ ~Out(p) =>
          path'[p].ex /\ path'[p].d = path[p].d /\ ~Out(p)'
    BY <1>1, <1>2
  <2>3. \A p \in Path : path'[p].ex /\ ~Out(p)' => path[p].ex /\ ~Out(p)
    BY <1>1, <1>2
  <2> QED
    BY <2>1, <2>2, <2>3, SlotsFrame
<1>6. Devices'
  <2> SUFFICES ASSUME NEW a \in Dev
               PROVE  /\ Alive(a)' /\ dev'[a].n = 0 =>
                           a = d /\ dev'[a].active = 0 /\ ~dev'[a].known
                      /\ ~dev'[a].removing
                      /\ ~(dev'[a].known /\ ~dev'[a].reg)
                      /\ ~Alive(a)' => dev'[a].n = 0 /\ ~dev'[a].known
    BY <1>2 DEF Devices
  <2>1. CASE a = d
    BY <1>3, <1>4, <2>1
  <2>2. CASE a # d
    BY <1>3, <1>4, <2>2
  <2> QED
    BY <2>1, <2>2
<1>7. dev[d].n = 0 => dev[d].open = 0
  BY DEF PathsInv, Drained
<1>8. ~Alive(d) => dev[d].open = 0 /\ dev[d].busy = 0 /\ ~dev[d].timer
  BY <1>3, EmptyDevice
<1>9. Drained'
  <2> SUFFICES ASSUME NEW a \in Dev
               PROVE  /\ dev'[a].n = 0 => dev'[a].open = 0
                      /\ ~Alive(a)' => dev'[a].busy = 0
    BY DEF Drained
  <2>1. CASE a = d
    BY <1>3, <1>7, <2>1
  <2>2. CASE a # d
    BY <1>3, <2>2 DEF PathsInv, Drained
  <2> QED
    BY <2>1, <2>2
<1>10. Created'
  <2> SUFFICES ASSUME NEW i \in 0..(maxDevices - 1), createdDevices'[i] # NoDev
               PROVE  dev'[createdDevices'[i]].st = "live"
    BY DEF Created, Alive
  <2>1. CASE createdDevices'[i] = d
    BY <1>3, <2>1 DEF Alive
  <2>2. CASE createdDevices'[i] # d
    <3>1. createdDevices'[i] = createdDevices[i] /\ createdDevices'[i] \in Dev \ {d}
      BY <2>2
    <3>2. dev[createdDevices[i]].st = "live"
      BY <3>1, PathNames DEF PathsInv, Created, Alive
    <3> QED
      BY <3>1, <3>2
  <2> QED
    BY <2>1, <2>2
<1>11. Management'
  BY <1>1, <1>3 DEF Management
<1>12. \A a \in Dev :
         /\ dev'[a].open = dev[a].open /\ dev'[a].busy = dev[a].busy
         /\ dev'[a].timer = dev[a].timer
         /\ pr["dp"].d = a => dev'[a].st = dev[a].st /\ dev'[a].known = dev[a].known
  <2>1. \A a \in Dev : dev[a].timer \in BOOLEAN /\ dev'[a].timer \in BOOLEAN
    <3>1. dev \in [Dev -> DevType]
      BY CalmFacts
    <3> QED
      BY <3>1 DEF DevType
  <2>2. pr["dp"].d \in Dev => Alive(pr["dp"].d)
    BY PathNames DEF PathsInv, Probes
  <2>3. ~Alive(d) /\ ~dev'[d].timer => dev'[d].timer = dev[d].timer
    BY <1>8, <2>1
  <2>4. ~Alive(d) => pr["dp"].d # d
    BY <2>2
  <2> QED
    BY <1>8, <2>3, <2>4
<1>13. \A p \in Path :
         /\ path'[p].cmds = path[p].cmds /\ path'[p].ref = path[p].ref
         /\ path[p].ref > 0 => path'[p].ex /\ path'[p].d \in Dev
  <2>1. \A p \in Path : path[p].ref > 0 => p # q
    BY <1>1
  <2> QED
    BY <1>1, <2>1 DEF PathsInv, Refs
<1>14. mg.pc \notin {"probe", "probed"}
  OBVIOUS
<1> QED
  BY <1>1, <1>5, <1>6, <1>9, <1>10, <1>11, <1>12, <1>13, <1>14, SlotStep

(* PSA offers a path. *)
LEMMA ClaimKept ==
  ASSUME PathsInv, NEW q \in Path, NEW u \in Uid, ExampleClaimPath(q, u)
  PROVE  PathsInv'
<1> DEFINE same == {d \in Dev : Alive(d) /\ dev[d].uid = u}
<1>0. /\ mg \in MgType /\ dev \in [Dev -> DevType]
      /\ createdDevices \in [0..(maxDevices - 1) -> Dev \cup {NoDev}]
  BY CalmFacts DEF TypeMg, PathsInv, Types, TypeObj
<1>1. /\ UNCHANGED <<pr, user, cmd, retryQueue, comp, direct, rw, tm>>
      /\ mg.pc = "idle" /\ ~path[q].ex
  BY DEF ExampleClaimPath, cmdVars
<1>2. same \in SUBSET Nat /\ Unused \in SUBSET Nat /\ Free \in SUBSET Nat
  <2>1. Dev \subseteq Nat /\ maxDevices \in Nat
    BY PathsAssumption
  <2>2. same \subseteq Dev /\ Unused \subseteq Dev
    BY DEF Unused
  <2>3. Free \in SUBSET Nat
    BY <2>1 DEF Free
  <2> HIDE DEF same
  <2> QED
    BY <2>1, <2>2, <2>3
<1>3. CASE /\ same # {} /\ mg' = [mg EXCEPT !.pc = "add", !.p = q, !.d = Min(same)]
           /\ NewExPath(q) /\ UNCHANGED <<dev, createdDevices>>
  <2>1. PICK d \in Dev : d = Min(same) /\ Alive(d)
    <3>1. Min(same) \in same
      BY <1>2, <1>3, LeastSlot
    <3> QED
      BY <3>1
  <2>2. TypeMg' /\ mg'.pc = "add" /\ mg'.p = q /\ mg'.d = d
    BY <1>0, <1>3, <2>1 DEF TypeMg, MgType, MgPc
  <2>3. /\ dev' \in [Dev -> DevType] /\ dev' = dev /\ createdDevices' = createdDevices
        /\ createdDevices' \in [0..(maxDevices - 1) -> Dev \cup {NoDev}]
    BY <1>0, <1>3
  <2>4. NewExPath(q)
    BY <1>3
  <2> QED
    BY <1>1, <2>1, <2>2, <2>3, <2>4, PathOffered
<1>4. CASE /\ Free # {} /\ Unused # {}
           /\ mg' = [mg EXCEPT !.pc = "add", !.p = q, !.d = Min(Unused)]
           /\ NewExPath(q) /\ ExampleCreateDevice(Min(Unused), u)
  <2> DEFINE x == [Blank EXCEPT !.st = "live", !.uid = u]
  <2>1. PICK d \in Dev : d = Min(Unused) /\ ~Alive(d)
    <3>1. Min(Unused) \in Unused
      BY <1>2, <1>4, LeastSlot
    <3> QED
      BY <3>1 DEF Unused, Alive
  <2>2. PICK k \in 0..(maxDevices - 1) : k = Min(Free)
    <3>1. Min(Free) \in Free
      BY <1>2, <1>4, LeastSlot
    <3>2. Free \in SUBSET (1..(maxDevices - 1))
      BY DEF Free
    <3>3. maxDevices \in Nat /\ maxDevices - 1 \in Int
      BY PathsAssumption
    <3>4. 1..(maxDevices - 1) \subseteq 0..(maxDevices - 1)
      BY <3>3
    <3>5. Min(Free) \in 0..(maxDevices - 1)
      BY <3>1, <3>2, <3>4
    <3> QED
      BY <3>5
  <2>3. TypeMg' /\ mg'.pc = "add" /\ mg'.p = q /\ mg'.d = d
    BY <1>0, <1>4, <2>1 DEF TypeMg, MgType, MgPc
  <2>4. /\ dev' = [dev EXCEPT ![d] = x]
        /\ createdDevices' = [createdDevices EXCEPT ![k] = d]
    BY <1>4, <2>1, <2>2 DEF ExampleCreateDevice
  <2>5. /\ x \in DevType /\ x.st = "live" /\ x.n = 0 /\ x.active = 0 /\ x.open = 0
        /\ x.busy = 0 /\ ~x.timer /\ ~x.known /\ ~x.removing
        /\ \A i \in Index : x.paths[i] = NoPath
    BY PathNames DEF Blank, DevType
  <2> HIDE DEF x
  <2>6. dev' \in [Dev -> DevType] /\ dev'[d] = x /\ \A a \in Dev \ {d} : dev'[a] = dev[a]
    BY <1>0, <2>4, <2>5
  <2>7. /\ createdDevices' \in [0..(maxDevices - 1) -> Dev \cup {NoDev}]
        /\ \A i \in 0..(maxDevices - 1) :
             createdDevices'[i] = createdDevices[i] \/ createdDevices'[i] = d
    BY <1>0, <2>4
  <2>8. NewExPath(q)
    BY <1>4
  <2>9. /\ dev'[d].st = "live" /\ dev'[d].n = 0 /\ dev'[d].active = 0
        /\ dev'[d].open = 0 /\ dev'[d].busy = 0 /\ ~dev'[d].timer /\ ~dev'[d].known
        /\ ~dev'[d].removing /\ \A i \in Index : dev'[d].paths[i] = NoPath
    BY <2>5, <2>6
  <2> QED
    BY <1>1, <2>1, <2>3, <2>6, <2>7, <2>8, <2>9, PathOffered
<1>5. CASE UNCHANGED <<mg, objVars>>
  BY <1>1, <1>5, SameKept DEF objVars
<1> QED
  BY <1>3, <1>4, <1>5 DEF ExampleClaimPath

(* At the start there are no devices and no paths. *)
LEMMA PathsInvInit == Init => PathsInv
<1> SUFFICES ASSUME Init PROVE PathsInv
  OBVIOUS
<1> USE PathNames DEF Init
<1>1. Types
  <2>1. TypeObj
    BY DEF TypeObj, DevType, PathType, Blank, Uid
  <2>2. TypeMg /\ TypePr
    BY DEF TypeMg, MgType, MgPc, TypePr, PrType, PrPc
  <2>3. TypeUser /\ TypeCmd /\ TypeComp /\ TypeDirect /\ TypeRw /\ TypeTm
    BY DEF TypeUser, TypeCmd, TypeComp, TypeDirect, TypeRw, RwPc, TypeTm, Idle
  <2> QED
    BY <2>1, <2>2, <2>3 DEF Types
<1>2. \A d \in Dev : /\ dev[d].st = "unused" /\ dev[d].n = 0 /\ dev[d].open = 0
                     /\ dev[d].busy = 0 /\ ~dev[d].timer /\ ~dev[d].removing
                     /\ ~dev[d].known /\ \A i \in Index : dev[d].paths[i] = NoPath
  BY DEF Blank
<1>3. Slots
  <2>1. \A d \in Dev : Cardinality(Used(d, 0)) = 0
    <3>1. \A d \in Dev : Used(d, 0) = {}
      BY <1>2 DEF Used
    <3> QED
      BY <3>1, FS_EmptySet
  <2> QED
    BY <1>2, <2>1 DEF Slots, SlotOwner, SlotOnce, SlotOf, SlotCount, SlotActive
<1>4. Devices /\ Drained
  BY <1>2 DEF Devices, Drained, Alive, Emptied
<1>5. Created /\ Management
  BY DEF Created, Management
<1>6. Probes
  BY DEF Probes
<1>7. Opens /\ Busy
  <2>1. /\ user.pc = "out" /\ rw.pc = "idle" /\ tm = NoDev
        /\ \A d \in Dev : ~Inside("mg", d) /\ ~Inside("dp", d) /\ tm # d
    BY DEF Inside, Within
  <2> QED
    BY <1>2, <2>1 DEF Opens, Busy, One
<1>8. Users /\ World
  BY DEF Users, World, Idle
<1>9. Commands
  BY EmptyQueue DEF Commands, Idle
<1>10. Counts
  <2>1. \A p \in Path : FlightOn(p) = {} /\ CompOn(p) = {}
    BY DEF FlightOn, CompOn, Idle
  <2>2. \A p \in Path : /\ ~ProbeOn("mg", p) /\ ~ProbeOn("dp", p) /\ user.p # p
                        /\ direct.p # p /\ rw.p # p /\ path[p].ref = 0 /\ path[p].cmds = 0
    BY DEF ProbeOn, Holds
  <2>3. \A p \in Path : Cardinality(FlightOn(p)) = 0 /\ Cardinality(CompOn(p)) = 0
    BY <2>1, FS_EmptySet
  <2> SUFFICES ASSUME NEW p \in Path
               PROVE  /\ path[p].cmds = Cardinality(FlightOn(p)) + Cardinality(CompOn(p))
                                          + One(direct.p = p)
                      /\ path[p].ref = path[p].cmds + One(user.p = p) + One(ProbeOn("mg", p))
                                         + One(ProbeOn("dp", p)) + One(rw.p = p)
    BY DEF Counts
  <2> HIDE DEF Init
  <2> QED
    BY <2>2, <2>3 DEF One
<1>11. Refs
  BY DEF Refs
<1> QED
  BY <1>1, <1>3, <1>4, <1>5, <1>6, <1>7, <1>8, <1>9, <1>10, <1>11 DEF PathsInv

(* Every step, up to the first that uses what was freed. *)
LEMMA PathsInvNext ==
  ASSUME PathsInv, [Next]_vars, stale' = {}
  PROVE  PathsInv'
<1>1. CASE Claim
  <2>1. CASE ExamplePathClaimBegin
    <3>1. UNCHANGED <<createdDevices, dev, path, mg, pr, user, cmd, retryQueue, comp, direct,
                      rw, tm>>
      BY <2>1 DEF ExamplePathClaimBegin, objVars, cmdVars
    <3> QED
      BY <3>1, SameKept
  <2> QED
    BY <1>1, <2>1, EndKept, AddKept, ClaimUpdateKept, EndProbeKept, EndRegisterKept,
       EndFlagKept, ClaimKept DEF Claim
<1>2. CASE Unclaim
  BY <1>2, UnclaimKept, RemoveKept, DrainKept, DestroyKept, UndoKept, UnclaimDoneKept
     DEF Unclaim
<1>3. CASE Probe
  BY <1>3, ProbePathKept, PathProbedKept, DeviceProbeKept, ProbeOpenKept, ProbeBeginKept,
     NoMemoryKept, ProbeDropKept, ProbeNextKept, ProbeCloseKept, UpdateKept DEF Probe
<1>4. CASE Use
  BY <1>4, OpenKept, CloseKept, InquiryKept, InquiryEndKept, TaskKept, TaskIssueKept,
     TaskDropKept DEF Use
<1>5. CASE Command
  <2>1. CASE \E c \in Cmd : \/ ExampleIssueCommand(c) \/ CompleteDone(c) \/ CompleteRetry(c)
                            \/ CompleteStart(c) \/ CompleteSched(c) \/ CompleteDeref(c)
                            \/ AbortTake(c)
    BY <2>1, IssueKept, DoneKept, CompleteRetryKept, StartKept, DerefKept, AbortKept
  <2>2. CASE \/ \E p \in Path : ExamplePathIssueCommandDirect(p)
             \/ DirectComplete(TRUE) \/ DirectComplete(FALSE) \/ DirectDeref
    BY <2>2, DirectIssueKept, DirectCompleteKept, DirectDerefKept
  <2>3. CASE \/ RetryLook \/ RetryLooked \/ ExampleDevice_AttemptFailover \/ AbortIssue
             \/ FailoverEnd \/ RetryBusy \/ ExampleRetryCmd \/ ExampleDevice_Unblock
             \/ RetryEnd
    BY <2>3, RetryLookKept, RetryLookedKept, FailoverKept, AbortKept, RetryBusyKept,
       RetryCmdKept, UnblockKept, RetryEndKept
  <2>4. CASE (\E d \in Dev : TimerFire(d)) \/ TimerEnd
    BY <2>4, TimerFireKept, TimerEndKept
  <2> QED
    BY <1>5, <2>1, <2>2, <2>3, <2>4 DEF Command
<1>6. CASE Module \/ Unload \/ RetryWorldEnds \/ UNCHANGED vars
  <2>1. UNCHANGED <<createdDevices, dev, path, mg, pr, user, cmd, retryQueue, comp, direct,
                    rw, tm>>
    BY <1>6 DEF Module, Unload, RetryWorldEnds, vars, objVars, psaVars, cmdVars
  <2> QED
    BY <2>1, SameKept
<1> QED
  BY <1>1, <1>2, <1>3, <1>4, <1>5, <1>6 DEF Next

(* What a step adds to the marks. *)
LEMMA StaleStep ==
  ASSUME PathsInv, [Next]_vars
  PROVE  /\ stale \subseteq stale'
         /\ stale' \subseteq stale \cup {"done", "direct", "abort", "task"}
<1> SUFFICES ASSUME stale' # stale
             PROVE  /\ stale \subseteq stale'
                    /\ stale' \subseteq stale \cup {"done", "direct", "abort", "task"}
  OBVIOUS
<1>1. \/ UnclaimDone \/ (\E e \in Prober : ProbeOpen(e) \/ ProbeClose(e))
      \/ \E e \in Prober, s \in Answer, pdl \in BOOLEAN : ExampleUpdatePathState(e, s, pdl)
      \/ TaskIssue \/ (\E c \in Cmd : CompleteStart(c) \/ CompleteSched(c))
      \/ DirectComplete(TRUE) \/ DirectComplete(FALSE)
      \/ RetryLook \/ AbortIssue \/ RetryBusy \/ ExampleDevice_Unblock \/ RetryEnd \/ TimerEnd
  <2>1. ~(Module \/ Unload \/ RetryWorldEnds \/ UNCHANGED vars)
    BY DEF Module, Unload, RetryWorldEnds, vars
  <2>2. ~Claim
    BY DEF Claim, ExamplePathClaimBegin, ExamplePathClaimEnd, ClaimAdd, ClaimUpdate, EndDone,
           EndNoMemory, EndProbe, EndRegister, EndFlag, ExampleClaimPath
  <2>3. Unclaim => UnclaimDone
    BY DEF Unclaim, ExampleUnclaimPath, UnclaimRemove, ExampleDrainBusyCount,
           ExampleDestroyDevice, UnclaimUndo
  <2>4. Probe => \/ \E e \in Prober : ProbeOpen(e) \/ ProbeClose(e)
                 \/ \E e \in Prober, s \in Answer, pdl \in BOOLEAN :
                      ExampleUpdatePathState(e, s, pdl)
    BY DEF Probe, ProbePath, ExamplePathSetState, PathProbed, DeviceProbe, ProbeBegin,
           ProbeNoMemory, ProbeDrop, ProbeNext
  <2>5. Use => TaskIssue
    BY DEF Use, ExampleDeviceOpen, ExampleDeviceClose, ExampleDeviceInquiry, InquiryEnd,
           ExampleDeviceTaskManagement, TaskDrop
  <2>6. Command => \/ \E c \in Cmd : CompleteStart(c) \/ CompleteSched(c)
                   \/ DirectComplete(TRUE) \/ DirectComplete(FALSE)
                   \/ RetryLook \/ AbortIssue \/ RetryBusy \/ ExampleDevice_Unblock
                   \/ RetryEnd \/ TimerEnd
    BY DEF Command, ExampleIssueCommand, CompleteDone, CompleteRetry, CompleteDeref, AbortTake,
           ExamplePathIssueCommandDirect, DirectDeref, RetryLooked,
           ExampleDevice_AttemptFailover, FailoverEnd, ExampleRetryCmd, TimerFire
  <2> QED
    BY <2>1, <2>2, <2>3, <2>4, <2>5, <2>6 DEF Next
<1>2. CASE UnclaimDone
  <2>1. mg.p \in Path /\ path[mg.p].ref = 0
    BY <1>2 DEF UnclaimDone, PathsInv, Management
  <2>2. /\ path[mg.p].ref = path[mg.p].cmds + One(user.p = mg.p) + One(ProbeOn("mg", mg.p))
                             + One(ProbeOn("dp", mg.p)) + One(rw.p = mg.p)
        /\ path[mg.p].cmds \in Nat
    BY <2>1 DEF PathsInv, Counts, Types, TypeObj, PathType
  <2>3. path[mg.p].cmds = 0
    BY <2>1, <2>2 DEF One
  <2> QED
    BY <1>2, <2>3 DEF UnclaimDone
<1>3. ASSUME NEW e \in Prober, ProbeOpen(e) \/ ProbeClose(e) PROVE FALSE
  <2>1. pr[e].pc # "idle"
    BY <1>3 DEF ProbeOpen, ProbeClose
  <2>2. Alive(pr[e].d)
    BY <2>1 DEF PathsInv, Probes
  <2> QED
    BY <1>3, <2>2 DEF ProbeOpen, ProbeClose, Marked
<1>4. ASSUME NEW e \in Prober, NEW s \in Answer, NEW pdl \in BOOLEAN,
             ExampleUpdatePathState(e, s, pdl)
      PROVE  FALSE
  <2>1. pr[e].pc = "tur"
    BY <1>4 DEF ExampleUpdatePathState
  <2>2. Alive(pr[e].d) /\ pr[e].p \in Path
    BY <2>1 DEF PathsInv, Probes
  <2>3. path[pr[e].p].ex
    <3>1. CASE pr[e].own
      <4>1. PICK p \in Path : p = pr[e].p
        BY <2>2
      <4>2. ProbeOn("mg", p) \/ ProbeOn("dp", p)
        BY <2>1, <3>1, <4>1, PathNames DEF ProbeOn, Holds
      <4> QED
        BY <4>1, <4>2, RefHeld
    <3>2. CASE ~pr[e].own
      BY <2>1, <3>2, PathNames DEF PathsInv, Probes
    <3> QED
      BY <3>1, <3>2
  <2> QED
    BY <1>4, <2>2, <2>3 DEF ExampleUpdatePathState, Marked
<1>5. CASE TaskIssue
  BY <1>5 DEF TaskIssue
<1>6. ASSUME NEW c \in Cmd, CompleteStart(c) \/ CompleteSched(c)
      PROVE  /\ stale \subseteq stale'
             /\ stale' \subseteq stale \cup {"done", "direct", "abort", "task"}
  BY <1>6 DEF CompleteStart, CompleteSched, LateMark
<1>7. CASE DirectComplete(TRUE) \/ DirectComplete(FALSE)
  BY <1>7 DEF DirectComplete, Marked
<1>8. CASE RetryLook
  <2>1. retryQueue # <<>> /\ retryQueue \in Seq(Cmd)
    BY <1>8 DEF RetryLook, PathsInv, Types, TypeCmd
  <2>2. Head(retryQueue) \in Cmd /\ InQueue(Head(retryQueue), retryQueue)
    BY <2>1, TailOf
  <2>3. user.pc # "out" /\ cmd[Head(retryQueue)].d = user.d
    BY <2>2 DEF PathsInv, Commands
  <2>4. Alive(cmd[Head(retryQueue)].d)
    BY <2>3, UserKeeps, OpenKeeps
  <2> QED
    BY <1>8, <2>4 DEF RetryLook, Marked
<1>9. CASE AbortIssue
  BY <1>9 DEF AbortIssue
<1>10. CASE RetryBusy
  <2>1. rw.c # NoCmd
    BY <1>10 DEF RetryBusy, InRetry, PathsInv, World
  <2>2. Alive(rw.d)
    BY <2>1, RetryKeeps, OpenKeeps
  <2> QED
    BY <1>10, <2>2 DEF RetryBusy, Marked
<1>11. CASE ExampleDevice_Unblock \/ RetryEnd
  <2>1. Alive(rw.d)
    BY <1>11, BusyKeeps DEF ExampleDevice_Unblock, RetryEnd, InRetry
  <2> QED
    BY <1>11, <2>1 DEF ExampleDevice_Unblock, RetryEnd, Marked
<1>12. CASE TimerEnd
  <2>1. Alive(tm)
    BY <1>12, TimerKeeps DEF TimerEnd
  <2> QED
    BY <1>12, <2>1 DEF TimerEnd, Marked
<1> QED
  BY <1>1, <1>2, <1>3, <1>4, <1>5, <1>6, <1>7, <1>8, <1>9, <1>10, <1>11, <1>12

(* A mark stays. *)
LEMMA StaleGrows == [Next]_vars => (stale' = {} => stale = {})
<1> SUFFICES ASSUME [Next]_vars, stale' = {}, stale # {} PROVE FALSE
  OBVIOUS
<1>1. ~(Module \/ Unload \/ RetryWorldEnds \/ UNCHANGED vars)
  BY DEF Module, Unload, RetryWorldEnds, vars
<1>2. ~Claim
  BY DEF Claim, ExamplePathClaimBegin, ExamplePathClaimEnd, ClaimAdd, ClaimUpdate, EndDone,
         EndNoMemory, EndProbe, EndRegister, EndFlag, ExampleClaimPath
<1>3. ~Unclaim
  BY DEF Unclaim, ExampleUnclaimPath, UnclaimRemove, ExampleDrainBusyCount,
         ExampleDestroyDevice, UnclaimUndo, UnclaimDone
<1>4. ~Probe
  BY DEF Probe, ProbePath, ExamplePathSetState, PathProbed, DeviceProbe, ProbeBegin,
         ProbeNoMemory, ProbeDrop, ProbeNext, ProbeOpen, ProbeClose, ExampleUpdatePathState
<1>5. ~Use
  BY DEF Use, ExampleDeviceOpen, ExampleDeviceClose, ExampleDeviceInquiry, InquiryEnd,
         ExampleDeviceTaskManagement, TaskDrop, TaskIssue
<1>6. ~Command
  BY DEF Command, ExampleIssueCommand, CompleteDone, CompleteRetry, CompleteDeref, AbortTake,
         ExamplePathIssueCommandDirect, DirectDeref, RetryLooked,
         ExampleDevice_AttemptFailover, FailoverEnd, ExampleRetryCmd, TimerFire,
         CompleteStart, CompleteSched, DirectComplete, RetryLook, AbortIssue, RetryBusy,
         ExampleDevice_Unblock, RetryEnd, TimerEnd
<1> QED
  BY <1>1, <1>2, <1>3, <1>4, <1>5, <1>6 DEF Next

(* A claimed path has one slot, and a device in use an active path. *)
LEMMA ActiveFromInv == PathsInv => ActivePathExists
<1> SUFFICES ASSUME PathsInv PROVE ActivePathExists
  OBVIOUS
<1>1. ASSUME NEW p \in Path, path[p].ex, mg.p # p
      PROVE  /\ Alive(path[p].d)
             /\ Cardinality({i \in Index : dev[path[p].d].paths[i] = p}) = 1
  <2>1. ~Out(p)
    BY <1>1 DEF Out
  <2>2. path[p].d \in Dev
    BY <1>1, <2>1 DEF PathsInv, Slots, SlotOf
  <2>3. PICK i \in Index : dev[path[p].d].paths[i] = p
    BY <1>1, <2>1 DEF PathsInv, Slots, SlotOf
  <2>4. Alive(path[p].d)
    BY <2>2, <2>3, UsedSlot, PathNames
  <2>5. {j \in Index : dev[path[p].d].paths[j] = p} = {i}
    <3>1. \A j \in Index : dev[path[p].d].paths[j] = p => j = i
      BY <2>2, <2>3, PathNames DEF PathsInv, Slots, SlotOnce
    <3> QED
      BY <2>3, <3>1
  <2> QED
    BY <2>4, <2>5, FS_Singleton
<1>2. \A d \in Dev : dev[d].n = Cardinality(Used(d, 0))
  BY DEF PathsInv, Slots, SlotCount
<1>3. ASSUME NEW d \in Dev, dev[d].open > 0 \/ (rw.d = d /\ rw.c # NoCmd)
      PROVE  Active(d) # NoPath
  <2>1. dev[d].open > 0
    BY <1>3, RetryKeeps
  <2> QED
    BY <2>1, OpenKeeps, PathNames
<1> QED
  BY <1>1, <1>2, <1>3 DEF ActivePathExists

(***************************************************************************)
(* Until something that was freed is used, the devices, their slots, the   *)
(* references on the paths and the counts that hold a device back agree    *)
(* with who is at work.                                                    *)
(***************************************************************************)
THEOREM PathsInvariance == Spec => [](stale = {} => PathsInv)
<1>1. Init => (stale = {} => PathsInv)
  BY PathsInvInit
<1>2. (stale = {} => PathsInv) /\ [Next]_vars => (stale = {} => PathsInv)'
  BY PathsInvNext, StaleGrows
<1> QED
  BY <1>1, <1>2, PTL DEF Spec

(***************************************************************************)
(* Until something that was freed is used, every claimed path is in one    *)
(* slot of a live device, and a device that somebody uses has an active    *)
(* path.                                                                   *)
(***************************************************************************)
THEOREM ActivePathExistsHolds == Spec => [](stale = {} => ActivePathExists)
<1>1. (stale = {} => PathsInv) => (stale = {} => ActivePathExists)
  BY ActiveFromInv
<1> QED
  BY <1>1, PathsInvariance, PTL

(***************************************************************************)
(* The first use of what was freed is by one of the four: never by a       *)
(* probe, the retry world, the timer or a path's commands.                 *)
(***************************************************************************)
THEOREM FirstStaleUse == Spec => [][stale = {} => StaleUses']_vars
<1>1. (stale = {} => PathsInv) /\ [Next]_vars => [stale = {} => StaleUses']_vars
  BY StaleStep DEF StaleUses
<1> QED
  BY <1>1, PathsInvariance, PTL DEF Spec
=============================================================================
