---------------------------- MODULE MppIoProofs -----------------------------
(***************************************************************************)
(* Proofs about MppIo for any number of commands, paths and threads: the   *)
(* counts of the device and of its paths are exact, the device is blocked  *)
(* for exactly the commands that wait for a retry, no queued command is    *)
(* forgotten, and the reservation bookkeeping holds.                       *)
(***************************************************************************)
EXTENDS MppIo, FiniteSetTheorems, TLAPS

(***************************************************************************)
(* Counts and queues.                                                      *)
(***************************************************************************)

(* The size of a subset of a finite set is a natural number. *)
LEMMA SubsetCount ==
  ASSUME NEW S, IsFiniteSet(S), NEW T \in SUBSET S
  PROVE  IsFiniteSet(T) /\ Cardinality(T) \in Nat
BY FS_Subset, FS_CardinalityType

(* A step that changes the membership of one element only changes the size *)
(* by as much.                                                             *)
LEMMA CountStep ==
  ASSUME NEW S, IsFiniteSet(S), NEW T \in SUBSET S, NEW U \in SUBSET S, NEW x \in S,
         \A y \in S : y # x => (y \in T <=> y \in U)
  PROVE  /\ Cardinality(T) \in Nat /\ Cardinality(U) \in Nat
         /\ Cardinality(U) = Cardinality(T) + (IF x \in U THEN 1 ELSE 0)
                                           - (IF x \in T THEN 1 ELSE 0)
         /\ x \in T => Cardinality(T) >= 1
         /\ x \in U => Cardinality(U) >= 1
<1>1. /\ IsFiniteSet(T) /\ Cardinality(T) \in Nat
      /\ IsFiniteSet(U) /\ Cardinality(U) \in Nat
  BY SubsetCount
<1>2. T \ {x} = U \ {x}
  OBVIOUS
<1>3. Cardinality(T \ {x}) = IF x \in T THEN Cardinality(T)-1 ELSE Cardinality(T)
  BY <1>1, FS_RemoveElement
<1>4. Cardinality(U \ {x}) = IF x \in U THEN Cardinality(U)-1 ELSE Cardinality(U)
  BY <1>1, FS_RemoveElement
<1>5. Cardinality(T \ {x}) \in Nat
  BY <1>1, FS_RemoveElement, FS_CardinalityType
<1> QED
  BY <1>1, <1>2, <1>3, <1>4, <1>5

(* A subset is taken out of a set. *)
LEMMA CountWithout ==
  ASSUME NEW S, IsFiniteSet(S), NEW T \in SUBSET S, NEW A \in SUBSET T
  PROVE  /\ Cardinality(T) \in Nat /\ Cardinality(A) \in Nat
         /\ Cardinality(T \ A) = Cardinality(T) - Cardinality(A)
         /\ Cardinality(A) <= Cardinality(T)
<1>1. IsFiniteSet(T) /\ Cardinality(T) \in Nat /\ Cardinality(A) \in Nat
  BY SubsetCount
<1>2. T \cap A = A
  OBVIOUS
<1>3. Cardinality(T \ A) = Cardinality(T) - Cardinality(T \cap A)
  BY <1>1, FS_Difference
<1>4. Cardinality(A) <= Cardinality(T)
  BY <1>1, FS_Subset
<1> QED
  BY ONLY <1>1, <1>2, <1>3, <1>4

(* A set has no members exactly when its size is zero. *)
LEMMA CountZero ==
  ASSUME NEW S, IsFiniteSet(S), NEW T \in SUBSET S
  PROVE  Cardinality(T) = 0 <=> T = {}
BY SubsetCount, FS_EmptySet

(* A queue whose entries are exactly the members of T, each once, is as    *)
(* long as T is large.                                                     *)
LEMMA QueueLength ==
  ASSUME NEW S, IsFiniteSet(S), NEW T \in SUBSET S, NEW q \in Seq(S),
         \A i \in 1..Len(q) : q[i] \in T,
         \A t \in T : \E i \in 1..Len(q) : q[i] = t,
         \A i, j \in 1..Len(q) : q[i] = q[j] => i = j
  PROVE  Len(q) = Cardinality(T)
<1> DEFINE f == [i \in 1..Len(q) |-> q[i]]
<1>1. f \in Bijection(1..Len(q), T)
  <2>1. f \in [1..Len(q) -> T]
    OBVIOUS
  <2>2. f \in Injection(1..Len(q), T)
    BY <2>1 DEF Injection, IsInjective
  <2>3. f \in Surjection(1..Len(q), T)
    BY <2>1 DEF Surjection
  <2> QED
    BY <2>2, <2>3 DEF Bijection
<1>2. ExistsBijection(1..Len(q), T)
  BY <1>1 DEF ExistsBijection
<1>3. Len(q) \in Nat
  OBVIOUS
<1> QED
  BY <1>2, <1>3, FS_CountingElements

(* A non-empty set of naturals has a least element. *)
LEMMA LeastNat ==
  ASSUME NEW T \in SUBSET Nat, T # {}
  PROVE  \E x \in T : \A y \in T : x <= y
<1> DEFINE R == OpToRel(<, Nat)
<1>1. IsWellFoundedOn(R, Nat)
  BY NatLessThanWellFounded
<1>2. \A x, y \in Nat : <<y, x>> \in R <=> y < x
  BY DEF OpToRel
<1> HIDE DEF R
<1>3. PICK x \in T : \A y \in T : ~ (<<y, x>> \in R)
  BY <1>1, WFMin
<1>4. \A y \in T : x <= y
  <2> TAKE y \in T
  <2>1. x \in Nat /\ y \in Nat /\ ~(y < x)
    BY <1>2, <1>3
  <2> QED
    BY <2>1
<1> QED
  BY <1>4

USE CountAssumption, NameAssumption
    DEF CountAssumption, NameAssumption, Count, cmdVars, pathVars, netVars, countVars,
        timerVars, worldVars, resVars, rsioVars, loopVars, bounds

(* The sets that are counted. *)
Failed    == {c \in Cmd : cst[c] = "failed"}
Retrying  == {c \in Cmd : cst[c] = "retry"}
Reserves  == {c \in Outstanding : kind[c] = "reserve" /\ cst[c] # "done"}
OnPath(p) == {c \in Cmd : cpath[c] = p}
Holding(p) == {k \in Cpu : tpath[k] = p}

(* The type invariant by groups of variables. *)
TypeCmd ==
  /\ cst \in [Cmd -> {"idle", "queued", "work", "path", "rpc", "lost", "done", "failed",
                      "retry", "world", "abort"}]
  /\ kind \in [Cmd -> Kind \cup {"none"}]
  /\ cpath \in [Cmd -> Path \cup {NoPath}]
TypeLoop ==
  /\ st \in [Starter -> {"no", "check", "get", "end"}]
  /\ tpath \in [Cpu -> Path \cup {NoPath}]
TypeNet  == state \in [Path -> {"on", "dead"}] /\ link \in [Path -> BOOLEAN]
TypePath == active \in Path /\ refCount \in [Path -> Nat] /\ pathCmds \in [Path -> Nat]
TypeCount ==
  activeCmdCount \in Nat /\ busyCount \in Nat /\ blocked \in Nat /\ pendingReserves \in Nat
TypeFlag ==
  /\ timer \in BOOLEAN /\ reserved \in BOOLEAN
  /\ reserving \in BOOLEAN /\ resvUpdate \in BOOLEAN
TypeWorld ==
  /\ retryQueue \in Seq(Cmd)
  /\ world \in {"idle", "pick", "failover", "resv", "abort", "wait", "reset", "deref",
                "retry", "unblock", "sched", "unbusy"}
  /\ wcmd \in Cmd \cup {NoCmd}
  /\ wpath \in Path \cup {NoPath} /\ resPath \in Path \cup {NoPath}
TypeRest ==
  /\ cmdQ \subseteq Cmd /\ abtQ \subseteq Cmd
  /\ tm \in {"no", "abort"}
  /\ issued \in 0..MaxIssue /\ faults \in 0..MaxFault
Types ==
  /\ TypeCmd /\ TypeLoop /\ TypeNet /\ TypePath
  /\ TypeCount /\ TypeFlag /\ TypeWorld /\ TypeRest

(* A command has a path from its issue until its thread takes it over. *)
CmdShape ==
  \A c \in Cmd : cpath[c] # NoPath <=> cst[c] \in {"path", "rpc", "done", "failed"}

(* The retry world has a command until it has issued it again, and a path  *)
(* during a failover, for which there is another path.                     *)
WorldShape ==
  /\ wcmd # NoCmd <=> world \notin {"idle", "unblock", "sched", "unbusy"}
  /\ wcmd # NoCmd => cst[wcmd] = "world"
  /\ wpath # NoPath <=> world \in {"resv", "abort", "wait", "reset", "deref"}
  /\ world = "failover" => NPaths # 1

(* A thread that has a path gives it back when it leaves the loop. *)
LoopShape ==
  \A k \in Cpu : /\ st[k] = "end" => tpath[k] # NoPath
                 /\ st[k] = "no"  => tpath[k] = NoPath

(* The retry queue holds the commands to retry, each once. *)
QueueShape ==
  /\ \A i \in 1..Len(retryQueue) : cst[retryQueue[i]] = "retry"
  /\ \A c \in Retrying : \E i \in 1..Len(retryQueue) : retryQueue[i] = c
  /\ \A i, j \in 1..Len(retryQueue) : retryQueue[i] = retryQueue[j] => i = j

(* BlockedByRetries, with the commands to retry instead of their queue *)
BlockedCount ==
  blocked = Count(Retrying) + Count(Failed)
            + IF world \in {"idle", "sched", "unbusy"} THEN 0 ELSE 1

IInv ==
  /\ Types
  /\ CmdShape
  /\ WorldShape
  /\ LoopShape
  /\ QueueShape
  /\ BlockedCount
  /\ CountsHeld
  /\ NobodyForgotten
  /\ SensitiveTracked
  /\ ReservesCounted
-----------------------------------------------------------------------------
(* A step that changes at most one command c changes the counts by c. *)
LEMMA OneCommand ==
  ASSUME NEW c \in Cmd,
         \A d \in Cmd : d # c => /\ cst'[d] = cst[d]
                                /\ kind'[d] = kind[d]
                                /\ cpath'[d] = cpath[d]
  PROVE  /\ Count(Failed)' = Count(Failed) + (IF c \in Failed' THEN 1 ELSE 0)
                                          - (IF c \in Failed THEN 1 ELSE 0)
         /\ Count(Retrying)' = Count(Retrying) + (IF c \in Retrying' THEN 1 ELSE 0)
                                              - (IF c \in Retrying THEN 1 ELSE 0)
         /\ Count(Reserves)' = Count(Reserves) + (IF c \in Reserves' THEN 1 ELSE 0)
                                              - (IF c \in Reserves THEN 1 ELSE 0)
         /\ Count(Reserves)' \in Nat
         /\ Count(Outstanding)' = Count(Outstanding)
                                  + (IF c \in Outstanding' THEN 1 ELSE 0)
                                  - (IF c \in Outstanding THEN 1 ELSE 0)
         /\ \A p \in Path :
              Count(OnPath(p))' = Count(OnPath(p)) + (IF c \in OnPath(p)' THEN 1 ELSE 0)
                                                  - (IF c \in OnPath(p) THEN 1 ELSE 0)
<1>1. \A d \in Cmd : d # c => (d \in Failed <=> d \in Failed')
  BY DEF Failed
<1>2. \A d \in Cmd : d # c => (d \in Retrying <=> d \in Retrying')
  BY DEF Retrying
<1>3. \A d \in Cmd : d # c => (d \in Outstanding <=> d \in Outstanding')
  BY DEF Outstanding
<1>4. \A d \in Cmd : d # c => (d \in Reserves <=> d \in Reserves')
  BY <1>3 DEF Reserves
<1>5. \A p \in Path : \A d \in Cmd : d # c => (d \in OnPath(p) <=> d \in OnPath(p)')
  BY DEF OnPath
<1>6. /\ Failed \in SUBSET Cmd /\ Failed' \in SUBSET Cmd
      /\ Retrying \in SUBSET Cmd /\ Retrying' \in SUBSET Cmd
      /\ Outstanding \in SUBSET Cmd /\ Outstanding' \in SUBSET Cmd
      /\ Reserves \in SUBSET Cmd /\ Reserves' \in SUBSET Cmd
      /\ \A p \in Path : OnPath(p) \in SUBSET Cmd /\ OnPath(p)' \in SUBSET Cmd
  BY DEF Failed, Retrying, Outstanding, Reserves, OnPath
<1>7. Count(Failed)' = Count(Failed) + (IF c \in Failed' THEN 1 ELSE 0)
                                    - (IF c \in Failed THEN 1 ELSE 0)
  BY <1>1, <1>6, CountStep
<1>8. Count(Retrying)' = Count(Retrying) + (IF c \in Retrying' THEN 1 ELSE 0)
                                        - (IF c \in Retrying THEN 1 ELSE 0)
  BY <1>2, <1>6, CountStep
<1>9. Count(Outstanding)' = Count(Outstanding) + (IF c \in Outstanding' THEN 1 ELSE 0)
                                              - (IF c \in Outstanding THEN 1 ELSE 0)
  BY <1>3, <1>6, CountStep
<1>10. /\ Count(Reserves)' = Count(Reserves) + (IF c \in Reserves' THEN 1 ELSE 0)
                                            - (IF c \in Reserves THEN 1 ELSE 0)
       /\ Count(Reserves)' \in Nat
  BY <1>4, <1>6, CountStep
<1>11. ASSUME NEW p \in Path
       PROVE  Count(OnPath(p))' = Count(OnPath(p))
                                   + (IF c \in OnPath(p)' THEN 1 ELSE 0)
                                   - (IF c \in OnPath(p) THEN 1 ELSE 0)
  BY <1>5, <1>6, CountStep
<1> QED
  BY <1>7, <1>8, <1>9, <1>10, <1>11

(* The counts of commands are natural numbers. *)
LEMMA CommandCounts ==
  /\ Count(Failed) \in Nat /\ Count(Retrying) \in Nat /\ Count(Reserves) \in Nat
  /\ Count(Outstanding) \in Nat
  /\ \A p \in Path : Count(OnPath(p)) \in Nat /\ Count(Holding(p)) \in Nat
  /\ \A c \in Outstanding : Count(Outstanding) >= 1
<1>1. /\ Failed \in SUBSET Cmd /\ Retrying \in SUBSET Cmd /\ Outstanding \in SUBSET Cmd
      /\ Reserves \in SUBSET Cmd
      /\ \A p \in Path : OnPath(p) \in SUBSET Cmd /\ Holding(p) \in SUBSET Cpu
  BY DEF Failed, Retrying, Outstanding, Reserves, OnPath, Holding
<1>2. ASSUME NEW c \in Outstanding PROVE Count(Outstanding) >= 1
  BY <1>1, CountStep
<1> QED
  BY <1>1, <1>2, SubsetCount

(* A step that changes at most one thread k. *)
LEMMA OneThread ==
  ASSUME NEW k \in Cpu, \A j \in Cpu : j # k => tpath'[j] = tpath[j]
  PROVE  \A p \in Path :
           Count(Holding(p))' = Count(Holding(p))
                                 + (IF k \in Holding(p)' THEN 1 ELSE 0)
                                 - (IF k \in Holding(p) THEN 1 ELSE 0)
<1> SUFFICES ASSUME NEW p \in Path
             PROVE  Count(Holding(p))' = Count(Holding(p))
                                 + (IF k \in Holding(p)' THEN 1 ELSE 0)
                                 - (IF k \in Holding(p) THEN 1 ELSE 0)
  OBVIOUS
<1>1. Holding(p) \in SUBSET Cpu /\ Holding(p)' \in SUBSET Cpu
  BY DEF Holding
<1>2. \A j \in Cpu : j # k => (j \in Holding(p) <=> j \in Holding(p)')
  BY DEF Holding
<1> QED
  BY <1>1, <1>2, CountStep
-----------------------------------------------------------------------------
(* What a step leaves alone, it preserves. *)
LEMMA Frame ==
  ASSUME IInv
  PROVE  /\ UNCHANGED <<cst, cpath>> => CmdShape'
         /\ UNCHANGED <<cst, worldVars>> => WorldShape'
         /\ UNCHANGED loopVars => LoopShape'
         /\ UNCHANGED <<cst, retryQueue>> => QueueShape'
         /\ UNCHANGED <<cst, blocked, world>> => BlockedCount'
         /\ UNCHANGED <<cpath, tpath, refCount, pathCmds, wpath>> => PathCounts'
         /\ UNCHANGED <<cst, activeCmdCount, timerVars, st, world>> => DeviceCounts'
         /\ UNCHANGED <<cst, blocked, timer, world, st>> => NobodyForgotten'
         /\ UNCHANGED <<cst, kind, cmdQ, abtQ>> => SensitiveTracked'
         /\ UNCHANGED <<cst, kind, pendingReserves>> => ReservesCounted'
         /\ UNCHANGED cmdVars => TypeCmd'
         /\ UNCHANGED loopVars => TypeLoop'
         /\ UNCHANGED netVars => TypeNet'
         /\ UNCHANGED pathVars => TypePath'
         /\ UNCHANGED <<countVars, busyCount, pendingReserves>> => TypeCount'
         /\ UNCHANGED <<timer, reserved, reserving, resvUpdate>> => TypeFlag'
         /\ UNCHANGED <<retryQueue, worldVars, resPath>> => TypeWorld'
         /\ UNCHANGED <<cmdQ, abtQ, tm, bounds>> => TypeRest'
<1>1. UNCHANGED <<cst, cpath>> => CmdShape'
  BY DEF IInv, CmdShape
<1>2. UNCHANGED <<cst, worldVars>> => WorldShape'
  BY DEF IInv, WorldShape
<1>3. UNCHANGED loopVars => LoopShape'
  BY DEF IInv, LoopShape
<1>4. UNCHANGED <<cst, retryQueue>> => QueueShape'
  BY DEF IInv, QueueShape, Retrying
<1>5. UNCHANGED <<cst, blocked, world>> => BlockedCount'
  BY DEF IInv, BlockedCount, Retrying, Failed
<1>6. UNCHANGED <<cpath, tpath, refCount, pathCmds, wpath>> => PathCounts'
  BY DEF IInv, CountsHeld, PathCounts
<1>7. UNCHANGED <<cst, activeCmdCount, timerVars, st, world>> => DeviceCounts'
  BY DEF IInv, CountsHeld, DeviceCounts, Outstanding
<1>8. UNCHANGED <<cst, blocked, timer, world, st>> => NobodyForgotten'
  BY DEF IInv, NobodyForgotten, At
<1>9. UNCHANGED <<cst, kind, cmdQ, abtQ>> => SensitiveTracked'
  BY DEF IInv, SensitiveTracked, Outstanding
<1>10. UNCHANGED <<cst, kind, pendingReserves>> => ReservesCounted'
  BY DEF IInv, ReservesCounted, Outstanding
<1>11. /\ UNCHANGED cmdVars => TypeCmd'
       /\ UNCHANGED loopVars => TypeLoop'
       /\ UNCHANGED netVars => TypeNet'
       /\ UNCHANGED pathVars => TypePath'
  BY DEF IInv, Types, TypeCmd, TypeLoop, TypeNet, TypePath
<1>12. /\ UNCHANGED <<countVars, busyCount, pendingReserves>> => TypeCount'
       /\ UNCHANGED <<retryQueue, worldVars, resPath>> => TypeWorld'
       /\ UNCHANGED <<cmdQ, abtQ, tm, bounds>> => TypeRest'
  BY DEF IInv, Types, TypeCount, TypeWorld, TypeRest
<1>13. UNCHANGED <<timer, reserved, reserving, resvUpdate>> => TypeFlag'
  BY DEF IInv, Types, TypeFlag
<1> QED
  BY <1>1, <1>2, <1>3, <1>4, <1>5, <1>6, <1>7, <1>8, <1>9, <1>10, <1>11, <1>12, <1>13
-----------------------------------------------------------------------------
(* The groups of types are the type invariant of MppIo. *)
LEMMA TypesAreTypeOK == TypeOK <=> Types
<1> USE DEF TypeOK, Types, TypeCmd, TypeLoop, TypeNet, TypePath, TypeCount, TypeFlag,
            TypeWorld, TypeRest
<1>1. {timer, reserved, reserving, resvUpdate} \subseteq BOOLEAN <=> TypeFlag
  BY Zenon DEF TypeFlag
<1>2. {activeCmdCount, busyCount, blocked, pendingReserves} \subseteq Nat <=> TypeCount
  BY DEF TypeCount
<1> QED
  BY <1>1, <1>2, Zenon

(* The device starts with nothing queued, held or blocked. *)
LEMMA InitIInv == Init => IInv
<1> SUFFICES ASSUME Init PROVE IInv
  OBVIOUS
<1>1. /\ Failed = {} /\ Retrying = {} /\ Outstanding = {} /\ Reserves = {}
      /\ \A p \in Path : OnPath(p) = {} /\ Holding(p) = {}
  BY DEF Init, Failed, Retrying, Outstanding, Reserves, OnPath, Holding
<1>2. Types
  <2>1. 0 \in Path
    BY DEF Path
  <2>2. TypeFlag
    BY Zenon DEF Init, TypeFlag
  <2>3. TypeCmd /\ TypeLoop /\ TypeNet /\ TypePath
    BY <2>1 DEF Init, TypeCmd, TypeLoop, TypeNet, TypePath
  <2>4. TypeCount /\ TypeWorld /\ TypeRest
    BY DEF Init, TypeCount, TypeWorld, TypeRest
  <2> QED
    BY <2>2, <2>3, <2>4 DEF Types
<1>3. CmdShape /\ WorldShape /\ LoopShape
  BY DEF Init, CmdShape, WorldShape, LoopShape, Starter
<1>4. QueueShape
  BY <1>1 DEF Init, QueueShape
<1>5. BlockedCount
  BY <1>1, FS_EmptySet DEF Init, BlockedCount
<1>6. PathCounts
  <2> SUFFICES ASSUME NEW p \in Path
               PROVE  /\ pathCmds[p] = Count(OnPath(p)) + Count(Holding(p))
                      /\ refCount[p] = Count(OnPath(p)) + Count(Holding(p))
                                       + IF wpath = p THEN 1 ELSE 0
    BY DEF PathCounts, OnPath, Holding
  <2>1. Count(OnPath(p)) = 0 /\ Count(Holding(p)) = 0
    BY <1>1, FS_EmptySet
  <2>2. pathCmds[p] = 0 /\ refCount[p] = 0 /\ wpath # p
    BY DEF Init
  <2> QED
    BY <2>1, <2>2
<1>7. DeviceCounts
  <2>1. ~timer /\ st["timer"] = "no"
    BY DEF Init, Starter
  <2> QED
    BY <1>1, <2>1, FS_EmptySet DEF Init, DeviceCounts
<1>8. NobodyForgotten /\ SensitiveTracked
  BY <1>1 DEF Init, NobodyForgotten, SensitiveTracked
<1>9. ReservesCounted
  BY <1>1, FS_EmptySet DEF Init, ReservesCounted, Reserves
<1> QED
  BY <1>2, <1>3, <1>4, <1>5, <1>6, <1>7, <1>8, <1>9 DEF IInv, CountsHeld
-----------------------------------------------------------------------------
(* PSA queues a command: no count changes, and PSA runs the loop. *)
LEMMA QueuePreserves ==
  ASSUME IInv, NEW c \in Cmd, NEW k \in Kind, Queue(c, k)
  PROVE  IInv'
<1> USE DEF Queue
<1>1. TypeCmd' /\ TypeLoop' /\ TypeRest'
  <2>1. TypeCmd'
    BY DEF IInv, Types, TypeCmd
  <2>2. TypeLoop'
    BY DEF IInv, Types, TypeLoop
  <2>3. TypeRest'
    BY DEF IInv, Types, TypeRest
  <2> QED
    BY <2>1, <2>2, <2>3
<1>2. Types'
  BY <1>1, Frame DEF Types
<1>3. /\ Failed' = Failed /\ Retrying' = Retrying /\ Outstanding' = Outstanding
      /\ Reserves' = Reserves
  BY DEF IInv, Types, TypeCmd, Failed, Retrying, Outstanding, Reserves
<1>4. CmdShape' /\ WorldShape'
  BY DEF IInv, Types, TypeCmd, TypeWorld, CmdShape, WorldShape
<1>5. LoopShape'
  BY DEF IInv, Types, TypeLoop, LoopShape
<1>6. QueueShape'
  BY DEF IInv, Types, TypeCmd, TypeWorld, QueueShape, Retrying
<1>7. BlockedCount' /\ ReservesCounted'
  BY <1>3 DEF IInv, BlockedCount, ReservesCounted, Reserves
<1>8. DeviceCounts'
  <2>1. st'["timer"] = st["timer"]
    BY DEF IInv, Types, TypeLoop, Starter
  <2> QED
    BY <1>3, <2>1 DEF IInv, CountsHeld, DeviceCounts
<1>9. NobodyForgotten'
  BY DEF IInv, Types, TypeLoop, NobodyForgotten, Starter
<1>10. SensitiveTracked'
  BY <1>3 DEF IInv, Types, TypeCmd, SensitiveTracked, Outstanding
<1> QED
  BY <1>2, <1>4, <1>5, <1>6, <1>7, <1>8, <1>9, <1>10, Frame DEF IInv, CountsHeld
-----------------------------------------------------------------------------
(* A starter stays in the loop or leaves it with what it has to give back. *)
LEMMA LoopStep ==
  ASSUME IInv, NEW e \in Starter, st[e] \in {"check", "get"},
         NEW v \in {"check", "get", AfterStart(e)},
         st' = [st EXCEPT ![e] = v], UNCHANGED tpath
  PROVE  /\ TypeLoop' /\ LoopShape'
         /\ st'["timer"] # "no" <=> st["timer"] # "no"
         /\ \A d \in Starter : d # e => st'[d] = st[d]
         /\ st'[e] = v
<1>1. v \in {"check", "get", "end", "no"}
  BY DEF AfterStart
<1>2. TypeLoop'
  BY <1>1 DEF IInv, Types, TypeLoop
<1>3. LoopShape'
  BY <1>1 DEF IInv, Types, TypeLoop, LoopShape, AfterStart, Starter
<1>4. st'["timer"] # "no" <=> st["timer"] # "no"
  BY DEF IInv, Types, TypeLoop, AfterStart, Starter
<1> QED
  BY <1>2, <1>3, <1>4 DEF IInv, Types, TypeLoop

(* The steps of the loop that touch no command. *)
LEMMA StartCheckPreserves ==
  ASSUME IInv, NEW e \in Starter, StartCheck(e)
  PROVE  IInv'
<1> USE DEF StartCheck
<1>1. /\ TypeLoop' /\ LoopShape'
      /\ st'["timer"] # "no" <=> st["timer"] # "no"
      /\ st'[e] = IF blocked > 0 THEN AfterStart(e) ELSE "get"
  BY LoopStep
<1>2. DeviceCounts'
  BY <1>1 DEF IInv, CountsHeld, DeviceCounts, Outstanding
<1>3. NobodyForgotten'
  BY <1>1 DEF IInv, NobodyForgotten
<1> QED
  BY <1>1, <1>2, <1>3, Frame DEF IInv, CountsHeld, Types

(* ExampleDeviceStart finds nothing to issue. *)
LEMMA StartEmptyPreserves ==
  ASSUME IInv, NEW e \in Starter, StartEmpty(e)
  PROVE  IInv'
<1> USE DEF StartEmpty
<1>1. /\ TypeLoop' /\ LoopShape'
      /\ st'["timer"] # "no" <=> st["timer"] # "no"
  BY LoopStep
<1>2. DeviceCounts'
  BY <1>1 DEF IInv, CountsHeld, DeviceCounts, Outstanding
<1>3. NobodyForgotten'
  BY DEF NobodyForgotten
<1> QED
  BY <1>1, <1>2, <1>3, Frame DEF IInv, CountsHeld, Types

(* ExampleDeviceSchedStart adds its busy count with the timer. *)
LEMMA SchedCounts ==
  ASSUME IInv, ExampleDeviceSchedStart
  PROVE  /\ timer' = TRUE
         /\ (IF timer' THEN 1 ELSE 0) = 1
         /\ busyCount' = 1 + (IF st["timer"] # "no" THEN 1 ELSE 0)
                         + (IF world \in {"unblock", "sched", "unbusy"} THEN 1 ELSE 0)
<1>1. busyCount \in Nat /\ timer' = TRUE
  BY DEF IInv, Types, TypeCount, ExampleDeviceSchedStart
<1>2. CASE timer
  BY <1>1, <1>2 DEF ExampleDeviceSchedStart, IInv, CountsHeld, DeviceCounts
<1>3. CASE ~timer
  BY <1>1, <1>3 DEF ExampleDeviceSchedStart, IInv, CountsHeld, DeviceCounts
<1> QED
  BY <1>1, <1>2, <1>3

(* ExampleDeviceStart has no memory for a command: the timer retries it. *)
LEMMA StartNoMemPreserves ==
  ASSUME IInv, NEW e \in Starter, StartNoMem(e)
  PROVE  IInv'
<1> USE DEF StartNoMem, Fault
<1>1. /\ TypeLoop' /\ LoopShape'
      /\ st'["timer"] # "no" <=> st["timer"] # "no"
  BY LoopStep
<1>2. /\ timer' = TRUE /\ (IF timer' THEN 1 ELSE 0) = 1
      /\ busyCount' = 1 + (IF st["timer"] # "no" THEN 1 ELSE 0)
                      + (IF world \in {"unblock", "sched", "unbusy"} THEN 1 ELSE 0)
  BY SchedCounts
<1>3. DeviceCounts'
  BY <1>1, <1>2 DEF IInv, CountsHeld, DeviceCounts, Outstanding
<1>4. NobodyForgotten'
  BY <1>2 DEF NobodyForgotten
<1>5. TypeFlag'
  BY <1>2 DEF IInv, Types, TypeFlag
<1>6. TypeCount'
  BY <1>2 DEF IInv, Types, TypeCount
<1>7. TypeRest'
  BY DEF IInv, Types, TypeRest
<1> QED
  BY <1>1, <1>3, <1>4, <1>5, <1>6, <1>7, Frame DEF IInv, CountsHeld, Types

(* A queued command becomes work: it is in no count. *)
LEMMA StartGetPreserves ==
  ASSUME IInv, NEW e \in Starter, StartGet(e)
  PROVE  IInv'
<1> USE DEF StartGet
<1>1. PICK c \in Cmd : cst[c] = "queued" /\ cst' = [cst EXCEPT ![c] = "work"]
  OBVIOUS
<1>2. /\ TypeLoop' /\ LoopShape'
      /\ st'["timer"] # "no" <=> st["timer"] # "no"
      /\ st'[e] = "check"
  BY LoopStep
<1>3. TypeCmd'
  BY <1>1 DEF IInv, Types, TypeCmd
<1>4. /\ Failed' = Failed /\ Retrying' = Retrying /\ Outstanding' = Outstanding
      /\ Reserves' = Reserves
  BY <1>1 DEF IInv, Types, TypeCmd, Failed, Retrying, Outstanding, Reserves
<1>5. CmdShape' /\ WorldShape'
  BY <1>1 DEF IInv, Types, TypeCmd, TypeWorld, CmdShape, WorldShape
<1>6. QueueShape'
  BY <1>1, <1>4 DEF IInv, Types, TypeCmd, TypeWorld, QueueShape
<1>7. BlockedCount' /\ ReservesCounted'
  BY <1>4 DEF IInv, BlockedCount, ReservesCounted, Reserves
<1>8. DeviceCounts'
  BY <1>2, <1>4 DEF IInv, CountsHeld, DeviceCounts
<1>9. NobodyForgotten'
  BY <1>2 DEF NobodyForgotten
<1>10. SensitiveTracked'
  BY <1>1, <1>4 DEF IInv, Types, TypeCmd, SensitiveTracked
<1> QED
  BY <1>2, <1>3, <1>5, <1>6, <1>7, <1>8, <1>9, <1>10, Frame DEF IInv, CountsHeld, Types

(* The timer starts the device ... *)
LEMMA TimerStartPreserves ==
  ASSUME IInv, ExampleDeviceStartFromTimer
  PROVE  IInv'
<1> USE DEF ExampleDeviceStartFromTimer
<1>1. TypeLoop'
  BY DEF IInv, Types, TypeLoop, Starter
<1>2. LoopShape'
  BY DEF IInv, Types, TypeLoop, LoopShape
<1>3. "timer" \in Starter /\ st'["timer"] = "check" /\ st["timer"] = "no"
  BY DEF IInv, Types, TypeLoop, Starter
<1>4. DeviceCounts'
  BY <1>3 DEF IInv, CountsHeld, DeviceCounts, Outstanding
<1>5. NobodyForgotten'
  BY <1>3 DEF NobodyForgotten
<1>6. TypeFlag'
  BY DEF IInv, Types, TypeFlag
<1> QED
  BY <1>1, <1>2, <1>4, <1>5, <1>6, Frame DEF IInv, CountsHeld, Types

(* ... and gives its busy count back. *)
LEMMA TimerEndPreserves ==
  ASSUME IInv, TimerEnd
  PROVE  IInv'
<1> USE DEF TimerEnd
<1>1. TypeLoop'
  BY DEF IInv, Types, TypeLoop, Starter
<1>2. LoopShape'
  BY DEF IInv, Types, TypeLoop, LoopShape
<1>3. st'["timer"] = "no" /\ \A e \in Starter : e # "timer" => st'[e] = st[e]
  BY DEF IInv, Types, TypeLoop, Starter
<1>4. DeviceCounts' /\ busyCount' \in Nat
  BY <1>3 DEF IInv, CountsHeld, DeviceCounts, Outstanding, Types, TypeCount
<1>5. NobodyForgotten'
  BY <1>3 DEF IInv, NobodyForgotten, At
<1>6. TypeCount'
  BY <1>4 DEF IInv, Types, TypeCount
<1> QED
  BY <1>1, <1>2, <1>4, <1>5, <1>6, Frame DEF IInv, CountsHeld, Types
-----------------------------------------------------------------------------
(* PathCounts in terms of the sets that are counted *)
LEMMA PathCountsIs ==
  PathCounts <=>
    \A p \in Path :
      /\ pathCmds[p] = Count(OnPath(p)) + Count(Holding(p))
      /\ refCount[p] = Count(OnPath(p)) + Count(Holding(p)) + IF wpath = p THEN 1 ELSE 0
BY DEF PathCounts, OnPath, Holding

(* A command without a path is issued on the active one. *)
LEMMA TakePathCounts ==
  ASSUME IInv, NEW c \in Cmd, cpath[c] = NoPath,
         \A d \in Cmd : d # c => /\ cst'[d] = cst[d]
                                 /\ kind'[d] = kind[d]
                                 /\ cpath'[d] = cpath[d],
         cpath' = [cpath EXCEPT ![c] = active],
         TakePath(active), UNCHANGED <<active, tpath, wpath>>
  PROVE  PathCounts' /\ TypePath'
<1> USE DEF TakePath, ExamplePathIncRefCount
<1>1. cpath'[c] = active /\ active \in Path
  BY DEF IInv, Types, TypeCmd, TypePath
<1>2. TypePath'
  BY DEF IInv, Types, TypePath
<1>3. ASSUME NEW p \in Path
      PROVE  /\ pathCmds'[p] = Count(OnPath(p))' + Count(Holding(p))'
             /\ refCount'[p] = Count(OnPath(p))' + Count(Holding(p))'
                               + IF wpath' = p THEN 1 ELSE 0
  <2>1. Count(OnPath(p))' = Count(OnPath(p)) + (IF c \in OnPath(p)' THEN 1 ELSE 0)
                                            - (IF c \in OnPath(p) THEN 1 ELSE 0)
    BY OneCommand
  <2>2. c \notin OnPath(p) /\ (c \in OnPath(p)' <=> p = active)
    BY <1>1 DEF OnPath
  <2>3. Holding(p)' = Holding(p)
    BY DEF Holding
  <2>4. /\ pathCmds'[p] = pathCmds[p] + IF p = active THEN 1 ELSE 0
        /\ refCount'[p] = refCount[p] + IF p = active THEN 1 ELSE 0
        /\ pathCmds[p] \in Nat /\ refCount[p] \in Nat
    BY DEF IInv, Types, TypePath
  <2>5. /\ pathCmds[p] = Count(OnPath(p)) + Count(Holding(p))
        /\ refCount[p] = Count(OnPath(p)) + Count(Holding(p)) + IF wpath = p THEN 1 ELSE 0
    BY PathCountsIs DEF IInv, CountsHeld
  <2> QED
    BY <2>1, <2>2, <2>3, <2>4, <2>5, CommandCounts
<1> QED
  BY <1>2, <1>3 DEF PathCounts, OnPath, Holding

(* ExampleIssueCommand takes the active path for the command. *)
LEMMA IssuePreserves ==
  ASSUME IInv, NEW c \in Cmd, ExampleIssueCommand(c)
  PROVE  IInv'
<1> USE DEF ExampleIssueCommand
<1>1. /\ cst'[c] \in {"rpc", "path"} /\ kind'[c] = kind[c] /\ cpath'[c] = active
      /\ cpath[c] = NoPath /\ active \in Path
      /\ \A d \in Cmd : d # c => /\ cst'[d] = cst[d]
                                 /\ kind'[d] = kind[d]
                                 /\ cpath'[d] = cpath[d]
  BY DEF IInv, Types, TypeCmd, TypePath, CmdShape
<1>2. /\ c \notin Failed /\ c \notin Retrying /\ c \notin Outstanding /\ c \notin Reserves
      /\ c \notin Failed' /\ c \notin Retrying' /\ c \in Outstanding'
      /\ c \in Reserves' <=> kind[c] = "reserve"
  BY <1>1 DEF Failed, Retrying, Outstanding, Reserves
<1>3. /\ Count(Failed)' = Count(Failed) /\ Count(Retrying)' = Count(Retrying)
      /\ Count(Outstanding)' = Count(Outstanding) + 1
      /\ Count(Reserves)' = Count(Reserves) + IF kind[c] = "reserve" THEN 1 ELSE 0
  BY <1>1, <1>2, OneCommand, CommandCounts
<1>4. PathCounts' /\ TypePath'
  BY <1>1, TakePathCounts
<1>5. TypeCmd'
  BY DEF IInv, Types, TypeCmd, TypePath
<1>6. TypeCount' /\ ReservesCounted'
  <2>1. CASE kind[c] = "reserve"
    BY <1>3, <2>1, CommandCounts
       DEF BeginReserve, IInv, Types, TypeCount, ReservesCounted, Reserves
  <2>2. CASE kind[c] # "reserve"
    BY <1>3, <2>2, CommandCounts DEF IInv, Types, TypeCount, ReservesCounted, Reserves
  <2> QED
    BY <2>1, <2>2
<1>7. TypeFlag'
  <2>1. CASE kind[c] = "reserve"
    BY <2>1, Zenon DEF BeginReserve, IInv, Types, TypeFlag
  <2>2. CASE kind[c] # "reserve"
    BY <2>2 DEF IInv, Types, TypeFlag
  <2> QED
    BY <2>1, <2>2
<1>8. TypeWorld'
  <2>1. resPath' \in Path \cup {NoPath}
    BY <1>1 DEF BeginReserve, IInv, Types, TypeWorld
  <2> QED
    BY <2>1 DEF IInv, Types, TypeWorld
<1>9. TypeRest'
  BY DEF IInv, Types, TypeRest
<1>10. CmdShape'
  BY <1>1 DEF IInv, CmdShape
<1>11. WorldShape'
  BY <1>1 DEF IInv, Types, TypeWorld, WorldShape
<1>12. QueueShape'
  BY <1>1 DEF IInv, Types, TypeWorld, QueueShape, Retrying
<1>13. BlockedCount'
  BY <1>3 DEF IInv, BlockedCount
<1>14. DeviceCounts'
  BY <1>3 DEF IInv, CountsHeld, DeviceCounts
<1>15. NobodyForgotten'
  BY <1>1 DEF IInv, NobodyForgotten, At
<1>16. SensitiveTracked'
  BY <1>1 DEF IInv, SensitiveTracked, Outstanding
<1>17. Types'
  BY <1>4, <1>5, <1>6, <1>7, <1>8, <1>9, Frame DEF Types
<1> QED
  BY <1>4, <1>6, <1>10, <1>11, <1>12, <1>13, <1>14, <1>15, <1>16, <1>17, Frame
     DEF IInv, CountsHeld

(* A sensitive command during a reservation update is queued for an abort. *)
LEMMA IssueLostPreserves ==
  ASSUME IInv, NEW c \in Cmd, IssueLost(c)
  PROVE  IInv'
<1> USE DEF IssueLost
<1>1. /\ cst'[c] = "lost" /\ kind'[c] = "sensitive" /\ cpath'[c] = NoPath
      /\ \A d \in Cmd : d # c => /\ cst'[d] = cst[d]
                                 /\ kind'[d] = kind[d]
                                 /\ cpath'[d] = cpath[d]
  BY DEF IInv, Types, TypeCmd, CmdShape
<1>2. /\ c \notin Failed /\ c \notin Retrying /\ c \notin Outstanding /\ c \notin Reserves
      /\ c \notin Failed' /\ c \notin Retrying' /\ c \in Outstanding'
      /\ c \notin Reserves'
  BY <1>1 DEF Failed, Retrying, Outstanding, Reserves
<1>3. /\ Count(Failed)' = Count(Failed) /\ Count(Retrying)' = Count(Retrying)
      /\ Count(Outstanding)' = Count(Outstanding) + 1
      /\ Count(Reserves)' = Count(Reserves)
  BY <1>1, <1>2, OneCommand, CommandCounts
<1>4. TypeCmd' /\ TypeRest'
  BY DEF IInv, Types, TypeCmd, TypeRest
<1>5. TypeCount'
  BY DEF IInv, Types, TypeCount
<1>6. CmdShape'
  BY <1>1 DEF IInv, CmdShape
<1>7. WorldShape'
  BY <1>1 DEF IInv, Types, TypeWorld, WorldShape
<1>8. QueueShape'
  BY <1>1 DEF IInv, Types, TypeWorld, QueueShape, Retrying
<1>9. BlockedCount' /\ ReservesCounted'
  BY <1>3 DEF IInv, BlockedCount, ReservesCounted, Reserves
<1>10. DeviceCounts'
  BY <1>3 DEF IInv, CountsHeld, DeviceCounts
<1>11. NobodyForgotten'
  BY <1>1 DEF IInv, NobodyForgotten, At
<1>12. SensitiveTracked'
  BY <1>1 DEF IInv, SensitiveTracked, Outstanding
<1> QED
  BY <1>4, <1>5, <1>6, <1>7, <1>8, <1>9, <1>10, <1>11, <1>12, Frame
     DEF IInv, CountsHeld, Types
-----------------------------------------------------------------------------
(* What the completion of a command on its path does to the reservation. *)
ResvStep(c, o) ==
  CASE o = "ok" /\ kind[c] = "reserve" -> ExampleUpdateDevOnRes(cpath[c])
    [] o = "ok" /\ kind[c] = "release" -> ExampleUpdateDevOnRel
    [] o = "por"                       -> ExampleUpdateDevOnRel
    [] OTHER                           -> UNCHANGED resVars

(* ExampleUpdateDevOnRel changes the reservation only. *)
LEMMA RelTypes ==
  ASSUME IInv, ExampleUpdateDevOnRel, UNCHANGED <<timer, resvUpdate, retryQueue, worldVars>>
  PROVE  TypeFlag' /\ TypeWorld' /\ UNCHANGED <<reserving, pendingReserves>>
<1>1. TypeFlag'
  BY Zenon DEF ExampleUpdateDevOnRel, IInv, Types, TypeFlag
<1>2. resPath' \in Path \cup {NoPath}
  BY DEF ExampleUpdateDevOnRel, IInv, Types, TypeWorld
<1> QED
  BY <1>1, <1>2 DEF ExampleUpdateDevOnRel, IInv, Types, TypeWorld

(* A path completes a command: it is done, or is to be retried. *)
LEMMA CompletePathPreserves ==
  ASSUME IInv, NEW c \in Cmd, NEW o \in {"ok", "error", "por", "noconnect"},
         Example_CompletePathCommand(c, o)
  PROVE  IInv'
<1> USE DEF Example_CompletePathCommand
<1>1. /\ cst'[c] = IF ToRetry(c, o) THEN "failed" ELSE "done"
      /\ kind'[c] = kind[c] /\ cpath'[c] = cpath[c] /\ cpath[c] \in Path
      /\ \A d \in Cmd : d # c => /\ cst'[d] = cst[d]
                                 /\ kind'[d] = kind[d]
                                 /\ cpath'[d] = cpath[d]
  BY DEF IInv, Types, TypeCmd, CmdShape
<1>2. /\ c \notin Failed /\ c \notin Retrying /\ c \in Outstanding
      /\ c \in Reserves <=> kind[c] = "reserve"
      /\ c \in Failed' <=> ToRetry(c, o)
      /\ c \notin Retrying' /\ c \in Outstanding'
      /\ c \in Reserves' <=> kind[c] = "reserve" /\ ToRetry(c, o)
  BY <1>1 DEF Failed, Retrying, Outstanding, Reserves
<1>3. /\ Count(Failed)' = Count(Failed) + IF ToRetry(c, o) THEN 1 ELSE 0
      /\ Count(Retrying)' = Count(Retrying)
      /\ Count(Outstanding)' = Count(Outstanding)
      /\ Count(Reserves)' = Count(Reserves)
                             - IF kind[c] = "reserve" /\ ~ToRetry(c, o) THEN 1 ELSE 0
      /\ Count(Reserves)' \in Nat
  <2>1. CASE ToRetry(c, o)
    BY <1>1, <1>2, <2>1, OneCommand, CommandCounts
  <2>2. CASE ~ToRetry(c, o)
    BY <1>1, <1>2, <2>2, OneCommand, CommandCounts
  <2> QED
    BY <2>1, <2>2
<1>4. TypeCmd'
  BY DEF IInv, Types, TypeCmd
<1>5. TypeNet'
  BY <1>1 DEF IInv, Types, TypeNet
<1>6. ResvStep(c, o)
  BY DEF ResvStep
<1>7. TypeFlag' /\ TypeWorld' /\ pendingReserves' \in Nat /\ ReservesCounted'
  <2>1. CASE o = "ok" /\ kind[c] = "reserve"
    <3>1. ExampleUpdateDevOnRes(cpath[c])
      BY <1>6, <2>1 DEF ResvStep
    <3>2. TypeFlag'
      BY <3>1, Zenon DEF ExampleUpdateDevOnRes, IInv, Types, TypeFlag
    <3>3. TypeWorld'
      BY <1>1, <3>1 DEF ExampleUpdateDevOnRes, IInv, Types, TypeWorld
    <3>4. ~ToRetry(c, o)
      BY <2>1 DEF ToRetry
    <3>5. Count(Reserves)' = Count(Reserves) - 1 /\ Count(Reserves)' \in Nat
      BY <1>3, <2>1, <3>4
    <3> QED
      BY <3>1, <3>2, <3>3, <3>5, CommandCounts
         DEF ExampleUpdateDevOnRes, IInv, Types, TypeCount, ReservesCounted, Reserves
  <2>2. CASE ExampleUpdateDevOnRel \/ UNCHANGED resVars
    <3>1. TypeFlag' /\ TypeWorld' /\ UNCHANGED pendingReserves
      BY <2>2, RelTypes, Frame
    <3>2. Count(Reserves)' <= Count(Reserves)
      BY <1>3, CommandCounts
    <3> QED
      BY <1>3, <3>1, <3>2, CommandCounts
         DEF IInv, Types, TypeCount, ReservesCounted, Reserves
  <2> QED
    BY <1>6, <2>1, <2>2 DEF ResvStep
<1>8. TypeCount'
  BY <1>7 DEF IInv, Types, TypeCount
<1>9. CmdShape'
  BY <1>1 DEF IInv, CmdShape
<1>10. WorldShape'
  BY <1>1 DEF IInv, Types, TypeWorld, WorldShape
<1>11. QueueShape'
  BY <1>1 DEF IInv, Types, TypeWorld, QueueShape, Retrying
<1>12. BlockedCount'
  BY <1>3, CommandCounts DEF IInv, BlockedCount
<1>13. DeviceCounts'
  BY <1>3 DEF IInv, CountsHeld, DeviceCounts
<1>14. NobodyForgotten'
  BY <1>1 DEF IInv, Types, TypeCount, NobodyForgotten, At
<1>15. SensitiveTracked'
  <2>1. Outstanding' = Outstanding
    BY <1>1 DEF IInv, Types, TypeCmd, Outstanding
  <2> QED
    BY <1>1, <2>1 DEF IInv, SensitiveTracked, ToRetry
<1>16. Types'
  BY <1>4, <1>5, <1>7, <1>8, Frame DEF Types
<1> QED
  BY <1>7, <1>9, <1>10, <1>11, <1>12, <1>13, <1>14, <1>15, <1>16, Frame
     DEF IInv, CountsHeld
-----------------------------------------------------------------------------
(* The thread k takes over the path of the command c. *)
LEMMA PathMoves ==
  ASSUME IInv, NEW c \in Cmd, NEW k \in Cpu, cpath[c] \in Path, tpath[k] = NoPath,
         \A d \in Cmd : d # c => /\ cst'[d] = cst[d]
                                 /\ kind'[d] = kind[d]
                                 /\ cpath'[d] = cpath[d],
         cpath'[c] = NoPath, tpath' = [tpath EXCEPT ![k] = cpath[c]],
         UNCHANGED <<refCount, pathCmds, wpath>>
  PROVE  PathCounts'
<1>1. tpath'[k] = cpath[c] /\ \A j \in Cpu : j # k => tpath'[j] = tpath[j]
  BY DEF IInv, Types, TypeLoop
<1>2. ASSUME NEW p \in Path
      PROVE  /\ pathCmds'[p] = Count(OnPath(p))' + Count(Holding(p))'
             /\ refCount'[p] = Count(OnPath(p))' + Count(Holding(p))'
                               + IF wpath' = p THEN 1 ELSE 0
  <2>1. /\ Count(OnPath(p))' = Count(OnPath(p)) + (IF c \in OnPath(p)' THEN 1 ELSE 0)
                                               - (IF c \in OnPath(p) THEN 1 ELSE 0)
        /\ Count(Holding(p))' = Count(Holding(p)) + (IF k \in Holding(p)' THEN 1 ELSE 0)
                                                 - (IF k \in Holding(p) THEN 1 ELSE 0)
    BY <1>1, OneCommand, OneThread
  <2>2. /\ c \notin OnPath(p)' /\ k \notin Holding(p)
        /\ c \in OnPath(p) <=> p = cpath[c]
        /\ k \in Holding(p)' <=> p = cpath[c]
    BY <1>1 DEF OnPath, Holding
  <2>3. Count(OnPath(p))' + Count(Holding(p))' = Count(OnPath(p)) + Count(Holding(p))
    BY <2>1, <2>2, CommandCounts
  <2>4. /\ pathCmds[p] = Count(OnPath(p)) + Count(Holding(p))
        /\ refCount[p] = Count(OnPath(p)) + Count(Holding(p)) + IF wpath = p THEN 1 ELSE 0
    BY PathCountsIs DEF IInv, CountsHeld
  <2> QED
    BY <2>3, <2>4
<1> QED
  BY <1>2 DEF PathCounts, OnPath, Holding

(* A failed command moves from its path to the retry queue. *)
LEMMA QueueToRetryPreserves ==
  ASSUME IInv, NEW c \in Cmd, NEW k \in Cpu, ExampleQueueCmdToRetry(k, c)
  PROVE  IInv'
<1> USE DEF ExampleQueueCmdToRetry
<1>1. /\ cst'[c] = "retry" /\ kind'[c] = kind[c] /\ cpath'[c] = NoPath
      /\ cpath[c] \in Path
      /\ \A d \in Cmd : d # c => /\ cst'[d] = cst[d]
                                 /\ kind'[d] = kind[d]
                                 /\ cpath'[d] = cpath[d]
  BY DEF IInv, Types, TypeCmd, CmdShape
<1>2. tpath[k] = NoPath /\ k \in Starter /\ k # "timer"
  BY DEF IInv, LoopShape, Starter
<1>3. /\ c \in Failed /\ c \notin Retrying /\ c \in Outstanding
      /\ c \notin Failed' /\ c \in Retrying' /\ c \in Outstanding'
      /\ c \in Reserves <=> kind[c] = "reserve"
      /\ c \in Reserves' <=> kind[c] = "reserve"
  BY <1>1 DEF Failed, Retrying, Outstanding, Reserves
<1>4. /\ Count(Failed)' = Count(Failed) - 1 /\ Count(Retrying)' = Count(Retrying) + 1
      /\ Count(Outstanding)' = Count(Outstanding)
      /\ Count(Reserves)' = Count(Reserves)
  <2>1. /\ Count(Failed)' = Count(Failed) + (IF c \in Failed' THEN 1 ELSE 0)
                                          - (IF c \in Failed THEN 1 ELSE 0)
        /\ Count(Retrying)' = Count(Retrying) + (IF c \in Retrying' THEN 1 ELSE 0)
                                              - (IF c \in Retrying THEN 1 ELSE 0)
        /\ Count(Reserves)' = Count(Reserves) + (IF c \in Reserves' THEN 1 ELSE 0)
                                              - (IF c \in Reserves THEN 1 ELSE 0)
        /\ Count(Outstanding)' = Count(Outstanding)
                                  + (IF c \in Outstanding' THEN 1 ELSE 0)
                                  - (IF c \in Outstanding THEN 1 ELSE 0)
    BY <1>1, OneCommand
  <2> QED
    BY <1>3, <2>1, CommandCounts
<1>5. TypeCmd'
  BY DEF IInv, Types, TypeCmd
<1>6. TypeLoop'
  BY <1>1, <1>2 DEF IInv, Types, TypeLoop
<1>7. TypeWorld'
  BY DEF IInv, Types, TypeWorld
<1>8. CmdShape'
  BY <1>1 DEF IInv, CmdShape
<1>9. WorldShape'
  BY <1>1 DEF IInv, Types, TypeWorld, WorldShape
<1>10. LoopShape'
  <2>1. st'[k] = "end" /\ tpath'[k] # NoPath
    BY <1>1, <1>2 DEF IInv, Types, TypeLoop
  <2>2. \A j \in Cpu : j # k => st'[j] = st[j] /\ tpath'[j] = tpath[j]
    BY DEF IInv, Types, TypeLoop, Starter
  <2> QED
    BY <2>1, <2>2 DEF IInv, LoopShape
<1>11. QueueShape'
  <2>1. /\ retryQueue \in Seq(Cmd) /\ Len(retryQueue') = Len(retryQueue) + 1
        /\ retryQueue'[Len(retryQueue) + 1] = c
        /\ \A i \in 1..Len(retryQueue) :
             retryQueue'[i] = retryQueue[i] /\ retryQueue[i] \in Cmd
    BY DEF IInv, Types, TypeWorld
  <2>2. \A i \in 1..Len(retryQueue) : retryQueue[i] # c
    BY DEF IInv, QueueShape
  <2>3. \A i \in 1..Len(retryQueue') :
          i \in 1..Len(retryQueue) \/ i = Len(retryQueue) + 1
    BY <2>1
  <2>4. \A i \in 1..Len(retryQueue') : cst'[retryQueue'[i]] = "retry"
    BY <1>1, <2>1, <2>2, <2>3 DEF IInv, QueueShape
  <2>5. \A i, j \in 1..Len(retryQueue') : retryQueue'[i] = retryQueue'[j] => i = j
    BY <2>1, <2>2, <2>3 DEF IInv, QueueShape
  <2>6. \A d \in Retrying' : \E i \in 1..Len(retryQueue') : retryQueue'[i] = d
    <3> SUFFICES ASSUME NEW d \in Retrying'
                 PROVE  \E i \in 1..Len(retryQueue') : retryQueue'[i] = d
      OBVIOUS
    <3>1. CASE d = c
      BY <2>1, <3>1
    <3>2. CASE d # c
      <4>1. d \in Retrying
        BY <1>1, <3>2 DEF Retrying
      <4>2. PICK i \in 1..Len(retryQueue) : retryQueue[i] = d
        BY <4>1 DEF IInv, QueueShape
      <4> QED
        BY <2>1, <4>2
    <3> QED
      BY <3>1, <3>2
  <2> QED
    BY <2>4, <2>5, <2>6 DEF QueueShape
<1>12. BlockedCount' /\ ReservesCounted'
  BY <1>4, CommandCounts DEF IInv, BlockedCount, ReservesCounted, Reserves
<1>13. PathCounts'
  BY <1>1, <1>2, PathMoves
<1>14. DeviceCounts'
  <2>1. st'["timer"] = st["timer"]
    BY <1>2 DEF IInv, Types, TypeLoop, Starter
  <2> QED
    BY <1>4, <2>1 DEF IInv, CountsHeld, DeviceCounts
<1>15. NobodyForgotten'
  <2>1. \A e \in Starter : st[e] \in {"check", "get"} => st'[e] = st[e]
    BY DEF IInv, Types, TypeLoop
  <2> QED
    BY <1>1, <2>1 DEF IInv, NobodyForgotten, At
<1>16. SensitiveTracked'
  <2>1. Outstanding' = Outstanding
    BY <1>1, <1>3 DEF Outstanding
  <2> QED
    BY <1>1, <2>1 DEF IInv, SensitiveTracked
<1>17. Types'
  BY <1>5, <1>6, <1>7, Frame DEF Types
<1> QED
  BY <1>8, <1>9, <1>10, <1>11, <1>12, <1>13, <1>14, <1>15, <1>16, <1>17
     DEF IInv, CountsHeld

(* ExampleCompleteDeviceCommand, called by the thread or world e *)
LEMMA CompletePreserves ==
  ASSUME IInv, NEW c \in Cmd, NEW e \in Starter \ {"timer"},
         cst[c] \in {"done", "lost", "abort"}, st[e] = "no",
         ExampleCompleteDeviceCommand(e, c), TypeLoop', PathCounts',
         UNCHANGED <<pathVars, netVars, blocked, timerVars, worldVars, resVars,
                     retryQueue, tm, bounds>>,
         \A k \in Cpu : k # e => tpath'[k] = tpath[k]
  PROVE  IInv'
<1> USE DEF ExampleCompleteDeviceCommand
<1>1. /\ cst'[c] = "idle" /\ kind'[c] = "none" /\ cpath'[c] = NoPath
      /\ \A d \in Cmd : d # c => /\ cst'[d] = cst[d]
                                 /\ kind'[d] = kind[d]
                                 /\ cpath'[d] = cpath[d]
  BY DEF IInv, Types, TypeCmd
<1>2. st'[e] = "check" /\ \A d \in Starter : d # e => st'[d] = st[d]
  BY DEF IInv, Types, TypeLoop
<1>3. /\ c \notin Failed /\ c \notin Retrying /\ c \in Outstanding
      /\ c \notin Failed' /\ c \notin Retrying' /\ c \notin Outstanding'
      /\ c \notin Reserves'
  BY <1>1 DEF Failed, Retrying, Outstanding, Reserves
<1>4. /\ Count(Failed)' = Count(Failed) /\ Count(Retrying)' = Count(Retrying)
      /\ Count(Outstanding)' = Count(Outstanding) - 1
      /\ Count(Reserves)' <= Count(Reserves) /\ Count(Reserves)' \in Nat
      /\ Count(Outstanding)' \in Nat
  <2>1. Count(Outstanding) >= 1
    BY <1>3, CommandCounts
  <2> QED
    BY <1>1, <1>3, <2>1, OneCommand, CommandCounts
<1>5. TypeCmd'
  BY DEF IInv, Types, TypeCmd
<1>6. TypeCount'
  BY <1>4 DEF IInv, Types, TypeCount, CountsHeld, DeviceCounts
<1>7. TypeRest' /\ TypeFlag'
  BY DEF IInv, Types, TypeRest, TypeFlag
<1>8. CmdShape'
  BY <1>1 DEF IInv, CmdShape
<1>9. WorldShape'
  BY <1>1 DEF IInv, Types, TypeWorld, WorldShape
<1>10. LoopShape'
  BY <1>2 DEF IInv, LoopShape, Starter
<1>11. QueueShape'
  BY <1>1 DEF IInv, Types, TypeWorld, QueueShape, Retrying
<1>12. BlockedCount' /\ ReservesCounted'
  BY <1>4, CommandCounts DEF IInv, Types, TypeCount, BlockedCount, ReservesCounted, Reserves
<1>13. DeviceCounts'
  <2>1. st'["timer"] = st["timer"]
    BY <1>2 DEF Starter
  <2> QED
    BY <1>4, <2>1 DEF IInv, CountsHeld, DeviceCounts
<1>14. NobodyForgotten'
  BY <1>2 DEF NobodyForgotten
<1>15. SensitiveTracked'
  BY <1>1 DEF IInv, SensitiveTracked, Outstanding
<1>16. Types'
  BY <1>5, <1>6, <1>7, Frame DEF Types
<1> QED
  BY <1>8, <1>9, <1>10, <1>11, <1>12, <1>13, <1>14, <1>15, <1>16 DEF IInv, CountsHeld

(* A command that is done leaves its path ... *)
LEMMA CompleteDonePreserves ==
  ASSUME IInv, NEW c \in Cmd, NEW k \in Cpu, CompleteDone(k, c)
  PROVE  IInv'
<1> USE DEF CompleteDone
<1>1. /\ cpath'[c] = NoPath /\ cpath[c] \in Path
      /\ \A d \in Cmd : d # c => /\ cst'[d] = cst[d]
                                 /\ kind'[d] = kind[d]
                                 /\ cpath'[d] = cpath[d]
  BY DEF ExampleCompleteDeviceCommand, IInv, Types, TypeCmd, CmdShape
<1>2. tpath[k] = NoPath /\ k \in Starter \ {"timer"}
  BY DEF IInv, LoopShape, Starter
<1>3. PathCounts'
  BY <1>1, <1>2, PathMoves
<1>4. TypeLoop'
  BY <1>1, <1>2 DEF ExampleCompleteDeviceCommand, IInv, Types, TypeLoop
<1>5. \A j \in Cpu : j # k => tpath'[j] = tpath[j]
  BY DEF IInv, Types, TypeLoop
<1> QED
  BY <1>2, <1>3, <1>4, <1>5, CompletePreserves

(* A command without a path is completed: e holds none either. *)
LEMMA CompletePathless ==
  ASSUME IInv, NEW c \in Cmd, NEW e \in Starter, cst[c] \in {"lost", "abort"},
         ExampleCompleteDeviceCommand(e, c),
         UNCHANGED <<tpath, refCount, pathCmds, wpath>>
  PROVE  PathCounts' /\ TypeLoop'
<1>1. cpath[c] = NoPath
  BY DEF IInv, CmdShape
<1>2. cpath' = cpath
  BY <1>1 DEF ExampleCompleteDeviceCommand, IInv, Types, TypeCmd
<1>3. TypeLoop'
  BY DEF ExampleCompleteDeviceCommand, IInv, Types, TypeLoop
<1> QED
  BY <1>2, <1>3, Frame

(* ... one that found no path has none to leave ... *)
LEMMA CompleteLostPreserves ==
  ASSUME IInv, NEW c \in Cmd, NEW k \in Cpu, CompleteLost(k, c)
  PROVE  IInv'
<1> USE DEF CompleteLost
<1>1. k \in Starter \ {"timer"}
  BY DEF Starter
<1>2. PathCounts' /\ TypeLoop'
  BY <1>1, CompletePathless
<1> QED
  BY <1>1, <1>2, CompletePreserves

(* ... and neither has one aborted in the retry queue. *)
LEMMA CompleteAbortedPreserves ==
  ASSUME IInv, NEW c \in Cmd, CompleteAborted(c)
  PROVE  IInv'
<1> USE DEF CompleteAborted
<1>1. "tm" \in Starter \ {"timer"}
  BY DEF Starter
<1>2. PathCounts' /\ TypeLoop'
  BY <1>1, CompletePathless
<1> QED
  BY <1>1, <1>2, CompletePreserves

(* A completion gives back the reference to its path. *)
LEMMA DerefPreserves ==
  ASSUME IInv, NEW k \in Cpu, DerefCount(k)
  PROVE  IInv'
<1> USE DEF DerefCount, ExamplePathDecRefCount
<1> DEFINE p0 == tpath[k]
<1>1. k \in Starter /\ k # "timer" /\ p0 \in Path
  BY DEF IInv, Types, TypeLoop, LoopShape, Starter
<1>2. /\ tpath'[k] = NoPath /\ st'[k] = "no"
      /\ \A j \in Cpu : j # k => tpath'[j] = tpath[j]
      /\ \A e \in Starter : e # k => st'[e] = st[e]
  BY <1>1 DEF IInv, Types, TypeLoop
<1>3. TypeLoop'
  BY DEF IInv, Types, TypeLoop
<1>4. LoopShape'
  BY <1>2 DEF IInv, LoopShape, Starter
<1>5. ASSUME NEW p \in Path
      PROVE  /\ pathCmds'[p] = Count(OnPath(p))' + Count(Holding(p))'
             /\ refCount'[p] = Count(OnPath(p))' + Count(Holding(p))'
                               + IF wpath' = p THEN 1 ELSE 0
             /\ pathCmds'[p] \in Nat /\ refCount'[p] \in Nat
  <2>1. Count(Holding(p))' = Count(Holding(p)) + (IF k \in Holding(p)' THEN 1 ELSE 0)
                                              - (IF k \in Holding(p) THEN 1 ELSE 0)
    BY <1>2, OneThread
  <2>2. k \notin Holding(p)' /\ (k \in Holding(p) <=> p = p0)
    BY <1>1, <1>2 DEF Holding
  <2>3. OnPath(p)' = OnPath(p)
    BY DEF OnPath
  <2>4. /\ pathCmds'[p] = pathCmds[p] - IF p = p0 THEN 1 ELSE 0
        /\ refCount'[p] = refCount[p] - IF p = p0 THEN 1 ELSE 0
    BY <1>1 DEF IInv, Types, TypePath
  <2>5. /\ pathCmds[p] = Count(OnPath(p)) + Count(Holding(p))
        /\ refCount[p] = Count(OnPath(p)) + Count(Holding(p)) + IF wpath = p THEN 1 ELSE 0
    BY PathCountsIs DEF IInv, CountsHeld
  <2>6. Count(Holding(p))' \in Nat
    BY SubsetCount DEF Holding
  <2> HIDE DEF p0
  <2> QED
    BY <2>1, <2>2, <2>3, <2>4, <2>5, <2>6, CommandCounts
<1>6. PathCounts'
  BY <1>5 DEF PathCounts, OnPath, Holding
<1>7. TypePath'
  BY <1>5 DEF IInv, Types, TypePath
<1>8. DeviceCounts'
  <2>1. st'["timer"] = st["timer"]
    BY <1>1, <1>2 DEF Starter
  <2> QED
    BY <2>1 DEF IInv, CountsHeld, DeviceCounts, Outstanding
<1>9. NobodyForgotten'
  BY <1>1, <1>2 DEF IInv, NobodyForgotten, At
<1> QED
  BY <1>3, <1>4, <1>6, <1>7, <1>8, <1>9, Frame DEF IInv, CountsHeld, Types
-----------------------------------------------------------------------------
(* While the retry world has a command, one of the blocks is its own. *)
Retries == {"pick", "failover", "resv", "abort", "wait", "reset", "deref", "retry"}

(* A step of the retry world inside a retry changes no count. *)
LEMMA WorldMoves ==
  ASSUME IInv, world \in Retries, world' \in Retries,
         UNCHANGED <<cst, blocked, activeCmdCount, timerVars, st>>
  PROVE  BlockedCount' /\ DeviceCounts' /\ NobodyForgotten'
<1>1. BlockedCount'
  BY DEF IInv, BlockedCount, Retries, Retrying, Failed
<1>2. DeviceCounts'
  BY DEF IInv, CountsHeld, DeviceCounts, Retries, Outstanding
<1>3. NobodyForgotten'
  BY DEF IInv, NobodyForgotten, Retries, At
<1> QED
  BY <1>1, <1>2, <1>3

(* The steps of the retry world that change nothing but its place, the     *)
(* reservation or the queues of sensitive commands.                        *)
LEMMA WorldOnlyPreserves ==
  ASSUME IInv, Pick \/ ExampleUpdateResvOnFailover \/ AbortAgain \/ Reset
  PROVE  IInv'
<1> USE DEF Pick, ExampleUpdateResvOnFailover, AbortAgain, Reset, At
<1>1. /\ UNCHANGED <<cmdVars, pathVars, netVars, countVars, timerVars, wcmd, wpath,
                    rsioVars, loopVars, retryQueue, tm, bounds>>
      /\ world \in Retries /\ world' \in Retries
  BY DEF Retries
<1>2. BlockedCount' /\ DeviceCounts' /\ NobodyForgotten'
  BY <1>1, WorldMoves
<1>3. WorldShape'
  BY <1>1 DEF IInv, WorldShape, Retries
<1>4. /\ UNCHANGED <<pendingReserves, reserving>>
      /\ reserved' \in BOOLEAN /\ resPath' \in Path \cup {NoPath}
  <2>1. CASE UNCHANGED resVars
    BY <2>1 DEF IInv, Types, TypeFlag, TypeWorld
  <2>2. CASE ExampleUpdateDevOnRel
    BY <2>2 DEF ExampleUpdateDevOnRel, IInv, Types, TypeFlag, TypeWorld
  <2> QED
    BY <2>1, <2>2
<1>5. TypeWorld' /\ TypeFlag'
  BY <1>1, <1>4 DEF IInv, Types, TypeWorld, TypeFlag, Retries
<1> QED
  BY <1>1, <1>2, <1>3, <1>4, <1>5, Frame DEF IInv, CountsHeld, Types

(* ExampleAbortAllRSIOs moves commands between its own queues only. *)
LEMMA AbortPreserves ==
  ASSUME IInv, AbortOne \/ AbortWait \/ AbortEnd
  PROVE  IInv'
<1> USE DEF AbortOne, AbortWait, AbortEnd, At
<1>1. /\ UNCHANGED <<cmdVars, pathVars, netVars, countVars, timerVars, wcmd, wpath,
                    resVars, loopVars, retryQueue, tm, bounds>>
      /\ world \in Retries /\ world' \in Retries
  BY DEF Retries
<1>2. BlockedCount' /\ DeviceCounts' /\ NobodyForgotten'
  BY <1>1, WorldMoves
<1>3. WorldShape'
  BY <1>1 DEF IInv, WorldShape, Retries
<1>4. TypeWorld'
  BY <1>1 DEF IInv, Types, TypeWorld, Retries
<1>5. TypeFlag'
  BY <1>1, Zenon DEF IInv, Types, TypeFlag
<1>6. TypeRest'
  BY <1>1 DEF IInv, Types, TypeRest
<1>7. cmdQ' \cup abtQ' = cmdQ \cup abtQ /\ cmdQ' \cap abtQ' = {}
  BY DEF IInv, SensitiveTracked
<1>8. SensitiveTracked'
  BY <1>1, <1>7 DEF IInv, SensitiveTracked, Outstanding
<1> QED
  BY <1>1, <1>2, <1>3, <1>4, <1>5, <1>6, <1>8, Frame DEF IInv, CountsHeld, Types

(* There is a first path after the active one among any set of others. *)
LEMMA FailoverPath ==
  ASSUME IInv, NPaths # 1
  PROVE  ExampleGetFailoverPathIndex \in Path
<1> DEFINE after(p) == (p + NPaths - active) % NPaths
           others == Path \ {active}
           on == {p \in others : state[p] = "on"}
           from == IF on = {} THEN others ELSE on
           D == {after(p) : p \in from}
<1>1. active \in Path /\ NPaths \in Nat \ {0, 1}
  BY DEF IInv, Types, TypePath
<1>2. others # {}
  BY <1>1 DEF Path
<1>3. from \subseteq Path /\ from # {}
  BY <1>2
<1>4. \A p \in Path : after(p) \in Nat
  BY <1>1 DEF Path
<1> HIDE DEF after, from
<1>5. D \in SUBSET Nat /\ D # {}
  BY <1>3, <1>4
<1>6. PICK d \in D : \A y \in D : d <= y
  BY <1>5, LeastNat
<1>7. PICK p \in from : after(p) = d
  BY <1>6
<1>8. \A q \in from : after(p) <= after(q)
  BY <1>6, <1>7
<1>9. (CHOOSE x \in from : \A q \in from : after(x) <= after(q)) \in from
  BY <1>7, <1>8
<1>10. ExampleGetFailoverPathIndex
         = CHOOSE x \in from : \A q \in from : after(x) <= after(q)
  BY DEF ExampleGetFailoverPathIndex, after, from
<1> QED
  BY <1>3, <1>9, <1>10

(* The failover takes a reference to the path it tries ... *)
LEMMA FailoverPreserves ==
  ASSUME IInv, ExampleDevice_AttemptFailover
  PROVE  IInv'
<1> USE DEF ExampleDevice_AttemptFailover, ExamplePathIncRefCount, At
<1> DEFINE q == ExampleGetFailoverPathIndex
<1>1. world = "failover" /\ world' = "resv" /\ wpath = NoPath /\ q \in Path
  BY FailoverPath DEF IInv, WorldShape
<1> HIDE DEF q
<1>2. /\ active' = q /\ wpath' = q /\ refCount' = [refCount EXCEPT ![q] = @ + 1]
      /\ UNCHANGED <<cmdVars, pathCmds, netVars, countVars, timerVars, wcmd, resVars,
                     rsioVars, loopVars, retryQueue, tm, bounds>>
  BY DEF q
<1>3. BlockedCount' /\ DeviceCounts' /\ NobodyForgotten'
  BY <1>1, <1>2, WorldMoves DEF Retries
<1>4. WorldShape'
  BY <1>1, <1>2 DEF IInv, WorldShape
<1>5. TypeWorld'
  BY <1>1, <1>2 DEF IInv, Types, TypeWorld
<1>6. TypePath'
  BY <1>1, <1>2 DEF IInv, Types, TypePath
<1>7. PathCounts'
  <2> SUFFICES ASSUME NEW p \in Path
               PROVE  /\ pathCmds'[p] = Count(OnPath(p))' + Count(Holding(p))'
                      /\ refCount'[p] = Count(OnPath(p))' + Count(Holding(p))'
                                        + IF wpath' = p THEN 1 ELSE 0
    BY DEF PathCounts, OnPath, Holding
  <2>1. OnPath(p)' = OnPath(p) /\ Holding(p)' = Holding(p)
    BY <1>2 DEF OnPath, Holding
  <2>2. refCount'[p] = refCount[p] + IF p = q THEN 1 ELSE 0
    BY <1>1, <1>2 DEF IInv, Types, TypePath
  <2>3. /\ pathCmds[p] = Count(OnPath(p)) + Count(Holding(p))
        /\ refCount[p] = Count(OnPath(p)) + Count(Holding(p))
    BY <1>1, PathCountsIs, CommandCounts DEF IInv, CountsHeld
  <2> QED
    BY <1>1, <1>2, <2>1, <2>2, <2>3
<1> QED
  BY <1>2, <1>3, <1>4, <1>5, <1>6, <1>7, Frame DEF IInv, CountsHeld, Types

(* ... and gives it back at its end. *)
LEMMA FailoverEndPreserves ==
  ASSUME IInv, FailoverEnd
  PROVE  IInv'
<1> USE DEF FailoverEnd, ExamplePathDecRefCount, At
<1>1. world = "deref" /\ world' = "retry" /\ wpath \in Path /\ wpath' = NoPath
  BY DEF IInv, WorldShape, Types, TypeWorld
<1>2. BlockedCount' /\ DeviceCounts' /\ NobodyForgotten'
  BY <1>1, WorldMoves DEF Retries
<1>3. WorldShape'
  BY <1>1 DEF IInv, WorldShape
<1>4. TypeWorld'
  BY <1>1 DEF IInv, Types, TypeWorld
<1>5. ASSUME NEW p \in Path
      PROVE  /\ pathCmds'[p] = Count(OnPath(p))' + Count(Holding(p))'
             /\ refCount'[p] = Count(OnPath(p))' + Count(Holding(p))'
                               + IF wpath' = p THEN 1 ELSE 0
             /\ refCount'[p] \in Nat
  <2>1. OnPath(p)' = OnPath(p) /\ Holding(p)' = Holding(p)
    BY DEF OnPath, Holding
  <2>2. refCount'[p] = refCount[p] - IF p = wpath THEN 1 ELSE 0
    BY <1>1 DEF IInv, Types, TypePath
  <2>3. /\ pathCmds[p] = Count(OnPath(p)) + Count(Holding(p))
        /\ refCount[p] = Count(OnPath(p)) + Count(Holding(p)) + IF wpath = p THEN 1 ELSE 0
    BY PathCountsIs DEF IInv, CountsHeld
  <2> QED
    BY <1>1, <2>1, <2>2, <2>3, CommandCounts
<1>6. TypePath'
  BY <1>5 DEF IInv, Types, TypePath
<1>7. PathCounts'
  BY <1>5 DEF PathCounts, OnPath, Holding
<1> QED
  BY <1>2, <1>3, <1>4, <1>6, <1>7, Frame DEF IInv, CountsHeld, Types

(* The retry world takes the oldest command of the retry queue. *)
LEMMA DequeuePreserves ==
  ASSUME IInv, Dequeue
  PROVE  IInv'
<1> USE DEF Dequeue, At
<1> DEFINE c == Head(retryQueue)
<1>1. /\ retryQueue \in Seq(Cmd) /\ Len(retryQueue) >= 1 /\ c = retryQueue[1] /\ c \in Cmd
      /\ Len(retryQueue') = Len(retryQueue) - 1
      /\ \A i \in 1..Len(retryQueue') :
           retryQueue'[i] = retryQueue[i + 1] /\ i + 1 \in 1..Len(retryQueue)
      /\ retryQueue' \in Seq(Cmd)
  BY DEF IInv, Types, TypeWorld
<1>2. cst[c] = "retry"
  BY <1>1 DEF IInv, QueueShape
<1> HIDE DEF c
<1>3. /\ cst' = [cst EXCEPT ![c] = "world"] /\ wcmd' = c /\ wpath = NoPath
      /\ wcmd' # NoCmd
  BY <1>1 DEF c, IInv, WorldShape
<1>4. /\ cst'[c] = "world" /\ kind'[c] = kind[c] /\ cpath'[c] = NoPath
      /\ \A d \in Cmd : d # c => /\ cst'[d] = cst[d]
                                 /\ kind'[d] = kind[d]
                                 /\ cpath'[d] = cpath[d]
  BY <1>1, <1>2, <1>3 DEF IInv, Types, TypeCmd, CmdShape
<1>5. /\ Count(Failed)' = Count(Failed) /\ Count(Retrying)' = Count(Retrying) - 1
      /\ Count(Outstanding)' = Count(Outstanding)
      /\ Count(Reserves)' = Count(Reserves)
  <2>1. /\ c \notin Failed /\ c \in Retrying /\ c \in Outstanding
        /\ c \notin Failed' /\ c \notin Retrying' /\ c \in Outstanding'
        /\ (c \in Reserves' <=> c \in Reserves)
    BY <1>1, <1>2, <1>4 DEF Failed, Retrying, Outstanding, Reserves
  <2>2. /\ Count(Failed)' = Count(Failed) + (IF c \in Failed' THEN 1 ELSE 0)
                                          - (IF c \in Failed THEN 1 ELSE 0)
        /\ Count(Retrying)' = Count(Retrying) + (IF c \in Retrying' THEN 1 ELSE 0)
                                              - (IF c \in Retrying THEN 1 ELSE 0)
        /\ Count(Reserves)' = Count(Reserves) + (IF c \in Reserves' THEN 1 ELSE 0)
                                              - (IF c \in Reserves THEN 1 ELSE 0)
        /\ Count(Outstanding)' = Count(Outstanding)
                                  + (IF c \in Outstanding' THEN 1 ELSE 0)
                                  - (IF c \in Outstanding THEN 1 ELSE 0)
    BY <1>1, <1>4, OneCommand
  <2> QED
    BY <2>1, <2>2, CommandCounts
<1>6. TypeCmd'
  BY <1>1, <1>3 DEF IInv, Types, TypeCmd
<1>7. TypeWorld'
  BY <1>1, <1>3 DEF IInv, Types, TypeWorld
<1>8. CmdShape'
  BY <1>2, <1>4 DEF IInv, CmdShape
<1>9. WorldShape'
  BY <1>1, <1>3, <1>4 DEF IInv, WorldShape
<1>10. QueueShape'
  <2>1. \A i \in 1..Len(retryQueue') : retryQueue'[i] # c
    BY <1>1 DEF IInv, QueueShape
  <2>2. \A i \in 1..Len(retryQueue') : cst'[retryQueue'[i]] = "retry"
    BY <1>1, <1>4, <2>1 DEF IInv, QueueShape
  <2>3. \A i, j \in 1..Len(retryQueue') : retryQueue'[i] = retryQueue'[j] => i = j
    <3> SUFFICES ASSUME NEW i \in 1..Len(retryQueue'), NEW j \in 1..Len(retryQueue'),
                        retryQueue'[i] = retryQueue'[j]
                 PROVE  i = j
      OBVIOUS
    <3>1. i + 1 = j + 1
      BY <1>1 DEF IInv, QueueShape
    <3> QED
      BY <3>1
  <2>4. \A d \in Retrying' : \E i \in 1..Len(retryQueue') : retryQueue'[i] = d
    <3> SUFFICES ASSUME NEW d \in Retrying'
                 PROVE  \E i \in 1..Len(retryQueue') : retryQueue'[i] = d
      OBVIOUS
    <3>1. d # c /\ d \in Retrying
      BY <1>4 DEF Retrying
    <3>2. PICK i \in 1..Len(retryQueue) : retryQueue[i] = d
      BY <3>1 DEF IInv, QueueShape
    <3>3. i # 1 /\ i - 1 \in 1..Len(retryQueue') /\ (i - 1) + 1 = i
      BY <1>1, <3>1, <3>2
    <3> QED
      BY <1>1, <3>2, <3>3
  <2> QED
    BY <2>2, <2>3, <2>4 DEF QueueShape
<1>11. BlockedCount' /\ ReservesCounted'
  BY <1>5, CommandCounts DEF IInv, BlockedCount, ReservesCounted, Reserves
<1>12. DeviceCounts'
  BY <1>5 DEF IInv, CountsHeld, DeviceCounts
<1>13. NobodyForgotten'
  BY <1>1, <1>4 DEF IInv, NobodyForgotten
<1>14. SensitiveTracked'
  <2>1. Outstanding' = Outstanding
    BY <1>2, <1>4 DEF Outstanding
  <2> QED
    BY <1>1, <1>2, <1>4, <2>1 DEF IInv, SensitiveTracked
<1>15. Types'
  BY <1>6, <1>7, Frame DEF Types
<1> QED
  BY <1>8, <1>9, <1>10, <1>11, <1>12, <1>13, <1>14, <1>15, Frame DEF IInv, CountsHeld

(* ExampleRetryCmd issues the command down the active path. *)
LEMMA RetryPreserves ==
  ASSUME IInv, ExampleRetryCmd
  PROVE  IInv'
<1> USE DEF ExampleRetryCmd, At
<1> DEFINE c == wcmd
<1>1. c \in Cmd /\ cst[c] = "world" /\ cpath[c] = NoPath /\ active \in Path
  BY DEF IInv, WorldShape, CmdShape, Types, TypeWorld, TypePath
<1>2. /\ cst'[c] = "path" /\ kind'[c] = kind[c] /\ cpath'[c] = active
      /\ \A d \in Cmd : d # c => /\ cst'[d] = cst[d]
                                 /\ kind'[d] = kind[d]
                                 /\ cpath'[d] = cpath[d]
      /\ cpath' = [cpath EXCEPT ![c] = active]
  BY <1>1 DEF IInv, Types, TypeCmd
<1>3. TypeCmd'
  BY <1>1 DEF IInv, Types, TypeCmd
<1>4. world = "retry" /\ world' = "unblock" /\ wcmd' = NoCmd /\ wpath' = NoPath
  BY DEF IInv, WorldShape
<1>5. WorldShape'
  BY <1>4 DEF IInv, WorldShape
<1>6. TypeWorld'
  BY <1>4 DEF IInv, Types, TypeWorld
<1>7. TypeCount'
  BY DEF IInv, Types, TypeCount
<1> HIDE DEF c
<1>8. PathCounts' /\ TypePath'
  BY <1>1, <1>2, TakePathCounts
<1>9. /\ Count(Failed)' = Count(Failed) /\ Count(Retrying)' = Count(Retrying)
      /\ Count(Outstanding)' = Count(Outstanding)
      /\ Count(Reserves)' = Count(Reserves)
  <2>1. /\ c \notin Failed /\ c \notin Retrying /\ c \in Outstanding
        /\ c \notin Failed' /\ c \notin Retrying' /\ c \in Outstanding'
        /\ (c \in Reserves' <=> c \in Reserves)
    BY <1>1, <1>2 DEF Failed, Retrying, Outstanding, Reserves
  <2>2. /\ Count(Failed)' = Count(Failed) + (IF c \in Failed' THEN 1 ELSE 0)
                                          - (IF c \in Failed THEN 1 ELSE 0)
        /\ Count(Retrying)' = Count(Retrying) + (IF c \in Retrying' THEN 1 ELSE 0)
                                              - (IF c \in Retrying THEN 1 ELSE 0)
        /\ Count(Reserves)' = Count(Reserves) + (IF c \in Reserves' THEN 1 ELSE 0)
                                              - (IF c \in Reserves THEN 1 ELSE 0)
        /\ Count(Outstanding)' = Count(Outstanding)
                                  + (IF c \in Outstanding' THEN 1 ELSE 0)
                                  - (IF c \in Outstanding THEN 1 ELSE 0)
    BY <1>1, <1>2, OneCommand
  <2> QED
    BY <2>1, <2>2, CommandCounts
<1>10. CmdShape'
  BY <1>1, <1>2 DEF IInv, CmdShape
<1>11. QueueShape'
  BY <1>1, <1>2 DEF IInv, Types, TypeWorld, QueueShape, Retrying
<1>12. BlockedCount' /\ ReservesCounted'
  BY <1>4, <1>9 DEF IInv, BlockedCount, ReservesCounted, Reserves
<1>13. DeviceCounts'
  BY <1>4, <1>9 DEF IInv, CountsHeld, DeviceCounts, Types, TypeCount
<1>14. NobodyForgotten'
  BY <1>1, <1>2, <1>4 DEF IInv, NobodyForgotten
<1>15. SensitiveTracked'
  <2>1. Outstanding' = Outstanding
    BY <1>1, <1>2 DEF Outstanding
  <2> QED
    BY <1>1, <1>2, <2>1 DEF IInv, SensitiveTracked
<1>16. Types'
  BY <1>3, <1>6, <1>7, <1>8, Frame DEF Types
<1> QED
  BY <1>5, <1>8, <1>10, <1>11, <1>12, <1>13, <1>14, <1>15, <1>16, Frame
     DEF IInv, CountsHeld

(* The retry ends and unblocks the device. *)
LEMMA UnblockPreserves ==
  ASSUME IInv, ExampleDevice_Unblock
  PROVE  IInv'
<1> USE DEF ExampleDevice_Unblock, At
<1>1. /\ world = "unblock" /\ world' \in {"sched", "unbusy"} /\ blocked' = blocked - 1
      /\ blocked >= 1 /\ blocked \in Nat
      /\ blocked = 1 => world' = "sched"
  BY CommandCounts DEF IInv, BlockedCount, Types, TypeCount
<1>2. Failed' = Failed /\ Retrying' = Retrying /\ Outstanding' = Outstanding
  BY DEF Failed, Retrying, Outstanding
<1>3. BlockedCount'
  BY <1>1, <1>2, CommandCounts DEF IInv, BlockedCount
<1>4. DeviceCounts'
  BY <1>1, <1>2 DEF IInv, CountsHeld, DeviceCounts
<1>5. NobodyForgotten'
  BY <1>1 DEF IInv, NobodyForgotten
<1>6. WorldShape'
  BY <1>1 DEF IInv, WorldShape
<1>7. TypeWorld'
  BY <1>1 DEF IInv, Types, TypeWorld
<1>8. TypeCount'
  BY <1>1 DEF IInv, Types, TypeCount
<1> QED
  BY <1>3, <1>4, <1>5, <1>6, <1>7, <1>8, Frame DEF IInv, CountsHeld, Types

(* The last unblock schedules the timer that starts the device ... *)
LEMMA SchedPreserves ==
  ASSUME IInv, Sched
  PROVE  IInv'
<1> USE DEF Sched, At
<1>1. /\ timer' = TRUE /\ (IF timer' THEN 1 ELSE 0) = 1
      /\ busyCount' = 1 + (IF st["timer"] # "no" THEN 1 ELSE 0)
                      + (IF world \in {"unblock", "sched", "unbusy"} THEN 1 ELSE 0)
  BY SchedCounts
<1>2. world = "sched" /\ world' = "unbusy"
  OBVIOUS
<1>3. DeviceCounts' /\ busyCount' \in Nat
  BY <1>1, <1>2 DEF IInv, CountsHeld, DeviceCounts, Outstanding
<1>4. BlockedCount'
  BY <1>2 DEF IInv, BlockedCount, Failed, Retrying
<1>5. NobodyForgotten'
  BY <1>1 DEF NobodyForgotten
<1>6. WorldShape'
  BY <1>2 DEF IInv, WorldShape
<1>7. TypeWorld' /\ TypeFlag'
  BY <1>1, <1>2 DEF IInv, Types, TypeWorld, TypeFlag
<1>8. TypeCount'
  BY <1>3 DEF IInv, Types, TypeCount
<1> QED
  BY <1>3, <1>4, <1>5, <1>6, <1>7, <1>8, Frame DEF IInv, CountsHeld, Types

(* ... and the retry world gives its busy count back. *)
LEMMA UnbusyPreserves ==
  ASSUME IInv, ExampleDeviceDecBusyCount
  PROVE  IInv'
<1> USE DEF ExampleDeviceDecBusyCount, At
<1>1. world = "unbusy" /\ world' = "idle"
  OBVIOUS
<1>2. DeviceCounts' /\ busyCount' \in Nat
  BY <1>1 DEF IInv, CountsHeld, DeviceCounts, Outstanding, Types, TypeCount
<1>3. BlockedCount'
  BY <1>1 DEF IInv, BlockedCount, Failed, Retrying
<1>4. NobodyForgotten'
  BY <1>1 DEF IInv, NobodyForgotten
<1>5. WorldShape'
  BY <1>1 DEF IInv, WorldShape
<1>6. TypeWorld'
  BY <1>1 DEF IInv, Types, TypeWorld
<1>7. TypeCount'
  BY <1>2 DEF IInv, Types, TypeCount
<1> QED
  BY <1>2, <1>3, <1>4, <1>5, <1>6, <1>7, Frame DEF IInv, CountsHeld, Types
-----------------------------------------------------------------------------
(* The retry queue without the commands A: the others, each once. *)
LEMMA TakenQueue ==
  ASSUME IInv, NEW A \in SUBSET Retrying, TakeFromRetryQueue(A)
  PROVE  /\ retryQueue' \in Seq(Cmd)
         /\ \A i \in 1..Len(retryQueue') : retryQueue'[i] \in Retrying \ A
         /\ \A c \in Retrying \ A : \E i \in 1..Len(retryQueue') : retryQueue'[i] = c
         /\ \A i, j \in 1..Len(retryQueue') : retryQueue'[i] = retryQueue'[j] => i = j
<1> DEFINE kept == {i \in DOMAIN retryQueue : retryQueue[i] \notin A}
           n == Count(kept)
<1>1. retryQueue \in Seq(Cmd) /\ DOMAIN retryQueue = 1..Len(retryQueue)
  BY DEF IInv, Types, TypeWorld
<1>2. kept \in SUBSET (1..Len(retryQueue)) /\ IsFiniteSet(kept) /\ n \in Nat
  <2>1. kept \in SUBSET (1..Len(retryQueue)) /\ Len(retryQueue) \in Nat
    BY <1>1
  <2>2. IsFiniteSet(1..Len(retryQueue))
    BY <2>1, FS_Interval
  <2> QED
    BY <2>1, <2>2, SubsetCount
<1>3. PICK f \in [1..n -> kept] :
        /\ \A i, j \in DOMAIN f : i < j => f[i] < f[j]
        /\ retryQueue' = [i \in DOMAIN f |-> retryQueue[f[i]]]
  BY DEF TakeFromRetryQueue
<1>4. \A i \in kept : /\ i \in 1..Len(retryQueue)
                      /\ retryQueue[i] \in Retrying \ A
                      /\ retryQueue[i] \in Cmd
  BY <1>1 DEF IInv, QueueShape, Retrying
<1>5. \A c \in Retrying \ A : \E i \in kept : retryQueue[i] = c
  BY <1>1 DEF IInv, QueueShape
<1>6. \A i, j \in kept : retryQueue[i] = retryQueue[j] => i = j
  BY <1>1 DEF IInv, QueueShape
<1>7. IsFiniteSet(1..n) /\ Cardinality(1..n) = n
  BY <1>2, FS_Interval
<1>8. Cardinality(kept) = n
  OBVIOUS
<1> HIDE DEF n, kept
<1>9. \A i, j \in 1..n : f[i] = f[j] => i = j
  <2> SUFFICES ASSUME NEW i \in 1..n, NEW j \in 1..n, i # j PROVE f[i] # f[j]
    OBVIOUS
  <2>1. f[i] \in Nat /\ f[j] \in Nat
    <3>1. f[i] \in kept /\ f[j] \in kept
      OBVIOUS
    <3>2. \A x \in kept : x \in Nat
      BY <1>1, <1>2
    <3> QED
      BY <3>1, <3>2
  <2>2. f[i] < f[j] \/ f[j] < f[i]
    BY <1>2, <1>3
  <2> QED
    BY <2>1, <2>2
<1>10. f \in Injection(1..n, kept)
  BY <1>9 DEF Injection, IsInjective
<1>11. f \in Surjection(1..n, kept)
  BY <1>2, <1>7, <1>8, <1>10, FS_Injection
<1>12. \A k \in kept : \E i \in 1..n : f[i] = k
  BY <1>11 DEF Surjection
<1>13. /\ retryQueue' = [i \in 1..n |-> retryQueue[f[i]]]
       /\ \A i \in 1..n : f[i] \in kept
  BY <1>3
<1>14. retryQueue' \in Seq(Cmd) /\ Len(retryQueue') = n
  <2>1. \A i \in 1..n : retryQueue[f[i]] \in Cmd
    BY <1>4, <1>13
  <2>2. n \in Nat
    BY <1>2
  <2> QED
    BY <1>13, <2>1, <2>2
<1>15. \A i \in 1..n : retryQueue'[i] = retryQueue[f[i]]
  BY <1>13
<1>16. \A i \in 1..Len(retryQueue') : retryQueue'[i] \in Retrying \ A
  BY <1>4, <1>13, <1>14, <1>15
<1>17. \A i, j \in 1..Len(retryQueue') : retryQueue'[i] = retryQueue'[j] => i = j
  <2> SUFFICES ASSUME NEW i \in 1..n, NEW j \in 1..n, retryQueue'[i] = retryQueue'[j]
               PROVE  i = j
    BY <1>14
  <2>1. retryQueue[f[i]] = retryQueue[f[j]] /\ f[i] \in kept /\ f[j] \in kept
    BY <1>13, <1>15
  <2>2. f[i] = f[j]
    BY <1>6, <2>1
  <2> QED
    BY <1>9, <2>2
<1>18. ASSUME NEW c \in Retrying \ A
       PROVE  \E i \in 1..Len(retryQueue') : retryQueue'[i] = c
  BY <1>5, <1>12, <1>14, <1>15
<1> QED
  BY <1>14, <1>16, <1>17, <1>18

(* Each command that leaves the retry queue takes its block along. *)
LEMMA TakeAbortsPreserves ==
  ASSUME IInv, NEW A \in SUBSET {c \in Cmd : cst[c] = "retry"}, TakeAborts(A)
  PROVE  IInv'
<1> USE DEF TakeAborts, Fault
<1>1. A \in SUBSET Retrying /\ A \in SUBSET Cmd
  BY DEF Retrying
<1>2. \A c \in Cmd : cst'[c] = IF c \in A THEN "abort" ELSE cst[c]
  OBVIOUS
<1>3. \A c \in A : cst[c] = "retry"
  OBVIOUS
<1>4. /\ Failed' = Failed /\ Outstanding' = Outstanding /\ Retrying' = Retrying \ A
  BY <1>1, <1>2, <1>3 DEF Failed, Outstanding, Retrying
<1>5. Reserves' = Reserves
  BY <1>2, <1>3, <1>4 DEF Reserves, Outstanding
<1>6. /\ Retrying \in SUBSET Cmd
      /\ Count(A) \in Nat /\ Count(Retrying)' = Count(Retrying) - Count(A)
      /\ Count(A) <= Count(Retrying)
  <2>1. Retrying \in SUBSET Cmd
    BY DEF Retrying
  <2> QED
    BY <1>1, <1>4, <2>1, CountWithout
<1>7. blocked \in Nat /\ blocked' = blocked - Count(A) /\ blocked >= Count(A)
  BY <1>6, CommandCounts DEF IInv, BlockedCount, Types, TypeCount
<1>8. BlockedCount'
  BY <1>4, <1>6, <1>7, CommandCounts DEF IInv, BlockedCount
<1>9. /\ retryQueue' \in Seq(Cmd)
      /\ \A i \in 1..Len(retryQueue') : retryQueue'[i] \in Retrying'
      /\ \A c \in Retrying' : \E i \in 1..Len(retryQueue') : retryQueue'[i] = c
      /\ \A i, j \in 1..Len(retryQueue') : retryQueue'[i] = retryQueue'[j] => i = j
  BY <1>1, <1>4, TakenQueue
<1>10. QueueShape'
  BY <1>9 DEF QueueShape, Retrying
<1>11. CmdShape'
  BY <1>2, <1>3 DEF IInv, CmdShape
<1>12. WorldShape'
  BY <1>2, <1>3 DEF IInv, WorldShape, Types, TypeWorld
<1>13. TypeCmd'
  BY DEF IInv, Types, TypeCmd
<1>14. TypeWorld'
  BY <1>9 DEF IInv, Types, TypeWorld
<1>15. TypeRest'
  BY DEF IInv, Types, TypeRest
<1>16. TypeFlag' /\ TypeCount' /\ DeviceCounts'
  <2>1. CASE A # {} /\ blocked = Count(A)
    <3>1. /\ timer' = TRUE /\ (IF timer' THEN 1 ELSE 0) = 1
          /\ busyCount' = 1 + (IF st["timer"] # "no" THEN 1 ELSE 0)
                          + (IF world \in {"unblock", "sched", "unbusy"} THEN 1 ELSE 0)
      BY <2>1, SchedCounts
    <3>2. TypeFlag'
      BY <3>1 DEF IInv, Types, TypeFlag
    <3>3. TypeCount'
      BY <1>6, <1>7, <3>1 DEF IInv, Types, TypeCount
    <3>4. DeviceCounts'
      BY <1>4, <3>1 DEF IInv, CountsHeld, DeviceCounts
    <3> QED
      BY <3>2, <3>3, <3>4
  <2>2. CASE ~(A # {} /\ blocked = Count(A))
    <3>1. UNCHANGED timerVars
      BY <2>2
    <3>2. TypeCount'
      BY <1>6, <1>7, <3>1 DEF IInv, Types, TypeCount
    <3>3. DeviceCounts'
      BY <1>4, <3>1 DEF IInv, CountsHeld, DeviceCounts
    <3> QED
      BY <3>1, <3>2, <3>3, Frame
  <2> QED
    BY <2>1, <2>2
<1>17. NobodyForgotten'
  <2>1. CASE blocked = 0
    <3>1. Count(A) = 0 /\ A = {}
      BY <1>1, <1>6, <1>7, <2>1, CountZero
    <3>2. UNCHANGED timerVars /\ cst' = cst /\ blocked' = blocked
      BY <1>7, <3>1 DEF IInv, Types, TypeCmd
    <3> QED
      BY <3>2, Frame
  <2>2. CASE blocked # 0 /\ blocked = Count(A)
    <3>1. A # {}
      BY <1>1, <2>2, CountZero
    <3>2. timer' = TRUE
      BY <2>2, <3>1, SchedCounts
    <3> QED
      BY <3>2 DEF NobodyForgotten
  <2>3. CASE blocked # Count(A)
    <3>1. blocked' > 0
      BY <1>6, <1>7, <2>3
    <3> QED
      BY <3>1 DEF NobodyForgotten
  <2> QED
    BY <2>1, <2>2, <2>3
<1>18. SensitiveTracked'
  BY <1>2, <1>3, <1>4 DEF IInv, SensitiveTracked
<1>19. ReservesCounted'
  BY <1>5 DEF IInv, ReservesCounted, Reserves
<1>20. Types'
  BY <1>13, <1>14, <1>15, <1>16, Frame DEF Types
<1> QED
  BY <1>8, <1>10, <1>11, <1>12, <1>16, <1>17, <1>18, <1>19, <1>20, Frame
     DEF IInv, CountsHeld

(* The rest of the task management request changes the reservation only. *)
LEMMA TmPathsPreserves ==
  ASSUME IInv, TmPaths
  PROVE  IInv'
<1> USE DEF TmPaths
<1>1. TypeFlag' /\ TypeWorld' /\ UNCHANGED <<reserving, pendingReserves>>
  <2>1. CASE ExampleUpdateDevOnRel
    BY <2>1, RelTypes
  <2>2. CASE UNCHANGED resVars
    BY <2>2, Frame
  <2> QED
    BY <2>1, <2>2
<1>2. TypeRest'
  BY DEF IInv, Types, TypeRest
<1> QED
  BY <1>1, <1>2, Frame DEF IInv, CountsHeld, Types

(* Links and path states change no count. *)
LEMMA LinkPreserves ==
  ASSUME IInv, NEW p \in Path, LinkChange(p) \/ ExampleProbePath(p)
  PROVE  IInv'
<1> USE DEF LinkChange, ExampleProbePath, ExampleUpdatePathState, Fault
<1>1. TypeNet'
  BY DEF IInv, Types, TypeNet
<1>2. TypeRest'
  BY DEF IInv, Types, TypeRest
<1>3. UNCHANGED <<cmdVars, pathVars, countVars, timerVars, worldVars, resVars, rsioVars,
                  loopVars, retryQueue, tm>>
  OBVIOUS
<1> QED
  BY <1>1, <1>2, <1>3, Frame DEF IInv, CountsHeld, Types
-----------------------------------------------------------------------------
(* The steps of ExampleDeviceStart, ... *)
LEMMA StartPreserves ==
  ASSUME IInv, NEW e \in Starter, StartStep(e)
  PROVE  IInv'
BY StartCheckPreserves, StartGetPreserves, StartEmptyPreserves, StartNoMemPreserves
   DEF StartStep

(* ... those of the retry world, ... *)
LEMMA WorldPreserves ==
  ASSUME IInv, WorldStep
  PROVE  IInv'
BY DequeuePreserves, WorldOnlyPreserves, FailoverPreserves, AbortPreserves,
   FailoverEndPreserves, RetryPreserves, UnblockPreserves, SchedPreserves,
   UnbusyPreserves DEF WorldStep

(* ... and so all steps, keep the invariant. *)
LEMMA StepPreserves ==
  ASSUME IInv, [Next]_vars
  PROVE  IInv'
<1>1. ASSUME NEW c \in Cmd, CmdStep(c) PROVE IInv'
  BY <1>1, IssuePreserves, IssueLostPreserves, CompletePathPreserves,
     QueueToRetryPreserves, CompleteDonePreserves, CompleteLostPreserves DEF CmdStep
<1>2. ASSUME NEW c \in Cmd, NEW k \in Kind, Queue(c, k) PROVE IInv'
  BY <1>2, QueuePreserves
<1>3. ASSUME NEW k \in Cpu, CpuStep(k) PROVE IInv'
  BY <1>3, StartPreserves, DerefPreserves DEF CpuStep, Starter
<1>4. CASE StartStep("psa") \/ TimerStep \/ TmStep
  BY <1>4, StartPreserves, TimerStartPreserves, TimerEndPreserves, TmPathsPreserves,
     CompleteAbortedPreserves DEF TimerStep, TmStep, Starter
<1>5. CASE WorldStep
  BY <1>5, WorldPreserves
<1>6. ASSUME NEW A \in SUBSET {c \in Cmd : cst[c] = "retry"}, TakeAborts(A) PROVE IInv'
  BY <1>6, TakeAbortsPreserves
<1>7. ASSUME NEW p \in Path, LinkChange(p) \/ ExampleProbePath(p) PROVE IInv'
  BY <1>7, LinkPreserves
<1>8. CASE UNCHANGED vars
  BY <1>8, Frame DEF vars, IInv, CountsHeld, Types
<1> QED
  BY <1>1, <1>2, <1>3, <1>4, <1>5, <1>6, <1>7, <1>8 DEF Next

(* The inductive invariant holds in every state of every behaviour. *)
THEOREM Invariance == Spec => []IInv
<1>1. IInv /\ [Next]_vars => IInv'
  BY StepPreserves
<1> QED
  BY <1>1, InitIInv, PTL DEF Spec

(* Every variable keeps its type; in particular no count of the code goes  *)
(* below zero: those of a path, of the device and of the reserves.         *)
THEOREM TypeCorrect == Spec => []TypeOK
<1>1. IInv => TypeOK
  BY TypesAreTypeOK DEF IInv
<1> QED
  BY <1>1, Invariance, PTL

(* ExampleDevice_Unblock is called once for every block: blocked is the    *)
(* number of commands that wait for the retry world or are on their way.   *)
THEOREM BlockedByRetriesHolds == Spec => []BlockedByRetries
<1>1. IInv => BlockedByRetries
  <2> SUFFICES ASSUME IInv PROVE BlockedByRetries
    OBVIOUS
  <2>1. Retrying \in SUBSET Cmd /\ retryQueue \in Seq(Cmd)
    BY DEF Retrying, IInv, Types, TypeWorld
  <2>2. \A i \in 1..Len(retryQueue) : retryQueue[i] \in Retrying
    BY <2>1 DEF IInv, QueueShape, Retrying
  <2>3. Len(retryQueue) = Count(Retrying)
    BY <2>1, <2>2, QueueLength DEF IInv, QueueShape
  <2> QED
    BY <2>3 DEF IInv, BlockedCount, BlockedByRetries, Failed
<1> QED
  BY <1>1, Invariance, PTL

(* The counts ExampleUnclaimPath waits for are exactly those of the users  *)
(* of the path and the device, on every error path.                        *)
THEOREM CountsHeldHolds == Spec => []CountsHeld
<1>1. IInv => CountsHeld
  BY DEF IInv
<1> QED
  BY <1>1, Invariance, PTL

(* A queued command always has somebody who will start it. *)
THEOREM NobodyForgottenHolds == Spec => []NobodyForgotten
<1>1. IInv => NobodyForgotten
  BY DEF IInv
<1> QED
  BY <1>1, Invariance, PTL

(* The queues of ExampleAbortAllRSIOs hold exactly the outstanding         *)
(* reservation sensitive commands, none of which is retried.               *)
THEOREM SensitiveTrackedHolds == Spec => []SensitiveTracked
<1>1. IInv => SensitiveTracked
  BY DEF IInv
<1> QED
  BY <1>1, Invariance, PTL

(* The assert of ExampleUpdateDevOnRes: pendingReserves covers every       *)
(* RESERVE that has not been completed.                                    *)
THEOREM ReservesCountedHolds == Spec => []ReservesCounted
<1>1. IInv => ReservesCounted
  BY DEF IInv
<1> QED
  BY <1>1, Invariance, PTL
=============================================================================
