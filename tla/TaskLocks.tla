----------------------------- MODULE TaskLocks ------------------------------
(***************************************************************************)
(* The locks and rendez of libtask (qlock.c, rendez.c), used by tasks that *)
(* may at any time take or try a lock, release the one they hold, sleep    *)
(* and wake others, yield, exit and create tasks.  A task holds at most    *)
(* one of the two locks at a time and releases only what it holds.         *)
(***************************************************************************)
EXTENDS Task

CONSTANT Workers     \* bound: the tasks of a thread that share locks or a timer

ASSUME LocksAssumption == Workers \in 1..MaxTask

VARIABLE lk

NoQLock  == [owner |-> Nobody, waiting |-> <<>>]
NoRWLock == [readers |-> 0, writer |-> Nobody, rwaiting |-> <<>>, wwaiting |-> <<>>]

NoLocks ==
  [q |-> NoQLock, rw |-> NoRWLock,
   rendez |-> <<>>,                          \* r.waiting; r.l is the lock q
   holds  |-> [t \in Tasks |-> "none"]]
-----------------------------------------------------------------------------
(* _qlock and qunlock on the lock itself.  canqlock, canrlock and canwlock *)
(* do what the blocking calls do, or fail without effect.                  *)
Lock(q, t) ==
  IF q.owner = Nobody THEN [q EXCEPT !.owner = t]
  ELSE [q EXCEPT !.waiting = Append(@, t)]

(* fault: the lock is left free for the task that is made ready *)
Unlock_free(q) ==
  IF q.waiting = <<>> THEN NoQLock
  ELSE [owner |-> Nobody, waiting |-> Tail(q.waiting)]

Unlock(q) ==
  IF q.waiting = <<>> THEN NoQLock
  ELSE [owner |-> Head(q.waiting), waiting |-> Tail(q.waiting)]

(* qunlock as the scheduler sees it *)
AfterUnlock(s, q) ==
  IF q.owner = Nobody THEN Abort(s, "qunlock") ELSE ReadyHead(s, q.waiting)

_qlock(t) ==
  /\ At(t, "run") /\ lk.holds[t] = "none"
  /\ lk'  = [lk EXCEPT !.q = Lock(@, t),
                       !.holds[t] = IF lk.q.owner = Nobody THEN "q" ELSE @]
  /\ sch' = IF lk.q.owner = Nobody THEN sch ELSE taskswitch(sch, t, "qlock")

(* the second half of _qlock, behind its taskswitch *)
Locked(t) ==
  /\ At(t, "qlock")
  /\ sch' = IF lk.q.owner # t THEN Abort(sch, "qlock") ELSE Goto(sch, t, "run")
  /\ lk'  = [lk EXCEPT !.holds[t] = "q"]

qunlock(t) ==
  /\ At(t, "run") /\ lk.holds[t] = "q"
  /\ sch' = AfterUnlock(sch, lk.q)
  /\ lk'  = [lk EXCEPT !.q = Unlock(@), !.holds[t] = "none"]

(* a waiting writer keeps new readers out *)
CanRead(rw)  == rw.writer = Nobody /\ rw.wwaiting = <<>>
CanWrite(rw) == rw.writer = Nobody /\ rw.readers = 0

_rlock(t) ==
  /\ At(t, "run") /\ lk.holds[t] = "none"
  /\ IF CanRead(lk.rw)
     THEN /\ lk'  = [lk EXCEPT !.rw.readers = @ + 1, !.holds[t] = "r"]
          /\ UNCHANGED sch
     ELSE /\ lk'  = [lk EXCEPT !.rw.rwaiting = Append(@, t)]
          /\ sch' = taskswitch(sch, t, "rlock")

_wlock(t) ==
  /\ At(t, "run") /\ lk.holds[t] = "none"
  /\ IF CanWrite(lk.rw)
     THEN /\ lk'  = [lk EXCEPT !.rw.writer = t, !.holds[t] = "w"]
          /\ UNCHANGED sch
     ELSE /\ lk'  = [lk EXCEPT !.rw.wwaiting = Append(@, t)]
          /\ sch' = taskswitch(sch, t, "wlock")

(* back from the taskswitch, _rlock and _wlock return without a look at    *)
(* the lock                                                                *)
RWLocked(t) ==
  \E l \in {"rlock", "wlock"} :
    /\ At(t, l)
    /\ sch' = Goto(sch, t, "run")
    /\ lk'  = [lk EXCEPT !.holds[t] = IF l = "rlock" THEN "r" ELSE "w"]

(* the oldest waiting writer becomes the owner *)
HandToWriter(rw) ==
  IF rw.readers = 0 /\ rw.wwaiting # <<>>
  THEN [rw EXCEPT !.writer = Head(rw.wwaiting), !.wwaiting = Tail(@)] ELSE rw

runlock(t) ==
  LET rw == [lk.rw EXCEPT !.readers = @ - 1]
  IN  /\ At(t, "run") /\ lk.holds[t] = "r"
      /\ lk'  = [lk EXCEPT !.rw = HandToWriter(rw), !.holds[t] = "none"]
      /\ sch' = IF rw.readers = 0 THEN ReadyHead(sch, rw.wwaiting) ELSE sch

(* wunlock lets all waiting readers in, and a writer if there is no reader *)
wunlock(t) ==
  LET rw    == lk.rw
      in    == rw.rwaiting
      freed == [rw EXCEPT !.writer = Nobody, !.readers = @ + Len(in),
                          !.rwaiting = <<>>]
  IN  /\ At(t, "run") /\ lk.holds[t] = "w"
      /\ lk'  = [lk EXCEPT !.rw = HandToWriter(freed), !.holds[t] = "none"]
      /\ sch' = CASE rw.writer = Nobody \/ rw.readers # 0 -> Abort(sch, "wunlock")
                  [] rw.writer # Nobody /\ rw.readers = 0 /\ in # <<>> ->
                       ReadyAll(sch, in)
                  [] rw.writer # Nobody /\ rw.readers = 0 /\ in = <<>> ->
                       ReadyHead(sch, rw.wwaiting)
-----------------------------------------------------------------------------
(* tasksleep queues the task, releases r->l and switches *)
tasksleep(t) ==
  /\ At(t, "run") /\ lk.holds[t] = "q"
  /\ lk'  = [lk EXCEPT !.rendez = Append(@, t), !.q = Unlock(@),
                       !.holds[t] = "none"]
  /\ sch' = taskswitch(AfterUnlock(sch, lk.q), t, "slept")

(* and takes the lock again before it returns *)
Slept(t) ==
  /\ At(t, "slept")
  /\ lk'  = [lk EXCEPT !.q = Lock(@, t),
                       !.holds[t] = IF lk.q.owner = Nobody THEN "q" ELSE @]
  /\ sch' = IF lk.q.owner = Nobody THEN Goto(sch, t, "run")
            ELSE taskswitch(sch, t, "qlock")

taskwakeup(t, all) ==
  /\ At(t, "run") /\ lk.rendez # <<>>
  /\ lk'  = [lk EXCEPT !.rendez = IF all THEN <<>> ELSE Tail(@)]
  /\ sch' = IF all THEN ReadyAll(sch, lk.rendez) ELSE ReadyHead(sch, lk.rendez)

LocksNext ==
  \E t \in Tasks :
    \/ _qlock(t) \/ Locked(t) \/ qunlock(t)
    \/ _rlock(t) \/ _wlock(t) \/ RWLocked(t) \/ runlock(t) \/ wunlock(t)
    \/ tasksleep(t) \/ Slept(t) \/ \E all \in BOOLEAN : taskwakeup(t, all)
    \/ Worker(t, "run", Workers) /\ UNCHANGED lk
    \/ lk.holds[t] = "none" /\ Leave(t, "run") /\ UNCHANGED lk
-----------------------------------------------------------------------------
LockWaits == <<lk.q.waiting, lk.rw.rwaiting, lk.rw.wwaiting, lk.rendez>>

(* nobody waits for a lock that is to be had, and no writer has company *)
LocksHandedOn ==
  LET rw == lk.rw
  IN  /\ lk.q.waiting # <<>> => lk.q.owner # Nobody
      /\ rw.wwaiting # <<>> => ~CanWrite(rw)
      /\ rw.rwaiting # <<>> => ~CanRead(rw)
      /\ rw.writer # Nobody => rw.readers = 0
      /\ \A t \in Tasks :
           /\ lk.holds[t] = "q" <=> (lk.q.owner = t /\ sch.pc[t] # "qlock")
           /\ lk.holds[t] = "w" <=> (rw.writer = t /\ sch.pc[t] # "wlock")
=============================================================================
