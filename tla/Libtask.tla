------------------------------ MODULE Libtask -------------------------------
(***************************************************************************)
(* A thread of the task library running one of four programs: the session  *)
(* of the iosplitter server, tasks that use locks and rendez, tasks that   *)
(* use channels, and tasks that share a timer.  The programs differ in     *)
(* what else they keep; the scheduler and what is asked of it are the      *)
(* same.                                                                   *)
(***************************************************************************)
EXTENDS Session, Channel, Timer, SequencesExt

VARIABLE prog

vars == <<prog, sch, lk, ch, ss, tm>>

(* the function of the first task of a thread *)
First == [session |-> "session", locks |-> "run", channels |-> "chan", timer |-> "main"]

Init ==
  /\ prog \in DOMAIN First
  /\ sch = libtask_start(First[prog])
  /\ lk = NoLocks /\ ch = NoChans
  /\ \E w \in IF prog = "session" THEN BOOLEAN ELSE {FALSE} : ss = NewSession(w)
  /\ \E cb \in IF prog = "timer" THEN CallBack ELSE {"quick"} : tm = NewTimer(cb)

Next ==
  /\ \/ prog = "session"  /\ SessionNext /\ UNCHANGED <<lk, ch, tm>>
     \/ prog = "locks"    /\ LocksNext /\ UNCHANGED <<ch, ss, tm>>
     \/ prog = "channels" /\ ChannelNext /\ UNCHANGED <<lk, ss, tm>>
     \/ prog = "timer"    /\ TimerNext /\ UNCHANGED <<lk, ch, ss>>
  /\ UNCHANGED prog

Spec == Init /\ [][Next]_vars
-----------------------------------------------------------------------------
(* The lists in which the tasks of the program wait *)
Waits ==
  CASE prog = "session"  -> SessionWaits
    [] prog = "locks"    -> LockWaits
    [] prog = "channels" -> <<SetToSeq(AltWaits)>>
    [] prog = "timer"    -> TimerWaits

(* Whatever the tasks do, none is lost and none is queued twice: each live *)
(* task runs, is ready, or waits in one list for someone who will find it  *)
(* there, and taskcount, by which the scheduler ends the thread, is the    *)
(* number of tasks that are not system tasks, with the cached ones.        *)
TasksAccounted == On(sch) => OnePlace(Waits) /\ Counted

(* Nobody waits for what is to be had: locks are handed on to the oldest   *)
(* waiter, channels serve whoever can be served and lose no value, a timer *)
(* that is waited for is armed, and the thread sleeps in epoll_wait only   *)
(* when the client's requests are read and its answers written.            *)
WaitersBlocked ==
  On(sch) =>
    CASE prog = "session"  -> SessionServed
      [] prog = "locks"    -> LocksHandedOn
      [] prog = "channels" -> ValuesDelivered
      [] prog = "timer"    -> TimerWillRing

(* The asserts of scheduler, locks, task_netrw and sockio_done hold; the   *)
(* process aborts only from the causes named: a task with a larger stack   *)
(* when one is cached, a client that hangs up, a number closed by another  *)
(* session, a read that the device fails, a timer closed or unset under    *)
(* its task or with a callback that sleeps.                                *)
AbortsExplained ==
  sch.thread = "aborted" =>
    CASE prog = "session" -> SessionAborts
      [] prog = "timer"   -> TimerAborts
      [] prog \in {"locks", "channels"} -> sch.why = "cache"
=============================================================================
