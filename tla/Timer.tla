------------------------------- MODULE Timer --------------------------------
(***************************************************************************)
(* The timers of libtask (timer.c): one timer, shared by tasks that set,   *)
(* unset, wait for and finally close it, in any order that satisfies the   *)
(* asserts at the head of these functions.  _timer_func is the task that   *)
(* reads the timerfd, which is registered as a fifo: epoll reports it as   *)
(* long as it has expirations to read.                                     *)
(***************************************************************************)
EXTENDS TaskIo

CONSTANTS
  Repeat,     \* the values of repeat asked for
  CallBack    \* "quick" (or no) callbacks, and ones in which the task "sleeps"

ASSUME TimerAssumption ==
  /\ Repeat \subseteq Nat \cup {-1} /\ CallBack \subseteq {"quick", "sleeps"}
  /\ MaxTask >= 2      \* taskio_start's task beside the first

VARIABLE tm

NewTimer(cbfn) ==
  [cbfn |-> cbfn, init |-> FALSE, closed |-> FALSE,
   timer_set |-> FALSE, repeat |-> 0,
   fd |-> FALSE,                             \* t->timerfd # -1
   armed  |-> "off",                         \* the timerfd: "off", "once", "often"
   ticks  |-> FALSE,                         \* it has expirations to read
   ctx |-> FALSE, reader |-> Nobody, writer |-> Nobody,
   rendez |-> <<>>,                          \* t->rendez.waiting
   away   |-> <<>>,                          \* tasks asleep inside the callback
   unset  |-> FALSE]                         \* the user has called timer_unset

TStep(s, x) == sch' = s /\ tm' = x

(* the first task of the program: taskio_start *)
TimerMain(t) ==
  /\ At(t, "main")
  /\ TStep(taskio_start(Goto(sch, t, "timer")), tm)

timer_init(t) ==
  /\ At(t, "timer") /\ ~tm.init /\ ~tm.closed
  /\ TStep(sch, [tm EXCEPT !.init = TRUE, !.fd = TRUE, !.ctx = TRUE])

(* timerfd_settime: expirations not yet read are gone *)
settime(x, how) == [x EXCEPT !.armed = how, !.ticks = FALSE]

Armed(x, repeat) ==
  [settime(x, IF repeat = 0 THEN "once" ELSE "often")
     EXCEPT !.repeat = repeat, !.timer_set = TRUE]

Usable(t) == At(t, "timer") /\ tm.init /\ ~tm.closed

(* a timer that is set is modified; otherwise it gets a task *)
Started(s) == IF tm.timer_set THEN s ELSE taskcreate(s, "timer_func", TRUE)

RoomForTask == tm.timer_set \/ Cardinality(Live(sch)) < Workers

timer_set(t, repeat) ==
  /\ Usable(t) /\ RoomForTask
  /\ TStep(Started(sch), Armed(tm, repeat))

timer_wait(t) ==
  /\ Usable(t) /\ RoomForTask
  /\ TStep(taskswitch(Started(sch), t, "timer"),
           [Armed(tm, 0) EXCEPT !.rendez = Append(@, t)])

Disarmed(x) == [settime(x, "off") EXCEPT !.timer_set = FALSE]

timer_unset(t) ==
  /\ Usable(t) /\ tm.timer_set
  /\ TStep(sch, [Disarmed(tm) EXCEPT !.unset = TRUE])

(* close() and task_fd_deregister, which yields if somebody reads *)
timer_deinit(t) ==
  /\ Usable(t)
  /\ TStep(task_fd_deregister(sch, tm, t, "deinited"),
           [Forgotten(settime(tm, "off")) EXCEPT !.closed = TRUE, !.init = FALSE])

Deinited(t) ==
  At(t, "deinited") /\ TStep(Goto(sch, t, "timer"), [tm EXCEPT !.fd = FALSE])
-----------------------------------------------------------------------------
(* _timer_func behind the callback: after the last repetition it disarms   *)
(* the timer and ends                                                      *)
Fired(s, x, t) ==
  LET n == IF x.repeat > 0 THEN x.repeat - 1 ELSE x.repeat
      y == [x EXCEPT !.repeat = n]
  IN  CASE n # 0 -> TStep(Goto(s, t, "tread"), y)
        [] n = 0 /\ (~x.init \/ x.closed) -> TStep(Abort(s, "timer_unset"), y)
        [] n = 0 /\ x.init /\ ~x.closed ->
             TStep(taskexit(s, t), IF y.timer_set THEN Disarmed(y) ELSE y)

(* its read: an expiration wakes all waiters, then the callback *)
Expired(t) ==
  LET s == ReadyAll(sch, tm.rendez)
      x == [tm EXCEPT !.ticks = FALSE, !.rendez = <<>>]
  IN  IF tm.cbfn = "quick" THEN Fired(s, x, t)
      ELSE TStep(taskswitch(s, t, "fired"), [x EXCEPT !.away = Append(@, t)])

TimerRead(t) ==
  CASE tm.closed -> TStep(taskexit(sch, t), tm)
    [] ~tm.closed /\ tm.ticks -> Expired(t)
    [] ~tm.closed /\ ~tm.ticks ->
         IF tm.reader # Nobody THEN TStep(Abort(sch, "reader"), tm)
         ELSE TStep(taskswitch(sch, t, "treading"), [tm EXCEPT !.reader = t])

(* an error other than EBADF of the read itself is assert(0) *)
_timer_func(t) ==
  \/ At(t, "timer_func") /\ TStep(Goto(tasksystem(sch, t), t, "tread"), tm)
  \/ /\ At(t, "tread")
     /\ IF tm.fd /\ tm.ctx THEN TimerRead(t) ELSE TStep(Abort(sch, "timer_func"), tm)
  \/ At(t, "treading") /\ TimerRead(t)
  \/ At(t, "fired") /\ Fired(sch, tm, t)

(* time *)
Expire ==
  /\ On(sch) /\ tm.armed # "off"
  /\ TStep(sch, [tm EXCEPT !.ticks = TRUE,
                           !.armed = IF @ = "once" THEN "off" ELSE @])

(* epoll_wait returns for the timer, or for what a callback waits for *)
TimerPolled(t) ==
  /\ At(t, "poll")
  /\ \/ /\ tm.ticks
        /\ TStep(AioYield(sockio_done(sch, tm, {"in"}), t), Served(tm, {"in"}))
     \/ /\ tm.away # <<>>
        /\ TStep(AioYield(ReadyHead(sch, tm.away), t), [tm EXCEPT !.away = Tail(@)])

TimerNext ==
  \/ Expire
  \/ \E t \in Tasks :
       \/ TimerMain(t) \/ timer_init(t) \/ \E r \in Repeat : timer_set(t, r)
       \/ timer_wait(t) \/ timer_unset(t) \/ timer_deinit(t) \/ Deinited(t)
       \/ _timer_func(t) \/ TimerPolled(t)
       \/ (aiotask(t) \/ AioYielded(t, FALSE)) /\ UNCHANGED tm
       \/ (Worker(t, "timer", Workers) \/ Leave(t, "timer")) /\ UNCHANGED tm
-----------------------------------------------------------------------------
TimerWaits == <<One(tm.reader), tm.rendez, tm.away>>

(* When the thread sleeps in epoll_wait, who waits for the timer waits for *)
(* an armed one; but timer_unset, timer_deinit and a callback that sleeps  *)
(* can leave him behind.                                                   *)
TimerWillRing ==
  Polling /\ tm.rendez # <<>> /\ ~tm.ticks =>
    tm.armed # "off" \/ tm.unset \/ tm.closed \/ tm.cbfn = "sleeps"

(* why a timer can abort the process *)
TimerAborts ==
  CASE sch.why = "reader" -> tm.unset
    [] sch.why \in {"timer_func", "timer_unset"} -> tm.closed
    [] sch.why = "sockio_done" -> tm.cbfn = "sleeps"
    [] OTHER -> sch.why = "cache"
=============================================================================
