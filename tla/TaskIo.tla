------------------------------- MODULE TaskIo -------------------------------
(***************************************************************************)
(* What taskio.c does to the scheduler: aiotask, which polls for the       *)
(* descriptors of the thread once all other tasks sleep, the wake-up of    *)
(* who waits for a socket, a fifo or a timer, and the deregistration of a  *)
(* descriptor.  x is a record with the fields reader, writer and ctx of a  *)
(* TaskSocketContext and its entry in TCarray.                             *)
(***************************************************************************)
EXTENDS TaskLocks

ReadyIf(s, p) == IF p = Nobody THEN s ELSE taskready(s, p)

(* taskyield of aiotask: it looks at the switches there were meanwhile *)
AioYield(s, t) == taskyield([s EXCEPT !.nswitch = 0], t, "yielded")

taskio_start(s) == taskcreate(s, "aiotask", TRUE)

(* a system task, which yields at once *)
aiotask(t) == At(t, "aiotask") /\ sch' = AioYield(tasksystem(sch, t), t)

(* fault: one round of the others is enough *)
AioYielded_once(t, closed) ==
  /\ At(t, "yielded")
  /\ sch' = IF closed THEN taskexit(sch, t) ELSE Goto(sch, t, "poll")

(* while somebody else ran, yield again; then poll, unless taskio_deinit   *)
(* has closed the epoll descriptor                                         *)
AioYielded(t, closed) ==
  /\ At(t, "yielded")
  /\ sch' = CASE sch.nswitch > 1 -> AioYield(sch, t)
              [] sch.nswitch <= 1 /\ closed -> taskexit(sch, t)
              [] sch.nswitch <= 1 /\ ~closed -> Goto(sch, t, "poll")

(* the list of who waits in a field reader or writer *)
One(t) == IF t = Nobody THEN <<>> ELSE <<t>>

(* aiotask is in epoll_wait *)
Polling == On(sch) /\ sch.running # Nobody /\ sch.pc[sch.running] = "poll"

ForReader(ev) == ev \cap {"in", "hup"} # {}
ForWriter(ev) == ev \cap {"out", "hup"} # {}

(* sockio_done wakes the reader and the writer the events are for *)
sockio_done(s, x, ev) ==
  IF x.reader = Nobody /\ x.writer = Nobody THEN Abort(s, "sockio_done")
  ELSE ReadyIf(ReadyIf(s, IF ForReader(ev) THEN x.reader ELSE Nobody),
               IF ForWriter(ev) THEN x.writer ELSE Nobody)

Served(x, ev) ==
  [x EXCEPT !.reader = IF ForReader(ev) THEN Nobody ELSE @,
            !.writer = IF ForWriter(ev) THEN Nobody ELSE @]

(* task_fd_deregister of a closed descriptor wakes who waits on it,        *)
(* forgets it and lets them run                                            *)
task_fd_deregister(s, x, t, l) ==
  IF x.reader = Nobody /\ x.writer = Nobody THEN Goto(s, t, l)
  ELSE taskyield(ReadyIf(ReadyIf(s, x.reader), x.writer), t, l)

Forgotten(x) == [x EXCEPT !.reader = Nobody, !.writer = Nobody, !.ctx = FALSE]
=============================================================================
