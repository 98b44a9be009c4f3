-------------------------------- MODULE Task --------------------------------
(***************************************************************************)
(* The scheduler of libtask (task.c): the tasks of one thread.             *)
(*                                                                         *)
(* Nothing runs in parallel inside a thread: a step of a task is its code  *)
(* up to the next call of the kernel or the next taskswitch, and the       *)
(* scheduler's turn belongs to the step that switches.  The functions of   *)
(* task.c are therefore operators from one state s of the scheduler to the *)
(* next.  Lists of tasks (addtask at the tail, deltask at the head) are    *)
(* sequences.  A failed assert or abort() ends the thread, with the        *)
(* process; why says where.                                                *)
(***************************************************************************)
EXTENDS Integers, Sequences, FiniteSetsExt

CONSTANTS
  MaxTask,          \* bound: the tasks that exist at a time
  TASKS_CACHE_MAX

ASSUME TaskAssumption == MaxTask \in Nat \ {0} /\ TASKS_CACHE_MAX \in Nat

Tasks  == 1..MaxTask
Nobody == 0

VARIABLE sch

Scheduler ==
  [running : Tasks \cup {Nobody},            \* taskrunning
   runq    : Seq(Tasks),                     \* taskrunqueue
   cache   : Seq(Tasks),                     \* taskscache
   count   : Int,                            \* taskcount
   st      : [Tasks -> {"none", "live", "cached"}],
   system  : [Tasks -> BOOLEAN],
   small   : [Tasks -> BOOLEAN],             \* stksize = CACHE_STACK_SIZE
   pc      : [Tasks -> STRING],              \* what the task does when it runs
   nswitch : 0..2,    \* tasknswitch since the last taskyield of aiotask, up to 2
   thread  : {"on", "exited", "stalled", "aborted"},
   why     : STRING]

(* the thread before libtask_start *)
NoTasks ==
  [running |-> Nobody, runq |-> <<>>, cache |-> <<>>, count |-> 0,
   st |-> [t \in Tasks |-> "none"], system |-> [t \in Tasks |-> FALSE],
   small |-> [t \in Tasks |-> FALSE], pc |-> [t \in Tasks |-> ""],
   nswitch |-> 0, thread |-> "on", why |-> ""]

On(s)         == s.thread = "on"
Goto(s, t, l) == [s EXCEPT !.pc[t] = l]
End(s, how)   == [s EXCEPT !.thread = how, !.running = Nobody]
Abort(s, why) == [s EXCEPT !.thread = "aborted", !.why = why]

SetOf(list) == {list[i] : i \in 1..Len(list)}
-----------------------------------------------------------------------------
taskready(s, t) == [s EXCEPT !.runq = Append(@, t)]

(* the head of a waiting list, or all of it, is made ready *)
ReadyHead(s, list) == IF list = <<>> THEN s ELSE taskready(s, Head(list))
ReadyAll(s, list)  == [s EXCEPT !.runq = @ \o list]

Unused(s) == {t \in Tasks : s.st[t] = "none"}
Live(s)   == {t \in Tasks : s.st[t] = "live"}

taskalloc(s, fn, small) ==
  LET t == Min(Unused(s))
  IN  taskready([s EXCEPT !.st[t] = "live", !.small[t] = small, !.pc[t] = fn,
                          !.count = @ + 1], t)

(* Only a small stack is taken from the cache.  The assert for the other   *)
(* case demands an empty cache whatever the size asked for.                *)
taskcreate(s, fn, small) ==
  CASE ~On(s) -> s
    [] On(s) /\ s.cache = <<>> -> taskalloc(s, fn, small)
    [] On(s) /\ s.cache # <<>> /\ ~small -> Abort(s, "cache")
    [] On(s) /\ s.cache # <<>> /\ small ->
         LET t == Head(s.cache)
         IN  taskready([s EXCEPT !.cache = Tail(@), !.st[t] = "live",
                                 !.pc[t] = fn], t)

tasksystem(s, t) ==
  IF s.system[t] THEN s
  ELSE [s EXCEPT !.system[t] = TRUE, !.count = @ - 1]

taskfree(s, t) ==
  [s EXCEPT !.count = IF s.system[t] THEN @ ELSE @ - 1,
            !.st[t] = "none", !.system[t] = FALSE, !.small[t] = FALSE, !.pc[t] = ""]

taskcachefree(s) ==
  LET gone == SetOf(s.cache)
  IN  [s EXCEPT !.count = @ - Len(s.cache), !.cache = <<>>,
                !.st    = [t \in Tasks |-> IF t \in gone THEN "none" ELSE @[t]],
                !.small = [t \in Tasks |-> @[t] /\ t \notin gone]]

(* the turn of the scheduler after a task has switched to it *)
taskscheduler(s) ==
  CASE ~On(s) -> s
    [] On(s) /\ s.count = 0 -> End(s, "exited")
    [] On(s) /\ s.count # 0 /\ s.runq = <<>> ->
         LET f == taskcachefree(s)
         IN  End(f, IF f.count = 0 THEN "exited" ELSE "stalled")
    [] On(s) /\ s.count # 0 /\ s.runq # <<>> ->
         [s EXCEPT !.running = Head(s.runq), !.runq = Tail(@),
                   !.nswitch = IF @ = 2 THEN 2 ELSE @ + 1]

(* taskswitch of task t, which goes on at l *)
taskswitch(s, t, l) == taskscheduler(Goto(s, t, l))

taskyield(s, t, l) == taskswitch(taskready(s, t), t, l)

(* the scheduler caches a task that has exited, or frees it *)
Retire(s, t) ==
  IF ~s.small[t] \/ Len(s.cache) >= TASKS_CACHE_MAX
  THEN taskfree(s, t)
  ELSE [s EXCEPT !.count = IF s.system[t] THEN @ + 1 ELSE @, !.system[t] = FALSE,
                 !.st[t] = "cached", !.pc[t] = "", !.cache = Append(@, t)]

taskexit(s, t) == IF On(s) THEN taskscheduler(Retire(s, t)) ELSE s

(* libtask_start of a thread whose first task has a stack of its own size  *)
libtask_start(fn) == taskscheduler(taskcreate(NoTasks, fn, FALSE))

(* t runs and is at l *)
At(t, l) == On(sch) /\ sch.running = t /\ sch.pc[t] = l

(* what any task may do between other calls: create a task like itself or  *)
(* yield; and it ends when it likes                                        *)
Worker(t, first, most) ==
  /\ At(t, first)
  /\ \/ \E small \in BOOLEAN :
          /\ Cardinality(Live(sch)) < most
          /\ sch' = taskcreate(sch, first, small)
     \/ sch' = taskyield(sch, t, first)

Leave(t, first) == At(t, first) /\ sch' = taskexit(sch, t)
-----------------------------------------------------------------------------
(* A live task is in exactly one place: it runs, is ready, or is in one of *)
(* the given places where tasks wait; no list holds it twice.              *)
OnePlace(waits) ==
  /\ \A t \in Tasks : sch.st[t] = "live" =>
       LET places == {p \in {"running", "ready"} :
                        IF p = "running" THEN t = sch.running
                        ELSE t \in SetOf(sch.runq)}
           n      == Cardinality({i \in 1..Len(waits) : t \in SetOf(waits[i])})
       IN  Cardinality(places) + n = 1
  /\ \A i \in 1..Len(waits) :
       /\ Cardinality(SetOf(waits[i])) = Len(waits[i])
       /\ \A t \in SetOf(waits[i]) : sch.st[t] = "live"
  /\ Cardinality(SetOf(sch.runq)) = Len(sch.runq)
  /\ \A t \in SetOf(sch.runq) : sch.st[t] = "live"
  /\ SetOf(sch.cache) = {t \in Tasks : sch.st[t] = "cached"}
  /\ Cardinality(SetOf(sch.cache)) = Len(sch.cache)

(* taskcount: the tasks that are not system tasks, those in the cache      *)
(* included                                                                *)
Counted ==
  sch.count = Cardinality({t \in Tasks : sch.st[t] # "none" /\ ~sch.system[t]})
=============================================================================
