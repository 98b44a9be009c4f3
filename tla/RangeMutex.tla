----------------------------- MODULE RangeMutex -----------------------------
(***************************************************************************)
(* What range_lock()/range_unlock() promise their callers, with no tree,   *)
(* no reference counts and no sleeping: a task holds at most one closed    *)
(* range of addresses, and no address is held by two tasks.                *)
(***************************************************************************)
EXTENDS Naturals

CONSTANTS
  Task,    \* the tasks that lock ranges
  Addr     \* the addresses a range is made of, natural numbers

VARIABLE owned   \* owned[t]: the set of addresses task t has locked

Points(s, e) == {a \in Addr : s <= a /\ a <= e}

Init == owned = [t \in Task |-> {}]

Acquire(t) ==
  /\ owned[t] = {}
  /\ \E s, e \in Addr :
       /\ s <= e
       /\ \A u \in Task : owned[u] \cap Points(s, e) = {}
       /\ owned' = [owned EXCEPT ![t] = Points(s, e)]

Release(t) ==
  /\ owned[t] # {}
  /\ owned' = [owned EXCEPT ![t] = {}]

Next == \E t \in Task : Acquire(t) \/ Release(t)

Spec == Init /\ [][Next]_owned
=============================================================================
