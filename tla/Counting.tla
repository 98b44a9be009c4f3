----------------------------- MODULE Counting -------------------------------
(***************************************************************************)
(* What the proofs say of counts and queues: how the size of a set follows *)
(* a step that changes one element's membership, and what is in a queue.   *)
(***************************************************************************)
EXTENDS Naturals, Sequences, FiniteSets

(* How the size of a set changes when at most the membership of x does. *)
Moved(x, T, U) ==
  /\ Cardinality(T) \in Nat /\ Cardinality(U) \in Nat
  /\ x \in U /\ x \notin T => Cardinality(U) = Cardinality(T) + 1
  /\ x \notin U /\ x \in T => Cardinality(U) = Cardinality(T) - 1
  /\ (x \in U <=> x \in T) => Cardinality(U) = Cardinality(T)
  /\ x \in T => Cardinality(T) >= 1

(* x is an entry of the queue q. *)
InQueue(x, q) == \E i \in 1..Len(q) : q[i] = x

(* The entries of q that are members of T are there once. *)
Distinct(q, T) == \A i, j \in 1..Len(q) : q[i] = q[j] /\ q[i] \in T => i = j
=============================================================================
