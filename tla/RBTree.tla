------------------------------- MODULE RBTree -------------------------------
(***************************************************************************)
(* The red-black tree of disjoint ranges under the lock of                 *)
(* common/range_lock.c: search, insertion and deletion with their fix-ups. *)
(*                                                                         *)
(* The ranges in the tree are disjoint, so a node is named by its start    *)
(* address; NULL is 0.  child[d][n] is n->left or n->right.  The code      *)
(* writes every case twice, once for each side: here the side is an        *)
(* argument d and Opp(d) the other one.  A dereference of NULL or a failed *)
(* assert(... != NULL) of the code is an evaluation error here.            *)
(*                                                                         *)
(* The loops of the code are recursive operators, so this module is only   *)
(* model-checked.                                                          *)
(***************************************************************************)
EXTENDS Naturals, FiniteSets

CONSTANTS
  MaxAddr,  \* addresses are 1..MaxAddr
  MaxLen    \* a locked range has at most MaxLen addresses

NULL   == 0
Addr   == 1..MaxAddr
Side   == {"left", "right"}
Opp(d) == IF d = "left" THEN "right" ELSE "left"

VARIABLES
  root,  \* the tree: struct rb_root and the nodes reachable from it
  held   \* the ranges locked and not unlocked, by the calls made so far

vars == <<root, held>>

Free == [a \in Addr |-> NULL]

Init ==
  /\ root = [node   |-> NULL, count |-> 0, parent |-> Free, end |-> Free,
             child  |-> [d \in Side |-> Free],
             color  |-> [a \in Addr |-> "BLACK"]]
  /\ held = {}
-----------------------------------------------------------------------------
(* Reading: NULL leaves are black *)
IsBlack(T, n) == n = NULL \/ T.color[n] = "BLACK"
IsRed(T, n)   == n # NULL /\ T.color[n] = "RED"

grand_parent(T, n) == T.parent[T.parent[n]]

(* the side of p on which its child n hangs; n may be NULL *)
SideOf(T, p, n) == IF T.child["left"][p] = n THEN "left" ELSE "right"

uncle(T, n) == LET g == grand_parent(T, n)
               IN  T.child[Opp(SideOf(T, g, T.parent[n]))][g]

(* Writing *)
Paint(T, n, c)    == [T EXCEPT !.color[n] = c]
SetParent(T, n, p) == IF n = NULL THEN T ELSE [T EXCEPT !.parent[n] = p]

(* in the parent p of old, or in the root, replace old by new *)
Rehang(T, p, old, new) ==
  IF p = NULL THEN [T EXCEPT !.node = new]
              ELSE [T EXCEPT !.child[SideOf(T, p, old)][p] = new]

(* rotate_left is rotate(_, _, "left"): the child on the other side rises *)
rotate(T, n, d) ==
  LET up  == T.child[Opp(d)][n]
      np  == T.parent[n]
      mid == T.child[d][up]
      T1  == [T EXCEPT !.child[Opp(d)][n] = mid, !.child[d][up] = n]
      T2  == Rehang(T1, np, n, up)
      T3  == [T2 EXCEPT !.parent[n] = up, !.parent[up] = np]
  IN  SetParent(T3, mid, n)

rb_transplant(T, u, v) ==
  SetParent(Rehang(T, T.parent[u], u, v), v, T.parent[u])

RECURSIVE rb_minimum(_, _)
rb_minimum(T, n) ==
  IF T.child["left"][n] = NULL THEN n ELSE rb_minimum(T, T.child["left"][n])

(* fault: no test for one range containing the other *)
check_overlap_ends(s1, e1, s2, e2) ==
  (s1 >= s2 /\ s1 <= e2) \/ (e1 >= s2 /\ e1 <= e2)

check_overlap(s1, e1, s2, e2) ==
  \/ (s1 >= s2 /\ s1 <= e2) \/ (e1 >= s2 /\ e1 <= e2)
  \/ (s2 >= s1 /\ s2 <= e1) \/ (e2 >= s1 /\ e2 <= e1)

RECURSIVE SearchFrom(_, _, _, _)
SearchFrom(T, n, s, e) ==
  IF n = NULL THEN NULL
  ELSE IF check_overlap(n, T.end[n], s, e) THEN n
  ELSE SearchFrom(T, T.child[IF n > e THEN "left" ELSE "right"][n], s, e)

rb_search(T, s, e) == SearchFrom(T, T.node, s, e)
-----------------------------------------------------------------------------
(* the while loop of rb_insert_fixup: z and its parent are red *)
RECURSIVE rb_insert_fixup(_, _)
rb_insert_fixup(T, z) ==
  LET p == T.parent[z]
  IN  IF ~(IsRed(T, p) /\ IsRed(T, z)) THEN Paint(T, T.node, "BLACK")
      ELSE
        LET u == uncle(T, z)
            g == grand_parent(T, z)
            d == SideOf(T, g, p)
        IN  IF IsRed(T, u)
            THEN rb_insert_fixup(
                   Paint(Paint(Paint(T, p, "BLACK"), u, "BLACK"), g, "RED"), g)
            ELSE
              LET inner == T.child[Opp(d)][p] = z
                  z1 == IF inner THEN p ELSE z
                  T1 == IF inner THEN rotate(T, p, d) ELSE T
                  g1 == grand_parent(T1, z1)
                  T2 == Paint(Paint(T1, T1.parent[z1], "BLACK"), g1, "RED")
              IN  rb_insert_fixup(rotate(T2, g1, Opp(d)), z1)

(* the node under which rb_insert hangs [s, e], which overlaps no node *)
RECURSIVE InsertPlace(_, _, _, _)
InsertPlace(T, n, t, s) ==
  IF n = NULL THEN t
  ELSE InsertPlace(T, T.child[IF n > s THEN "left" ELSE "right"][n], n, s)

rb_insert(T, s, e) ==
  LET t  == InsertPlace(T, T.node, NULL, s)
      T1 == [T EXCEPT !.end[s] = e, !.parent[s] = t, !.color[s] = "RED",
                      !.count = @ + 1]
      T2 == IF t = NULL THEN [T1 EXCEPT !.node = s]
            ELSE [T1 EXCEPT !.child[IF s < t THEN "left" ELSE "right"][t] = s]
  IN  rb_insert_fixup(T2, s)

(* fault: the lost black node is only made up for at the root *)
rb_delete_fixup_root(T, x, q) ==
  IF T.node = NULL THEN T ELSE Paint(T, T.node, "BLACK")

(* the while loop of rb_delete_fixup; x may be NULL, q is its parent *)
RECURSIVE rb_delete_fixup(_, _, _)
rb_delete_fixup(T, x, q) ==
  IF T.node = x \/ IsRed(T, x)
  THEN IF T.node = NULL THEN T
       ELSE Paint(IF x = NULL THEN T ELSE Paint(T, x, "BLACK"), T.node, "BLACK")
  ELSE
    LET p  == IF x = NULL THEN q ELSE T.parent[x]
        d  == SideOf(T, p, x)
        o  == Opp(d)
        w0 == T.child[o][p]
        T1 == IF IsRed(T, w0)
              THEN rotate(Paint(Paint(T, w0, "BLACK"), p, "RED"), p, d)
              ELSE T
        w  == T1.child[o][p]
    IN  IF IsBlack(T1, T1.child["left"][w]) /\ IsBlack(T1, T1.child["right"][w])
        THEN rb_delete_fixup(Paint(T1, w, "RED"), p, p)
        ELSE
          LET near == IsBlack(T1, T1.child[o][w])
              T2 == IF near
                    THEN rotate(Paint(Paint(T1, T1.child[d][w], "BLACK"), w, "RED"),
                                w, o)
                    ELSE T1
              w2 == T2.child[o][p]
              T3 == Paint(Paint(Paint(T2, w2, T2.color[p]), p, "BLACK"),
                          T2.child[o][w2], "BLACK")
              T4 == rotate(T3, p, d)
          IN  rb_delete_fixup(T4, T4.node, NULL)

(* the freed node z keeps nothing *)
Forget(T, z) ==
  [T EXCEPT !.child["left"][z] = NULL, !.child["right"][z] = NULL,
            !.parent[z] = NULL, !.color[z] = "BLACK", !.end[z] = NULL,
            !.count = @ - 1]

(* fault: the successor does not take over the left subtree *)
rb_delete_lose(T, z) ==
  LET l == T.child["left"][z]
      r == T.child["right"][z]
      y == IF l = NULL \/ r = NULL THEN l + r ELSE rb_minimum(T, r)
      p == IF y = NULL \/ T.parent[y] = z THEN y ELSE T.parent[y]
      x == IF l = NULL \/ r = NULL THEN y ELSE T.child["right"][y]
      T1 == rb_transplant(IF p = y THEN T
                          ELSE SetParent([rb_transplant(T, y, x)
                                            EXCEPT !.child["right"][y] = r], r, y), z, y)
      T2 == IF l = NULL \/ r = NULL THEN T1 ELSE Paint(T1, y, T.color[z])
      q == IF l = NULL \/ r = NULL THEN T.parent[z] ELSE p
      w == IF l = NULL \/ r = NULL THEN z ELSE y
  IN  Forget(IF T.color[w] = "BLACK" THEN rb_delete_fixup(T2, x, q) ELSE T2, z)

rb_delete(T, z) ==
  LET l == T.child["left"][z]
      r == T.child["right"][z]
  IN  IF l = NULL \/ r = NULL
      THEN LET x  == IF l = NULL THEN r ELSE l
               T1 == rb_transplant(T, z, x)
               T2 == IF T.color[z] = "BLACK"
                     THEN rb_delete_fixup(T1, x, T.parent[z]) ELSE T1
           IN  Forget(T2, z)
      ELSE LET y  == rb_minimum(T, r)
               x  == T.child["right"][y]
               p  == IF T.parent[y] = z THEN y ELSE T.parent[y]
               T1 == IF T.parent[y] = z THEN T
                     ELSE SetParent([rb_transplant(T, y, x)
                                       EXCEPT !.child["right"][y] = r], r, y)
               T2 == [rb_transplant(T1, z, y) EXCEPT !.child["left"][y] = l]
               T3 == Paint(SetParent(T2, l, y), y, T.color[z])
               T4 == IF T.color[y] = "BLACK" THEN rb_delete_fixup(T3, x, p) ELSE T3
           IN  Forget(T4, z)
-----------------------------------------------------------------------------
(* range_lock of a range that nothing overlaps: search, then insert *)
range_lock(s, e) ==
  /\ rb_search(root, s, e) = NULL
  /\ root' = rb_insert(root, s, e)
  /\ held' = held \cup {<<s, e>>}

range_unlock(s, e) ==
  /\ root' = rb_delete(root, s)
  /\ held' = held \ {<<s, e>>}

Next ==
  \/ \E s \in Addr : \E e \in s..MaxAddr : e < s + MaxLen /\ range_lock(s, e)
  \/ \E r \in held : range_unlock(r[1], r[2])

Spec == Init /\ [][Next]_vars
-----------------------------------------------------------------------------
(* The nodes reachable from n. *)
RECURSIVE Reach(_, _)
Reach(T, n) ==
  IF n = NULL THEN {}
  ELSE {n} \cup Reach(T, T.child["left"][n]) \cup Reach(T, T.child["right"][n])

(* Black nodes on every path from n to a leaf; 0 if the paths differ. *)
RECURSIVE BlackHeight(_, _)
BlackHeight(T, n) ==
  IF n = NULL THEN 1
  ELSE LET l == BlackHeight(T, T.child["left"][n])
           r == BlackHeight(T, T.child["right"][n])
       IN  IF l = 0 \/ r = 0 \/ l # r THEN 0
           ELSE IF T.color[n] = "BLACK" THEN l + 1 ELSE l

(* The properties 2, 4 and 5 of the comment "RB Properties" and the parent *)
(* links, as rb_verify_parent asserts them after every lock and unlock.    *)
RedBlack ==
  LET nodes == Reach(root, root.node)
  IN  /\ IsBlack(root, root.node)
      /\ root.node # NULL => root.parent[root.node] = NULL
      /\ \A n \in nodes, d \in Side :
           LET c == root.child[d][n]
           IN  c # NULL => /\ root.parent[c] = n
                           /\ IsRed(root, n) => IsBlack(root, c)
      /\ BlackHeight(root, root.node) # 0

(* The tree holds exactly the ranges locked and not yet unlocked: the      *)
(* rotations and the two-children case of rb_delete lose or keep no node,  *)
(* and count is their number.                                              *)
TreeHoldsHeld ==
  /\ {<<n, root.end[n]>> : n \in Reach(root, root.node)} = held
  /\ root.count = Cardinality(held)

(* Wherever the rotations have moved the nodes, the descent of rb_search   *)
(* stops at an overlapping range exactly when one is locked: this is what  *)
(* module RangeLock takes rb_search to be.                                 *)
SearchFindsOverlap ==
  \A s \in Addr : \A e \in s..MaxAddr :
    LET n == rb_search(root, s, e)
    IN  IF n = NULL
        THEN \A h \in held : h[2] < s \/ e < h[1]
        ELSE <<n, root.end[n]>> \in held /\ n <= e /\ s <= root.end[n]
=============================================================================
