----------------------------- MODULE MCMppPaths -----------------------------
(***************************************************************************)
(* MppPaths with two paths, one device, two commands, three claims,        *)
(* unclaims, probes or other calls of PSA, and one failure.                *)
(***************************************************************************)
EXTENDS MppPaths, TLC
Perms == Permutations(Path) \cup Permutations(Cmd)

(* after a use of what was freed anything may happen: not followed *)
NothingStale == stale = {}
=============================================================================
