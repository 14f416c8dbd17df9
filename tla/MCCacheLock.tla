---------------------------- MODULE MCCacheLock -----------------------------
(***************************************************************************)
(* CacheLock for TLC: three keys in a cache of two or three entries, so    *)
(* that elements in the middle and at the end of the list are moved and    *)
(* evicted, read by two goroutines.                                        *)
(***************************************************************************)
EXTENDS CacheLock, TLC

CONSTANTS r1, r2, k1, k2, k3

TwoReaders == {r1, r2}
MCKeys == {k1, k2, k3}
Symmetry == Permutations(MCKeys) \union Permutations(TwoReaders)
=============================================================================
