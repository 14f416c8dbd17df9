---------------------------- MODULE MCCacheGroup ----------------------------
(***************************************************************************)
(* CacheGroup for TLC.  A goroutine refers to one call, and a panic leaves *)
(* one call in m for each key, so that Threads + Keys call structs never   *)
(* run out.  k1 may be evicted, k2 may not.                                *)
(***************************************************************************)
EXTENDS CacheGroup

CONSTANTS t1, t2, k1, k2, c1, c2, c3, c4

MCThreads == {t1, t2}
MCKeys == {k1, k2}
MCCalls == {c1, c2, c3, c4}
MCEvictable == {k1}
MCOutcomes == {"ok", "error", "panic"}
=============================================================================
