------------------------------- MODULE MCLRU --------------------------------
(***************************************************************************)
(* LRU for TLC: three keys and two values whose sizes make one entry take  *)
(* the room of up to three others, with a bound no single entry exceeds, a *)
(* bound the largest exceeds, and no bound.                                *)
(***************************************************************************)
EXTENDS LRU, TLC

CONSTANTS k1, k2, k3, small, large

MCKeys == {k1, k2, k3}
MCValues == {small, large}
MCKeyLen == k1 :> 1 @@ k2 :> 1 @@ k3 :> 2
MCValueLen == small :> 1 @@ large :> 4
MCCapacities == {0, 5, 7}
=============================================================================
