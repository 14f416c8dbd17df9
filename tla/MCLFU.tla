------------------------------- MODULE MCLFU --------------------------------
(***************************************************************************)
(* LFU for TLC: three keys used up to three times each, with a bound two   *)
(* small entries or one large one fill, one that all fit in, and no bound. *)
(***************************************************************************)
EXTENDS LFU, TLC

CONSTANTS k1, k2, k3, small, large

MCKeys == {k1, k2, k3}
MCValues == {small, large}
MCKeyLen == k1 :> 1 @@ k2 :> 1 @@ k3 :> 2
MCValueLen == small :> 1 @@ large :> 10
MCCapacities == {0, 20, 33}
MCOneCapacity == {20}
=============================================================================
