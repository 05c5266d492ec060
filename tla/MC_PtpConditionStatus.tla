----------------------- MODULE MC_PtpConditionStatus -----------------------
(* Three callers: two write the same key with different values (an     *)
(* update in place racing an append), one writes another key.  The      *)
(* object starts with an older condition of a third key, which the      *)
(* history bound of two then evicts.                                     *)
EXTENDS PtpConditionStatus

CONSTANTS w1, w2, w3, k1, k2, k3, v1, v2

MCCond ==
  (w1 :> [key |-> k1, val |-> v1]) @@ (w2 :> [key |-> k1, val |-> v2]) @@
  (w3 :> [key |-> k2, val |-> v1])
MCInitConditions == {<<[key |-> k3, val |-> v2]>>}
=============================================================================
