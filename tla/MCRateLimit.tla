---------------------------- MODULE MCRateLimit ----------------------------
(* Instances of RateLimit for model checking.                              *)
EXTENDS RateLimit, TLC

(* Nothing, the largest page, just too large, and past the point where a   *)
(* word of 16 values wraps: to -7 and to 1.                                *)
AllLimits == {0, 3, 4, 9, 17}
AllOffsets == {0, 9, 17}

Symmetry == Permutations(Ip)
=============================================================================
