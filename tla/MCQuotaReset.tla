---------------------------- MODULE MCQuotaReset ----------------------------
(***************************************************************************)
(* Instances of QuotaReset for TLC.                                        *)
(***************************************************************************)
EXTENDS QuotaReset, TLC

CONSTANTS t1, k1, k2, r1, r2, w1, w2

OneKey == (k1 :> t1)
SameKey == (r1 :> k1) @@ (r2 :> k1)
SingleRequest == (r1 :> k1)
KeyTotal3 == (t1 :> 4) @@ (k1 :> 3)
=============================================================================
