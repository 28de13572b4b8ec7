--------------------------- MODULE MCSpendWindows ---------------------------
(***************************************************************************)
(* Instances of SpendWindows for TLC.                                      *)
(***************************************************************************)
EXTENDS SpendWindows, TLC

CONSTANTS t1, k1, r1, r2, w1, w2

OneKey == (k1 :> t1)
SameKey == (r1 :> k1) @@ (r2 :> k1)
SingleRequest == (r1 :> k1)
NoTotals == (t1 :> Unlimited) @@ (k1 :> Unlimited)
KeyCap2 == (t1 :> Unlimited) @@ (k1 :> 2)
BothCaps == (t1 :> 3) @@ (k1 :> 2)
=============================================================================
