--------------------------- MODULE MCSettlements ---------------------------
(***************************************************************************)
(* Instances of Settlements for TLC.                                       *)
(***************************************************************************)
EXTENDS Settlements, TLC

CONSTANTS t1, k1, k2, r1, r2, r3, w1, w2

AllOfT1 == (k1 :> t1) @@ (k2 :> t1)
OneKey == (k1 :> t1)
KeyPerRequest == (r1 :> k1) @@ (r2 :> k2)
SameKey == (r1 :> k1) @@ (r2 :> k1)
SingleRequest == (r1 :> k1)
TenantTotal3 == (t1 :> 3) @@ (k1 :> Unlimited) @@ (k2 :> 2)
TenantTotal2 == (t1 :> 2) @@ (k1 :> Unlimited) @@ (k2 :> Unlimited)
KeyTotal3 == (t1 :> 4) @@ (k1 :> 3)
=============================================================================
