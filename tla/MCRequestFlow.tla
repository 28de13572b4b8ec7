---------------------------- MODULE MCRequestFlow ----------------------------
(***************************************************************************)
(* Instances of RequestFlow for TLC: a stream, a job that must not be      *)
(* started twice, and a request that may be repeated; a channel with two   *)
(* keys and a retry, and one with neither.                                 *)
(***************************************************************************)
EXTENDS RequestFlow, TLC

CONSTANTS t1, k1, k2, stream, job, chat, large, other, w1, c1, c2

TwoKeys == (k1 :> t1) @@ (k2 :> t1)
OneKey == (k1 :> t1)
OnlyChat == (chat :> k1)
LargeAlone == [r \in {stream, job, chat, large} |-> IF r = large THEN k2 ELSE k1]
NoTotals == [o \in Owners |-> Unlimited]
BothChannels == [r \in Requests |-> <<c1, c2>>]
TwoAndOne == (c1 :> 2) @@ (c2 :> 1)
OneAndNone == (c1 :> 1) @@ (c2 :> 0)
\* The second key's rate is below what its request is estimated at
Rates == [o \in Owners |-> IF o = t1 THEN 5 ELSE IF o = k2 THEN 2 ELSE Unlimited]
OneEach == [o \in Owners |-> 1]

AllFailures ==
    {Status(400), Status(429), Status(500), EventError("rate_limit_error", ""),
     Plain("ReadTimeout"), Plain("ConnectError"), Unexpected}
=============================================================================
