------------------------------- MODULE Ledger -------------------------------
(***************************************************************************)
(* What the settlement machinery promises the owners of quota, without     *)
(* rows, workers, faults or recovery: money is held for a request before   *)
(* it runs, the price of its use is fixed once, and the hold ends either   *)
(* freed or charged, once, at that price, to everyone who pays for it.     *)
(***************************************************************************)
EXTENDS Integers

CONSTANTS
    Owners,    \* accounts with a quota
    Requests,
    Payers,    \* [Requests -> SUBSET Owners]: who is charged for a request
    NoCost     \* the price is not known

VARIABLES
    used,      \* [Owners -> Nat]: what each account has been charged
    entry      \* [Requests -> [at, price]]: the journal entry of each request

vars == <<used, entry>>

Blank == [at |-> "none", price |-> NoCost]

Init ==
    /\ used = [o \in Owners |-> 0]
    /\ entry = [r \in Requests |-> Blank]

Hold(r) ==
    /\ entry[r].at = "none"
    /\ entry' = [entry EXCEPT ![r] = [at |-> "held", price |-> NoCost]]
    /\ UNCHANGED used

\* At whatever price: the usage's, or the estimate an operator decides on
Price(r) ==
    /\ entry[r].at = "held"
    /\ entry'[r].price \in Nat
    /\ entry' = [entry EXCEPT ![r] = [at |-> "owed", price |-> entry'[r].price]]
    /\ UNCHANGED used

Charge(r) ==
    /\ entry[r].at = "owed"
    /\ entry' = [entry EXCEPT ![r] = [at |-> "charged", price |-> entry[r].price]]
    /\ used' = [o \in Owners |-> IF o \in Payers[r] THEN used[o] + entry[r].price ELSE used[o]]

\* Several holds may be freed at once, by the takeover of a dead worker's work
Free(S) ==
    /\ \A r \in S : entry[r].at \in {"held", "owed"}
    /\ entry' = [r \in Requests |-> IF r \in S THEN [at |-> "freed", price |-> NoCost] ELSE entry[r]]
    /\ UNCHANGED used

Next ==
    \/ \E r \in Requests : Hold(r) \/ Price(r) \/ Charge(r)
    \/ \E S \in SUBSET Requests : Free(S)

Spec == Init /\ [][Next]_vars

=============================================================================
