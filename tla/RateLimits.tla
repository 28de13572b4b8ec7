----------------------------- MODULE RateLimits -----------------------------
(***************************************************************************)
(* Concurrency leases (services/concurrency.py), token counters            *)
(* (services/rate_limit.py) and the operations that hold both without      *)
(* being billed: guard_unbilled (services/unbilled_limits.py), used by     *)
(* count_tokens and by the calls on existing videos.  Billed operations    *)
(* take the same limits in another order and correct their tokens at the   *)
(* end (services/quota.py; RequestFlow has the rest of them).              *)
(*                                                                         *)
(* One tick is the refresh interval of a lease.  Scores are kept as the    *)
(* ticks they have left, so that time need not be bounded; the window of a *)
(* token counter ends at any moment.                                       *)
(***************************************************************************)
EXTENDS Integers, Sequences, FiniteSets, FiniteSetsExt

CONSTANTS
    Operations,
    Billed,        \* those that reserve an estimate and correct it
    Owners,        \* tenants and keys
    Path,          \* [Operations -> Seq(Owners)]: their tenant, then their key
    Workers,
    WorkerOf,      \* [Operations -> Workers]
    Skew,          \* [Workers -> Nat]: how far a worker's clock is ahead, in ticks
    LeaseTTL,      \* LEASE_TTL / REFRESH_INTERVAL
    SlotLimit,     \* [Owners -> Int]: concurrent_limit
    TokenLimit,    \* [Owners -> Int]: tpm_limit
    Tokens,        \* [Operations -> Nat]: tokens asked for
    Actual,        \* tokens a billed operation may turn out to use
    MaxSlips,      \* bound on the faults of Redis
    MaxCrashes     \* bound on the workers that exit

Gone == -10
NoLimit == -1

\* The forms of keys and tenants take no other negative limit
ASSUME LimitsAssumption ==
    /\ IsFiniteSet(Operations)
    /\ Path \in [Operations -> Seq(Owners)] /\ \A h \in Operations : Len(Path[h]) = 2
    /\ WorkerOf \in [Operations -> Workers] /\ Skew \in [Workers -> Nat]
    /\ LeaseTTL \in Nat \ {0} /\ {SlotLimit, TokenLimit} \subseteq [Owners -> Nat \cup {NoLimit}]
    /\ Tokens \in [Operations -> Nat] /\ Actual \subseteq Nat /\ Billed \subseteq Operations
    /\ MaxSlips \in Nat /\ MaxCrashes \in Nat

VARIABLES
    at,        \* where an operation is
    step,      \* the steps of its admission it has taken, 0 after it
    taken,     \* owners whose tokens it reserved
    slots,     \* owners whose lease it knows of
    tasks,     \* owners whose lease its _keepalive task renews
    due,       \* those of them whose 60 seconds are over
    left,      \* [Owners -> [Operations -> ticks]]: the sorted sets, Gone for no member
    counter,   \* the token counters, Gone for no key
    spans,     \* a token counter that would never expire
    window,    \* history: the operations whose tokens the current counter holds
    late,      \* history: tokens that corrections took from a later window
    slipped,   \* operations that met a fault of Redis
    crashes

limitVars == <<at, step, taken, slots, tasks, due, left, counter, spans, window, late, slipped, crashes>>

Steps(h) == LET t == Path[h][1]  k == Path[h][2]
            IN  IF h \in Billed
                THEN << <<"tokens", k>>, <<"tokens", t>>, <<"slot", t>>, <<"slot", k>> >>
                ELSE << <<"tokens", t>>, <<"slot", t>>, <<"tokens", k>>, <<"slot", k>> >>
Places == {"asks", "refused", "finish", "over", "dead"}

InitLimits ==
    /\ at = [h \in Operations |-> "asks"] /\ step = [h \in Operations |-> 0]
    /\ taken = [h \in Operations |-> {}] /\ slots = [h \in Operations |-> {}]
    /\ tasks = [h \in Operations |-> {}] /\ due = [h \in Operations |-> {}]
    /\ left = [o \in Owners |-> [h \in Operations |-> Gone]]
    /\ counter = [o \in Owners |-> Gone] /\ spans = [o \in Owners |-> FALSE]
    /\ window = [o \in Owners |-> {}] /\ late = [o \in Owners |-> 0]
    /\ slipped = {} /\ crashes = 0

Running(h) == at[h] = "asks" /\ step[h] = 4
Alive(h)   == at[h] # "dead"
Goto(h, place) == at' = [at EXCEPT ![h] = place] /\ step' = [step EXCEPT ![h] = 0]
Advance(h) == step' = [step EXCEPT ![h] = @ + 1] /\ UNCHANGED at
Slips(h) == Cardinality(slipped) < MaxSlips /\ slipped' = slipped \cup {h}
Value(o) == IF counter[o] = Gone THEN 0 ELSE counter[o]
Asks(h, limit, o) == at[h] = "asks" /\ step[h] < 4 /\ Steps(h)[step[h] + 1] = <<limit, o>>

----------------------------------------------------------------------------
(* reserve_tpm and adjust_tpm *)

\* TPM_RESERVE_SCRIPT: the counter expires a window after it was zero
ReserveTokens(h, o) ==
    /\ Asks(h, "tokens", o)
    /\ IF TokenLimit[o] = NoLimit \/ Tokens[h] = 0
       THEN Advance(h) /\ UNCHANGED <<taken, counter, window, spans, slipped>>
       ELSE IF Value(o) + Tokens[h] <= TokenLimit[o]
       THEN /\ counter' = [counter EXCEPT ![o] = Value(o) + Tokens[h]]
            /\ spans' = [spans EXCEPT ![o] = @ /\ Value(o) # 0]
            /\ window' = [window EXCEPT ![o] = @ \cup {h}]
            /\ \/ taken' = [taken EXCEPT ![h] = @ \cup {o}] /\ Advance(h) /\ UNCHANGED slipped
               \/ Slips(h) /\ Goto(h, "refused") /\ UNCHANGED taken
       ELSE /\ counter' = [counter EXCEPT ![o] = Value(o)]
            /\ spans' = [spans EXCEPT ![o] = @ /\ Value(o) # 0]
            /\ Goto(h, "refused") /\ UNCHANGED <<taken, window, slipped>>
    /\ UNCHANGED <<slots, tasks, due, left, late, crashes>>

\* TPM_ADJUST_SCRIPT: of the window in which it runs, whichever that is
Correct(h, o, delta) ==
    /\ counter' = [counter EXCEPT ![o] = IF @ = Gone \/ delta = 0 THEN @
                                         ELSE IF @ + delta <= 0 THEN Gone ELSE @ + delta]
    /\ late' = [late EXCEPT ![o] = IF h \notin window[o] /\ counter[o] # Gone /\ delta < 0 THEN @ - delta ELSE @]
    /\ UNCHANGED spans

\* The key of a token counter expires
Window(o) ==
    /\ counter[o] # Gone /\ ~spans[o]
    /\ counter' = [counter EXCEPT ![o] = Gone] /\ window' = [window EXCEPT ![o] = {}]
    /\ late' = [late EXCEPT ![o] = 0]
    /\ UNCHANGED <<at, step, taken, slots, tasks, due, left, spans, slipped, crashes>>

----------------------------------------------------------------------------
(* acquire, _keepalive, release *)

\* What is left in the set once the caller's clock has removed what expired
Kept(o, h)  == [x \in Operations |-> IF left[o][x] <= Skew[WorkerOf[h]] THEN Gone ELSE left[o][x]]
Members(s)  == {x \in Operations : s[x] # Gone}
Lease(h)    == LeaseTTL + Skew[WorkerOf[h]]

AcquireSlot(h, o) ==
    /\ Asks(h, "slot", o)
    /\ IF SlotLimit[o] = NoLimit
       THEN Advance(h) /\ UNCHANGED <<left, slots, tasks, slipped>>
       ELSE \/ /\ Cardinality(Members(Kept(o, h))) < SlotLimit[o]
               /\ left' = [left EXCEPT ![o] = [Kept(o, h) EXCEPT ![h] = Lease(h)]]
               /\ \/ /\ slots' = [slots EXCEPT ![h] = @ \cup {o}]
                     /\ tasks' = [tasks EXCEPT ![h] = @ \cup {o}]
                     /\ Advance(h) /\ UNCHANGED slipped
                  \/ Slips(h) /\ Goto(h, "refused") /\ UNCHANGED <<slots, tasks>>
            \/ /\ Cardinality(Members(Kept(o, h))) >= SlotLimit[o]
               /\ left' = [left EXCEPT ![o] = Kept(o, h)]
               /\ Goto(h, "refused") /\ UNCHANGED <<slots, tasks, slipped>>
    /\ UNCHANGED <<taken, due, counter, spans, window, late, crashes>>

\* Mutant of Refresh: the task counts on the lease being there
RefreshBlindly(h, o) ==
    /\ o \in due[h] /\ left' = left
    /\ due' = [due EXCEPT ![h] = @ \ {o}] /\ UNCHANGED <<tasks, slipped>>
    /\ UNCHANGED <<at, step, taken, slots, counter, spans, window, late, crashes>>

\* One turn of _keepalive: it ends when the lease is gone and when Redis fails
Refresh(h, o) ==
    /\ o \in due[h]
    /\ due' = [due EXCEPT ![h] = @ \ {o}]
    /\ \/ left[o][h] # Gone /\ left' = [left EXCEPT ![o][h] = Lease(h)] /\ UNCHANGED <<tasks, slipped>>
       \/ left[o][h] = Gone /\ tasks' = [tasks EXCEPT ![h] = @ \ {o}] /\ UNCHANGED <<left, slipped>>
       \/ Slips(h) /\ tasks' = [tasks EXCEPT ![h] = @ \ {o}] /\ UNCHANGED left
    /\ UNCHANGED <<at, step, taken, slots, counter, spans, window, late, crashes>>

\* 60 seconds: every task that is alive has to have run in them
Tick ==
    /\ \A h \in Operations : due[h] = {}
    /\ due' = tasks
    /\ left' = [o \in Owners |-> [h \in Operations |->
                  IF left[o][h] \in {Gone, 0} THEN left[o][h] ELSE left[o][h] - 1]]
    /\ UNCHANGED <<at, step, taken, slots, tasks, counter, spans, window, late, slipped, crashes>>

\* release cancels the task before it asks Redis
Release(h, o, works) ==
    /\ slots' = [slots EXCEPT ![h] = @ \ {o}]
    /\ tasks' = [tasks EXCEPT ![h] = @ \ {o}] /\ due' = [due EXCEPT ![h] = @ \ {o}]
    /\ left' = IF works THEN [left EXCEPT ![o][h] = Gone] ELSE left

----------------------------------------------------------------------------
(* The end of an operation *)

\* The call itself, upstream or not
Finish(h) ==
    /\ Running(h)
    /\ Goto(h, "finish")
    /\ UNCHANGED <<taken, slots, tasks, due, left, counter, spans, window, late, slipped, crashes>>

\* Tokens of an operation that was not admitted, or of a billed one, are
\* corrected.  A failure ends the finally of guard_unbilled; _clear goes on.
GiveBack(h, o) ==
    /\ at[h] \in {"refused", "finish"} /\ o \in taken[h]
    /\ o = Path[h][IF h \in Billed THEN 2 ELSE 1] \/ taken[h] = {o}
    /\ \/ /\ \E n \in IF at[h] = "refused" THEN {0} ELSE Actual :
               Correct(h, o, IF at[h] = "refused" \/ h \in Billed THEN n - Tokens[h] ELSE 0)
          /\ taken' = [taken EXCEPT ![h] = @ \ {o}] /\ UNCHANGED <<at, step, slipped>>
          /\ window' = IF at[h] = "refused" THEN [window EXCEPT ![o] = @ \ {h}] ELSE window
       \/ /\ at[h] = "refused" \/ h \in Billed
          /\ Slips(h) /\ UNCHANGED <<counter, spans, late, window>>
          /\ IF h \in Billed THEN taken' = [taken EXCEPT ![h] = @ \ {o}] /\ UNCHANGED <<at, step>>
             ELSE taken' = [taken EXCEPT ![h] = {}] /\ Goto(h, "over")
    /\ UNCHANGED <<slots, tasks, due, left, crashes>>

\* Leases in reversed order; a failure leaves those of guard_unbilled that
\* were to follow, and their tasks
FreeSlot(h, o) ==
    /\ at[h] \in {"refused", "finish"} /\ taken[h] = {} /\ o \in slots[h]
    /\ o = Path[h][1] => slots[h] = {o}
    /\ \/ Release(h, o, TRUE) /\ UNCHANGED <<at, step, slipped>>
       \/ Release(h, o, FALSE) /\ Slips(h) /\ (IF h \in Billed THEN UNCHANGED <<at, step>> ELSE Goto(h, "over"))
    /\ UNCHANGED <<taken, counter, spans, window, late, crashes>>

Leave(h) ==
    /\ at[h] \in {"refused", "finish"} /\ taken[h] = {} /\ slots[h] = {}
    /\ Goto(h, "over")
    /\ UNCHANGED <<taken, slots, tasks, due, left, counter, spans, window, late, slipped, crashes>>

\* A worker exits with all its operations and tasks
Crash(w) ==
    /\ crashes < MaxCrashes /\ crashes' = crashes + 1
    /\ LET gone == {h \in Operations : WorkerOf[h] = w}
           Without(f) == [h \in Operations |-> IF h \in gone THEN {} ELSE f[h]]
       IN  /\ at' = [h \in Operations |-> IF h \in gone THEN "dead" ELSE at[h]]
           /\ step' = [h \in Operations |-> IF h \in gone THEN 0 ELSE step[h]]
           /\ tasks' = Without(tasks) /\ due' = Without(due) /\ slots' = Without(slots)
    /\ UNCHANGED <<taken, left, counter, spans, window, late, slipped>>

Operate(h) ==
    \/ \E o \in Owners : ReserveTokens(h, o) \/ AcquireSlot(h, o) \/ GiveBack(h, o) \/ FreeSlot(h, o)
    \/ Leave(h)

Renew == \E h \in Operations, o \in Owners : Refresh(h, o)

NextLimits ==
    \/ \E h \in Operations : Operate(h) \/ Finish(h)
    \/ Renew \/ Tick
    \/ \E o \in Owners : Window(o)
    \/ \E w \in Workers : Crash(w)

SpecLimits == InitLimits /\ [][NextLimits]_limitVars

----------------------------------------------------------------------------
(* Properties *)

\* Types; and no token counter lives for ever
TypeOKLimits ==
    /\ at \in [Operations -> Places] /\ step \in [Operations -> 0..4]
    /\ taken \in [Operations -> SUBSET Owners] /\ slots \in [Operations -> SUBSET Owners]
    /\ tasks \in [Operations -> SUBSET Owners] /\ due \in [Operations -> SUBSET Owners]
    /\ \A o \in Owners, h \in Operations : left[o][h] \in Int
    /\ \A o \in Owners : (counter[o] = Gone \/ counter[o] >= 0) /\ ~spans[o]
    /\ crashes \in 0..MaxCrashes

\* An owner has no more operations under way than it may, except for those
\* whose lease nobody renews since Redis failed their _keepalive task: neither
\* long operations nor workers whose clocks differ by a tick lose a lease.
Holders(o) == {h \in Operations : Alive(h) /\ o \in slots[h]}
SlotsBounded == \A o \in Owners : SlotLimit[o] # NoLimit =>
    Cardinality({h \in Holders(o) : o \in tasks[h]}) <= SlotLimit[o]

\* Operations counted in one window ask for no more than the limit, but for
\* what corrections of earlier operations took from it.
Counts(h) == IF h \in Billed THEN Min(Actual \cup {Tokens[h]}) ELSE Tokens[h]
Uses(o) == {h \in window[o] : at[h] # "refused" /\ (o \in taken[h] \/ at[h] \in {"finish", "over"})}
TokensBounded == \A o \in Owners : TokenLimit[o] # NoLimit =>
    SumFunctionOnSet([h \in Operations |-> Counts(h)], Uses(o)) <= TokenLimit[o] + late[o]

\* Both limits hold at once, with crashes, late corrections and a Redis that fails
LimitsHold == SlotsBounded /\ TokensBounded
=============================================================================
