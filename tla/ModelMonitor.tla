---------------------------- MODULE ModelMonitor ----------------------------
(***************************************************************************)
(* The synthetic checks of models (services/model_monitor.py): the sweeps  *)
(* of the workers, the checks administrators ask for (routers/             *)
(* model_checks.py, routers/channels.py), the lock of each check and the   *)
(* two global leases.  A check runs for at most its time-outs              *)
(* (services/model_checks.py, services/channel_checks.py), which are less  *)
(* than the 120 s of its lock; the lock is compared and deleted in two     *)
(* commands.  Time is counted in units of 20 s; commands to Redis and MySQL*)
(* take less than a unit.                                                  *)
(***************************************************************************)
EXTENDS Integers, Sequences, FiniteSets, SequencesExt, FiniteSetsExt

CONSTANTS
    Sweepers,      \* each runs model_check_loop
    Callers,       \* administrators' requests
    Scheduled,     \* Seq of the (channel, model, kind) that sweeps check, in their order
    OnDemand,      \* endpoint checks of channels, which no sweep makes
    Longest,       \* [checks -> units]: what its time-outs allow
    Broken,        \* checks whose channel no provider can be built for
    Rate,          \* of each administrator's requests in a unit of time
    Interval,      \* units between the checks of a model
    Limit,         \* checks of a sweep
    LockTTL, ClaimTTL,
    MaxMishaps     \* bound on crashes and on failed commands

Items  == ToSet(Scheduled) \cup OnDemand
Checkers == Sweepers \cup Callers

ASSUME MonitorAssumption ==
    /\ Sweepers \cap Callers = {} /\ ToSet(Scheduled) \cap OnDemand = {}
    /\ Longest \in [Items -> 1..LockTTL - 1] /\ Broken \subseteq ToSet(Scheduled)
    /\ Interval \in Nat \ {0} /\ Limit \in Nat /\ LockTTL \in Nat \ {0} /\ MaxMishaps \in Nat
    /\ Cardinality(Broken) < Limit      \* else they alone fill every sweep

VARIABLES
    age,       \* units since the latest record, at most Interval: it is due; no record is due too
    line,      \* the scheduled checks, the longest not recorded first
    lockLeft,  \* units until the lock of a check expires, 0 for no lock
    holder,    \* whose token the lock holds
    leases,    \* checks that hold a global lease
    orphans,   \* leases nobody refreshes or releases
    asked,     \* administrators' requests in this unit of time
    stage,     \* where an owner's check of an item is
    todo,      \* what a worker's sweep still has to check, after the current pair
    listed,    \* what its sweep listed and nobody has recorded since
    turn,      \* units until the claim of the sweep expires
    mishaps

monitorVars == <<age, line, lockLeft, holder, leases, orphans, asked, stage, todo, listed, turn, mishaps>>

Pairs  == Checkers \X Items
ProbeStages == {"none", "waits", "locked", "runs", "frees", "deletes"}
Active(o) == {i \in Items : stage[<<o, i>>] # "none"}
To(o, i, s) == stage' = [stage EXCEPT ![<<o, i>>] = s]
Nobody == [i \in Items |-> {}]

InitMonitor ==
    /\ age = [i \in ToSet(Scheduled) |-> Interval] /\ line = Scheduled
    /\ lockLeft = [i \in Items |-> 0] /\ holder = [i \in Items |-> {}]
    /\ leases = {} /\ orphans = 0 /\ asked = 0 /\ stage = [p \in Pairs |-> "none"]
    /\ todo = [w \in Sweepers |-> <<>>] /\ listed = [w \in Sweepers |-> {}]
    /\ turn = 0 /\ mishaps = 0

----------------------------------------------------------------------------
(* model_check_loop, run_due_once *)

Swept(w) == todo[w] = <<>> /\ Active(w) = {}
Overdue == {i \in ToSet(Scheduled) : age[i] = Interval}
Place(i) == CHOOSE n \in DOMAIN line : line[n] = i

\* The first that are due, as many as a sweep checks
Listings == {s \in [1..Min({Limit, Cardinality(Overdue)}) -> Overdue] :
                \A n \in DOMAIN s : Cardinality({i \in Overdue : Place(i) <= Place(s[n])}) = n}

\* A worker without the claim sleeps; the winner lists what is due
Sweep(w) ==
    /\ Swept(w) /\ turn = 0 /\ turn' = ClaimTTL
    /\ \E s \in Listings :
         todo' = [todo EXCEPT ![w] = s] /\ listed' = [listed EXCEPT ![w] = ToSet(s)]
    /\ UNCHANGED <<orphans, asked, age, line, lockLeft, holder, leases, stage, mishaps>>

\* asyncio.gather over two checks: the next pair waits for both
NextPair(w) ==
    /\ Active(w) = {} /\ todo[w] # <<>>
    /\ LET n == Min({2, Len(todo[w])})
       IN  /\ stage' = [p \in Pairs |-> IF p[1] = w /\ p[2] \in ToSet(SubSeq(todo[w], 1, n))
                                        THEN "waits" ELSE stage[p]]
           /\ todo' = [todo EXCEPT ![w] = SubSeq(@, n + 1, Len(@))]
    /\ UNCHANGED <<orphans, asked, age, line, lockLeft, holder, leases, listed, turn, mishaps>>

\* check_model, test_channel: an actor's requests are limited by the minute
Ask(o, i) ==
    /\ o \in Callers /\ Active(o) = {} /\ To(o, i, "waits")
    /\ asked < Rate /\ asked' = asked + 1
    /\ UNCHANGED <<orphans, age, line, lockLeft, holder, leases, todo, listed, turn, mishaps>>

----------------------------------------------------------------------------
(* probe_slot *)

Lock(o, i) ==
    /\ stage[<<o, i>>] = "waits"
    /\ \/ lockLeft[i] > 0 /\ To(o, i, "none") /\ UNCHANGED <<lockLeft, holder>>
       \/ /\ lockLeft[i] = 0 /\ To(o, i, "locked")
          /\ lockLeft' = [lockLeft EXCEPT ![i] = LockTTL] /\ holder' = [holder EXCEPT ![i] = {o}]
    /\ UNCHANGED <<orphans, asked, age, line, leases, todo, listed, turn, mishaps>>

\* A worker reads the latest record again: one younger than its sweep is not due
Begins(o, i) == IF o \in Sweepers /\ i \notin listed[o] THEN "frees" ELSE "runs"

BeginProbe(o, i) ==
    /\ stage[<<o, i>>] = "locked"
    /\ IF Cardinality(leases) + orphans < 2 THEN leases' = leases \cup {<<o, i>>} /\ To(o, i, Begins(o, i))
       ELSE To(o, i, "frees") /\ UNCHANGED leases
    /\ UNCHANGED <<orphans, asked, age, line, lockLeft, holder, todo, listed, turn, mishaps>>

\* run_probe records every outcome, except that no provider could be built
FinishProbe(o, i) ==
    /\ stage[<<o, i>>] = "runs" /\ To(o, i, "frees")
    /\ IF i \in OnDemand \cup Broken THEN UNCHANGED <<age, line, listed>>
       ELSE /\ age' = [age EXCEPT ![i] = 0] /\ line' = Append(Remove(line, i), i)
            /\ listed' = [w \in Sweepers |-> listed[w] \ {i}]
    /\ UNCHANGED <<orphans, asked, lockLeft, holder, leases, todo, turn, mishaps>>

\* The lease, then the token of the lock
Free(o, i) ==
    /\ stage[<<o, i>>] = "frees" /\ leases' = leases \ {<<o, i>>}
    /\ To(o, i, IF holder[i] = {o} THEN "deletes" ELSE "none")
    /\ UNCHANGED <<orphans, asked, age, line, lockLeft, holder, todo, listed, turn, mishaps>>

DeleteLock(o, i) ==
    /\ stage[<<o, i>>] = "deletes" /\ To(o, i, "none")
    /\ lockLeft' = [lockLeft EXCEPT ![i] = 0] /\ holder' = [holder EXCEPT ![i] = {}]
    /\ UNCHANGED <<orphans, asked, age, line, leases, todo, listed, turn, mishaps>>

----------------------------------------------------------------------------
(* Time and faults *)

\* Mutants of MayRun: the sends of a check have no time-out; of Older: a lock has no expiry
MayRunOn(i) == TRUE
OlderKept(n) == n

MayRun(i) == lockLeft[i] > LockTTL - Longest[i]
Older(n) == IF n = 0 THEN 0 ELSE n - 1

TimeGoesOn ==
    /\ \A p \in Pairs : stage[p] = "none" \/ (stage[p] = "runs" /\ MayRun(p[2]))
    /\ age' = [i \in DOMAIN age |-> Min({age[i] + 1, Interval})]
    /\ lockLeft' = [i \in Items |-> Older(lockLeft[i])]
    /\ holder' = [i \in Items |-> IF lockLeft'[i] = 0 THEN {} ELSE holder[i]]
    /\ turn' = Max({turn - 1, 0})
    /\ asked' = 0 /\ UNCHANGED <<line, leases, orphans, stage, todo, listed, mishaps>>

\* Redis fails while a check cleans up, or takes longer than the 5 s it has
CleanUpFails(o, i) ==
    /\ stage[<<o, i>>] \in {"frees", "deletes"} /\ mishaps < MaxMishaps
    /\ mishaps' = mishaps + 1 /\ To(o, i, "none")
    /\ leases' = leases \ {<<o, i>>} /\ orphans' = orphans + Cardinality(leases \ leases')
    /\ UNCHANGED <<age, line, lockLeft, holder, asked, todo, listed, turn>>

\* The process of an owner exits: locks and leases stay until they expire
OwnerExits(o) ==
    /\ Active(o) # {} /\ mishaps < MaxMishaps /\ mishaps' = mishaps + 1
    /\ stage' = [p \in Pairs |-> IF p[1] = o THEN "none" ELSE stage[p]]
    /\ todo' = [w \in Sweepers |-> IF w = o THEN <<>> ELSE todo[w]]
    /\ leases' = {p \in leases : p[1] # o} /\ orphans' = orphans + Cardinality(leases \ leases')
    /\ UNCHANGED <<age, line, lockLeft, holder, asked, listed, turn>>

LeaseExpires ==
    /\ orphans > 0 /\ orphans' = orphans - 1
    /\ UNCHANGED <<age, line, lockLeft, holder, leases, asked, stage, todo, listed, turn, mishaps>>

CheckStep(o, i) ==
    Lock(o, i) \/ BeginProbe(o, i) \/ FinishProbe(o, i) \/ Free(o, i) \/ DeleteLock(o, i)

Loop(w) == Sweep(w) \/ NextPair(w)

NextMonitor ==
    \/ \E w \in Sweepers : Loop(w)
    \/ \E o \in Checkers, i \in Items : CheckStep(o, i) \/ Ask(o, i) \/ CleanUpFails(o, i)
    \/ \E o \in Checkers : OwnerExits(o)
    \/ TimeGoesOn \/ LeaseExpires

SpecMonitor == InitMonitor /\ [][NextMonitor]_monitorVars

\* Loops run, checks go on, time passes; administrators need not ask
FairMonitor ==
    /\ \A w \in Sweepers : WF_monitorVars(Loop(w))
    /\ \A o \in Checkers, i \in Items : WF_monitorVars(CheckStep(o, i))
    /\ WF_monitorVars(TimeGoesOn) /\ WF_monitorVars(LeaseExpires)

----------------------------------------------------------------------------
(* Properties *)

\* Types, and a lock without an expiry names nobody
TypeOKMonitor ==
    /\ age \in [ToSet(Scheduled) -> 0..Interval] /\ line \in SetToSeqs(ToSet(Scheduled))
    /\ lockLeft \in [Items -> 0..LockTTL] /\ \A i \in Items : holder[i] = {} <=> lockLeft[i] = 0
    /\ leases \subseteq Pairs /\ orphans \in 0..2 /\ asked \in 0..Rate
    /\ stage \in [Pairs -> ProbeStages] /\ turn \in 0..ClaimTTL
    /\ \A w \in Sweepers : listed[w] \cup ToSet(todo[w]) \subseteq Items

Probing(i) == {o \in Checkers : stage[<<o, i>>] = "runs"}

\* "Bounded probes and endpoint checks finish before the 120s lock expires": a
\* check never runs twice at once, although its lock is freed without an
\* atomic comparison, and nobody loses a lock to a check that ended.
OneProbe == \A i \in Items : /\ Cardinality(Probing(i)) <= 1
                             /\ \A o \in Probing(i) : holder[i] = {o}

\* However sweeps overlap with each other and with checks asked for, at most
\* two checks run at any time.
GlobalTwo == Cardinality({p \in Pairs : stage[p] = "runs"}) <= 2

\* A sweep checks nothing that was recorded within the interval, although it
\* works on a list that may be minutes old.
ProbedOncePerInterval ==
    [][\A w \in Sweepers, i \in ToSet(Scheduled) :
          stage[<<w, i>>] # "runs" /\ stage'[<<w, i>>] = "runs" => age[i] = Interval]_monitorVars

\* Checks keep apart in all three ways at once
ChecksApart == [][OneProbe' /\ GlobalTwo']_monitorVars /\ ProbedOncePerInterval

\* Every check a provider can be built for is recorded again and again:
\* crashes, locks left behind, channels that cannot be checked and other
\* checks that take the leases only delay it.
DueProbed == \A i \in ToSet(Scheduled) \ Broken : []<>(age[i] < Interval)
=============================================================================
