---------------------------- MODULE ConfigCaches ----------------------------
(***************************************************************************)
(* The settings of the gateway (services/settings_service.py) and the list *)
(* of enabled channels (providers/registry.py), each kept by every worker  *)
(* for two seconds, and their changes by administrators, whose transaction *)
(* (services/management_events.py) commits after the handler has touched   *)
(* the cache of its worker.  A value is the set of changes it reflects.    *)
(***************************************************************************)
EXTENDS Integers, FiniteSets

CONSTANTS
    Changes, Readers,
    At,             \* [Changes \cup Readers -> workers]
    TTL,            \* _CACHE_TTL, _CHANNEL_TTL
    MaxRollbacks    \* bound on the changes whose event cannot be recorded

Processes == {At[x] : x \in Changes \cup Readers}

ASSUME CachesAssumption ==
    /\ Changes \cap Readers = {} /\ DOMAIN At = Changes \cup Readers
    /\ TTL \in Nat \ {0} /\ MaxRollbacks \in Nat

VARIABLES
    table,      \* "settings" or "channels": the two do not interact
    row,        \* what is committed
    since,      \* units since each change was committed, at most TTL
    holds,      \* the change whose transaction locks the row of the settings, {} for none
    change,     \* what each change does next
    stored,     \* what a change of the settings writes
    cache,      \* of each worker: {} or one [value, age]
    load,       \* a reader's load: {} or one [value, age], stamped when it began
    rollbacks

cacheVars == <<table, row, since, holds, change, stored, cache, load, rollbacks>>

Cached(v, a) == {[value |-> v, age |-> a]}
Aged(E) == {[e EXCEPT !.age = IF e.age = TTL THEN TTL ELSE e.age + 1] : e \in E}
Unread == {"unread"}
Fresh(w) == \E e \in cache[w] : e.age < TTL
Does(x, s) == change' = [change EXCEPT ![x] = s]

InitCaches ==
    /\ table \in {"settings", "channels"} /\ row = {} /\ since = [x \in Changes |-> 0]
    /\ holds = {} /\ change = [x \in Changes |-> "new"] /\ stored = [x \in Changes |-> {}]
    /\ cache = [w \in Processes |-> {}] /\ load = [d \in Readers |-> {}] /\ rollbacks = 0

----------------------------------------------------------------------------
(* gateway_config, enabled_channels *)

\* Mutant of Stamp: the time is taken when the row has been read
StampAfter(v, a) == Cached(v, 0)

Stamp(v, a) == Cached(v, a)

BeginLoad(d) ==
    /\ ~Fresh(At[d]) /\ load[d] = {} /\ load' = [load EXCEPT ![d] = Cached(Unread, 0)]
    /\ UNCHANGED <<table, row, since, holds, change, stored, cache, rollbacks>>

ReadRow(d) ==
    /\ \E e \in load[d] : e.value = Unread /\ load' = [load EXCEPT ![d] = Cached(row, e.age)]
    /\ UNCHANGED <<table, row, since, holds, change, stored, cache, rollbacks>>

Store(d) ==
    /\ \E e \in load[d] : e.value # Unread /\ cache' = [cache EXCEPT ![At[d]] = Stamp(e.value, e.age)]
    /\ load' = [load EXCEPT ![d] = {}]
    /\ UNCHANGED <<table, row, since, holds, change, stored, rollbacks>>

----------------------------------------------------------------------------
(* patch_gateway_config; create_channel, update_channel, delete_channel; audit_mutation *)

\* The settings are one row, read under its lock; channels have rows of their own
Patch(x) ==
    /\ change[x] = "new" /\ Does(x, "written")
    /\ IF table = "settings" THEN holds = {} /\ holds' = {x} ELSE UNCHANGED holds
    /\ stored' = [stored EXCEPT ![x] = row \cup {x}]
    /\ UNCHANGED <<table, row, since, cache, load, rollbacks>>

\* patch_gateway_config fills the cache of its worker, clear_channel_cache empties it
Touch(x) ==
    /\ change[x] = "written" /\ Does(x, "touched")
    /\ cache' = [cache EXCEPT ![At[x]] = IF table = "settings" THEN Cached(stored[x], 0) ELSE {}]
    /\ UNCHANGED <<table, row, since, holds, stored, load, rollbacks>>

Commit(x) ==
    /\ change[x] = "touched" /\ Does(x, "done") /\ since' = [since EXCEPT ![x] = 0]
    /\ row' = IF table = "settings" THEN stored[x] ELSE row \cup {x}
    /\ holds' = holds \ {x}
    /\ UNCHANGED <<table, stored, cache, load, rollbacks>>

\* record_event fails: the transaction is rolled back, the cache is not
RollBack(x) ==
    /\ change[x] = "touched" /\ Does(x, "undone") /\ holds' = holds \ {x}
    /\ rollbacks < MaxRollbacks /\ rollbacks' = rollbacks + 1
    /\ UNCHANGED <<table, row, since, stored, cache, load>>

Passes ==
    /\ since' = [x \in Changes |-> IF x \in row /\ since[x] < TTL THEN since[x] + 1 ELSE since[x]]
    /\ cache' = [w \in Processes |-> Aged(cache[w])] /\ load' = [d \in Readers |-> Aged(load[d])]
    /\ UNCHANGED <<table, row, holds, change, stored, rollbacks>>

NextCaches ==
    \/ \E d \in Readers : BeginLoad(d) \/ ReadRow(d) \/ Store(d)
    \/ \E x \in Changes : Patch(x) \/ Touch(x) \/ Commit(x) \/ RollBack(x)
    \/ Passes

SpecCaches == InitCaches /\ [][NextCaches]_cacheVars

----------------------------------------------------------------------------
(* Properties *)

Entries == [value : (SUBSET Changes) \cup {Unread}, age : 0..TTL]
TypeOKCaches ==
    /\ table \in {"settings", "channels"} /\ row \subseteq Changes /\ since \in [Changes -> 0..TTL]
    /\ holds \subseteq Changes /\ stored \in [Changes -> SUBSET Changes]
    /\ \A w \in Processes : cache[w] \subseteq Entries /\ Cardinality(cache[w]) <= 1
    /\ \A d \in Readers : load[d] \subseteq Entries /\ Cardinality(load[d]) <= 1

\* What a worker uses misses no change that is older than its stamp: reads that
\* take long and loads that end out of order make nothing staler than the TTL.
StaleBounded == \A w \in Processes : \A e \in cache[w] :
    e.age < TTL => \A x \in row \ e.value : since[x] <= e.age

\* Administrators who change different settings at the same time do not undo
\* each other's changes.
PatchKept == \A x \in Changes : change[x] = "done" => x \in row

\* "Admin writes clear the cache at once; the TTL only bounds edits made outside
\* this process": a worker does not use a list without a change it has answered.
OwnWritesSeen == table = "channels" => \A x \in Changes : \A e \in cache[At[x]] :
    change[x] = "done" /\ e.age < TTL => x \in e.value

\* "Record platform configuration mutations atomically": no worker uses a
\* setting whose transaction was rolled back.
UndoneUnused == \A w \in Processes : \A e \in cache[w] :
    e.age < TTL => \A x \in e.value : change[x] # "undone"
=============================================================================
