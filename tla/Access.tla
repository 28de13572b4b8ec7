------------------------------- MODULE Access -------------------------------
(***************************************************************************)
(* Who is let in: the authentication of API keys with their request rates  *)
(* (services/auth.py, services/rate_limit.py), the models a key may use    *)
(* (services/pre_checks.py), and the limit on failed logins of             *)
(* administrators (routers/auth.py).  The lists of models are kept as what *)
(* they say of one model.                                                  *)
(***************************************************************************)
EXTENDS Integers, FiniteSets

CONSTANTS
    Clients,         \* requests
    Keys, KeyOf,     \* API keys of one tenant; [request -> key]
    Tenant,
    Rate,            \* [owner -> Int]: rpm_limit of the keys and the tenant
    Logins,          \* attempts to log in, all for one username
    AddressOf,       \* [attempt -> address]
    Username,
    LoginMaxFailures,
    MaxChanges,      \* bound on what administrators change
    MaxDeaths        \* bound on workers that exit in a login

ASSUME AccessAssumption ==
    /\ KeyOf \in [Clients -> Keys] /\ Rate \in [Keys \cup {Tenant} -> Int]
    /\ LoginMaxFailures \in Nat \ {0} /\ MaxChanges \in Nat /\ MaxDeaths \in Nat

VARIABLES
    keyRows,    \* [key -> [on, models, group]]: group says whether it has a group
    tenantRow,  \* [on, models]
    group,      \* what the group says of the model, or Missing
    client,     \* [request -> [at, key, tenant]], the rows as it read them
    stays,      \* history: [request -> what forbade it ever since it came]
    rateCount,  \* [owner -> the counter of five:rpm:, 0 if there is none]
    login,      \* [attempt -> [at, count]]
    failures,   \* [counter of failed logins -> number], 0 if there is none
    expires,    \* the counters that expire
    stranded,   \* history: counters whose attempt died before it set their end
    changes, deaths

accessVars == <<keyRows, tenantRow, group, client, stays, rateCount, login, failures, expires, stranded,
                changes, deaths>>

Missing == "missing"
Lists == {"empty", "with", "without"}      \* a list of models
RateOwners == Keys \cup {Tenant}
Counters == {AddressOf[a] : a \in Logins} \cup {Username}

InitAccess ==
    /\ keyRows = [k \in Keys |-> [on |-> TRUE, models |-> "empty", group |-> FALSE]]
    /\ tenantRow = [on |-> TRUE, models |-> "empty"] /\ group = "with"
    /\ client = [c \in Clients |-> [at |-> "new", key |-> keyRows[KeyOf[c]], tenant |-> tenantRow]]
    /\ stays = [c \in Clients |-> {}]
    /\ rateCount = [o \in RateOwners |-> 0]
    /\ login = [a \in Logins |-> [at |-> "new", count |-> 0]]
    /\ failures = [f \in Counters |-> 0] /\ expires = {} /\ stranded = {}
    /\ changes = 0 /\ deaths = 0

adminPart  == <<keyRows, tenantRow, group, changes>>
loginPart  == <<login, failures, expires, stranded, deaths>>
clientPart == <<client, stays, rateCount>>

----------------------------------------------------------------------------
(* API keys *)

\* What forbids the model to a key, as the rows are
Forbids(key, row, models) ==
    {r \in {"key off", "tenant off", "key", "tenant", "group"} :
        \/ r = "key off" /\ ~key.on
        \/ r = "tenant off" /\ ~row.on
        \/ r = "key" /\ key.models = "without"
        \/ r = "tenant" /\ row.models = "without"
        \/ r = "group" /\ key.group /\ models # "with"}

Move(c, place) == client' = [client EXCEPT ![c].at = place]

\* The row of the key: its hash, its state, its end, its addresses
ReadKey(c) ==
    /\ client[c].at = "new"
    /\ client' = [client EXCEPT ![c].key = keyRows[KeyOf[c]], ![c].at = IF keyRows[KeyOf[c]].on THEN "key" ELSE "refused"]
    /\ stays' = [stays EXCEPT ![c] = Forbids(keyRows[KeyOf[c]], tenantRow, group)]
    /\ UNCHANGED <<rateCount>>

\* check_key_tenant; the row is kept for the request (cached_tenant)
ReadTenant(c) ==
    /\ client[c].at = "key"
    /\ client' = [client EXCEPT ![c].tenant = tenantRow, ![c].at = IF tenantRow.on THEN "tenant" ELSE "refused"]
    /\ UNCHANGED <<stays, rateCount>>

Within(o) == rateCount[o] + 1 <= Rate[o]

\* check_rpm: one script.  A request that its tenant refuses stays counted for its key
CheckRate(c, o, from, to) ==
    /\ client[c].at = from
    /\ \/ Rate[o] = -1 /\ Move(c, to) /\ UNCHANGED <<rateCount>>
       \/ /\ Rate[o] # -1 /\ Within(o)
          /\ Move(c, to)
          /\ rateCount' = [rateCount EXCEPT ![o] = @ + 1]
       \/ Rate[o] # -1 /\ ~Within(o) /\ Move(c, "refused") /\ UNCHANGED <<rateCount>>
    /\ UNCHANGED stays

\* Mutant of Effective: a group that is gone would restrict nothing
EffectiveUngrouped(key, row) ==
    /\ key.models # "without" /\ (key.group => group # "without")
    /\ row.models # "without"

\* get_effective_allowed_models: an empty list of a key or a tenant restricts
\* nothing, an empty group or a missing one forbids everything
Effective(key, row) ==
    /\ key.models # "without" /\ (key.group => group = "with")
    /\ row.models # "without"

\* check_model_access; the list of models and /v1/me ask the same
CheckModel(c) ==
    /\ client[c].at = "rated"
    /\ Move(c, IF Effective(client[c].key, client[c].tenant) THEN "admitted" ELSE "refused")
    /\ UNCHANGED <<stays, rateCount>>

\* A minute after the first of its requests, the counter ends
EndWindow(o) ==
    /\ rateCount[o] > 0 /\ rateCount' = [rateCount EXCEPT ![o] = 0]
    /\ UNCHANGED <<client, stays>>

\* The forms of keys, tenants and groups
Administer ==
    /\ changes < MaxChanges /\ changes' = changes + 1
    /\ \/ \E k \in Keys, on \in BOOLEAN, models \in Lists, grouped \in BOOLEAN :
             keyRows' = [keyRows EXCEPT ![k] = [on |-> on, models |-> models, group |-> grouped]] /\ UNCHANGED <<tenantRow, group>>
       \/ \E on \in BOOLEAN, models \in Lists : tenantRow' = [on |-> on, models |-> models] /\ UNCHANGED <<keyRows, group>>
       \/ \E models \in Lists \cup {Missing} : group' = models /\ UNCHANGED <<keyRows, tenantRow>>
    /\ stays' = [c \in Clients |-> stays[c] \cap Forbids(keyRows'[KeyOf[c]], tenantRow', group')]
    /\ UNCHANGED <<client, rateCount>>

----------------------------------------------------------------------------
(* Failed logins *)

\* _too_many_failures
Allowed(a) == failures[AddressOf[a]] < LoginMaxFailures /\ failures[Username] < LoginMaxFailures
At(a, place) == login' = [login EXCEPT ![a].at = place]

\* The right password ends the count of the name, not that of the address
LogIn(a) ==
    /\ login[a].at = "new" /\ Allowed(a)
    /\ \/ At(a, "wrong") /\ UNCHANGED failures
       \/ At(a, "right") /\ UNCHANGED failures
    /\ UNCHANGED <<expires, stranded, deaths>>

Succeed(a) ==
    /\ login[a].at = "right" /\ At(a, "over")
    /\ failures' = [failures EXCEPT ![Username] = 0] /\ expires' = expires \ {Username}
    /\ UNCHANGED <<stranded, deaths>>

CounterAt(a) == IF login[a].at \in {"wrong", "ends address"} THEN AddressOf[a] ELSE Username
After(a) == IF CounterAt(a) = Username THEN "over" ELSE "next"

First(count) == count = 1

\* _record_failure: INCR, and EXPIRE for a new counter, as two commands
CountFailed(a) ==
    /\ login[a].at \in {"wrong", "next"}
    /\ LET f == CounterAt(a) IN
       /\ failures' = [failures EXCEPT ![f] = @ + 1]
       /\ At(a, IF ~First(failures'[f]) THEN After(a) ELSE IF f = Username THEN "ends name" ELSE "ends address")
    /\ UNCHANGED <<expires, stranded, deaths>>

SetEnd(a) ==
    /\ login[a].at \in {"ends name", "ends address"}
    /\ expires' = IF failures[CounterAt(a)] > 0 THEN expires \cup {CounterAt(a)} ELSE expires
    /\ At(a, After(a)) /\ UNCHANGED <<failures, stranded, deaths>>

EndCounter(f) ==
    /\ f \in expires /\ expires' = expires \ {f} /\ failures' = [failures EXCEPT ![f] = 0]
    /\ UNCHANGED <<login, stranded, deaths>>

Die(a) ==
    /\ login[a].at \notin {"new", "over"} /\ deaths < MaxDeaths /\ deaths' = deaths + 1
    /\ stranded' = IF login[a].at \in {"ends name", "ends address"} THEN stranded \cup {CounterAt(a)} ELSE stranded
    /\ At(a, "over") /\ UNCHANGED <<failures, expires>>

----------------------------------------------------------------------------

NextClients ==
    \/ /\ \E c \in Clients : \/ ReadKey(c) \/ ReadTenant(c) \/ CheckModel(c)
                             \/ CheckRate(c, KeyOf[c], "tenant", "key rated") \/ CheckRate(c, Tenant, "key rated", "rated")
       /\ UNCHANGED <<adminPart, loginPart>>
    \/ (\E o \in RateOwners : EndWindow(o)) /\ UNCHANGED <<adminPart, loginPart>>
    \/ Administer /\ UNCHANGED loginPart

NextLogins ==
    /\ \/ \E a \in Logins : LogIn(a) \/ Succeed(a) \/ CountFailed(a) \/ SetEnd(a) \/ Die(a)
       \/ \E f \in Counters : EndCounter(f)
    /\ UNCHANGED <<adminPart, clientPart>>

NextAccess == NextClients \/ NextLogins

SpecAccess == InitAccess /\ [][NextAccess]_accessVars

----------------------------------------------------------------------------
(* Properties *)

\* Three rows, read at three moments, decide on a request: one that is admitted
\* was not forbidden by the same rule from its first read to its admission, even
\* if its group was deleted on the way.
AdmissionFounded == \A c \in Clients : client[c].at = "admitted" => client[c].key.on /\ stays[c] = {}

\* A counter that locks logins out ends by itself, or an attempt is about to see
\* to it, unless the attempt that had to died between its two commands.
LocksExpire ==
    \A f \in Counters : failures[f] = 0 \/ f \in expires \cup stranded
                        \/ \E a \in Logins : login[a].at \in {"ends name", "ends address"} /\ CounterAt(a) = f

\* Nobody is let in, or kept out for ever, by an interleaving
AccessSound == AdmissionFounded /\ LocksExpire
=============================================================================
