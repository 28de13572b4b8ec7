--------------------------- MODULE Administration ---------------------------
(***************************************************************************)
(* Changes of one tenant's keys, limits and quota, and of the channels     *)
(* keys may be bound to: routers/keys.py, routers/tenants.py,              *)
(* routers/channels.py.  Creations, updates and adjustments lock the       *)
(* tenant's row first; updates lock the key's row too; a deletion of a     *)
(* channel locks nothing and reads the keys before it deletes.             *)
(***************************************************************************)
EXTENDS Integers, FiniteSets

CONSTANTS
    Keys, Selectable,
    Requests,         \* of administrators and tenants, the retries of the same change too
    Adjustments,      \* operation_id of the adjustments of the quota
    Amounts,          \* of those adjustments
    KeyLimits,        \* max_keys
    NoAmount, NoKey

ASSUME AdministrationAssumption ==
    /\ IsFiniteSet(Keys) /\ KeyLimits \subseteq Nat
    /\ NoAmount \notin Amounts /\ NoKey \notin Keys

VARIABLES
    keys,       \* rows of api_keys: made, enabled, revoked, channel_ids
    maxKeys,    \* Tenant.max_keys
    usable,     \* Tenant.is_enabled
    total,      \* Tenant.quota_total
    applied,    \* ManagementEvent of each operation: the amount it set
    offered,    \* channels that exist
    lock,       \* the request that holds the tenant's row, {} for none
    job         \* requests in hand

adminVars == <<keys, maxKeys, usable, total, applied, offered, lock, job>>

Live == {k \in Keys : keys[k].made /\ ~keys[k].revoked}
Unmade == [made |-> FALSE, enabled |-> FALSE, revoked |-> FALSE, bound |-> {}]
Rest == [doing |-> "nothing", key |-> NoKey, bound |-> {}, stage |-> "begins"]
Job(doing, k, B) == [doing |-> doing, key |-> k, bound |-> B, stage |-> "begins"]
Ends(r) == job' = [job EXCEPT ![r] = Rest]
Stage(r, s) == job' = [job EXCEPT ![r].stage = s]

InitAdmin ==
    /\ keys = [k \in Keys |-> Unmade] /\ maxKeys \in KeyLimits /\ usable = TRUE
    /\ total = NoAmount /\ applied = [o \in Adjustments |-> NoAmount]
    /\ offered = Selectable /\ lock = {} /\ job = [r \in Requests |-> Rest]

----------------------------------------------------------------------------
(* create_key, update_key: before the transaction, in it, its commit *)

CreateKey(r, k, B) ==
    /\ job[r] = Rest /\ ~keys[k].made /\ \A q \in Requests : job[q].key # k
    /\ job' = [job EXCEPT ![r] = Job("create", k, B)]
    /\ UNCHANGED <<keys, maxKeys, usable, total, applied, offered, lock>>

\* find_key: the row as it is before the transaction
UpdateKey(r, k, B) ==
    /\ job[r] = Rest /\ keys[k].made /\ job' = [job EXCEPT ![r] = Job("update", k, B)]
    /\ UNCHANGED <<keys, maxKeys, usable, total, applied, offered, lock>>

\* Mutant of LockTenant: the rows are read without FOR UPDATE
ReadTenant(r) ==
    /\ job[r].doing \in {"create", "update"} /\ job[r].stage = "begins"
    /\ Stage(r, "locked") /\ UNCHANGED <<keys, maxKeys, usable, total, applied, offered, lock>>

LockTenant(r) ==
    /\ job[r].doing \in {"create", "update"} /\ job[r].stage = "begins" /\ lock = {}
    /\ lock' = {r} /\ Stage(r, "locked")
    /\ UNCHANGED <<keys, maxKeys, usable, total, applied, offered>>

Modifiable(r) == ~keys[job[r].key].revoked

\* The checks of _create and update_key
Valid(r) ==
    /\ job[r].bound \subseteq offered                    \* validate_channels
    /\ \/ job[r].doing = "create" /\ usable /\ Cardinality(Live) < maxKeys
       \/ job[r].doing = "update" /\ Modifiable(r)

Validate(r) ==
    /\ job[r].stage = "locked" /\ UNCHANGED <<keys, maxKeys, usable, total, applied, offered>>
    /\ \/ Valid(r) /\ Stage(r, "valid") /\ UNCHANGED lock
       \/ ~Valid(r) /\ Ends(r) /\ lock' = lock \ {r}

Write(r, enabled) ==
    /\ job[r].stage = "valid" /\ Ends(r) /\ lock' = lock \ {r}
    /\ keys' = [keys EXCEPT ![job[r].key] =
                  IF job[r].doing = "create" THEN [made |-> TRUE, enabled |-> TRUE, revoked |-> FALSE,
                                                   bound |-> job[r].bound]
                  ELSE [@ EXCEPT !.enabled = enabled, !.bound = job[r].bound]]
    /\ UNCHANGED <<maxKeys, usable, total, applied, offered>>

\* revoke_key waits for an update that locks the key's row
KeyLocked(k) == \E r \in Requests : job[r].doing = "update" /\ job[r].key = k /\ job[r].stage = "valid"

RevokeKey(k) ==
    /\ keys[k].made /\ ~KeyLocked(k)
    /\ keys' = [keys EXCEPT ![k].enabled = FALSE, ![k].revoked = TRUE]
    /\ UNCHANGED <<maxKeys, usable, total, applied, offered, lock, job>>

----------------------------------------------------------------------------
(* update_tenant, adjust_quota *)

UpdateTenant(n) ==
    /\ lock = {} /\ maxKeys' = n /\ usable' \in BOOLEAN
    /\ UNCHANGED <<keys, total, applied, offered, lock, job>>

\* Under the tenant's lock: a known operation changes nothing, whether it
\* repeats its amount (200) or not (409)
AdjustQuota(o, n) ==
    /\ lock = {} /\ applied[o] = NoAmount
    /\ applied' = [applied EXCEPT ![o] = n] /\ total' = n
    /\ UNCHANGED <<keys, maxKeys, usable, offered, lock, job>>

----------------------------------------------------------------------------
(* delete_channel *)

ReadBindings(r, c) ==
    /\ job[r] = Rest /\ c \in offered /\ \A k \in Live : c \notin keys[k].bound
    /\ job' = [job EXCEPT ![r] = Job("delete", NoKey, {c})]
    /\ UNCHANGED <<keys, maxKeys, usable, total, applied, offered, lock>>

DeleteChannel(r) ==
    /\ job[r].doing = "delete" /\ offered' = offered \ job[r].bound /\ Ends(r)
    /\ UNCHANGED <<keys, maxKeys, usable, total, applied, lock>>

NextAdmin ==
    \/ \E r \in Requests :
          \/ \E k \in Keys, B \in SUBSET Selectable : CreateKey(r, k, B) \/ UpdateKey(r, k, B)
          \/ LockTenant(r) \/ Validate(r) \/ \E b \in BOOLEAN : Write(r, b)
          \/ DeleteChannel(r) \/ \E c \in Selectable : ReadBindings(r, c)
    \/ \E k \in Keys : RevokeKey(k)
    \/ \E n \in KeyLimits : UpdateTenant(n)
    \/ \E o \in Adjustments, n \in Amounts : AdjustQuota(o, n)

SpecAdmin == InitAdmin /\ [][NextAdmin]_adminVars

----------------------------------------------------------------------------
(* Properties *)

TypeOKAdmin ==
    /\ keys \in [Keys -> [made : BOOLEAN, enabled : BOOLEAN, revoked : BOOLEAN, bound : SUBSET Selectable]]
    /\ maxKeys \in KeyLimits /\ usable \in BOOLEAN /\ total \in Amounts \cup {NoAmount}
    /\ applied \in [Adjustments -> Amounts \cup {NoAmount}] /\ offered \subseteq Selectable
    /\ lock \subseteq Requests /\ Cardinality(lock) <= 1
    /\ \A r \in Requests : job[r].stage \in {"begins", "locked", "valid"} /\ job[r].bound \subseteq Selectable

\* A key is added to a tenant only while it has fewer than max_keys keys that
\* are not revoked, however many creations count them at the same time.
KeysAdded == [][Cardinality(Live) < Cardinality(Live') => Cardinality(Live) < maxKeys]_adminVars

\* A revoked key is never changed again, by an update that found it before it
\* was revoked neither.
RevokedStays == [][\A k \in Keys : keys[k].revoked => keys'[k] = keys[k]]_adminVars

\* An operation of the quota takes effect once: a retry of an adjustment never
\* puts its amount back over a later one, and keeps the amount it recorded.
AppliedOnce == [][
    /\ total' # total => \E o \in Adjustments : applied[o] = NoAmount /\ applied'[o] = total'
    /\ \A o \in Adjustments : applied[o] # NoAmount => applied'[o] = applied[o]]_adminVars

\* No interleaving of the forms of keys and tenants, nor a retry of one, passes
\* max_keys, revives a key or applies a quota twice
ChangesKept == KeysAdded /\ RevokedStays /\ AppliedOnce

\* A channel that a key which is not revoked selects is not deleted.
BoundKept == \A k \in Live : keys[k].bound \subseteq offered
=============================================================================
