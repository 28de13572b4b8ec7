--------------------------- MODULE ChannelHealth ---------------------------
(***************************************************************************)
(* The circuit breaker of one channel (services/channel_health.py): what   *)
(* requests record of their attempts, the background probe of every        *)
(* worker, and the claim that shares the probes out (services/cluster.py). *)
(* The three Redis keys of a channel are written by separate commands, so  *)
(* records of a success and of a failure interleave.                       *)
(***************************************************************************)
EXTENDS Integers, FiniteSets

CONSTANTS
    Attempts,     \* requests (and administrators who force a recovery)
    Probers,      \* the health_check_loop of each worker
    Threshold,    \* channel_health_threshold
    MaxAborts     \* bound on the recordings cut short: Redis fails, the worker exits

ASSUME HealthAssumption ==
    /\ Attempts \cap Probers = {} /\ Threshold \in Nat \ {0} /\ MaxAborts \in Nat

VARIABLES
    well,       \* the upstream answers
    enabled,    \* Channel.is_enabled
    fails,      \* five:health:fail, no further than Threshold: beyond it nothing changes
    open,       \* five:health:disabled is set
    cooling,    \* five:health:cooldown is set
    claimed,    \* five:claim:channel-probe is set
    doing,      \* what an attempt or a probe does next
    counted,    \* the failures that a recording of a failure counted
    aborts

healthVars == <<well, enabled, fails, open, cooling, claimed, doing, counted, aborts>>

Actors == Attempts \cup Probers
Stages == {"idle", "found", "asks", "won", "won2", "won3", "lost", "counted", "limited"}
Healthy == ~open /\ ~cooling      \* is_channel_healthy
Do(p, stage) == doing' = [doing EXCEPT ![p] = stage]

InitHealth ==
    /\ well \in BOOLEAN /\ enabled = TRUE /\ fails = 0 /\ open = FALSE /\ cooling = FALSE
    /\ claimed = FALSE /\ doing = [p \in Actors |-> "idle"] /\ counted = [p \in Actors |-> 0]
    /\ aborts = 0

----------------------------------------------------------------------------
(* record_success: three deletes *)

\* Mutant of Forget: the other keys are left alone if no failure was counted
ForgetIfAny(p) ==
    /\ doing[p] = "won" /\ fails' = 0 /\ Do(p, IF fails = 0 THEN "idle" ELSE "won2")
    /\ UNCHANGED <<well, enabled, open, cooling, claimed, counted, aborts>>

Forget(p) ==
    /\ doing[p] = "won" /\ fails' = 0 /\ Do(p, "won2")
    /\ UNCHANGED <<well, enabled, open, cooling, claimed, counted, aborts>>

Close(p) ==
    /\ doing[p] = "won2" /\ open' = FALSE /\ Do(p, "won3")
    /\ UNCHANGED <<well, enabled, fails, cooling, claimed, counted, aborts>>

Cool(p) ==
    /\ doing[p] = "won3" /\ cooling' = FALSE /\ Do(p, "idle")
    /\ UNCHANGED <<well, enabled, fails, open, claimed, counted, aborts>>

\* record_failure: count, read the threshold, trip
CountFailure(p) ==
    /\ doing[p] = "lost" /\ Do(p, "counted")
    /\ fails' = IF fails = Threshold THEN fails ELSE fails + 1
    /\ counted' = [counted EXCEPT ![p] = fails']
    /\ UNCHANGED <<well, enabled, open, cooling, claimed, aborts>>

Trip(p) ==
    /\ doing[p] = "counted" /\ Do(p, "idle") /\ counted' = [counted EXCEPT ![p] = 0]
    /\ open' = (open \/ counted[p] >= Threshold)
    /\ UNCHANGED <<well, enabled, fails, cooling, claimed, aborts>>

\* record_rate_limit
RateLimited(p) ==
    /\ doing[p] = "limited" /\ cooling' = TRUE /\ Do(p, "idle")
    /\ UNCHANGED <<well, enabled, fails, open, claimed, counted, aborts>>

----------------------------------------------------------------------------
(* Requests, administrators, probes *)

\* An attempt reaches an open channel too: half-open, or by a stale cache
Attempt(p) ==
    /\ p \in Attempts /\ doing[p] = "idle" /\ enabled
    /\ IF well THEN Do(p, "won") ELSE \E s \in {"lost", "limited"} : Do(p, s)
    /\ UNCHANGED <<well, enabled, fails, open, cooling, claimed, counted, aborts>>

ForceRecover(p) ==
    /\ p \in Attempts /\ doing[p] = "idle" /\ Do(p, "won")
    /\ UNCHANGED <<well, enabled, fails, open, cooling, claimed, counted, aborts>>

\* One sweep of health_check_loop: enabled channels, of those the unhealthy
\* ones, of those the ones it can claim
Find(p) ==
    /\ p \in Probers /\ doing[p] = "idle" /\ enabled /\ ~Healthy /\ Do(p, "found")
    /\ UNCHANGED <<well, enabled, fails, open, cooling, claimed, counted, aborts>>

Claim(p) ==
    /\ doing[p] = "found" /\ claimed' = TRUE
    /\ Do(p, IF claimed THEN "idle" ELSE "asks")
    /\ UNCHANGED <<well, enabled, fails, open, cooling, counted, aborts>>

ProbeChannel(p) ==
    /\ doing[p] = "asks" /\ Do(p, IF well THEN "won" ELSE "lost")
    /\ UNCHANGED <<well, enabled, fails, open, cooling, claimed, counted, aborts>>

----------------------------------------------------------------------------
(* Time, administrators, faults *)

ClaimExpires ==
    /\ claimed /\ claimed' = FALSE
    /\ UNCHANGED <<well, enabled, fails, open, cooling, doing, counted, aborts>>

KeysExpire ==
    /\ \/ fails > 0 /\ fails' = 0 /\ UNCHANGED cooling
       \/ cooling /\ cooling' = FALSE /\ UNCHANGED fails
    /\ UNCHANGED <<well, enabled, open, claimed, doing, counted, aborts>>

Environment ==
    /\ \/ well' = ~well /\ UNCHANGED enabled
       \/ enabled' = ~enabled /\ UNCHANGED well
    /\ UNCHANGED <<fails, open, cooling, claimed, doing, counted, aborts>>

Abort(p) ==
    /\ doing[p] # "idle" /\ aborts < MaxAborts /\ aborts' = aborts + 1
    /\ Do(p, "idle") /\ counted' = [counted EXCEPT ![p] = 0]
    /\ UNCHANGED <<well, enabled, fails, open, cooling, claimed>>

Record(p) == Forget(p) \/ Close(p) \/ Cool(p) \/ CountFailure(p) \/ Trip(p) \/ RateLimited(p)
Probe(p)  == Find(p) \/ Claim(p) \/ ProbeChannel(p)

NextHealth ==
    \/ \E p \in Actors : Record(p) \/ Abort(p) \/ Attempt(p) \/ ForceRecover(p) \/ Probe(p)
    \/ ClaimExpires \/ KeysExpire \/ Environment

SpecHealth == InitHealth /\ [][NextHealth]_healthVars

\* Requests need not come; recordings that began end, loops run, claims expire
FairHealth ==
    /\ \A p \in Actors : WF_healthVars(Record(p))
    /\ \A p \in Probers : WF_healthVars(Probe(p))
    /\ WF_healthVars(ClaimExpires)

----------------------------------------------------------------------------
(* Properties *)

\* Types; a breaker opens on no failure that was not counted
TypeOKHealth ==
    /\ {well, enabled, open, cooling, claimed} \subseteq BOOLEAN
    /\ fails \in 0..Threshold /\ aborts \in 0..MaxAborts
    /\ doing \in [Actors -> Stages] /\ counted \in [Actors -> 0..Threshold]

\* A channel whose upstream works again, and stays enabled, ends up closed for
\* good: no late failure, lost claim or recording cut short leaves it open.
ChannelRecovers == <>[](well /\ enabled) => <>[](~open)
=============================================================================
