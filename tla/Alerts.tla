------------------------------- MODULE Alerts -------------------------------
(***************************************************************************)
(* Alerts (services/alerts.py, services/budget_usage.py): every worker     *)
(* counts the outcomes of requests in the same keys of Redis, looks at the *)
(* budgets and at the circuits of channels, and claims a subject in Redis  *)
(* before it tells the administrators of it.  The settings of alerts are   *)
(* cached by each worker for a while; the form that edits them gets the    *)
(* URL of a webhook masked and sends it back.                              *)
(***************************************************************************)
EXTENDS Integers, FiniteSets

CONSTANTS
    Watchers,      \* workers
    Outcomes,      \* requests that end
    Minute,        \* length of a minute
    MinRequests,   \* error_min_requests; half of them must fail
    Quiet,         \* [subject -> seconds], BUDGET_DEDUPE, CHANNEL_DEDUPE, ERROR_DEDUPE
    Enabled,       \* subsets of the events
    ConfigTTL,     \* _CACHE_TTL
    MaxTime        \* bound on time

Subjects == {"open", "recover", "spike", "budget"}

Event(s) == CASE s = "spike" -> "errors" [] s = "budget" -> "budget" [] OTHER -> "channel"

ASSUME AlertsAssumption ==
    Quiet \in [Subjects -> Nat] /\ Minute \in Nat \ {0} /\ MaxTime \in Nat /\ MinRequests \in Nat

VARIABLES
    events,     \* what the settings enable
    hooks,      \* the row of the settings: [on, url, secret]; "" is no webhook
    caches,     \* [worker -> [at, hooks]], what a worker has cached
    claimed,    \* [subject -> when its claim expires]
    clock,
    tally,      \* [minute -> [requests, errors]]
    outcome,    \* [request -> [step, requests, minute]]
    told        \* history: [subject -> [at, clear, errors]], when the administrators were told
                \* last, whether the subject was cleared since, and of how many errors

alertVars == <<events, hooks, caches, claimed, clock, tally, outcome, told>>

Hooks == [on : BOOLEAN, url : {"", "real", "masked"}, secret : BOOLEAN]
Never == -1
MinuteOf(t) == t \div Minute
Minutes == {MinuteOf(t) : t \in 0..MaxTime}
NoHook == [on |-> TRUE, url |-> "", secret |-> FALSE]

InitAlerts ==
    /\ events \in Enabled
    /\ hooks \in {NoHook, [on |-> TRUE, url |-> "real", secret |-> TRUE]}
    /\ caches = [w \in Watchers |-> [at |-> 0 - ConfigTTL, hooks |-> NoHook]]
    /\ claimed = [s \in Subjects |-> 0] /\ clock = 0
    /\ tally = [m \in Minutes |-> [requests |-> 0, errors |-> 0]]
    /\ outcome = [o \in Outcomes |-> [step |-> "ends", requests |-> 0, minute |-> 0]]
    /\ told = [s \in Subjects |-> [at |-> Never, clear |-> FALSE, errors |-> 0]]

----------------------------------------------------------------------------
(* Settings *)

\* alert_config: the cached settings, or the row, which is cached then
ConfigOf(w) == IF clock - caches[w].at < ConfigTTL THEN caches[w].hooks ELSE hooks
Caches(w) == caches' = [caches EXCEPT ![w] =
                 IF clock - @.at < ConfigTTL THEN @ ELSE [at |-> clock, hooks |-> hooks]]
Active(cfg, s) == cfg.on /\ cfg.url # "" /\ Event(s) \in events

\* save_config: the form gets the URL of a webhook masked, no secret, and sends
\* them back; a webhook that the worker knows keeps its URL if the masked one
\* comes back, and its secret; of a webhook it does not know, the URL is taken as
\* it comes
Saved(w, url) ==
    LET known == ConfigOf(w).url # ""
        given == IF url = "shown" THEN IF hooks.url = "" THEN "" ELSE "masked" ELSE url
    IN  IF given = "" THEN NoHook
        ELSE IF given = "masked" /\ known THEN [ConfigOf(w) EXCEPT !.on = TRUE]
        ELSE [on |-> TRUE, url |-> given, secret |-> known /\ ConfigOf(w).secret]

Save(w, url) ==
    /\ Saved(w, url) # hooks
    /\ hooks' = Saved(w, url)
    /\ caches' = [caches EXCEPT ![w].at = clock - ConfigTTL]
    /\ UNCHANGED <<events, claimed, clock, tally, outcome, told>>

----------------------------------------------------------------------------
(* Telling *)

\* Mutant of Unclaimed: the administrators are told every time
UnclaimedEver(s) == s \in Subjects

\* SET NX
Unclaimed(s) == claimed[s] <= clock

\* notify: the claim comes before the delivery, which is not tried again;
\* `freed` are claims deleted just before
Notify(w, s, freed, errors) ==
    /\ Caches(w)
    /\ LET tells == Active(ConfigOf(w), s) /\ Unclaimed(s)
       IN  /\ claimed' = [c \in Subjects |-> IF c = s /\ tells THEN clock + Quiet[s]
                                             ELSE IF c \in freed /\ Active(ConfigOf(w), s) THEN 0 ELSE claimed[c]]
           /\ told' = [t \in Subjects |->
                         IF t = s /\ tells THEN [at |-> clock, clear |-> FALSE, errors |-> errors]
                         ELSE IF t \in freed /\ Active(ConfigOf(w), s) THEN [told[t] EXCEPT !.clear = TRUE] ELSE told[t]]

\* record_failure opens the circuit: channel_opened
Opened(w) == Notify(w, "open", {}, 0) /\ UNCHANGED <<events, hooks, clock, tally, outcome>>

\* record_success closes it: channel_recovered frees the claim of "open"
Recovered(w) == Notify(w, "recover", {"open"}, 0) /\ UNCHANGED <<events, hooks, clock, tally, outcome>>

\* record_outcome: the request is counted, then its error, then both are weighed
Count(o, w) ==
    /\ outcome[o].step = "ends" /\ Caches(w)
    /\ LET m == MinuteOf(clock) IN
       IF Active(ConfigOf(w), "spike")
       THEN /\ tally' = [tally EXCEPT ![m].requests = @ + 1]
            /\ outcome' = [outcome EXCEPT ![o] = [step |-> "counted", requests |-> tally[m].requests + 1, minute |-> m]]
       ELSE outcome' = [outcome EXCEPT ![o].step = "done"] /\ UNCHANGED tally
    /\ UNCHANGED <<events, hooks, claimed, clock, told>>

Spike(requests, errors) == requests >= MinRequests /\ 2 * errors >= requests

CountError(o, w, failed) ==
    /\ outcome[o].step = "counted"
    /\ outcome' = [outcome EXCEPT ![o].step = "done"]
    /\ tally' = IF failed THEN [tally EXCEPT ![outcome[o].minute].errors = @ + 1] ELSE tally
    /\ IF failed /\ Spike(outcome[o].requests, tally'[outcome[o].minute].errors)
       THEN Notify(w, "spike", {}, tally'[outcome[o].minute].errors)
       ELSE UNCHANGED <<caches, claimed, told>>
    /\ UNCHANGED <<events, hooks, clock>>

\* check_budget, a budget used to the threshold or past it: budget_usages of the key and its tenant, settled spend only
CheckBudget(w) == Notify(w, "budget", {}, 0) /\ UNCHANGED <<events, hooks, clock, tally, outcome>>

Pass ==
    /\ clock < MaxTime /\ clock' = clock + 1
    /\ UNCHANGED <<events, hooks, caches, claimed, tally, outcome, told>>

NextAlerts ==
    \/ \E w \in Watchers : \/ Opened(w) \/ Recovered(w) \/ CheckBudget(w)
                           \/ \E url \in {"shown", "real"} : Save(w, url)
                           \/ \E o \in Outcomes : Count(o, w) \/ \E failed \in BOOLEAN : CountError(o, w, failed)
    \/ Pass

SpecAlerts == InitAlerts /\ [][NextAlerts]_alertVars

----------------------------------------------------------------------------
(* Properties *)

\* The administrators are told of a subject once in its quiet time, whichever
\* workers see it; only a recovery makes the next opening of the circuit news.  An
\* error rate they are told of is one of enough requests, however the counts of
\* requests interleave.
AlertsFounded ==
    [][\A s \in Subjects : told'[s].at # told[s].at =>
           /\ told[s].at = Never \/ told'[s].at >= told[s].at + Quiet[s] \/ told[s].clear
           /\ s = "spike" => 2 * told'[s].errors >= MinRequests]_alertVars

\* "Webhooks sent back with their masked URL or an empty secret keep the stored
\* values" (services/alerts.py:119).  With two workers this fails: the one that
\* saves may have cached settings that do not have the webhook yet.
MaskedKept == hooks.url # "masked"
=============================================================================
