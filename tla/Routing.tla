------------------------------ MODULE Routing ------------------------------
(***************************************************************************)
(* The plan and the prices of one request: services/routing.py and         *)
(* providers/registry.py (candidates by health, priority and session;      *)
(* budget downgrade; fallback models), services/sticky_session.py,         *)
(* services/downgrade.py, services/billing_quotes.py (the prices the       *)
(* request is held and billed at).  Health is read channel by channel      *)
(* while it changes, and prices change until they are snapshot.            *)
(***************************************************************************)
EXTENDS Integers, Sequences, FiniteSets, SequencesExt, FiniteSetsExt

CONSTANTS
    Models,
    Channels,      \* enabled, of the protocol asked for (enabled_channels)
    Serves,        \* [Channels -> SUBSET models]: Channel.models
    Mapping,       \* [Channels -> [models -> names]]: model_mapping, the same name for none
    Priority,      \* [Channels -> Nat]
    Model,         \* the model asked for
    Fallbacks,     \* [models -> Seq(models)]: model_fallbacks
    Cheaper,       \* [models -> models]: the rules of budget_downgrade, the same model for none
    Allowed,       \* get_effective_allowed_models
    Selected,      \* APIKey.channel_ids, {} for all
    Priced,        \* names with a selling price of their own
    Prices,        \* prices it may have
    Override,      \* [Channels -> [names -> Prices]]: price_overrides, NoPrice for none
    NoPrice,       \* the price of a name whose row is not active, too
    None

ASSUME RoutingAssumption ==
    /\ IsFiniteSet(Channels) /\ Serves \in [Channels -> SUBSET Allowed] /\ Priority \in [Channels -> Nat]
    /\ Model \in Allowed /\ Allowed \subseteq Models /\ Selected \subseteq Channels
    /\ Fallbacks \in [Models -> Seq(Models)] /\ Cheaper \in [Models -> Models]
    /\ \A m \in Models : \A i \in DOMAIN Fallbacks[m] : Fallbacks[m][i] # m    \* _normalize_fallbacks
    /\ NoPrice \notin Prices /\ None \notin Channels

VARIABLES
    up,         \* is_channel_healthy, as it changes
    price,      \* the selling prices, as administrators change them
    bound,      \* the channel the session is bound to
    downgraded, \* whether the request is served as a cheaper model
    targets,    \* the models still to resolve
    unread,     \* candidates of the first of them whose health is to be read
    good,       \* those read healthy
    plan,       \* the candidates of the request
    quotes,     \* its price snapshot, by channel and upstream name
    phase,
    sold,       \* history: what each candidate of the plan sold for then
    steady,     \* history: the channels whose health did not change so far
    served      \* the place in the plan that served it, 0 for none

routeVars == <<up, price, bound, downgraded, targets, unread, good, plan, quotes, phase, sold, steady, served>>

Candidates(m) == {c \in Channels : m \in Serves[c] /\ (Selected = {} \/ c \in Selected)}
Entry(c, m)   == [channel |-> c, alias |-> m, actual |-> Mapping[c][m]]

\* Orders that weighted shuffling and sorting by load allow within a priority
Ordered(S) == {s \in SetToSeqs(S) : \A i, j \in DOMAIN s : i < j => Priority[s[i]] >= Priority[s[j]]}

\* _promote_sticky
Promote(s) == IF \E k \in DOMAIN s : s[k] = bound
              THEN LET k == CHOOSE k \in DOMAIN s : s[k] = bound
                   IN  [i \in DOMAIN s |-> IF i = 1 THEN bound ELSE IF i <= k THEN s[i - 1] ELSE s[i]]
              ELSE s

\* Nothing is healthy: one channel of the highest priority is half-opened
Top(S) == {c \in S : \A d \in S : Priority[d] <= Priority[c]}

InitRoute ==
    /\ up \in [Channels -> BOOLEAN] /\ price \in [Priced -> Prices \cup {NoPrice}]
    /\ bound \in Channels \cup {None} /\ downgraded \in BOOLEAN
    /\ targets = <<>> /\ unread = {} /\ good = {} /\ plan = <<>> /\ quotes = <<>>
    /\ phase = "start" /\ sold = <<>> /\ steady = Channels /\ served = 0

----------------------------------------------------------------------------
(* plan_route, resolve_with_fallbacks, resolve_candidates *)

Primary == IF downgraded /\ Cheaper[Model] \in Allowed THEN Cheaper[Model] ELSE Model

PlanRoute ==
    /\ phase = "start" /\ phase' = "target"
    /\ targets' = <<Primary>> \o Fallbacks[Primary]
    /\ UNCHANGED <<up, price, bound, downgraded, unread, good, plan, quotes, steady, served, sold>>

\* A fallback is left out if it is the model asked for or not allowed
ResolveTarget ==
    /\ phase = "target" /\ targets # <<>>
    /\ LET m == Head(targets)
       IN  \/ /\ m = Primary \/ (m # Model /\ m \in Allowed)
              /\ phase' = "reading" /\ unread' = Candidates(m) /\ good' = {} /\ steady' = Channels
              /\ UNCHANGED targets
           \/ /\ m # Primary /\ (m = Model \/ m \notin Allowed)
              /\ targets' = Tail(targets) /\ UNCHANGED <<unread, good, phase, steady>>
    /\ UNCHANGED <<up, price, bound, downgraded, plan, quotes, served, sold>>

ReadHealth ==
    /\ phase = "reading"
    /\ \E c \in unread :
         /\ unread' = unread \ {c}
         /\ good' = IF up[c] THEN good \cup {c} ELSE good
    /\ UNCHANGED <<up, price, bound, downgraded, targets, plan, quotes, phase, steady, served, sold>>

\* Mutant of Routed: every channel is half-opened
RoutedAll(m) == Ordered(IF good = {} THEN Candidates(m) ELSE good)

Routed(m) == IF good = {} THEN {<<c>> : c \in Top(Candidates(m))} ELSE Ordered(good)

\* A target that no channel serves is skipped; the session counts for the first
CloseTarget ==
    /\ phase = "reading" /\ unread = {} /\ phase' = "target"
    /\ LET m == Head(targets)
           Places(s) == [i \in DOMAIN s |-> Entry(s[i], m)]
       IN  \/ Candidates(m) = {} /\ UNCHANGED plan
           \/ \E s \in Routed(m) :
                plan' = plan \o Places(IF m = Primary THEN Promote(s) ELSE s)
    /\ targets' = Tail(targets)
    /\ UNCHANGED <<up, price, bound, downgraded, unread, good, quotes, steady, served, sold>>

----------------------------------------------------------------------------
(* snapshot_quotes, the attempts, the bill *)

\* pick_quote: the alias wins over the upstream name, a fixed price of the channel over both
Name(e)  == IF e.alias \in Priced THEN e.alias ELSE e.actual
Quote(e) == IF Override[e.channel][e.alias] # NoPrice THEN Override[e.channel][e.alias]
            ELSE IF Override[e.channel][e.actual] # NoPrice THEN Override[e.channel][e.actual]
            ELSE price[Name(e)]

\* A disabled price refuses the request even when the channel fixes one
Sellable(e) == IF Name(e) \in Priced THEN price[Name(e)] # NoPrice
               ELSE Override[e.channel][e.alias] # NoPrice \/ Override[e.channel][e.actual] # NoPrice
Key(e) == <<e.channel, e.actual>>

\* A later candidate of the same channel and upstream name replaces the earlier
Snapshot == [k \in {Key(plan[i]) : i \in DOMAIN plan} |->
                Quote(plan[CHOOSE i \in DOMAIN plan : /\ Key(plan[i]) = k
                                                      /\ \A j \in DOMAIN plan : Key(plan[j]) = k => j <= i])]

TakeQuotes ==
    /\ phase = "target" /\ targets = <<>>
    /\ \/ /\ plan = <<>> \/ \E i \in DOMAIN plan : ~Sellable(plan[i])
          /\ phase' = "refused" /\ UNCHANGED <<quotes, sold>>
       \/ /\ plan # <<>> /\ \A i \in DOMAIN plan : Sellable(plan[i])
          /\ quotes' = Snapshot /\ phase' = "serving"
          /\ sold' = [i \in DOMAIN plan |-> Quote(plan[i])]
    /\ UNCHANGED <<up, price, bound, downgraded, targets, unread, good, plan, steady, served>>

\* Fail-over goes down the plan; success binds the session
Serve ==
    /\ phase = "serving" /\ phase' = "billed"
    /\ \E i \in DOMAIN plan : served' = i /\ bound' = plan[i].channel
    /\ UNCHANGED <<up, price, downgraded, targets, unread, good, plan, quotes, steady, sold>>

\* Health while it is read, prices once they have been: before that, any change
\* leads where another initial state leads
Change ==
    /\ \/ /\ phase = "reading" /\ UNCHANGED price
          /\ \E c \in Channels : up' = [up EXCEPT ![c] = ~@] /\ steady' = steady \ {c}
       \/ /\ phase = "serving" /\ UNCHANGED <<up, steady>>
          /\ \E n \in Priced, p \in Prices \cup {NoPrice} : price' = [price EXCEPT ![n] = p]
    /\ UNCHANGED <<bound, downgraded, targets, unread, good, plan, quotes, phase, served, sold>>

NextRoute == PlanRoute \/ ResolveTarget \/ ReadHealth \/ CloseTarget \/ TakeQuotes \/ Serve \/ Change

SpecRoute == InitRoute /\ [][NextRoute]_routeVars

----------------------------------------------------------------------------
(* Properties *)

\* What a target adds to a plan: a channel that stayed healthy while its
\* candidates were read is in it, one that stayed unhealthy is not, unless it
\* is the only one and nothing stayed healthy; the session's channel comes first.
RouteSound == [][phase = "reading" /\ phase' = "target" =>
    LET m == Head(targets)
        added == {plan'[i].channel : i \in Len(plan) + 1 .. Len(plan')}
        kept == {c \in Candidates(m) : c \in steady /\ up[c]}
        shut == {c \in Candidates(m) : c \in steady /\ ~up[c]}
    IN  /\ kept \subseteq added /\ added \subseteq Candidates(m)
        /\ added \cap shut # {} => kept = {} /\ Cardinality(added) = 1
        /\ m = Primary /\ bound \in kept => plan'[1].channel = bound]_routeVars

\* Whatever candidate serves the request, its bill finds a price in the
\* snapshot, and one at which its channel sold that upstream name then, under
\* one of the aliases of the plan; prices may have changed since.
Quoted == phase = "billed" =>
    \E i \in DOMAIN plan : /\ Key(plan[i]) = Key(plan[served]) /\ Key(plan[i]) \in DOMAIN quotes
                           /\ quotes[Key(plan[i])] = sold[i]

\* "The alias wins over the upstream name, so a mapped name can be sold at its
\* own price": the bill is at the price of the alias that was served.
AliasPriced == phase = "billed" => quotes[Key(plan[served])] = sold[served]
=============================================================================
