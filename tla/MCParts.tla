------------------------------- MODULE MCParts -------------------------------
(* Components that share no state, each checked on its own: `focus` is the *)
(* one of them that a behaviour is about.                                  *)
EXTENDS RateLimits, Routing, ModelMonitor, Pricing, Accounts, Administration,
        ConfigCaches, RowLocks, TLC

CONSTANTS
    tenant, key1, key2, count, video, chat, w1, w2,     \* RateLimits
    a, b, c, main, f, x,                                \* Routing: channels, names
    s1, s2, d1, s, e, lone,                             \* ModelMonitor
    u1, u2, h1, h2,                                     \* Accounts
    y1, y2, g1, q1, q2, o1, o2,                         \* Administration
    x1, x2, l1, l2, p1, p2,                             \* ConfigCaches
    t1, t2, k1, k2, k3, c1, c2, c3                      \* RowLocks

\* RateLimits: an unbilled operation of each key of a tenant, and a billed one
OnePath == (count :> <<tenant, key1>>) @@ (video :> <<tenant, key2>>) @@ (chat :> <<tenant, key1>>)
OnWorkers == (count :> w1) @@ (video :> w2) @@ (chat :> w2)
Clocks == (w1 :> 0) @@ (w2 :> 1)
Slots == (tenant :> 2) @@ (key1 :> NoLimit) @@ (key2 :> 1)
Rates == (tenant :> 2) @@ (key1 :> NoLimit) @@ (key2 :> NoLimit)
TokensAsked == (count :> 2) @@ (video :> 0) @@ (chat :> 2)

\* Routing: a maps main and f to one name, b serves main only, c has a fixed price
ServedBy == (a :> {main, f}) @@ (b :> {main}) @@ (c :> {main, f})
Names == (a :> ((main :> x) @@ (f :> x))) @@ (b :> (main :> main)) @@ (c :> ((main :> main) @@ (f :> f)))
Ranks == (a :> 1) @@ (b :> 1) @@ (c :> 0)
Chains == (main :> <<f>>) @@ (f :> <<main>>)
Downgrades == (main :> f) @@ (f :> f)
Fixed == [ch \in {a, b, c} |-> [name \in {main, f, x} |-> IF ch = c /\ name = f THEN 1 ELSE NoPrice]]

\* ModelMonitor: two scheduled checks, and one that administrators ask for
Listed == <<s, e>>
Durations == (s :> 1) @@ (e :> 2) @@ (lone :> 2)

\* Pricing: where reads, writes or requests are the dearest
PriceOf(i, o, r, w, each) == [input |-> i, output |-> o, read |-> r, write |-> w, request |-> each]
Offered == {PriceOf(2, 3, 0, 3, 0), PriceOf(5, 1, 1, 5, 0), PriceOf(1, 1, 4, 1, 7)}
Body(cjk, other, blobs) == [cjk |-> cjk, other |-> other, blobs |-> blobs, ids |-> blobs]
Bodies == {Body(0, 0, 0), Body(1, 5, 0), Body(0, 1, 1)}
Seen == -1..3

\* ConfigCaches: both readers on the worker of the first change
Located == (x1 :> p1) @@ (x2 :> p2) @@ (l1 :> p1) @@ (l2 :> p1)

\* RowLocks: two keys of a tenant and one of another
KeyTenants == (k1 :> t1) @@ (k2 :> t1) @@ (k3 :> t2)
RowKeys == (1 :> k1) @@ (2 :> k2) @@ (3 :> k3)

VARIABLE focus

vars == <<limitVars, routeVars, monitorVars, pricingVars, accountVars, adminVars, cacheVars, lockVars, focus>>

Parts == {"limits", "routing", "monitor", "pricing", "accounts", "admin", "caches", "locks"}

\* A part that no behaviour is about stays in one of its initial states
Init ==
    /\ focus \in Parts
    /\ InitLimits /\ InitMonitor /\ InitLocks
    /\ InitRoute    /\ (focus # "routing" => bound = None /\ ~downgraded /\ \A ch \in Channels : up[ch]
                                             /\ \A name \in Priced : price[name] = 1)
    /\ InitPricing  /\ (focus # "pricing" => offers = Offered /\ estimate.input = 1 /\ estimate.output = 0
                                             /\ estimate.units = 0)
    /\ InitAccounts /\ (focus # "accounts" => \A u \in Users : Exists(u))
    /\ InitAdmin    /\ (focus # "admin" => maxKeys = 1)
    /\ InitCaches   /\ (focus # "caches" => table = "settings")

Next ==
    /\ UNCHANGED focus
    /\ \/ focus = "limits" /\ NextLimits
       \/ focus # "limits" /\ UNCHANGED limitVars
    /\ \/ focus = "routing" /\ NextRoute
       \/ focus # "routing" /\ UNCHANGED routeVars
    /\ \/ focus = "monitor" /\ NextMonitor
       \/ focus # "monitor" /\ UNCHANGED monitorVars
    /\ \/ focus = "pricing" /\ NextPricing
       \/ focus # "pricing" /\ UNCHANGED pricingVars
    /\ \/ focus = "accounts" /\ NextAccounts
       \/ focus # "accounts" /\ UNCHANGED accountVars
    /\ \/ focus = "admin" /\ NextAdmin
       \/ focus # "admin" /\ UNCHANGED adminVars
    /\ \/ focus = "caches" /\ NextCaches
       \/ focus # "caches" /\ UNCHANGED cacheVars
    /\ \/ focus = "locks" /\ NextLocks
       \/ focus # "locks" /\ UNCHANGED lockVars

SpecParts == Init /\ [][Next]_vars

\* Types of all parts, where they can change
TypeOKParts ==
    /\ focus = "limits"   => TypeOKLimits
    /\ focus = "monitor"  => TypeOKMonitor
    /\ focus = "pricing"  => TypeOKPricing
    /\ focus = "accounts" => TypeOKAccounts
    /\ focus = "admin"    => TypeOKAdmin
    /\ focus = "caches"   => TypeOKCaches
    /\ focus = "locks"    => TypeOKLocks
=============================================================================
