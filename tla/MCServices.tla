----------------------------- MODULE MCServices -----------------------------
(* More components that share no state, each checked on its own: `focus`   *)
(* is the one of them that a behaviour is about.                           *)
EXTENDS Streams, Alerts, UpstreamKeys, MasterKeys, Excerpts, Scanner, Reviews,
        GatewaySettings, CacheMarks, Access, Usage, Catalogue, Endpoints, TLC

CONSTANTS
    watcher1, watcher2,                                  \* Alerts
    poolKey1, poolKey2, create, remix, user1, user2, video1, video2,   \* UpstreamKeys
    starter1, starter2, migrator, cred1, cred2,          \* MasterKeys
    log1, log2, log3, log4, full, half, tiny, admin1, admin2,   \* Reviews
    switch1, switch2, asker1, asker2, reset1, alpha, beta, gamma, loose, long, cut, short,   \* GatewaySettings
    client1, client2, limited, unlimited, firm, try1, try2, try3, near, far, root,   \* Access
    settled1, atOnce, apiKey, owner, system, route, noRoute, talk, noTalk, worker,   \* Usage
    shopA, shopB, upstreamName                           \* Catalogue

\* Alerts
QuietTime == [s \in Subjects |-> IF s = "budget" THEN 3 ELSE 2]
Subscriptions == {{"errors"}, {"channel"}, {"budget"}}

\* UpstreamKeys: a video and a remix of it, by one of two API keys
TwoKeys == <<poolKey1, poolKey2>>
SameUser == (create :> user1) @@ (remix :> user1)
NewVideos == (create :> video1) @@ (remix :> video2)

\* Excerpts: up to three turns, short and long, with and without tools
Contents == {<<1>>, <<5>>, <<2, 3>>, <<4, 4, 4>>}
SavedBodies == {[messages |-> m, tools |-> t, other |-> o, whole |-> FALSE] :
                   m \in UNION {[1..n -> Contents] : n \in 0..3}, t \in {0, 3}, o \in {0, 4}}
Tightened == <<3, 2, 1>>

\* Reviews: two administrators choose overlapping requests, in other orders
Excerpted == (log1 :> full) @@ (log2 :> full) @@ (log3 :> half) @@ (log4 :> tiny)
Picked == (admin1 :> <<log1, log2, log3>>) @@ (admin2 :> <<log2, log4, log1>>)

\* GatewaySettings: chains with loops and repeats, rules to themselves and to
\* others.  A name with too much space in it, and a long one: it is cut before
\* its last word, and once more before the space that word left behind.
Switched == (switch1 :> TRUE) @@ (switch2 :> FALSE)
Written == <<cut, short, alpha, beta, gamma, loose, long, NoName>>
Spelled == {Written[i] : i \in DOMAIN Written}
Collapsed == [m \in Spelled |-> CASE m = loose -> alpha [] m = long -> cut [] m = cut -> short [] OTHER -> m]
\* A JSON column sorts its keys by length: the cut name comes last
Stored == [m \in Spelled |-> CHOOSE i \in DOMAIN Written : Written[i] = m]
BothWays == {Stored, [m \in Spelled |-> Len(Written) - Stored[m]]}
Patches == {[number |-> n] : n \in {-1, 1, 5}}
           \cup {[fallbacks |-> alpha :> <<beta, beta, loose, gamma>>], [fallbacks |-> beta :> <<long, short>>],
                 [fallbacks |-> short :> <<long>>], [fallbacks |-> (long :> <<beta>>) @@ (short :> <<gamma>>)],
                 [fallbacks |-> (alpha :> <<NoName, alpha>>) @@ (loose :> <<gamma, beta, long>>)],
                 [rules |-> alpha :> loose], [rules |-> short :> long, number |-> 2],
                 [rules |-> (long :> alpha) @@ (short :> beta)],
                 [fallbacks |-> (alpha :> <<alpha, alpha, beta>>) @@ (NoName :> <<beta>>), rules |-> beta :> gamma]}

\* Access: one request a minute for a key and for the tenant
Callers == (client1 :> limited) @@ (client2 :> unlimited)
PerMinute == (limited :> 1) @@ (unlimited :> -1) @@ (firm :> 1)
Addresses == (try1 :> near) @@ (try2 :> near) @@ (try3 :> far)

\* Usage: one is settled later than it ended, one is logged at once
Fact(m, ch, f) == [key |-> apiKey, tenant |-> owner, model |-> m, channel |-> ch, session |-> talk, failed |-> f,
                   audited |-> TRUE]
Facts == (settled1 :> Fact(alpha, route, FALSE)) @@ (atOnce :> Fact(beta, noRoute, TRUE))

\* Catalogue: a mapped name, an unmapped one, a dearer channel
Mapped == (shopA :> ((alpha :> upstreamName) @@ (beta :> beta))) @@ (shopB :> (alpha :> alpha))
Multipliers == (shopA :> 1) @@ (shopB :> 2)
ReferencePrices == (upstreamName :> 3) @@ (beta :> 2)

\* Endpoints
AbsentUsage == -1
CapsAsked == {AbsentUsage, 2}
UsagesReported == {AbsentUsage, 0, 1, 4}

FirstBody  == CHOOSE r \in Requests : TRUE
FirstAsked == CHOOSE a \in AskedOf : TRUE

VARIABLE focus

vars == <<streamVars, alertVars, keyVars, secretVars, excerptVars, scannerVars, reviewVars, settingsVars, markVars,
          accessVars, usageVars, catalogueVars, endpointVars, focus>>

Services == {"streams", "alerts", "keys", "secrets", "excerpts", "scanner", "reviews", "settings",
             "config", "marks", "clients", "logins", "usage", "catalogue", "endpoints"}

\* A part that no behaviour is about stays in one of its initial states
Init ==
    /\ focus \in Services
    /\ \/ focus = "marks"
       \/ focus # "marks" /\ prompt = [s \in Sections |-> <<>>]
    /\ \/ focus = "excerpts"
       \/ focus # "excerpts" /\ request = FirstBody /\ exempt = FALSE /\ audit = FALSE
    /\ \/ focus = "endpoints"
       \/ focus # "endpoints" /\ ask = FirstAsked
    /\ InitMarks /\ InitExcerpts /\ InitEndpoints
    /\ InitStreams /\ (focus # "streams" => protocol = "chat")
    /\ InitAlerts  /\ (focus # "alerts" => events = {"errors"} /\ hooks = NoHook)
    /\ InitSecrets /\ (focus # "secrets" => ~stateless /\ ~envSet /\ ~legacyRow /\ \A c \in Credentials : creds[c] = Plain)
    /\ InitScanner /\ (focus # "scanner" => streams = "chat" /\ ~scanned)
    /\ InitKeys /\ InitReviews /\ InitSettings /\ InitAccess /\ InitUsage /\ InitCatalogue

Next ==
    /\ UNCHANGED focus
    /\ \/ focus = "streams" /\ NextStreams
       \/ focus # "streams" /\ UNCHANGED streamVars
    /\ \/ focus = "alerts" /\ NextAlerts
       \/ focus # "alerts" /\ UNCHANGED alertVars
    /\ \/ focus = "keys" /\ NextKeys
       \/ focus # "keys" /\ UNCHANGED keyVars
    /\ \/ focus = "secrets" /\ NextSecrets
       \/ focus # "secrets" /\ UNCHANGED secretVars
    /\ \/ focus = "excerpts" /\ NextExcerpts
       \/ focus # "excerpts" /\ UNCHANGED excerptVars
    /\ \/ focus = "scanner" /\ NextScanner
       \/ focus # "scanner" /\ UNCHANGED scannerVars
    /\ \/ focus = "reviews" /\ NextReviews
       \/ focus # "reviews" /\ UNCHANGED reviewVars
    /\ \/ focus = "settings" /\ NextRows
       \/ focus = "config" /\ NextConfig
       \/ focus \notin {"settings", "config"} /\ UNCHANGED settingsVars
    /\ \/ focus = "marks" /\ NextMarks
       \/ focus # "marks" /\ UNCHANGED markVars
    /\ \/ focus = "clients" /\ NextClients
       \/ focus = "logins" /\ NextLogins
       \/ focus \notin {"clients", "logins"} /\ UNCHANGED accessVars
    /\ \/ focus = "usage" /\ NextUsage
       \/ focus # "usage" /\ UNCHANGED usageVars
    /\ \/ focus = "catalogue" /\ NextCatalogue
       \/ focus # "catalogue" /\ UNCHANGED catalogueVars
    /\ \/ focus = "endpoints" /\ NextEndpoints
       \/ focus # "endpoints" /\ UNCHANGED endpointVars

SpecServices == Init /\ [][Next]_vars
=============================================================================
