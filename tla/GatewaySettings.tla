-------------------------- MODULE GatewaySettings --------------------------
(***************************************************************************)
(* Settings of the gateway that are written to the database                *)
(* (services/settings_service.py): the token of /metrics, which the first  *)
(* caller creates, a switch, and the configuration, which is normalised    *)
(* whenever it is written or read.  How long workers go on with what they  *)
(* have cached is the subject of ConfigCaches.                             *)
(***************************************************************************)
EXTENDS Integers, Sequences, FiniteSets

CONSTANTS
    Askers,          \* calls of metrics_token; a token is named after the call that made it
    Resetters,       \* calls of reset_metrics_token
    Switchers,       \* calls that set a switch, each to its own value
    ValueOf,         \* [switcher -> BOOLEAN]
    Forms,           \* what an administrator may send: sets of fields
    MaxFallbacks,    \* MAX_FALLBACKS
    ModelNames,      \* names of models, as they are sent or stored
    NoName,          \* the empty one
    NameOf,          \* [ModelNames -> ModelNames]: " ".join(name.split())[:64]
    Orders,          \* orders the entries of an object may come in: their places,
                     \* counted from the last one
    StoreOrder,      \* the one that a JSON column gives them
    Low, High, Usual,\* bounds and the default of a number
    NoToken, NoSetting

ASSUME GatewaySettingsAssumption ==
    /\ MaxFallbacks \in Nat \ {0}
    /\ {Low, Usual, High} \subseteq Int /\ Low <= Usual /\ Usual <= High
    /\ ValueOf \in [Switchers -> BOOLEAN]
    /\ NoToken \notin Askers \cup Resetters /\ NoSetting \notin Int
    /\ \A form \in Forms :
           /\ "number" \in DOMAIN form => form.number \in Int \cup {NoSetting}
           /\ "fallbacks" \in DOMAIN form => \A m \in DOMAIN form.fallbacks :
                  m \in ModelNames /\ form.fallbacks[m] \in Seq(ModelNames)
           /\ "rules" \in DOMAIN form => \A m \in DOMAIN form.rules : {m, form.rules[m]} \subseteq ModelNames
\* A name that is cut may end in the space before the cut, which it then loses
\* the next time; after that it stays as it is.
ASSUME NamesAssumption ==
    /\ NameOf \in [ModelNames -> ModelNames] /\ NoName \in ModelNames /\ NameOf[NoName] = NoName
    /\ \A m \in ModelNames : NameOf[NameOf[NameOf[m]]] = NameOf[NameOf[m]]
ASSUME OrdersAssumption ==
    /\ StoreOrder \in Orders /\ Orders \subseteq [ModelNames -> Nat]
    /\ \A order \in Orders, m, n \in ModelNames : order[m] = order[n] => m = n

VARIABLES
    tokenRow,   \* the row metrics_token, or NoToken
    asker,      \* [call -> [step, token]]
    wasReset,   \* calls whose token was replaced since they got it
    switchRow,  \* the row of a switch, or NoSetting
    switcher,   \* [call -> [step, saw]]
    config      \* the row gateway

settingsVars == <<tokenRow, asker, wasReset, switchRow, switcher, config>>

DefaultConfig == [number |-> Usual, fallbacks |-> [m \in {} |-> <<>>], rules |-> [m \in {} |-> m]]

InitSettings ==
    /\ tokenRow = NoToken /\ wasReset = {}
    /\ asker = [c \in Askers |-> [step |-> "new", token |-> NoToken]]
    /\ switchRow = NoSetting /\ switcher = [c \in Switchers |-> [step |-> "new", saw |-> NoSetting]]
    /\ config = DefaultConfig

----------------------------------------------------------------------------
(* metrics_token, reset_metrics_token *)

Granted(c, token) == asker' = [asker EXCEPT ![c] = [step |-> "done", token |-> token]]

LookUp(c) ==
    /\ asker[c].step = "new"
    /\ IF tokenRow # NoToken THEN Granted(c, tokenRow) ELSE asker' = [asker EXCEPT ![c].step = "creates"]
    /\ UNCHANGED <<tokenRow, wasReset, switchRow, switcher, config>>

\* IntegrityError: another call was faster
TokenFor(c) == IF tokenRow = NoToken THEN c ELSE tokenRow

CreateToken(c) ==
    /\ asker[c].step = "creates"
    /\ tokenRow' = IF tokenRow = NoToken THEN c ELSE tokenRow
    /\ Granted(c, TokenFor(c))
    /\ UNCHANGED <<wasReset, switchRow, switcher, config>>

ResetToken(c) ==
    /\ tokenRow # c /\ tokenRow' = c
    /\ wasReset' = wasReset \cup {a \in Askers : asker[a].step = "done"}
    /\ UNCHANGED <<asker, switchRow, switcher, config>>

----------------------------------------------------------------------------
(* set_inference_audit_enabled, set_keyword_filter_enabled, set_secret_scan_enabled *)

ReadSwitch(c) ==
    /\ switcher[c].step = "new"
    /\ switcher' = [switcher EXCEPT ![c] = [step |-> "read", saw |-> switchRow]]
    /\ UNCHANGED <<tokenRow, asker, wasReset, switchRow, config>>

\* Of two calls that create the row, the later one fails
WriteSwitch(c) ==
    /\ switcher[c].step = "read"
    /\ LET fails == switcher[c].saw = NoSetting /\ switchRow # NoSetting IN
       /\ switcher' = [switcher EXCEPT ![c].step = IF fails THEN "failed" ELSE "done"]
       /\ switchRow' = IF fails THEN switchRow ELSE ValueOf[c]
    /\ UNCHANGED <<tokenRow, asker, wasReset, config>>

----------------------------------------------------------------------------
(* The configuration *)

ClampInt(n) == IF n = NoSetting THEN Usual ELSE IF n < Low THEN Low ELSE IF n > High THEN High ELSE n

ModelName(m) == NameOf[m]

\* The targets of a model that stay: no name twice, nor the model itself
Distinct(source, targets) ==
    {i \in DOMAIN targets : ModelName(targets[i]) \notin {NoName, source}
                            /\ \A j \in 1..(i - 1) : ModelName(targets[j]) # ModelName(targets[i])}

\* ... in their order, and no more than so many
Chain(source, targets) ==
    LET stay == Distinct(source, targets)
        size == IF Cardinality(stay) < MaxFallbacks THEN Cardinality(stay) ELSE MaxFallbacks
    IN  [n \in 1..size |-> ModelName(targets[CHOOSE i \in stay : Cardinality({j \in stay : j <= i}) = n])]

\* The models an object is about, and its entries that say something of one
Subject(raw) == {ModelName(n) : n \in DOMAIN raw} \ {NoName}
ChainsOf(raw, m) == {n \in DOMAIN raw : ModelName(n) = m /\ Chain(m, raw[n]) # <<>>}
RulesOf(raw, m)  == {n \in DOMAIN raw : ModelName(n) = m /\ ModelName(raw[n]) \notin {m, NoName}}

\* Of entries whose names become the same one the last counts
Latest(entries, order) == CHOOSE n \in entries : \A k \in entries : order[n] <= order[k]

NormalFallbacks(raw, order) ==
    [m \in {m \in Subject(raw) : ChainsOf(raw, m) # {}} |-> Chain(m, raw[Latest(ChainsOf(raw, m), order)])]

\* A rule that names its own model is left out
NormalRules(raw, order) ==
    [m \in {m \in Subject(raw) : RulesOf(raw, m) # {}} |-> ModelName(raw[Latest(RulesOf(raw, m), order)])]

\* Each object has an order of its own
Arranged == [fallbacks : Orders, rules : Orders]

Normalize(raw, order) ==
    [number |-> ClampInt(raw.number),
     fallbacks |-> NormalFallbacks(raw.fallbacks, order.fallbacks),
     rules |-> NormalRules(raw.rules, order.rules)]

\* gateway_config, where the row is not cached: what workers, but for the one
\* that wrote it, read of the row
AsRead == Normalize(config, [fallbacks |-> StoreOrder, rules |-> StoreOrder])

\* Mutant of Patched: the form over the row as it was stored
PatchedRow(form) == [field \in DOMAIN config |-> IF field \in DOMAIN form THEN form[field] ELSE config[field]]

Patched(form) == [field \in DOMAIN config |-> IF field \in DOMAIN form THEN form[field] ELSE AsRead[field]]

\* patch_gateway_config: the fields of the form over those of the row, in one
\* transaction that locks the row
PatchConfig(form) ==
    /\ \E order \in Arranged : config' = Normalize(Patched(form), order)
    /\ UNCHANGED <<tokenRow, asker, wasReset, switchRow, switcher>>

NextRows ==
    \/ \E c \in Askers : LookUp(c) \/ CreateToken(c)
    \/ \E c \in Resetters : ResetToken(c)
    \/ \E c \in Switchers : ReadSwitch(c) \/ WriteSwitch(c)

NextConfig == \E form \in Forms : PatchConfig(form)

NextSettings == NextRows \/ NextConfig

SpecSettings == InitSettings /\ [][NextSettings]_settingsVars

----------------------------------------------------------------------------
(* Properties *)

\* Whoever asks for the token of /metrics first, and with whomever at the same
\* time, gets one that works until it is replaced.
TokensAgree == \A c \in Askers \ wasReset : asker[c].step = "done" => asker[c].token = tokenRow

\* No model falls back to itself or to another one twice, however names were
\* spelled and wherever they were cut; nor is it replaced by itself.
Sound(c) ==
    /\ \A m \in DOMAIN c.fallbacks :
         /\ Len(c.fallbacks[m]) \in 1..MaxFallbacks
         /\ Cardinality({c.fallbacks[m][i] : i \in DOMAIN c.fallbacks[m]} \ {m, NoName}) = Len(c.fallbacks[m])
    /\ \A m \in DOMAIN c.rules : c.rules[m] \notin {m, NoName}

\* The names in it, none of which ends where it was cut at a space
NamesIn(c) ==
    DOMAIN c.fallbacks \cup DOMAIN c.rules \cup {c.rules[m] : m \in DOMAIN c.rules}
    \cup UNION {{c.fallbacks[m][i] : i \in DOMAIN c.fallbacks[m]} : m \in DOMAIN c.fallbacks}
AllStay(c) == \A m \in NamesIn(c) : ModelName(m) = m

\* What is stored and what is read of it are sound, and the same unless a name
\* was cut at a space: reading costs it the space, and may make two names one.
\* What is read is normal for good, in whichever order its entries come.
ConfigAgrees ==
    /\ Sound(config) /\ Sound(AsRead)
    /\ AllStay(config) => AsRead = config
    /\ \A order \in Arranged : Normalize(AsRead, order) = AsRead

\* A patch leaves, to those who read the row, every field that is not in its form
OthersKept == \A form \in Forms : config' # config /\ PatchConfig(form) =>
    \A field \in DOMAIN config \ DOMAIN form : AsRead'[field] = AsRead[field]

\* Callers agree on the token of /metrics, and workers on the configuration
SettingsAgree == [](TokensAgree /\ ConfigAgrees) /\ [][OthersKept]_settingsVars
=============================================================================
