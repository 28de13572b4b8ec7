----------------------------- MODULE Catalogue -----------------------------
(***************************************************************************)
(* The catalogue as administrators keep it and as customers see it: model  *)
(* prices (routers/model_prices.py), the channels that serve the models    *)
(* (routers/channels.py), and four readers of both: the quote of a request *)
(* (services/billing_quotes.py), the public price list, the list of models *)
(* without a price, and the page of all models (routers/models.py).  A     *)
(* price is one number here.                                               *)
(***************************************************************************)
EXTENDS Integers, FiniteSets, FiniteSetsExt

CONSTANTS
    Shops,          \* channels
    Aliases,        \* public names
    ActualOf,       \* [channel -> [some public names -> upstream names]]: models with model_mapping
    Factor,         \* [channel -> price_multiplier]
    Reference,      \* [some names -> price]: DEFAULT_MODEL_PRICES
    SalePrices,     \* prices that administrators set
    AllNames,       \* public and upstream names
    Unpriceable     \* no price

ASSUME CatalogueAssumption ==
    /\ IsFiniteSet(Shops) /\ Reference \in [DOMAIN Reference -> Nat]
    /\ Factor \in [Shops -> Nat \ {0}] /\ SalePrices \subseteq Nat /\ Unpriceable \notin Nat
    /\ Aliases \subseteq AllNames
    /\ \A ch \in Shops : DOMAIN ActualOf[ch] \subseteq Aliases /\ \A m \in DOMAIN ActualOf[ch] : ActualOf[ch][m] \in AllNames

VARIABLES
    sale,        \* [name -> [price, active]]: the rows of model_prices, Unpriceable if there is none
    fixedAt,     \* [channel -> names with a price in price_overrides]
    open,        \* enabled channels
    synced       \* names that the running sync-defaults has seen

catalogueVars == <<sale, fixedAt, open, synced>>

NoRow == [price |-> Unpriceable, active |-> FALSE]
HasRow(n) == sale[n].price # Unpriceable
FixedPrice == 1

InitCatalogue ==
    /\ sale = [n \in AllNames |-> NoRow] /\ fixedAt = [ch \in Shops |-> {}]
    /\ open = Shops /\ synced = DOMAIN Reference

----------------------------------------------------------------------------
(* What a request is charged *)

Serves(ch, m) == m \in DOMAIN ActualOf[ch]
\* quote_names: the public name before the upstream's
QuoteNames(ch, m) == <<m, ActualOf[ch][m]>>
Among(names, s) == \E i \in DOMAIN names : names[i] \in s
FirstOf(names, s) == IF names[1] \in s THEN names[1] ELSE names[2]

\* pick_quote: a disabled row refuses even what the channel fixes; the channel's
\* price; the row; the catalogue
PickQuote(ch, m) ==
    LET names == QuoteNames(ch, m)
        rows  == {n \in AllNames : HasRow(n)}
        row   == sale[FirstOf(names, rows)]
    IN  IF Among(names, rows) /\ ~row.active THEN Unpriceable
        ELSE IF Among(names, fixedAt[ch]) THEN FixedPrice
        ELSE IF Among(names, rows) THEN row.price * Factor[ch]
        ELSE IF Among(names, DOMAIN Reference) THEN Reference[FirstOf(names, DOMAIN Reference)] * Factor[ch]
        ELSE Unpriceable

----------------------------------------------------------------------------
(* What is shown *)

Routes(m, shops) == {ch \in shops : Serves(ch, m)}

\* Mutant of Listable: one route with a price would do
ListableSome(m, shops) == \E ch \in Routes(m, shops) : PickQuote(ch, m) # Unpriceable

\* public_selling_prices: "A model with any unpriced route is left out because
\* requests for it are refused"; /v1/me and /keys/channels pass channels they may use
Listable(m, shops) == Routes(m, shops) # {} /\ \A ch \in Routes(m, shops) : PickQuote(ch, m) # Unpriceable
PublicPrice(m, shops) == Max({PickQuote(ch, m) : ch \in Routes(m, shops)} \ {Unpriceable})

\* The page of all models: a price for all its routes, or that it has none
HasPricing(m) == \A ch \in Routes(m, open) : PickQuote(ch, m) # Unpriceable

\* get_unpriced_models, of all channels
Unpriced(ch, m) ==
    /\ Serves(ch, m)
    /\ ~Among(QuoteNames(ch, m),
              {n \in AllNames : sale[n].active} \cup {n \in DOMAIN Reference : ~(HasRow(n) /\ ~sale[n].active)}
              \cup fixedAt[ch])

----------------------------------------------------------------------------
(* Administrators *)

CreatePrice(n, p) == ~HasRow(n) /\ sale' = [sale EXCEPT ![n] = [price |-> p, active |-> TRUE]]
                     /\ UNCHANGED <<fixedAt, open, synced>>
UpdatePrice(n, p, on) == HasRow(n) /\ sale' = [sale EXCEPT ![n] = [price |-> p, active |-> on]]
                         /\ UNCHANGED <<fixedAt, open, synced>>
DeletePrice(n) == HasRow(n) /\ sale' = [sale EXCEPT ![n] = NoRow] /\ UNCHANGED <<fixedAt, open, synced>>

\* sync_defaults: get_or_create, name by name
BeginSync == synced = DOMAIN Reference /\ synced' = {} /\ UNCHANGED <<sale, fixedAt, open>>
SyncDefault(n) ==
    /\ n \notin synced /\ synced' = synced \cup {n}
    /\ sale' = IF HasRow(n) THEN sale ELSE [sale EXCEPT ![n] = [price |-> Reference[n], active |-> TRUE]]
    /\ UNCHANGED <<fixedAt, open>>

\* update_channel, of what prices depend on
UpdateChannel(ch, names, on) ==
    /\ fixedAt' = [fixedAt EXCEPT ![ch] = names]
    /\ open' = IF on THEN open \cup {ch} ELSE open \ {ch}
    /\ UNCHANGED <<sale, synced>>

NextCatalogue ==
    \/ \E n \in AllNames : \/ DeletePrice(n)
                           \/ \E p \in SalePrices : CreatePrice(n, p) \/ \E on \in BOOLEAN : UpdatePrice(n, p, on)
    \/ BeginSync \/ \E n \in DOMAIN Reference : SyncDefault(n)
    \/ \E ch \in Shops, on \in BOOLEAN : \E names \in {{}} \cup {{m} : m \in Aliases} : UpdateChannel(ch, names, on)

SpecCatalogue == InitCatalogue /\ [][NextCatalogue]_catalogueVars

----------------------------------------------------------------------------
(* Properties *)

\* The four readers agree.  What a customer is shown is what it may at most be
\* charged, on any of the routes its key may take; the page of all models says so
\* too; a model on the list of unpriced ones is refused, and one that is refused
\* is on it unless an administrator disabled one of its prices.
CatalogueAgrees ==
    \A m \in Aliases :
      /\ \A shops \in SUBSET open : Listable(m, shops) =>
           \A ch \in Routes(m, shops) : PickQuote(ch, m) # Unpriceable /\ PickQuote(ch, m) <= PublicPrice(m, shops)
      /\ Routes(m, open) # {} => (HasPricing(m) <=> Listable(m, open))
      /\ \A ch \in Shops : Serves(ch, m) =>
           /\ Unpriced(ch, m) => PickQuote(ch, m) = Unpriceable
           /\ PickQuote(ch, m) = Unpriceable =>
                Unpriced(ch, m) \/ \E i \in 1..2 : LET n == QuoteNames(ch, m)[i] IN HasRow(n) /\ ~sale[n].active
=============================================================================
