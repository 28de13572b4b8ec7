------------------------------ MODULE Pricing ------------------------------
(***************************************************************************)
(* What a request is held and billed at: services/pricing.py (its size,    *)
(* before it is sent) and services/billing_quotes.py (the amounts).        *)
(* Prices are integers, in a unit of which Step make one USD_STEP, and     *)
(* include the multiplier of the channel.                                  *)
(***************************************************************************)
EXTENDS Integers, FiniteSets

CONSTANTS
    Quotes,       \* price snapshots: [input, output, read, write, request]
    Step,
    Texts,        \* what a body says: [cjk, other, blobs, ids], counted in characters and items
    BlobTokens,   \* BLOB_TOKENS
    Caps,         \* output caps of bodies, NoCap for none
    NoCap,
    DefaultCap,   \* of a request without a cap, or with one that is no number
    Units,        \* images, seconds, requests: request_units
    Reported,     \* what an upstream may report for any kind of token
    Unknown

PriceLists == [input : Nat, output : Nat, read : Nat, write : Nat, request : Nat]

ASSUME PricingAssumption ==
    /\ Quotes \subseteq PriceLists /\ Step \in Nat \ {0}
    /\ Texts \subseteq [cjk : Nat, other : Nat, blobs : Nat, ids : Nat]
    /\ {BlobTokens, DefaultCap} \subseteq Nat /\ Units \subseteq Nat
    /\ Caps \ {NoCap} \subseteq Int /\ Reported \subseteq Int /\ Unknown \notin Nat

VARIABLES
    offers,     \* the prices of the candidates
    estimate,   \* [input, output, units]: its size, estimated
    held,       \* in steps, as are bills
    usage,      \* what the upstream reported
    billed      \* Unknown: left to an operator

pricingVars == <<offers, estimate, held, usage, billed>>

AtLeast(n, m) == IF n < m THEN m ELSE n

----------------------------------------------------------------------------
(* count_text_tokens, estimate_request_tokens *)

CountTextTokens(t) == t.cjk + (t.other + 3) \div 4 + t.blobs * BlobTokens + t.ids

InputTokens(t) == AtLeast(CountTextTokens(t), 1)
OutputTokens(cap) == IF cap = NoCap THEN DefaultCap ELSE AtLeast(cap, 0)

InitPricing ==
    /\ offers \in SUBSET Quotes /\ offers # {}
    /\ \E t \in Texts, cap \in Caps, n \in Units :
         estimate = [input |-> InputTokens(t), output |-> OutputTokens(cap), units |-> n]
    /\ held = Unknown /\ usage = Unknown /\ billed = Unknown

----------------------------------------------------------------------------
(* estimate_quotes *)

\* Mutant of Dearest: input is thought to be read or written to a cache at its own price
DearestInput(q) == q.input

Dearest(q) == AtLeast(AtLeast(q.input, q.write), q.read)

Estimated(q) == estimate.input * Dearest(q) + estimate.output * q.output + estimate.units * q.request
Ceiling(n) == (n + Step - 1) \div Step

Hold ==
    /\ held = Unknown
    /\ \E q \in offers : /\ \A p \in offers : Estimated(p) <= Estimated(q)
                         /\ held' = Ceiling(Estimated(q))
    /\ UNCHANGED <<offers, estimate, usage, billed>>

----------------------------------------------------------------------------
(* quote_cost *)

FreshTokens(u) == AtLeast(u.prompt - u.read - u.write, 0)
Cost(q, u) == FreshTokens(u) * q.input + u.output * q.output + u.read * q.read + u.write * q.write
              + u.units * q.request

\* Decimal.quantize rounds half to even
HalfEven(n) == LET d == n \div Step
                   r == 2 * (n % Step)
               IN  IF r > Step \/ (r = Step /\ d % 2 = 1) THEN d + 1 ELSE d

Reports == [prompt : Reported, output : Reported, read : Reported, write : Reported, units : {estimate.units}]
Countable(u) == \A field \in {"prompt", "output", "read", "write"} : u[field] >= 0

\* Reported below zero raise: the bill is left to an operator
Bill ==
    /\ held # Unknown /\ usage = Unknown
    /\ \E q \in offers, u \in Reports :
         usage' = u /\ billed' = IF Countable(u) THEN HalfEven(Cost(q, u)) ELSE Unknown
    /\ UNCHANGED <<offers, estimate, held>>

NextPricing == Hold \/ Bill

SpecPricing == InitPricing /\ [][NextPricing]_pricingVars

----------------------------------------------------------------------------
(* Properties *)

TypeOKPricing ==
    /\ offers \subseteq Quotes /\ estimate \in [input : Nat, output : Nat, units : Nat]
    /\ held \in Nat \cup {Unknown} /\ billed \in Nat \cup {Unknown}
    /\ usage = Unknown \/ usage \in Reports

\* A request that uses no more than was estimated is never billed more than was
\* held for it, whichever candidate serves it, however its input is split
\* between fresh tokens, cache reads and cache writes, and whatever the two
\* roundings do.
Within(u) == u.prompt <= estimate.input /\ u.output <= estimate.output /\ u.read + u.write <= u.prompt
HoldCovers == billed # Unknown /\ Within(usage) => billed <= held
=============================================================================
