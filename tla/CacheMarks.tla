----------------------------- MODULE CacheMarks -----------------------------
(***************************************************************************)
(* Breakpoints of the prompt cache (services/auto_cache.py), which the     *)
(* gateway adds to a request that has none.  A request has tools, system   *)
(* blocks and the blocks of its newest message.                            *)
(***************************************************************************)
EXTENDS Integers, Sequences, FiniteSets

CONSTANTS
    MaxBlocks,   \* bound on the blocks of each part
    Allowance    \* breakpoints that Anthropic accepts

\* The gateway adds one breakpoint to each of three parts
ASSUME CacheMarksAssumption == MaxBlocks \in Nat /\ Allowance \in Nat /\ Allowance >= 3

VARIABLES prompt, marked      \* [part -> sequence of blocks], and how often it was marked

markVars == <<prompt, marked>>

Sections == {"tools", "system", "message"}

\* A block that can bear a breakpoint, one that cannot, and one that does
Blocks == {"text", "thinking", "marked"}
BlockSeqs(s) == UNION {[1..n -> IF s = "tools" THEN Blocks \ {"thinking"} ELSE Blocks] : n \in 0..MaxBlocks}

MarkedAt(p) == {at \in Sections \X (1..MaxBlocks) : at[2] \in DOMAIN p[at[1]] /\ p[at[1]][at[2]] = "marked"}
Marks(p)    == Cardinality(MarkedAt(p))

InitMarks ==
    /\ prompt \in [Sections -> BlockSeqs("message")] /\ prompt["tools"] \in BlockSeqs("tools")
    /\ Marks(prompt) <= Allowance /\ marked = 0

\* Mutant of HasCacheControl: the newest message only
HasCacheControlNow(p) == \E i \in DOMAIN p["message"] : p["message"][i] = "marked"

HasCacheControl(p) == \E s \in Sections : \E i \in DOMAIN p[s] : p[s][i] = "marked"

\* _mark_last_block
MarkLast(blocks) ==
    LET can == {i \in DOMAIN blocks : blocks[i] # "thinking"}
    IN  IF can = {} THEN blocks ELSE [blocks EXCEPT ![CHOOSE i \in can : \A j \in can : j <= i] = "marked"]

WithCacheControl(p) == IF HasCacheControl(p) THEN p ELSE [s \in Sections |-> MarkLast(p[s])]

\* Each attempt at an upstream starts from the request as it is
Mark == marked < 2 /\ marked' = marked + 1 /\ prompt' = WithCacheControl(prompt)

NextMarks == Mark
SpecMarks == InitMarks /\ [][NextMarks]_markVars

\* The breakpoints of a request never exceed what Anthropic accepts, those of a
\* client that sets any are left as they are, and marking a request again changes
\* nothing.
MarksBounded ==
    [][/\ Marks(prompt') <= Allowance
       /\ marked = 1 \/ Marks(prompt) > 0 => prompt' = prompt]_markVars
=============================================================================
