------------------------------ MODULE Excerpts ------------------------------
(***************************************************************************)
(* What is kept of the body of a request (services/audit.py): the excerpt  *)
(* of a long one, cut to a limit in several passes.  Texts are their       *)
(* lengths.                                                                *)
(***************************************************************************)
EXTENDS Integers, Sequences, FiniteSets, FiniteSetsExt

CONSTANTS
    Requests,     \* bodies: [messages, tools, other, whole], a message is a sequence of lengths
    MaxChars,     \* MAX_AUDIT_CHARS
    StringChars,  \* 4000 characters of a string
    Turns,        \* 40 messages
    Limits,       \* limits of the passes, <<2000, 800, 300>>
    LastPass      \* 400

Body == [messages : Seq(Seq(Nat)), tools : Nat, other : Nat, whole : BOOLEAN]

\* The last pass clips most; a row has room for the placeholder
ASSUME ExcerptsAssumption ==
    /\ Requests \subseteq Body
    /\ Turns \in Nat /\ Turns > 1
    /\ MaxChars \in Nat \ {0}
    /\ Limits \in Seq(Nat) /\ Len(Limits) > 0
    /\ StringChars \in Nat /\ StringChars >= Limits[Len(Limits)]
    /\ LastPass \in Nat /\ LastPass >= Limits[Len(Limits)]
    /\ \A k \in DOMAIN Limits : Limits[k] >= Limits[Len(Limits)]

VARIABLES
    request,   \* the body of a request
    exempt,    \* the audit_policy of its key is "off"
    audit,     \* the setting inference_audit
    kept       \* its excerpt, or NotKept

excerptVars == <<request, exempt, audit, kept>>

\* `whole` says that a body fits
NotKept == [messages |-> <<>>, tools |-> 0, other |-> 0, whole |-> FALSE]
Placeholder == [messages |-> <<>>, tools |-> 0, other |-> 1, whole |-> FALSE]

InitExcerpts == request \in Requests /\ exempt \in BOOLEAN /\ audit \in BOOLEAN /\ kept = NotKept

----------------------------------------------------------------------------
(* request_excerpt *)

Least(i, j) == IF i <= j THEN i ELSE j
Total(seq) == SumFunctionOnSet(seq, DOMAIN seq)

\* _dump: every message costs its texts and one character
Size(body) == Total([i \in DOMAIN body.messages |-> 1 + Total(body.messages[i])]) + body.tools + body.other

\* _clip_middle of every string
Retighten(body, limit) ==
    LET clipped(text) == [j \in DOMAIN text |-> Least(text[j], limit)] IN
    [messages |-> [i \in DOMAIN body.messages |-> clipped(body.messages[i])],
     tools |-> body.tools, other |-> Least(body.other, limit), whole |-> body.whole]

\* Mutant of Shrink: the first messages are kept
ShrinkFirst(body) ==
    LET b == Retighten(body, StringChars) IN
    [b EXCEPT !.messages = SubSeq(@, 1, Least(Turns, Len(@)))]

\* _shrink: strings are clipped, all but the latest messages become one line
Shrink(body) ==
    LET b == Retighten(body, StringChars)
        n == Len(b.messages)
    IN  IF n <= Turns THEN b
        ELSE [b EXCEPT !.messages = <<<<1>>>> \o SubSeq(@, n - Turns + 2, n)]

\* Messages are dropped from the front until the rest fits, or one is left
DropOldest(body) ==
    LET n == Len(body.messages)
        from(i) == [body EXCEPT !.messages = SubSeq(@, i, n)]
        fits == {i \in 1..n : i = n \/ Size(from(i)) <= MaxChars}
    IN  IF n = 0 THEN body ELSE from(CHOOSE i \in fits : \A j \in fits : i <= j)

\* A pass of _fit, unless an earlier one was enough
Clip(body, limit) ==
    LET dropped == DropOldest(Retighten(body, limit))
    IN  IF body.whole THEN body ELSE [dropped EXCEPT !.whole = Size(dropped) <= MaxChars]

LastOf(body) == body.messages[Len(body.messages)]

\* The latest message alone, without tools
Alone(body) ==
    [messages |-> IF body.messages = <<>> THEN <<>> ELSE <<LastOf(body)>>,
     tools |-> 0, other |-> body.other, whole |-> body.whole]

\* _fit: pass after pass; then the last message alone
Fit(body) ==
    LET pass[k \in 0..Len(Limits)] ==
            IF k = 0 THEN [body EXCEPT !.whole = FALSE] ELSE Clip(pass[k - 1], Limits[k])
        passed == pass[Len(Limits)]
        last == Retighten(Alone(passed), LastPass)
    IN  IF passed.whole THEN passed ELSE IF Size(last) <= MaxChars THEN last ELSE Placeholder

Excerpt(body) == IF Size(Shrink(body)) <= MaxChars THEN Shrink(body) ELSE Fit(Shrink(body))

\* open_audit: nothing is kept of an exempt key, nor while the audit is off
Keep ==
    /\ kept = NotKept /\ ~exempt /\ audit
    /\ kept' = Excerpt(request)
    /\ UNCHANGED <<request, exempt, audit>>

NextExcerpts == Keep

SpecExcerpts == InitExcerpts /\ [][NextExcerpts]_excerptVars

----------------------------------------------------------------------------
(* Property *)

\* An excerpt never exceeds what a row can hold, and it has the latest message of
\* the conversation, clipped, unless that message alone is too large however much
\* it is clipped (services/audit.py:99 says "always").
ExcerptKeepsLatest ==
    LET shortest == Limits[Len(Limits)] IN
    kept # NotKept =>
        /\ Size(kept) <= MaxChars
        /\ request.messages # <<>> =>
               \/ /\ kept # Placeholder /\ Len(LastOf(kept)) = Len(LastOf(request))
                  /\ \A i \in DOMAIN LastOf(kept) : LastOf(kept)[i] >= Least(LastOf(request)[i], shortest)
               \/ Size(Retighten(Alone(request), shortest)) > MaxChars
=============================================================================
