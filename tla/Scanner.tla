------------------------------ MODULE Scanner ------------------------------
(***************************************************************************)
(* The scan of a streamed answer for secrets (services/content_filter.py,  *)
(* services/audit.py): piece by piece, with a short tail of what was seen  *)
(* before.  A character is TRUE if it belongs to a secret.                 *)
(***************************************************************************)
EXTENDS Integers, Sequences

CONSTANTS
    Spoken,    \* of "chat", "responses", "messages"
    SecretChars,  \* characters that make a secret's pattern match
    TailChars,    \* _SECRET_TAIL
    MaxPiece,     \* bound on the length of a piece
    MaxText       \* bound on the length of an answer

ASSUME ScannerAssumption == SecretChars \in Nat \ {0} /\ TailChars \in Nat /\ TailChars >= SecretChars - 1

VARIABLES
    streams,   \* protocol of the answer
    scanned,   \* secrets are scanned for, and the key is not exempt
    text,      \* history: the characters of the answer so far
    tail,      \* secret_tail
    hit        \* whether the log of the request will name a secret

scannerVars == <<streams, scanned, text, tail, hit>>

InitScanner ==
    /\ streams \in Spoken /\ scanned \in BOOLEAN
    /\ text = <<>> /\ tail = <<>> /\ hit = FALSE

----------------------------------------------------------------------------

\* TRUE is a character of a secret.  match_secret
HasSecret(chars) == \E i \in 1..Len(chars) - SecretChars + 1 : \A j \in i..i + SecretChars - 1 : chars[j]

Ending(chars, n) == SubSeq(chars, IF Len(chars) > n THEN Len(chars) - n + 1 ELSE 1, Len(chars))

\* sse_visible_text, response_visible_text: of the events of the Responses API
\* nothing is seen, as they begin with a line "event:"
Visible(chars) == IF streams = "responses" THEN <<>> ELSE chars

\* Mutant of TailOf: only this piece
TailOfPiece(window, piece) == Ending(piece, TailChars)

TailOf(window, piece) == Ending(window, TailChars)

\* feed: a hit leaves the tail as it is
Scan(piece) ==
    LET window == tail \o Visible(piece) IN
    IF Visible(piece) = <<>> THEN UNCHANGED <<tail, hit>>
    ELSE IF HasSecret(window) THEN hit' = TRUE /\ UNCHANGED tail
    ELSE tail' = TailOf(window, piece) /\ UNCHANGED hit

Piece(piece) ==
    /\ Len(text) + Len(piece) <= MaxText
    /\ text' = text \o piece
    /\ IF ~scanned THEN UNCHANGED <<tail, hit>> ELSE Scan(piece)
    /\ UNCHANGED <<streams, scanned>>

NextScanner == \E n \in 1..MaxPiece : \E piece \in [1..n -> BOOLEAN] : Piece(piece)

SpecScanner == InitScanner /\ [][NextScanner]_scannerVars

----------------------------------------------------------------------------
(* Property *)

\* "Both requests and replies are scanned" for secrets (services/content_filter.py:3),
\* however an answer is cut into pieces.  Not so the stream of the Responses API.
SecretSeen == scanned /\ streams # "responses" /\ HasSecret(text) => hit
=============================================================================
