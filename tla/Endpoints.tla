----------------------------- MODULE Endpoints -----------------------------
(***************************************************************************)
(* What each endpoint holds for a request and bills of its answer          *)
(* (routers/openai_proxy.py, routers/anthropic_proxy.py, and the part of   *)
(* services/proxy.py that fills in what the upstream did not report), for  *)
(* answers that are not streamed.  Amounts are tokens and units; Pricing   *)
(* has the money.                                                          *)
(***************************************************************************)
EXTENDS Integers, FiniteSets

CONSTANTS
    Sizes,           \* tokens of the text of a body, as count_text_tokens has them, and of a reply
    OutputCaps,      \* max_tokens and its other names, Absent for none
    Numbers,         \* n, seconds: what a body asks of images or of a video, as a number
    FullReply,       \* the 4096 tokens of a chat without a cap
    Usages,          \* what an upstream may report of the input or the output
    Absent, Unset

ASSUME EndpointsAssumption ==
    /\ Sizes \subseteq Nat /\ FullReply \in Nat /\ Absent \notin Nat
    /\ OutputCaps \subseteq Nat \cup {Absent} /\ Usages \subseteq Nat \cup {Absent} /\ Numbers \subseteq Int

VARIABLES
    ask,        \* [endpoint, text, cap, number, characters]
    hold,       \* [input, output, units]
    reply,      \* [prompt, output, text, searches]: its usage, the tokens of its text
    bill        \* [input, output, units, source]

endpointVars == <<ask, hold, reply, bill>>

Endpoint == {"chat", "completions", "embeddings", "responses", "messages", "images", "edits",
             "transcriptions", "speech", "rerank", "video"}
LeastOne(n) == IF n < 1 THEN 1 ELSE n

AskedOf == [endpoint : Endpoint, text : Sizes, cap : OutputCaps, number : Numbers, characters : Sizes]

InitEndpoints ==
    /\ ask \in AskedOf
    /\ hold = Unset /\ reply = Unset /\ bill = Unset

----------------------------------------------------------------------------
(* Before the request *)

\* Chat completions and messages reserve a full reply, the Responses API passes it
\* as its default, any other endpoint passes 0 or has no messages
DefaultOutput(e) == IF e \in {"chat", "messages", "responses"} THEN FullReply ELSE 0

\* _image_count; audio and rerank are one request
ImageUnits(a) == LeastOne(a.number)
\* _video_seconds: billed per second, 4 of them unless the body asks for a number
VideoUnits(a) == IF a.number = 0 THEN 4 ELSE LeastOne(a.number)
Units(a) ==
    CASE a.endpoint \in {"images", "edits"} -> ImageUnits(a)
      [] a.endpoint = "video" -> VideoUnits(a)
      [] a.endpoint \in {"transcriptions", "speech", "rerank"} -> 1
      [] OTHER -> 0

\* begin_request_budget
HoldRequest ==
    /\ hold = Unset
    /\ hold' = [input  |-> IF ask.endpoint = "speech" THEN ask.characters ELSE LeastOne(ask.text),
                output |-> IF ask.cap = Absent THEN DefaultOutput(ask.endpoint) ELSE ask.cap,
                units  |-> Units(ask)]
    /\ UNCHANGED <<ask, reply, bill>>

Reply ==
    /\ hold # Unset /\ reply = Unset
    /\ reply' \in [prompt : Usages, output : Usages, text : Sizes, searches : Numbers]
    /\ UNCHANGED <<ask, hold, bill>>

----------------------------------------------------------------------------
(* After it *)

Or0(n) == IF n = Absent THEN 0 ELSE n
Read(p, o, n) == [prompt |-> p, output |-> o, units |-> n]

\* Mutant of Extracted: what is absent would be taken for a zero, as _rerank_usage does
ExtractedZero == Read(Or0(reply.prompt), Or0(reply.output), Units(ask))

\* extract_openai_usage, extract_responses_usage, _extract_anthropic_usage
Extracted == Read(reply.prompt, reply.output, Units(ask))

\* _rerank_usage: its prompt is never absent, its units are the upstream's
Reranked == Read(Or0(reply.prompt), Absent, IF reply.searches = 0 THEN 1 ELSE reply.searches)
\* audio_speech: characters, whatever the upstream says
Voiced == Read(ask.characters, 0, 1)
\* embeddings have no output
Embedded == Read(reply.prompt, Or0(reply.output), 0)
\* _video_job reads no usage
Filmed == Read(Absent, Absent, Units(ask))

UsageRead ==
    CASE ask.endpoint = "rerank" -> Reranked
      [] ask.endpoint = "speech" -> Voiced
      [] ask.endpoint = "embeddings" -> Embedded
      [] ask.endpoint = "video" -> Filmed
      [] OTHER -> Extracted

\* execute_with_failover: the text of `choices` and of `output` is counted, and no
\* other, such as the `content` of messages or the `text` of a transcription
TextCounted == IF ask.endpoint \in {"chat", "completions", "responses"} THEN reply.text ELSE 0

Source(u) ==
    CASE ask.endpoint = "speech" \/ (u.prompt = Absent /\ u.output = Absent) -> "estimated"
      [] ask.endpoint # "speech" /\ u.prompt # Absent /\ u.output # Absent -> "upstream"
      [] OTHER -> "mixed"

BillReply ==
    /\ reply # Unset /\ bill = Unset
    /\ LET u == UsageRead IN
       bill' = [input  |-> IF u.prompt = Absent THEN hold.input ELSE u.prompt,
                output |-> IF u.output = Absent THEN TextCounted ELSE u.output,
                units  |-> u.units, source |-> Source(u)]
    /\ UNCHANGED <<ask, hold, reply>>

NextEndpoints == HoldRequest \/ Reply \/ BillReply

SpecEndpoints == InitEndpoints /\ [][NextEndpoints]_endpointVars

----------------------------------------------------------------------------
(* Properties *)

ReadsUsage == ask.endpoint \notin {"speech", "video"}

\* "Explicit zero usage and missing usage are handled apart" (docs/DESIGN.md):
\* what the upstream reports is billed, a zero too; a log that says "upstream" has
\* nothing estimated in it; and an answer that keeps to the size of its request is
\* billed within what was held for it, in tokens and in units, at every endpoint
\* (one search of a rerank).
Honest ==
    /\ ReadsUsage /\ reply.prompt # Absent => bill.input = reply.prompt
    /\ bill.source = "upstream" =>
         reply.prompt # Absent /\ (reply.output # Absent \/ ask.endpoint = "embeddings")
KeptSize ==
    /\ Or0(reply.prompt) <= hold.input /\ Or0(reply.output) <= hold.output /\ TextCounted <= hold.output
    /\ ask.endpoint = "rerank" => reply.searches = 1
BillFounded ==
    bill # Unset =>
      /\ Honest
      /\ KeptSize => bill.input <= hold.input /\ bill.output <= hold.output /\ bill.units <= hold.units

\* "Missing fields are estimated" (docs/DESIGN.md).  This fails: of an answer
\* without usage, the text of messages and transcriptions is billed as nothing,
\* and the input of a rerank too.
MissingEstimated ==
    bill # Unset /\ ReadsUsage =>
      /\ reply.prompt = Absent => bill.input = hold.input
      /\ reply.output = Absent /\ ask.endpoint \in {"chat", "completions", "responses", "messages", "transcriptions"} =>
           bill.output = reply.text
=============================================================================
