------------------------------ MODULE Streams ------------------------------
(***************************************************************************)
(* One stream of an upstream, read by two readers of its protocol that     *)
(* share no code: the relay to a client (services/stream_outcomes.py,      *)
(* services/proxy.py), which bills it, and the check an administrator asks *)
(* for (services/channel_checks.py), which says whether the channel works. *)
(* An upstream may send its events in any order; it reports usage after it *)
(* has generated, or never, and ends its stream with its terminal event.   *)
(***************************************************************************)
EXTENDS Integers, FiniteSets

CONSTANTS
    Protocols,     \* of "chat", "responses", "messages"
    ChoiceIds,       \* indexes of the choices of a chat completion
    MaxEvents      \* bound on the events of a stream

ASSUME StreamsAssumption == Protocols \subseteq {"chat", "responses", "messages"} /\ MaxEvents \in Nat

VARIABLES
    protocol,
    sent,       \* events sent so far
    wrote,      \* history: tokens generated so far, one for each event of text
    reported,       \* history: what of its usage the upstream has reported, "prompt", "completion"
    relay,      \* StreamOutcome and the meter: [state, choices, finished, metered, usage, prompt]
    check       \* _validate_stream: [state, text]

streamVars == <<protocol, sent, wrote, reported, relay, check>>

NotReported == -1
RelayStates == {"reads", "complete", "failed", "unfinished", "left"}

\* What the data of an event says.  "text" and "reasoning" are deltas; "finish"
\* ends a choice; "end" is [DONE], response.completed or message_stop, "bare" a
\* response.completed without text; "cut" is response.incomplete; "error" any
\* form of an error event, response.failed too; "junk" is no JSON, "plain" a
\* line outside of events, as of an answer that is no stream at all; "start" is
\* message_start
Events == {"text", "reasoning", "usage", "end", "error", "junk", "plain"}
          \cup (IF protocol = "chat" THEN {"finish"} ELSE {})
          \cup (IF protocol = "messages" THEN {"start"} ELSE {})
          \cup (IF protocol = "responses" THEN {"bare", "cut"} ELSE {})

Parts == {{"prompt"}, {"completion"}, {"prompt", "completion"}}

\* What an event may report; of message_start and message_delta the relay reads
\* one part each
MayTell(e) ==
    {{}} \cup CASE protocol = "chat"      -> IF e = "usage" THEN Parts ELSE {}
              [] protocol = "responses" -> IF e \in {"end", "bare", "cut", "error"} THEN Parts ELSE {}
              [] protocol = "messages"  -> IF e = "start" THEN {{"prompt"}}
                                           ELSE IF e = "usage" THEN {{"completion"}} ELSE {}

InitStreams ==
    /\ protocol \in Protocols /\ sent = 0 /\ wrote = 0 /\ reported = {}
    /\ relay = [state |-> "reads", choices |-> {}, finished |-> {}, metered |-> 0, usage |-> NotReported,
                prompt |-> FALSE]
    /\ check = [state |-> "reads", text |-> FALSE]

----------------------------------------------------------------------------
(* The relay: usage, StreamOutcome.feed, the meter, in this order *)

Generates(e) == e \in {"text", "reasoning"}
Ends(e)      == e \in {"end", "bare", "cut"}

\* ChoiceIds seen and choices finished; a delta belongs to a choice, too
Seen(e, c)   == IF protocol = "chat" /\ e \in {"text", "reasoning", "finish"} THEN {c} ELSE {}
Answered(r)  == r.choices # {} /\ r.choices \subseteq r.finished

\* Mutant of Stops: the stream is left when every choice is finished
StopsFinished(r, e) == Ends(e) \/ Answered(r)

Stops(r, e) == Ends(e)

Feed(e, c, tells) ==
    LET r == [relay EXCEPT !.usage = IF "completion" \in tells THEN wrote' ELSE @,
                           !.prompt = @ \/ "prompt" \in tells,
                           !.choices = @ \cup Seen(e, c),
                           !.finished = IF e = "finish" THEN @ \cup {c} ELSE @,
                           !.metered = IF Generates(e) THEN @ + 1 ELSE @]
    IN  relay' = IF relay.state # "reads" THEN relay
                 ELSE [r EXCEPT !.state = IF e = "error" THEN "failed"
                                          ELSE IF Stops(r, e) THEN "complete" ELSE "reads"]

----------------------------------------------------------------------------
(* The check: content type, JSON, errors, text, terminal event *)

Passes(e) == e = "end" /\ (check.text \/ protocol = "responses")

Fails(e) == e \in {"error", "junk", "plain", "cut"} \/ (Ends(e) /\ ~Passes(e))

Examine(e) ==
    check' = IF check.state # "reads" THEN check
             ELSE [text |-> check.text \/ e = "text",
                   state |-> IF Passes(e) THEN "passed" ELSE IF Fails(e) THEN "failed" ELSE "reads"]

----------------------------------------------------------------------------

\* The relay has closed the stream before its end, for a reason
Abandoned == relay.state \in {"failed", "left"}

\* An upstream sends nothing after a terminal event
Send(e, c, tells) ==
    /\ sent < MaxEvents /\ sent' = IF Ends(e) THEN MaxEvents + 1 ELSE sent + 1
    /\ Generates(e) => "completion" \notin reported
    /\ wrote' = IF Generates(e) /\ ~Abandoned THEN wrote + 1 ELSE wrote
    /\ reported' = IF Abandoned THEN reported ELSE reported \cup tells
    /\ Feed(e, c, tells) /\ Examine(e)
    /\ UNCHANGED protocol

\* The upstream closes the stream: eof_error, "ended without its terminal event"
Eof ==
    /\ sent <= MaxEvents /\ sent' = MaxEvents + 1
    /\ relay' = IF relay.state # "reads" THEN relay
                ELSE [relay EXCEPT !.state = IF Answered(relay) THEN "complete" ELSE "unfinished"]
    /\ check' = IF check.state # "reads" THEN check ELSE [check EXCEPT !.state = "failed"]
    /\ UNCHANGED <<protocol, wrote, reported>>

\* The client disconnects: the relay closes the stream and bills it
ClientLeaves ==
    /\ relay.state = "reads" /\ sent > 0
    /\ relay' = [relay EXCEPT !.state = "left"]
    /\ UNCHANGED <<protocol, sent, wrote, reported, check>>

NextStreams ==
    \/ \E e \in Events, c \in ChoiceIds : \E tells \in MayTell(e) : Send(e, c, tells)
    \/ Eof \/ ClientLeaves

SpecStreams == InitStreams /\ [][NextStreams]_streamVars

----------------------------------------------------------------------------
(* Properties *)

\* What the request is billed for
Output == IF relay.usage # NotReported THEN relay.usage ELSE relay.metered

TypeOKStreams ==
    /\ relay.state \in RelayStates /\ relay.choices \subseteq ChoiceIds /\ relay.finished \subseteq relay.choices
    /\ check.state \in {"reads", "passed", "failed"} /\ sent \in 0..MaxEvents + 1

\* However a stream ends - with its terminal event, an error, a lost connection,
\* the client's leaving - it is billed for all the output that was generated so
\* far, reasoning too, whether the upstream reported it, in whichever event, or not,
\* and for the input that the upstream reported, if it did.
AllBilled == relay.state # "reads" => Output = wrote /\ (relay.prompt <=> "prompt" \in reported)

\* A stream for which the check of a channel passes is one that the gateway
\* relays to its end, too, unless the client leaves it.
CheckedWorks == check.state = "passed" => relay.state \in {"complete", "left"}

\* The relay, its bill and the check of a channel read the same stream alike
StreamsAgree == AllBilled /\ CheckedWorks
=============================================================================
