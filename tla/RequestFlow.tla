---------------------------- MODULE RequestFlow ----------------------------
(***************************************************************************)
(* One request of a client from its limits to its bill: _proxy and         *)
(* messages of the routers, begin_request_budget and RequestLease          *)
(* (services/quota.py), execute_with_failover, stream_with_failover and    *)
(* _bill_and_log (services/proxy.py), around the settlement ledger.        *)
(*                                                                         *)
(* Every step is a step of Settlements, or leaves its state alone.  The    *)
(* recovery loop and the operators are Settlements' own subject and take   *)
(* no step here.  Prices are one unit per token, so a charge is the number *)
(* of tokens billed.  The minute of a token rate does not end, and health  *)
(* and stickiness of channels are left out (RateLimits, ChannelHealth).    *)
(***************************************************************************)
EXTENDS Settlements, UpstreamFailures, Sequences

CONSTANTS
    Channels,
    Candidates,       \* [Requests -> Seq(Channels)]: what plan_route answers
    KeyCount,         \* [Channels -> Nat]: upstream keys of a channel
    Retries,          \* [Channels -> Nat]: max_retries
    Idempotent,       \* requests that create no job (images and videos do)
    Failing,          \* failures upstream calls may end with
    TokenLimit,       \* [Owners -> Int]: tpm_limit
    SlotLimit,        \* [Owners -> Int]: concurrent_limit
    Others,           \* requests not followed here, which may hold leases
    Crowded,          \* ... of these owners
    EstimatedInput,   \* tokens begin_request_budget estimates
    EstimatedOutput,
    ReportedInput,    \* tokens the upstream reports, when it does
    ReportedOutput,
    MaxText,          \* bound on the text an answer holds, in tokens
    MaxUpsets,        \* bound on the faults of statements and of Redis, and the load
                      \* counters that expire, together
    MaxArrivals       \* bound on the requests that arrive

Estimate == EstimatedInput + EstimatedOutput

ASSUME FlowAssumption ==
    /\ Candidates \in [Requests -> Seq(Channels)] /\ \A r \in Requests : Candidates[r] # << >>
    /\ KeyCount \in [Channels -> Nat \ {0}] /\ Retries \in [Channels -> Nat]
    /\ Idempotent \subseteq Requests /\ Streams \subseteq Idempotent
    /\ TokenLimit \in [Owners -> Int] /\ SlotLimit \in [Owners -> Int]
    /\ {EstimatedInput, EstimatedOutput, ReportedInput, ReportedOutput, MaxText, MaxUpsets, MaxArrivals} \subseteq Nat
    /\ Estimates = {Estimate} /\ Others \cap Requests = {}
\* Only an error of HTTP carries a status
ASSUME FailureAssumption == \A e \in Failing :
    /\ e.status \in Nat /\ e.event \in BOOLEAN /\ e.unfinished \in BOOLEAN
    /\ e.class # "HTTPStatusError" => e.status = 0

VARIABLES
    flow,      \* where a request is, and what it knows
    reserved,  \* tpm_reserved, tenant_tpm_reserved: owners whose tokens it took
    kept,      \* owners whose concurrency lease a _keepalive task of it renews
    tpm,       \* the token counters
    busy,      \* the requests in an owner's set of leases
    inflight,  \* five:ch_inflight:<channel>; 0 is also a key that is not there
    expiring,  \* channels whose counter carries INFLIGHT_TTL
    misses,    \* faults of Redis at these counters, and expiries, so far
    strayed,   \* history: how far such faults, and expiries, put a counter off
    slips,     \* faults of Redis elsewhere so far
    past       \* history, not read by any action

stats    == <<inflight, expiring, misses, strayed>>
flowVars == <<flow, reserved, kept, tpm, busy, stats, slips, past>>
allVars  == <<vars, flowVars>>

NoError == Plain("none")
Errors  == Failing \cup {NoError, NoReadyUpstreamKey, Unexpected, Unfinished}
Parts   == {"prompt", "output"}

Arriving == [at |-> "arrive", cand |-> 1, attempt |-> 0, rotations |-> 0, active |-> {},
             error |-> NoError, answered |-> FALSE, finished |-> FALSE, text |-> 0,
             reported |-> {}, due |-> 0]

InitFlow ==
    /\ Init
    /\ flow = [r \in Requests |-> Arriving]
    /\ reserved = [r \in Requests |-> {}] /\ kept = [r \in Requests |-> {}]
    /\ tpm = [o \in Owners |-> 0] /\ busy \in {b \in [Owners -> {{}, Others}] : \A o \in Owners \ Crowded : b[o] = {}}
    /\ inflight = [ch \in Channels |-> 0] /\ strayed = [ch \in Channels |-> 0]
    /\ expiring = {} /\ misses = 0 /\ slips = 0
    /\ past = [r \in Requests |-> [sent |-> 0, started |-> 0, unknown |-> FALSE, told |-> "nothing", counted |-> {}]]

At(r, place)    == flow[r].at = place
Step(r, place)  == flow' = [flow EXCEPT ![r].at = place]
Become(r, f)    == flow' = [flow EXCEPT ![r] = f]
Tell(r, what)   == past' = [past EXCEPT ![r].told = what]
Channel(r) == Candidates[r][flow[r].cand]

Slip   == slips' = slips + 1
NoSlip == UNCHANGED slips

----------------------------------------------------------------------------
(* Admission: begin_request_budget, then the key's concurrency lease *)

\* The request arrives; a disabled tenant, a used-up spend window or a model
\* without a price refuses it at once.
Arrive(r) ==
    /\ At(r, "arrive")
    /\ Cardinality({q \in Requests : ~At(q, "arrive")}) < MaxArrivals
    /\ \/ UNCHANGED vars /\ Step(r, "keyTokens") /\ UNCHANGED past
       \/ Refuse(r) /\ Step(r, "over") /\ Tell(r, "error")
    /\ UNCHANGED <<reserved, kept, tpm, busy, stats, slips>>

Count(o, n) == tpm' = [tpm EXCEPT ![o] = @ + n]
Fits(o) == TokenLimit[o] = Unlimited \/ tpm[o] + Estimate <= TokenLimit[o]

\* reserve_tpm.  If it raises the lease is released, with what it knows of; the
\* tokens it took without an answer stay counted.
TakeTokens(r, here, o, next) ==
    /\ At(r, here)
    /\ \/ /\ Fits(o) /\ NoSlip
          /\ IF TokenLimit[o] = Unlimited THEN UNCHANGED <<tpm, reserved>>
             ELSE Count(o, Estimate) /\ reserved' = [reserved EXCEPT ![r] = @ \cup {o}]
          /\ Step(r, next) /\ UNCHANGED <<vars, past>>
       \/ /\ TokenLimit[o] # Unlimited
          /\ \/ ~Fits(o) /\ UNCHANGED tpm /\ NoSlip
             \/ UNCHANGED tpm /\ Slip
             \/ Fits(o) /\ Count(o, Estimate) /\ Slip
          /\ Refuse(r) /\ Step(r, "clear") /\ Tell(r, "error")
          /\ UNCHANGED reserved
    /\ UNCHANGED <<kept, busy, stats>>

ReserveBudget(r) ==
    /\ At(r, "reserve")
    /\ \E w \in Accepting : Reserve(r, w, Estimate) \/ Deny(r, w, Estimate)
    /\ IF phase'[r] = "held" THEN Step(r, "tenantSlot") /\ UNCHANGED past
                             ELSE Step(r, "clear") /\ Tell(r, "error")
    /\ UNCHANGED <<reserved, kept, tpm, busy, stats, slips>>

Room(o) == SlotLimit[o] = Unlimited \/ Cardinality(busy[o]) < SlotLimit[o]
Occupy(r, o) == busy' = [busy EXCEPT ![o] = @ \cup {r}]

\* A lease taken without an answer is not known to the request and not renewed
TakeSlot(r, here, o, next) ==
    /\ At(r, here)
    /\ Room(o)
    /\ IF SlotLimit[o] = Unlimited THEN UNCHANGED <<busy, kept>>
       ELSE Occupy(r, o) /\ kept' = [kept EXCEPT ![r] = @ \cup {o}]
    /\ Step(r, next)
    /\ UNCHANGED <<vars, reserved, tpm, stats, slips, past>>

\* ConcurrencyExceeded of either scope, and any failure of the tenant's lease,
\* release what was reserved
NoSlot(r, here, o) ==
    /\ At(r, here) /\ SlotLimit[o] # Unlimited
    /\ \/ ~Room(o) /\ UNCHANGED busy /\ NoSlip
       \/ here = "tenantSlot" /\ Slip /\ (UNCHANGED busy \/ (Room(o) /\ Occupy(r, o)))
    /\ Step(r, "release") /\ Tell(r, "error")
    /\ UNCHANGED <<vars, reserved, kept, tpm, stats>>

\* Between the reservation and the code that would give it back an exception
\* leaves everything behind: Redis fails at the key's lease, or a setting that
\* is not cached cannot be read (gateway_config, open_response_scanner).
Strand(r) ==
    /\ \/ At(r, "keySlot") /\ SlotLimit[KeyOf[r]] # Unlimited
          /\ (UNCHANGED busy \/ (Room(KeyOf[r]) /\ Occupy(r, KeyOf[r])))
       \/ At(r, "prepare") /\ UNCHANGED busy
    /\ ReleaseLease(r) /\ UNCHANGED row
    /\ Step(r, "stranded") /\ Tell(r, "error")
    /\ UNCHANGED <<reserved, kept, tpm, stats, slips>>

Prepare(r) ==
    /\ At(r, "prepare")
    /\ Step(r, "select")
    /\ UNCHANGED <<vars, reserved, kept, tpm, busy, stats, slips, past>>

----------------------------------------------------------------------------
(* Attempts: select a key, mark the dispatch, call, rotate, retry, switch *)

\* end_attempt swallows its errors: a decrement may be lost.  (One that fails
\* with its answer only is one that works.)  A key that is gone counts from 0.
Ended(r, works) == [ch \in Channels |-> inflight[ch] - IF works /\ ch \in flow[r].active THEN 1 ELSE 0]
Left(r, works)  == [ch \in Channels |-> strayed[ch] + IF ~works /\ ch \in flow[r].active THEN 1 ELSE 0]
Missed(r, works, n) ==
    /\ works \/ flow[r].active # {}
    /\ misses' = misses + n + IF works THEN 0 ELSE 1

EndAttempt(r) == \E works \in BOOLEAN :
    /\ inflight' = Ended(r, works) /\ strayed' = Left(r, works)
    /\ Missed(r, works, 0)
    /\ UNCHANGED expiring

\* begin_attempt: INCR, then EXPIRE; either may fail, and nobody is told.
\* A stream ends the attempt before here.
BeginAttempt(r, ch) == \E works, counts, expires \in BOOLEAN :
    /\ expires => counts
    /\ inflight' = [Ended(r, works) EXCEPT ![ch] = @ + IF counts THEN 1 ELSE 0]
    /\ strayed' = [Left(r, works) EXCEPT ![ch] = @ - IF counts THEN 0 ELSE 1]
    /\ expiring' = IF expires THEN expiring \cup {ch} ELSE expiring
    /\ Missed(r, works, IF expires THEN 0 ELSE 1)

\* _select_key.  Only a pool of keys is ever asked whether one is ready, and
\* only that can fail.
SelectKey(r) ==
    /\ At(r, "select")
    /\ \/ Become(r, [flow[r] EXCEPT !.at = "send", !.attempt = 0, !.rotations = 0])
       \/ /\ KeyCount[Channel(r)] > 1
          /\ \E e \in {NoReadyUpstreamKey, Unexpected} \cap Errors :
               Become(r, [flow[r] EXCEPT !.at = "failed", !.error = e])
    /\ UNCHANGED <<vars, reserved, kept, tpm, busy, stats, slips, past>>

\* The provider cannot be built (its URL or keys are invalid).  A stream treats
\* it as a failure; the other branch leaves for the outer finally.
NoProvider(r) ==
    /\ At(r, "select") /\ Unexpected \in Failing
    /\ IF r \in Streams
       THEN Become(r, [flow[r] EXCEPT !.at = "failed", !.error = Unexpected]) /\ UNCHANGED past
       ELSE Step(r, "release") /\ Tell(r, "error")
    /\ UNCHANGED <<vars, reserved, kept, tpm, busy, stats, slips>>

\* begin_attempt and before_send
Send(r) ==
    /\ At(r, "send")
    /\ IF phase[r] = "held" THEN BeforeSend(r) \/ RefuseSend(r) ELSE UNCHANGED vars
    /\ BeginAttempt(r, Channel(r))
    /\ Become(r, [flow[r] EXCEPT !.at = IF phase'[r] = "refused" THEN "refused" ELSE "upstream",
                                 !.active = {Channel(r)}])
    /\ past' = [past EXCEPT ![r].sent = @ + (IF phase'[r] = "refused" THEN 0 ELSE 1)]
    /\ UNCHANGED <<reserved, kept, tpm, busy, slips>>

\* 503 "Accounting unavailable; upstream was not called"
Unaccounted(r) ==
    /\ At(r, "refused")
    /\ IF r \in Streams THEN Step(r, "settle") /\ UNCHANGED stats
       ELSE EndAttempt(r) /\ Become(r, [flow[r] EXCEPT !.at = "release", !.active = {}])
    /\ Tell(r, "error")
    /\ UNCHANGED <<vars, reserved, kept, tpm, busy, slips>>

\* Whether an attempt that failed may have started the work it asked for
MayHaveStarted(e) == OutcomeUncertain(e) \/ e.status >= 500 \/ e = Unexpected

Attempted(r, e) == past' = [past EXCEPT ![r].started = @ + (IF MayHaveStarted(e) THEN 1 ELSE 0),
                                        ![r].unknown = @ \/ OutcomeUncertain(e)]

\* The call of execute_with_failover ends
Answer(r) ==
    /\ At(r, "upstream") /\ r \notin Streams
    /\ \E reported \in SUBSET Parts, n \in 0..MaxText :
         /\ "output" \in reported => n = 0
         /\ Become(r, [flow[r] EXCEPT !.at = "answered", !.answered = TRUE, !.finished = TRUE,
                          !.reported = reported, !.text = n, !.active = {}])
    /\ EndAttempt(r)
    /\ past' = [past EXCEPT ![r].started = @ + 1]
    /\ UNCHANGED <<vars, reserved, kept, tpm, busy, slips>>

\* ... or fails; so may a stream before and after its first event
Break(r, e) ==
    /\ At(r, "upstream")
    /\ ~e.event /\ (flow[r].answered => e.status = 0)
    /\ IF r \in Streams THEN UNCHANGED stats ELSE EndAttempt(r)
    /\ Become(r, [flow[r] EXCEPT !.at = "failed", !.error = e,
                                 !.active = IF r \in Streams THEN @ ELSE {}])
    /\ Attempted(r, e)
    /\ UNCHANGED <<vars, reserved, kept, tpm, busy, slips>>

\* One event of a stream: text to meter, usage, the finish of every choice, or
\* the terminal event.  data_yielded is set before the event is looked at.
Event(r) ==
    /\ At(r, "upstream") /\ r \in Streams
    /\ \/ \E n \in 0..1, reported \in SUBSET Parts, finished \in BOOLEAN :
            /\ flow[r].text + n <= MaxText
            /\ Become(r, [flow[r] EXCEPT !.answered = TRUE, !.text = @ + n,
                             !.reported = @ \cup reported, !.finished = @ \/ finished])
       \/ Become(r, [flow[r] EXCEPT !.at = "ended", !.answered = TRUE, !.finished = TRUE])
    /\ UNCHANGED <<vars, reserved, kept, tpm, busy, stats, slips, past>>

ErrorEvent(r, e) ==
    /\ At(r, "upstream") /\ r \in Streams
    /\ e.event /\ ~e.unfinished
    /\ Become(r, [flow[r] EXCEPT !.at = "failed", !.error = e, !.answered = TRUE])
    /\ Attempted(r, e)
    /\ UNCHANGED <<vars, reserved, kept, tpm, busy, stats, slips>>

\* The upstream closes: an answer only if it had finished
Close(r) ==
    /\ At(r, "upstream") /\ r \in Streams
    /\ IF flow[r].finished THEN Step(r, "ended") /\ UNCHANGED past
       ELSE /\ Become(r, [flow[r] EXCEPT !.at = "failed", !.error = Unfinished])
            /\ Attempted(r, Unfinished)
    /\ UNCHANGED <<vars, reserved, kept, tpm, busy, stats, slips>>

\* Sending begins with the first event: only then can the client's absence end
\* a stream.  One that has all of the answer has been answered.
Disconnect(r) ==
    /\ At(r, "upstream") /\ r \in Streams /\ flow[r].answered
    /\ Step(r, "settle")
    /\ Tell(r, IF flow[r].finished THEN "answer" ELSE "gone")
    /\ UNCHANGED <<vars, reserved, kept, tpm, busy, stats, slips>>

Pool(r)   == KeyCount[Channel(r)]
Error(r)  == flow[r].error

\* Mutant of Repeatable: a job may be sent again after any failure
RepeatableAlways(r) == r \in Streams => ~flow[r].answered

Repeatable(r) ==
    IF r \in Streams THEN ~flow[r].answered ELSE r \in Idempotent \/ NeverReached(Error(r))

\* Mutant of CanRotate: the key that failed first is taken again
CanRotateAround(r) ==
    /\ Error(r).status \in KeyStatuses
    /\ flow[r].rotations < Pool(r)
    /\ r \in Streams => ~flow[r].answered

CanRotate(r) ==
    /\ Error(r).status \in KeyStatuses
    /\ flow[r].rotations < Pool(r) - 1
    /\ r \in Streams => ~flow[r].answered

CanRetry(r) ==
    /\ IsRetryable(Error(r)) /\ Error(r).status # 429
    /\ flow[r].attempt < Retries[Channel(r)]
    /\ Repeatable(r)

CanSwitch(r) ==
    /\ ShouldSwitch(Error(r)) /\ Repeatable(r)
    /\ flow[r].cand < Len(Candidates[r])

\* _try_next_key cools the key down and takes another that is ready
RotateKey(r) ==
    /\ At(r, "failed") /\ CanRotate(r)
    /\ Become(r, [flow[r] EXCEPT !.at = "send", !.error = NoError, !.rotations = @ + 1])
    /\ UNCHANGED <<vars, reserved, kept, tpm, busy, stats, slips, past>>

RetryChannel(r) ==
    /\ At(r, "failed") /\ CanRetry(r)
    /\ Become(r, [flow[r] EXCEPT !.at = "send", !.error = NoError, !.attempt = @ + 1])
    /\ UNCHANGED <<vars, reserved, kept, tpm, busy, stats, slips, past>>

SwitchChannel(r) ==
    /\ At(r, "failed") /\ ~CanRetry(r) /\ CanSwitch(r)
    /\ Become(r, [flow[r] EXCEPT !.at = "select", !.error = NoError, !.cand = @ + 1])
    /\ UNCHANGED <<vars, reserved, kept, tpm, busy, stats, slips, past>>

\* The client is told of the failure; without a stream nothing is charged
GiveUp(r) ==
    /\ At(r, "failed") /\ ~CanRetry(r) /\ ~CanSwitch(r)
    /\ IF r \in Streams THEN Step(r, "settle")
       ELSE Become(r, [flow[r] EXCEPT !.at = "bill", !.answered = FALSE, !.text = 0, !.reported = {}])
    /\ Tell(r, "error")
    /\ UNCHANGED <<vars, reserved, kept, tpm, busy, stats, slips>>

\* The answer is scanned; whatever fails before the bill is a failed request
Scan(r) ==
    /\ At(r, "answered")
    /\ \/ Step(r, "bill") /\ Tell(r, "answer")
       \/ /\ Unexpected \in Failing
          /\ Become(r, [flow[r] EXCEPT !.at = "failed", !.error = Unexpected])
          /\ UNCHANGED past
    /\ UNCHANGED <<vars, reserved, kept, tpm, busy, stats, slips>>

Complete(r) ==
    /\ At(r, "ended")
    /\ Step(r, "settle") /\ Tell(r, "answer")
    /\ UNCHANGED <<vars, reserved, kept, tpm, busy, stats, slips>>

----------------------------------------------------------------------------
(* The end of a request: bill, reconcile tokens, free the leases *)

\* Mutant of FreeSlot: the task that renews a lease ends only if Redis answers
FreeSlotFirst(r, o, works) ==
    IF works THEN /\ kept' = [kept EXCEPT ![r] = @ \ {o}]
                  /\ busy' = [busy EXCEPT ![o] = @ \ {r}] /\ NoSlip
             ELSE UNCHANGED <<kept, busy>> /\ o \in kept[r] /\ Slip

FreeSlot(r, o, works) ==
    /\ kept' = [kept EXCEPT ![r] = @ \ {o}]
    /\ IF works THEN busy' = [busy EXCEPT ![o] = @ \ {r}] /\ NoSlip
                ELSE UNCHANGED busy /\ o \in kept[r] /\ Slip

\* The finally of stream_with_failover ends the attempt and frees the key
Settle(r) ==
    /\ At(r, "settle")
    /\ EndAttempt(r)
    /\ \E works \in BOOLEAN : FreeSlot(r, KeyOf[r], works)
    /\ Become(r, [flow[r] EXCEPT !.at = "bill", !.active = {}])
    /\ UNCHANGED <<vars, reserved, tpm, past>>

\* Mutant of Charge: only usage that was reported is billed
ChargeReported(r) ==
    (IF "prompt" \in flow[r].reported THEN ReportedInput ELSE 0)
    + (IF "output" \in flow[r].reported THEN ReportedOutput ELSE 0)
\* Tokens billed: what the upstream reported, else the estimated input and the
\* text that was generated or forwarded
Charge(r) ==
    (IF "prompt" \in flow[r].reported THEN ReportedInput
     ELSE IF flow[r].answered THEN EstimatedInput ELSE 0)
    + (IF "output" \in flow[r].reported THEN ReportedOutput ELSE flow[r].text)

Uncertain(r) == OutcomeUncertain(Error(r)) /\ ~flow[r].answered

\* The uncertain branch of _bill_and_log keeps the whole estimate
HoldUnknown(r) ==
    /\ At(r, "bill") /\ Uncertain(r) /\ phase[r] = "sent"
    /\ Abandon(r)
    /\ Become(r, [flow[r] EXCEPT !.at = "clear", !.due = Estimate])
    /\ UNCHANGED <<reserved, kept, tpm, busy, stats, slips, past>>

BillRequest(r) ==
    /\ At(r, "bill") /\ ~Uncertain(r)
    /\ \E c \in {Charge(r), NoCost} \cap Costs : Bill(r, c)
    /\ Become(r, [flow[r] EXCEPT !.at = "apply", !.due = Charge(r)])
    /\ UNCHANGED <<reserved, kept, tpm, busy, stats, slips, past>>

ApplyBill(r) ==
    /\ At(r, "apply")
    /\ ApplyInRequest(r) \/ ApplyFails(r) \/ NoteInRequest(r)
    /\ Step(r, IF phase'[r] = "noting" THEN "apply" ELSE "clear")
    /\ UNCHANGED <<reserved, kept, tpm, busy, stats, slips, past>>

\* The outer finally: a lease that was not billed is released
ReleaseBudget(r) ==
    /\ At(r, "release")
    /\ \/ ReleaseLease(r) /\ Step(r, "clear")
       \/ Abandon(r) /\ Become(r, [flow[r] EXCEPT !.at = "clear", !.due = Estimate])
    /\ UNCHANGED <<reserved, kept, tpm, busy, stats, slips, past>>

\* Mutant of Reconcile: the tokens are given back whatever was used
GiveBackTokens(r, missed) ==
    tpm' = [o \in Owners |-> tpm[o] - IF o \in reserved[r] \ missed THEN Estimate ELSE 0]

Reconcile(r, missed) ==
    tpm' = [o \in Owners |-> tpm[o] + IF o \in reserved[r] \ missed THEN flow[r].due - Estimate ELSE 0]

\* _clear: every correction is tried, whatever becomes of the others
Clear(r) ==
    /\ At(r, "clear")
    /\ \E missed \in SUBSET reserved[r], stuck \in SUBSET (kept[r] \ {KeyOf[r]}) :
         /\ slips' = slips + Cardinality(missed) + Cardinality(stuck)
         /\ Reconcile(r, missed)
         /\ busy' = [busy EXCEPT ![TenantOf[KeyOf[r]]] = IF stuck = {} THEN @ \ {r} ELSE @]
         /\ past' = [past EXCEPT ![r].counted = @ \cup (reserved[r] \ missed)]
    /\ reserved' = [reserved EXCEPT ![r] = {}]
    /\ kept' = [kept EXCEPT ![r] = @ \cap {KeyOf[r]}]
    /\ Step(r, IF phase[r] = "rebill" /\ flow[r].answered THEN "rebill" ELSE "freeKey")
    /\ UNCHANGED <<vars, stats>>

\* _bill_and_log raised where the answer was billed: the handler of upstream
\* failures bills the request again, and the client gets an error
Rebill(r) ==
    /\ At(r, "rebill")
    /\ BillAgain(r)
    /\ Step(r, "apply") /\ Tell(r, "error")
    /\ UNCHANGED <<reserved, kept, tpm, busy, stats, slips>>

FreeKey(r) ==
    /\ At(r, "freeKey")
    /\ \E works \in BOOLEAN : FreeSlot(r, KeyOf[r], works)
    /\ Step(r, "over")
    /\ UNCHANGED <<vars, reserved, tpm, stats, past>>

\* The shield of a stream ends after 30 seconds, at whichever await it is: the
\* cancellation passes every handler, finish and release included
CutOff(r) ==
    /\ r \in Streams
    /\ \/ flow[r].at \in {"bill", "apply"} /\ (\E c \in {Charge(r)} \cap Costs : CutShort(r, c)) /\ NoSlip
       \/ At(r, "clear") /\ kept[r] \cup reserved[r] # {} /\ UNCHANGED vars /\ Slip
    /\ Step(r, "stranded")
    /\ UNCHANGED <<reserved, kept, tpm, busy, stats, past>>

\* Leases that nobody renews expire
LapseSlot(r, o) ==
    /\ r \in busy[o] /\ o \notin kept[r]
    /\ busy' = [busy EXCEPT ![o] = @ \ {r}]
    /\ UNCHANGED <<vars, flow, reserved, kept, tpm, stats, slips, past>>

\* INFLIGHT_TTL after the last attempt began the counter is gone, whichever
\* attempts are still under way
LapseLoad(ch) ==
    /\ ch \in expiring /\ expiring' = expiring \ {ch}
    /\ inflight' = [inflight EXCEPT ![ch] = 0]
    /\ strayed' = [strayed EXCEPT ![ch] = @ - inflight[ch]]
    /\ misses' = misses + 1
    /\ UNCHANGED <<vars, flow, reserved, kept, tpm, busy, slips, past>>

----------------------------------------------------------------------------
Admit(r) ==
    \/ TakeTokens(r, "keyTokens", KeyOf[r], "tenantTokens")
    \/ TakeTokens(r, "tenantTokens", TenantOf[KeyOf[r]], "reserve")
    \/ ReserveBudget(r)
    \/ TakeSlot(r, "tenantSlot", TenantOf[KeyOf[r]], "keySlot") \/ NoSlot(r, "tenantSlot", TenantOf[KeyOf[r]])
    \/ TakeSlot(r, "keySlot", KeyOf[r], "prepare") \/ NoSlot(r, "keySlot", KeyOf[r])
    \/ Strand(r) \/ Prepare(r)

Attempt(r) ==
    \/ SelectKey(r) \/ NoProvider(r) \/ Send(r) \/ Unaccounted(r)
    \/ Answer(r) \/ Event(r) \/ Close(r) \/ Complete(r) \/ Scan(r)
    \/ \E e \in Failing : Break(r, e) \/ ErrorEvent(r, e)
    \/ RotateKey(r) \/ RetryChannel(r) \/ SwitchChannel(r) \/ GiveUp(r)

Conclude(r) ==
    \/ Settle(r) \/ HoldUnknown(r) \/ BillRequest(r) \/ ApplyBill(r) \/ ReleaseBudget(r)
    \/ Clear(r) \/ Rebill(r) \/ FreeKey(r) \/ CutOff(r)

Proceed(r) == Admit(r) \/ Attempt(r) \/ Conclude(r)

NextFlow ==
    /\ \/ \E r \in Requests :
             \/ Arrive(r) \/ Proceed(r) \/ Disconnect(r)
             \/ \E o \in OwnersOf(r) : LapseSlot(r, o)
       \/ \E ch \in Channels : LapseLoad(ch)
    /\ faults' + slips' + misses' <= MaxUpsets

SpecFlow == InitFlow /\ [][NextFlow]_allVars

\* The event loop runs every coroutine; httpx's timeouts end every upstream
\* call, and a stream has a last event; a lease nobody renews expires.  Clients
\* need not come, nor leave.
FairFlow ==
    /\ SpecFlow
    /\ WF_allVars(\E r \in Requests : Proceed(r))
    /\ WF_allVars(\E r \in Requests, o \in Owners : LapseSlot(r, o))

----------------------------------------------------------------------------
(* Properties *)

Places == {"arrive", "keyTokens", "tenantTokens", "reserve", "tenantSlot", "keySlot", "release", "prepare",
           "select", "send", "refused", "upstream", "answered", "ended", "failed", "settle", "bill", "apply",
           "clear", "rebill", "freeKey", "over", "stranded"}

TypeOKFlow ==
    /\ TypeOK
    /\ flow \in [Requests -> [at : Places, cand : Nat, attempt : Nat, rotations : Nat, active : SUBSET Channels,
                              error : Errors, answered : BOOLEAN, finished : BOOLEAN, text : Nat,
                              reported : SUBSET Parts, due : Nat]]
    /\ reserved \in [Requests -> SUBSET Owners] /\ kept \in [Requests -> SUBSET Owners]
    /\ tpm \in [Owners -> Nat] /\ busy \in [Owners -> SUBSET (Requests \cup Others)]
    /\ inflight \in [Channels -> Int] /\ strayed \in [Channels -> Int]
    /\ expiring \subseteq Channels /\ misses \in Nat /\ slips \in Nat

\* Every step of a request is a step of the settlement ledger or none: the
\* proxy, its limits and its retries use the ledger as Settlements assumes.
FollowsLedger == Spec

\* A job (an image, a video) is started at most once, however many keys, tries
\* and channels its request goes through (idempotent=False, never_reached_upstream).
JobStartedOnce == \A r \in Requests \ Idempotent : past[r].started <= 1

\* Once a stream has shown its first event nothing is ever sent upstream again
\* for it ("switches only before the first byte").
NoReplay == [][\A r \in Streams : flow[r].answered =>
    /\ flow'[r].at # "send"
    /\ <<flow'[r].cand, flow'[r].attempt, flow'[r].rotations>>
         = <<flow[r].cand, flow[r].attempt, flow[r].rotations>>]_allVars

\* What may not be repeated is sent once: a job, and a stream that has begun
SentOnce == [][JobStartedOnce']_allVars /\ NoReplay

\* Keys, tries and channels multiply no calls: the candidates a request has come
\* to are called once for each of their keys, and once for each retry, whatever
\* the order in which keys rotate, calls are repeated and channels switch.
Calls(r, i) == KeyCount[Candidates[r][i]] + Retries[Candidates[r][i]]
CallsBounded == \A r \in Requests :
    past[r].sent <= SumFunctionOnSet([i \in 1..Len(Candidates[r]) |-> Calls(r, i)], 1..flow[r].cand)

\* Whatever reached the client is billed: a complete answer, a stream the
\* client left, one that broke, one that ended in an error event; usage is
\* never zero, unless the upstream said so, and text never unpaid.
ForwardedBilled == \A r \in Requests :
    bills[r] > 0 /\ (past[r].told = "answer" \/ (r \in Streams /\ flow[r].answered)) =>
        \/ hist[r].learned = NoCost
        \/ /\ hist[r].learned > 0 /\ hist[r].learned >= flow[r].text
           /\ flow[r].reported = {} => hist[r].learned >= EstimatedInput + flow[r].text

\* The tokens a request that failed over, broke or was refused leaves counted
\* are those it was billed or, its outcome unknown, estimated; while it runs,
\* its estimate.  Only a failed correction leaves more.
Counted(r, o) ==
    IF o \in reserved[r] THEN Estimate
    ELSE IF o \in past[r].counted THEN flow[r].due ELSE 0
TokensExact == slips = 0 =>
    \A o \in Owners : tpm[o] = SumFunctionOnSet([r \in Requests |-> Counted(r, o)], RowsOf(o))

\* The load of a channel is that of the attempts under way, none of which is
\* counted twice or forgotten on any of its ways out, but for what lost updates
\* and expiries put it off by: a lost update by one, an expiry by what the
\* counter stood at.  Nothing else lets it drift: without them it is exact.
LoadAccounted ==
    /\ \A ch \in Channels :
         inflight[ch] = Cardinality({r \in Requests : ch \in flow[r].active}) + strayed[ch]
    /\ misses = 0 => \A ch \in Channels : strayed[ch] = 0

\* What a request leaves in the counters of its key, its tenant and its channels
CountersAccounted == TokensExact /\ LoadAccounted

\* Every request ends, retries, rotations and channels run out, and its
\* concurrency leases are freed or expire; unless an exception stranded it.
\* Requests being finitely many, they all do.
Underway(r) ==
    /\ ~At(r, "arrive") /\ ~At(r, "stranded")
    /\ At(r, "over") => \E o \in OwnersOf(r) : r \in busy[o]
RequestConcludes == (\E r \in Requests : Underway(r)) ~> (\A r \in Requests : ~Underway(r))

\* README: "requests with an unknown upstream outcome keep their reservation
\* until reviewed": whatever failed after the attempt nobody knows the end of.
UnknownKept == \A r \in Requests :
    At(r, "over") /\ past[r].unknown /\ ~flow[r].answered => row[r].state = "uncertain"

=============================================================================
