-------------------------- MODULE RequestFlowProofs --------------------------
(***************************************************************************)
(* The proxy around the ledger only restricts it: every step of a request, *)
(* through its limits, attempts and fail-over to its bill, is a step of    *)
(* Settlements or none.  What is proved of Settlements holds of it.        *)
(* Then: what may not be sent twice is not (NothingSentTwice), counters    *)
(* drift by nothing but lost calls and expiries (CountersStayAccounted),   *)
(* what is forwarded is billed (ForwardedIsBilled), and the loops of       *)
(* fail-over add up (CallsStayBounded).                                    *)
(***************************************************************************)
EXTENDS RequestFlow, LedgerProof

\* A request's own ledger actions are among those of Settlements
LEMMA ServesLedger ==
  ASSUME NEW r \in Requests,
         \/ \E w \in Accepting : Reserve(r, w, Estimate) \/ Deny(r, w, Estimate)
         \/ Refuse(r) \/ ApplyInRequest(r)
         \/ BeforeSend(r) \/ RefuseSend(r) \/ ReleaseLease(r) \/ Abandon(r)
         \/ \E c \in Costs : Bill(r, c) \/ CutShort(r, c)
         \/ BillAgain(r) \/ ApplyFails(r) \/ NoteInRequest(r)
  PROVE  Next
  <1>1. Estimate \in Estimates
    BY FlowAssumption
  <1> QED
    BY <1>1 DEF Next, Serve, Attend

\* Admission reserves, is denied, or refuses before it reserves
LEMMA AdmitStep == ASSUME NEW r \in Requests, Admit(r) PROVE Next \/ UNCHANGED vars
  <1>1. CASE \/ TakeTokens(r, "keyTokens", KeyOf[r], "tenantTokens")
             \/ TakeTokens(r, "tenantTokens", TenantOf[KeyOf[r]], "reserve")
    BY <1>1, ServesLedger DEF TakeTokens
  <1>2. CASE ReserveBudget(r)
    BY <1>2, ServesLedger DEF ReserveBudget
  <1>3. CASE \/ TakeSlot(r, "tenantSlot", TenantOf[KeyOf[r]], "keySlot")
             \/ TakeSlot(r, "keySlot", KeyOf[r], "prepare")
    BY <1>3 DEF TakeSlot
  <1>4. CASE \/ NoSlot(r, "tenantSlot", TenantOf[KeyOf[r]])
             \/ NoSlot(r, "keySlot", KeyOf[r])
    BY <1>4 DEF NoSlot
  <1>5. CASE Strand(r)
    BY <1>5, ServesLedger DEF Strand
  <1>6. CASE Prepare(r)
    BY <1>6 DEF Prepare
  <1> QED
    BY <1>1, <1>2, <1>3, <1>4, <1>5, <1>6 DEF Admit

\* Attempts touch the ledger once, before the first of them
LEMMA AttemptStep == ASSUME NEW r \in Requests, Attempt(r) PROVE Next \/ UNCHANGED vars
  <1>1. CASE Send(r)
    BY <1>1, ServesLedger DEF Send
  <1>2. CASE SelectKey(r) \/ NoProvider(r) \/ Unaccounted(r) \/ Answer(r) \/ Event(r)
    BY <1>2 DEF SelectKey, NoProvider, Unaccounted, Answer, Event
  <1>3. CASE Close(r) \/ Complete(r) \/ Scan(r)
    BY <1>3 DEF Close, Complete, Scan
  <1>4. ASSUME NEW e \in Failing, Break(r, e) \/ ErrorEvent(r, e) PROVE UNCHANGED vars
    BY <1>4 DEF Break, ErrorEvent
  <1>5. CASE RotateKey(r) \/ RetryChannel(r) \/ SwitchChannel(r) \/ GiveUp(r)
    BY <1>5 DEF RotateKey, RetryChannel, SwitchChannel, GiveUp
  <1> QED
    BY <1>1, <1>2, <1>3, <1>4, <1>5 DEF Attempt

\* The end of a request bills, keeps or releases its hold
LEMMA ConcludeStep == ASSUME NEW r \in Requests, Conclude(r) PROVE Next \/ UNCHANGED vars
  <1>1. CASE Settle(r) \/ Clear(r) \/ FreeKey(r)
    BY <1>1 DEF Settle, Clear, FreeKey
  <1>2. CASE HoldUnknown(r)
    BY <1>2, ServesLedger DEF HoldUnknown
  <1>3. CASE BillRequest(r)
    BY <1>3, ServesLedger DEF BillRequest
  <1>4. CASE ApplyBill(r)
    BY <1>4, ServesLedger DEF ApplyBill
  <1>5. CASE ReleaseBudget(r)
    BY <1>5, ServesLedger DEF ReleaseBudget
  <1>6. CASE Rebill(r)
    BY <1>6, ServesLedger DEF Rebill
  <1>7. CASE CutOff(r)
    BY <1>7, ServesLedger DEF CutOff
  <1> QED
    BY <1>1, <1>2, <1>3, <1>4, <1>5, <1>6, <1>7 DEF Conclude

\* No step of a request does to the ledger what Settlements would not
LEMMA FlowStep == [NextFlow]_allVars => [Next]_vars
  <1> SUFFICES ASSUME [NextFlow]_allVars PROVE Next \/ UNCHANGED vars
    OBVIOUS
  <1>1. ASSUME NEW r \in Requests, Arrive(r) \/ Disconnect(r) PROVE Next \/ UNCHANGED vars
    BY <1>1, ServesLedger DEF Arrive, Disconnect
  <1>2. ASSUME NEW r \in Requests, Proceed(r) PROVE Next \/ UNCHANGED vars
    BY <1>2, AdmitStep, AttemptStep, ConcludeStep DEF Proceed
  <1>3. ASSUME NEW r \in Requests, NEW o \in OwnersOf(r), LapseSlot(r, o) PROVE UNCHANGED vars
    BY <1>3 DEF LapseSlot
  <1>4. CASE UNCHANGED allVars
    BY <1>4 DEF allVars
  <1>5. ASSUME NEW ch \in Channels, LapseLoad(ch) PROVE UNCHANGED vars
    BY <1>5 DEF LapseLoad
  <1> QED
    BY <1>1, <1>2, <1>3, <1>4, <1>5 DEF NextFlow

\* Whatever the proxy does, with its limits, retries, broken streams and double
\* bills, it uses the settlement ledger as Settlements assumes.
THEOREM FlowFollowsLedger == SpecFlow => FollowsLedger
  <1>1. InitFlow => Init
    BY DEF InitFlow
  <1> QED
    BY <1>1, FlowStep, PTL DEF SpecFlow, FollowsLedger, Spec

\* So no request, however it ends, frees the hold of work that was sent
THEOREM FlowReleasesNothingSent == SpecFlow => []ReleasedUnsent
  BY FlowFollowsLedger, NothingSentIsReleased, PTL DEF FollowsLedger

\* ... and through all of it the ledger's hold is charged once, or freed
THEOREM FlowImplementsLedger == SpecFlow => ImplementsLedger
  BY FlowFollowsLedger, SettlementsImplementLedger, PTL DEF FollowsLedger

\* ... no quota is oversold, what an owner has used is what its requests were
\* settled at, and usage that was learned is not forgotten.
THEOREM FlowKeepsPromises == SpecFlow => [](QuotaBound /\ LedgerBalanced /\ UsageKept)
  BY FlowFollowsLedger, NeverOversold, UsedIsWhatIsSettled, UsageStaysKnown, PTL DEF FollowsLedger

----------------------------------------------------------------------------
(* What may not be repeated is sent once.  No failure after which a job may *)
(* have started lets its request rotate, retry or switch (Over), and no     *)
(* stream that has begun is back where an attempt begins.                   *)

\* Places before anything was sent upstream
Before == {"arrive", "keyTokens", "tenantTokens", "reserve", "tenantSlot", "keySlot", "prepare", "select"}

\* Types of the records of a request
FlowRecord == [at : Places, cand : Nat, attempt : Nat, rotations : Nat, active : SUBSET Channels,
               error : Errors, answered : BOOLEAN, finished : BOOLEAN, text : Nat,
               reported : SUBSET Parts, due : Nat]
PastRecord == [sent : Nat, started : Nat, unknown : BOOLEAN, told : {"nothing", "answer", "error", "gone"},
               counted : SUBSET Owners]

\* A failure that ends the request: the upstream may have begun, and its key
\* is not to blame
Over(e) == ~NeverReached(e) /\ e.status \notin KeyStatuses

\* What is kept of a request whose flow is f and whose history is p
Careful(r, f, p) ==
    /\ f \in FlowRecord /\ p \in PastRecord
    /\ f.cand \in 1..Len(Candidates[r])
    /\ r \in Streams /\ f.at \in Before \cup {"send"} => ~f.answered
    /\ r \notin Idempotent =>
          /\ p.started <= 1
          /\ f.at \in Before \cup {"send", "upstream"} => p.started = 0
          /\ f.at = "failed" => p.started = 0 \/ Over(f.error)

\* So it is for every request
FlowInv ==
    /\ flow \in [Requests -> FlowRecord] /\ past \in [Requests -> PastRecord]
    /\ \A r \in Requests : Careful(r, flow[r], past[r])

\* No step sends again for a stream that has begun, nor goes to another
\* candidate, attempt or key
NoneReplayed == \A r \in Streams : flow[r].answered =>
    /\ flow'[r].at # "send"
    /\ <<flow'[r].cand, flow'[r].attempt, flow'[r].rotations>>
         = <<flow[r].cand, flow[r].attempt, flow[r].rotations>>

\* A stream that has begun goes on with what it has
GoesOn(r, f) == r \in Streams /\ flow[r].answered =>
    /\ f.at # "send" /\ f.cand = flow[r].cand /\ f.attempt = flow[r].attempt /\ f.rotations = flow[r].rotations

\* What every step is shown to do
Good == FlowInv' /\ NoneReplayed

\* A step that changes the records of one request is good if they are careful
\* and a stream goes on.
LEMMA OneMoves ==
    ASSUME FlowInv, NEW r \in Requests, NEW f, NEW p,
           flow' = [flow EXCEPT ![r] = f], past' = [past EXCEPT ![r] = p],
           Careful(r, f, p), GoesOn(r, f)
    PROVE  Good
  <1>1. flow'[r] = f /\ past'[r] = p
    BY DEF FlowInv
  <1>2. \A q \in Requests \ {r} : flow'[q] = flow[q] /\ past'[q] = past[q]
    BY DEF FlowInv
  <1>3. flow' \in [Requests -> FlowRecord] /\ past' \in [Requests -> PastRecord]
    BY DEF FlowInv, Careful
  <1>4. \A q \in Requests : Careful(q, flow'[q], past'[q])
    BY <1>1, <1>2 DEF FlowInv
  <1>5. FlowInv'
    BY <1>3, <1>4 DEF FlowInv, Careful, FlowRecord, PastRecord
  <1>6. NoneReplayed
    <2> SUFFICES ASSUME NEW q \in Streams, flow[q].answered
                 PROVE  /\ flow'[q].at # "send"
                        /\ <<flow'[q].cand, flow'[q].attempt, flow'[q].rotations>>
                             = <<flow[q].cand, flow[q].attempt, flow[q].rotations>>
      BY DEF NoneReplayed
    <2>1. CASE q = r
      BY <1>1, <2>1 DEF GoesOn
    <2>2. CASE q # r /\ q \in Requests
      <3>1. flow'[q] = flow[q]
        BY <1>2, <2>2
      <3>2. flow[q].at # "send"
        BY <2>2 DEF FlowInv, Careful
      <3> QED
        BY <3>1, <3>2
    <2> QED
      BY <2>1, <2>2, FlowAssumption
  <1> QED
    BY <1>5, <1>6 DEF Good

\* A step that changes no records is good.
LEMMA Unmoved == ASSUME FlowInv, UNCHANGED <<flow, past>> PROVE Good
  <1>1. FlowInv'
    BY DEF FlowInv, Careful, FlowRecord, PastRecord
  <1>2. NoneReplayed
    BY FlowAssumption DEF NoneReplayed, FlowInv, Careful
  <1> QED
    BY <1>1, <1>2 DEF Good

\* A request goes to a place where no attempt begins, and may be told something
LEMMA StepGood ==
    ASSUME FlowInv, NEW r \in Requests, NEW place \in Places, Step(r, place),
           \/ UNCHANGED past
           \/ \E what \in {"nothing", "answer", "error", "gone"} : Tell(r, what),
           place \notin {"send", "failed"},
           place \in Before \cup {"upstream"} => flow[r].at \in Before
    PROVE  Good
  <1> DEFINE f == [flow[r] EXCEPT !.at = place]
  <1>1. flow[r] \in FlowRecord /\ past[r] \in PastRecord /\ Careful(r, flow[r], past[r])
    BY DEF FlowInv
  <1>2. /\ f \in FlowRecord /\ f.at = place /\ f.answered = flow[r].answered /\ f.error = flow[r].error
        /\ f.cand = flow[r].cand /\ f.attempt = flow[r].attempt /\ f.rotations = flow[r].rotations
    BY <1>1 DEF FlowRecord
  <1>3. flow' = [flow EXCEPT ![r] = f]
    BY DEF Step
  <1>4. PICK p \in PastRecord : past' = [past EXCEPT ![r] = p] /\ p.started = past[r].started
    <2>1. CASE UNCHANGED past
      BY <1>1, <2>1 DEF FlowInv
    <2>2. ASSUME NEW what \in {"nothing", "answer", "error", "gone"}, Tell(r, what)
          PROVE  \E p \in PastRecord : past' = [past EXCEPT ![r] = p] /\ p.started = past[r].started
      <3>1. past' = [past EXCEPT ![r] = [past[r] EXCEPT !.told = what]]
        BY <2>2 DEF Tell
      <3>2. [past[r] EXCEPT !.told = what] \in PastRecord /\ [past[r] EXCEPT !.told = what].started = past[r].started
        BY <1>1 DEF PastRecord
      <3> QED
        BY <3>1, <3>2
    <2> QED
      BY <2>1, <2>2
  <1> HIDE DEF f
  <1>5. Careful(r, f, p)
    BY <1>1, <1>2, <1>4 DEF Careful, Before
  <1>6. GoesOn(r, f)
    BY <1>2 DEF GoesOn
  <1> QED
    BY <1>3, <1>4, <1>5, <1>6, OneMoves

\* A request goes on with another record, and may be told something
LEMMA BecomeGood ==
    ASSUME FlowInv, NEW r \in Requests, NEW f \in FlowRecord, Become(r, f),
           \/ UNCHANGED past
           \/ \E what \in {"nothing", "answer", "error", "gone"} : Tell(r, what),
           f.cand \in 1..Len(Candidates[r]),
           r \in Streams /\ f.at \in Before \cup {"send"} => ~f.answered,
           GoesOn(r, f),
           r \notin Idempotent =>
              /\ f.at \in Before \cup {"send", "upstream"} => past[r].started = 0
              /\ f.at = "failed" => past[r].started = 0 \/ Over(f.error)
    PROVE  Good
  <1>1. past[r] \in PastRecord /\ Careful(r, flow[r], past[r])
    BY DEF FlowInv
  <1>2. flow' = [flow EXCEPT ![r] = f]
    BY DEF Become
  <1>3. PICK p \in PastRecord : past' = [past EXCEPT ![r] = p] /\ p.started = past[r].started
    <2>1. CASE UNCHANGED past
      BY <1>1, <2>1 DEF FlowInv
    <2>2. ASSUME NEW what \in {"nothing", "answer", "error", "gone"}, Tell(r, what)
          PROVE  \E p \in PastRecord : past' = [past EXCEPT ![r] = p] /\ p.started = past[r].started
      <3>1. past' = [past EXCEPT ![r] = [past[r] EXCEPT !.told = what]]
        BY <2>2 DEF Tell
      <3>2. [past[r] EXCEPT !.told = what] \in PastRecord /\ [past[r] EXCEPT !.told = what].started = past[r].started
        BY <1>1 DEF PastRecord
      <3> QED
        BY <3>1, <3>2
    <2> QED
      BY <2>1, <2>2
  <1>4. Careful(r, f, p)
    BY <1>1, <1>3 DEF Careful
  <1> QED
    BY <1>2, <1>3, <1>4, OneMoves

\* An attempt fails with e, and perhaps has started the job
LEMMA AttemptedGood ==
    ASSUME FlowInv, NEW r \in Requests, NEW f \in FlowRecord, NEW e, Become(r, f), Attempted(r, e),
           flow[r].at = "upstream", f.at = "failed", f.cand = flow[r].cand,
           f.attempt = flow[r].attempt, f.rotations = flow[r].rotations,
           r \notin Idempotent => (MayHaveStarted(e) => Over(f.error))
    PROVE  Good
  <1>1. past[r] \in PastRecord /\ Careful(r, flow[r], past[r])
    BY DEF FlowInv
  <1>2. flow' = [flow EXCEPT ![r] = f]
    BY DEF Become
  <1> DEFINE p == [past[r] EXCEPT !.started = past[r].started + (IF MayHaveStarted(e) THEN 1 ELSE 0),
                                  !.unknown = past[r].unknown \/ OutcomeUncertain(e)]
  <1>3. past' = [past EXCEPT ![r] = p]
    BY DEF Attempted
  <1>4. p \in PastRecord /\ p.started = past[r].started + (IF MayHaveStarted(e) THEN 1 ELSE 0)
    <2>1. (past[r].unknown \/ OutcomeUncertain(e)) \in BOOLEAN
      OBVIOUS
    <2>2. past[r].started + (IF MayHaveStarted(e) THEN 1 ELSE 0) \in Nat
      <3>1. past[r].started \in Nat
        BY <1>1 DEF PastRecord
      <3> QED
        BY <3>1
    <2> QED
      BY <1>1, <2>1, <2>2 DEF PastRecord
  <1> HIDE DEF p
  <1>5. past[r].started \in Nat
    BY <1>1 DEF PastRecord
  <1>6. Careful(r, f, p)
    BY <1>1, <1>4, <1>5 DEF Careful, Before
  <1>7. GoesOn(r, f)
    BY DEF GoesOn
  <1> QED
    BY <1>2, <1>3, <1>6, <1>7, OneMoves

\* A failure after which the job may run is none that lets a request go on
LEMMA StartedIsOver ==
    ASSUME NEW e \in Failing, ~e.event, MayHaveStarted(e)
    PROVE  Over(e)
  <1>1. e.status \in Nat /\ (e.class # "HTTPStatusError" => e.status = 0)
    BY FailureAssumption
  <1>2. CASE e = Unexpected
    BY <1>2 DEF Unexpected, Plain, Over, NeverReached, IsCredential, KeyStatuses, CredentialStatuses
  <1>3. CASE OutcomeUncertain(e)
    <2>1. e.class \in {"ReadTimeout", "WriteTimeout", "ReadError", "WriteError", "RemoteProtocolError"}
      BY <1>3 DEF OutcomeUncertain
    <2>2. e.status = 0
      BY <1>1, <2>1
    <2> QED
      BY <2>1, <2>2 DEF Over, NeverReached, IsCredential, KeyStatuses, CredentialStatuses
  <1>4. CASE e.status >= 500
    <2>1. e.class = "HTTPStatusError"
      BY <1>1, <1>4
    <2> QED
      BY <1>1, <1>4, <2>1 DEF Over, NeverReached, IsCredential, KeyStatuses, CredentialStatuses
  <1> QED
    BY <1>2, <1>3, <1>4 DEF MayHaveStarted

\* The actions of a request, one after the other.  Admission sends nothing,
LEMMA AdmitGood == ASSUME FlowInv, NEW r \in Requests, Admit(r) PROVE Good
  <1>1. CASE TakeTokens(r, "keyTokens", KeyOf[r], "tenantTokens")
    BY <1>1, StepGood DEF TakeTokens, At, Places, Before
  <1>2. CASE TakeTokens(r, "tenantTokens", TenantOf[KeyOf[r]], "reserve")
    BY <1>2, StepGood DEF TakeTokens, At, Places, Before
  <1>3. CASE ReserveBudget(r)
    BY <1>3, StepGood DEF ReserveBudget, At, Places, Before
  <1>4. CASE TakeSlot(r, "tenantSlot", TenantOf[KeyOf[r]], "keySlot")
    BY <1>4, StepGood DEF TakeSlot, At, Places, Before
  <1>5. CASE TakeSlot(r, "keySlot", KeyOf[r], "prepare")
    BY <1>5, StepGood DEF TakeSlot, At, Places, Before
  <1>6. CASE NoSlot(r, "tenantSlot", TenantOf[KeyOf[r]]) \/ NoSlot(r, "keySlot", KeyOf[r])
    BY <1>6, StepGood DEF NoSlot, Places, Before
  <1>7. CASE Strand(r)
    BY <1>7, StepGood DEF Strand, Places, Before
  <1>8. CASE Prepare(r)
    BY <1>8, StepGood DEF Prepare, At, Places, Before
  <1> QED
    BY <1>1, <1>2, <1>3, <1>4, <1>5, <1>6, <1>7, <1>8 DEF Admit

\* What is known of a request, for the actions that change its record
LEMMA Knows ==
    ASSUME FlowInv, NEW r \in Requests
    PROVE  /\ flow[r] \in FlowRecord /\ past[r] \in PastRecord
           /\ flow[r].cand \in 1..Len(Candidates[r]) /\ Channel(r) \in Channels
           /\ Candidates[r] \in Seq(Channels)
           /\ r \in Streams /\ flow[r].at \in Before \cup {"send"} => ~flow[r].answered
           /\ r \notin Idempotent =>
                 /\ r \notin Streams /\ past[r].started \in Nat /\ past[r].started <= 1
                 /\ flow[r].at \in Before \cup {"send", "upstream"} => past[r].started = 0
                 /\ flow[r].at = "failed" => past[r].started = 0 \/ Over(flow[r].error)
  <1>1. Careful(r, flow[r], past[r])
    BY DEF FlowInv
  <1>2. Candidates[r] \in Seq(Channels)
    BY FlowAssumption
  <1>3. Channel(r) \in Channels
    BY <1>1, <1>2 DEF Careful, Channel
  <1> QED
    BY <1>1, <1>2, <1>3, FlowAssumption DEF Careful, PastRecord

\* nor does the choice of a key;
LEMMA SelectGood == ASSUME FlowInv, NEW r \in Requests, SelectKey(r) \/ NoProvider(r) PROVE Good
  <1>1. /\ flow[r].at = "select" /\ (UNCHANGED past \/ Tell(r, "error"))
        /\ flow[r].at \in Before
    BY DEF SelectKey, NoProvider, At, Before
  <1>2. ASSUME Become(r, [flow[r] EXCEPT !.at = "send", !.attempt = 0, !.rotations = 0]) PROVE Good
    <2> DEFINE f == [flow[r] EXCEPT !.at = "send", !.attempt = 0, !.rotations = 0]
    <2>1. /\ f \in FlowRecord /\ f.at = "send" /\ f.cand = flow[r].cand /\ f.answered = flow[r].answered
      BY Knows, ZenonT(60) DEF FlowRecord, Places
    <2> HIDE DEF f
    <2>2. Become(r, f)
      BY <1>2 DEF f
    <2> QED
      BY <1>1, <2>1, <2>2, Knows, BecomeGood DEF GoesOn, Before
  <1>3. ASSUME NEW e \in Errors, Become(r, [flow[r] EXCEPT !.at = "failed", !.error = e]) PROVE Good
    <2> DEFINE f == [flow[r] EXCEPT !.at = "failed", !.error = e]
    <2>1. /\ f \in FlowRecord /\ f.at = "failed" /\ f.cand = flow[r].cand /\ f.answered = flow[r].answered
      BY Knows, ZenonT(60) DEF FlowRecord, Places
    <2> HIDE DEF f
    <2>2. Become(r, f)
      BY <1>3 DEF f
    <2> QED
      BY <1>1, <2>1, <2>2, Knows, BecomeGood DEF GoesOn, Before
  <1>4. ASSUME Step(r, "release"), Tell(r, "error") PROVE Good
    BY <1>4, StepGood DEF Places, Before
  <1>5. Unexpected \in Errors
    BY DEF Errors
  <1> QED
    BY <1>2, <1>3, <1>4, <1>5 DEF SelectKey, NoProvider

\* a request is sent from select, when nothing was sent that may not be
\* repeated,
LEMMA SendGood == ASSUME FlowInv, NEW r \in Requests, Send(r) PROVE Good
  <1> DEFINE place == IF phase'[r] = "refused" THEN "refused" ELSE "upstream"
             sent == past[r].sent + (IF phase'[r] = "refused" THEN 0 ELSE 1)
             f == [flow[r] EXCEPT !.at = place, !.active = {Channel(r)}]
             p == [past[r] EXCEPT !.sent = sent]
  <1>1. flow[r].at = "send" /\ past' = [past EXCEPT ![r] = p] /\ flow' = [flow EXCEPT ![r] = f]
    BY DEF Send, At, Become
  <1>2. place \in {"refused", "upstream"} /\ sent \in Nat
    <2>1. past[r].sent \in Nat
      BY Knows DEF PastRecord
    <2> QED
      BY <2>1
  <1> HIDE DEF place, sent
  <1>3. /\ f \in FlowRecord /\ f.at = place /\ f.cand = flow[r].cand /\ f.answered = flow[r].answered
        /\ f.attempt = flow[r].attempt /\ f.rotations = flow[r].rotations
    BY <1>2, Knows, ZenonT(60) DEF FlowRecord, Places
  <1>4. p \in PastRecord /\ p.started = past[r].started
    BY <1>2, Knows DEF PastRecord
  <1> HIDE DEF f, p
  <1>5. Careful(r, f, p)
    BY <1>1, <1>2, <1>3, <1>4, Knows DEF Careful, Before
  <1>6. GoesOn(r, f)
    BY <1>1, <1>2, <1>3, Knows DEF GoesOn, Before
  <1> QED
    BY <1>1, <1>5, <1>6, OneMoves

\* a refusal by the ledger comes before that,
LEMMA RefusedGood == ASSUME FlowInv, NEW r \in Requests, Unaccounted(r) PROVE Good
  <1>1. Tell(r, "error")
    BY DEF Unaccounted
  <1>2. CASE Step(r, "settle")
    BY <1>1, <1>2, StepGood DEF Places, Before
  <1>3. CASE Become(r, [flow[r] EXCEPT !.at = "release", !.active = {}])
    <2> DEFINE f == [flow[r] EXCEPT !.at = "release", !.active = {}]
    <2>1. /\ f \in FlowRecord /\ f.at = "release" /\ f.cand = flow[r].cand
          /\ f.attempt = flow[r].attempt /\ f.rotations = flow[r].rotations
      BY Knows, ZenonT(60) DEF FlowRecord, Places
    <2> HIDE DEF f
    <2>2. Become(r, f)
      BY <1>3 DEF f
    <2> QED
      BY <1>1, <2>1, <2>2, Knows, BecomeGood DEF GoesOn, Before
  <1> QED
    BY <1>2, <1>3 DEF Unaccounted

\* an answer may have started the job,
LEMMA AnswerGood == ASSUME FlowInv, NEW r \in Requests, Answer(r) PROVE Good
  <1>1. PICK reported \in SUBSET Parts, n \in 0..MaxText :
            Become(r, [flow[r] EXCEPT !.at = "answered", !.answered = TRUE, !.finished = TRUE,
                          !.reported = reported, !.text = n, !.active = {}])
    BY DEF Answer
  <1> DEFINE f == [flow[r] EXCEPT !.at = "answered", !.answered = TRUE, !.finished = TRUE,
                          !.reported = reported, !.text = n, !.active = {}]
             p == [past[r] EXCEPT !.started = past[r].started + 1]
  <1>2. n \in Nat
    BY FlowAssumption
  <1>3. f \in FlowRecord /\ f.at = "answered" /\ f.cand = flow[r].cand
    BY <1>2, Knows, ZenonT(60) DEF FlowRecord, Places
  <1>4. p \in PastRecord /\ p.started = past[r].started + 1 /\ past[r].started \in Nat
    BY Knows DEF PastRecord
  <1>5. flow' = [flow EXCEPT ![r] = f] /\ past' = [past EXCEPT ![r] = p] /\ r \notin Streams /\ flow[r].at = "upstream"
    BY <1>1 DEF Become, Answer, At
  <1> HIDE DEF f, p
  <1>6. Careful(r, f, p) /\ GoesOn(r, f)
    BY <1>3, <1>4, <1>5, Knows DEF Careful, GoesOn, Before
  <1> QED
    BY <1>5, <1>6, OneMoves

\* a failure is one after which it may have started, or one that was never
\* reached,
LEMMA BreakGood ==
    ASSUME FlowInv, NEW r \in Requests, NEW e \in Failing, Break(r, e) \/ ErrorEvent(r, e)
    PROVE  Good
  <1>0. e \in Errors /\ flow[r].at = "upstream" /\ Attempted(r, e)
    BY DEF Errors, Break, ErrorEvent, At
  <1>1. CASE Break(r, e)
    <2> DEFINE active == IF r \in Streams THEN flow[r].active ELSE {}
               f == [flow[r] EXCEPT !.at = "failed", !.error = e, !.active = active]
    <2>1. Become(r, f)
      BY <1>1 DEF Break
    <2>2. active \in SUBSET Channels
      BY Knows DEF FlowRecord
    <2> HIDE DEF active
    <2>3. /\ f \in FlowRecord /\ f.at = "failed" /\ f.error = e /\ f.cand = flow[r].cand
          /\ f.attempt = flow[r].attempt /\ f.rotations = flow[r].rotations
      BY <1>0, <2>2, Knows, ZenonT(60) DEF FlowRecord, Places
    <2> HIDE DEF f
    <2>4. MayHaveStarted(e) => Over(f.error)
      BY <1>1, <2>3, StartedIsOver DEF Break
    <2> QED
      BY <1>0, <2>1, <2>3, <2>4, AttemptedGood
  <1>2. CASE ErrorEvent(r, e)
    <2> DEFINE f == [flow[r] EXCEPT !.at = "failed", !.error = e, !.answered = TRUE]
    <2>1. Become(r, f) /\ r \in Streams
      BY <1>2 DEF ErrorEvent
    <2>2. /\ f \in FlowRecord /\ f.at = "failed" /\ f.error = e /\ f.cand = flow[r].cand
          /\ f.attempt = flow[r].attempt /\ f.rotations = flow[r].rotations
      BY <1>0, Knows, ZenonT(60) DEF FlowRecord, Places
    <2> HIDE DEF f
    <2> QED
      BY <1>0, <2>1, <2>2, AttemptedGood, Knows
  <1> QED
    BY <1>1, <1>2

\* an answer that ends is not sent again,
LEMMA CloseGood == ASSUME FlowInv, NEW r \in Requests, Close(r) PROVE Good
  <1>1. CASE Step(r, "ended") /\ UNCHANGED past
    BY <1>1, StepGood DEF Places, Before
  <1>2. CASE Become(r, [flow[r] EXCEPT !.at = "failed", !.error = Unfinished]) /\ Attempted(r, Unfinished)
    <2> DEFINE f == [flow[r] EXCEPT !.at = "failed", !.error = Unfinished]
    <2>1. Become(r, f) /\ r \in Streams /\ flow[r].at = "upstream" /\ Unfinished \in Errors
      BY <1>2 DEF Close, At, Errors
    <2>2. /\ f \in FlowRecord /\ f.at = "failed" /\ f.cand = flow[r].cand
          /\ f.attempt = flow[r].attempt /\ f.rotations = flow[r].rotations
      BY <2>1, Knows, ZenonT(60) DEF FlowRecord, Places
    <2> HIDE DEF f
    <2> QED
      BY <1>2, <2>1, <2>2, AttemptedGood, Knows
  <1> QED
    BY <1>1, <1>2 DEF Close

\* nor is a stream that goes on.
LEMMA EventGood == ASSUME FlowInv, NEW r \in Requests, Event(r) PROVE Good
  <1>1. UNCHANGED past /\ flow[r].at = "upstream" /\ r \in Streams
    BY DEF Event, At
  <1>2. ASSUME NEW n \in 0..1, NEW reported \in SUBSET Parts, NEW finished \in BOOLEAN,
               Become(r, [flow[r] EXCEPT !.answered = TRUE, !.text = flow[r].text + n,
                             !.reported = flow[r].reported \cup reported, !.finished = flow[r].finished \/ finished])
        PROVE  Good
    <2> DEFINE text == flow[r].text + n
               parts == flow[r].reported \cup reported
               ended == flow[r].finished \/ finished
               f == [flow[r] EXCEPT !.answered = TRUE, !.text = text, !.reported = parts, !.finished = ended]
    <2>1. text \in Nat
      <3>1. flow[r].text \in Nat
        BY Knows DEF FlowRecord
      <3> QED
        BY <3>1
    <2>2. parts \in SUBSET Parts /\ ended \in BOOLEAN
      BY Knows DEF FlowRecord
    <2>3. Become(r, f)
      BY <1>2
    <2> HIDE DEF text, parts, ended
    <2>4. /\ f \in FlowRecord /\ f.at = flow[r].at /\ f.cand = flow[r].cand
          /\ f.attempt = flow[r].attempt /\ f.rotations = flow[r].rotations
      BY <2>1, <2>2, Knows DEF FlowRecord
    <2> HIDE DEF f
    <2> QED
      BY <1>1, <2>3, <2>4, Knows, BecomeGood DEF GoesOn, Before
  <1>3. ASSUME Become(r, [flow[r] EXCEPT !.at = "ended", !.answered = TRUE, !.finished = TRUE]) PROVE Good
    <2> DEFINE f == [flow[r] EXCEPT !.at = "ended", !.answered = TRUE, !.finished = TRUE]
    <2>1. /\ f \in FlowRecord /\ f.at = "ended" /\ f.cand = flow[r].cand
          /\ f.attempt = flow[r].attempt /\ f.rotations = flow[r].rotations
      BY Knows, ZenonT(60) DEF FlowRecord, Places
    <2> HIDE DEF f
    <2>2. Become(r, f)
      BY <1>3 DEF f
    <2> QED
      BY <1>1, <2>1, <2>2, Knows, BecomeGood DEF GoesOn, Before
  <1> QED
    BY <1>2, <1>3 DEF Event

\* Only what can be repeated is: a failure the job cannot have survived, and a
\* stream that has not begun
LEMMA AgainGood == ASSUME FlowInv, NEW r \in Requests, RotateKey(r) \/ RetryChannel(r) \/ SwitchChannel(r) PROVE Good
  <1>1. /\ flow[r].at = "failed" /\ UNCHANGED past /\ (r \in Streams => ~flow[r].answered)
        /\ r \notin Idempotent => ~Over(flow[r].error)
    BY Knows DEF RotateKey, RetryChannel, SwitchChannel, At, CanRotate, CanRetry, CanSwitch, Repeatable, Error, Over
  <1>2. /\ flow[r] \in FlowRecord /\ NoError \in Errors /\ flow[r].cand \in Nat
        /\ flow[r].rotations + 1 \in Nat /\ flow[r].attempt + 1 \in Nat /\ flow[r].cand + 1 \in Nat
    <2>1. flow[r] \in FlowRecord
      BY Knows
    <2>2. flow[r].cand \in Nat /\ flow[r].attempt \in Nat /\ flow[r].rotations \in Nat
      BY <2>1 DEF FlowRecord
    <2> QED
      BY <2>1, <2>2 DEF Errors
  <1>3. ASSUME NEW f \in FlowRecord, Become(r, f), f.at \in {"send", "select"}, f.cand \in 1..Len(Candidates[r]),
               f.answered = flow[r].answered
        PROVE  Good
    BY <1>1, <1>3, Knows, BecomeGood DEF GoesOn, Before
  <1>4. CASE RotateKey(r)
    <2> DEFINE rotations == flow[r].rotations + 1
               f == [flow[r] EXCEPT !.at = "send", !.error = NoError, !.rotations = rotations]
    <2>1. Become(r, f)
      BY <1>4 DEF RotateKey
    <2>2. rotations \in Nat
      BY <1>2
    <2> HIDE DEF rotations
    <2>3. f \in FlowRecord /\ f.at = "send" /\ f.cand = flow[r].cand /\ f.answered = flow[r].answered
      BY <1>2, <2>2 DEF FlowRecord, Places
    <2> HIDE DEF f
    <2> QED
      BY <1>3, <2>1, <2>3, Knows
  <1>5. CASE RetryChannel(r)
    <2> DEFINE attempt == flow[r].attempt + 1
               f == [flow[r] EXCEPT !.at = "send", !.error = NoError, !.attempt = attempt]
    <2>1. Become(r, f)
      BY <1>5 DEF RetryChannel
    <2>2. attempt \in Nat
      BY <1>2
    <2> HIDE DEF attempt
    <2>3. f \in FlowRecord /\ f.at = "send" /\ f.cand = flow[r].cand /\ f.answered = flow[r].answered
      BY <1>2, <2>2 DEF FlowRecord, Places
    <2> HIDE DEF f
    <2> QED
      BY <1>3, <2>1, <2>3, Knows
  <1>6. CASE SwitchChannel(r)
    <2> DEFINE cand == flow[r].cand + 1
               f == [flow[r] EXCEPT !.at = "select", !.error = NoError, !.cand = cand]
    <2>1. Become(r, f) /\ flow[r].cand < Len(Candidates[r])
      BY <1>6 DEF SwitchChannel, CanSwitch
    <2>2. cand \in Nat /\ cand \in 1..Len(Candidates[r])
      <3>1. Len(Candidates[r]) \in Nat
        BY Knows
      <3> QED
        BY <1>2, <2>1, <3>1, Knows
    <2> HIDE DEF cand
    <2>3. f \in FlowRecord /\ f.at = "select" /\ f.cand = cand /\ f.answered = flow[r].answered
      BY <1>2, <2>2 DEF FlowRecord, Places
    <2> HIDE DEF f
    <2> QED
      BY <1>3, <2>1, <2>2, <2>3
  <1> QED
    BY <1>4, <1>5, <1>6

\* A failure is the end of a request, or its answer is found unfit
LEMMA EndGood == ASSUME FlowInv, NEW r \in Requests, GiveUp(r) \/ Scan(r) \/ Complete(r) PROVE Good
  <1>1. ASSUME Step(r, "settle") \/ Step(r, "bill"), Tell(r, "error") \/ Tell(r, "answer") PROVE Good
    BY <1>1, StepGood DEF Places, Before
  <1>2. CASE Become(r, [flow[r] EXCEPT !.at = "bill", !.answered = FALSE, !.text = 0, !.reported = {}]) /\ Tell(r, "error")
    <2> DEFINE f == [flow[r] EXCEPT !.at = "bill", !.answered = FALSE, !.text = 0, !.reported = {}]
    <2>1. /\ f \in FlowRecord /\ f.at = "bill" /\ f.cand = flow[r].cand
          /\ f.attempt = flow[r].attempt /\ f.rotations = flow[r].rotations
      BY Knows, ZenonT(60) DEF FlowRecord, Places
    <2> HIDE DEF f
    <2>2. Become(r, f)
      BY <1>2 DEF f
    <2> QED
      BY <1>2, <2>1, <2>2, Knows, BecomeGood DEF GoesOn, Before
  <1>3. CASE flow[r].at = "answered" /\ UNCHANGED past
             /\ Become(r, [flow[r] EXCEPT !.at = "failed", !.error = Unexpected])
    <2> DEFINE f == [flow[r] EXCEPT !.at = "failed", !.error = Unexpected]
    <2>1. /\ f \in FlowRecord /\ f.at = "failed" /\ f.error = Unexpected /\ f.cand = flow[r].cand
          /\ f.attempt = flow[r].attempt /\ f.rotations = flow[r].rotations
      BY Knows, ZenonT(60) DEF FlowRecord, Places, Errors
    <2> HIDE DEF f
    <2>2. Become(r, f)
      BY <1>3 DEF f
    <2>3. Over(f.error)
      BY <2>1 DEF Over, NeverReached, IsCredential, KeyStatuses, CredentialStatuses, Unexpected, Plain
    <2> QED
      BY <1>3, <2>1, <2>2, <2>3, Knows, BecomeGood DEF GoesOn, Before
  <1> QED
    BY <1>1, <1>2, <1>3 DEF GiveUp, Scan, Complete, At

\* All steps of an attempt are good.
LEMMA AttemptGood == ASSUME FlowInv, NEW r \in Requests, Attempt(r) PROVE Good
  BY SelectGood, SendGood, RefusedGood, AnswerGood, EventGood, CloseGood, BreakGood, AgainGood, EndGood DEF Attempt

\* From its bill on no attempt begins
LEMMA SettleGood ==
    ASSUME FlowInv, NEW r \in Requests, Settle(r) \/ HoldUnknown(r) \/ BillRequest(r) \/ ReleaseBudget(r)
    PROVE  Good
  <1>1. UNCHANGED past
    BY DEF Settle, HoldUnknown, BillRequest, ReleaseBudget
  <1>2. flow[r] \in FlowRecord
    BY Knows
  <1>3. Estimate \in Nat
    BY FlowAssumption DEF Estimate
  <1>4. Charge(r) \in Nat
    <2>1. /\ flow[r].text \in Nat /\ ReportedInput \in Nat /\ ReportedOutput \in Nat /\ EstimatedInput \in Nat
      BY <1>2, FlowAssumption DEF FlowRecord
    <2> QED
      BY <2>1 DEF Charge
  <1>5. CASE Become(r, [flow[r] EXCEPT !.at = "bill", !.active = {}])
    <2> DEFINE f == [flow[r] EXCEPT !.at = "bill", !.active = {}]
    <2>1. /\ f \in FlowRecord /\ f.at = "bill" /\ f.cand = flow[r].cand
          /\ f.attempt = flow[r].attempt /\ f.rotations = flow[r].rotations
      BY <1>2 DEF FlowRecord, Places
    <2> HIDE DEF f
    <2>2. Become(r, f)
      BY <1>5 DEF f
    <2> QED
      BY <1>1, <2>1, <2>2, Knows, BecomeGood DEF GoesOn, Before
  <1>6. ASSUME NEW due \in Nat, NEW place \in {"apply", "clear"}, Become(r, [flow[r] EXCEPT !.at = place, !.due = due])
        PROVE  Good
    <2> DEFINE f == [flow[r] EXCEPT !.at = place, !.due = due]
    <2>1. /\ f \in FlowRecord /\ f.at = place /\ f.cand = flow[r].cand
          /\ f.attempt = flow[r].attempt /\ f.rotations = flow[r].rotations
      BY <1>2 DEF FlowRecord, Places
    <2> HIDE DEF f
    <2>2. Become(r, f)
      BY <1>6 DEF f
    <2> QED
      BY <1>1, <2>1, <2>2, Knows, BecomeGood DEF GoesOn, Before
  <1>7. CASE Step(r, "clear")
    BY <1>1, <1>7, StepGood DEF Places, Before
  <1> QED
    BY <1>3, <1>4, <1>5, <1>6, <1>7 DEF Settle, HoldUnknown, BillRequest, ReleaseBudget

\* Requests reserve tokens of owners
Reserving == reserved \in [Requests -> SUBSET Owners]

\* The end of a request sends nothing:
LEMMA ClearGood == ASSUME FlowInv, Reserving, NEW r \in Requests, Clear(r) PROVE Good
  <1>1. PICK missed \in SUBSET reserved[r] : past' = [past EXCEPT ![r].counted = past[r].counted \cup (reserved[r] \ missed)]
    BY DEF Clear
  <1> DEFINE counted == past[r].counted \cup (reserved[r] \ missed)
             place == IF phase[r] = "rebill" /\ flow[r].answered THEN "rebill" ELSE "freeKey"
             f == [flow[r] EXCEPT !.at = place]
             p == [past[r] EXCEPT !.counted = counted]
  <1>2. flow' = [flow EXCEPT ![r] = f] /\ past' = [past EXCEPT ![r] = p]
    BY <1>1 DEF Clear, Step
  <1>3. counted \in SUBSET Owners /\ place \in {"rebill", "freeKey"}
    BY Knows DEF PastRecord, Reserving
  <1> HIDE DEF counted, place
  <1>4. /\ f \in FlowRecord /\ f.at = place /\ f.cand = flow[r].cand
        /\ f.attempt = flow[r].attempt /\ f.rotations = flow[r].rotations
    BY <1>3, Knows DEF FlowRecord, Places
  <1>5. p \in PastRecord /\ p.started = past[r].started
    BY <1>3, Knows DEF PastRecord
  <1> HIDE DEF f, p
  <1>6. Careful(r, f, p) /\ GoesOn(r, f)
    BY <1>3, <1>4, <1>5, Knows DEF Careful, GoesOn, Before
  <1> QED
    BY <1>2, <1>6, OneMoves

\* whatever is left to do,
LEMMA ConcludeGood == ASSUME FlowInv, Reserving, NEW r \in Requests, Conclude(r) PROVE Good
  <1>1. CASE Settle(r) \/ HoldUnknown(r) \/ BillRequest(r) \/ ReleaseBudget(r)
    BY <1>1, SettleGood
  <1>2. CASE ApplyBill(r)
    BY <1>2, StepGood DEF ApplyBill, Places, Before
  <1>3. CASE Clear(r)
    BY <1>3, ClearGood
  <1>4. CASE Rebill(r)
    BY <1>4, StepGood DEF Rebill, Places, Before
  <1>5. CASE FreeKey(r) \/ CutOff(r)
    BY <1>5, StepGood DEF FreeKey, CutOff, Places, Before
  <1> QED
    BY <1>1, <1>2, <1>3, <1>4, <1>5 DEF Conclude

\* and neither does its start, or a client that goes away.
LEMMA ArriveGood == ASSUME FlowInv, NEW r \in Requests, Arrive(r) \/ Disconnect(r) PROVE Good
  <1>1. CASE Arrive(r)
    BY <1>1, StepGood DEF Arrive, At, Places, Before
  <1>2. CASE Disconnect(r)
    BY <1>2, StepGood DEF Disconnect, Places, Before
  <1> QED
    BY <1>1, <1>2

\* Reservations stay typed.
LEMMA ReservingStays == ASSUME Reserving, [NextFlow]_allVars PROVE Reserving'
  <1>1. ASSUME NEW r \in Requests, NEW o \in Owners, reserved' = [reserved EXCEPT ![r] = @ \cup {o}] PROVE Reserving'
    BY <1>1 DEF Reserving
  <1>2. ASSUME NEW r \in Requests, reserved' = [reserved EXCEPT ![r] = {}] PROVE Reserving'
    BY <1>2 DEF Reserving
  <1>3. CASE UNCHANGED reserved
    BY <1>3 DEF Reserving
  <1>4. ASSUME NEW r \in Requests, Admit(r) PROVE Reserving'
    <2>1. KeyOf[r] \in Owners /\ TenantOf[KeyOf[r]] \in Owners
      BY ScopeAssumption DEF Owners
    <2> QED
      BY <1>1, <1>3, <1>4, <2>1 DEF Admit, TakeTokens, ReserveBudget, TakeSlot, NoSlot, Strand, Prepare
  <1>5. ASSUME NEW r \in Requests, Attempt(r) PROVE UNCHANGED reserved
    BY <1>5 DEF Attempt, SelectKey, NoProvider, Send, Unaccounted, Answer, Event, Close, Complete, Scan, Break,
                ErrorEvent, RotateKey, RetryChannel, SwitchChannel, GiveUp
  <1>6. ASSUME NEW r \in Requests, Conclude(r) PROVE Reserving'
    BY <1>2, <1>3, <1>6 DEF Conclude, Settle, HoldUnknown, BillRequest, ApplyBill, ReleaseBudget, Clear, Rebill, FreeKey, CutOff
  <1>7. ASSUME NEW r \in Requests, Arrive(r) \/ Disconnect(r) PROVE UNCHANGED reserved
    BY <1>7 DEF Arrive, Disconnect
  <1>8. ASSUME NEW r \in Requests, NEW o \in OwnersOf(r), LapseSlot(r, o) PROVE UNCHANGED reserved
    BY <1>8 DEF LapseSlot
  <1>9. CASE UNCHANGED allVars
    BY <1>3, <1>9 DEF allVars, flowVars
  <1>10. ASSUME NEW ch \in Channels, LapseLoad(ch) PROVE UNCHANGED reserved
    BY <1>10 DEF LapseLoad
  <1> QED
    BY <1>3, <1>4, <1>5, <1>6, <1>7, <1>8, <1>9, <1>10 DEF NextFlow, Proceed

\* Every step is good.
LEMMA FlowGood == ASSUME FlowInv, Reserving, [NextFlow]_allVars PROVE Good
  <1>1. ASSUME NEW r \in Requests, Proceed(r) PROVE Good
    BY <1>1, AdmitGood, AttemptGood, ConcludeGood DEF Proceed
  <1>2. ASSUME NEW r \in Requests, NEW o \in OwnersOf(r), LapseSlot(r, o) PROVE Good
    BY <1>2, Unmoved DEF LapseSlot
  <1>3. CASE UNCHANGED allVars
    BY <1>3, Unmoved DEF allVars, flowVars
  <1>4. ASSUME NEW ch \in Channels, LapseLoad(ch) PROVE Good
    BY <1>4, Unmoved DEF LapseLoad
  <1> QED
    BY <1>1, <1>2, <1>3, <1>4, ArriveGood DEF NextFlow

\* No request has begun.
LEMMA FlowBegins == InitFlow => FlowInv /\ Reserving
  <1> SUFFICES ASSUME InitFlow PROVE FlowInv /\ Reserving
    OBVIOUS
  <1>1. Arriving \in FlowRecord
    BY DEF Arriving, FlowRecord, Places, Errors
  <1>2. [sent |-> 0, started |-> 0, unknown |-> FALSE, told |-> "nothing", counted |-> {}] \in PastRecord
    BY DEF PastRecord
  <1>3. \A r \in Requests : 1 \in 1..Len(Candidates[r])
    BY FlowAssumption
  <1>4. /\ flow = [r \in Requests |-> Arriving] /\ reserved = [r \in Requests |-> {}]
        /\ past = [r \in Requests |-> [sent |-> 0, started |-> 0, unknown |-> FALSE, told |-> "nothing", counted |-> {}]]
    BY DEF InitFlow
  <1>5. flow \in [Requests -> FlowRecord] /\ past \in [Requests -> PastRecord] /\ Reserving
    BY <1>1, <1>2, <1>4 DEF Reserving
  <1>6. Arriving.at = "arrive" /\ Arriving.cand = 1 /\ ~Arriving.answered
    BY DEF Arriving
  <1>7. \A r \in Requests : Careful(r, flow[r], past[r])
    BY <1>1, <1>2, <1>3, <1>4, <1>6 DEF Careful, Before
  <1> QED
    BY <1>5, <1>7 DEF FlowInv

\* However many keys, tries and channels a request goes through, a job starts
\* once, and a stream of which the client has seen anything is not sent again.
THEOREM NothingSentTwice == SpecFlow => SentOnce
  <1>1. FlowInv => JobStartedOnce
    BY DEF FlowInv, Careful, JobStartedOnce
  <1>2. Good => JobStartedOnce' /\ NoneReplayed
    BY <1>1 DEF Good, FlowInv, Careful, JobStartedOnce
  <1> QED
    BY <1>2, FlowGood, ReservingStays, FlowBegins, PTL DEF SpecFlow, SentOnce, NoReplay, NoneReplayed, Good

----------------------------------------------------------------------------
(* What a request leaves in the counters, and what it is billed.  Closing   *)
(* are the places from which nothing is forwarded any more.                 *)

Closing == {"apply", "clear", "rebill", "freeKey", "over", "stranded"}

\* What is kept of the tokens a request took, and of its bill
CountingOK ==
    /\ slips \in Nat /\ tpm \in [Owners -> Int]
    /\ \A r \in Requests :
        /\ reserved[r] \subseteq OwnersOf(r)
        /\ flow[r].at \in {"arrive", "keyTokens"} => reserved[r] = {}
        /\ flow[r].at = "tenantTokens" => reserved[r] \subseteq {KeyOf[r]}
        /\ flow[r].at \notin Closing => past[r].counted = {}

\* A request that counts as answered was: text, finished streams and answers
\* that were told need one
ForwardOK == \A r \in Requests :
    /\ flow[r].text <= MaxText
    /\ flow[r].at \in {"answered", "ended"} => flow[r].answered
    /\ r \in Streams /\ flow[r].finished => flow[r].answered
    /\ past[r].told = "answer" => flow[r].answered

\* A bill is one for what was forwarded, and nothing is forwarded after it
BillOK == \A r \in Requests :
    /\ phase[r] = "rebill" => bills[r] > 0
    /\ bills[r] > 0 => flow[r].at \in Closing /\ hist[r].learned \in {NoCost, Charge(r)}

\* The load of the channels is that of the attempts under way
LanesOK == inflight \in [Channels -> Int] /\ strayed \in [Channels -> Int] /\ misses \in Nat /\ LoadAccounted

\* What was forwarded stays as it is
KeepsText(r) ==
    /\ flow'[r].text = flow[r].text /\ flow'[r].reported = flow[r].reported
    /\ flow'[r].answered = flow[r].answered /\ flow'[r].finished = flow[r].finished

\* What a step of a request does to its record: what is closing stays so, and
\* keeps what it was billed for; what is told is what was answered.
Orderly(r) ==
    /\ \A q \in Requests \ {r} : flow'[q] = flow[q] /\ past'[q] = past[q]
    /\ flow[r].at \in Closing => flow'[r].at \in Closing /\ KeepsText(r) /\ flow'[r].due = flow[r].due
    /\ flow'[r].text <= MaxText
    /\ flow'[r].at \in {"answered", "ended"} => flow'[r].answered
    /\ r \in Streams /\ flow'[r].finished => flow'[r].answered
    /\ past'[r].told = "answer" => flow'[r].answered
    /\ flow'[r].at # "arrive"
    /\ flow'[r].at = "keyTokens" => flow[r].at = "arrive"
    /\ flow'[r].at = "tenantTokens" => flow[r].at = "keyTokens"

\* The places a request may go to by Step, from where it is
StepPlace(r, place) ==
    /\ place \in Places \ {"arrive"}
    /\ flow[r].at \in Closing => place \in Closing
    /\ place \in {"answered", "ended"} => flow[r].answered
    /\ place = "keyTokens" => flow[r].at = "arrive"
    /\ place = "tenantTokens" => flow[r].at = "keyTokens"

\* Step changes the place of one request,
LEMMA StepKeeps ==
    ASSUME FlowInv, NEW r \in Requests, NEW place, Step(r, place)
    PROVE  /\ flow'[r].at = place /\ KeepsText(r)
           /\ flow'[r].due = flow[r].due /\ flow'[r].active = flow[r].active
           /\ \A q \in Requests \ {r} : flow'[q] = flow[q]
  BY DEF FlowInv, FlowRecord, Step, KeepsText

\* Tell what its client was told.
LEMMA TellKeeps ==
    ASSUME FlowInv, NEW r \in Requests, NEW what, Tell(r, what)
    PROVE  /\ past'[r].told = what /\ past'[r].counted = past[r].counted
           /\ \A q \in Requests \ {r} : past'[q] = past[q]
  BY DEF FlowInv, PastRecord, Tell

\* A step to a place that follows is orderly,
LEMMA StepOrderly ==
    ASSUME FlowInv, ForwardOK, NEW r \in Requests, NEW place, Step(r, place), StepPlace(r, place),
           \/ UNCHANGED past
           \/ Tell(r, "error") \/ Tell(r, "gone")
           \/ Tell(r, "answer") /\ flow[r].answered
    PROVE  Orderly(r) /\ past'[r].counted = past[r].counted
  BY StepKeeps, TellKeeps DEF Orderly, StepPlace, ForwardOK, KeepsText

\* and so is a step that changes the record of a request before it closes.
LEMMA BecomeOrderly ==
    ASSUME FlowInv, ForwardOK, NEW r \in Requests, NEW f \in FlowRecord, Become(r, f),
           flow[r].at \notin Closing, f.at \notin {"arrive", "keyTokens", "tenantTokens"},
           f.text <= MaxText, f.at \in {"answered", "ended"} \/ (r \in Streams /\ f.finished) => f.answered,
           \/ UNCHANGED past /\ (flow[r].answered => f.answered)
           \/ Tell(r, "error")
           \/ (\E e : Attempted(r, e)) /\ (flow[r].answered => f.answered)
           \/ past' = [past EXCEPT ![r].started = @ + 1] /\ f.answered
           \/ (\E n : past' = [past EXCEPT ![r].sent = n]) /\ (flow[r].answered => f.answered)
    PROVE  Orderly(r) /\ past'[r].counted = past[r].counted
  <1>1. flow'[r] = f /\ \A q \in Requests \ {r} : flow'[q] = flow[q]
    BY DEF FlowInv, Become
  <1>2. ASSUME NEW n, NEW u,
               \/ past' = [past EXCEPT ![r].started = n, ![r].unknown = u]
               \/ past' = [past EXCEPT ![r].started = n] \/ past' = [past EXCEPT ![r].sent = n]
        PROVE  /\ past'[r].told = past[r].told /\ past'[r].counted = past[r].counted
               /\ \A q \in Requests \ {r} : past'[q] = past[q]
    BY <1>2 DEF FlowInv, PastRecord
  <1>3. /\ past'[r].told = "answer" => f.answered
        /\ past'[r].counted = past[r].counted /\ \A q \in Requests \ {r} : past'[q] = past[q]
    <2>1. CASE UNCHANGED past /\ (flow[r].answered => f.answered)
      BY <2>1 DEF ForwardOK
    <2>2. CASE Tell(r, "error")
      BY <2>2, TellKeeps
    <2>3. CASE (\E e : Attempted(r, e)) /\ (flow[r].answered => f.answered)
      BY <1>2, <2>3 DEF ForwardOK, Attempted
    <2>4. CASE past' = [past EXCEPT ![r].started = @ + 1] /\ f.answered
      BY <1>2, <2>4 DEF ForwardOK
    <2>5. CASE (\E n : past' = [past EXCEPT ![r].sent = n]) /\ (flow[r].answered => f.answered)
      BY <1>2, <2>5 DEF ForwardOK
    <2> QED
      BY <2>1, <2>2, <2>3, <2>4, <2>5
  <1> QED
    BY <1>1, <1>3 DEF Orderly

\* How the load of the channels follows the attempts of a request
Uses(r, ch) == IF ch \in flow[r].active THEN 1 ELSE 0
\* The load, but for what it strayed by, changes by what the attempts of r do
LaneStep(r) ==
    /\ inflight' \in [Channels -> Int] /\ strayed' \in [Channels -> Int]
    /\ \A ch \in Channels : inflight'[ch] - strayed'[ch] = inflight[ch] - strayed[ch] - Uses(r, ch) + Uses(r, ch)'
    /\ misses' \in Nat /\ (misses' = 0 => misses = 0 /\ \A ch \in Channels : strayed'[ch] = strayed[ch])

\* Without an attempt that begins or ends it stays;
LEMMA LanesStay ==
    ASSUME LanesOK, NEW r \in Requests, flow'[r].active = flow[r].active, UNCHANGED stats
    PROVE  LaneStep(r)
  <1>1. \A ch \in Channels : Uses(r, ch)' = Uses(r, ch) /\ Uses(r, ch) \in Int
    BY DEF Uses
  <1>2. UNCHANGED <<inflight, strayed, misses>>
    BY DEF stats
  <1> QED
    BY <1>1, <1>2 DEF LanesOK, LaneStep

\* what a decrement takes off, or its loss leaves, is the load of the request;
LEMMA EndedLeaves ==
    ASSUME LanesOK, NEW r \in Requests, NEW works \in BOOLEAN
    PROVE  /\ Ended(r, works) \in [Channels -> Int] /\ Left(r, works) \in [Channels -> Int]
           /\ \A ch \in Channels : Ended(r, works)[ch] - Left(r, works)[ch] = inflight[ch] - strayed[ch] - Uses(r, ch)
           /\ works => \A ch \in Channels : Left(r, works)[ch] = strayed[ch]
  BY DEF LanesOK, Ended, Left, Uses

\* an attempt that ends leaves its channels.
LEMMA LanesEnd ==
    ASSUME LanesOK, NEW r \in Requests, flow'[r].active = {}, EndAttempt(r)
    PROVE  LaneStep(r)
  <1>1. PICK works \in BOOLEAN :
          inflight' = Ended(r, works) /\ strayed' = Left(r, works) /\ misses' = misses + 0 + IF works THEN 0 ELSE 1
    BY DEF EndAttempt, Missed
  <1>2. \A ch \in Channels : Uses(r, ch)' = 0 /\ Uses(r, ch) \in Int /\ inflight[ch] \in Int /\ strayed[ch] \in Int
    BY DEF Uses, LanesOK
  <1>3. misses \in Nat
    BY DEF LanesOK
  <1> QED
    BY <1>1, <1>2, <1>3, EndedLeaves DEF LaneStep

\* A request whose record changes at one place of the code
Moves(r) ==
    /\ Orderly(r) /\ past'[r].counted = past[r].counted /\ LaneStep(r)
    /\ UNCHANGED <<tpm, reserved>> /\ slips' \in {slips, slips + 1}

\* A step to a place that follows moves its request;
LEMMA PlaceMoves ==
    ASSUME FlowInv, ForwardOK, LanesOK, NEW r \in Requests, NEW place, Step(r, place), StepPlace(r, place),
           \/ UNCHANGED past
           \/ Tell(r, "error") \/ Tell(r, "gone")
           \/ Tell(r, "answer") /\ flow[r].answered,
           UNCHANGED <<tpm, reserved, stats>>, slips' \in {slips, slips + 1}
    PROVE  Moves(r)
  <1>1. Orderly(r) /\ past'[r].counted = past[r].counted
    BY StepOrderly
  <1>2. LaneStep(r)
    BY StepKeeps, LanesStay
  <1>3. UNCHANGED <<tpm, reserved>> /\ slips' \in {slips, slips + 1}
    OBVIOUS
  <1> QED
    BY <1>1, <1>2, <1>3 DEF Moves

\* so does one that changes its record.
LEMMA RecordMoves ==
    ASSUME FlowInv, ForwardOK, LanesOK, NEW r \in Requests, NEW f \in FlowRecord, Become(r, f),
           flow[r].at \notin Closing, f.at \notin {"arrive", "keyTokens", "tenantTokens"},
           f.text <= MaxText, f.at \in {"answered", "ended"} \/ (r \in Streams /\ f.finished) => f.answered,
           \/ UNCHANGED past /\ (flow[r].answered => f.answered)
           \/ Tell(r, "error")
           \/ (\E e : Attempted(r, e)) /\ (flow[r].answered => f.answered)
           \/ past' = [past EXCEPT ![r].started = @ + 1] /\ f.answered,
           \/ f.active = flow[r].active /\ UNCHANGED stats
           \/ f.active = {} /\ EndAttempt(r),
           UNCHANGED <<tpm, reserved>>, slips' \in {slips, slips + 1}
    PROVE  Moves(r)
  <1>1. flow'[r] = f
    BY DEF FlowInv, Become
  <1> QED
    BY <1>1, BecomeOrderly, LanesStay, LanesEnd DEF Moves

\* The actions of a request, one after the other: the choice of a channel and
\* of a key,
LEMMA SelectMoves ==
    ASSUME FlowInv, ForwardOK, LanesOK, NEW r \in Requests, SelectKey(r) \/ NoProvider(r)
    PROVE  Moves(r)
  <1>1. /\ flow[r].at = "select" /\ UNCHANGED <<tpm, reserved, slips, stats>> /\ (UNCHANGED past \/ Tell(r, "error"))
    BY DEF SelectKey, NoProvider, At
  <1>2. ASSUME Become(r, [flow[r] EXCEPT !.at = "send", !.attempt = 0, !.rotations = 0]) PROVE Moves(r)
    <2> DEFINE f == [flow[r] EXCEPT !.at = "send", !.attempt = 0, !.rotations = 0]
    <2>1. /\ f \in FlowRecord /\ f.at = "send" /\ f.active = flow[r].active
          /\ f.answered = flow[r].answered /\ f.finished = flow[r].finished /\ f.text = flow[r].text
      BY Knows, ZenonT(60) DEF FlowRecord, Places
    <2> HIDE DEF f
    <2>2. Become(r, f)
      BY <1>2 DEF f
    <2> QED
      BY <1>1, <2>1, <2>2, RecordMoves DEF Closing, ForwardOK
  <1>3. ASSUME NEW e \in Errors, Become(r, [flow[r] EXCEPT !.at = "failed", !.error = e]) PROVE Moves(r)
    <2> DEFINE f == [flow[r] EXCEPT !.at = "failed", !.error = e]
    <2>1. /\ f \in FlowRecord /\ f.at = "failed" /\ f.active = flow[r].active
          /\ f.answered = flow[r].answered /\ f.finished = flow[r].finished /\ f.text = flow[r].text
      BY Knows, ZenonT(60) DEF FlowRecord, Places
    <2> HIDE DEF f
    <2>2. Become(r, f)
      BY <1>3 DEF f
    <2> QED
      BY <1>1, <2>1, <2>2, RecordMoves DEF Closing, ForwardOK
  <1>4. ASSUME Step(r, "release"), Tell(r, "error") PROVE Moves(r)
    <2>1. StepPlace(r, "release")
      BY <1>1 DEF StepPlace, Places, Closing
    <2> QED
      BY <1>1, <1>4, <2>1, PlaceMoves
  <1>5. Unexpected \in Errors
    BY DEF Errors
  <1> QED
    BY <1>2, <1>3, <1>4, <1>5 DEF SelectKey, NoProvider

\* the call,
LEMMA SendMoves ==
    ASSUME FlowInv, ForwardOK, LanesOK, NEW r \in Requests, Send(r)
    PROVE  Moves(r)
  <1> DEFINE place == IF phase'[r] = "refused" THEN "refused" ELSE "upstream"
             f == [flow[r] EXCEPT !.at = place, !.active = {Channel(r)}]
  <1>1. /\ flow[r].at = "send" /\ UNCHANGED <<tpm, reserved, slips>> /\ Become(r, f)
        /\ \E n : past' = [past EXCEPT ![r].sent = n]
    BY DEF Send, At
  <1>2. place \in {"refused", "upstream"}
    OBVIOUS
  <1> HIDE DEF place
  <1>3. /\ f \in FlowRecord /\ f.at = place /\ f.active = {Channel(r)}
        /\ f.answered = flow[r].answered /\ f.finished = flow[r].finished /\ f.text = flow[r].text
    BY <1>2, Knows, ZenonT(60) DEF FlowRecord, Places
  <1> HIDE DEF f
  <1>4. flow'[r] = f
    BY <1>1 DEF FlowInv, Become
  <1>5. LaneStep(r)
    <2>1. PICK works, counts, expires \in BOOLEAN :
            /\ inflight' = [Ended(r, works) EXCEPT ![Channel(r)] = @ + IF counts THEN 1 ELSE 0]
            /\ strayed' = [Left(r, works) EXCEPT ![Channel(r)] = @ - IF counts THEN 0 ELSE 1]
            /\ misses' = misses + (IF expires THEN 0 ELSE 1) + IF works THEN 0 ELSE 1
            /\ expires => counts
      BY DEF Send, BeginAttempt, Missed
    <2>2. Channel(r) \in Channels
      BY Knows
    <2>3. \A ch \in Channels : Uses(r, ch)' = IF ch = Channel(r) THEN 1 ELSE 0
      BY <1>3, <1>4 DEF Uses
    <2> DEFINE ended == Ended(r, works)
               left  == Left(r, works)
    <2>4. /\ ended \in [Channels -> Int] /\ left \in [Channels -> Int]
          /\ \A ch \in Channels : ended[ch] - left[ch] = inflight[ch] - strayed[ch] - Uses(r, ch)
          /\ works => \A ch \in Channels : left[ch] = strayed[ch]
      BY EndedLeaves
    <2>5. \A ch \in Channels : Uses(r, ch) \in Int /\ inflight[ch] \in Int /\ strayed[ch] \in Int
      BY DEF Uses, LanesOK
    <2>6. /\ inflight' = [ended EXCEPT ![Channel(r)] = ended[Channel(r)] + IF counts THEN 1 ELSE 0]
          /\ strayed' = [left EXCEPT ![Channel(r)] = left[Channel(r)] - IF counts THEN 0 ELSE 1]
      BY <2>1
    <2> HIDE DEF ended, left
    <2>7. inflight' \in [Channels -> Int] /\ strayed' \in [Channels -> Int]
      BY <2>2, <2>4, <2>6
    <2>8. \A ch \in Channels : inflight'[ch] - strayed'[ch] = ended[ch] - left[ch] + Uses(r, ch)'
      BY <2>2, <2>3, <2>4, <2>6
    <2>9. misses' \in Nat /\ (misses' = 0 => misses = 0 /\ works /\ counts)
      BY <2>1 DEF LanesOK
    <2>10. misses' = 0 => \A ch \in Channels : strayed'[ch] = strayed[ch]
      BY <2>2, <2>4, <2>5, <2>6, <2>9
    <2> QED
      BY <2>4, <2>5, <2>7, <2>8, <2>9, <2>10 DEF LaneStep
  <1> QED
    BY <1>1, <1>2, <1>3, <1>5, BecomeOrderly DEF Moves, Closing, ForwardOK

\* the refusal to account for it,
LEMMA RefusedMoves ==
    ASSUME FlowInv, ForwardOK, LanesOK, NEW r \in Requests, Unaccounted(r)
    PROVE  Moves(r)
  <1>1. flow[r].at = "refused" /\ Tell(r, "error") /\ UNCHANGED <<tpm, reserved, slips>>
    BY DEF Unaccounted, At
  <1>2. CASE Step(r, "settle") /\ UNCHANGED stats
    <2>1. StepPlace(r, "settle")
      BY <1>1 DEF StepPlace, Places, Closing
    <2> QED
      BY <1>1, <1>2, <2>1, PlaceMoves
  <1>3. CASE Become(r, [flow[r] EXCEPT !.at = "release", !.active = {}]) /\ EndAttempt(r)
    <2> DEFINE f == [flow[r] EXCEPT !.at = "release", !.active = {}]
    <2>1. /\ f \in FlowRecord /\ f.at = "release" /\ f.active = {} /\ f.text = flow[r].text
          /\ f.answered = flow[r].answered /\ f.finished = flow[r].finished
      BY Knows, ZenonT(60) DEF FlowRecord, Places
    <2> HIDE DEF f
    <2>2. Become(r, f)
      BY <1>3 DEF f
    <2> QED
      BY <1>1, <1>3, <2>1, <2>2, RecordMoves DEF Closing, ForwardOK
  <1> QED
    BY <1>2, <1>3 DEF Unaccounted

\* the answer,
LEMMA AnswerMoves ==
    ASSUME FlowInv, ForwardOK, LanesOK, NEW r \in Requests, Answer(r)
    PROVE  Moves(r)
  <1>1. PICK reported \in SUBSET Parts, n \in 0..MaxText :
            Become(r, [flow[r] EXCEPT !.at = "answered", !.answered = TRUE, !.finished = TRUE,
                          !.reported = reported, !.text = n, !.active = {}])
    BY DEF Answer
  <1> DEFINE f == [flow[r] EXCEPT !.at = "answered", !.answered = TRUE, !.finished = TRUE,
                          !.reported = reported, !.text = n, !.active = {}]
  <1>2. n \in Nat /\ n <= MaxText
    BY FlowAssumption
  <1>3. f \in FlowRecord /\ f.at = "answered" /\ f.answered /\ f.text = n /\ f.active = {}
    BY <1>2, Knows, ZenonT(60) DEF FlowRecord, Places
  <1>4. /\ Become(r, f) /\ flow[r].at = "upstream" /\ EndAttempt(r) /\ UNCHANGED <<tpm, reserved, slips>>
        /\ past' = [past EXCEPT ![r].started = @ + 1]
    BY <1>1 DEF Answer, At
  <1> HIDE DEF f
  <1> QED
    BY <1>2, <1>3, <1>4, RecordMoves DEF Closing

\* the failure,
LEMMA BreakMoves ==
    ASSUME FlowInv, ForwardOK, LanesOK, NEW r \in Requests, NEW e \in Failing, Break(r, e) \/ ErrorEvent(r, e)
    PROVE  Moves(r)
  <1>1. e \in Errors /\ flow[r].at = "upstream" /\ Attempted(r, e) /\ UNCHANGED <<tpm, reserved, slips>>
    BY DEF Errors, Break, ErrorEvent, At
  <1>2. CASE Break(r, e)
    <2> DEFINE active == IF r \in Streams THEN flow[r].active ELSE {}
               f == [flow[r] EXCEPT !.at = "failed", !.error = e, !.active = active]
    <2>1. Become(r, f)
      BY <1>2 DEF Break
    <2>2. active \in SUBSET Channels
      BY Knows DEF FlowRecord
    <2>4. (active = flow[r].active /\ UNCHANGED stats) \/ (active = {} /\ EndAttempt(r))
      BY <1>2 DEF Break
    <2> HIDE DEF active
    <2>3. /\ f \in FlowRecord /\ f.at = "failed" /\ f.active = active
          /\ f.answered = flow[r].answered /\ f.finished = flow[r].finished /\ f.text = flow[r].text
      BY <1>1, <2>2, Knows, ZenonT(60) DEF FlowRecord, Places
    <2> HIDE DEF f
    <2> QED
      BY <1>1, <2>1, <2>3, <2>4, RecordMoves DEF Closing, ForwardOK
  <1>3. CASE ErrorEvent(r, e)
    <2> DEFINE f == [flow[r] EXCEPT !.at = "failed", !.error = e, !.answered = TRUE]
    <2>1. Become(r, f) /\ UNCHANGED stats
      BY <1>3 DEF ErrorEvent
    <2>2. /\ f \in FlowRecord /\ f.at = "failed" /\ f.active = flow[r].active
          /\ f.answered /\ f.text = flow[r].text
      BY <1>1, Knows, ZenonT(60) DEF FlowRecord, Places
    <2> HIDE DEF f
    <2> QED
      BY <1>1, <2>1, <2>2, RecordMoves DEF Closing, ForwardOK
  <1> QED
    BY <1>2, <1>3

\* the end of the answer,
LEMMA CloseMoves ==
    ASSUME FlowInv, ForwardOK, LanesOK, NEW r \in Requests, Close(r)
    PROVE  Moves(r)
  <1>1. flow[r].at = "upstream" /\ UNCHANGED <<tpm, reserved, slips, stats>>
    BY DEF Close, At
  <1>2. CASE flow[r].finished /\ Step(r, "ended") /\ UNCHANGED past
    <2>1. flow[r].answered
      BY <1>2 DEF Close, ForwardOK
    <2>2. StepPlace(r, "ended")
      BY <1>1, <2>1 DEF StepPlace, Places, Closing
    <2> QED
      BY <1>1, <1>2, <2>2, PlaceMoves
  <1>3. CASE Become(r, [flow[r] EXCEPT !.at = "failed", !.error = Unfinished]) /\ Attempted(r, Unfinished)
    <2> DEFINE f == [flow[r] EXCEPT !.at = "failed", !.error = Unfinished]
    <2>1. Become(r, f) /\ Unfinished \in Errors
      BY <1>3 DEF Errors
    <2>2. /\ f \in FlowRecord /\ f.at = "failed" /\ f.active = flow[r].active
          /\ f.answered = flow[r].answered /\ f.finished = flow[r].finished /\ f.text = flow[r].text
      BY <2>1, Knows, ZenonT(60) DEF FlowRecord, Places
    <2> HIDE DEF f
    <2> QED
      BY <1>1, <1>3, <2>1, <2>2, RecordMoves DEF Closing, ForwardOK
  <1> QED
    BY <1>2, <1>3 DEF Close

\* the events of a stream,
LEMMA EventMoves ==
    ASSUME FlowInv, ForwardOK, LanesOK, NEW r \in Requests, Event(r)
    PROVE  Moves(r)
  <1>1. flow[r].at = "upstream" /\ UNCHANGED <<past, tpm, reserved, slips, stats>>
    BY DEF Event, At
  <1>2. ASSUME NEW n \in 0..1, NEW reported \in SUBSET Parts, NEW finished \in BOOLEAN, flow[r].text + n <= MaxText,
               Become(r, [flow[r] EXCEPT !.answered = TRUE, !.text = flow[r].text + n,
                             !.reported = flow[r].reported \cup reported, !.finished = flow[r].finished \/ finished])
        PROVE  Moves(r)
    <2> DEFINE text == flow[r].text + n
               parts == flow[r].reported \cup reported
               ended == flow[r].finished \/ finished
               f == [flow[r] EXCEPT !.answered = TRUE, !.text = text, !.reported = parts, !.finished = ended]
    <2>1. text \in Nat /\ text <= MaxText
      <3>1. flow[r].text \in Nat
        BY Knows DEF FlowRecord
      <3> QED
        BY <1>2, <3>1
    <2>2. parts \in SUBSET Parts /\ ended \in BOOLEAN
      BY Knows DEF FlowRecord
    <2>3. Become(r, f)
      BY <1>2
    <2> HIDE DEF text, parts, ended
    <2>4. /\ f \in FlowRecord /\ f.at = flow[r].at /\ f.active = flow[r].active
          /\ f.answered /\ f.text = text
      BY <2>1, <2>2, Knows DEF FlowRecord
    <2> HIDE DEF f
    <2> QED
      BY <1>1, <2>1, <2>3, <2>4, RecordMoves DEF Closing
  <1>3. ASSUME Become(r, [flow[r] EXCEPT !.at = "ended", !.answered = TRUE, !.finished = TRUE]) PROVE Moves(r)
    <2> DEFINE f == [flow[r] EXCEPT !.at = "ended", !.answered = TRUE, !.finished = TRUE]
    <2>1. /\ f \in FlowRecord /\ f.at = "ended" /\ f.active = flow[r].active
          /\ f.answered /\ f.text = flow[r].text
      BY Knows, ZenonT(60) DEF FlowRecord, Places
    <2> HIDE DEF f
    <2>2. Become(r, f)
      BY <1>3 DEF f
    <2> QED
      BY <1>1, <2>1, <2>2, RecordMoves DEF Closing, ForwardOK
  <1> QED
    BY <1>2, <1>3 DEF Event

\* another attempt,
LEMMA AgainMoves ==
    ASSUME FlowInv, ForwardOK, LanesOK, NEW r \in Requests, RotateKey(r) \/ RetryChannel(r) \/ SwitchChannel(r)
    PROVE  Moves(r)
  <1>1. flow[r].at = "failed" /\ UNCHANGED <<past, tpm, reserved, slips, stats>>
    BY DEF RotateKey, RetryChannel, SwitchChannel, At
  <1>2. /\ flow[r] \in FlowRecord /\ NoError \in Errors
        /\ flow[r].rotations + 1 \in Nat /\ flow[r].attempt + 1 \in Nat /\ flow[r].cand + 1 \in Nat
    <2>1. flow[r] \in FlowRecord
      BY Knows
    <2>2. flow[r].cand \in Nat /\ flow[r].attempt \in Nat /\ flow[r].rotations \in Nat
      BY <2>1 DEF FlowRecord
    <2> QED
      BY <2>1, <2>2 DEF Errors
  <1>3. ASSUME NEW f \in FlowRecord, Become(r, f), f.at \in {"send", "select"}, f.active = flow[r].active,
               f.answered = flow[r].answered, f.finished = flow[r].finished, f.text = flow[r].text
        PROVE  Moves(r)
    BY <1>1, <1>3, RecordMoves DEF Closing, ForwardOK
  <1>4. CASE RotateKey(r)
    <2> DEFINE rotations == flow[r].rotations + 1
               f == [flow[r] EXCEPT !.at = "send", !.error = NoError, !.rotations = rotations]
    <2>1. Become(r, f)
      BY <1>4 DEF RotateKey
    <2>2. rotations \in Nat
      BY <1>2
    <2> HIDE DEF rotations
    <2>3. /\ f \in FlowRecord /\ f.at = "send" /\ f.active = flow[r].active
          /\ f.answered = flow[r].answered /\ f.finished = flow[r].finished /\ f.text = flow[r].text
      BY <1>2, <2>2 DEF FlowRecord, Places
    <2> HIDE DEF f
    <2> QED
      BY <1>3, <2>1, <2>3
  <1>5. CASE RetryChannel(r)
    <2> DEFINE attempt == flow[r].attempt + 1
               f == [flow[r] EXCEPT !.at = "send", !.error = NoError, !.attempt = attempt]
    <2>1. Become(r, f)
      BY <1>5 DEF RetryChannel
    <2>2. attempt \in Nat
      BY <1>2
    <2> HIDE DEF attempt
    <2>3. /\ f \in FlowRecord /\ f.at = "send" /\ f.active = flow[r].active
          /\ f.answered = flow[r].answered /\ f.finished = flow[r].finished /\ f.text = flow[r].text
      BY <1>2, <2>2 DEF FlowRecord, Places
    <2> HIDE DEF f
    <2> QED
      BY <1>3, <2>1, <2>3
  <1>6. CASE SwitchChannel(r)
    <2> DEFINE cand == flow[r].cand + 1
               f == [flow[r] EXCEPT !.at = "select", !.error = NoError, !.cand = cand]
    <2>1. Become(r, f)
      BY <1>6 DEF SwitchChannel
    <2>2. cand \in Nat
      BY <1>2
    <2> HIDE DEF cand
    <2>3. /\ f \in FlowRecord /\ f.at = "select" /\ f.active = flow[r].active
          /\ f.answered = flow[r].answered /\ f.finished = flow[r].finished /\ f.text = flow[r].text
      BY <1>2, <2>2 DEF FlowRecord, Places
    <2> HIDE DEF f
    <2> QED
      BY <1>3, <2>1, <2>3
  <1> QED
    BY <1>4, <1>5, <1>6

\* and the bill and the end of the request.
LEMMA EndMoves ==
    ASSUME FlowInv, ForwardOK, LanesOK, NEW r \in Requests, GiveUp(r) \/ Scan(r) \/ Complete(r) \/ Disconnect(r)
    PROVE  Moves(r)
  <1>1. /\ flow[r].at \in {"failed", "answered", "ended", "upstream"}
        /\ UNCHANGED <<tpm, reserved, slips, stats>>
    BY DEF GiveUp, Scan, Complete, Disconnect, At
  <1>2. ASSUME NEW place \in {"settle", "bill"}, Step(r, place),
               Tell(r, "error") \/ Tell(r, "gone") \/ (Tell(r, "answer") /\ flow[r].answered)
        PROVE  Moves(r)
    <2>1. StepPlace(r, place)
      BY <1>1 DEF StepPlace, Places, Closing
    <2> QED
      BY <1>1, <1>2, <2>1, PlaceMoves
  <1>3. ASSUME r \notin Streams,
               Become(r, [flow[r] EXCEPT !.at = "bill", !.answered = FALSE, !.text = 0, !.reported = {}]), Tell(r, "error")
        PROVE  Moves(r)
    <2> DEFINE f == [flow[r] EXCEPT !.at = "bill", !.answered = FALSE, !.text = 0, !.reported = {}]
    <2>1. f \in FlowRecord /\ f.at = "bill" /\ f.active = flow[r].active /\ f.text = 0
      BY Knows, ZenonT(60) DEF FlowRecord, Places
    <2> HIDE DEF f
    <2>2. Become(r, f) /\ 0 <= MaxText
      BY <1>3, FlowAssumption DEF f
    <2> QED
      BY <1>1, <1>3, <2>1, <2>2, RecordMoves DEF Closing
  <1>4. ASSUME flow[r].at = "answered", UNCHANGED past, Become(r, [flow[r] EXCEPT !.at = "failed", !.error = Unexpected])
        PROVE  Moves(r)
    <2> DEFINE f == [flow[r] EXCEPT !.at = "failed", !.error = Unexpected]
    <2>1. /\ f \in FlowRecord /\ f.at = "failed" /\ f.active = flow[r].active
          /\ f.answered = flow[r].answered /\ f.finished = flow[r].finished /\ f.text = flow[r].text
      BY Knows, ZenonT(60) DEF FlowRecord, Places, Errors
    <2> HIDE DEF f
    <2>2. Become(r, f)
      BY <1>4 DEF f
    <2> QED
      BY <1>1, <1>4, <2>1, <2>2, RecordMoves DEF Closing, ForwardOK
  <1>5. flow[r].at \in {"answered", "ended"} => flow[r].answered
    BY DEF ForwardOK
  <1> QED
    BY <1>2, <1>3, <1>4, <1>5 DEF GiveUp, Scan, Complete, Disconnect, At

\* Every step of an attempt, and every answer, leaves the tokens alone
LEMMA AttemptMoves ==
    ASSUME FlowInv, ForwardOK, LanesOK, NEW r \in Requests, Attempt(r)
    PROVE  Moves(r)
  BY SelectMoves, SendMoves, RefusedMoves, AnswerMoves, EventMoves, CloseMoves, BreakMoves, AgainMoves, EndMoves DEF Attempt

\* Admission, but for the tokens it takes
LEMMA AdmitMoves ==
    ASSUME FlowInv, ForwardOK, LanesOK, NEW r \in Requests,
           \/ Arrive(r) \/ ReserveBudget(r) \/ Strand(r) \/ Prepare(r)
           \/ TakeSlot(r, "tenantSlot", TenantOf[KeyOf[r]], "keySlot") \/ NoSlot(r, "tenantSlot", TenantOf[KeyOf[r]])
           \/ TakeSlot(r, "keySlot", KeyOf[r], "prepare") \/ NoSlot(r, "keySlot", KeyOf[r])
    PROVE  Moves(r)
  <1>1. /\ flow[r].at \in {"arrive", "reserve", "tenantSlot", "keySlot", "prepare"}
        /\ UNCHANGED <<tpm, reserved, stats>> /\ slips' \in {slips, slips + 1}
    BY DEF Arrive, ReserveBudget, Strand, Prepare, TakeSlot, NoSlot, At, Slip, NoSlip
  <1>2. ASSUME NEW place, Step(r, place), UNCHANGED past \/ Tell(r, "error"),
               \/ place \in {"tenantSlot", "keySlot", "prepare", "select", "over", "clear", "release", "stranded"}
               \/ place = "keyTokens" /\ flow[r].at = "arrive"
        PROVE  Moves(r)
    <2>1. StepPlace(r, place)
      BY <1>1, <1>2 DEF StepPlace, Places, Closing
    <2> QED
      BY <1>1, <1>2, <2>1, PlaceMoves
  <1>3. CASE Arrive(r)
    BY <1>2, <1>3 DEF Arrive, At
  <1>4. CASE ReserveBudget(r)
    BY <1>2, <1>4 DEF ReserveBudget
  <1>5. CASE Strand(r)
    BY <1>2, <1>5 DEF Strand
  <1>6. CASE Prepare(r)
    BY <1>2, <1>6 DEF Prepare
  <1>7. CASE TakeSlot(r, "tenantSlot", TenantOf[KeyOf[r]], "keySlot") \/ TakeSlot(r, "keySlot", KeyOf[r], "prepare")
    BY <1>2, <1>7 DEF TakeSlot
  <1>8. CASE NoSlot(r, "tenantSlot", TenantOf[KeyOf[r]]) \/ NoSlot(r, "keySlot", KeyOf[r])
    BY <1>2, <1>8 DEF NoSlot
  <1> QED
    BY <1>3, <1>4, <1>5, <1>6, <1>7, <1>8

\* The end of a request, but for the correction of its tokens
LEMMA ConcludeMoves ==
    ASSUME FlowInv, ForwardOK, LanesOK, NEW r \in Requests,
           \/ Settle(r) \/ HoldUnknown(r) \/ BillRequest(r) \/ ApplyBill(r) \/ ReleaseBudget(r)
           \/ Rebill(r) \/ FreeKey(r) \/ CutOff(r)
    PROVE  Moves(r)
  <1>1. UNCHANGED <<tpm, reserved>> /\ slips' \in {slips, slips + 1}
    BY DEF Settle, HoldUnknown, BillRequest, ApplyBill, ReleaseBudget, Rebill, FreeKey, CutOff, FreeSlot, Slip, NoSlip
  <1>2. CASE Settle(r)
    <2> DEFINE f == [flow[r] EXCEPT !.at = "bill", !.active = {}]
    <2>1. /\ f \in FlowRecord /\ f.at = "bill" /\ f.active = {}
          /\ f.answered = flow[r].answered /\ f.finished = flow[r].finished /\ f.text = flow[r].text
      BY Knows, ZenonT(60) DEF FlowRecord, Places
    <2>2. Become(r, f) /\ EndAttempt(r) /\ UNCHANGED past /\ flow[r].at = "settle"
      BY <1>2 DEF Settle, At
    <2> HIDE DEF f
    <2> QED
      BY <1>1, <2>1, <2>2, RecordMoves DEF Closing, ForwardOK
  <1>3. ASSUME NEW due \in Nat, NEW place \in {"apply", "clear"}, Become(r, [flow[r] EXCEPT !.at = place, !.due = due]),
               flow[r].at \in {"bill", "release"}, UNCHANGED <<past, stats>>
        PROVE  Moves(r)
    <2> DEFINE f == [flow[r] EXCEPT !.at = place, !.due = due]
    <2>1. /\ f \in FlowRecord /\ f.at = place /\ f.active = flow[r].active
          /\ f.answered = flow[r].answered /\ f.finished = flow[r].finished /\ f.text = flow[r].text
      BY Knows, ZenonT(60) DEF FlowRecord, Places
    <2>2. Become(r, f)
      BY <1>3
    <2> HIDE DEF f
    <2> QED
      BY <1>1, <1>3, <2>1, <2>2, RecordMoves DEF Closing, ForwardOK
  <1>4. Estimate \in Nat /\ Charge(r) \in Nat
    <2>1. /\ flow[r].text \in Nat /\ ReportedInput \in Nat /\ ReportedOutput \in Nat
          /\ EstimatedInput \in Nat /\ EstimatedOutput \in Nat
      BY Knows, FlowAssumption DEF FlowRecord
    <2> QED
      BY <2>1 DEF Estimate, Charge
  <1>5. CASE HoldUnknown(r) \/ BillRequest(r)
    BY <1>3, <1>4, <1>5 DEF HoldUnknown, BillRequest, At
  <1>6. ASSUME NEW place \in {"apply", "clear", "over", "stranded"}, Step(r, place), UNCHANGED stats,
               UNCHANGED past \/ Tell(r, "error")
        PROVE  Moves(r)
    <2>1. StepPlace(r, place)
      BY <1>6 DEF StepPlace, Places, Closing
    <2> QED
      BY <1>1, <1>6, <2>1, PlaceMoves
  <1>7. CASE ReleaseBudget(r)
    BY <1>3, <1>4, <1>6, <1>7 DEF ReleaseBudget, At
  <1>8. CASE ApplyBill(r) \/ Rebill(r) \/ FreeKey(r) \/ CutOff(r)
    BY <1>6, <1>8 DEF ApplyBill, Rebill, FreeKey, CutOff
  <1> QED
    BY <1>2, <1>5, <1>7, <1>8

\* An estimate is taken from an owner's rate, or the request is refused
LEMMA TakesTokens ==
    ASSUME FlowInv, ForwardOK, LanesOK, CountingOK, NEW r \in Requests,
           NEW here, NEW o, NEW next, TakeTokens(r, here, o, next),
           \/ here = "keyTokens" /\ o = KeyOf[r] /\ next = "tenantTokens"
           \/ here = "tenantTokens" /\ o = TenantOf[KeyOf[r]] /\ next = "reserve"
    PROVE  /\ Orderly(r) /\ past'[r].counted = past[r].counted /\ LaneStep(r)
           /\ slips' \in {slips, slips + 1} /\ o \in OwnersOf(r) /\ flow[r].at = here
           /\ \/ UNCHANGED <<tpm, reserved>> /\ flow'[r].at = next
              \/ /\ reserved' = [reserved EXCEPT ![r] = @ \cup {o}] /\ o \notin reserved[r]
                 /\ tpm' = [tpm EXCEPT ![o] = @ + Estimate] /\ flow'[r].at = next
              \/ UNCHANGED reserved /\ flow'[r].at = "clear"
                 /\ \/ UNCHANGED tpm
                    \/ slips' = slips + 1 /\ tpm' = [tpm EXCEPT ![o] = @ + Estimate]
  <1>1. /\ flow[r].at = here /\ slips' \in {slips, slips + 1} /\ UNCHANGED stats
        /\ \/ Step(r, next) /\ UNCHANGED past
           \/ Step(r, "clear") /\ Tell(r, "error")
    BY DEF TakeTokens, At, Slip, NoSlip
  <1>2. StepPlace(r, next) /\ StepPlace(r, "clear")
    BY <1>1 DEF StepPlace, Places, Closing
  <1>3. Orderly(r) /\ past'[r].counted = past[r].counted
    BY <1>1, <1>2, StepOrderly
  <1>4. LaneStep(r)
    BY <1>1, StepKeeps, LanesStay
  <1>5. o \in OwnersOf(r) /\ o \notin reserved[r]
    <2>1. KeyOf[r] # TenantOf[KeyOf[r]]
      BY ScopeAssumption
    <2> QED
      BY <1>1, <2>1 DEF CountingOK, OwnersOf
  <1>6. \A place : Step(r, place) => flow'[r].at = place
    BY StepKeeps
  <1> QED
    BY <1>1, <1>3, <1>4, <1>5, <1>6 DEF TakeTokens, Count, Slip, NoSlip

\* The leases a request knows of are those of its key and its tenant
Keeping == kept \in [Requests -> SUBSET Owners] /\ \A r \in Requests : kept[r] \subseteq OwnersOf(r)

\* Slots stay typed.
LEMMA KeepingStays == ASSUME Keeping, [NextFlow]_allVars PROVE Keeping'
  <1>1. ASSUME NEW r \in Requests, NEW o \in OwnersOf(r), kept' = [kept EXCEPT ![r] = @ \cup {o}] PROVE Keeping'
    <2>1. o \in Owners
      BY ScopeAssumption DEF OwnersOf, Owners
    <2> QED
      BY <1>1, <2>1 DEF Keeping
  <1>2. ASSUME NEW r \in Requests, NEW S, kept' = [kept EXCEPT ![r] = @ \ S] \/ kept' = [kept EXCEPT ![r] = @ \cap S] PROVE Keeping'
    BY <1>2 DEF Keeping
  <1>3. CASE UNCHANGED kept
    BY <1>3 DEF Keeping
  <1>4. ASSUME NEW r \in Requests, Admit(r) PROVE Keeping'
    <2>1. KeyOf[r] \in OwnersOf(r) /\ TenantOf[KeyOf[r]] \in OwnersOf(r)
      BY DEF OwnersOf
    <2> QED
      BY <1>1, <1>3, <1>4, <2>1 DEF Admit, TakeTokens, ReserveBudget, TakeSlot, NoSlot, Strand, Prepare
  <1>5. ASSUME NEW r \in Requests, Attempt(r) PROVE UNCHANGED kept
    BY <1>5 DEF Attempt, SelectKey, NoProvider, Send, Unaccounted, Answer, Event, Close, Complete, Scan, Break,
                ErrorEvent, RotateKey, RetryChannel, SwitchChannel, GiveUp
  <1>6. ASSUME NEW r \in Requests, Conclude(r) PROVE Keeping'
    BY <1>2, <1>3, <1>6 DEF Conclude, Settle, HoldUnknown, BillRequest, ApplyBill, ReleaseBudget, Clear, Rebill, FreeKey,
                            CutOff, FreeSlot
  <1>7. ASSUME NEW r \in Requests, Arrive(r) \/ Disconnect(r) PROVE UNCHANGED kept
    BY <1>7 DEF Arrive, Disconnect
  <1>8. ASSUME NEW r \in Requests, NEW o \in OwnersOf(r), LapseSlot(r, o) PROVE UNCHANGED kept
    BY <1>8 DEF LapseSlot
  <1>9. CASE UNCHANGED allVars
    BY <1>3, <1>9 DEF allVars, flowVars
  <1>10. ASSUME NEW ch \in Channels, LapseLoad(ch) PROVE UNCHANGED kept
    BY <1>10 DEF LapseLoad
  <1> QED
    BY <1>3, <1>4, <1>5, <1>6, <1>7, <1>8, <1>9, <1>10 DEF NextFlow, Proceed

\* A request has two owners, so there are finitely many corrections to miss
LEMMA FewOwners == ASSUME NEW r \in Requests, NEW S, S \subseteq OwnersOf(r)
                   PROVE  IsFiniteSet(S) /\ Cardinality(S) \in Nat /\ (Cardinality(S) = 0 => S = {})
  <1>1. IsFiniteSet(OwnersOf(r))
    <2>1. IsFiniteSet({KeyOf[r]} \cup {TenantOf[KeyOf[r]]})
      BY FS_Singleton, FS_AddElement
    <2>2. OwnersOf(r) = {KeyOf[r]} \cup {TenantOf[KeyOf[r]]}
      BY DEF OwnersOf
    <2> QED
      BY <2>1, <2>2
  <1>2. IsFiniteSet(S)
    BY <1>1, FS_Subset
  <1> QED
    BY <1>2, FS_CardinalityType, FS_EmptySet

\* _clear, correction by correction
LEMMA ClearMoves ==
    ASSUME FlowInv, ForwardOK, LanesOK, CountingOK, Keeping, NEW r \in Requests, Clear(r)
    PROVE  /\ Orderly(r) /\ LaneStep(r)
           /\ reserved' = [reserved EXCEPT ![r] = {}] /\ slips' \in Nat /\ slips' >= slips
           /\ flow[r].at = "clear" /\ flow'[r].at \in Closing
           /\ \E missed \in SUBSET reserved[r] :
                /\ slips' = 0 => missed = {}
                /\ Reconcile(r, missed)
                /\ past'[r].counted = past[r].counted \cup (reserved[r] \ missed)
  <1>1. PICK missed \in SUBSET reserved[r], stuck \in SUBSET (kept[r] \ {KeyOf[r]}) :
         /\ slips' = slips + Cardinality(missed) + Cardinality(stuck)
         /\ Reconcile(r, missed)
         /\ past' = [past EXCEPT ![r].counted = @ \cup (reserved[r] \ missed)]
    BY DEF Clear
  <1>2. /\ Cardinality(missed) \in Nat /\ (Cardinality(missed) = 0 => missed = {})
        /\ Cardinality(stuck) \in Nat /\ slips \in Nat
    <2>1. missed \subseteq OwnersOf(r) /\ stuck \subseteq OwnersOf(r)
      BY DEF CountingOK, Keeping
    <2> QED
      BY <2>1, FewOwners DEF CountingOK
  <1>3. slips' \in Nat /\ slips' >= slips /\ (slips' = 0 => missed = {})
    BY <1>1, <1>2
  <1>4. PICK place \in {"rebill", "freeKey"} : Step(r, place)
    BY DEF Clear
  <1>5. /\ past'[r].told = past[r].told /\ past'[r].counted = past[r].counted \cup (reserved[r] \ missed)
        /\ \A q \in Requests \ {r} : past'[q] = past[q]
    BY <1>1 DEF FlowInv, PastRecord
  <1>6. flow[r].at = "clear" /\ UNCHANGED stats /\ reserved' = [reserved EXCEPT ![r] = {}]
    BY DEF Clear, At
  <1>7. Orderly(r)
    BY <1>4, <1>5, <1>6, StepKeeps DEF Orderly, ForwardOK, KeepsText, Closing
  <1>8. LaneStep(r) /\ flow'[r].at \in Closing
    BY <1>4, <1>6, StepKeeps, LanesStay DEF Closing
  <1> QED
    BY <1>1, <1>3, <1>5, <1>6, <1>7, <1>8

\* The load of a channel, but for what it strayed by, stays the number of
\* requests it serves
LEMMA LanesFollow ==
    ASSUME LanesOK, NEW r \in Requests, Orderly(r), LaneStep(r)
    PROVE  LanesOK'
  <1> DEFINE On(ch) == {q \in Requests : ch \in flow[q].active}
  <1>1. ASSUME NEW ch \in Channels
        PROVE  inflight'[ch] = Cardinality(On(ch)') + strayed'[ch]
    <2>1. /\ inflight'[ch] - strayed'[ch] = inflight[ch] - strayed[ch] - Uses(r, ch) + Uses(r, ch)'
          /\ inflight[ch] \in Int /\ strayed[ch] \in Int /\ inflight'[ch] \in Int /\ strayed'[ch] \in Int
      BY DEF LaneStep, LanesOK
    <2>2. inflight[ch] = Cardinality(On(ch)) + strayed[ch] /\ IsFiniteSet(On(ch))
      BY ScopeAssumption, FS_Subset DEF LanesOK, LoadAccounted
    <2>a. Cardinality(On(ch)) \in Nat
      BY <2>2, FS_CardinalityType
    <2>3. \A q \in Requests \ {r} : flow'[q] = flow[q]
      BY DEF Orderly
    <2>4. CASE ch \in flow'[r].active
      <3>1. On(ch)' = On(ch) \cup {r}
        BY <2>3, <2>4
      <3>2. r \in On(ch) <=> Uses(r, ch) = 1
        BY DEF Uses
      <3>3. Uses(r, ch)' = 1 /\ Uses(r, ch) \in {0, 1}
        BY <2>4 DEF Uses
      <3> HIDE DEF On
      <3>4. Cardinality(On(ch) \cup {r}) = IF r \in On(ch) THEN Cardinality(On(ch)) ELSE Cardinality(On(ch)) + 1
        BY <2>2, FS_AddElement
      <3> QED
        BY <2>1, <2>2, <2>a, <3>1, <3>2, <3>3, <3>4
    <2>5. CASE ch \notin flow'[r].active
      <3>1. On(ch)' = On(ch) \ {r}
        BY <2>3, <2>5
      <3>2. r \in On(ch) <=> Uses(r, ch) = 1
        BY DEF Uses
      <3>3. Uses(r, ch)' = 0 /\ Uses(r, ch) \in {0, 1}
        BY <2>5 DEF Uses
      <3> HIDE DEF On
      <3>4. Cardinality(On(ch) \ {r}) = IF r \in On(ch) THEN Cardinality(On(ch)) - 1 ELSE Cardinality(On(ch))
        BY <2>2, FS_RemoveElement
      <3> QED
        BY <2>1, <2>2, <2>a, <3>1, <3>2, <3>3, <3>4
    <2> QED
      BY <2>4, <2>5
  <1>2. inflight' \in [Channels -> Int] /\ strayed' \in [Channels -> Int] /\ misses' \in Nat
    BY DEF LaneStep
  <1>3. misses' = 0 => \A ch \in Channels : strayed'[ch] = 0
    BY DEF LaneStep, LanesOK, LoadAccounted
  <1> QED
    BY <1>1, <1>2, <1>3 DEF LanesOK, LoadAccounted

\* A counter that expires strays by what it stood at.
LEMMA LoadLapses ==
    ASSUME LanesOK, NEW ch \in Channels, LapseLoad(ch)
    PROVE  LanesOK'
  <1>1. /\ inflight' = [inflight EXCEPT ![ch] = 0] /\ strayed' = [strayed EXCEPT ![ch] = strayed[ch] - inflight[ch]]
        /\ inflight \in [Channels -> Int] /\ strayed \in [Channels -> Int] /\ UNCHANGED flow
    BY DEF LapseLoad, LanesOK
  <1>2. inflight' \in [Channels -> Int] /\ strayed' \in [Channels -> Int] /\ misses' \in Nat /\ misses' # 0
    BY <1>1 DEF LapseLoad, LanesOK
  <1>3. \A c \in Channels : inflight'[c] - strayed'[c] = inflight[c] - strayed[c]
    BY <1>1
  <1> DEFINE on(c) == Cardinality({r \in Requests : c \in flow[r].active})
  <1>4. \A c \in Channels : on(c) \in Nat /\ inflight[c] = on(c) + strayed[c]
    BY ScopeAssumption, FS_Subset, FS_CardinalityType DEF LanesOK, LoadAccounted
  <1>5. \A c \in Channels : on(c)' = on(c)
    BY <1>1
  <1> HIDE DEF on
  <1>6. \A c \in Channels : inflight'[c] = on(c)' + strayed'[c]
    BY <1>1, <1>2, <1>3, <1>4, <1>5
  <1> QED
    BY <1>2, <1>6 DEF LanesOK, LoadAccounted, on

\* The estimate of a request is a number.
LEMMA EstimateNat == Estimate \in Nat
  BY FlowAssumption DEF Estimate

\* The sum changes by what the request's share does
LEMMA TokensFollow ==
    ASSUME TokensExact, FlowInv, FlowInv', NEW r \in Requests,
           \A q \in Requests \ {r} : flow'[q] = flow[q] /\ past'[q] = past[q] /\ reserved'[q] = reserved[q],
           slips' = 0 => slips = 0,
           slips' = 0 => \A o \in Owners :
               tpm'[o] = tpm[o] + (IF o \in OwnersOf(r) THEN Counted(r, o)' - Counted(r, o) ELSE 0)
    PROVE  TokensExact'
  <1> SUFFICES ASSUME slips' = 0, NEW o \in Owners
               PROVE  tpm'[o] = SumFunctionOnSet([q \in Requests |-> Counted(q, o)'], RowsOf(o))
    BY DEF TokensExact, RowsOf, OwnersOf
  <1> DEFINE S == RowsOf(o)
             f == [q \in Requests |-> Counted(q, o)]
             g == [q \in Requests |-> Counted(q, o)']
  <1>1. S \subseteq Requests /\ IsFiniteSet(S)
    BY ScopeAssumption, FS_Subset DEF RowsOf
  <1>2. \A q \in Requests : f[q] \in Int /\ g[q] \in Int /\ (q # r => g[q] = f[q])
    <2>1. Estimate \in Nat
      BY FlowAssumption DEF Estimate
    <2>2. \A q \in Requests : flow[q].due \in Nat /\ flow'[q].due \in Nat
      BY DEF FlowInv, FlowRecord
    <2> QED
      BY <2>1, <2>2 DEF Counted
  <1>3. tpm[o] = SumFunctionOnSet(f, S)
    BY DEF TokensExact
  <1>4. f[r] = Counted(r, o) /\ g[r] = Counted(r, o)' /\ (r \in S <=> o \in OwnersOf(r))
    BY DEF RowsOf
  <1>5. SumFunctionOnSet(f, S) \in Int
    <2> HIDE DEF S, f
    <2> QED
      BY <1>1, <1>2, SumType
  <1>6. CASE r \in S
    <2>1. SumFunctionOnSet(g, S) = SumFunctionOnSet(f, S) + (g[r] - f[r])
      <3>1. \A x \in S \ {r} : f[x] \in Int /\ g[x] = f[x]
        BY <1>1, <1>2
      <3>2. f[r] \in Int /\ g[r] \in Int
        BY <1>2
      <3> HIDE DEF S, f, g
      <3> QED
        BY <1>1, <1>6, <3>1, <3>2, SumChange
    <2>2. tpm'[o] = tpm[o] + (g[r] - f[r])
      BY <1>4, <1>6
    <2> HIDE DEF S, f, g
    <2>3. tpm'[o] = SumFunctionOnSet(g, S)
      BY <1>3, <2>1, <2>2
    <2> QED
      BY <2>3 DEF S, g
  <1>7. CASE r \notin S
    <2>1. SumFunctionOnSet(f, S) = SumFunctionOnSet(g, S)
      <3>1. \A x \in S : f[x] = g[x]
        BY <1>1, <1>2, <1>7
      <3> HIDE DEF S, f, g
      <3> QED
        BY <1>1, <3>1, SumSame
    <2>2. tpm'[o] = tpm[o] + 0
      BY <1>4, <1>7
    <2> HIDE DEF S, f, g
    <2>3. tpm'[o] = SumFunctionOnSet(g, S)
      BY <1>3, <1>5, <2>1, <2>2
    <2> QED
      BY <2>3 DEF S, g
  <1> QED
    BY <1>6, <1>7

\* The tokens counted are those of the requests that took them
TokenInv == CountingOK /\ TokensExact

\* A step that touches no token
LEMMA TokensStay ==
    ASSUME TokenInv, FlowInv, FlowInv', NEW r \in Requests, Moves(r)
    PROVE  TokenInv'
  <1>1. /\ \A q \in Requests \ {r} : flow'[q] = flow[q] /\ past'[q] = past[q]
        /\ flow[r].at \in Closing => flow'[r].at \in Closing /\ flow'[r].due = flow[r].due
        /\ flow'[r].at # "arrive" /\ (flow'[r].at = "keyTokens" => flow[r].at = "arrive")
        /\ flow'[r].at = "tenantTokens" => flow[r].at = "keyTokens"
        /\ past'[r].counted = past[r].counted /\ UNCHANGED <<tpm, reserved>> /\ slips' \in {slips, slips + 1}
    BY DEF Moves, Orderly
  <1>2. CountingOK'
    BY <1>1 DEF TokenInv, CountingOK
  <1>3. \A o : Counted(r, o)' = Counted(r, o)
    BY <1>1 DEF Counted, TokenInv, CountingOK
  <1>4. \A o \in Owners : tpm'[o] = tpm[o] + (IF o \in OwnersOf(r) THEN Counted(r, o)' - Counted(r, o) ELSE 0)
    <2>1. \A o : Counted(r, o) \in Int
      <3>1. flow[r].due \in Nat /\ Estimate \in Nat
        BY EstimateNat DEF FlowInv, FlowRecord
      <3> QED
        BY <3>1 DEF Counted
    <2>2. \A o \in Owners : tpm[o] \in Int
      BY DEF TokenInv, CountingOK
    <2> QED
      BY <1>1, <1>3, <2>1, <2>2
  <1>5. slips' = 0 => slips = 0
    BY <1>1 DEF TokenInv, CountingOK
  <1>6. TokensExact'
    BY <1>1, <1>4, <1>5, TokensFollow DEF TokenInv
  <1> QED
    BY <1>2, <1>6 DEF TokenInv

\* A request takes its estimate from the rate of its key or of its tenant
LEMMA TokensTaken ==
    ASSUME TokenInv, FlowInv, FlowInv', Reserving, ForwardOK, LanesOK, NEW r \in Requests,
           NEW here, NEW o, NEW next, TakeTokens(r, here, o, next),
           \/ here = "keyTokens" /\ o = KeyOf[r] /\ next = "tenantTokens"
           \/ here = "tenantTokens" /\ o = TenantOf[KeyOf[r]] /\ next = "reserve"
    PROVE  TokenInv' /\ Orderly(r) /\ LaneStep(r)
  <1>1. /\ Orderly(r) /\ past'[r].counted = past[r].counted /\ LaneStep(r)
        /\ slips' \in {slips, slips + 1} /\ o \in OwnersOf(r) /\ flow[r].at = here
    BY TakesTokens DEF TokenInv
  <1>2. \/ UNCHANGED <<tpm, reserved>> /\ flow'[r].at = next
        \/ /\ reserved' = [reserved EXCEPT ![r] = @ \cup {o}] /\ o \notin reserved[r]
           /\ tpm' = [tpm EXCEPT ![o] = @ + Estimate] /\ flow'[r].at = next
        \/ UNCHANGED reserved /\ flow'[r].at = "clear"
           /\ \/ UNCHANGED tpm
              \/ slips' = slips + 1 /\ tpm' = [tpm EXCEPT ![o] = @ + Estimate]
    BY TakesTokens DEF TokenInv
  <1>3. CASE UNCHANGED <<tpm, reserved>>
    BY <1>1, <1>3, TokensStay DEF Moves
  <1>4. /\ Estimate \in Nat /\ slips \in Nat /\ tpm \in [Owners -> Int] /\ o \in Owners
        /\ past[r].counted = {} /\ flow[r].at \notin Closing /\ reserved[r] \subseteq OwnersOf(r)
        /\ (here = "keyTokens" => reserved[r] = {}) /\ KeyOf[r] # TenantOf[KeyOf[r]]
    <2>1. flow[r].at \notin Closing
      BY <1>1 DEF Closing
    <2> QED
      BY <1>1, <2>1, FlowAssumption, ScopeAssumption, SMTT(60) DEF TokenInv, CountingOK, Estimate, Owners
  <1>5. \A q \in Requests \ {r} : flow'[q] = flow[q] /\ past'[q] = past[q]
    BY <1>1 DEF Orderly
  <1>6. CASE /\ reserved' = [reserved EXCEPT ![r] = @ \cup {o}] /\ o \notin reserved[r]
             /\ tpm' = [tpm EXCEPT ![o] = @ + Estimate] /\ flow'[r].at = next
    <2>1. reserved'[r] = reserved[r] \cup {o} /\ \A q \in Requests \ {r} : reserved'[q] = reserved[q]
      BY <1>6 DEF Reserving
    <2>2. \A x \in Owners : tpm'[x] = tpm[x] + (IF x = o THEN Estimate ELSE 0)
      BY <1>4, <1>6
    <2>3. \A x : Counted(r, x) = (IF x \in reserved[r] THEN Estimate ELSE 0)
                 /\ Counted(r, x)' = (IF x \in reserved[r] \cup {o} THEN Estimate ELSE 0)
      BY <1>1, <1>4, <2>1 DEF Counted
    <2>4. \A x \in Owners : tpm'[x] = tpm[x] + (IF x \in OwnersOf(r) THEN Counted(r, x)' - Counted(r, x) ELSE 0)
      BY <1>1, <1>4, <1>6, <2>2, <2>3
    <2>5. slips' = 0 => slips = 0
      BY <1>1, <1>4
    <2>6. TokensExact'
      BY <1>5, <2>1, <2>4, <2>5, TokensFollow DEF TokenInv
    <2>7. tpm' \in [Owners -> Int] /\ slips' \in Nat
      <3>1. tpm[o] + Estimate \in Int
        BY <1>4
      <3> QED
        BY <1>1, <1>4, <1>6, <3>1
    <2>8. next \notin {"arrive", "keyTokens"} /\ (next = "tenantTokens" => reserved'[r] \subseteq {KeyOf[r]})
      BY <1>4, <2>1
    <2>9. CountingOK'
      BY <1>1, <1>4, <1>5, <1>6, <2>1, <2>7, <2>8 DEF TokenInv, CountingOK
    <2> QED
      BY <1>1, <2>6, <2>9 DEF TokenInv
  <1>7. CASE /\ UNCHANGED reserved /\ flow'[r].at = "clear"
             /\ slips' = slips + 1 /\ tpm' = [tpm EXCEPT ![o] = @ + Estimate]
    <2>1. tpm' \in [Owners -> Int] /\ slips' \in Nat /\ slips' # 0
      <3>1. tpm[o] + Estimate \in Int
        BY <1>4
      <3> QED
        BY <1>4, <1>7, <3>1
    <2>2. CountingOK'
      BY <1>1, <1>5, <1>7, <2>1 DEF TokenInv, CountingOK, Closing
    <2> QED
      BY <1>1, <2>1, <2>2 DEF TokenInv, TokensExact
  <1> QED
    BY <1>2, <1>3, <1>6, <1>7

\* What was estimated becomes what is due
LEMMA TokensCleared ==
    ASSUME TokenInv, FlowInv, FlowInv', Reserving, Keeping, ForwardOK, LanesOK, NEW r \in Requests, Clear(r)
    PROVE  TokenInv' /\ Orderly(r) /\ LaneStep(r)
  <1>1. /\ Orderly(r) /\ LaneStep(r)
        /\ reserved' = [reserved EXCEPT ![r] = {}] /\ slips' \in Nat /\ slips' >= slips
        /\ flow[r].at = "clear" /\ flow'[r].at \in Closing
    BY ClearMoves DEF TokenInv
  <1>2. PICK missed \in SUBSET reserved[r] :
          /\ slips' = 0 => missed = {}
          /\ Reconcile(r, missed)
          /\ past'[r].counted = past[r].counted \cup (reserved[r] \ missed)
    BY ClearMoves DEF TokenInv
  <1>3. /\ \A q \in Requests \ {r} : flow'[q] = flow[q] /\ past'[q] = past[q]
        /\ flow'[r].due = flow[r].due
    BY <1>1 DEF Orderly, Closing
  <1>4. reserved'[r] = {} /\ \A q \in Requests \ {r} : reserved'[q] = reserved[q]
    BY <1>1 DEF Reserving
  <1>5. /\ Estimate \in Nat /\ slips \in Nat /\ \A o \in Owners : tpm[o] \in Int
        /\ flow[r].due \in Nat /\ reserved[r] \subseteq OwnersOf(r)
    BY EstimateNat DEF TokenInv, CountingOK, FlowInv, FlowRecord
  <1>6. \A o \in Owners : tpm'[o] = tpm[o] + IF o \in reserved[r] \ missed THEN flow[r].due - Estimate ELSE 0
    BY <1>2 DEF Reconcile
  <1>7. tpm' \in [Owners -> Int]
    <2>1. \A o \in Owners : tpm'[o] \in Int
      BY <1>5, <1>6
    <2> QED
      BY <1>2, <2>1 DEF Reconcile
  <1>8. CountingOK'
    BY <1>1, <1>3, <1>4, <1>7 DEF TokenInv, CountingOK, Closing
  <1>9. slips' = 0 => slips = 0
    BY <1>1, <1>5
  <1>10. ASSUME slips' = 0, NEW o \in Owners
         PROVE  tpm'[o] = tpm[o] + (IF o \in OwnersOf(r) THEN Counted(r, o)' - Counted(r, o) ELSE 0)
    <2>1. past'[r].counted = past[r].counted \cup reserved[r] /\ (o \in reserved[r] \ missed <=> o \in reserved[r])
      BY <1>2, <1>10
    <2>2. CASE o \in reserved[r]
      <3>1. Counted(r, o) = Estimate /\ Counted(r, o)' = flow[r].due /\ o \in OwnersOf(r)
        BY <1>3, <1>4, <1>5, <2>1, <2>2 DEF Counted
      <3> QED
        BY <1>5, <1>6, <2>1, <2>2, <3>1
    <2>3. CASE o \notin reserved[r]
      <3>1. Counted(r, o)' = Counted(r, o) /\ Counted(r, o) \in Int
        BY <1>3, <1>4, <1>5, <2>1, <2>3 DEF Counted
      <3> QED
        BY <1>5, <1>6, <2>1, <2>3, <3>1
    <2> QED
      BY <2>2, <2>3
  <1>11. TokensExact'
    <2>1. slips' = 0 => \A o \in Owners :
             tpm'[o] = tpm[o] + (IF o \in OwnersOf(r) THEN Counted(r, o)' - Counted(r, o) ELSE 0)
      BY <1>10
    <2> QED
      BY <1>3, <1>4, <1>9, <2>1, TokensFollow DEF TokenInv
  <1> QED
    BY <1>1, <1>8, <1>11 DEF TokenInv

\* The inductive invariant of the counters
CounterInv == FlowInv /\ Reserving /\ Keeping /\ ForwardOK /\ TokenInv /\ LanesOK

\* An orderly step forwards nothing that is not answered.
LEMMA ForwardStays ==
    ASSUME ForwardOK, NEW r \in Requests, Orderly(r)
    PROVE  ForwardOK'
  BY DEF ForwardOK, Orderly

\* Every step of a request is orderly, and keeps the counters accounted for
LEMMA RequestSteps ==
    ASSUME CounterInv, FlowInv', NEW r \in Requests, Arrive(r) \/ Proceed(r) \/ Disconnect(r)
    PROVE  ForwardOK' /\ TokenInv' /\ LanesOK' /\ Orderly(r)
  <1>1. CASE Moves(r)
    BY <1>1, ForwardStays, TokensStay, LanesFollow DEF CounterInv, Moves
  <1>2. CASE \/ TakeTokens(r, "keyTokens", KeyOf[r], "tenantTokens")
             \/ TakeTokens(r, "tenantTokens", TenantOf[KeyOf[r]], "reserve")
    <2>1. TokenInv' /\ Orderly(r) /\ LaneStep(r)
      BY <1>2, TokensTaken DEF CounterInv
    <2> QED
      BY <2>1, ForwardStays, LanesFollow DEF CounterInv
  <1>3. CASE Clear(r)
    <2>1. TokenInv' /\ Orderly(r) /\ LaneStep(r)
      BY <1>3, TokensCleared DEF CounterInv
    <2> QED
      BY <2>1, ForwardStays, LanesFollow DEF CounterInv
  <1>4. CASE Attempt(r)
    BY <1>1, <1>4, AttemptMoves DEF CounterInv
  <1>5. CASE Disconnect(r)
    BY <1>1, <1>5, EndMoves DEF CounterInv
  <1>6. CASE Arrive(r) \/ Admit(r)
    BY <1>1, <1>2, <1>6, AdmitMoves DEF CounterInv, Admit
  <1>7. CASE Conclude(r)
    BY <1>1, <1>3, <1>7, ConcludeMoves DEF CounterInv, Conclude
  <1> QED
    BY <1>4, <1>5, <1>6, <1>7 DEF Proceed

\* Every step keeps the counters accounted for.
LEMMA CounterStep ==
    ASSUME CounterInv, [NextFlow]_allVars
    PROVE  CounterInv'
  <1>1. FlowInv' /\ Reserving' /\ Keeping'
    BY FlowGood, ReservingStays, KeepingStays DEF CounterInv, Good
  <1>2. CASE UNCHANGED <<flow, reserved, tpm, stats, slips, past>>
    <2>1. ForwardOK' /\ LanesOK'
      BY <1>2 DEF CounterInv, ForwardOK, LanesOK, LoadAccounted, stats
    <2>2. CountingOK'
      BY <1>2 DEF CounterInv, TokenInv, CountingOK
    <2>3. TokensExact'
      BY <1>2 DEF CounterInv, TokenInv, TokensExact, Counted
    <2> QED
      BY <1>1, <2>1, <2>2, <2>3 DEF CounterInv, TokenInv
  <1>3. ASSUME NEW r \in Requests, Arrive(r) \/ Proceed(r) \/ Disconnect(r) PROVE CounterInv'
    BY <1>1, <1>3, RequestSteps DEF CounterInv
  <1>4. ASSUME NEW r \in Requests, NEW o \in OwnersOf(r), LapseSlot(r, o) PROVE CounterInv'
    BY <1>2, <1>4 DEF LapseSlot
  <1>5. CASE UNCHANGED allVars
    BY <1>2, <1>5 DEF allVars, flowVars
  <1>6. ASSUME NEW ch \in Channels, LapseLoad(ch) PROVE CounterInv'
    <2>1. LanesOK' /\ UNCHANGED <<flow, reserved, tpm, slips, past>>
      BY <1>6, LoadLapses DEF CounterInv, LapseLoad
    <2>2. ForwardOK' /\ CountingOK'
      BY <2>1 DEF CounterInv, TokenInv, ForwardOK, CountingOK
    <2>3. TokensExact'
      BY <2>1 DEF CounterInv, TokenInv, TokensExact, Counted
    <2> QED
      BY <1>1, <2>1, <2>2, <2>3 DEF CounterInv, TokenInv
  <1> QED
    BY <1>3, <1>4, <1>5, <1>6 DEF NextFlow

\* No request has begun and nothing is counted.
LEMMA CounterInit == InitFlow => CounterInv
  <1> SUFFICES ASSUME InitFlow PROVE CounterInv
    OBVIOUS
  <1>1. FlowInv /\ Reserving
    BY FlowBegins
  <1>2. /\ \A r \in Requests : flow[r] = Arriving /\ reserved[r] = {} /\ kept[r] = {} /\ past[r].counted = {} /\ past[r].told = "nothing"
        /\ tpm = [o \in Owners |-> 0] /\ inflight = [ch \in Channels |-> 0] /\ slips = 0
        /\ strayed = [ch \in Channels |-> 0] /\ misses = 0 /\ kept = [r \in Requests |-> {}]
    BY DEF InitFlow
  <1>3. /\ Arriving.at = "arrive" /\ ~Arriving.answered /\ ~Arriving.finished /\ Arriving.text = 0 /\ Arriving.active = {}
        /\ MaxText \in Nat
    BY FlowAssumption DEF Arriving
  <1>4. Keeping /\ ForwardOK /\ CountingOK
    BY <1>2, <1>3 DEF Keeping, ForwardOK, CountingOK
  <1>5. TokensExact
    <2> SUFFICES ASSUME NEW o \in Owners
                 PROVE  tpm[o] = SumFunctionOnSet([r \in Requests |-> Counted(r, o)], RowsOf(o))
      BY DEF TokensExact
    <2> DEFINE S == RowsOf(o)
               f == [r \in Requests |-> Counted(r, o)]
               g == [r \in Requests |-> 0]
    <2>1. S \subseteq Requests /\ IsFiniteSet(S)
      BY ScopeAssumption, FS_Subset DEF RowsOf
    <2>2. \A r \in S : f[r] = 0
      BY <1>2, <2>1 DEF Counted
    <2>3. SumFunctionOnSet(f, S) = 0
      <3> HIDE DEF S, f
      <3> QED
        BY <2>1, <2>2, SumZero
    <2> QED
      BY <1>2, <2>3
  <1>6. LanesOK
    <2>1. \A ch \in Channels : {r \in Requests : ch \in flow[r].active} = {}
      BY <1>2, <1>3
    <2>2. Cardinality({}) = 0
      BY FS_EmptySet
    <2>3. ASSUME NEW ch \in Channels
          PROVE  inflight[ch] = Cardinality({r \in Requests : ch \in flow[r].active}) + strayed[ch]
      <3>1. inflight[ch] = 0 /\ strayed[ch] = 0
        BY <1>2
      <3> QED
        BY <2>1, <2>2, <3>1
    <2>4. LoadAccounted
      BY <1>2, <2>3 DEF LoadAccounted
    <2>5. inflight \in [Channels -> Int] /\ strayed \in [Channels -> Int] /\ misses \in Nat
      BY <1>2
    <2> QED
      BY <2>4, <2>5 DEF LanesOK
  <1> QED
    BY <1>1, <1>4, <1>5, <1>6 DEF CounterInv, TokenInv

\* However a request fails over, breaks or is refused, the tokens it leaves
\* counted are those it was billed or estimated, as long as no correction
\* failed; and a channel's load is off by no more than the updates that were
\* lost and the expiries of its counter, whichever attempts they hit.
THEOREM CountersStayAccounted == SpecFlow => []CountersAccounted
  <1>1. CounterInv => CountersAccounted
    BY DEF CounterInv, TokenInv, LanesOK, CountersAccounted
  <1> QED
    BY <1>1, CounterInit, CounterStep, PTL DEF SpecFlow

----------------------------------------------------------------------------
(* What was forwarded is billed *)

\* Steps that bill nothing
NoBill ==
    /\ UNCHANGED bills /\ \A q \in Requests : hist'[q].learned = hist[q].learned
    /\ \A q \in Requests : phase'[q] = "rebill" => phase[q] = "rebill" \/ bills[q] = 1

\* Of the steps of the ledger only those of bill_request bill.
LEMMA LedgerBillsNot ==
    ASSUME PhaseOK, HistOK, NEW r \in Requests,
           \/ \E w \in Accepting : Reserve(r, w, Estimate) \/ Deny(r, w, Estimate)
           \/ Refuse(r) \/ BeforeSend(r) \/ RefuseSend(r) \/ ReleaseLease(r) \/ Abandon(r)
           \/ ApplyInRequest(r) \/ ApplyFails(r) \/ NoteInRequest(r) \/ UNCHANGED vars
    PROVE  NoBill
  <1>1. ASSUME NEW p, phase' = [phase EXCEPT ![r] = p], p = "rebill" => bills[r] = 1, UNCHANGED <<bills, hist>>
        PROVE  NoBill
    BY <1>1 DEF NoBill, PhaseOK
  <1>2. CASE \/ Refuse(r) \/ RefuseSend(r) \/ ReleaseLease(r) \/ Abandon(r)
             \/ \E w \in Accepting : Deny(r, w, Estimate)
    BY <1>1, <1>2 DEF Refuse, RefuseSend, ReleaseLease, Abandon, Deny
  <1>3. CASE \E w \in Accepting : Reserve(r, w, Estimate)
    <2>1. UNCHANGED bills /\ hist' = [hist EXCEPT ![r].estimate = Estimate]
      BY <1>3 DEF Reserve
    <2>2. \A q \in Requests : hist'[q].learned = hist[q].learned
      BY <2>1 DEF HistOK, History
    <2>3. PICK p \in {"held", "closed"} : phase' = [phase EXCEPT ![r] = p]
      BY <1>3 DEF Reserve
    <2> QED
      BY <2>1, <2>2, <2>3 DEF NoBill, PhaseOK
  <1>4. CASE BeforeSend(r)
    <2>1. UNCHANGED bills /\ hist' \in {hist, [hist EXCEPT ![r].reached = TRUE]}
      BY <1>4 DEF BeforeSend
    <2>2. \A q \in Requests : hist'[q].learned = hist[q].learned
      BY <2>1 DEF HistOK, History
    <2>3. PICK p \in {"sent", "refused"} : phase' = [phase EXCEPT ![r] = p]
      BY <1>4 DEF BeforeSend
    <2> QED
      BY <2>1, <2>2, <2>3 DEF NoBill, PhaseOK
  <1>5. CASE ApplyInRequest(r) \/ ApplyFails(r) \/ NoteInRequest(r)
    BY <1>1, <1>5 DEF ApplyInRequest, ApplyFails, NoteInRequest, Raised
  <1>6. CASE UNCHANGED vars
    BY <1>6 DEF vars, NoBill
  <1> QED
    BY <1>2, <1>3, <1>4, <1>5, <1>6

\* ... among the steps of a request, all but three
LEMMA RequestBillsNot ==
    ASSUME PhaseOK, HistOK, NEW r \in Requests, Arrive(r) \/ Proceed(r) \/ Disconnect(r),
           ~BillRequest(r), ~Rebill(r), ~CutOff(r)
    PROVE  NoBill
  <1>1. CASE Arrive(r) \/ Disconnect(r)
    BY <1>1, LedgerBillsNot DEF Arrive, Disconnect
  <1>2. CASE \/ TakeTokens(r, "keyTokens", KeyOf[r], "tenantTokens")
             \/ TakeTokens(r, "tenantTokens", TenantOf[KeyOf[r]], "reserve")
    BY <1>2, LedgerBillsNot DEF TakeTokens
  <1>3. CASE ReserveBudget(r)
    BY <1>3, LedgerBillsNot DEF ReserveBudget
  <1>4. CASE \/ TakeSlot(r, "tenantSlot", TenantOf[KeyOf[r]], "keySlot") \/ TakeSlot(r, "keySlot", KeyOf[r], "prepare")
             \/ NoSlot(r, "tenantSlot", TenantOf[KeyOf[r]]) \/ NoSlot(r, "keySlot", KeyOf[r]) \/ Prepare(r)
    BY <1>4, LedgerBillsNot DEF TakeSlot, NoSlot, Prepare
  <1>5. CASE Strand(r)
    BY <1>5, LedgerBillsNot DEF Strand
  <1>6. CASE Send(r)
    BY <1>6, LedgerBillsNot DEF Send
  <1>7. CASE \/ SelectKey(r) \/ NoProvider(r) \/ Unaccounted(r) \/ Answer(r) \/ Event(r) \/ Close(r) \/ Complete(r) \/ Scan(r)
             \/ RotateKey(r) \/ RetryChannel(r) \/ SwitchChannel(r) \/ GiveUp(r)
             \/ \E e \in Failing : Break(r, e) \/ ErrorEvent(r, e)
    <2>1. UNCHANGED vars
      BY <1>7 DEF SelectKey, NoProvider, Unaccounted, Answer, Event, Close, Complete, Scan, RotateKey, RetryChannel,
                  SwitchChannel, GiveUp, Break, ErrorEvent
    <2> QED
      BY <2>1, LedgerBillsNot
  <1>8. CASE Settle(r) \/ Clear(r) \/ FreeKey(r)
    BY <1>8, LedgerBillsNot DEF Settle, Clear, FreeKey
  <1>9. CASE HoldUnknown(r) \/ ReleaseBudget(r) \/ ApplyBill(r)
    BY <1>9, LedgerBillsNot DEF HoldUnknown, ReleaseBudget, ApplyBill
  <1> QED
    BY <1>1, <1>2, <1>3, <1>4, <1>5, <1>6, <1>7, <1>8, <1>9 DEF Proceed, Admit, Attempt, Conclude

\* A step that bills nothing leaves what was billed as it was
LEMMA BillStays ==
    ASSUME PhaseOK, BillOK, NoBill, NEW r \in Requests, Orderly(r)
    PROVE  BillOK'
  <1> SUFFICES ASSUME NEW q \in Requests
               PROVE  /\ phase'[q] = "rebill" => bills'[q] > 0
                      /\ bills'[q] > 0 => flow'[q].at \in Closing /\ hist'[q].learned \in {NoCost, Charge(q)'}
    BY DEF BillOK
  <1>1. bills'[q] = bills[q] /\ bills[q] \in 0..2 /\ hist'[q].learned = hist[q].learned
    BY DEF NoBill, PhaseOK
  <1>2. phase'[q] = "rebill" => bills[q] > 0
    BY <1>1 DEF NoBill, BillOK
  <1>3. ASSUME bills[q] > 0 PROVE flow'[q].at \in Closing /\ KeepsText(q)
    <2>1. flow[q].at \in Closing
      BY <1>3 DEF BillOK
    <2>2. CASE q = r
      BY <2>1, <2>2 DEF Orderly
    <2>3. CASE q # r
      BY <2>1, <2>3 DEF Orderly, KeepsText
    <2> QED
      BY <2>2, <2>3
  <1>4. ASSUME KeepsText(q) PROVE Charge(q)' = Charge(q)
    BY <1>4 DEF KeepsText, Charge
  <1> QED
    BY <1>1, <1>2, <1>3, <1>4 DEF BillOK

\* The bill of a request is its charge, or says that no price is known
LEMMA BillCharges ==
    ASSUME PhaseOK, HistOK, FlowInv, BillOK, NEW r \in Requests, BillRequest(r), Orderly(r)
    PROVE  BillOK'
  <1>1. PICK c \in {Charge(r), NoCost} \cap Costs : Bill(r, c)
    BY DEF BillRequest
  <1>2. /\ bills' = [bills EXCEPT ![r] = 1] /\ hist' = [hist EXCEPT ![r].learned = c]
        /\ phase' = [phase EXCEPT ![r] = "billing"]
    BY <1>1 DEF Bill
  <1> DEFINE f == [flow[r] EXCEPT !.at = "apply", !.due = Charge(r)]
  <1>3. f.at = "apply" /\ f.text = flow[r].text /\ f.reported = flow[r].reported /\ f.answered = flow[r].answered
    BY Knows DEF FlowRecord
  <1>4. Become(r, f)
    BY DEF BillRequest
  <1>5. flow'[r].at = "apply" /\ Charge(r)' = Charge(r)
    <2> HIDE DEF f
    <2>1. flow'[r] = f
      BY <1>4 DEF FlowInv, Become
    <2> QED
      BY <1>3, <2>1 DEF Charge
  <1> SUFFICES ASSUME NEW q \in Requests
               PROVE  /\ phase'[q] = "rebill" => bills'[q] > 0
                      /\ bills'[q] > 0 => flow'[q].at \in Closing /\ hist'[q].learned \in {NoCost, Charge(q)'}
    BY DEF BillOK
  <1>6. CASE q = r
    <2>1. hist'[r].learned = c /\ phase'[r] = "billing"
      BY <1>2 DEF HistOK, History, PhaseOK
    <2> QED
      BY <1>1, <1>5, <1>6, <2>1 DEF Closing
  <1>7. CASE q # r
    <2>1. bills'[q] = bills[q] /\ hist'[q] = hist[q] /\ phase'[q] = phase[q] /\ flow'[q] = flow[q]
      BY <1>2, <1>7 DEF PhaseOK, HistOK, Orderly
    <2> QED
      BY <2>1 DEF BillOK, Charge
  <1> QED
    BY <1>6, <1>7

\* What is billed again, or cut short, was billed its charge before
LEMMA BillRepeats ==
    ASSUME PhaseOK, HistOK, BillOK, NEW r \in Requests, Rebill(r) \/ CutOff(r), Orderly(r)
    PROVE  BillOK'
  <1>1. /\ bills' = [bills EXCEPT ![r] = 2] \/ UNCHANGED bills
        /\ bills' = bills \/ bills[r] > 0
        /\ UNCHANGED hist \/ hist' = [hist EXCEPT ![r].learned = Charge(r)]
        /\ phase' \in {phase, [phase EXCEPT ![r] = "billing"], [phase EXCEPT ![r] = "closed"]}
    <2>1. CASE Rebill(r)
      BY <2>1 DEF Rebill, BillAgain, BillOK
    <2>2. CASE CutOff(r)
      BY <2>2 DEF CutOff, CutShort, vars
    <2> QED
      BY <2>1, <2>2
  <1> SUFFICES ASSUME NEW q \in Requests
               PROVE  /\ phase'[q] = "rebill" => bills'[q] > 0
                      /\ bills'[q] > 0 => flow'[q].at \in Closing /\ hist'[q].learned \in {NoCost, Charge(q)'}
    BY DEF BillOK
  <1>2. CASE q = r
    <2>1. bills'[r] > 0 => bills[r] > 0
      BY <1>1 DEF PhaseOK
    <2>2. phase'[r] = "rebill" => bills'[r] > 0
      BY <1>1 DEF PhaseOK, BillOK
    <2>3. hist'[r].learned \in {hist[r].learned, Charge(r)}
      BY <1>1 DEF HistOK, History
    <2>4. ASSUME bills[r] > 0 PROVE flow'[r].at \in Closing /\ Charge(r)' = Charge(r)
      <3>1. flow'[r].at \in Closing /\ KeepsText(r)
        BY <2>4 DEF BillOK, Orderly
      <3> QED
        BY <3>1 DEF KeepsText, Charge
    <2> QED
      BY <1>2, <2>1, <2>2, <2>3, <2>4 DEF BillOK
  <1>3. CASE q # r
    <2>1. bills'[q] = bills[q] /\ hist'[q] = hist[q] /\ phase'[q] = phase[q] /\ flow'[q] = flow[q]
      BY <1>1, <1>3 DEF PhaseOK, HistOK, Orderly
    <2> QED
      BY <2>1 DEF BillOK, Charge
  <1> QED
    BY <1>2, <1>3

\* A bill is made once, of the charge of what was forwarded, and the request
\* is closing then.
LEMMA BillStep ==
    ASSUME Inv, CounterInv, BillOK, FlowInv', [NextFlow]_allVars
    PROVE  BillOK'
  <1>1. PhaseOK /\ HistOK /\ FlowInv
    BY DEF Inv, TypeInv, CounterInv
  <1>2. ASSUME NEW r \in Requests, Arrive(r) \/ Proceed(r) \/ Disconnect(r) PROVE BillOK'
    <2>1. Orderly(r)
      BY <1>2, RequestSteps
    <2>2. CASE BillRequest(r)
      BY <1>1, <2>1, <2>2, BillCharges
    <2>3. CASE Rebill(r) \/ CutOff(r)
      BY <1>1, <2>1, <2>3, BillRepeats
    <2>4. CASE ~BillRequest(r) /\ ~Rebill(r) /\ ~CutOff(r)
      <3>1. NoBill
        BY <1>1, <1>2, <2>4, RequestBillsNot
      <3> QED
        BY <1>1, <2>1, <3>1, BillStays
    <2> QED
      BY <2>2, <2>3, <2>4
  <1>3. CASE UNCHANGED <<vars, flow>>
    BY <1>3 DEF vars, BillOK, Charge
  <1>4. ASSUME NEW r \in Requests, NEW o \in OwnersOf(r), LapseSlot(r, o) PROVE BillOK'
    BY <1>3, <1>4 DEF LapseSlot
  <1>5. CASE UNCHANGED allVars
    BY <1>3, <1>5 DEF allVars, flowVars
  <1>6. ASSUME NEW ch \in Channels, LapseLoad(ch) PROVE BillOK'
    BY <1>3, <1>6 DEF LapseLoad
  <1> QED
    BY <1>2, <1>4, <1>5, <1>6 DEF NextFlow

\* Nothing is billed at first.
LEMMA BillInit == InitFlow => BillOK
  <1> SUFFICES ASSUME InitFlow PROVE BillOK
    OBVIOUS
  <1>1. \A r \in Requests : bills[r] = 0 /\ phase[r] = "new"
    BY DEF InitFlow, Init
  <1> QED
    BY <1>1 DEF BillOK

\* The charge of an answer covers it, when an upstream reports no less than it sent
LEMMA ChargeCovers ==
    ASSUME FlowInv, ForwardOK, ReportedInput > 0, EstimatedInput > 0, ReportedOutput >= MaxText,
           NEW r \in Requests, flow[r].answered
    PROVE  /\ Charge(r) > 0 /\ Charge(r) >= flow[r].text
           /\ flow[r].reported = {} => Charge(r) >= EstimatedInput + flow[r].text
  <1>1. ReportedInput \in Nat /\ ReportedOutput \in Nat /\ EstimatedInput \in Nat /\ MaxText \in Nat
    BY FlowAssumption
  <1>2. flow[r].text \in Nat /\ flow[r].text <= MaxText
    BY Knows DEF FlowRecord, ForwardOK
  <1> QED
    BY <1>1, <1>2 DEF Charge

\* Whatever reached the client is billed its charge, complete or broken off:
\* more than nothing, no less than the text, and the estimated input with it
\* when the upstream reported nothing.  What it reports is taken to be no less
\* than what it sent: the code bills the report, whatever it says.
THEOREM ForwardedIsBilled ==
    ASSUME ReportedInput > 0, EstimatedInput > 0, ReportedOutput >= MaxText
    PROVE  SpecFlow => []ForwardedBilled
  <1>1. FlowInv /\ ForwardOK /\ BillOK => ForwardedBilled
    <2> SUFFICES ASSUME FlowInv, ForwardOK, BillOK, NEW r \in Requests, bills[r] > 0,
                        past[r].told = "answer" \/ (r \in Streams /\ flow[r].answered)
                 PROVE  \/ hist[r].learned = NoCost
                        \/ /\ hist[r].learned > 0 /\ hist[r].learned >= flow[r].text
                           /\ flow[r].reported = {} => hist[r].learned >= EstimatedInput + flow[r].text
      BY DEF ForwardedBilled
    <2>1. flow[r].answered
      BY DEF ForwardOK
    <2>2. hist[r].learned \in {NoCost, Charge(r)}
      BY DEF BillOK
    <2> QED
      BY <2>1, <2>2, ChargeCovers
  <1>2. CounterInv => FlowInv /\ ForwardOK
    BY DEF CounterInv
  <1>3. InitFlow => Inv
    BY InitInv DEF InitFlow
  <1>4. Inv /\ [NextFlow]_allVars => Inv'
    BY StepInv, FlowStep
  <1> QED
    BY <1>1, <1>2, <1>3, <1>4, CounterInit, CounterStep, BillInit, BillStep, PTL DEF SpecFlow

----------------------------------------------------------------------------
(* Keys, tries and channels multiply no calls.  What was sent of a request  *)
(* is bounded by the calls of the candidates before the one it has come to, *)
(* and there by its tries and rotations so far.                             *)

\* The calls of the first n candidates of a request
CallsUpTo(r, n) == SumFunctionOnSet([i \in 1..Len(Candidates[r]) |-> Calls(r, i)], 1..n)

\* A failure after which the same candidate may be called again
Repeats(e) == e.status \in KeyStatuses \/ IsRetryable(e)

\* The tries and rotations of a request whose flow is f are within the bounds
\* of its channel, ...
Within(r, f) ==
    /\ f.attempt <= Retries[Candidates[r][f.cand]]
    /\ f.rotations < KeyCount[Candidates[r][f.cand]]

\* ... and there are as many of them as of the n calls, but for those of the
\* candidates before and the one under way
CallsOK(r, f, n) ==
    /\ n <= CallsUpTo(r, f.cand)
    /\ f.at \in Before => n <= CallsUpTo(r, f.cand - 1)
    /\ f.at = "send" => Within(r, f) /\ n <= CallsUpTo(r, f.cand - 1) + f.attempt + f.rotations
    /\ f.at = "upstream" \/ (f.at = "failed" /\ Repeats(f.error)) =>
          Within(r, f) /\ n <= CallsUpTo(r, f.cand - 1) + f.attempt + f.rotations + 1

\* So it is for every request
CallsInv == \A r \in Requests : CallsOK(r, flow[r], past[r].sent)

\* No candidate makes no calls, and one more adds its own.
LEMMA CallsGrow ==
    ASSUME NEW r \in Requests, NEW n \in 1..Len(Candidates[r])
    PROVE  /\ KeyCount[Candidates[r][n]] \in Nat \ {0} /\ Retries[Candidates[r][n]] \in Nat
           /\ CallsUpTo(r, n - 1) \in Nat
           /\ CallsUpTo(r, n) = CallsUpTo(r, n - 1) + KeyCount[Candidates[r][n]] + Retries[Candidates[r][n]]
           /\ CallsUpTo(r, 0) = 0
  <1> DEFINE f == [i \in 1..Len(Candidates[r]) |-> Calls(r, i)]
             S == 1..(n - 1)
  <1>1. Candidates[r] \in Seq(Channels) /\ n \in Nat
    BY FlowAssumption
  <1>2. \A i \in 1..Len(Candidates[r]) : Candidates[r][i] \in Channels
    BY <1>1
  <1>3. \A i \in 1..Len(Candidates[r]) : KeyCount[Candidates[r][i]] \in Nat \ {0} /\ Retries[Candidates[r][i]] \in Nat
    BY <1>2, FlowAssumption
  <1>4. \A i \in 1..Len(Candidates[r]) : f[i] \in Nat /\ f[i] = KeyCount[Candidates[r][i]] + Retries[Candidates[r][i]]
    BY <1>3 DEF Calls
  <1>5. S \subseteq 1..Len(Candidates[r]) /\ n \notin S /\ S \cup {n} = 1..n
    BY <1>1
  <1>6. IsFiniteSet(S)
    BY <1>1, FS_Interval
  <1>7. 1..0 = {}
    OBVIOUS
  <1>8. CallsUpTo(r, n - 1) = SumFunctionOnSet(f, S) /\ CallsUpTo(r, n) = SumFunctionOnSet(f, S \cup {n})
        /\ CallsUpTo(r, 0) = SumFunctionOnSet(f, {})
    BY <1>5, <1>7 DEF CallsUpTo
  <1> HIDE DEF f, S
  <1>9. SumFunctionOnSet(f, S) \in Nat
    BY <1>4, <1>5, <1>6, SumNat
  <1>10. SumFunctionOnSet(f, S \cup {n}) = f[n] + SumFunctionOnSet(f, S)
    <2>1. \A i \in S \cup {n} : f[i] \in Int
      BY <1>4, <1>5
    <2> QED
      BY <1>5, <1>6, <2>1, SumAdd
  <1>11. SumFunctionOnSet(f, {}) = 0
    BY SumEmpty
  <1> QED
    BY <1>3, <1>4, <1>8, <1>9, <1>10, <1>11

\* The numbers of a request
LEMMA CallsCount ==
    ASSUME FlowInv, NEW r \in Requests
    PROVE  /\ past[r].sent \in Nat /\ flow[r].attempt \in Nat /\ flow[r].rotations \in Nat
           /\ flow[r].cand \in 1..Len(Candidates[r]) /\ Len(Candidates[r]) \in Nat
  BY Knows DEF FlowRecord, PastRecord

\* A step of a request that neither goes to another attempt nor sends
Lasts(r) ==
    /\ flow'[r].cand = flow[r].cand /\ flow'[r].attempt = flow[r].attempt /\ flow'[r].rotations = flow[r].rotations
    /\ past'[r].sent = past[r].sent
    /\ flow'[r].at # "send"
    /\ flow'[r].at \in Before => flow[r].at \in Before
    /\ flow'[r].at = "upstream" => flow[r].at = "upstream"
    /\ flow'[r].at = "failed" /\ Repeats(flow'[r].error) => flow[r].at = "upstream"

\* Such a step keeps the count of calls.
LEMMA LastsOK ==
    ASSUME FlowInv, NEW r \in Requests, CallsOK(r, flow[r], past[r].sent), Lasts(r)
    PROVE  CallsOK(r, flow'[r], past'[r].sent)
  BY DEF CallsOK, Within, Lasts, Before

\* What changes of the history but the calls
KeepsSent(r) ==
    \/ UNCHANGED past
    \/ \E what : Tell(r, what)
    \/ \E e : Attempted(r, e)
    \/ \E n : past' = [past EXCEPT ![r].started = n]
    \/ \E c : past' = [past EXCEPT ![r].counted = c]

\* ... leaves their number.
LEMMA SentKept == ASSUME FlowInv, NEW r \in Requests, KeepsSent(r) PROVE past'[r].sent = past[r].sent
  <1>1. past[r] \in PastRecord /\ past \in [Requests -> PastRecord]
    BY DEF FlowInv
  <1>2. CASE UNCHANGED past
    BY <1>2
  <1>3. CASE \E what : Tell(r, what)
    BY <1>1, <1>3 DEF PastRecord, Tell
  <1>4. CASE \E e : Attempted(r, e)
    BY <1>1, <1>4 DEF PastRecord, Attempted
  <1>5. CASE \/ \E n : past' = [past EXCEPT ![r].started = n]
             \/ \E c : past' = [past EXCEPT ![r].counted = c]
    BY <1>1, <1>5 DEF PastRecord
  <1> QED
    BY <1>2, <1>3, <1>4, <1>5 DEF KeepsSent

\* A request that only changes its place,
LEMMA StepLasts ==
    ASSUME FlowInv, NEW r \in Requests, NEW place, Step(r, place), KeepsSent(r),
           place \notin {"send", "failed", "upstream"}, place \in Before => flow[r].at \in Before
    PROVE  Lasts(r)
  <1>1. /\ flow'[r].at = place /\ flow'[r].cand = flow[r].cand
        /\ flow'[r].attempt = flow[r].attempt /\ flow'[r].rotations = flow[r].rotations
    BY DEF FlowInv, FlowRecord, Step
  <1> QED
    BY <1>1, SentKept DEF Lasts

\* or another part of its record.
LEMMA BecomeLasts ==
    ASSUME FlowInv, NEW r \in Requests, NEW f, Become(r, f), KeepsSent(r),
           f.cand = flow[r].cand, f.attempt = flow[r].attempt, f.rotations = flow[r].rotations,
           f.at \notin Before \cup {"send"}, f.at = "upstream" => flow[r].at = "upstream",
           f.at = "failed" /\ Repeats(f.error) => flow[r].at = "upstream"
    PROVE  Lasts(r)
  <1>1. flow'[r] = f
    BY DEF FlowInv, Become
  <1> QED
    BY <1>1, SentKept DEF Lasts

\* Admission makes no call,
LEMMA AdmitLasts == ASSUME FlowInv, NEW r \in Requests, Admit(r) PROVE Lasts(r)
  <1>1. CASE TakeTokens(r, "keyTokens", KeyOf[r], "tenantTokens")
    BY <1>1, StepLasts DEF TakeTokens, At, Before, KeepsSent
  <1>2. CASE TakeTokens(r, "tenantTokens", TenantOf[KeyOf[r]], "reserve")
    BY <1>2, StepLasts DEF TakeTokens, At, Before, KeepsSent
  <1>3. CASE ReserveBudget(r)
    BY <1>3, StepLasts DEF ReserveBudget, At, Before, KeepsSent
  <1>4. CASE TakeSlot(r, "tenantSlot", TenantOf[KeyOf[r]], "keySlot")
    BY <1>4, StepLasts DEF TakeSlot, At, Before, KeepsSent
  <1>5. CASE TakeSlot(r, "keySlot", KeyOf[r], "prepare")
    BY <1>5, StepLasts DEF TakeSlot, At, Before, KeepsSent
  <1>6. CASE NoSlot(r, "tenantSlot", TenantOf[KeyOf[r]]) \/ NoSlot(r, "keySlot", KeyOf[r])
    BY <1>6, StepLasts DEF NoSlot, Before, KeepsSent
  <1>7. CASE Strand(r)
    BY <1>7, StepLasts DEF Strand, Before, KeepsSent
  <1>8. CASE Prepare(r)
    BY <1>8, StepLasts DEF Prepare, At, Before, KeepsSent
  <1> QED
    BY <1>1, <1>2, <1>3, <1>4, <1>5, <1>6, <1>7, <1>8 DEF Admit

\* nor does a key that cannot be chosen,
LEMMA NoKeyLasts ==
    ASSUME FlowInv, NEW r \in Requests, NEW e \in {NoReadyUpstreamKey, Unexpected}, KeepsSent(r),
           Become(r, [flow[r] EXCEPT !.at = "failed", !.error = e])
    PROVE  Lasts(r)
  <1> DEFINE f == [flow[r] EXCEPT !.at = "failed", !.error = e]
  <1>1. /\ f.at = "failed" /\ f.error = e /\ f.cand = flow[r].cand
        /\ f.attempt = flow[r].attempt /\ f.rotations = flow[r].rotations
    BY Knows DEF FlowRecord
  <1>2. Become(r, f)
    OBVIOUS
  <1> HIDE DEF f
  <1>3. ~Repeats(f.error)
    BY <1>1 DEF Repeats, KeyStatuses, IsRetryable, NoReadyUpstreamKey, Unexpected, Plain, Timeouts, NetworkErrors
  <1> QED
    BY <1>1, <1>2, <1>3, BecomeLasts DEF Before

\* an answer, a failure or the events of a stream,
LEMMA OutcomeLasts ==
    ASSUME FlowInv, NEW r \in Requests,
           \/ Answer(r) \/ Event(r) \/ Close(r) \/ \E e \in Failing : Break(r, e) \/ ErrorEvent(r, e)
    PROVE  Lasts(r)
  <1>1. flow[r].at = "upstream" /\ flow[r] \in FlowRecord
    BY Knows DEF Answer, Event, Close, Break, ErrorEvent, At
  <1>2. KeepsSent(r)
    BY DEF Answer, Event, Close, Break, ErrorEvent, KeepsSent
  <1>3. ASSUME NEW f, Become(r, f), f.at \in {"answered", "upstream", "ended", "failed"},
               f.cand = flow[r].cand, f.attempt = flow[r].attempt, f.rotations = flow[r].rotations
        PROVE  Lasts(r)
    BY <1>1, <1>2, <1>3, BecomeLasts DEF Before
  <1>4. CASE Answer(r)
    <2>1. PICK reported, n : Become(r, [flow[r] EXCEPT !.at = "answered", !.answered = TRUE, !.finished = TRUE,
                                          !.reported = reported, !.text = n, !.active = {}])
      BY <1>4 DEF Answer
    <2> QED
      BY <1>1, <1>3, <2>1 DEF FlowRecord
  <1>5. CASE Event(r)
    <2>1. \/ \E n, reported, finished :
               Become(r, [flow[r] EXCEPT !.answered = TRUE, !.text = n, !.reported = reported, !.finished = finished])
          \/ Become(r, [flow[r] EXCEPT !.at = "ended", !.answered = TRUE, !.finished = TRUE])
      BY <1>5 DEF Event
    <2> QED
      BY <1>1, <1>3, <2>1 DEF FlowRecord
  <1>6. CASE Close(r)
    <2>1. CASE Step(r, "ended")
      BY <1>2, <2>1, StepLasts DEF Before
    <2>2. CASE Become(r, [flow[r] EXCEPT !.at = "failed", !.error = Unfinished])
      BY <1>1, <1>3, <2>2 DEF FlowRecord
    <2> QED
      BY <1>6, <2>1, <2>2 DEF Close
  <1>7. ASSUME NEW e \in Failing, Break(r, e) \/ ErrorEvent(r, e) PROVE Lasts(r)
    <2>1. \/ \E active : Become(r, [flow[r] EXCEPT !.at = "failed", !.error = e, !.active = active])
          \/ Become(r, [flow[r] EXCEPT !.at = "failed", !.error = e, !.answered = TRUE])
      BY <1>7 DEF Break, ErrorEvent
    <2> QED
      BY <1>1, <1>3, <2>1 DEF FlowRecord
  <1> QED
    BY <1>4, <1>5, <1>6, <1>7

\* the refusal to account for a request, or its end,
LEMMA EndLasts ==
    ASSUME FlowInv, NEW r \in Requests,
           NoProvider(r) \/ Unaccounted(r) \/ Scan(r) \/ Complete(r) \/ GiveUp(r)
    PROVE  Lasts(r)
  <1>1. flow[r] \in FlowRecord /\ KeepsSent(r)
    BY Knows DEF NoProvider, Unaccounted, Scan, Complete, GiveUp, KeepsSent
  <1>2. CASE \/ Step(r, "release") \/ Step(r, "settle") \/ Step(r, "bill")
    BY <1>1, <1>2, StepLasts DEF Before
  <1>3. CASE Become(r, [flow[r] EXCEPT !.at = "failed", !.error = Unexpected])
    BY <1>1, <1>3, NoKeyLasts
  <1>4. ASSUME NEW f, Become(r, f), f.at \in {"release", "bill"},
               f.cand = flow[r].cand, f.attempt = flow[r].attempt, f.rotations = flow[r].rotations
        PROVE  Lasts(r)
    BY <1>1, <1>4, BecomeLasts DEF Before
  <1>5. CASE Become(r, [flow[r] EXCEPT !.at = "release", !.active = {}])
    BY <1>1, <1>4, <1>5 DEF FlowRecord
  <1>6. CASE Become(r, [flow[r] EXCEPT !.at = "bill", !.answered = FALSE, !.text = 0, !.reported = {}])
    BY <1>1, <1>4, <1>6 DEF FlowRecord
  <1> QED
    BY <1>2, <1>3, <1>5, <1>6 DEF NoProvider, Unaccounted, Scan, Complete, GiveUp

\* its bill, and its beginning.
LEMMA ConcludeLasts ==
    ASSUME FlowInv, NEW r \in Requests, Conclude(r) \/ Arrive(r) \/ Disconnect(r)
    PROVE  Lasts(r)
  <1>1. flow[r] \in FlowRecord
    BY Knows
  <1>2. KeepsSent(r)
    <2>1. CASE Clear(r)
      BY <2>1 DEF Clear, KeepsSent
    <2> QED
      BY <2>1 DEF Conclude, Settle, HoldUnknown, BillRequest, ApplyBill, ReleaseBudget, Rebill, FreeKey, CutOff,
                  Arrive, Disconnect, KeepsSent
  <1>3. CASE \E place \in Closing \cup {"settle"} : Step(r, place)
    BY <1>2, <1>3, StepLasts DEF Before, Closing
  <1>4. ASSUME NEW f, Become(r, f), f.at \in {"bill", "apply", "clear"},
               f.cand = flow[r].cand, f.attempt = flow[r].attempt, f.rotations = flow[r].rotations
        PROVE  Lasts(r)
    BY <1>2, <1>4, BecomeLasts DEF Before
  <1>5. CASE Become(r, [flow[r] EXCEPT !.at = "bill", !.active = {}])
    BY <1>1, <1>4, <1>5 DEF FlowRecord
  <1>6. ASSUME NEW place \in {"apply", "clear"}, NEW due, Become(r, [flow[r] EXCEPT !.at = place, !.due = due])
        PROVE  Lasts(r)
    BY <1>1, <1>4, <1>6 DEF FlowRecord
  <1>7. CASE Arrive(r)
    BY <1>2, <1>7, StepLasts DEF Arrive, At, Before
  <1>8. CASE Conclude(r) \/ Disconnect(r)
    BY <1>3, <1>5, <1>6, <1>8 DEF Closing, Conclude, Settle, HoldUnknown, BillRequest, ApplyBill, ReleaseBudget, Clear,
                                  Rebill, FreeKey, CutOff, Disconnect
  <1> QED
    BY <1>7, <1>8

\* The choice of a key begins the calls of a candidate,
LEMMA SelectCalls ==
    ASSUME FlowInv, NEW r \in Requests, CallsOK(r, flow[r], past[r].sent), SelectKey(r)
    PROVE  CallsOK(r, flow'[r], past'[r].sent)
  <1>1. flow[r].at = "select" /\ UNCHANGED past /\ flow[r] \in FlowRecord
    BY Knows DEF SelectKey, At
  <1>2. CASE Become(r, [flow[r] EXCEPT !.at = "send", !.attempt = 0, !.rotations = 0])
    <2>1. /\ flow'[r].at = "send" /\ flow'[r].cand = flow[r].cand
          /\ flow'[r].attempt = 0 /\ flow'[r].rotations = 0
      BY <1>1, <1>2 DEF FlowInv, FlowRecord, Become
    <2>2. past[r].sent <= CallsUpTo(r, flow[r].cand - 1) /\ past[r].sent <= CallsUpTo(r, flow[r].cand)
      BY <1>1 DEF CallsOK, Before
    <2>3. /\ KeyCount[Candidates[r][flow[r].cand]] \in Nat \ {0} /\ Retries[Candidates[r][flow[r].cand]] \in Nat
          /\ CallsUpTo(r, flow[r].cand - 1) \in Nat
      BY CallsCount, CallsGrow
    <2> QED
      BY <1>1, <2>1, <2>2, <2>3 DEF CallsOK, Within, Before
  <1>3. ASSUME NEW e \in {NoReadyUpstreamKey, Unexpected},
               Become(r, [flow[r] EXCEPT !.at = "failed", !.error = e])
        PROVE  CallsOK(r, flow'[r], past'[r].sent)
    <2>1. Lasts(r)
      BY <1>1, <1>3, NoKeyLasts DEF KeepsSent
    <2> QED
      BY <2>1, LastsOK
  <1> QED
    BY <1>2, <1>3 DEF SelectKey

\* a call counts as one,
LEMMA SendCalls ==
    ASSUME FlowInv, NEW r \in Requests, CallsOK(r, flow[r], past[r].sent), Send(r)
    PROVE  CallsOK(r, flow'[r], past'[r].sent)
  <1> DEFINE place == IF phase'[r] = "refused" THEN "refused" ELSE "upstream"
             sent == past[r].sent + (IF phase'[r] = "refused" THEN 0 ELSE 1)
  <1>1. /\ flow[r].at = "send" /\ past' = [past EXCEPT ![r].sent = sent]
        /\ Become(r, [flow[r] EXCEPT !.at = place, !.active = {Channel(r)}])
    BY DEF Send, At
  <1>2. /\ flow'[r].at = place /\ flow'[r].cand = flow[r].cand
        /\ flow'[r].attempt = flow[r].attempt /\ flow'[r].rotations = flow[r].rotations
    <2> HIDE DEF place, sent
    <2> QED
      BY <1>1, Knows DEF FlowInv, FlowRecord, Become
  <1>3. past'[r].sent = sent
    <2> HIDE DEF place, sent
    <2> QED
      BY <1>1 DEF FlowInv, PastRecord
  <1>4. Within(r, flow[r]) /\ past[r].sent <= CallsUpTo(r, flow[r].cand - 1) + flow[r].attempt + flow[r].rotations
        /\ past[r].sent <= CallsUpTo(r, flow[r].cand)
    BY <1>1 DEF CallsOK
  <1>5. /\ past[r].sent \in Nat /\ flow[r].attempt \in Nat /\ flow[r].rotations \in Nat
    BY CallsCount
  <1>6. /\ KeyCount[Candidates[r][flow[r].cand]] \in Nat \ {0} /\ Retries[Candidates[r][flow[r].cand]] \in Nat
        /\ CallsUpTo(r, flow[r].cand - 1) \in Nat
        /\ CallsUpTo(r, flow[r].cand) = CallsUpTo(r, flow[r].cand - 1)
             + KeyCount[Candidates[r][flow[r].cand]] + Retries[Candidates[r][flow[r].cand]]
    BY CallsCount, CallsGrow
  <1>7. CASE phase'[r] = "refused"
    <2>1. sent = past[r].sent /\ place = "refused"
      BY <1>5, <1>7
    <2> HIDE DEF sent, place
    <2> QED
      BY <1>2, <1>3, <1>4, <2>1 DEF CallsOK, Before
  <1>8. CASE phase'[r] # "refused"
    <2>1. sent = past[r].sent + 1 /\ place = "upstream"
      BY <1>8
    <2>2. sent <= CallsUpTo(r, flow[r].cand - 1) + flow[r].attempt + flow[r].rotations + 1
      BY <1>4, <1>5, <1>6, <2>1
    <2>3. sent <= CallsUpTo(r, flow[r].cand)
      BY <1>4, <1>5, <1>6, <2>1, <2>2 DEF Within
    <2> QED
      BY <1>2, <1>3, <1>4, <2>1, <2>2, <2>3 DEF CallsOK, Within, Before
  <1> QED
    BY <1>7, <1>8

\* and a rotation, a try or the next candidate makes room for the next.
LEMMA AgainCalls ==
    ASSUME FlowInv, NEW r \in Requests, CallsOK(r, flow[r], past[r].sent),
           RotateKey(r) \/ RetryChannel(r) \/ SwitchChannel(r)
    PROVE  CallsOK(r, flow'[r], past'[r].sent)
  <1>1. /\ flow[r].at = "failed" /\ UNCHANGED past /\ flow[r] \in FlowRecord
        /\ past[r].sent <= CallsUpTo(r, flow[r].cand)
    BY Knows DEF RotateKey, RetryChannel, SwitchChannel, At, CallsOK
  <1>2. /\ past[r].sent \in Nat /\ flow[r].attempt \in Nat /\ flow[r].rotations \in Nat
        /\ flow[r].cand \in 1..Len(Candidates[r]) /\ Len(Candidates[r]) \in Nat
    BY CallsCount
  <1>3. /\ KeyCount[Candidates[r][flow[r].cand]] \in Nat \ {0} /\ Retries[Candidates[r][flow[r].cand]] \in Nat
        /\ CallsUpTo(r, flow[r].cand - 1) \in Nat
    BY <1>2, CallsGrow
  <1>4. CASE RotateKey(r)
    <2>1. /\ flow[r].error.status \in KeyStatuses
          /\ flow[r].rotations < KeyCount[Candidates[r][flow[r].cand]] - 1
      BY <1>4 DEF RotateKey, CanRotate, Error, Pool, Channel
    <2>2. /\ flow'[r].at = "send" /\ flow'[r].cand = flow[r].cand
          /\ flow'[r].attempt = flow[r].attempt /\ flow'[r].rotations = flow[r].rotations + 1
      BY <1>1, <1>4 DEF RotateKey, FlowInv, FlowRecord, Become
    <2>3. Within(r, flow[r]) /\ past[r].sent <= CallsUpTo(r, flow[r].cand - 1) + flow[r].attempt + flow[r].rotations + 1
      BY <1>1, <2>1 DEF CallsOK, Repeats
    <2>4. Within(r, flow'[r])
      <3>1. flow[r].rotations + 1 < KeyCount[Candidates[r][flow[r].cand]]
        BY <1>2, <1>3, <2>1
      <3>2. flow[r].attempt <= Retries[Candidates[r][flow[r].cand]]
        BY <2>3 DEF Within
      <3> QED
        BY <2>2, <3>1, <3>2 DEF Within
    <2>5. past[r].sent <= CallsUpTo(r, flow[r].cand - 1) + flow'[r].attempt + flow'[r].rotations
      <3>1. \A n, u, a, b \in Nat : n <= u + a + b + 1 => n <= u + a + (b + 1)
        OBVIOUS
      <3>2. past[r].sent <= CallsUpTo(r, flow[r].cand - 1) + flow[r].attempt + (flow[r].rotations + 1)
        BY <1>2, <1>3, <2>3, <3>1
      <3> QED
        BY <2>2, <3>2
    <2> QED
      BY <1>1, <2>2, <2>4, <2>5 DEF CallsOK, Before
  <1>5. CASE RetryChannel(r)
    <2>1. /\ IsRetryable(flow[r].error)
          /\ flow[r].attempt < Retries[Candidates[r][flow[r].cand]]
      BY <1>5 DEF RetryChannel, CanRetry, Error, Channel
    <2>2. /\ flow'[r].at = "send" /\ flow'[r].cand = flow[r].cand
          /\ flow'[r].attempt = flow[r].attempt + 1 /\ flow'[r].rotations = flow[r].rotations
      BY <1>1, <1>5 DEF RetryChannel, FlowInv, FlowRecord, Become
    <2>3. Within(r, flow[r]) /\ past[r].sent <= CallsUpTo(r, flow[r].cand - 1) + flow[r].attempt + flow[r].rotations + 1
      BY <1>1, <2>1 DEF CallsOK, Repeats
    <2>4. Within(r, flow'[r])
      <3>1. flow[r].attempt + 1 <= Retries[Candidates[r][flow[r].cand]]
        BY <1>2, <1>3, <2>1
      <3>2. flow[r].rotations < KeyCount[Candidates[r][flow[r].cand]]
        BY <2>3 DEF Within
      <3> QED
        BY <2>2, <3>1, <3>2 DEF Within
    <2>5. past[r].sent <= CallsUpTo(r, flow[r].cand - 1) + flow'[r].attempt + flow'[r].rotations
      BY <1>2, <1>3, <2>2, <2>3
    <2> QED
      BY <1>1, <2>2, <2>4, <2>5 DEF CallsOK, Before
  <1>6. CASE SwitchChannel(r)
    <2>1. flow[r].cand + 1 \in 1..Len(Candidates[r]) /\ (flow[r].cand + 1) - 1 = flow[r].cand
      BY <1>2, <1>6 DEF SwitchChannel, CanSwitch
    <2>2. flow'[r].at = "select" /\ flow'[r].cand = flow[r].cand + 1
      BY <1>1, <1>6 DEF SwitchChannel, FlowInv, FlowRecord, Become
    <2>3. /\ CallsUpTo(r, flow[r].cand + 1) = CallsUpTo(r, flow[r].cand)
               + KeyCount[Candidates[r][flow[r].cand + 1]] + Retries[Candidates[r][flow[r].cand + 1]]
          /\ KeyCount[Candidates[r][flow[r].cand + 1]] \in Nat /\ Retries[Candidates[r][flow[r].cand + 1]] \in Nat
          /\ CallsUpTo(r, flow[r].cand) \in Nat
      BY <2>1, CallsGrow
    <2> QED
      BY <1>1, <1>2, <2>1, <2>2, <2>3 DEF CallsOK, Before
  <1> QED
    BY <1>4, <1>5, <1>6

\* Every step of a request keeps its count.
LEMMA RequestCalls ==
    ASSUME FlowInv, NEW r \in Requests, CallsOK(r, flow[r], past[r].sent), Arrive(r) \/ Proceed(r) \/ Disconnect(r)
    PROVE  CallsOK(r, flow'[r], past'[r].sent)
  <1>1. CASE SelectKey(r)
    BY <1>1, SelectCalls
  <1>2. CASE Send(r)
    BY <1>2, SendCalls
  <1>3. CASE RotateKey(r) \/ RetryChannel(r) \/ SwitchChannel(r)
    BY <1>3, AgainCalls
  <1>4. CASE Admit(r) \/ Conclude(r) \/ Arrive(r) \/ Disconnect(r)
    BY <1>4, LastsOK, AdmitLasts, ConcludeLasts
  <1>5. CASE \/ Answer(r) \/ Event(r) \/ Close(r) \/ \E e \in Failing : Break(r, e) \/ ErrorEvent(r, e)
             \/ NoProvider(r) \/ Unaccounted(r) \/ Scan(r) \/ Complete(r) \/ GiveUp(r)
    BY <1>5, LastsOK, OutcomeLasts, EndLasts
  <1> QED
    BY <1>1, <1>2, <1>3, <1>4, <1>5 DEF Proceed, Attempt

\* So does every step.
LEMMA CallsStep ==
    ASSUME CounterInv, FlowInv', CallsInv, [NextFlow]_allVars
    PROVE  CallsInv'
  <1>1. FlowInv
    BY DEF CounterInv
  <1>2. ASSUME NEW r \in Requests, Arrive(r) \/ Proceed(r) \/ Disconnect(r) PROVE CallsInv'
    <2>1. \A q \in Requests \ {r} : flow'[q] = flow[q] /\ past'[q] = past[q]
      BY <1>2, RequestSteps DEF Orderly
    <2>2. CallsOK(r, flow'[r], past'[r].sent)
      BY <1>1, <1>2, RequestCalls DEF CallsInv
    <2>3. \A q \in Requests : CallsOK(q, flow'[q], past'[q].sent)
      BY <2>1, <2>2 DEF CallsInv
    <2> QED
      BY <2>3 DEF CallsInv, CallsOK, CallsUpTo, Calls, Within
  <1>3. CASE UNCHANGED <<flow, past>>
    BY <1>3 DEF CallsInv, CallsOK, CallsUpTo, Calls, Within
  <1>4. ASSUME NEW r \in Requests, NEW o \in OwnersOf(r), LapseSlot(r, o) PROVE CallsInv'
    BY <1>3, <1>4 DEF LapseSlot
  <1>5. CASE UNCHANGED allVars
    BY <1>3, <1>5 DEF allVars, flowVars
  <1>6. ASSUME NEW ch \in Channels, LapseLoad(ch) PROVE CallsInv'
    BY <1>3, <1>6 DEF LapseLoad
  <1> QED
    BY <1>2, <1>4, <1>5, <1>6 DEF NextFlow

\* Nothing was sent at first.
LEMMA CallsInit == InitFlow => CallsInv
  <1> SUFFICES ASSUME InitFlow, NEW r \in Requests PROVE CallsOK(r, flow[r], past[r].sent)
    BY DEF CallsInv
  <1>1. flow[r] = Arriving /\ past[r].sent = 0
    BY DEF InitFlow
  <1>2. Arriving.at = "arrive" /\ Arriving.cand = 1
    BY DEF Arriving
  <1>3. 1 \in 1..Len(Candidates[r]) /\ 1 - 1 = 0
    BY FlowAssumption
  <1>4. CallsUpTo(r, 0) = 0 /\ CallsUpTo(r, 1) >= 0
    BY <1>3, CallsGrow
  <1> QED
    BY <1>1, <1>2, <1>3, <1>4 DEF CallsOK

\* However keys rotate, calls are repeated and channels switch, a request makes
\* no more upstream calls than its candidates have keys and retries in all, up
\* to the one it has come to: the loops of the proxy are nested, their bounds
\* add up.
THEOREM CallsStayBounded == SpecFlow => []CallsBounded
  <1>1. CallsInv => CallsBounded
    BY DEF CallsInv, CallsOK, CallsUpTo, CallsBounded
  <1>2. CounterInv => FlowInv
    BY DEF CounterInv
  <1> QED
    BY <1>1, <1>2, CounterInit, CounterStep, CallsInit, CallsStep, PTL DEF SpecFlow
=============================================================================
