---------------------------- MODULE Settlements ----------------------------
(***************************************************************************)
(* The settlement ledger of the gateway: the `settlements`, `tenants` and  *)
(* `api_keys` rows in MySQL, the usage a worker could not save and keeps   *)
(* in its memory, the coroutines that serve requests, the recovery loop of *)
(* every worker, and the operator's endpoints                              *)
(* (backend/app/services/settlements.py, the lease of services/quota.py,   *)
(* the billing tail of services/proxy.py, routers/settlements.py).         *)
(*                                                                         *)
(* One SQL statement, or one transaction under the row locks tenant ->     *)
(* key -> settlement, is one step.  Every statement may instead fault: the *)
(* connection fails before it takes effect, or after it with the reply     *)
(* lost.  Time is abstracted: a reservation may be older than the          *)
(* staleness cutoff, and a back-off may be over, at any moment.            *)
(***************************************************************************)
EXTENDS Integers, FiniteSets, FiniteSetsExt

CONSTANTS
    Tenants, Keys, Requests,
    Workers,      \* process lifetimes: a restarted worker has a new OWNER_ID
    TenantOf,     \* [Keys -> Tenants]
    KeyOf,        \* [Requests -> Keys]: the API key that signs a request
    Streams,      \* the requests served by stream_with_failover
    InitTotal,    \* [Tenants \cup Keys -> Nat \cup {Unlimited}]: quota_total
    Estimates,    \* estimates a reservation may be made for
    Costs,        \* costs usage may be priced at; NoCost if pricing may fail
    Totals,       \* values an administrator may set quota_total to
    Switched,     \* owners an administrator may disable and enable
    Operated,     \* requests whose rows an operator may retry or resolve
    Accepting,    \* workers that accept requests (in the code: all)
    Exiting,      \* workers that may crash
    Lapsing,      \* workers whose heartbeat may lapse while they live
    MaxAttempts,  \* MAX_ATTEMPTS (8 in the code)
    MaxFaults,    \* bound on the number of faults
    NoCost,       \* cost IS NULL
    Absent,       \* no entry in _unsaved
    NoOwner,      \* owner_id of a row that does not exist
    NoNote        \* no call of note_failure in progress

Owners    == Tenants \cup Keys
Actors    == Requests \cup Workers
Unlimited == -1

ASSUME ScopeAssumption ==
    /\ TenantOf \in [Keys -> Tenants]
    /\ KeyOf \in [Requests -> Keys]
    /\ Tenants \cap Keys = {}
    /\ Requests \cap Workers = {}
    /\ IsFiniteSet(Requests)
ASSUME AmountAssumption ==
    /\ Estimates \subseteq Nat /\ Costs \subseteq Nat \cup {NoCost}
    /\ Totals \subseteq Nat \cup {Unlimited}
    /\ InitTotal \in [Tenants \cup Keys -> Nat \cup {Unlimited}]
ASSUME BoundAssumption ==
    /\ Accepting \subseteq Workers /\ Operated \subseteq Requests /\ Switched \subseteq Owners
    /\ MaxAttempts \in Nat \ {0} /\ MaxFaults \in Nat
ASSUME NullAssumption ==
    /\ NoCost \notin Nat /\ Absent \notin Nat /\ NoCost # Absent
    /\ NoOwner \notin Workers
    /\ NoNote \notin [id : Requests, seen : Nat]

VARIABLES
    total, used, enabled,  \* quota_total, quota_used, is_enabled of an owner
    row,       \* the settlements table: one row per request_id
    unsaved,   \* _unsaved of the worker serving the request
    older,     \* entries inserted in that dict before the request's own
    todo,      \* flush_unsaved: the entries of list(_unsaved.items()) not yet written
    phase,     \* where the coroutine serving a request is
    bills,     \* calls of _bill_and_log for the request so far
    noting,    \* note_failure between its read and its update, per caller
    up,        \* the worker process runs
    beating,   \* its five:process:<id> key exists in Redis
    loop,      \* where its recovery_loop is
    exited,    \* recover_orphans: the owners it found without a heartbeat
    faults,    \* faults so far
    hist       \* history of a request, not read by any action

accounts == <<total, used, enabled>>
memory   == <<unsaved, older, todo>>
workers  == <<up, beating, loop, exited>>
vars == <<accounts, row, memory, phase, bills, noting, workers, faults, hist>>

----------------------------------------------------------------------------
(* Rows, and what an owner holds *)

States == {"none", "reserved", "pending", "failed", "uncertain", "settled", "released"}
OccupiedStates == {"reserved", "pending", "failed", "uncertain"}
Cost  == Nat \cup {NoCost}
Entry == Cost \cup {Absent}
Row   == [state : States, occupied : Nat, cost : Cost, owner : Workers \cup {NoOwner},
          dispatched : BOOLEAN, attempts : Nat]
NoRow == [state |-> "none", occupied |-> 0, cost |-> NoCost, owner |-> NoOwner,
          dispatched |-> FALSE, attempts |-> 0]

Serving == {"held", "refused", "sent", "billing", "noting", "rebill"}
Phases  == {"new", "denied", "closed", "gone"} \cup Serving
Flushes == {"flush", "reflush"}
Loops   == {"sleep", "orphans", "release", "uncertain", "recover", "note"} \cup Flushes
Note    == [id : Requests, seen : Nat]
History == [estimate : Nat, reached : BOOLEAN, learned : Cost, resolved : {"no", "release", "charge"}]

OwnersOf(r) == {KeyOf[r], TenantOf[KeyOf[r]]}
RowsOf(o)   == {r \in Requests : o \in OwnersOf(r)}
Server(r)   == row[r].owner
ServedBy(w) == {r \in Requests : Server(r) = w}

\* occupied(): what the requests of an owner hold and have not been charged
Occupied(o) == SumFunctionOnSet([r \in Requests |-> row[r].occupied],
                                {r \in RowsOf(o) : row[r].state \in OccupiedStates})

Fault == faults < MaxFaults /\ faults' = faults + 1
NoFault == UNCHANGED faults

Init ==
    /\ total = InitTotal
    /\ used = [o \in Owners |-> 0]
    /\ enabled = [o \in Owners |-> TRUE]
    /\ row = [r \in Requests |-> NoRow]
    /\ unsaved = [r \in Requests |-> Absent]
    /\ older = [r \in Requests |-> {}]
    /\ todo = [r \in Requests |-> Absent]
    /\ phase = [r \in Requests |-> "new"]
    /\ bills = [r \in Requests |-> 0]
    /\ noting = [a \in Actors |-> NoNote]
    /\ up = [w \in Workers |-> TRUE]
    /\ beating = [w \in Workers |-> TRUE]
    /\ loop = [w \in Workers |-> "sleep"]
    /\ exited = [w \in Workers |-> {}]
    /\ faults = 0
    /\ hist = [r \in Requests |-> [estimate |-> 0, reached |-> FALSE,
                                   learned |-> NoCost, resolved |-> "no"]]

----------------------------------------------------------------------------
(* reserve: one transaction under the tenant's and the key's row locks *)

\* Mutant of Admits: ignores what other requests of the owner hold
AdmitsByUsed(r, n) == \A o \in OwnersOf(r) :
    enabled[o] /\ (total[o] = Unlimited \/ used[o] + n <= total[o])

Admits(r, n) == \A o \in OwnersOf(r) :
    /\ enabled[o]
    /\ \/ total[o] = Unlimited
       \/ /\ used[o] + Occupied(o) + n <= total[o]
          /\ used[o] + Occupied(o) < total[o]

\* The reply to the commit may be lost: the lease then never learns that it
\* holds a reservation (lease.reserved stays False) and releases nothing.
Reserve(r, w, n) ==
    /\ phase[r] = "new" /\ up[w]
    /\ Admits(r, n)
    /\ row' = [row EXCEPT ![r] = [NoRow EXCEPT !.state = "reserved", !.occupied = n, !.owner = w]]
    /\ hist' = [hist EXCEPT ![r].estimate = n]
    /\ \/ phase' = [phase EXCEPT ![r] = "held"] /\ NoFault
       \/ phase' = [phase EXCEPT ![r] = "closed"] /\ Fault
    /\ UNCHANGED <<accounts, memory, bills, noting, workers>>

\* BudgetDenied, or the transaction rolls back
Deny(r, w, n) ==
    /\ phase[r] = "new" /\ up[w]
    /\ IF Admits(r, n) THEN Fault ELSE NoFault
    /\ phase' = [phase EXCEPT ![r] = "denied"]
    /\ UNCHANGED <<accounts, row, memory, bills, noting, workers, hist>>

\* begin_request_budget refuses before it reserves: the spend window is used
\* up (SpendWindows), the model has no price, or the token rate is exceeded
Refuse(r) ==
    /\ phase[r] = "new"
    /\ phase' = [phase EXCEPT ![r] = "denied"]
    /\ UNCHANGED <<accounts, row, memory, bills, noting, workers, faults, hist>>

----------------------------------------------------------------------------
(* The lease between the reservation and the upstream's answer *)

\* Mutant of BeforeSend: sends whether or not mark_dispatched found the row
SendAnyway(r) ==
    /\ phase[r] = "held"
    /\ row' = [row EXCEPT ![r].dispatched = TRUE]
    /\ phase' = [phase EXCEPT ![r] = "sent"]
    /\ hist' = [hist EXCEPT ![r].reached = TRUE]
    /\ UNCHANGED <<accounts, memory, bills, noting, workers, faults>>

\* before_send: mark_dispatched, then the upstream is called.  A row that is
\* no longer reserved, or a fault, refuses the request with a 503.
BeforeSend(r) ==
    /\ phase[r] = "held"
    /\ row[r].state = "reserved"
    /\ row' = [row EXCEPT ![r].dispatched = TRUE]
    /\ \/ /\ phase' = [phase EXCEPT ![r] = "sent"]
          /\ hist' = [hist EXCEPT ![r].reached = TRUE]
          /\ NoFault
       \/ phase' = [phase EXCEPT ![r] = "refused"] /\ Fault /\ UNCHANGED hist
    /\ UNCHANGED <<accounts, memory, bills, noting, workers>>

RefuseSend(r) ==
    /\ phase[r] = "held"
    /\ IF row[r].state = "reserved" THEN Fault ELSE NoFault
    /\ phase' = [phase EXCEPT ![r] = "refused"]
    /\ UNCHANGED <<accounts, row, memory, bills, noting, workers, hist>>

SetIfReserved(r, state, occupied) ==
    row' = [row EXCEPT ![r] = IF @.state = "reserved"
                              THEN [@ EXCEPT !.state = state, !.occupied = occupied] ELSE @]

\* lease.release before dispatch.  The caller swallows a fault (_quiet), and
\* the lease is already closed: nobody tries again.
ReleaseLease(r) ==
    /\ phase[r] = "held" \/ (phase[r] = "refused" /\ r \notin Streams)
    /\ \/ SetIfReserved(r, "released", 0) /\ NoFault
       \/ UNCHANGED row /\ Fault
    /\ phase' = [phase EXCEPT ![r] = "closed"]
    /\ UNCHANGED <<accounts, memory, bills, noting, workers, hist>>

\* lease.release after dispatch (abandon), or the uncertain branch of
\* _bill_and_log: the estimate stays held for reconciliation.
Abandon(r) ==
    /\ phase[r] = "sent"
    /\ \/ SetIfReserved(r, "uncertain", row[r].occupied) /\ NoFault
       \/ UNCHANGED row /\ Fault
    /\ phase' = [phase EXCEPT ![r] = "closed"]
    /\ UNCHANGED <<accounts, memory, bills, noting, workers, hist>>

----------------------------------------------------------------------------
(* mark_pending and persist_usage *)

\* Mutant of Recordable: the rows matched by the update are not counted
AlwaysRecordable(r) == row[r].state # "none"

\* mark_pending raises unless the row takes the usage or has it already
Recordable(r) == row[r].state \notin {"none", "released"}

\* Mutant of MarkPending: a row in any state takes the usage
PendingAgain(r, c) ==
    row' = [row EXCEPT ![r].state = "pending", ![r].cost = c,
                       ![r].occupied = IF c = NoCost THEN row[r].occupied ELSE c]

MarkPending(r, c) ==
    row' = [row EXCEPT ![r] =
              IF @.state \in {"reserved", "uncertain"}
              THEN [@ EXCEPT !.state = "pending", !.cost = c,
                             !.occupied = IF c = NoCost THEN row[r].occupied ELSE c]
              ELSE @]

\* _unsaved[r] = c, a dict that keeps the order of insertion
Remember(r, c) ==
    /\ unsaved' = [unsaved EXCEPT ![r] = c]
    /\ IF unsaved[r] = Absent
       THEN older' = [older EXCEPT ![r] = {q \in ServedBy(Server(r)) : unsaved[q] # Absent}]
       ELSE UNCHANGED older
    /\ UNCHANGED todo

\* _unsaved.pop(r, None)
Forget(r) ==
    /\ unsaved' = [unsaved EXCEPT ![r] = Absent]
    /\ older' = [q \in Requests |-> IF q = r THEN {} ELSE older[q] \ {r}]

PersistUsage(r, c) ==
    \/ Recordable(r) /\ MarkPending(r, c) /\ Forget(r) /\ UNCHANGED todo /\ NoFault
    \/ ~Recordable(r) /\ UNCHANGED row /\ Remember(r, c) /\ NoFault
    \/ UNCHANGED row /\ Remember(r, c) /\ Fault
    \/ Recordable(r) /\ MarkPending(r, c) /\ Remember(r, c) /\ Fault

\* _bill_and_log with what the upstream reported (NoCost: the price could not
\* be calculated), or with nothing when no upstream was ever called.
Billable(r, c) ==
    \/ phase[r] = "sent"
    \/ phase[r] = "held" /\ c = 0
    \/ phase[r] = "refused" /\ r \in Streams /\ c = 0

Bill(r, c) ==
    /\ Billable(r, c)
    /\ PersistUsage(r, c)
    /\ bills' = [bills EXCEPT ![r] = 1]
    /\ hist' = [hist EXCEPT ![r].learned = c]
    /\ phase' = [phase EXCEPT ![r] = "billing"]
    /\ UNCHANGED <<accounts, noting, workers>>

\* An exception that leaves the first _bill_and_log of execute_with_failover
\* lands in its `except Exception`, which bills the request again, at 0 tokens.
BillAgain(r) ==
    /\ phase[r] = "rebill"
    /\ PersistUsage(r, 0)
    /\ bills' = [bills EXCEPT ![r] = 2]
    /\ phase' = [phase EXCEPT ![r] = "billing"]
    /\ UNCHANGED <<accounts, noting, workers, hist>>

----------------------------------------------------------------------------
(* apply and note_failure *)

\* Mutant of Payable: the state is not checked again under the lock
PayableAgain(r) == row[r].cost # NoCost

Payable(r) == row[r].state = "pending" /\ row[r].cost # NoCost

\* The transaction: debit key and tenant, write the log, settle the row
Apply(r) ==
    IF Payable(r)
    THEN /\ used' = [o \in Owners |-> IF o \in OwnersOf(r) THEN used[o] + row[r].cost ELSE used[o]]
         /\ row' = [row EXCEPT ![r].state = "settled", ![r].occupied = 0]
    ELSE UNCHANGED <<used, row>>

\* Where an exception leaves the coroutine that serves r
Raised(r) == IF r \notin Streams /\ bills[r] = 1 THEN "rebill" ELSE "closed"

\* When the reply to the commit is lost, note_failure finds the row settled
\* and returns, or faults too.
ApplyInRequest(r) ==
    /\ phase[r] = "billing"
    /\ Apply(r)
    /\ \/ phase' = [phase EXCEPT ![r] = "closed"] /\ NoFault
       \/ phase' = [phase EXCEPT ![r] = Raised(r)] /\ Fault
    /\ UNCHANGED <<total, enabled, memory, bills, noting, workers, hist>>

\* apply rolls back; note_failure reads the row, or faults too
ApplyFails(r) ==
    /\ phase[r] = "billing"
    /\ Fault
    /\ \/ /\ row[r].state = "pending"
          /\ noting' = [noting EXCEPT ![r] = [id |-> r, seen |-> row[r].attempts]]
          /\ phase' = [phase EXCEPT ![r] = "noting"]
       \/ /\ row[r].state # "pending"
          /\ phase' = [phase EXCEPT ![r] = "closed"]
          /\ UNCHANGED noting
       \/ phase' = [phase EXCEPT ![r] = Raised(r)] /\ UNCHANGED noting
    /\ UNCHANGED <<accounts, row, memory, bills, workers, hist>>

\* Mutants of NoteFailure: whatever state the row is in by now; attempts lost
NoteAnyState(a) ==
    LET r == noting[a].id IN
    /\ row' = [row EXCEPT ![r].attempts = noting[a].seen + 1,
                          ![r].state = IF noting[a].seen + 1 >= MaxAttempts THEN "failed" ELSE "pending"]
    /\ noting' = [noting EXCEPT ![a] = NoNote]
NoteNothing(a) == noting' = [noting EXCEPT ![a] = NoNote] /\ UNCHANGED row

\* note_failure's update, with the number of attempts it read before
NoteFailure(a) ==
    LET r == noting[a].id
        n == noting[a].seen + 1 IN
    /\ row' = [row EXCEPT ![r] =
                 IF @.state = "pending"
                 THEN [@ EXCEPT !.attempts = n, !.state = IF n >= MaxAttempts THEN "failed" ELSE "pending"]
                 ELSE @]
    /\ noting' = [noting EXCEPT ![a] = NoNote]

NoteInRequest(r) ==
    /\ phase[r] = "noting"
    /\ \/ NoteFailure(r) /\ NoFault /\ phase' = [phase EXCEPT ![r] = "closed"]
       \/ NoteFailure(r) /\ Fault /\ phase' = [phase EXCEPT ![r] = Raised(r)]
       \/ /\ Fault /\ phase' = [phase EXCEPT ![r] = Raised(r)]
          /\ noting' = [noting EXCEPT ![r] = NoNote]
          /\ UNCHANGED row
    /\ UNCHANGED <<accounts, memory, bills, workers, hist>>

\* A stream bills under a shield of 30 seconds.  When they are over, the
\* statement awaited is cancelled, before or after it took effect, and the
\* cancellation is no Exception: nothing remembers the usage or the failure.
CutShort(r, c) ==
    /\ r \in Streams /\ Fault
    /\ \/ /\ Billable(r, c)
          /\ UNCHANGED row \/ (Recordable(r) /\ MarkPending(r, c))
          /\ hist' = [hist EXCEPT ![r].learned = c]
       \/ phase[r] \in {"billing", "noting"} /\ UNCHANGED <<row, hist>>
    /\ phase' = [phase EXCEPT ![r] = "closed"]
    /\ noting' = [noting EXCEPT ![r] = NoNote]
    /\ UNCHANGED <<accounts, memory, bills, workers>>

----------------------------------------------------------------------------
(* recovery_loop of worker w *)

Goto(w, at) == loop' = [loop EXCEPT ![w] = at]

\* flush_unsaved starts: at the top of the loop and again in recover_once
Snapshot(w) == todo' = [r \in Requests |-> IF Server(r) = w THEN unsaved[r] ELSE todo[r]]
DropSnapshot(w) == todo' = [r \in Requests |-> IF Server(r) = w THEN Absent ELSE todo[r]]

StartLoop(w) ==
    /\ up[w] /\ loop[w] = "sleep"
    /\ Snapshot(w) /\ Goto(w, "flush")
    /\ UNCHANGED <<accounts, row, unsaved, older, phase, bills, noting, up, beating, exited, faults, hist>>

\* One entry of flush_unsaved, in the order of the dict; whatever mark_pending
\* raises leaves the loop until the next round.
FlushOne(w, r) ==
    /\ up[w] /\ loop[w] \in Flushes
    /\ Server(r) = w /\ todo[r] # Absent
    /\ \A q \in older[r] : todo[q] = Absent
    /\ \/ /\ Recordable(r) /\ MarkPending(r, todo[r]) /\ NoFault
          /\ Forget(r)
          /\ todo' = [todo EXCEPT ![r] = Absent]
          /\ UNCHANGED loop
       \/ /\ \/ ~Recordable(r) /\ UNCHANGED row /\ NoFault
             \/ UNCHANGED row /\ Fault
             \/ Recordable(r) /\ MarkPending(r, todo[r]) /\ Fault
          /\ DropSnapshot(w) /\ Goto(w, "sleep")
          /\ UNCHANGED <<unsaved, older>>
    /\ UNCHANGED <<accounts, phase, bills, noting, up, beating, exited, hist>>

\* The flush ended.  At the top of the loop the claim is asked for: it is lost,
\* or recover_orphans runs; in recover_once the pending rows are read.
FlushDone(w, at) ==
    /\ up[w]
    /\ \/ loop[w] = "flush" /\ at \in {"sleep", "orphans"}
       \/ loop[w] = "reflush" /\ at = "recover"
    /\ \A r \in ServedBy(w) : todo[r] = Absent
    /\ Goto(w, at)
    /\ UNCHANGED <<accounts, row, memory, phase, bills, noting, up, beating, exited, faults, hist>>

\* recover_orphans reads the owners of old reservations and their heartbeats;
\* while these are unavailable every owner counts as alive.
FindOrphans(w) ==
    /\ up[w] /\ loop[w] = "orphans"
    /\ \/ /\ exited' = [exited EXCEPT ![w] =
                {v \in Workers \ {w} : ~beating[v] /\ \E r \in ServedBy(v) : row[r].state = "reserved"}]
          /\ NoFault
       \/ exited' = [exited EXCEPT ![w] = {}] /\ Fault
    /\ IF exited'[w] = {} THEN Snapshot(w) /\ Goto(w, "reflush")
                          ELSE UNCHANGED todo /\ Goto(w, "release")
    /\ UNCHANGED <<accounts, row, unsaved, older, phase, bills, noting, up, beating, hist>>

\* Mutant of TakeOver: dispatched rows are left to their dead owner
TakeOverUndispatched(w, dispatched, state) ==
    row' = [r \in Requests |->
              IF ~dispatched /\ row[r].state = "reserved" /\ Server(r) \in exited[w] /\ ~row[r].dispatched
              THEN [row[r] EXCEPT !.state = state, !.occupied = 0]
              ELSE row[r]]

TakeOver(w, dispatched, state) ==
    row' = [r \in Requests |->
              IF row[r].state = "reserved" /\ Server(r) \in exited[w] /\ row[r].dispatched = dispatched
              THEN [row[r] EXCEPT !.state = state, !.occupied = IF dispatched THEN row[r].occupied ELSE 0]
              ELSE row[r]]

\* ... and then updates their reservations: undispatched ones first
ReleaseUndispatched(w) ==
    /\ up[w] /\ loop[w] = "release"
    /\ TakeOver(w, FALSE, "released")
    /\ Goto(w, "uncertain")
    /\ UNCHANGED <<accounts, memory, phase, bills, noting, up, beating, exited, faults, hist>>

HoldDispatched(w) ==
    /\ up[w] /\ loop[w] = "uncertain"
    /\ TakeOver(w, TRUE, "uncertain")
    /\ exited' = [exited EXCEPT ![w] = {}]
    /\ Snapshot(w) /\ Goto(w, "reflush")
    /\ UNCHANGED <<accounts, unsaved, older, phase, bills, noting, up, beating, faults, hist>>

\* recover_once on one pending row of its batch; an unpriced row only counts
\* an attempt, and so does a fault of apply (note_failure reads the row).
RecoverRow(w, r) ==
    /\ up[w] /\ loop[w] = "recover"
    /\ row[r].state = "pending"
    /\ \/ /\ Payable(r) /\ Apply(r) /\ NoFault
          /\ UNCHANGED <<loop, noting>>
       \/ /\ IF Payable(r) THEN Fault ELSE NoFault
          /\ noting' = [noting EXCEPT ![w] = [id |-> r, seen |-> row[r].attempts]]
          /\ Goto(w, "note")
          /\ UNCHANGED <<used, row>>
    /\ UNCHANGED <<total, enabled, memory, phase, bills, up, beating, exited, hist>>

NoteInLoop(w) ==
    /\ up[w] /\ loop[w] = "note"
    /\ \/ NoteFailure(w) /\ NoFault /\ Goto(w, "recover")
       \/ NoteFailure(w) /\ Fault /\ Goto(w, "sleep")
       \/ noting' = [noting EXCEPT ![w] = NoNote] /\ UNCHANGED row /\ Fault /\ Goto(w, "sleep")
    /\ UNCHANGED <<accounts, memory, phase, bills, up, beating, exited, hist>>

\* The batch is done, or an exception ends the iteration
EndLoop(w) ==
    /\ up[w]
    /\ \/ loop[w] = "recover" /\ NoFault
       \/ loop[w] \in {"orphans", "release", "uncertain"} /\ Fault
    /\ exited' = [exited EXCEPT ![w] = {}]
    /\ Goto(w, "sleep")
    /\ UNCHANGED <<accounts, row, memory, phase, bills, noting, up, beating, hist>>

----------------------------------------------------------------------------
(* Heartbeats, crashes and graceful exits *)

Beat(w) ==
    /\ up[w] /\ ~beating[w]
    /\ beating' = [beating EXCEPT ![w] = TRUE]
    /\ UNCHANGED <<accounts, row, memory, phase, bills, noting, up, loop, exited, faults, hist>>

\* The key expires: the process is gone, or could not refresh it in time
Lapse(w) ==
    /\ beating[w] /\ (up[w] => w \in Lapsing)
    /\ beating' = [beating EXCEPT ![w] = FALSE]
    /\ UNCHANGED <<accounts, row, memory, phase, bills, noting, up, loop, exited, faults, hist>>

\* Everything in the memory of the process is lost with it
Stop(w) ==
    LET mine == ServedBy(w) IN
    /\ up' = [up EXCEPT ![w] = FALSE]
    /\ unsaved' = [r \in Requests |-> IF r \in mine THEN Absent ELSE unsaved[r]]
    /\ older' = [r \in Requests |-> IF r \in mine THEN {} ELSE older[r]]
    /\ DropSnapshot(w)
    /\ phase' = [r \in Requests |-> IF r \in mine /\ phase[r] \in Serving THEN "gone" ELSE phase[r]]
    /\ noting' = [a \in Actors |-> IF a = w \/ a \in mine THEN NoNote ELSE noting[a]]
    /\ exited' = [exited EXCEPT ![w] = {}]
    /\ Goto(w, "sleep")
    /\ UNCHANGED <<accounts, row, bills, faults, hist>>

Crash(w) ==
    /\ up[w] /\ w \in Exiting
    /\ Stop(w)
    /\ UNCHANGED beating

\* lifespan: drained requests, a last recover_once, then cluster.leave
Leave(w) ==
    /\ up[w] /\ w \in Exiting
    /\ loop[w] = "sleep"
    /\ \A r \in ServedBy(w) : phase[r] \notin Serving /\ unsaved[r] = Absent
    /\ Stop(w)
    /\ beating' = [beating EXCEPT ![w] = FALSE]

----------------------------------------------------------------------------
(* Operators and administrators *)

Retry(r) ==
    /\ row[r].state \in {"failed", "pending"} /\ row[r].cost # NoCost
    /\ row' = [row EXCEPT ![r].state = "pending", ![r].attempts = 0]
    /\ UNCHANGED <<accounts, memory, phase, bills, noting, workers, faults, hist>>

ResolveRelease(r) ==
    /\ row[r].state \in {"uncertain", "failed"}
    /\ row' = [row EXCEPT ![r].state = "released", ![r].occupied = 0]
    /\ hist' = [hist EXCEPT ![r].resolved = "release"]
    /\ UNCHANGED <<accounts, memory, phase, bills, noting, workers, faults>>

ResolveCharge(r) ==
    /\ row[r].state \in {"uncertain", "failed"} /\ row[r].cost = NoCost
    /\ row' = [row EXCEPT ![r].state = "pending", ![r].cost = row[r].occupied, ![r].attempts = 0]
    /\ hist' = [hist EXCEPT ![r].resolved = "charge"]
    /\ UNCHANGED <<accounts, memory, phase, bills, noting, workers, faults>>

\* adjust_quota of a tenant, update_key of a key, under the tenant's lock
SetTotal(o, n) ==
    /\ n # total[o]
    /\ IF n = Unlimited THEN o \in Keys ELSE n >= used[o] + Occupied(o)
    /\ total' = [total EXCEPT ![o] = n]
    /\ UNCHANGED <<used, enabled, row, memory, phase, bills, noting, workers, faults, hist>>

SetEnabled(o) ==
    /\ enabled' = [enabled EXCEPT ![o] = ~@]
    /\ UNCHANGED <<total, used, row, memory, phase, bills, noting, workers, faults, hist>>

----------------------------------------------------------------------------
Attend(r) ==
    \/ BeforeSend(r) \/ RefuseSend(r) \/ ReleaseLease(r) \/ Abandon(r)
    \/ \E c \in Costs \cup {0} : Bill(r, c) \/ CutShort(r, c)
    \/ BillAgain(r) \/ ApplyFails(r) \/ NoteInRequest(r)

Serve(r) ==
    \/ \E w \in Accepting, n \in Estimates : Reserve(r, w, n) \/ Deny(r, w, n)
    \/ Refuse(r)
    \/ Attend(r)
    \/ ApplyInRequest(r)

Sweep(w) ==
    \/ StartLoop(w) \/ FindOrphans(w) \/ ReleaseUndispatched(w)
    \/ HoldDispatched(w) \/ NoteInLoop(w) \/ EndLoop(w)
    \/ \E at \in {"sleep", "orphans", "recover"} : FlushDone(w, at)
    \/ \E r \in Requests : FlushOne(w, r)

Recovery(w) == Sweep(w) \/ \E r \in Requests : RecoverRow(w, r)

Process(w) == Beat(w) \/ Lapse(w) \/ Crash(w) \/ Leave(w)

Operate ==
    \/ \E r \in Operated : Retry(r) \/ ResolveRelease(r) \/ ResolveCharge(r)
    \/ \E o \in Owners, n \in Totals : SetTotal(o, n)
    \/ \E o \in Switched : SetEnabled(o)

Next ==
    \/ \E r \in Requests : Serve(r)
    \/ \E w \in Workers : Recovery(w) \/ Process(w)
    \/ Operate

Spec == Init /\ [][Next]_vars

\* What the event loop and Redis guarantee once faults end: a coroutine that is
\* billing continues, a live worker's loops run, a dead one's key expires, some
\* live worker gets the claim of every period, and its pass visits every row.
\* Clients, upstreams, operators and crashes owe nothing.
Fairness ==
    /\ \A r \in Requests :
         /\ WF_vars(BillAgain(r) \/ ApplyInRequest(r) \/ NoteInRequest(r))
         /\ SF_vars(\E w \in Workers : RecoverRow(w, r))
    /\ \A w \in Workers :
         WF_vars(Recovery(w)) /\ WF_vars(Beat(w)) /\ WF_vars(~up[w] /\ Lapse(w))
    /\ SF_vars(\E w \in Workers : FlushDone(w, "orphans"))
    /\ SF_vars(\E w \in Workers : FlushDone(w, "recover"))

FairSpec == Spec /\ Fairness

----------------------------------------------------------------------------
(* Properties *)

TypeOK ==
    /\ total \in [Owners -> Int] /\ used \in [Owners -> Nat] /\ enabled \in [Owners -> BOOLEAN]
    /\ row \in [Requests -> Row]
    /\ unsaved \in [Requests -> Entry] /\ todo \in [Requests -> Entry]
    /\ older \in [Requests -> SUBSET Requests]
    /\ phase \in [Requests -> Phases] /\ bills \in [Requests -> 0..2]
    /\ noting \in [Actors -> Note \cup {NoNote}]
    /\ up \in [Workers -> BOOLEAN] /\ beating \in [Workers -> BOOLEAN]
    /\ loop \in [Workers -> Loops] /\ exited \in [Workers -> SUBSET Workers]
    /\ faults \in Nat
    /\ hist \in [Requests -> History]

\* What the settled requests of an owner cost
Settled(o) == SumFunctionOnSet([r \in Requests |-> row[r].cost],
                               {r \in RowsOf(o) : row[r].state = "settled"})

\* Whatever interleaving of requests, recovery loops, faults, crashes and
\* operators led here, the quota an owner has used is the sum of the costs of
\* its settled requests: no charge is lost, doubled, or taken from only one
\* of key and tenant (apply runs from the request and from any worker).
LedgerBalanced == \A o \in Owners : used[o] = Settled(o)

\* How far a request's known cost exceeds what was reserved for it
Overrun(r) == IF row[r].cost \in Nat /\ row[r].state # "released"
              THEN Max({0, row[r].cost - hist[r].estimate}) ELSE 0

\* reserve never oversells: what an owner has used and holds stays within its
\* total, up to the amounts by which single requests cost more than they
\* reserved; concurrent requests of several keys and workers cannot pass it.
QuotaBound == \A o \in Owners :
    total[o] # Unlimited =>
        used[o] + Occupied(o) <= total[o] + SumFunctionOnSet([r \in Requests |-> Overrun(r)], RowsOf(o))

\* A hold is freed only where the upstream was never called, or by an
\* operator's decision: neither a lapsed heartbeat of a live worker, nor a
\* takeover racing mark_dispatched, releases the hold of work that may have
\* been charged upstream.
ReleasedUnsent == \A r \in Requests :
    row[r].state = "released" /\ hist[r].reached => hist[r].resolved = "release"

Recorded(r, c) == row[r].state \in {"pending", "failed", "settled"} /\ row[r].cost = c

\* While its worker lives, usage that was priced is never lost between the
\* row and the worker's memory: the row has it, or the dict or the flush in
\* progress does, unless an operator decided the row first.  (Requests billed
\* twice are left to ActualUsageKept; a stream cut short before its usage was
\* saved has bills = 0, and only its hold remains.)
UsageKept == \A r \in Requests :
    hist[r].learned # NoCost /\ bills[r] = 1 /\ phase[r] # "gone" /\ hist[r].resolved = "no"
        => Recorded(r, hist[r].learned) \/ unsaved[r] = hist[r].learned \/ ~up[Server(r)]

\* What a row holds follows from its state: the estimate while the usage is
\* unknown, the known cost while the charge is outstanding, nothing after.
HoldMatchesState == \A r \in Requests :
    /\ row[r].state \in {"none", "settled", "released"} => row[r].occupied = 0
    /\ row[r].state \in {"reserved", "uncertain"} =>
          row[r].cost = NoCost /\ row[r].occupied = hist[r].estimate
    /\ row[r].state \in {"pending", "failed"} =>
          row[r].occupied = IF row[r].cost = NoCost THEN hist[r].estimate ELSE row[r].cost
    /\ row[r].state = "settled" => row[r].cost # NoCost

\* A settled row is never touched again and a released one never charged: late
\* usage, a stale recovery batch or a stale note_failure cannot reopen them.
\* A known cost never changes.
FinalRows == [][\A r \in Requests :
    /\ row[r].state \in {"settled", "released"} => row'[r] = row[r]
    /\ row[r].cost # NoCost => row'[r].cost = row[r].cost]_vars

\* The journal entry a row stands for
EntryOf(r) ==
    CASE row[r].state = "none"     -> [at |-> "none", price |-> NoCost]
      [] row[r].state = "released" -> [at |-> "freed", price |-> NoCost]
      [] row[r].state = "settled"  -> [at |-> "charged", price |-> row[r].cost]
      [] OTHER -> [at |-> IF row[r].cost = NoCost THEN "held" ELSE "owed", price |-> row[r].cost]

Abstract == INSTANCE Ledger WITH
    Payers <- [r \in Requests |-> OwnersOf(r)],
    entry  <- [r \in Requests |-> EntryOf(r)]

\* Settlements implements the abstract ledger: requests, retries, recovery and
\* operators together charge every hold at most once, at the one price that
\* was recorded for it, to key and tenant together, and never a freed one.
ImplementsLedger == Abstract!Spec

\* The worker's own promise when it cannot save usage ("The durable
\* reservation remains occupied. Retry saving actual usage in this process."):
\* while the worker lives the request is charged what it used.
ActualUsageKept == \A r \in Requests :
    hist[r].learned # NoCost /\ row[r].state = "settled" /\ hist[r].resolved = "no"
        => row[r].cost = hist[r].learned

\* A worker whose dict has an entry for a row that was released meanwhile:
\* mark_pending raises for it on every flush, and ends every iteration
Stuck(w) == \E r \in ServedBy(w) : unsaved[r] # Absent /\ row[r].state = "released"
NobodyRecovers == \A w \in Workers : up[w] => Stuck(w)

\* A reservation whose worker is gone is eventually taken over by another
\* worker (released or uncertain), unless no live worker's loop gets that far.
OrphansTakenOver == \A r \in Requests :
    (phase[r] = "gone" /\ row[r].state = "reserved") ~> (row[r].state # "reserved" \/ NobodyRecovers)

\* Saved usage never waits forever: it is settled, fails for good after the
\* attempts are exhausted, or an operator decides it.
PendingDecided == \A r \in Requests :
    (row[r].state = "pending") ~> (row[r].state # "pending" \/ NobodyRecovers)

\* flush_unsaved: "every worker retries its own" until the row has the usage
UnsavedRetried == \A r \in Requests :
    (unsaved[r] # Absent /\ row[r].state \in {"reserved", "uncertain"})
        ~> (unsaved[r] = Absent \/ row[r].state \notin {"reserved", "uncertain"})

\* A request that was sent and whose coroutine is over without an answer is
\* marked uncertain, for reconciliation.
UnknownMarked == \A r \in Requests :
    (phase[r] = "closed" /\ row[r].state = "reserved" /\ row[r].dispatched)
        ~> (row[r].state # "reserved" \/ NobodyRecovers)

\* README: a balance can go negative by at most one request
OverdraftOfOneRequest == \A o \in Owners :
    total[o] # Unlimited /\ used[o] > total[o] =>
        \E r \in RowsOf(o) : row[r].state = "settled" /\ used[o] - total[o] <= row[r].cost

=============================================================================
