---------------------------- MODULE SpendWindows ----------------------------
(***************************************************************************)
(* Rolling spend caps (services/spend_windows.py) around the settlement    *)
(* ledger: the check begin_request_budget makes before it reserves, and    *)
(* record_windows, which adds a settled cost to hourly Redis counters      *)
(* after the settlement has committed, from the request or from recovery.  *)
(*                                                                         *)
(* One window per owner stands for the three of the code.                  *)
(***************************************************************************)
EXTENDS Settlements

CONSTANTS
    Cap,        \* [Owners -> Int]: window_limits, Unlimited or a cap
    Window,     \* hours a window covers, the current one included (168 at most)
    BucketTTL,  \* hours a counter and a request's marker live (192)
    MaxHour,    \* bound on time
    MaxMisses   \* bound on the faults of record_windows

ASSUME WindowAssumption ==
    /\ Cap \in [Owners -> Int]
    /\ Window \in Nat \ {0} /\ BucketTTL \in Nat /\ MaxHour \in Nat /\ MaxMisses \in Nat
    /\ BucketTTL >= Window

Hours == 0..MaxHour

VARIABLES
    hour,      \* the current hour
    made,      \* the hour of created_at of a row; of now while there is none
    seen,      \* what an owner was found to hold, before its window is read
    cleared,   \* owners whose window a request was found to fit
    bucket,    \* the counter of an owner and an hour
    expiry,    \* the hour in which that counter expires
    marker,    \* five:settled:<request>: the hour it expires
    recorded,  \* windows_recorded
    recording, \* record_windows in progress: the request, and what comes next
    misses     \* its faults so far

windowVars == <<hour, made, seen, cleared, bucket, expiry, marker, recorded, recording, misses>>
allVars == <<vars, windowVars>>

NotRead == -1
Idle == [id |-> NoNote, next |-> "nothing"]
Recording == {Idle} \cup [id : Requests, next : {"script", "flag"}]

InitWindows ==
    /\ Init
    /\ hour = 0
    /\ made = [r \in Requests |-> 0]
    /\ seen = [r \in Requests |-> NotRead]
    /\ cleared = [r \in Requests |-> {}]
    /\ bucket = [o \in Owners |-> [h \in Hours |-> 0]]
    /\ expiry = [o \in Owners |-> [h \in Hours |-> 0]]
    /\ marker = [r \in Requests |-> 0]
    /\ recorded = [r \in Requests |-> FALSE]
    /\ recording = [a \in Actors |-> Idle]
    /\ misses = 0

\* An hour passes: counters expire, markers are compared with the hour
Tick ==
    /\ hour < MaxHour
    /\ hour' = hour + 1
    /\ made' = [r \in Requests |-> IF row[r].state = "none" THEN hour' ELSE made[r]]
    /\ bucket' = [o \in Owners |-> [h \in Hours |-> IF expiry[o][h] <= hour' THEN 0 ELSE bucket[o][h]]]
    /\ UNCHANGED <<vars, seen, cleared, expiry, marker, recorded, recording, misses>>

----------------------------------------------------------------------------
(* The check, before the reservation and outside its locks *)

InWindow(h) == h \in (hour - Window + 1)..hour
Spent(o) == SumFunctionOnSet(bucket[o], {h \in Hours : InWindow(h)})
Capped(r) == {o \in OwnersOf(r) : Cap[o] # Unlimited}

\* The key comes first, then its tenant
NextScope(r) == IF KeyOf[r] \in Capped(r) \ cleared[r] THEN KeyOf[r] ELSE TenantOf[KeyOf[r]]

ReadHeld(r) ==
    /\ phase[r] = "new" /\ cleared[r] # Capped(r) /\ seen[r] = NotRead
    /\ seen' = [seen EXCEPT ![r] = Occupied(NextScope(r))]
    /\ UNCHANGED <<vars, hour, made, cleared, bucket, expiry, marker, recorded, recording, misses>>

CheckWindow(r) ==
    /\ phase[r] = "new" /\ seen[r] # NotRead
    /\ LET o == NextScope(r) IN
         IF Spent(o) + seen[r] >= Cap[o]
         THEN Refuse(r) /\ UNCHANGED cleared
         ELSE cleared' = [cleared EXCEPT ![r] = @ \cup {o}] /\ UNCHANGED vars
    /\ seen' = [seen EXCEPT ![r] = NotRead]
    /\ UNCHANGED <<hour, made, bucket, expiry, marker, recorded, recording, misses>>

ReserveChecked(r, w, n) ==
    /\ cleared[r] = Capped(r)
    /\ Reserve(r, w, n) \/ Deny(r, w, n) \/ Refuse(r)
    /\ UNCHANGED windowVars

----------------------------------------------------------------------------
(* record_windows *)

\* apply debited the request in this very call, and returned
Debited(r) == row[r].state # "settled" /\ row'[r].state = "settled" /\ faults' = faults

StartRecording(a, r) ==
    recording' = [recording EXCEPT ![a] = [id |-> r, next |-> "script"]]

Settle(a, r) ==
    /\ recording[a] = Idle
    /\ \/ a = r /\ ApplyInRequest(r)
       \/ a \in Workers /\ RecoverRow(a, r)
    /\ IF Debited(r) THEN StartRecording(a, r) ELSE UNCHANGED recording
    /\ UNCHANGED <<hour, made, seen, cleared, bucket, expiry, marker, recorded, misses>>

\* Mutant of Revisit: only the caller of apply ever records
RevisitNever(w, r) == FALSE /\ UNCHANGED allVars

\* recover_once reads the settled rows whose windows are not recorded
Revisit(w, r) ==
    /\ up[w] /\ loop[w] = "recover" /\ recording[w] = Idle
    /\ row[r].state = "settled" /\ ~recorded[r]
    /\ StartRecording(w, r)
    /\ UNCHANGED <<vars, hour, made, seen, cleared, bucket, expiry, marker, recorded, misses>>

Unmarked(r) == marker[r] <= hour

\* Mutant of AddSpend: the marker lives for an hour only
AddSpendBriefly(r) ==
    IF Unmarked(r)
    THEN LET h == made[r] IN
         /\ marker' = [marker EXCEPT ![r] = hour + 1]
         /\ bucket' = [o \in Owners |-> [bucket[o] EXCEPT ![h] =
                         IF o \in OwnersOf(r) THEN bucket[o][h] + row[r].cost ELSE bucket[o][h]]]
         /\ expiry' = [o \in Owners |-> [expiry[o] EXCEPT ![h] =
                         IF o \in OwnersOf(r) THEN hour + BucketTTL ELSE expiry[o][h]]]
    ELSE UNCHANGED <<marker, bucket, expiry>>

\* The script: one marker and both counters change atomically
AddSpend(r) ==
    IF Unmarked(r)
    THEN LET h == made[r] IN
         /\ marker' = [marker EXCEPT ![r] = hour + BucketTTL]
         /\ bucket' = [o \in Owners |-> [bucket[o] EXCEPT ![h] =
                         IF o \in OwnersOf(r) THEN bucket[o][h] + row[r].cost ELSE bucket[o][h]]]
         /\ expiry' = [o \in Owners |-> [expiry[o] EXCEPT ![h] =
                         IF o \in OwnersOf(r) THEN hour + BucketTTL ELSE expiry[o][h]]]
    ELSE UNCHANGED <<marker, bucket, expiry>>

Missed    == misses < MaxMisses /\ misses' = misses + 1
NotMissed == UNCHANGED misses

\* Whatever goes wrong is logged and left to recover_once
Script(a) ==
    /\ recording[a].next = "script"
    /\ \/ /\ AddSpend(recording[a].id)
          /\ \/ recording' = [recording EXCEPT ![a] = [id |-> recording[a].id, next |-> "flag"]] /\ NotMissed
             \/ recording' = [recording EXCEPT ![a] = Idle] /\ Missed
       \/ UNCHANGED <<marker, bucket, expiry>> /\ recording' = [recording EXCEPT ![a] = Idle] /\ Missed
    /\ UNCHANGED <<vars, hour, made, seen, cleared, recorded>>

Flag(a) ==
    /\ recording[a].next = "flag"
    /\ \/ recorded' = [recorded EXCEPT ![recording[a].id] = TRUE] /\ NotMissed
       \/ UNCHANGED recorded /\ Missed
    /\ recording' = [recording EXCEPT ![a] = Idle]
    /\ UNCHANGED <<vars, hour, made, seen, cleared, bucket, expiry, marker>>

----------------------------------------------------------------------------
\* A process that ends takes its calls of record_windows with it
Exit(w) ==
    /\ Crash(w) \/ Leave(w)
    /\ recording' = [a \in Actors |-> IF a = w \/ a \in ServedBy(w) THEN Idle ELSE recording[a]]
    /\ UNCHANGED <<hour, made, seen, cleared, bucket, expiry, marker, recorded, misses>>

Elsewhere ==
    \/ \E r \in Requests : Attend(r)
    \/ \E w \in Workers : (recording[w] = Idle /\ Sweep(w)) \/ Beat(w) \/ Lapse(w)
    \/ Operate

NextWindows ==
    \/ Elsewhere /\ UNCHANGED windowVars
    \/ \E r \in Requests :
         \/ ReadHeld(r) \/ CheckWindow(r) \/ Settle(r, r)
         \/ \E w \in Accepting, n \in Estimates : ReserveChecked(r, w, n)
         \/ \E w \in Workers : Settle(w, r) \/ Revisit(w, r)
    \/ \E a \in Actors : Script(a) \/ Flag(a)
    \/ \E w \in Workers : Exit(w)
    \/ Tick

SpecWindows == InitWindows /\ [][NextWindows]_allVars

\* As in Settlements; recover_once also visits every unrecorded row
FairWindows ==
    /\ SpecWindows /\ Fairness
    /\ \A a \in Actors : WF_allVars(Script(a) \/ Flag(a))
    /\ \A r \in Requests : SF_allVars(\E w \in Workers : Revisit(w, r))

----------------------------------------------------------------------------
(* Properties *)

TypeOKWindows ==
    /\ TypeOK
    /\ hour \in Hours /\ made \in [Requests -> Hours]
    /\ seen \in [Requests -> Nat \cup {NotRead}] /\ cleared \in [Requests -> SUBSET Owners]
    /\ bucket \in [Owners -> [Hours -> Nat]] /\ expiry \in [Owners -> [Hours -> Nat]]
    /\ marker \in [Requests -> Nat] /\ recorded \in [Requests -> BOOLEAN]
    /\ recording \in [Actors -> Recording] /\ misses \in Nat

CostOf(S) == SumFunctionOnSet([r \in Requests |-> row[r].cost], S)
Within(o) == {r \in RowsOf(o) : row[r].state = "settled" /\ InWindow(made[r])}

\* "Recovery can safely replay this operation": within a window a settled cost
\* counts once however often the script runs, whatever replies are lost and
\* however late the replay; and a row marked as recorded does count.
WindowExact == \A o \in Owners :
    /\ Spent(o) <= CostOf(Within(o))
    /\ Spent(o) >= CostOf({r \in Within(o) : recorded[r]})

\* A settlement whose window entry was lost with a fault or a crash is
\* recorded by a later recovery, unless no live worker's loop gets that far.
WindowsRecorded == \A r \in Requests :
    (row[r].state = "settled") ~> (recorded[r] \/ NobodyRecovers)

\* "a burst of concurrent calls cannot all pass a nearly spent cap": when a
\* request reserves, spend and holds together leave room under every cap.
BurstHeld == [][\A r \in Requests :
    row[r].state = "none" /\ row'[r].state = "reserved" =>
        \A o \in Capped(r) : Spent(o) + Occupied(o) < Cap[o]]_allVars

=============================================================================
