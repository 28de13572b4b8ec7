----------------------------- MODULE QuotaReset -----------------------------
(***************************************************************************)
(* The monthly reset of quota_used (services/quota.py, quota_reset_loop)   *)
(* composed with the settlement ledger it runs beside, without its locks.  *)
(*                                                                         *)
(* A pass reads the keys with a quota_reset_day, then, key by key, sums    *)
(* what the key holds, and clears quota_used in an update conditional on   *)
(* what it read; then the same for tenants.  Any worker that wins the      *)
(* hourly claim runs a pass, and a pass may outlive its claim.             *)
(***************************************************************************)
EXTENDS Settlements

CONSTANTS
    Monthly,   \* owners that start with a quota_reset_day
    Edited,    \* keys whose quota_reset_day the tenant edits
    Start,     \* the time at which the service starts
    MaxClock   \* bound on time

VARIABLES
    clock,     \* half-months: even before the reset day of the month, odd from it on
    day,       \* owners whose quota_reset_day is not null
    last,      \* quota_last_reset_at
    pass,      \* what each worker's pass is at: idle, the keys, or the tenants
    now,       \* when it began
    due,       \* the owners it has read and not dealt with, as it read them
    idle,      \* the owners whose hold it has found to be zero
    waived,    \* history: what resets have taken off quota_used, as they read it
    resets     \* history: the resets of an owner by passes begun at each time,
               \* since its reset day was last removed

resetVars == <<clock, day, last, pass, now, due, idle, waived, resets>>
allVars == <<vars, resetVars>>

Never == -1
ASSUME ResetAssumption ==
    Monthly \subseteq Owners /\ Edited \subseteq Keys /\ MaxClock \in Nat /\ Start \in 0..MaxClock

Reading == [used : Nat, last : {Never} \cup Nat] \cup {NoNote}

InitReset ==
    /\ Init
    /\ clock = Start
    /\ day = Monthly
    /\ last = [o \in Owners |-> Never]
    /\ pass = [w \in Workers |-> "idle"]
    /\ now = [w \in Workers |-> 0]
    /\ due = [w \in Workers |-> [o \in Owners |-> NoNote]]
    /\ idle = [w \in Workers |-> {}]
    /\ waived = [o \in Owners |-> 0]
    /\ resets = [o \in Owners |-> [t \in 0..MaxClock |-> 0]]

Tick ==
    /\ clock < MaxClock
    /\ clock' = clock + 1
    /\ UNCHANGED <<vars, day, last, pass, now, due, idle, waived, resets>>

\* The reset day of the month has come, and the owner was not reset since
Expired(o, t) == o \in day /\ t % 2 = 1 /\ last[o] < t

Read(w, S, t) ==
    due' = [due EXCEPT ![w] = [o \in Owners |->
              IF o \in S /\ Expired(o, t) THEN [used |-> used[o], last |-> last[o]] ELSE NoNote]]

\* The claim is won: reset_expired_quotas begins with the keys
BeginPass(w) ==
    /\ up[w] /\ pass[w] = "idle"
    /\ pass' = [pass EXCEPT ![w] = "keys"]
    /\ now' = [now EXCEPT ![w] = clock]
    /\ Read(w, Keys, clock)
    /\ UNCHANGED <<vars, clock, day, last, idle, waived, resets>>

\* "Do not reset across reservations or pending usage": the owner's hold is
\* summed by a query of its own, outside any transaction
CheckIdle(w, o) ==
    /\ up[w] /\ due[w][o] # NoNote /\ idle[w] = {}
    /\ IF Occupied(o) > 0
       THEN due' = [due EXCEPT ![w][o] = NoNote] /\ UNCHANGED idle
       ELSE idle' = [idle EXCEPT ![w] = {o}] /\ UNCHANGED due
    /\ UNCHANGED <<vars, clock, day, last, pass, now, waived, resets>>

\* Mutants of Matches: the update is not conditional on one of the two columns
MatchesLast(w, o) == last[o] = due[w][o].last
MatchesUsed(w, o) == used[o] = due[w][o].used

\* The row the conditional update finds
Matches(w, o) == used[o] = due[w][o].used /\ last[o] = due[w][o].last

ClearUsed(w, o) ==
    /\ up[w] /\ o \in idle[w]
    /\ IF Matches(w, o)
       THEN /\ used' = [used EXCEPT ![o] = 0]
            /\ last' = [last EXCEPT ![o] = now[w]]
            /\ waived' = [waived EXCEPT ![o] = @ + due[w][o].used]
            /\ resets' = [resets EXCEPT ![o][now[w]] = @ + 1]
       ELSE UNCHANGED <<used, last, waived, resets>>
    /\ due' = [due EXCEPT ![w][o] = NoNote]
    /\ idle' = [idle EXCEPT ![w] = {}]
    /\ UNCHANGED <<total, enabled, row, memory, phase, bills, noting, workers, faults, hist,
                   clock, day, pass, now>>

\* The keys are done: the tenants, with a time of their own; and then the end
NextOwners(w) ==
    /\ up[w] /\ pass[w] # "idle"
    /\ \A o \in Owners : due[w][o] = NoNote
    /\ \/ /\ pass[w] = "keys"
          /\ pass' = [pass EXCEPT ![w] = "tenants"]
          /\ now' = [now EXCEPT ![w] = clock]
          /\ Read(w, Tenants, clock)
       \/ /\ pass[w] = "tenants"
          /\ pass' = [pass EXCEPT ![w] = "idle"]
          /\ UNCHANGED <<now, due>>
    /\ UNCHANGED <<vars, clock, day, last, idle, waived, resets>>

\* A fault of any statement, or the exit of the process, ends the pass
EndPass(w) ==
    /\ pass[w] # "idle"
    /\ pass' = [pass EXCEPT ![w] = "idle"]
    /\ due' = [due EXCEPT ![w] = [o \in Owners |-> NoNote]]
    /\ idle' = [idle EXCEPT ![w] = {}]
    /\ UNCHANGED <<vars, clock, day, last, now, waived, resets>>

\* update_key, under the locks of tenant and key: a new quota_reset_day counts
\* as a reset now, none forgets the last one
SetResetDay(k) ==
    /\ day' = day \cup {k}
    /\ last' = [last EXCEPT ![k] = clock]
    /\ UNCHANGED <<vars, clock, pass, now, due, idle, waived, resets>>

ClearResetDay(k) ==
    /\ k \in day
    /\ day' = day \ {k}
    /\ last' = [last EXCEPT ![k] = Never]
    /\ resets' = [resets EXCEPT ![k] = [t \in 0..MaxClock |-> 0]]
    /\ UNCHANGED <<vars, clock, pass, now, due, idle, waived>>

Pass(w) ==
    \/ BeginPass(w) \/ NextOwners(w) \/ EndPass(w)
    \/ \E o \in Owners : CheckIdle(w, o) \/ ClearUsed(w, o)

NextReset ==
    \/ Next /\ UNCHANGED resetVars
    \/ Tick
    \/ \E w \in Workers : Pass(w)
    \/ \E k \in Edited : SetResetDay(k) \/ ClearResetDay(k)

SpecReset == InitReset /\ [][NextReset]_allVars

----------------------------------------------------------------------------
(* Properties *)

TypeOKReset ==
    /\ TypeOK
    /\ clock \in 0..MaxClock /\ day \in SUBSET Owners
    /\ last \in [Owners -> {Never} \cup Nat]
    /\ pass \in [Workers -> {"idle", "keys", "tenants"}] /\ now \in [Workers -> Nat]
    /\ due \in [Workers -> [Owners -> Reading]] /\ idle \in [Workers -> SUBSET Owners]
    /\ waived \in [Owners -> Nat] /\ resets \in [Owners -> [0..MaxClock -> Nat]]

\* "Conditional update avoids a lost debit": every charge of a settled request
\* is either in quota_used or was waived by a reset that had seen it, whatever
\* settles between the reset's read, its check and its update.
NoLostDebit == \A o \in Owners :
    used[o] + waived[o] = Settled(o)

\* A reset day resets an owner once, however many workers' passes overlap and
\* however much is settled, or the day edited, between them; only its removal,
\* which forgets the last reset, allows another.
ResetOnce == \A o \in Owners, t \in 0..MaxClock : resets[o][t] <= 1

\* "Do not reset across reservations or pending usage."
ResetsIdle == [][\A o \in Owners : waived'[o] # waived[o] => Occupied(o) = 0]_allVars


\* With what resets waived, the accounts are still those of the ledger: beside a
\* reset, as without one, a hold is freed or charged, once, at the price it has.
ResetLedger == INSTANCE Ledger WITH
    used   <- [o \in Owners |-> used[o] + waived[o]],
    Payers <- [r \in Requests |-> OwnersOf(r)],
    entry  <- [r \in Requests |-> EntryOf(r)]

ResetImplementsLedger == ResetLedger!Spec

=============================================================================
