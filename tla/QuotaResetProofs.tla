-------------------------- MODULE QuotaResetProofs --------------------------
(***************************************************************************)
(* The monthly reset beside the settlement ledger: no charge is lost to a  *)
(* reset that races a settlement, and a reset day resets an owner once,    *)
(* however many workers' passes overlap.                                   *)
(*                                                                         *)
(* A reset is no step of Settlements, but changes nothing the invariant    *)
(* Inv speaks of.  Its update is conditional on both columns it read:      *)
(* quota_used, so that what it takes off is what it found (BooksOK), and   *)
(* quota_last_reset_at, which is at least the time of every reset there    *)
(* was and less than that of the pass that read it (OnceOK).               *)
(***************************************************************************)
EXTENDS QuotaReset, LedgerProof

\* Times of passes and of resets are not of the future
ClockOK ==
    /\ clock \in 0..MaxClock
    /\ last \in [Owners -> Int]
    /\ now \in [Workers -> 0..MaxClock] /\ \A w \in Workers : now[w] <= clock
    /\ \A o \in Owners : last[o] <= clock

\* What a pass is to reset was read with a reset time before its own
PassOK ==
    /\ pass \in [Workers -> {"idle", "keys", "tenants"}]
    /\ due \in [Workers -> [Owners -> [used : Nat, last : Int] \cup {NoNote}]]
    /\ idle \in [Workers -> SUBSET Owners]
    /\ \A w \in Workers, o \in Owners :
         /\ pass[w] = "idle" => due[w][o] = NoNote
         /\ o \in idle[w] => due[w][o] # NoNote
         /\ due[w][o] # NoNote => due[w][o].last < now[w]

\* What resets took off is a number, and no debit is missing
BooksOK == waived \in [Owners -> Nat] /\ NoLostDebit

\* A pass that reset an owner left its time there
OnceOK ==
    /\ resets \in [Owners -> [0..MaxClock -> Nat]]
    /\ ResetOnce
    /\ \A o \in Owners, t \in 0..MaxClock : resets[o][t] # 0 => t <= last[o]

\* The inductive invariant
ResetInv == Inv /\ ClockOK /\ PassOK /\ BooksOK /\ OnceOK

\* The invariant of the ledger survives a reset, and all that is not a step of it.
LEMMA InvBeside ==
    ASSUME Inv, used' \in [Owners -> Nat],
           UNCHANGED <<total, enabled, row, memory, phase, bills, noting, workers, faults, hist>>
    PROVE  Inv'
  <1>1. TypeInv'
    BY DEF Inv, TypeInv, AccountsOK, RowsOK, HistOK, MemoryOK, PhaseOK, WorkersOK, NotingOK, memory, workers
  <1>2. HoldMatchesState' /\ LeaseOK' /\ ReleasedUnsent'
    BY DEF Inv, HoldMatchesState, LeaseOK, ReleasedUnsent
  <1> QED
    BY <1>1, <1>2 DEF Inv

\* What a pass reads of the owners it is to reset
LEMMA ReadDue ==
    ASSUME Inv, ClockOK, PassOK, NEW w \in Workers, NEW S, Read(w, S, clock), now' = [now EXCEPT ![w] = clock],
           \A o \in Owners : o \notin idle[w]
    PROVE  /\ due' \in [Workers -> [Owners -> [used : Nat, last : Int] \cup {NoNote}]]
           /\ \A v \in Workers, o \in Owners :
                /\ o \in idle[v] => due'[v][o] # NoNote
                /\ due'[v][o] # NoNote => due'[v][o].last < now'[v]
                /\ v # w => due'[v][o] = due[v][o]
  <1> DEFINE new == [o \in Owners |-> IF o \in S /\ Expired(o, clock) THEN [used |-> used[o], last |-> last[o]] ELSE NoNote]
  <1>1. \A o \in Owners : used[o] \in Nat /\ last[o] \in Int
    BY DEF Inv, TypeInv, AccountsOK, ClockOK
  <1>2. new \in [Owners -> [used : Nat, last : Int] \cup {NoNote}]
    BY <1>1
  <1>3. \A o \in Owners : new[o] # NoNote => new[o].last < clock
    BY DEF Expired
  <1>4. due' = [due EXCEPT ![w] = new]
    BY DEF Read
  <1> HIDE DEF new
  <1> QED
    BY <1>2, <1>3, <1>4 DEF PassOK, ClockOK

\* No pass has begun and nothing was reset.
LEMMA ResetInit == InitReset => ResetInv
  <1> SUFFICES ASSUME InitReset PROVE ResetInv
    OBVIOUS
  <1>1. Inv /\ LedgerBalanced
    BY InitInv, BalanceInit DEF InitReset
  <1>2. ClockOK
    BY ResetAssumption DEF InitReset, ClockOK, Never
  <1>3. PassOK
    BY DEF InitReset, PassOK
  <1>4. BooksOK
    BY <1>1, SettledNat DEF InitReset, BooksOK, NoLostDebit, LedgerBalanced
  <1>5. OnceOK
    BY DEF InitReset, OnceOK, ResetOnce
  <1> QED
    BY <1>1, <1>2, <1>3, <1>4, <1>5 DEF ResetInv

\* Every step keeps it: an update of reset_quotas takes effect only where
\* both columns are those it read.
LEMMA ResetStep == ResetInv /\ [NextReset]_allVars => ResetInv'
  <1> SUFFICES ASSUME ResetInv, [NextReset]_allVars PROVE ResetInv'
    OBVIOUS
  <1> USE DEF ResetInv
  \* the reset variables after a step that leaves the ledger's alone
  <1>a. ASSUME UNCHANGED vars PROVE Inv' /\ (waived' = waived => BooksOK')
    <2>1. Inv'
      BY <1>a, InvBeside DEF vars, accounts, Inv, TypeInv, AccountsOK
    <2> QED
      BY <1>a, <2>1 DEF vars, accounts, BooksOK, NoLostDebit, Settled
  <1>1. CASE Next /\ UNCHANGED resetVars
    <2>1. Inv' /\ Effect
      BY <1>1, StepInv, StepMoves
    <2>2. ASSUME NEW o \in Owners PROVE used'[o] + waived[o] = Settled(o)'
      <3>1. /\ used[o] \in Nat /\ used'[o] \in Nat /\ Settled(o) \in Nat /\ Settled(o)' \in Nat
            /\ used'[o] + Settled(o) = used[o] + Settled(o)'
        BY <2>1, UsedFollowsSettled
      <3>2. waived[o] \in Nat /\ used[o] + waived[o] = Settled(o)
        BY DEF BooksOK, NoLostDebit
      <3> QED
        BY <3>1, <3>2
    <2>3. BooksOK'
      BY <1>1, <2>2 DEF BooksOK, NoLostDebit, resetVars
    <2> QED
      BY <1>1, <2>1, <2>3 DEF resetVars, ClockOK, PassOK, OnceOK, ResetOnce
  <1>2. CASE Tick
    <2>1. Inv' /\ BooksOK'
      BY <1>2, <1>a DEF Tick
    <2>2. ClockOK' /\ PassOK' /\ OnceOK'
      BY <1>2, ResetAssumption DEF Tick, ClockOK, PassOK, OnceOK, ResetOnce
    <2> QED
      BY <2>1, <2>2
  <1>3. ASSUME NEW w \in Workers, BeginPass(w) PROVE ResetInv'
    <2>1. Inv' /\ BooksOK'
      BY <1>3, <1>a DEF BeginPass
    <2>2. ClockOK' /\ OnceOK'
      BY <1>3 DEF BeginPass, ClockOK, OnceOK, ResetOnce
    <2>3. PassOK'
      <3>1. \A o \in Owners : o \notin idle[w]
        BY <1>3 DEF BeginPass, PassOK
      <3>2. /\ due' \in [Workers -> [Owners -> [used : Nat, last : Int] \cup {NoNote}]]
            /\ \A v \in Workers, o \in Owners :
                 /\ o \in idle[v] => due'[v][o] # NoNote
                 /\ due'[v][o] # NoNote => due'[v][o].last < now'[v]
                 /\ v # w => due'[v][o] = due[v][o]
        BY <1>3, <3>1, ReadDue DEF BeginPass
      <3>3. pass' = [pass EXCEPT ![w] = "keys"] /\ UNCHANGED idle
        BY <1>3 DEF BeginPass
      <3> QED
        BY <3>2, <3>3 DEF PassOK
    <2> QED
      BY <2>1, <2>2, <2>3
  <1>4. ASSUME NEW w \in Workers, NextOwners(w) PROVE ResetInv'
    <2>1. Inv' /\ BooksOK'
      BY <1>4, <1>a DEF NextOwners
    <2>2. ClockOK' /\ OnceOK'
      <3>1. UNCHANGED <<clock, last, resets>> /\ (UNCHANGED now \/ now' = [now EXCEPT ![w] = clock])
        BY <1>4 DEF NextOwners
      <3>2. OnceOK'
        BY <3>1 DEF OnceOK, ResetOnce
      <3>3. CASE UNCHANGED now
        BY <3>1, <3>2, <3>3 DEF ClockOK
      <3>4. CASE now' = [now EXCEPT ![w] = clock]
        BY <3>1, <3>2, <3>4 DEF ClockOK
      <3> QED
        BY <3>1, <3>2, <3>3, <3>4
    <2>3. PassOK'
      <3>1. \A o \in Owners : o \notin idle[w]
        BY <1>4 DEF NextOwners, PassOK
      <3>2. CASE Read(w, Tenants, clock) /\ pass' = [pass EXCEPT ![w] = "tenants"] /\ now' = [now EXCEPT ![w] = clock]
        <4>1. /\ due' \in [Workers -> [Owners -> [used : Nat, last : Int] \cup {NoNote}]]
              /\ \A v \in Workers, o \in Owners :
                   /\ o \in idle[v] => due'[v][o] # NoNote
                   /\ due'[v][o] # NoNote => due'[v][o].last < now'[v]
                   /\ v # w => due'[v][o] = due[v][o]
          BY <3>1, <3>2, ReadDue
        <4>2. UNCHANGED idle
          BY <1>4 DEF NextOwners
        <4>3. /\ pass' \in [Workers -> {"idle", "keys", "tenants"}]
              /\ \A v \in Workers : pass'[v] = IF v = w THEN "tenants" ELSE pass[v]
          BY <3>2 DEF PassOK
        <4>4. \A v \in Workers, o \in Owners : pass'[v] = "idle" => due'[v][o] = NoNote
          BY <4>1, <4>3 DEF PassOK
        <4> QED
          BY <4>1, <4>2, <4>3, <4>4, SMTT(60) DEF PassOK
      <3>3. CASE pass' = [pass EXCEPT ![w] = "idle"] /\ UNCHANGED <<now, due>>
        BY <1>4, <3>3 DEF NextOwners, PassOK
      <3> QED
        BY <1>4, <3>2, <3>3 DEF NextOwners
    <2> QED
      BY <2>1, <2>2, <2>3
  <1>5. ASSUME NEW w \in Workers, EndPass(w) PROVE ResetInv'
    <2>1. Inv' /\ BooksOK'
      BY <1>5, <1>a DEF EndPass
    <2>2. ClockOK' /\ OnceOK'
      BY <1>5 DEF EndPass, ClockOK, OnceOK, ResetOnce
    <2>3. PassOK'
      BY <1>5 DEF EndPass, PassOK
    <2> QED
      BY <2>1, <2>2, <2>3
  <1>6. ASSUME NEW w \in Workers, NEW o \in Owners, CheckIdle(w, o) PROVE ResetInv'
    <2>1. Inv' /\ BooksOK'
      BY <1>6, <1>a DEF CheckIdle
    <2>2. ClockOK' /\ OnceOK'
      BY <1>6 DEF CheckIdle, ClockOK, OnceOK, ResetOnce
    <2>3. PassOK'
      <3>1. UNCHANGED <<pass, now>> /\ due[w][o] # NoNote
        BY <1>6 DEF CheckIdle
      <3>2. CASE due' = [due EXCEPT ![w][o] = NoNote] /\ UNCHANGED idle
        <4>1. idle[w] = {}
          BY <1>6 DEF CheckIdle
        <4>2. /\ due' \in [Workers -> [Owners -> [used : Nat, last : Int] \cup {NoNote}]]
              /\ \A v \in Workers, p \in Owners : due'[v][p] = IF v = w /\ p = o THEN NoNote ELSE due[v][p]
          BY <3>2, SMTT(60) DEF PassOK
        <4> QED
          BY <3>1, <3>2, <4>1, <4>2, SMTT(60) DEF PassOK
      <3>3. CASE idle' = [idle EXCEPT ![w] = {o}] /\ UNCHANGED due
        BY <3>1, <3>3, SMTT(60) DEF PassOK
      <3> QED
        BY <1>6, <3>2, <3>3 DEF CheckIdle
    <2> QED
      BY <2>1, <2>2, <2>3
  <1>7. ASSUME NEW w \in Workers, NEW o \in Owners, ClearUsed(w, o) PROVE ResetInv'
    <2>1. due[w][o] # NoNote /\ due[w][o].last < now[w] /\ due[w][o].used \in Nat
      BY <1>7 DEF ClearUsed, PassOK
    <2>2. now[w] \in 0..MaxClock /\ now[w] <= clock
      BY DEF ClockOK
    <2>3. PassOK'
      <3>1. /\ due' = [due EXCEPT ![w][o] = NoNote] /\ idle' = [idle EXCEPT ![w] = {}]
            /\ UNCHANGED <<pass, now>>
        BY <1>7 DEF ClearUsed
      <3> QED
        BY <3>1, SMTT(60) DEF PassOK
    <2>4. CASE Matches(w, o)
      <3>1. Inv'
        BY <1>7, <2>4, InvBeside DEF ClearUsed, Inv, TypeInv, AccountsOK
      <3>2. ClockOK'
        BY <1>7, <2>2, <2>4 DEF ClearUsed, ClockOK
      <3>3. BooksOK'
        <4>1. \A p \in Owners : Settled(p)' = Settled(p)
          BY <1>7 DEF ClearUsed, Settled
        <4>2. used' = [used EXCEPT ![o] = 0] /\ waived' = [waived EXCEPT ![o] = @ + used[o]]
          BY <1>7, <2>4 DEF ClearUsed, Matches
        <4>3. used \in [Owners -> Nat]
          BY DEF Inv, TypeInv, AccountsOK
        <4> QED
          BY <4>1, <4>2, <4>3 DEF BooksOK, NoLostDebit
      <3>4. OnceOK'
        <4>1. last[o] < now[w] /\ last' = [last EXCEPT ![o] = now[w]]
              /\ resets' = [resets EXCEPT ![o][now[w]] = @ + 1]
          BY <1>7, <2>1, <2>4 DEF ClearUsed, Matches
        <4>2. resets[o][now[w]] = 0
          BY <2>2, <4>1 DEF OnceOK, ClockOK
        <4> DEFINE entry == [resets[o] EXCEPT ![now[w]] = 1]
        <4>a. resets' = [resets EXCEPT ![o] = entry]
          BY <4>1, <4>2 DEF OnceOK
        <4>b. entry \in [0..MaxClock -> Nat] /\ \A t \in 0..MaxClock : entry[t] = IF t = now[w] THEN 1 ELSE resets[o][t]
          BY <2>2 DEF OnceOK
        <4> HIDE DEF entry
        <4>3. \A p \in Owners, t \in 0..MaxClock :
                resets'[p][t] = IF p = o /\ t = now[w] THEN 1 ELSE resets[p][t]
          BY <4>a, <4>b DEF OnceOK
        <4>4. resets' \in [Owners -> [0..MaxClock -> Nat]]
          BY <4>a, <4>b DEF OnceOK
        <4> QED
          BY <2>2, <4>1, <4>3, <4>4 DEF OnceOK, ResetOnce, ClockOK
      <3> QED
        BY <2>3, <3>1, <3>2, <3>3, <3>4
    <2>5. CASE ~Matches(w, o)
      <3>1. UNCHANGED <<used, last, waived, resets>>
        BY <1>7, <2>5 DEF ClearUsed
      <3>2. Inv' /\ BooksOK'
        BY <1>7, <3>1, <1>a DEF ClearUsed, vars, accounts
      <3>3. ClockOK' /\ OnceOK'
        BY <1>7, <3>1 DEF ClearUsed, ClockOK, OnceOK, ResetOnce
      <3> QED
        BY <2>3, <3>2, <3>3
    <2> QED
      BY <2>4, <2>5
  <1>8. ASSUME NEW k \in Edited, SetResetDay(k) PROVE ResetInv'
    <2> k \in Owners
      BY ResetAssumption DEF Owners
    <2>1. Inv' /\ BooksOK'
      BY <1>8, <1>a DEF SetResetDay
    <2>2. ClockOK' /\ PassOK'
      BY <1>8 DEF SetResetDay, ClockOK, PassOK
    <2>3. OnceOK'
      BY <1>8 DEF SetResetDay, OnceOK, ResetOnce, ClockOK
    <2> QED
      BY <2>1, <2>2, <2>3
  <1>9. ASSUME NEW k \in Edited, ClearResetDay(k) PROVE ResetInv'
    <2> k \in Owners
      BY ResetAssumption DEF Owners
    <2>1. Inv' /\ BooksOK'
      BY <1>9, <1>a DEF ClearResetDay
    <2>2. ClockOK' /\ PassOK'
      BY <1>9 DEF ClearResetDay, ClockOK, PassOK, Never
    <2>3. OnceOK'
      BY <1>9 DEF ClearResetDay, OnceOK, ResetOnce, ClockOK
    <2> QED
      BY <2>1, <2>2, <2>3
  <1>10. CASE UNCHANGED allVars
    <2>1. Inv' /\ BooksOK'
      BY <1>10, <1>a DEF allVars, resetVars
    <2> QED
      BY <1>10, <2>1 DEF allVars, resetVars, ClockOK, PassOK, OnceOK, ResetOnce
  <1> QED
    BY <1>1, <1>2, <1>3, <1>4, <1>5, <1>6, <1>7, <1>8, <1>9, <1>10 DEF NextReset, Pass

\* The invariant always holds.
LEMMA ResetInvAlways == SpecReset => []ResetInv
  BY ResetInit, ResetStep, PTL DEF SpecReset

\* Every charge is in quota_used or was waived by a reset that had seen it,
\* whatever settles between the reset's read, its check and its update.
THEOREM ResetLosesNoDebit == SpecReset => []NoLostDebit
  <1>1. ResetInv => NoLostDebit
    BY DEF ResetInv, BooksOK
  <1> QED
    BY ResetInvAlways, <1>1, PTL

\* Overlapping passes of any number of workers reset an owner once for a
\* reset day, with the day edited and quota settled between them.
THEOREM ResetsHappenOnce == SpecReset => []ResetOnce
  <1>1. ResetInv => ResetOnce
    BY DEF ResetInv, OnceOK
  <1> QED
    BY ResetInvAlways, <1>1, PTL
----------------------------------------------------------------------------
(* The ledger beside the reset *)

\* What an account was charged: what it has used, with what resets took off
Charged == [o \in Owners |-> used[o] + waived[o]]

\* Where the ledger moves and nothing is waived, so does the ledger that counts
\* what was waived.
LEMMA LedgerMovesBeside ==
    ASSUME Inv, Inv', BooksOK, [Abstract!Next]_(Abstract!vars), UNCHANGED waived
    PROVE  [ResetLedger!Next]_(ResetLedger!vars)
  <1>0. /\ \A o \in Owners : used[o] \in Nat /\ used'[o] \in Nat /\ waived[o] \in Nat
        /\ used \in [Owners -> Nat] /\ used' \in [Owners -> Nat]
    BY DEF Inv, TypeInv, AccountsOK, BooksOK
  <1>1. ASSUME UNCHANGED used PROVE UNCHANGED Charged
    BY <1>1 DEF Charged
  <1>2. CASE UNCHANGED Abstract!vars
    BY <1>1, <1>2 DEF Abstract!vars, ResetLedger!vars, Charged
  <1>3. ASSUME NEW r \in Requests, Abstract!Hold(r) PROVE ResetLedger!Hold(r)
    BY <1>1, <1>3 DEF Abstract!Hold, ResetLedger!Hold, Charged
  <1>4. ASSUME NEW r \in Requests, Abstract!Price(r) PROVE ResetLedger!Price(r)
    BY <1>1, <1>4 DEF Abstract!Price, ResetLedger!Price, Charged
  <1>5. ASSUME NEW r \in Requests, Abstract!Charge(r) PROVE ResetLedger!Charge(r)
    <2> DEFINE price == Journal[r].price
    <2>1. Journal[r].at = "owed" /\ Journal' = [Journal EXCEPT ![r] = [at |-> "charged", price |-> price]]
      BY <1>5 DEF Abstract!Charge, Journal
    <2>2. \A o \in Owners : used'[o] = IF o \in OwnersOf(r) THEN used[o] + price ELSE used[o]
      BY <1>5 DEF Abstract!Charge, Journal
    <2>3. price \in Nat
      BY <2>1, RowFacts, NullAssumption DEF Journal, EntryOf, Row, Cost
    <2>4. \A o \in Owners : Charged'[o] = IF o \in OwnersOf(r) THEN Charged[o] + price ELSE Charged[o]
      <3> HIDE DEF price
      <3> QED
        BY <1>0, <2>2, <2>3 DEF Charged
    <2>5. Charged' = [o \in Owners |-> IF o \in [q \in Requests |-> OwnersOf(q)][r] THEN Charged[o] + price ELSE Charged[o]]
      BY <2>4 DEF Charged
    <2> QED
      BY <2>1, <2>5 DEF ResetLedger!Charge, Journal, Charged
  <1>6. ASSUME NEW S \in SUBSET Requests, Abstract!Free(S) PROVE ResetLedger!Free(S)
    BY <1>1, <1>6 DEF Abstract!Free, ResetLedger!Free, Charged
  <1> QED
    BY <1>2, <1>3, <1>4, <1>5, <1>6 DEF Abstract!Next, ResetLedger!Next

\* What a step does that only takes off quota_used what it adds to what was waived
Waives ==
    /\ UNCHANGED <<Charged, total, row, hist>>
    /\ \A o \in Owners : used'[o] \in Nat /\ used[o] \in Nat /\ used'[o] <= used[o]

\* A reset takes off quota_used what it adds to what was waived.
LEMMA ResetsWaive ==
    ASSUME ResetInv, [NextReset]_allVars, ~(Next /\ UNCHANGED resetVars)
    PROVE  Waives
  <1> USE DEF ResetInv
  <1>0. used \in [Owners -> Nat] /\ \A o \in Owners : used[o] \in Nat
    BY DEF Inv, TypeInv, AccountsOK
  <1>1. CASE UNCHANGED <<used, waived, total, row, hist>>
    BY <1>0, <1>1 DEF Charged, Waives
  <1>2. ASSUME NEW w \in Workers, NEW o \in Owners, ClearUsed(w, o), Matches(w, o)
        PROVE  Waives
    <2>1. /\ used' = [used EXCEPT ![o] = 0] /\ waived' = [waived EXCEPT ![o] = @ + used[o]]
          /\ UNCHANGED <<total, row, hist>>
      BY <1>2 DEF ClearUsed, Matches
    <2>2. waived \in [Owners -> Nat]
      BY DEF BooksOK
    <2>3. \A p \in Owners : used'[p] = (IF p = o THEN 0 ELSE used[p]) /\ used'[p] + waived'[p] = used[p] + waived[p]
      BY <1>0, <2>1, <2>2
    <2> QED
      BY <1>0, <2>1, <2>3 DEF Charged, Waives
  <1>3. ASSUME NEW w \in Workers, NEW o \in Owners, ClearUsed(w, o), ~Matches(w, o)
        PROVE  UNCHANGED <<used, waived, total, row, hist>>
    BY <1>3 DEF ClearUsed
  <1>4. ASSUME NEW w \in Workers, BeginPass(w) \/ NextOwners(w) \/ EndPass(w) \/ \E o \in Owners : CheckIdle(w, o)
        PROVE  UNCHANGED <<used, waived, total, row, hist>>
    BY <1>4 DEF BeginPass, NextOwners, EndPass, CheckIdle, vars, accounts
  <1>5. CASE Tick \/ UNCHANGED allVars
    BY <1>1, <1>5 DEF Tick, allVars, resetVars, vars, accounts
  <1>6. ASSUME NEW k \in Edited, SetResetDay(k) \/ ClearResetDay(k) PROVE UNCHANGED <<used, waived, total, row, hist>>
    BY <1>6 DEF SetResetDay, ClearResetDay, vars, accounts
  <1> QED
    BY <1>1, <1>2, <1>3, <1>4, <1>5, <1>6 DEF NextReset, Pass

\* The ledger begins with nothing waived.
LEMMA ResetInitRefines == InitReset => ResetLedger!Init
  <1> SUFFICES ASSUME InitReset PROVE ResetLedger!Init
    OBVIOUS
  <1>1. \A o \in Owners : used[o] + waived[o] = 0
    BY DEF InitReset, Init
  <1>2. \A r \in Requests : EntryOf(r) = [at |-> "none", price |-> NoCost]
    BY DEF InitReset, Init, EntryOf, NoRow
  <1> QED
    BY <1>1, <1>2 DEF ResetLedger!Init, ResetLedger!Blank

\* Every step is one of the ledger, or changes nothing of it.
LEMMA ResetStepRefines == ResetInv /\ [NextReset]_allVars => [ResetLedger!Next]_(ResetLedger!vars)
  <1> SUFFICES ASSUME ResetInv, [NextReset]_allVars PROVE [ResetLedger!Next]_(ResetLedger!vars)
    OBVIOUS
  <1>1. CASE Next /\ UNCHANGED resetVars
    <2>1. Inv /\ Inv' /\ BooksOK /\ UNCHANGED waived
      BY <1>1, ResetStep DEF ResetInv, resetVars
    <2>2. [Abstract!Next]_(Abstract!vars)
      BY <1>1, <2>1, StepRefines
    <2> QED
      BY <2>1, <2>2, LedgerMovesBeside
  <1>2. CASE ~(Next /\ UNCHANGED resetVars)
    BY <1>2, ResetsWaive DEF Waives, ResetLedger!vars, Charged, EntryOf
  <1> QED
    BY <1>1, <1>2

\* The settlement machinery implements the ledger its owners are promised
\* beside the monthly reset too, which takes no lock of theirs: with what
\* resets waived, every hold is charged at most once, at its one price.
THEOREM ResetsKeepLedger == SpecReset => ResetImplementsLedger
  BY ResetInvAlways, ResetInitRefines, ResetStepRefines, PTL
     DEF SpecReset, ResetImplementsLedger, ResetLedger!Spec

\* Whatever is reset while requests reserve and settle, the quota an owner has
\* used and holds stays within its total, but for what single requests cost
\* beyond their estimates: only a reset's own update lowers quota_used, and
\* what is held is held on.
THEOREM ResetsNeverOversell == SpecReset => []QuotaBound
  <1>1. InitReset => QuotaBound
    BY BoundInit DEF InitReset
  <1>2. ResetInv /\ ResetInv' /\ QuotaBound /\ [NextReset]_allVars => QuotaBound'
    <2> SUFFICES ASSUME ResetInv, ResetInv', QuotaBound, [NextReset]_allVars,
                        NEW o \in Owners, total'[o] # Unlimited
                 PROVE  used'[o] + Occupied(o)' <= total'[o] + SumFunctionOnSet(Overruns, RowsOf(o))'
      BY DEF QuotaBound, Overruns
    <2>1. CASE Next /\ UNCHANGED resetVars
      <3>1. Inv /\ Inv' /\ waived[o] \in Nat /\ waived'[o] = waived[o]
        BY <2>1 DEF ResetInv, BooksOK, resetVars
      <3>2. PICK off \in Nat : off = waived[o]
        BY <3>1
      <3>3. used[o] + off = Settled(o) /\ used'[o] + off = Settled(o)'
        BY <3>1, <3>2 DEF ResetInv, BooksOK, NoLostDebit
      <3> QED
        BY <2>1, <3>1, <3>3, BoundMoves
    <2>2. CASE ~(Next /\ UNCHANGED resetVars)
      <3> DEFINE over == SumFunctionOnSet(Overruns, RowsOf(o))
      <3>1. /\ UNCHANGED <<total, row, hist>>
            /\ used'[o] \in Nat /\ used[o] \in Nat /\ used'[o] <= used[o]
        BY <2>2, ResetsWaive DEF Waives
      <3>2. Occupied(o)' = Occupied(o) /\ over' = over
        BY <3>1 DEF Occupied, Overruns, Overrun
      <3>3. Occupied(o) \in Nat /\ over \in Nat /\ total[o] \in Int
        BY OccupiedNat, BoundByNets DEF ResetInv, Inv, TypeInv, AccountsOK
      <3>4. used[o] + Occupied(o) <= total[o] + over
        BY <3>1 DEF QuotaBound, Overruns
      <3> HIDE DEF over
      <3>5. used'[o] + Occupied(o)' <= total'[o] + over'
        BY <3>1, <3>2, <3>3, <3>4
      <3> QED
        BY <3>5 DEF over
    <2> QED
      BY <2>1, <2>2
  <1> QED
    BY <1>1, <1>2, ResetInvAlways, PTL DEF SpecReset
=============================================================================
