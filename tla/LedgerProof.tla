----------------------------- MODULE LedgerProof -----------------------------
(***************************************************************************)
(* What the settlement machinery promises the owners of quota, from the    *)
(* moves of StepMoves:                                                     *)
(*   - it implements Ledger: every step moves the journal entries by one   *)
(*     action of the abstract ledger, or not at all;                       *)
(*   - the quota used is the sum of what is settled, and with what is held *)
(*     it stays within the total, up to what single requests cost beyond   *)
(*     their estimates;                                                    *)
(*   - usage is never lost between a row and the memory of its worker.     *)
(***************************************************************************)
EXTENDS SettlementsProofs, SumTheorems

\* The journal of the abstract ledger that the rows make
Journal == [r \in Requests |-> EntryOf(r)]

\* The journal is made of the entries, before a step and after it.
LEMMA JournalAfter == \A r \in Requests : Journal[r] = EntryOf(r) /\ Journal'[r] = EntryOf(r)'
  BY DEF Journal

\* What is known of one row before and after a step
LEMMA RowFacts ==
    ASSUME Inv, NEW q \in Requests
    PROVE  /\ row[q] \in Row
           /\ phase[q] = "new" => row[q].state = "none"
           /\ row[q].state \in {"reserved", "uncertain"} => row[q].cost = NoCost
           /\ row[q].state \in {"pending", "failed"} =>
                row[q].occupied = IF row[q].cost = NoCost THEN hist[q].estimate ELSE row[q].cost
  BY DEF Inv, TypeInv, RowsOK, LeaseOK, HoldMatchesState, NoRow

\* A row that stays in its place keeps its entry,
LEMMA EntryStays ==
    ASSUME Inv, NEW q \in Requests, Stays(q)
    PROVE  EntryOf(q)' = EntryOf(q)
  <1>1. CASE row'[q] = row[q]
    BY <1>1 DEF EntryOf
  <1>2. CASE row'[q] # row[q]
    BY <1>2, RowFacts DEF Stays, Becomes, EntryOf
  <1> QED
    BY <1>1, <1>2

\* so does one that is marked as sent.
LEMMA EntrySent ==
    ASSUME Inv, NEW q \in Requests, Sends(q)
    PROVE  EntryOf(q)' = EntryOf(q)
  BY RowFacts DEF Sends, Row, EntryOf

\* A reservation holds,
LEMMA EntryHeld ==
    ASSUME Inv, NEW q \in Requests, Opens(q)
    PROVE  EntryOf(q) = [at |-> "none", price |-> NoCost] /\ EntryOf(q)' = [at |-> "held", price |-> NoCost]
  BY RowFacts DEF Opens, EntryOf

\* a bill or an operator prices what is held,
LEMMA EntryPriced ==
    ASSUME Inv, NEW q \in Requests, Fills(q)
    PROVE  /\ EntryOf(q).at = "held"
           /\ \E p \in Nat : EntryOf(q)' = [at |-> "owed", price |-> p]
  <1>1. row[q].occupied \in Nat /\ NoCost \notin Nat
    BY RowFacts, NullAssumption DEF Row
  <1>2. EntryOf(q) = [at |-> "held", price |-> NoCost]
    BY RowFacts DEF Fills, EntryOf
  <1>3. \E p \in Nat : row'[q].state = "pending" /\ row'[q].cost = p
    BY <1>1 DEF Fills, Becomes
  <1> QED
    BY <1>1, <1>2, <1>3 DEF EntryOf

\* apply charges what is priced,
LEMMA EntryCharged ==
    ASSUME Inv, NEW q \in Requests, Settles(q)
    PROVE  /\ EntryOf(q) = [at |-> "owed", price |-> row[q].cost]
           /\ EntryOf(q)' = [at |-> "charged", price |-> row[q].cost]
  BY NullAssumption DEF Settles, Becomes, EntryOf

\* and a release frees what is not charged.
LEMMA EntryFreed ==
    ASSUME Inv, NEW q \in Requests, Frees(q)
    PROVE  /\ EntryOf(q).at \in {"held", "owed"}
           /\ EntryOf(q)' = [at |-> "freed", price |-> NoCost]
  BY DEF Frees, Becomes, EntryOf

\* Steps that change no account: holds freed together, or none at all
LEMMA FreeingStep ==
    ASSUME Inv, UNCHANGED used, \A q \in Requests : Stays(q) \/ Frees(q)
    PROVE  [Abstract!Next]_(Abstract!vars)
  <1> DEFINE S == {q \in Requests : ~Stays(q)}
  <1>1. \A q \in S : Journal[q].at \in {"held", "owed"}
    BY EntryFreed, JournalAfter
  <1>2. \A q \in Requests :
          Journal'[q] = IF q \in S THEN [at |-> "freed", price |-> NoCost] ELSE Journal[q]
    BY EntryFreed, EntryStays, JournalAfter
  <1>3. Journal' = [q \in Requests |-> IF q \in S THEN [at |-> "freed", price |-> NoCost] ELSE Journal[q]]
    BY <1>2 DEF Journal
  <1>4. S \in SUBSET Requests
    OBVIOUS
  <1>5. Abstract!Free(S)
    BY <1>1, <1>3 DEF Abstract!Free, Journal
  <1> QED
    BY <1>4, <1>5 DEF Abstract!Next

\* Every step moves the journal by one action of the ledger, or not at all.
LEMMA JournalMoves ==
    ASSUME Inv, NEW r \in Requests, OthersKeep(r)
    PROVE  Journal' = [Journal EXCEPT ![r] = EntryOf(r)']
  <1>1. \A q \in Requests \ {r} : EntryOf(q)' = EntryOf(q)
    BY DEF OthersKeep, EntryOf
  <1> QED
    BY <1>1 DEF Journal

\* Every step of the implementation is a step of the ledger, or a stutter
LEMMA StepRefines == Inv /\ [Next]_vars => [Abstract!Next]_(Abstract!vars)
  <1> SUFFICES ASSUME Inv, [Next]_vars PROVE [Abstract!Next]_(Abstract!vars)
    OBVIOUS
  <1>1. CASE UNCHANGED used /\ \A q \in Requests : Stays(q) \/ Frees(q)
    BY <1>1, FreeingStep
  <1>2. ASSUME NEW r \in Requests, OthersKeep(r), UNCHANGED used, Sends(r)
        PROVE  [Abstract!Next]_(Abstract!vars)
    <2>1. \A q \in Requests : EntryOf(q)' = EntryOf(q)
      BY <1>2, EntrySent DEF OthersKeep, EntryOf
    <2>2. UNCHANGED Journal
      BY <2>1 DEF Journal
    <2> QED
      BY <1>2, <2>2 DEF Abstract!vars, Journal
  <1>3. ASSUME NEW r \in Requests, OthersKeep(r), UNCHANGED used, Opens(r)
        PROVE  [Abstract!Next]_(Abstract!vars)
    <2>1. Journal[r] = [at |-> "none", price |-> NoCost]
      BY <1>3, EntryHeld DEF Journal
    <2>2. Journal' = [Journal EXCEPT ![r] = [at |-> "held", price |-> NoCost]]
      BY <1>3, EntryHeld, JournalMoves
    <2>3. Abstract!Hold(r)
      BY <1>3, <2>1, <2>2 DEF Abstract!Hold, Journal
    <2> QED
      BY <2>3 DEF Abstract!Next
  <1>4. ASSUME NEW r \in Requests, OthersKeep(r), UNCHANGED used, Fills(r)
        PROVE  [Abstract!Next]_(Abstract!vars)
    <2>1. PICK p \in Nat : EntryOf(r)' = [at |-> "owed", price |-> p]
      BY <1>4, EntryPriced
    <2>2. Journal[r].at = "held"
      BY <1>4, EntryPriced DEF Journal
    <2>3. Journal' = [Journal EXCEPT ![r] = [at |-> "owed", price |-> p]]
      BY <1>4, <2>1, JournalMoves
    <2>4. Journal'[r].price = p
      BY <2>1, JournalAfter
    <2>5. Abstract!Price(r)
      BY <1>4, <2>2, <2>3, <2>4 DEF Abstract!Price, Journal
    <2> QED
      BY <2>5 DEF Abstract!Next
  <1>5. ASSUME NEW r \in Requests, OthersKeep(r), Debits(r), Settles(r)
        PROVE  [Abstract!Next]_(Abstract!vars)
    <2>1. Journal[r] = [at |-> "owed", price |-> row[r].cost]
      BY <1>5, EntryCharged DEF Journal
    <2>2. Journal' = [Journal EXCEPT ![r] = [at |-> "charged", price |-> row[r].cost]]
      BY <1>5, EntryCharged, JournalMoves
    <2>3. Abstract!Charge(r)
      <3>1. Journal[r].at = "owed" /\ Journal[r].price = row[r].cost
        BY <2>1
      <3>2. Journal' = [Journal EXCEPT ![r] = [at |-> "charged", price |-> Journal[r].price]]
        BY <2>2, <3>1
      <3>3. used' = [o \in Owners |-> IF o \in [q \in Requests |-> OwnersOf(q)][r]
                                     THEN used[o] + Journal[r].price ELSE used[o]]
        BY <1>5, <3>1 DEF Debits
      <3> QED
        BY <3>1, <3>2, <3>3 DEF Abstract!Charge, Journal
    <2> QED
      BY <2>3 DEF Abstract!Next
  <1> QED
    BY StepMoves, <1>1, <1>2, <1>3, <1>4, <1>5 DEF Effect

\* The program begins as the ledger does.
LEMMA InitRefines == Init => Abstract!Init
  BY DEF Init, Abstract!Init, Abstract!Blank, EntryOf, NoRow

\* The settlement machinery implements the ledger its owners are promised:
\* requests, retries, recovery and operators charge every hold at most once,
\* at the one price recorded for it, and never one that was freed.
THEOREM SettlementsImplementLedger == Spec => ImplementsLedger
  BY InvAlways, InitRefines, StepRefines, PTL DEF Spec, ImplementsLedger, Abstract!Spec

----------------------------------------------------------------------------
(* The quota used is what is settled *)

\* What a request takes from the quota of its owners: its cost once settled,
\* and what its row holds before
Load(r) ==
    IF row[r].state = "settled" THEN row[r].cost
    ELSE IF row[r].state \in OccupiedStates THEN row[r].occupied ELSE 0

\* As functions, to be summed
Loads == [r \in Requests |-> Load(r)]
Overruns == [r \in Requests |-> Overrun(r)]

\* What the sums need of the rows, and the sums
BalanceInv == Inv /\ LedgerBalanced
QuotaInv == BalanceInv /\ QuotaBound

\* The requests of an owner are finitely many, and so are any of them.
LEMMA RowsFinite == \A o : IsFiniteSet(RowsOf(o)) /\ \A S \in SUBSET RowsOf(o) : IsFiniteSet(S)
  <1> SUFFICES ASSUME NEW o PROVE IsFiniteSet(RowsOf(o)) /\ \A S \in SUBSET RowsOf(o) : IsFiniteSet(S)
    OBVIOUS
  <1>1. RowsOf(o) \subseteq Requests
    BY DEF RowsOf
  <1> QED
    BY <1>1, ScopeAssumption, FS_Subset

\* The larger of zero and a number.
LEMMA MaxZero == \A n \in Int : Max({0, n}) = IF n >= 0 THEN n ELSE 0
  <1> TAKE n \in Int
  <1>1. \E x \in {0, n} : \A y \in {0, n} : x >= y
    OBVIOUS
  <1>2. Max({0, n}) \in {0, n} /\ \A y \in {0, n} : Max({0, n}) >= y
    BY <1>1 DEF Max
  <1> QED
    BY <1>2

\* A step that settles nothing and keeps what is settled keeps the sum of it.
LEMMA SettledSame ==
    ASSUME Inv, NEW o,
           \A q \in Requests : /\ row'[q].state = "settled" <=> row[q].state = "settled"
                               /\ row[q].state = "settled" => row'[q].cost = row[q].cost
    PROVE  Settled(o)' = Settled(o)
  <1> DEFINE S == {r \in RowsOf(o) : row[r].state = "settled"}
             f == [r \in Requests |-> row[r].cost]
             g == [r \in Requests |-> row'[r].cost]
  <1>1. {r \in RowsOf(o) : row'[r].state = "settled"} = S
    BY DEF RowsOf
  <1>2. \A r \in S : f[r] = g[r]
    BY DEF RowsOf
  <1>3. IsFiniteSet(S)
    BY RowsFinite
  <1>4. SumFunctionOnSet(f, S) = SumFunctionOnSet(g, S)
    <2> HIDE DEF S, f, g
    <2> QED
      BY <1>2, <1>3, SumSame
  <1> QED
    BY <1>1, <1>4 DEF Settled

\* Settling a request adds its cost to what its owners' settled requests cost.
LEMMA SettledAdds ==
    ASSUME Inv, NEW r \in Requests, OthersKeep(r), Settles(r), NEW o \in Owners
    PROVE  Settled(o)' = IF o \in OwnersOf(r) THEN Settled(o) + row[r].cost ELSE Settled(o)
  <1> DEFINE S == {q \in RowsOf(o) : row[q].state = "settled"}
             f == [q \in Requests |-> row[q].cost]
             g == [q \in Requests |-> row'[q].cost]
  <1>1. \A q \in Requests : row[q] \in Row /\ (row[q].state = "settled" => row[q].cost \in Nat)
    BY DEF Inv, TypeInv, RowsOK, HoldMatchesState, Row, Cost
  <1>2. row'[r].state = "settled" /\ row'[r].cost = row[r].cost /\ row[r].cost \in Nat /\ row[r].state = "pending"
    BY DEF Settles, Becomes
  <1>3. \A q \in Requests \ {r} : row'[q] = row[q]
    BY DEF OthersKeep
  <1>4. {q \in RowsOf(o) : row'[q].state = "settled"} = IF o \in OwnersOf(r) THEN S \cup {r} ELSE S
    BY <1>2, <1>3 DEF RowsOf
  <1>5. f = g
    BY <1>2, <1>3
  <1>6. r \notin S /\ IsFiniteSet(S) /\ \A x \in S \cup {r} : f[x] \in Int
    <2>1. r \notin S /\ IsFiniteSet(S)
      BY <1>2, RowsFinite
    <2>2. \A x \in S \cup {r} : f[x] \in Int
      BY <1>1, <1>2 DEF RowsOf
    <2> QED
      BY <2>1, <2>2
  <1>7. SumFunctionOnSet(f, S \cup {r}) = f[r] + SumFunctionOnSet(f, S) /\ SumFunctionOnSet(f, S) \in Int
    <2> HIDE DEF S, f
    <2> QED
      BY <1>6, SumAdd, SumType
  <1>8. Settled(o) = SumFunctionOnSet(f, S) /\ Settled(o)' = SumFunctionOnSet(g, IF o \in OwnersOf(r) THEN S \cup {r} ELSE S)
    BY <1>4 DEF Settled
  <1>9. f[r] = row[r].cost
    OBVIOUS
  <1> HIDE DEF f, g, S
  <1> QED
    BY <1>2, <1>5, <1>7, <1>8, <1>9

\* What is settled of an owner is a number.
LEMMA SettledNat == ASSUME Inv, NEW o PROVE Settled(o) \in Nat
  <1> DEFINE S == {q \in RowsOf(o) : row[q].state = "settled"}
             f == [q \in Requests |-> row[q].cost]
  <1>1. \A q \in S : f[q] \in Nat
    BY DEF RowsOf, Inv, TypeInv, RowsOK, HoldMatchesState, Row, Cost
  <1>2. IsFiniteSet(S)
    BY RowsFinite
  <1>3. SumFunctionOnSet(f, S) \in Nat
    <2> HIDE DEF S, f
    <2> QED
      BY <1>1, <1>2, SumNat
  <1> QED
    BY <1>3 DEF Settled

\* What an owner holds is a number.
LEMMA OccupiedNat == ASSUME Inv, NEW o PROVE Occupied(o) \in Nat
  <1> DEFINE H == {q \in RowsOf(o) : row[q].state \in OccupiedStates}
             f == [q \in Requests |-> row[q].occupied]
  <1>1. \A q \in H : f[q] \in Nat
    BY DEF RowsOf, Inv, TypeInv, RowsOK, Row
  <1>2. IsFiniteSet(H)
    BY RowsFinite
  <1>3. SumFunctionOnSet(f, H) \in Nat
    <2> HIDE DEF H, f
    <2> QED
      BY <1>1, <1>2, SumNat
  <1> QED
    BY <1>3 DEF Occupied

\* Every step adds to quota_used exactly what it settles.
LEMMA UsedFollowsSettled ==
    ASSUME Inv, Effect, NEW o \in Owners
    PROVE  /\ used[o] \in Nat /\ used'[o] \in Nat /\ Settled(o) \in Nat /\ Settled(o)' \in Nat
           /\ used'[o] + Settled(o) = used[o] + Settled(o)'
  <1>0. used[o] \in Nat /\ Settled(o) \in Nat
    BY SettledNat DEF Inv, TypeInv, AccountsOK
  <1>1. CASE UNCHANGED used /\ \A q \in Requests : Stays(q) \/ Frees(q)
    <2>1. Settled(o)' = Settled(o)
      <3>1. ASSUME NEW q \in Requests
            PROVE  /\ row'[q].state = "settled" <=> row[q].state = "settled"
                   /\ row[q].state = "settled" => row'[q].cost = row[q].cost
        BY <1>1 DEF Stays, Frees, Becomes
      <3> QED
        BY <3>1, SettledSame
    <2> QED
      BY <1>0, <1>1, <2>1
  <1>2. ASSUME NEW r \in Requests, OthersKeep(r), UNCHANGED used, Sends(r) \/ Opens(r) \/ Fills(r)
        PROVE  used'[o] + Settled(o) = used[o] + Settled(o)' /\ used'[o] \in Nat /\ Settled(o)' \in Nat
    <2>1. row'[r].state # "settled" /\ row[r].state # "settled"
      BY <1>2 DEF Sends, Opens, Fills, Becomes, Inv, TypeInv, RowsOK, Row, LeaseOK, NoRow
    <2>2. Settled(o)' = Settled(o)
      BY <1>2, <2>1, SettledSame DEF OthersKeep
    <2> QED
      BY <1>0, <1>2, <2>2
  <1>3. ASSUME NEW r \in Requests, OthersKeep(r), Debits(r), Settles(r)
        PROVE  used'[o] + Settled(o) = used[o] + Settled(o)' /\ used'[o] \in Nat /\ Settled(o)' \in Nat
    <2>1. Settled(o)' = IF o \in OwnersOf(r) THEN Settled(o) + row[r].cost ELSE Settled(o)
      BY <1>3, SettledAdds
    <2>2. used'[o] = IF o \in OwnersOf(r) THEN used[o] + row[r].cost ELSE used[o]
      BY <1>3 DEF Debits
    <2>3. row[r].cost \in Nat
      BY <1>3 DEF Settles
    <2> QED
      BY <1>0, <2>1, <2>2, <2>3
  <1> QED
    BY <1>0, <1>1, <1>2, <1>3 DEF Effect

\* No request has a cost yet and nothing is used.
LEMMA BalanceInit == Init => LedgerBalanced
  <1> SUFFICES ASSUME Init, NEW o \in Owners PROVE used[o] = Settled(o)
    BY DEF LedgerBalanced
  <1>1. {r \in RowsOf(o) : row[r].state = "settled"} = {}
    BY DEF Init, NoRow, RowsOf
  <1> QED
    BY <1>1, SumEmpty DEF Init, Settled

\* Every step adds to quota_used what it adds to the settled costs
\* (_apply_in_transaction).
LEMMA BalanceStep == BalanceInv /\ [Next]_vars => BalanceInv'
  <1> SUFFICES ASSUME BalanceInv, [Next]_vars PROVE BalanceInv'
    OBVIOUS
  <1>1. Inv /\ Inv' /\ Effect
    BY StepInv, StepMoves DEF BalanceInv
  <1>2. ASSUME NEW o \in Owners PROVE used'[o] = Settled(o)'
    BY <1>1, UsedFollowsSettled DEF BalanceInv, LedgerBalanced
  <1> QED
    BY <1>1, <1>2 DEF BalanceInv, LedgerBalanced

\* The quota an owner has used is what its settled requests cost.
THEOREM UsedIsWhatIsSettled == Spec => []LedgerBalanced
  <1>1. Init => BalanceInv
    BY InitInv, BalanceInit DEF BalanceInv
  <1>2. BalanceInv => LedgerBalanced
    BY DEF BalanceInv
  <1> QED
    BY <1>1, <1>2, BalanceStep, PTL DEF Spec

----------------------------------------------------------------------------
(* reserve never oversells *)

\* What of an owner is settled and held is what its requests take from its quota.
LEMMA LoadSum ==
    ASSUME Inv, NEW o \in Owners
    PROVE  Settled(o) + Occupied(o) = SumFunctionOnSet(Loads, RowsOf(o))
  <1> DEFINE R == RowsOf(o)
             S == {q \in R : row[q].state = "settled"}
             H == {q \in R : row[q].state \in OccupiedStates}
             f == [q \in Requests |-> row[q].cost]
             g == [q \in Requests |-> row[q].occupied]
             f0 == [q \in R |-> IF q \in S THEN f[q] ELSE 0]
             g0 == [q \in R |-> IF q \in H THEN g[q] ELSE 0]
  <1>1. IsFiniteSet(R) /\ S \in SUBSET R /\ H \in SUBSET R
    BY RowsFinite
  <1>2. \A q \in R : q \in Requests /\ row[q] \in Row
    BY DEF RowsOf, Inv, TypeInv, RowsOK
  <1>3. (\A q \in S : f[q] \in Int) /\ (\A q \in H : g[q] \in Int)
    BY <1>2 DEF Inv, HoldMatchesState, Row, Cost
  <1>4. SumFunctionOnSet(f, S) = SumFunctionOnSet(f0, R)
    <2> HIDE DEF R, S, f
    <2> QED
      BY <1>1, <1>3, SumWhere
  <1>5. SumFunctionOnSet(g, H) = SumFunctionOnSet(g0, R)
    <2> HIDE DEF R, H, g
    <2> QED
      BY <1>1, <1>3, SumWhere
  <1>6. \A q \in R : f0[q] \in Int /\ g0[q] \in Int /\ Loads[q] = f0[q] + g0[q]
    <2> TAKE q \in R
    <2>1. Loads[q] = Load(q)
      BY <1>2 DEF Loads
    <2>2. /\ f0[q] = IF row[q].state = "settled" THEN row[q].cost ELSE 0
          /\ g0[q] = IF row[q].state \in OccupiedStates THEN row[q].occupied ELSE 0
      BY <1>2
    <2>3. /\ row[q].state = "settled" => row[q].cost \in Int
          /\ row[q].state \in OccupiedStates => row[q].occupied \in Int
      BY <1>2, <1>3
    <2> HIDE DEF f0, g0
    <2> QED
      BY <2>1, <2>2, <2>3 DEF Load, OccupiedStates
  <1>7. SumFunctionOnSet(Loads, R) = SumFunctionOnSet(f0, R) + SumFunctionOnSet(g0, R)
    <2> HIDE DEF R, f0, g0
    <2> QED
      BY <1>1, <1>6, SumPlus
  <1>8. Settled(o) = SumFunctionOnSet(f, S) /\ Occupied(o) = SumFunctionOnSet(g, H)
    BY DEF Settled, Occupied
  <1> QED
    BY <1>4, <1>5, <1>7, <1>8

\* What one request takes and overruns, and that both are numbers
LoadOK == \A q \in Requests :
    /\ row[q] \in Row /\ hist[q].estimate \in Nat /\ Load(q) \in Nat
    /\ Overrun(q) = IF row[q].cost \in Nat /\ row[q].state # "released" /\ row[q].cost >= hist[q].estimate
                    THEN row[q].cost - hist[q].estimate ELSE 0
    /\ Overrun(q) \in Nat

\* The rows that the invariant allows have such numbers.
LEMMA LoadFacts == Inv => LoadOK
  <1> SUFFICES ASSUME Inv, NEW q \in Requests
               PROVE  /\ row[q] \in Row /\ hist[q].estimate \in Nat /\ Load(q) \in Nat
                      /\ Overrun(q) = IF /\ row[q].cost \in Nat /\ row[q].state # "released"
                                         /\ row[q].cost >= hist[q].estimate
                                      THEN row[q].cost - hist[q].estimate ELSE 0
                      /\ Overrun(q) \in Nat
    BY DEF LoadOK
  <1>1. row[q] \in Row /\ hist[q].estimate \in Nat
    BY DEF Inv, TypeInv, RowsOK, HistOK, History
  <1>2. Load(q) \in Nat
    BY <1>1 DEF Load, Inv, HoldMatchesState, Row, Cost
  <1>3. row[q].cost \in Nat => row[q].cost - hist[q].estimate \in Int
    BY <1>1
  <1>4. Overrun(q) = IF row[q].cost \in Nat /\ row[q].state # "released" /\ row[q].cost >= hist[q].estimate
                     THEN row[q].cost - hist[q].estimate ELSE 0
    <2>1. CASE row[q].cost \in Nat /\ row[q].state # "released"
      <3>1. Overrun(q) = IF row[q].cost - hist[q].estimate >= 0 THEN row[q].cost - hist[q].estimate ELSE 0
        BY <1>3, <2>1, MaxZero DEF Overrun
      <3> QED
        BY <1>1, <2>1, <3>1
    <2>2. CASE ~(row[q].cost \in Nat /\ row[q].state # "released")
      BY <2>2 DEF Overrun
    <2> QED
      BY <2>1, <2>2
  <1>5. Overrun(q) \in Nat
    BY <1>1, <1>4
  <1> QED
    BY <1>1, <1>2, <1>4, <1>5

\* No step but a reservation lets a request take more than it overruns.
LEMMA NetFalls ==
    ASSUME Inv, Inv', NEW q \in Requests,
           Stays(q) \/ Sends(q) \/ Fills(q) \/ Settles(q) \/ Frees(q)
    PROVE  Load(q)' - Overrun(q)' <= Load(q) - Overrun(q)
  <1>1. /\ row[q] \in Row /\ hist[q].estimate \in Nat /\ Load(q) \in Nat
        /\ Overrun(q) = IF row[q].cost \in Nat /\ row[q].state # "released" /\ row[q].cost >= hist[q].estimate
                        THEN row[q].cost - hist[q].estimate ELSE 0
        /\ Overrun(q) \in Nat
    BY LoadFacts DEF LoadOK
  <1>2. /\ row'[q] \in Row /\ hist'[q].estimate \in Nat /\ Load(q)' \in Nat
        /\ Overrun(q)' = IF row'[q].cost \in Nat /\ row'[q].state # "released" /\ row'[q].cost >= hist'[q].estimate
                         THEN row'[q].cost - hist'[q].estimate ELSE 0
        /\ Overrun(q)' \in Nat
    <2>1. Inv' => LoadOK'
      BY LoadFacts, PTL
    <2> QED
      BY <2>1 DEF LoadOK
  <1>3. /\ row[q].state \in {"reserved", "uncertain"} =>
             row[q].cost = NoCost /\ row[q].occupied = hist[q].estimate
        /\ row[q].state \in {"pending", "failed"} =>
             row[q].occupied = IF row[q].cost = NoCost THEN hist[q].estimate ELSE row[q].cost
    BY DEF Inv, HoldMatchesState
  <1>4. Load(q)' = IF row'[q].state = "settled" THEN row'[q].cost
                   ELSE IF row'[q].state \in OccupiedStates THEN row'[q].occupied ELSE 0
    BY DEF Load
  <1> USE NullAssumption DEF Load, OccupiedStates
  <1>5. CASE Stays(q)
    <2>1. CASE row'[q] = row[q]
      BY <1>1, <1>2, <1>4, <1>5, <2>1 DEF Stays, SameHistory
    <2>2. CASE row'[q] # row[q]
      <3>1. hist'[q].estimate = hist[q].estimate
        BY <1>5 DEF Stays, SameHistory
      <3> QED
        BY <1>1, <1>2, <1>3, <1>4, <1>5, <2>2, <3>1 DEF Stays, Becomes
    <2> QED
      BY <2>1, <2>2
  <1>6. CASE Sends(q)
    <2>1. row'[q].state = row[q].state /\ row'[q].cost = row[q].cost /\ row'[q].occupied = row[q].occupied
      BY <1>1, <1>6 DEF Sends, Row
    <2> QED
      BY <1>1, <1>2, <1>4, <1>6, <2>1 DEF Sends
  <1>7. CASE Fills(q)
    <2>1. CASE /\ row[q].state \in {"reserved", "uncertain"} /\ SameHistory(q)
               /\ \E c \in Nat : Becomes(q, "pending", c, c)
      BY <1>1, <1>2, <1>3, <1>4, <2>1 DEF Becomes, SameHistory
    <2>2. CASE /\ row[q].state \in {"uncertain", "failed"} /\ row[q].cost = NoCost
               /\ Becomes(q, "pending", row[q].occupied, row[q].occupied)
               /\ hist'[q].estimate = hist[q].estimate /\ hist'[q].reached = hist[q].reached
      BY <1>1, <1>2, <1>3, <1>4, <2>2 DEF Becomes
    <2> QED
      BY <1>7, <2>1, <2>2 DEF Fills
  <1>8. CASE Settles(q)
    BY <1>1, <1>2, <1>3, <1>4, <1>8 DEF Settles, Becomes, SameHistory
  <1>9. CASE Frees(q)
    BY <1>1, <1>2, <1>3, <1>4, <1>9 DEF Frees, Becomes, Row, Cost
  <1> QED
    BY <1>5, <1>6, <1>7, <1>8, <1>9

\* The bound in terms of what single requests take beyond their overrun
Nets == [r \in Requests |-> Load(r) - Overrun(r)]

\* What of an owner is settled and held is the sum of what its requests take
\* beyond their overruns, and of the overruns.
LEMMA BoundByNets ==
    ASSUME Inv, NEW o \in Owners
    PROVE  /\ SumFunctionOnSet(Nets, RowsOf(o)) \in Int
           /\ SumFunctionOnSet(Overruns, RowsOf(o)) \in Nat
           /\ Settled(o) + Occupied(o) = SumFunctionOnSet(Nets, RowsOf(o)) + SumFunctionOnSet(Overruns, RowsOf(o))
  <1>1. \A r \in RowsOf(o) : Nets[r] \in Int /\ Overruns[r] \in Nat /\ Loads[r] = Nets[r] + Overruns[r]
    BY LoadFacts DEF LoadOK, Nets, Overruns, Loads, RowsOf
  <1>2. IsFiniteSet(RowsOf(o))
    BY RowsFinite
  <1>3. SumFunctionOnSet(Loads, RowsOf(o)) = SumFunctionOnSet(Nets, RowsOf(o)) + SumFunctionOnSet(Overruns, RowsOf(o))
    BY <1>1, <1>2, SumPlus
  <1>4. SumFunctionOnSet(Nets, RowsOf(o)) \in Int /\ SumFunctionOnSet(Overruns, RowsOf(o)) \in Nat
    BY <1>1, <1>2, SumType, SumNat
  <1> QED
    BY <1>3, <1>4, LoadSum

\* quota_total changes only to a value that covers what is used and held.
LEMMA TotalMove ==
    ASSUME [Next]_vars
    PROVE  UNCHANGED total \/ \E o \in Owners, n \in Totals : SetTotal(o, n)
  <1>1. ASSUME NEW r \in Requests, Serve(r) PROVE UNCHANGED total
    BY <1>1, ZenonT(60)
       DEF Serve, Attend, accounts, Reserve, Deny, Refuse, BeforeSend, RefuseSend, ReleaseLease, Abandon, Bill,
           CutShort, BillAgain, ApplyFails, NoteInRequest, ApplyInRequest
  <1>2. ASSUME NEW w \in Workers, Recovery(w) PROVE UNCHANGED total
    BY <1>2, ZenonT(60)
       DEF Recovery, Sweep, accounts, StartLoop, FindOrphans, ReleaseUndispatched, HoldDispatched, NoteInLoop,
           EndLoop, FlushDone, FlushOne, RecoverRow
  <1>3. ASSUME NEW w \in Workers, Process(w) PROVE UNCHANGED total
    BY <1>3, ZenonT(60) DEF Process, accounts, Beat, Lapse, Crash, Leave, Stop
  <1>4. ASSUME Operate PROVE UNCHANGED total \/ \E o \in Owners, n \in Totals : SetTotal(o, n)
    BY <1>4, ZenonT(60) DEF Operate, accounts, Retry, ResolveRelease, ResolveCharge, SetEnabled
  <1>5. CASE UNCHANGED vars
    BY <1>5 DEF vars, accounts
  <1> QED
    BY <1>1, <1>2, <1>3, <1>4, <1>5 DEF Next

\* BoundByNets for every owner
NetsOK == \A o \in Owners :
    /\ Occupied(o) \in Nat
    /\ SumFunctionOnSet(Nets, RowsOf(o)) \in Int
    /\ SumFunctionOnSet(Overruns, RowsOf(o)) \in Nat
    /\ Settled(o) + Occupied(o) = SumFunctionOnSet(Nets, RowsOf(o)) + SumFunctionOnSet(Overruns, RowsOf(o))

\* That holds in every state.
LEMMA NetsAlways == Inv => NetsOK
  BY BoundByNets, OccupiedNat DEF NetsOK

\* If no request of an owner gains, the owner's requests do not.
LEMMA NetsFall ==
    ASSUME Inv, Inv', NEW o \in Owners, \A r \in RowsOf(o) : Load(r)' - Overrun(r)' <= Load(r) - Overrun(r)
    PROVE  SumFunctionOnSet(Nets, RowsOf(o))' <= SumFunctionOnSet(Nets, RowsOf(o))
  <1>1. Inv' => LoadOK'
    BY LoadFacts, PTL
  <1>2. \A r \in RowsOf(o) : Nets'[r] \in Int /\ Nets[r] \in Int /\ Nets'[r] <= Nets[r]
    BY LoadFacts, <1>1 DEF LoadOK, Nets, RowsOf
  <1>3. SumFunctionOnSet(Nets', RowsOf(o)) <= SumFunctionOnSet(Nets, RowsOf(o))
    BY <1>2, RowsFinite, SumMonotone
  <1>4. SumFunctionOnSet(Nets, RowsOf(o))' = SumFunctionOnSet(Nets', RowsOf(o))
    OBVIOUS
  <1> QED
    BY <1>3, <1>4

\* A reservation adds what it holds to what its owners hold, and no more.
LEMMA OpensHold ==
    ASSUME Inv, Inv', NEW r \in Requests, OthersKeep(r), Opens(r), NEW o \in Owners
    PROVE  Occupied(o)' = IF o \in OwnersOf(r) THEN Occupied(o) + hist'[r].estimate ELSE Occupied(o)
  <1> DEFINE H == {q \in RowsOf(o) : row[q].state \in OccupiedStates}
             f == [q \in Requests |-> row[q].occupied]
             g == [q \in Requests |-> row'[q].occupied]
  <1>1. row[r].state = "none" /\ row'[r].state = "reserved" /\ row'[r].occupied = hist'[r].estimate
    BY DEF Opens, Inv, LeaseOK, NoRow
  <1>2. \A q \in Requests : row[q] \in Row /\ row'[q] \in Row
    BY DEF Inv, TypeInv, RowsOK
  <1>3. {q \in RowsOf(o) : row'[q].state \in OccupiedStates} = IF o \in OwnersOf(r) THEN H \cup {r} ELSE H
    BY <1>1 DEF OthersKeep, RowsOf, OccupiedStates
  <1>4. r \notin H /\ IsFiniteSet(H)
    BY <1>1, RowsFinite DEF OccupiedStates
  <1>5. /\ \A q \in H \cup {r} : g[q] \in Int
        /\ \A q \in H : f[q] \in Int /\ f[q] = g[q]
        /\ g[r] = hist'[r].estimate
    BY <1>1, <1>2, <1>4 DEF OthersKeep, RowsOf, Row
  <1>6. /\ SumFunctionOnSet(g, H \cup {r}) = g[r] + SumFunctionOnSet(g, H)
        /\ SumFunctionOnSet(g, H) = SumFunctionOnSet(f, H)
        /\ SumFunctionOnSet(f, H) \in Int /\ g[r] \in Int
    <2> HIDE DEF H, f, g
    <2> QED
      BY <1>4, <1>5, SumAdd, SumSame, SumType
  <1>7. Occupied(o) = SumFunctionOnSet(f, H)
    BY DEF Occupied
  <1>8. Occupied(o)' = SumFunctionOnSet(g, IF o \in OwnersOf(r) THEN H \cup {r} ELSE H)
    BY <1>3 DEF Occupied
  <1> HIDE DEF H, f, g
  <1> QED
    BY <1>5, <1>6, <1>7, <1>8

\* Nothing is used and nothing held at first.
LEMMA BoundInit == Init => QuotaBound
  <1> SUFFICES ASSUME Init, NEW o \in Owners, total[o] # Unlimited
               PROVE  used[o] + Occupied(o) <= total[o] + SumFunctionOnSet(Overruns, RowsOf(o))
    BY DEF QuotaBound, Overruns
  <1>1. {r \in RowsOf(o) : row[r].state \in OccupiedStates} = {}
    BY DEF Init, NoRow, RowsOf, OccupiedStates
  <1>2. used[o] = 0 /\ Occupied(o) = 0
    BY <1>1, SumEmpty DEF Init, Occupied
  <1>3. total[o] \in Nat
    BY AmountAssumption DEF Init, Owners
  <1>4. SumFunctionOnSet(Overruns, RowsOf(o)) \in Nat
    BY InitInv, BoundByNets
  <1> QED
    BY <1>2, <1>3, <1>4

\* Only a reservation, which checks the quota, adds to what requests take
\* beyond their overruns.  It is so where quota_used is less than what was
\* settled by what monthly resets took off it.
LEMMA BoundMoves ==
    ASSUME Inv, Inv', QuotaBound, [Next]_vars, NEW o \in Owners, NEW off \in Nat,
           used[o] + off = Settled(o), used'[o] + off = Settled(o)', total'[o] # Unlimited
    PROVE  used'[o] + Occupied(o)' <= total'[o] + SumFunctionOnSet(Overruns, RowsOf(o))'
  <1> DEFINE net == SumFunctionOnSet(Nets, RowsOf(o))
             over == SumFunctionOnSet(Overruns, RowsOf(o))
  <1>1. Inv /\ Inv' /\ Effect
    BY StepMoves
  <1>a. /\ used[o] \in Nat /\ Settled(o) \in Nat /\ Occupied(o) \in Nat
        /\ used'[o] \in Nat /\ Settled(o)' \in Nat /\ Occupied(o)' \in Nat
    <2>1. used[o] \in Nat /\ used'[o] \in Nat
      BY DEF Inv, TypeInv, AccountsOK
    <2>2. Settled(o) \in Nat /\ Settled(o)' \in Nat
      BY <1>1, UsedFollowsSettled
    <2>3. Occupied(o) \in Nat /\ Occupied(o)' \in Nat
      <3>1. Inv' => NetsOK'
        BY NetsAlways, PTL
      <3> QED
        BY <3>1, NetsAlways DEF NetsOK
    <2> QED
      BY <2>1, <2>2, <2>3
  <1>2. net \in Int /\ over \in Nat /\ used[o] + off + Occupied(o) = net + over
    BY NetsAlways DEF NetsOK
  <1>3. net' \in Int /\ over' \in Nat /\ used'[o] + off + Occupied(o)' = net' + over'
    <2>1. Inv' => NetsOK'
      BY NetsAlways, PTL
    <2> QED
      BY <2>1 DEF NetsOK
  <1>4. total[o] \in Int /\ total'[o] \in Int
    BY <1>1 DEF Inv, TypeInv, AccountsOK
  <1>5. total[o] # Unlimited => net <= total[o] + off
    <2>1. total[o] # Unlimited => used[o] + Occupied(o) <= total[o] + over
      BY DEF QuotaBound, Overruns
    <2> HIDE DEF net, over
    <2> QED
      BY <2>1, <1>a, <1>2, <1>4
  <1>6. ASSUME \A r \in Requests : Stays(r) \/ Sends(r) \/ Fills(r) \/ Settles(r) \/ Frees(r)
        PROVE  used'[o] + Occupied(o)' <= total'[o] + over'
    <2>1. net' <= net
      BY <1>1, <1>6, NetFalls, NetsFall DEF RowsOf
    <2>2. CASE UNCHANGED total
      <3> HIDE DEF net, over
      <3> QED
        BY <1>a, <1>2, <1>3, <1>4, <1>5, <2>1, <2>2
    <2>3. CASE \E p \in Owners, n \in Totals : SetTotal(p, n)
      <3>1. used[o] + Occupied(o) <= total'[o] \/ total'[o] = total[o]
        BY <2>3, <1>1 DEF SetTotal, Inv, TypeInv, AccountsOK
      <3>2. over' = over /\ net' = net
        BY <2>3 DEF SetTotal, Overruns, Overrun, Nets, Load
      <3> HIDE DEF net, over
      <3> QED
        BY <1>a, <1>2, <1>3, <1>4, <1>5, <3>1, <3>2
    <2> QED
      BY <2>2, <2>3, TotalMove
  <1>7. ASSUME NEW r \in Requests, OthersKeep(r), UNCHANGED used, Opens(r)
        PROVE  used'[o] + Occupied(o)' <= total'[o] + over'
    <2>1. UNCHANGED total
      <3>1. ~(\E p \in Owners, n \in Totals : SetTotal(p, n))
        BY <1>7, <1>1 DEF SetTotal, Opens, Inv, LeaseOK, NoRow
      <3> QED
        BY <3>1, TotalMove
    <2>2. CASE o \in OwnersOf(r)
      <3>1. used[o] + Occupied(o) + hist'[r].estimate <= total[o]
        BY <1>7, <2>1, <2>2 DEF Opens, Admits
      <3>2. Occupied(o)' = Occupied(o) + hist'[r].estimate
        BY <1>1, <1>7, <2>2, OpensHold
      <3>3. used[o] \in Nat /\ Occupied(o) \in Nat /\ hist'[r].estimate \in Nat
        BY <1>1, OccupiedNat DEF Inv, TypeInv, AccountsOK, HistOK, History
      <3> HIDE DEF net, over
      <3> QED
        BY <1>a, <1>3, <1>4, <1>7, <2>1, <3>1, <3>2, <3>3
    <2>3. CASE o \notin OwnersOf(r)
      <3>1. \A q \in RowsOf(o) : q # r /\ q \in Requests
        BY <2>3 DEF RowsOf
      <3>2. \A q \in RowsOf(o) : Load(q)' - Overrun(q)' <= Load(q) - Overrun(q)
        BY <1>1, <1>7, <3>1, NetFalls DEF OthersKeep, Stays
      <3>3. net' <= net
        BY <1>1, <3>2, NetsFall
      <3> HIDE DEF net, over
      <3> QED
        BY <1>a, <1>2, <1>3, <1>4, <1>5, <2>1, <3>3
    <2> QED
      BY <2>2, <2>3
  <1> QED
    BY <1>1, <1>6, <1>7 DEF Effect, OthersKeep, Stays

\* No step oversells.
LEMMA BoundStep == BalanceInv /\ BalanceInv' /\ QuotaBound /\ [Next]_vars => QuotaBound'
  <1> SUFFICES ASSUME BalanceInv, BalanceInv', QuotaBound, [Next]_vars,
                      NEW o \in Owners, total'[o] # Unlimited
               PROVE  used'[o] + Occupied(o)' <= total'[o] + SumFunctionOnSet(Overruns, RowsOf(o))'
    BY DEF QuotaBound, Overruns
  <1>1. Inv /\ Inv' /\ used[o] = Settled(o) /\ used'[o] = Settled(o)'
    BY DEF BalanceInv, LedgerBalanced
  <1>2. used[o] \in Nat /\ used'[o] \in Nat
    BY <1>1 DEF Inv, TypeInv, AccountsOK
  <1>3. used[o] + 0 = Settled(o) /\ used'[o] + 0 = Settled(o)'
    BY <1>1, <1>2
  <1> QED
    BY <1>1, <1>3, BoundMoves

\* The quota an owner has used and holds stays within its total, but for what
\* single requests cost beyond their estimates: no interleaving of
\* reservations, settlements, resolutions and quota edits oversells.
THEOREM NeverOversold == Spec => []QuotaBound
  <1>1. Init => QuotaInv
    BY InitInv, BalanceInit, BoundInit DEF QuotaInv, BalanceInv
  <1>2. QuotaInv /\ [Next]_vars => QuotaInv'
    BY BalanceStep, BoundStep DEF QuotaInv
  <1>3. QuotaInv => QuotaBound
    BY DEF QuotaInv
  <1> QED
    BY <1>1, <1>2, <1>3, PTL DEF Spec

----------------------------------------------------------------------------
(* Usage is never lost between the row and the memory of its worker *)

\* Phases of a request that is not billed yet, those with a lease, and states
\* of a row that has the usage
Early == {"new", "denied", "held", "refused", "sent"}  \* not billed yet
Leased == {"held", "refused", "sent"}
Decided == {"pending", "failed", "settled"}            \* the row has the usage

\* Where the usage of r is: in no place before its bill; afterwards in its
\* row, in the memory of its worker, or lost with that worker
UsageOKOf(r) ==
    /\ phase[r] \in Early => bills[r] = 0
    /\ phase[r] \in Serving \/ bills[r] # 0 => row[r].owner \in Workers
    /\ phase[r] \in Leased /\ hist[r].resolved = "no" => row[r].state \notin Decided
    /\ bills[r] = 0 => unsaved[r] = Absent /\ todo[r] = Absent
    /\ bills[r] = 1 => unsaved[r] \in {Absent, hist[r].learned} /\ todo[r] \in {Absent, hist[r].learned}
    /\ bills[r] = 1 /\ hist[r].resolved = "no" /\ row[r].state \in Decided =>
          row[r].cost = hist[r].learned
    /\ bills[r] = 1 /\ phase[r] # "gone" /\ hist[r].resolved = "no" =>
          row[r].state \in Decided \/ unsaved[r] = hist[r].learned \/ ~up[Server(r)]

\* So it is for every request
UsageOK == \A r \in Requests : UsageOKOf(r)

\* A step that records nothing for q, and forgets nothing that is recorded
RowKeeps(q) ==
    /\ row'[q].owner = row[q].owner
    /\ hist'[q].resolved = "no" => hist[q].resolved = "no" /\ (row'[q].state \in Decided <=> row[q].state \in Decided)
    /\ hist'[q].resolved = "no" /\ row[q].state \in Decided => row'[q].cost = row[q].cost

\* A step that does not take q back to an earlier phase
PhaseKeeps(q) ==
    /\ phase'[q] \in Early => phase[q] \in Early
    /\ phase'[q] \in Leased => phase[q] \in Leased
    /\ phase'[q] \in Serving => phase[q] \in Serving
    /\ phase[q] = "gone" => phase'[q] = "gone"

\* A step that adds nothing to the memory of a worker, and removes from it
\* only what died with the worker
MemoryKeeps(q) ==
    /\ bills'[q] = bills[q] /\ hist'[q].learned = hist[q].learned
    /\ todo'[q] \in {todo[q], unsaved[q], Absent}
    /\ unsaved'[q] = unsaved[q] \/ (unsaved'[q] = Absent /\ ~up'[Server(q)])

\* No worker starts in place of another
UpKeeps == \A w \in Workers : up'[w] => up[w]

\* Such a step keeps the usage of q where it is.
LEMMA UsageKeeps ==
    ASSUME NEW q \in Requests, UsageOKOf(q), RowKeeps(q), PhaseKeeps(q), MemoryKeeps(q), UpKeeps
    PROVE  UsageOKOf(q)'
  BY DEF UsageOKOf, RowKeeps, PhaseKeeps, MemoryKeeps, UpKeeps, Server, Early, Leased, Serving

\* A step that keeps the usage of q where it is
Keeps(q) == RowKeeps(q) /\ PhaseKeeps(q) /\ MemoryKeeps(q)

\* If it keeps that of all requests, the invariant stays;
LEMMA AllKeep ==
    ASSUME UsageOK, UpKeeps, \A q \in Requests : Keeps(q)
    PROVE  UsageOK'
  BY UsageKeeps DEF UsageOK, Keeps

\* if it keeps that of all but one, that one is to be shown.
LEMMA OthersKeepUsage ==
    ASSUME UsageOK, UpKeeps, NEW r \in Requests, \A q \in Requests \ {r} : Keeps(q), UsageOKOf(r)'
    PROVE  UsageOK'
  BY UsageKeeps DEF UsageOK, Keeps

\* Releasing or holding a reserved row records and forgets nothing.
LEMMA SetIfReservedKeeps ==
    ASSUME RowsOK, NEW r \in Requests, NEW s \in {"released", "uncertain"}, NEW n, SetIfReserved(r, s, n),
           UNCHANGED hist, NEW q \in Requests
    PROVE  RowKeeps(q)
  BY DEF RowsOK, Row, SetIfReserved, RowKeeps, Decided

\* Nor does apply,
LEMMA ApplyKeeps ==
    ASSUME RowsOK, NEW r \in Requests, Apply(r), UNCHANGED hist, NEW q \in Requests
    PROVE  RowKeeps(q)
  BY DEF RowsOK, Row, Apply, Payable, RowKeeps, Decided

\* ... note_failure,
LEMMA NoteKeeps ==
    ASSUME RowsOK, NEW a, noting[a] \in Note, NoteFailure(a), UNCHANGED hist, NEW q \in Requests
    PROVE  RowKeeps(q)
  <1>1. noting[a].id \in Requests /\ noting[a].seen + 1 \in Nat
    BY DEF Note
  <1>2. ASSUME NEW r \in Requests, NEW n \in Nat,
               row' = [row EXCEPT ![r] = IF @.state = "pending"
                  THEN [@ EXCEPT !.attempts = n, !.state = IF n >= MaxAttempts THEN "failed" ELSE "pending"]
                  ELSE @]
        PROVE  RowKeeps(q)
    BY <1>2 DEF RowsOK, Row, RowKeeps, Decided
  <1> QED
    BY <1>1, <1>2 DEF NoteFailure

\* ... or recover_orphans.
LEMMA TakeOverKeeps ==
    ASSUME RowsOK, NEW w, NEW d \in BOOLEAN, NEW s \in {"released", "uncertain"}, TakeOver(w, d, s),
           UNCHANGED hist, NEW q \in Requests
    PROVE  RowKeeps(q)
  BY DEF RowsOK, Row, TakeOver, RowKeeps, Decided

\* mark_pending leaves the row of a request that is not released with usage:
\* the usage it brings, or the usage it had.
LEMMA MarkPendingRecords ==
    ASSUME RowsOK, NEW r \in Requests, NEW c \in Cost, MarkPending(r, c)
    PROVE  /\ \A q \in Requests \ {r} : row'[q] = row[q]
           /\ row'[r].owner = row[r].owner
           /\ Recordable(r) => row'[r].state \in Decided
           /\ row[r].state \in Decided => row'[r] = row[r]
           /\ row'[r].state \in Decided /\ row[r].state \notin Decided => row'[r].cost = c
  BY DEF RowsOK, Row, States, MarkPending, Recordable, Decided

\* persist_usage leaves the usage in the row or in the memory.
LEMMA PersistRecords ==
    ASSUME RowsOK, MemoryOK, NEW r \in Requests, NEW c \in Cost, PersistUsage(r, c)
    PROVE  /\ \A q \in Requests \ {r} : row'[q] = row[q] /\ unsaved'[q] = unsaved[q]
           /\ UNCHANGED todo /\ row'[r].owner = row[r].owner
           /\ unsaved'[r] \in {Absent, c}
           /\ row'[r].state \in Decided \/ unsaved'[r] = c
           /\ row[r].state \in Decided => row'[r] = row[r]
           /\ row'[r].state \in Decided /\ row[r].state \notin Decided => row'[r].cost = c
  <1>1. CASE Recordable(r) /\ MarkPending(r, c) /\ Forget(r) /\ UNCHANGED todo
    BY <1>1, MarkPendingRecords DEF Forget, MemoryOK
  <1>2. CASE UNCHANGED row /\ Remember(r, c)
    BY <1>2 DEF Remember, MemoryOK
  <1>3. CASE Recordable(r) /\ MarkPending(r, c) /\ Remember(r, c)
    BY <1>3, MarkPendingRecords DEF Remember, MemoryOK
  <1> QED
    BY <1>1, <1>2, <1>3 DEF PersistUsage

\* Nothing is billed at first.
LEMMA UsageInit == Init => UsageOK
  BY DEF Init, UsageOK, UsageOKOf, NoRow, Early, Leased, Serving, Decided

\* Every step keeps the usage of every request.
LEMMA UsageStep == Inv /\ UsageOK /\ [Next]_vars => UsageOK'
  <1> SUFFICES ASSUME Inv, UsageOK, [Next]_vars PROVE UsageOK'
    OBVIOUS
  <1> USE ScopeAssumption, BoundAssumption DEF Inv, TypeInv
  <1>1. ASSUME NEW r \in Requests, NEW w \in Accepting, NEW n \in Estimates, Reserve(r, w, n) PROVE UsageOK'
    <2>1. UpKeeps /\ \A q \in Requests \ {r} : Keeps(q)
      BY <1>1 DEF Reserve, Keeps, RowKeeps, PhaseKeeps, MemoryKeeps, UpKeeps, Early, Leased, Serving, Decided, workers, memory,
         RowsOK, HistOK, PhaseOK
    <2>2. bills[r] = 0 /\ unsaved[r] = Absent /\ todo[r] = Absent
      BY <1>1 DEF Reserve, UsageOK, UsageOKOf, Early
    <2>3. row'[r].state = "reserved" /\ row'[r].owner = w /\ phase'[r] \in {"held", "closed"}
      BY <1>1 DEF Reserve, RowsOK, NoRow, PhaseOK
    <2>4. UsageOKOf(r)'
      BY <1>1, <2>2, <2>3 DEF Reserve, UsageOKOf, Early, Leased, Serving, Decided, memory
    <2> QED
      BY <2>1, <2>4, OthersKeepUsage
  <1>2. ASSUME NEW r \in Requests, NEW w \in Accepting, NEW n \in Estimates, Deny(r, w, n) PROVE UsageOK'
    <2>1. UpKeeps /\ \A q \in Requests : RowKeeps(q)
      BY <1>2 DEF Deny, RowKeeps, UpKeeps, Decided, workers
    <2>2. \A q \in Requests : PhaseKeeps(q)
      BY <1>2 DEF Deny, PhaseKeeps, Early, Leased, Serving, PhaseOK
    <2>3. \A q \in Requests : MemoryKeeps(q)
      BY <1>2 DEF Deny, MemoryKeeps, MemoryOK, memory, Server
    <2> QED
      BY <2>1, <2>2, <2>3, AllKeep DEF Keeps
  <1>3. ASSUME NEW r \in Requests, BeforeSend(r) PROVE UsageOK'
    <2>1. UpKeeps /\ \A q \in Requests : RowKeeps(q)
      BY <1>3 DEF BeforeSend, RowKeeps, UpKeeps, Decided, workers, RowsOK, HistOK, History, Row
    <2>2. \A q \in Requests : PhaseKeeps(q)
      BY <1>3 DEF BeforeSend, PhaseKeeps, Early, Leased, Serving, PhaseOK, RowsOK, HistOK, History, Row
    <2>3. \A q \in Requests : MemoryKeeps(q)
      BY <1>3, SMTT(60) DEF BeforeSend, MemoryKeeps, MemoryOK, memory, Server, RowsOK, HistOK, History, Row
    <2> QED
      BY <2>1, <2>2, <2>3, AllKeep DEF Keeps
  <1>4. ASSUME NEW r \in Requests, RefuseSend(r) PROVE UsageOK'
    <2>1. UpKeeps /\ \A q \in Requests : RowKeeps(q)
      BY <1>4 DEF RefuseSend, RowKeeps, UpKeeps, Decided, workers
    <2>2. \A q \in Requests : PhaseKeeps(q)
      BY <1>4 DEF RefuseSend, PhaseKeeps, Early, Leased, Serving, PhaseOK
    <2>3. \A q \in Requests : MemoryKeeps(q)
      BY <1>4 DEF RefuseSend, MemoryKeeps, MemoryOK, memory, Server
    <2> QED
      BY <2>1, <2>2, <2>3, AllKeep DEF Keeps
  <1>5. ASSUME NEW r \in Requests, ReleaseLease(r) PROVE UsageOK'
    <2>1. UpKeeps /\ \A q \in Requests : RowKeeps(q)
      BY <1>5, SetIfReservedKeeps DEF ReleaseLease, RowKeeps, UpKeeps, Decided, workers
    <2>2. \A q \in Requests : PhaseKeeps(q)
      BY <1>5 DEF ReleaseLease, PhaseKeeps, Early, Leased, Serving, PhaseOK
    <2>3. \A q \in Requests : MemoryKeeps(q)
      BY <1>5 DEF ReleaseLease, MemoryKeeps, MemoryOK, memory, Server
    <2> QED
      BY <2>1, <2>2, <2>3, AllKeep DEF Keeps
  <1>6. ASSUME NEW r \in Requests, Abandon(r) PROVE UsageOK'
    <2>1. UpKeeps /\ \A q \in Requests : RowKeeps(q)
      BY <1>6, SetIfReservedKeeps DEF Abandon, RowKeeps, UpKeeps, Decided, workers
    <2>2. \A q \in Requests : PhaseKeeps(q)
      BY <1>6 DEF Abandon, PhaseKeeps, Early, Leased, Serving, PhaseOK
    <2>3. \A q \in Requests : MemoryKeeps(q)
      BY <1>6 DEF Abandon, MemoryKeeps, MemoryOK, memory, Server
    <2> QED
      BY <2>1, <2>2, <2>3, AllKeep DEF Keeps
  <1>7. ASSUME NEW r \in Requests, NEW c \in Costs \cup {0}, Bill(r, c) PROVE UsageOK'
    <2> c \in Cost
      BY CostTyped
    <2>1. /\ \A q \in Requests \ {r} : row'[q] = row[q] /\ unsaved'[q] = unsaved[q]
          /\ UNCHANGED todo /\ row'[r].owner = row[r].owner
          /\ unsaved'[r] \in {Absent, c}
          /\ row'[r].state \in Decided \/ unsaved'[r] = c
          /\ row[r].state \in Decided => row'[r] = row[r]
          /\ row'[r].state \in Decided /\ row[r].state \notin Decided => row'[r].cost = c
      BY <1>7, PersistRecords DEF Bill
    <2>2. UpKeeps /\ \A q \in Requests \ {r} : Keeps(q)
      BY <1>7, <2>1 DEF Bill, Keeps, RowKeeps, PhaseKeeps, MemoryKeeps, UpKeeps, Early, Leased, Serving, Decided, workers,
         HistOK, PhaseOK
    <2>3. phase[r] \in Leased /\ phase'[r] = "billing" /\ bills'[r] = 1
      BY <1>7 DEF Bill, Billable, Leased, PhaseOK
    <2>4. hist'[r].learned = c /\ hist'[r].resolved = hist[r].resolved
      BY <1>7 DEF Bill, HistOK, History
    <2>5. bills[r] = 0 /\ todo[r] = Absent /\ row[r].owner \in Workers
          /\ (hist[r].resolved = "no" => row[r].state \notin Decided)
      BY <2>3 DEF UsageOK, UsageOKOf, Early, Leased, Serving
    <2>6. UsageOKOf(r)'
      BY <2>1, <2>3, <2>4, <2>5 DEF UsageOKOf, Early, Leased, Serving
    <2> QED
      BY <2>2, <2>6, OthersKeepUsage
  <1>8. ASSUME NEW r \in Requests, BillAgain(r) PROVE UsageOK'
    <2> 0 \in Cost
      BY CostTyped
    <2>1. /\ \A q \in Requests \ {r} : row'[q] = row[q] /\ unsaved'[q] = unsaved[q]
          /\ UNCHANGED todo /\ row'[r].owner = row[r].owner
      BY <1>8, PersistRecords DEF BillAgain
    <2>2. UpKeeps /\ \A q \in Requests \ {r} : Keeps(q)
      BY <1>8, <2>1 DEF BillAgain, Keeps, RowKeeps, PhaseKeeps, MemoryKeeps, UpKeeps, Early, Leased, Serving, Decided, workers,
         HistOK, PhaseOK
    <2>3. phase'[r] = "billing" /\ bills'[r] = 2 /\ row[r].owner \in Workers
      BY <1>8 DEF BillAgain, PhaseOK, UsageOK, UsageOKOf, Serving
    <2>4. UsageOKOf(r)'
      BY <2>1, <2>3 DEF UsageOK, UsageOKOf, Early, Leased, Serving
    <2> QED
      BY <2>2, <2>4, OthersKeepUsage
  <1>9. ASSUME NEW r \in Requests, ApplyInRequest(r) PROVE UsageOK'
    <2>1. UpKeeps /\ \A q \in Requests : RowKeeps(q)
      BY <1>9, ApplyKeeps DEF ApplyInRequest, RowKeeps, UpKeeps, Decided, workers, Raised
    <2>2. \A q \in Requests : PhaseKeeps(q)
      BY <1>9 DEF ApplyInRequest, PhaseKeeps, Early, Leased, Serving, PhaseOK, Raised
    <2>3. \A q \in Requests : MemoryKeeps(q)
      BY <1>9 DEF ApplyInRequest, MemoryKeeps, MemoryOK, memory, Server, Raised
    <2> QED
      BY <2>1, <2>2, <2>3, AllKeep DEF Keeps
  <1>10. ASSUME NEW r \in Requests, ApplyFails(r) PROVE UsageOK'
    <2>1. UpKeeps /\ \A q \in Requests : RowKeeps(q)
      BY <1>10 DEF ApplyFails, RowKeeps, UpKeeps, Decided, workers, Raised
    <2>2. \A q \in Requests : PhaseKeeps(q)
      BY <1>10 DEF ApplyFails, PhaseKeeps, Early, Leased, Serving, PhaseOK, Raised
    <2>3. \A q \in Requests : MemoryKeeps(q)
      BY <1>10 DEF ApplyFails, MemoryKeeps, MemoryOK, memory, Server, Raised
    <2> QED
      BY <2>1, <2>2, <2>3, AllKeep DEF Keeps
  <1>11. ASSUME NEW r \in Requests, NoteInRequest(r) PROVE UsageOK'
    <2>1. UpKeeps /\ \A q \in Requests : RowKeeps(q)
      BY <1>11, NoteKeeps DEF NoteInRequest, RowKeeps, UpKeeps, Decided, workers, Raised, NotingOK
    <2>2. \A q \in Requests : PhaseKeeps(q)
      BY <1>11 DEF NoteInRequest, PhaseKeeps, Early, Leased, Serving, PhaseOK, Raised, NotingOK
    <2>3. \A q \in Requests : MemoryKeeps(q)
      BY <1>11 DEF NoteInRequest, MemoryKeeps, MemoryOK, memory, Server, Raised, NotingOK
    <2> QED
      BY <2>1, <2>2, <2>3, AllKeep DEF Keeps
  <1>12. ASSUME NEW r \in Requests, NEW c \in Costs \cup {0}, CutShort(r, c) PROVE UsageOK'
    <2> c \in Cost
      BY CostTyped
    <2>0. UpKeeps
      BY <1>12 DEF CutShort, UpKeeps, workers
    <2>1. UpKeeps /\ \A q \in Requests : PhaseKeeps(q)
      <3>1. phase' = [phase EXCEPT ![r] = "closed"] /\ phase[r] # "gone"
        BY <1>12 DEF CutShort, Billable
      <3> QED
        BY <2>0, <3>1 DEF PhaseKeeps, Early, Leased, Serving, PhaseOK
    <2>2. CASE UNCHANGED <<row, hist>>
      BY <1>12, <2>1, <2>2, AllKeep DEF CutShort, Keeps, RowKeeps, MemoryKeeps, memory
    <2>3. CASE Billable(r, c) /\ (UNCHANGED row \/ MarkPending(r, c)) /\ hist' = [hist EXCEPT ![r].learned = c]
      <3>1. \A q \in Requests \ {r} : Keeps(q)
        BY <1>12, <2>1, <2>3, MarkPendingRecords DEF CutShort, Keeps, RowKeeps, MemoryKeeps, memory, HistOK
      <3>2. bills[r] = 0 /\ unsaved[r] = Absent /\ todo[r] = Absent
        BY <2>3 DEF Billable, UsageOK, UsageOKOf, Early
      <3>3. phase'[r] = "closed"
        BY <1>12 DEF CutShort, PhaseOK
      <3>4. UsageOKOf(r)'
        BY <1>12, <3>2, <3>3 DEF CutShort, UsageOKOf, Early, Leased, Serving, memory
      <3> QED
        BY <2>1, <3>1, <3>4, OthersKeepUsage
    <2> QED
      BY <1>12, <2>2, <2>3 DEF CutShort
  <1>13. ASSUME NEW w \in Workers, StartLoop(w) PROVE UsageOK'
    <2>1. UpKeeps /\ \A q \in Requests : RowKeeps(q)
      BY <1>13 DEF StartLoop, RowKeeps, UpKeeps, Decided, workers, Snapshot
    <2>2. \A q \in Requests : PhaseKeeps(q)
      BY <1>13 DEF StartLoop, PhaseKeeps, Early, Leased, Serving, PhaseOK, Snapshot
    <2>3. \A q \in Requests : MemoryKeeps(q)
      BY <1>13 DEF StartLoop, MemoryKeeps, MemoryOK, memory, Server, Snapshot
    <2> QED
      BY <2>1, <2>2, <2>3, AllKeep DEF Keeps
  <1>14. ASSUME NEW w \in Workers, FindOrphans(w) PROVE UsageOK'
    <2>1. UpKeeps /\ \A q \in Requests : RowKeeps(q)
      BY <1>14 DEF FindOrphans, RowKeeps, UpKeeps, Decided, workers, Snapshot
    <2>2. \A q \in Requests : PhaseKeeps(q)
      BY <1>14 DEF FindOrphans, PhaseKeeps, Early, Leased, Serving, PhaseOK, Snapshot
    <2>3. \A q \in Requests : MemoryKeeps(q)
      BY <1>14 DEF FindOrphans, MemoryKeeps, MemoryOK, memory, Server, Snapshot
    <2> QED
      BY <2>1, <2>2, <2>3, AllKeep DEF Keeps
  <1>15. ASSUME NEW w \in Workers, ReleaseUndispatched(w) PROVE UsageOK'
    <2>1. UpKeeps /\ \A q \in Requests : RowKeeps(q)
      BY <1>15, TakeOverKeeps DEF ReleaseUndispatched, RowKeeps, UpKeeps, Decided, workers
    <2>2. \A q \in Requests : PhaseKeeps(q)
      BY <1>15 DEF ReleaseUndispatched, PhaseKeeps, Early, Leased, Serving, PhaseOK
    <2>3. \A q \in Requests : MemoryKeeps(q)
      BY <1>15 DEF ReleaseUndispatched, MemoryKeeps, MemoryOK, memory, Server
    <2> QED
      BY <2>1, <2>2, <2>3, AllKeep DEF Keeps
  <1>16. ASSUME NEW w \in Workers, HoldDispatched(w) PROVE UsageOK'
    <2>1. UpKeeps /\ \A q \in Requests : RowKeeps(q)
      BY <1>16, TakeOverKeeps DEF HoldDispatched, RowKeeps, UpKeeps, Decided, workers, Snapshot
    <2>2. \A q \in Requests : PhaseKeeps(q)
      BY <1>16 DEF HoldDispatched, PhaseKeeps, Early, Leased, Serving, PhaseOK, Snapshot
    <2>3. \A q \in Requests : MemoryKeeps(q)
      BY <1>16 DEF HoldDispatched, MemoryKeeps, MemoryOK, memory, Server, Snapshot
    <2> QED
      BY <2>1, <2>2, <2>3, AllKeep DEF Keeps
  <1>17. ASSUME NEW w \in Workers, NoteInLoop(w) PROVE UsageOK'
    <2>1. UpKeeps /\ \A q \in Requests : RowKeeps(q)
      BY <1>17, NoteKeeps DEF NoteInLoop, RowKeeps, UpKeeps, Decided, workers, NotingOK
    <2>2. \A q \in Requests : PhaseKeeps(q)
      BY <1>17 DEF NoteInLoop, PhaseKeeps, Early, Leased, Serving, PhaseOK, NotingOK
    <2>3. \A q \in Requests : MemoryKeeps(q)
      BY <1>17 DEF NoteInLoop, MemoryKeeps, MemoryOK, memory, Server, NotingOK
    <2> QED
      BY <2>1, <2>2, <2>3, AllKeep DEF Keeps
  <1>18. ASSUME NEW w \in Workers, EndLoop(w) PROVE UsageOK'
    <2>1. UpKeeps /\ \A q \in Requests : RowKeeps(q)
      BY <1>18 DEF EndLoop, RowKeeps, UpKeeps, Decided, workers
    <2>2. \A q \in Requests : PhaseKeeps(q)
      BY <1>18 DEF EndLoop, PhaseKeeps, Early, Leased, Serving, PhaseOK
    <2>3. \A q \in Requests : MemoryKeeps(q)
      BY <1>18 DEF EndLoop, MemoryKeeps, MemoryOK, memory, Server
    <2> QED
      BY <2>1, <2>2, <2>3, AllKeep DEF Keeps
  <1>19. ASSUME NEW w \in Workers, NEW at \in {"sleep", "orphans", "recover"}, FlushDone(w, at) PROVE UsageOK'
    <2>1. UpKeeps /\ \A q \in Requests : RowKeeps(q)
      BY <1>19 DEF FlushDone, RowKeeps, UpKeeps, Decided, workers
    <2>2. \A q \in Requests : PhaseKeeps(q)
      BY <1>19 DEF FlushDone, PhaseKeeps, Early, Leased, Serving, PhaseOK
    <2>3. \A q \in Requests : MemoryKeeps(q)
      BY <1>19 DEF FlushDone, MemoryKeeps, MemoryOK, memory, Server
    <2> QED
      BY <2>1, <2>2, <2>3, AllKeep DEF Keeps
  <1>20. ASSUME NEW w \in Workers, NEW r \in Requests, FlushOne(w, r) PROVE UsageOK'
    <2> todo[r] \in Cost /\ bills[r] # 0
      BY <1>20 DEF FlushOne, MemoryOK, Entry, UsageOK, UsageOKOf
    <2>1. UpKeeps /\ (\A q \in Requests : PhaseKeeps(q)) /\ UNCHANGED <<bills, hist, phase, up>>
      BY <1>20 DEF FlushOne, UpKeeps, PhaseKeeps
    <2>2. CASE Recordable(r) /\ MarkPending(r, todo[r]) /\ Forget(r) /\ todo' = [todo EXCEPT ![r] = Absent]
      <3>1. \A q \in Requests \ {r} : Keeps(q)
        BY <2>1, <2>2, MarkPendingRecords DEF Forget, Keeps, RowKeeps, MemoryKeeps, MemoryOK
      <3>2. unsaved'[r] = Absent /\ todo'[r] = Absent
        BY <2>2 DEF Forget, MemoryOK
      <3>3. /\ row'[r].owner = row[r].owner
            /\ row'[r].state \in Decided
            /\ row[r].state \in Decided => row'[r] = row[r]
            /\ row[r].state \notin Decided => row'[r].cost = todo[r]
        BY <2>2, MarkPendingRecords
      <3>4. UsageOKOf(r)'
        <4>1. bills[r] = 1 => todo[r] = hist[r].learned
          BY <1>20 DEF FlushOne, UsageOK, UsageOKOf
        <4>2. phase[r] \notin Early
          BY DEF UsageOK, UsageOKOf
        <4> QED
          BY <2>1, <3>2, <3>3, <4>1, <4>2 DEF UsageOK, UsageOKOf, Early, Leased, Serving
      <3> QED
        BY <2>1, <3>1, <3>4, OthersKeepUsage
    <2>3. CASE /\ UNCHANGED row \/ (Recordable(r) /\ MarkPending(r, todo[r]))
               /\ DropSnapshot(w) /\ UNCHANGED <<unsaved, older>>
      <3>1. \A q \in Requests : MemoryKeeps(q)
        BY <2>1, <2>3 DEF DropSnapshot, MemoryKeeps
      <3>2. \A q \in Requests \ {r} : Keeps(q)
        BY <2>1, <2>3, <3>1, MarkPendingRecords DEF Keeps, RowKeeps
      <3>3. UsageOKOf(r)'
        <4>1. CASE UNCHANGED row
          BY <2>1, <3>1, <4>1, UsageKeeps DEF RowKeeps, UsageOK
        <4>2. CASE Recordable(r) /\ MarkPending(r, todo[r])
          <5>1. bills[r] = 1 => todo[r] = hist[r].learned
            BY <1>20 DEF FlushOne, UsageOK, UsageOKOf
          <5>2. phase[r] \notin Early
            BY DEF UsageOK, UsageOKOf
          <5>3. /\ row'[r].owner = row[r].owner
                /\ row'[r].state \in Decided
                /\ row[r].state \in Decided => row'[r] = row[r]
                /\ row[r].state \notin Decided => row'[r].cost = todo[r]
            BY <4>2, MarkPendingRecords
          <5>4. unsaved'[r] = unsaved[r] /\ todo'[r] \in {todo[r], Absent}
            BY <2>3 DEF DropSnapshot
          <5> QED
            BY <2>1, <5>1, <5>2, <5>3, <5>4 DEF UsageOK, UsageOKOf, Early, Leased, Serving
        <4> QED
          BY <2>3, <4>1, <4>2
      <3> QED
        BY <2>1, <3>2, <3>3, OthersKeepUsage
    <2> QED
      BY <1>20, <2>2, <2>3 DEF FlushOne
  <1>21. ASSUME NEW w \in Workers, NEW r \in Requests, RecoverRow(w, r) PROVE UsageOK'
    <2>1. UpKeeps /\ \A q \in Requests : RowKeeps(q)
      BY <1>21, ApplyKeeps DEF RecoverRow, RowKeeps, UpKeeps, Decided, workers
    <2>2. \A q \in Requests : PhaseKeeps(q)
      BY <1>21 DEF RecoverRow, PhaseKeeps, Early, Leased, Serving, PhaseOK
    <2>3. \A q \in Requests : MemoryKeeps(q)
      BY <1>21 DEF RecoverRow, MemoryKeeps, MemoryOK, memory, Server
    <2> QED
      BY <2>1, <2>2, <2>3, AllKeep DEF Keeps
  <1>22. ASSUME NEW w \in Workers, Beat(w) PROVE UsageOK'
    <2>1. UpKeeps /\ \A q \in Requests : RowKeeps(q)
      BY <1>22 DEF Beat, RowKeeps, UpKeeps, Decided, workers
    <2>2. \A q \in Requests : PhaseKeeps(q)
      BY <1>22 DEF Beat, PhaseKeeps, Early, Leased, Serving, PhaseOK
    <2>3. \A q \in Requests : MemoryKeeps(q)
      BY <1>22 DEF Beat, MemoryKeeps, MemoryOK, memory, Server
    <2> QED
      BY <2>1, <2>2, <2>3, AllKeep DEF Keeps
  <1>23. ASSUME NEW w \in Workers, Lapse(w) PROVE UsageOK'
    <2>1. UpKeeps /\ \A q \in Requests : RowKeeps(q)
      BY <1>23 DEF Lapse, RowKeeps, UpKeeps, Decided, workers
    <2>2. \A q \in Requests : PhaseKeeps(q)
      BY <1>23 DEF Lapse, PhaseKeeps, Early, Leased, Serving, PhaseOK
    <2>3. \A q \in Requests : MemoryKeeps(q)
      BY <1>23 DEF Lapse, MemoryKeeps, MemoryOK, memory, Server
    <2> QED
      BY <2>1, <2>2, <2>3, AllKeep DEF Keeps
  <1>24. ASSUME NEW w \in Workers, Crash(w) PROVE UsageOK'
    <2>1. UpKeeps /\ \A q \in Requests : RowKeeps(q)
      BY <1>24 DEF Crash, Stop, RowKeeps, UpKeeps, WorkersOK
    <2>2. \A q \in Requests : PhaseKeeps(q)
      BY <1>24 DEF Crash, Stop, PhaseKeeps, Early, Leased, Serving, PhaseOK
    <2>3. \A q \in Requests : MemoryKeeps(q)
      BY <1>24 DEF Crash, Stop, DropSnapshot, MemoryKeeps, ServedBy, WorkersOK
    <2> QED
      BY <2>1, <2>2, <2>3, AllKeep DEF Keeps
  <1>25. ASSUME NEW w \in Workers, Leave(w) PROVE UsageOK'
    <2>1. UpKeeps /\ \A q \in Requests : RowKeeps(q)
      BY <1>25 DEF Leave, Stop, RowKeeps, UpKeeps, WorkersOK
    <2>2. \A q \in Requests : PhaseKeeps(q)
      BY <1>25 DEF Leave, Stop, PhaseKeeps, Early, Leased, Serving, PhaseOK
    <2>3. \A q \in Requests : MemoryKeeps(q)
      BY <1>25 DEF Leave, Stop, DropSnapshot, MemoryKeeps, ServedBy, WorkersOK
    <2> QED
      BY <2>1, <2>2, <2>3, AllKeep DEF Keeps
  <1>26. ASSUME NEW r \in Operated, Retry(r) PROVE UsageOK'
    <2>1. UpKeeps /\ \A q \in Requests : RowKeeps(q)
      BY <1>26 DEF Retry, RowKeeps, UpKeeps, Decided, workers, RowsOK, Row
    <2>2. \A q \in Requests : PhaseKeeps(q)
      BY <1>26 DEF Retry, PhaseKeeps, Early, Leased, Serving, PhaseOK, RowsOK, Row
    <2>3. \A q \in Requests : MemoryKeeps(q)
      BY <1>26 DEF Retry, MemoryKeeps, MemoryOK, memory, Server, RowsOK, Row
    <2> QED
      BY <2>1, <2>2, <2>3, AllKeep DEF Keeps
  <1>27. ASSUME NEW r \in Operated, ResolveRelease(r) PROVE UsageOK'
    <2>1. UpKeeps /\ \A q \in Requests : RowKeeps(q)
      BY <1>27 DEF ResolveRelease, RowKeeps, UpKeeps, Decided, workers, RowsOK, Row, HistOK, History
    <2>2. \A q \in Requests : PhaseKeeps(q)
      BY <1>27 DEF ResolveRelease, PhaseKeeps, Early, Leased, Serving, PhaseOK, RowsOK, Row, HistOK, History
    <2>3. \A q \in Requests : MemoryKeeps(q)
      BY <1>27 DEF ResolveRelease, MemoryKeeps, MemoryOK, memory, Server, RowsOK, Row, HistOK, History
    <2> QED
      BY <2>1, <2>2, <2>3, AllKeep DEF Keeps
  <1>28. ASSUME NEW r \in Operated, ResolveCharge(r) PROVE UsageOK'
    <2>1. UpKeeps /\ \A q \in Requests : RowKeeps(q)
      BY <1>28 DEF ResolveCharge, RowKeeps, UpKeeps, Decided, workers, RowsOK, Row, HistOK, History
    <2>2. \A q \in Requests : PhaseKeeps(q)
      BY <1>28 DEF ResolveCharge, PhaseKeeps, Early, Leased, Serving, PhaseOK, RowsOK, Row, HistOK, History
    <2>3. \A q \in Requests : MemoryKeeps(q)
      BY <1>28 DEF ResolveCharge, MemoryKeeps, MemoryOK, memory, Server, RowsOK, Row, HistOK, History
    <2> QED
      BY <2>1, <2>2, <2>3, AllKeep DEF Keeps
  <1>29. ASSUME NEW o \in Owners, NEW n \in Totals, SetTotal(o, n) PROVE UsageOK'
    <2>1. UpKeeps /\ \A q \in Requests : RowKeeps(q)
      BY <1>29 DEF SetTotal, RowKeeps, UpKeeps, Decided, workers
    <2>2. \A q \in Requests : PhaseKeeps(q)
      BY <1>29 DEF SetTotal, PhaseKeeps, Early, Leased, Serving, PhaseOK
    <2>3. \A q \in Requests : MemoryKeeps(q)
      BY <1>29 DEF SetTotal, MemoryKeeps, MemoryOK, memory, Server
    <2> QED
      BY <2>1, <2>2, <2>3, AllKeep DEF Keeps
  <1>30. ASSUME NEW o \in Switched, SetEnabled(o) PROVE UsageOK'
    <2>1. UpKeeps /\ \A q \in Requests : RowKeeps(q)
      BY <1>30 DEF SetEnabled, RowKeeps, UpKeeps, Decided, workers
    <2>2. \A q \in Requests : PhaseKeeps(q)
      BY <1>30 DEF SetEnabled, PhaseKeeps, Early, Leased, Serving, PhaseOK
    <2>3. \A q \in Requests : MemoryKeeps(q)
      BY <1>30 DEF SetEnabled, MemoryKeeps, MemoryOK, memory, Server
    <2> QED
      BY <2>1, <2>2, <2>3, AllKeep DEF Keeps
  <1>31. CASE UNCHANGED vars
    BY <1>31, AllKeep DEF vars, Keeps, RowKeeps, PhaseKeeps, MemoryKeeps, UpKeeps, workers, memory
  <1>32. ASSUME NEW r \in Requests, Refuse(r) PROVE UsageOK'
    <2>1. UpKeeps /\ \A q \in Requests : RowKeeps(q)
      BY <1>32 DEF Refuse, RowKeeps, UpKeeps, Decided, workers
    <2>2. \A q \in Requests : PhaseKeeps(q)
      BY <1>32 DEF Refuse, PhaseKeeps, Early, Leased, Serving, PhaseOK
    <2>3. \A q \in Requests : MemoryKeeps(q)
      BY <1>32 DEF Refuse, MemoryKeeps, MemoryOK, memory, Server
    <2> QED
      BY <2>1, <2>2, <2>3, AllKeep DEF Keeps
  <1> QED
    BY <1>1, <1>2, <1>3, <1>4, <1>5, <1>6, <1>7, <1>8, <1>9, <1>10, <1>11, <1>12, <1>13, <1>14,
       <1>15, <1>16, <1>17, <1>18, <1>19, <1>20, <1>21, <1>22, <1>23, <1>24, <1>25, <1>26,
       <1>27, <1>28, <1>29, <1>30, <1>31, <1>32
       DEF Next, Serve, Attend, Recovery, Sweep, Process, Operate

\* While its worker lives, priced usage is never lost between the row and the
\* memory of the worker that serves the request, however faults, flushes,
\* takeovers and crashes of others interleave, until an operator decides.
THEOREM UsageStaysKnown == Spec => []UsageKept
  <1>1. Init => Inv /\ UsageOK
    BY InitInv, UsageInit
  <1>2. (Inv /\ UsageOK) /\ [Next]_vars => (Inv /\ UsageOK)'
    BY StepInv, UsageStep
  <1>3. UsageOK => UsageKept
    BY DEF UsageOK, UsageOKOf, UsageKept, Recorded, Decided
  <1> QED
    BY <1>1, <1>2, <1>3, PTL DEF Spec

=============================================================================
