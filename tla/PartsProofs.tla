----------------------------- MODULE PartsProofs -----------------------------
(***************************************************************************)
(* Proofs about the components that share no state with the ledger: rows   *)
(* and the order in which they are locked, accounts and sign-in,           *)
(* administration, the caches of the configuration, the price of a hold,   *)
(* the scheduler of model checks, concurrency and token limits, routing.   *)
(* Each part has an inductive invariant of its own.                        *)
(***************************************************************************)
EXTENDS RowLocks, Accounts, Administration, ConfigCaches, Pricing, ModelMonitor, RateLimits, Routing,
        SumTheorems, FiniteSetTheorems, FunctionTheorems, SequenceTheorems, TLAPS


----------------------------------------------------------------------------
(* Transactions of any number of tenants, keys, settlements and sessions   *)
(* never wait for each other in a circle.  Every transaction locks rows of *)
(* ascending rank: its tenant, its key, then settlements by id.  So among  *)
(* transactions that wait for one another, one that waits for a row of the *)
(* highest rank waits for a transaction that waits for a higher one.       *)

\* The order in which the code locks: tenants, keys, then settlements by id
Rank(x) == IF x \in TenantRows THEN -2 ELSE IF x \in KeyRows THEN -1 ELSE x
Ranks   == {-2, -1} \cup SettlementRows

\* What a process waits for comes after all that it holds
Ascends(p) ==
    /\ p \in Seq(AllRows)
    /\ \A i, j \in 1..Len(p) : i < j => Rank(p[i]) < Rank(p[j])

\* Each row has one rank, and there are finitely many ranks
LEMMA RankOf ==
    /\ \A t \in TenantRows : Rank(t) = -2
    /\ \A k \in KeyRows : Rank(k) = -1
    /\ \A s \in SettlementRows : Rank(s) = s /\ s \in Nat
    /\ \A x \in AllRows : Rank(x) \in Ranks
    /\ Ranks \subseteq Int
    /\ IsFiniteSet(Ranks)
  <1>1. IsFiniteSet({-2, -1} \cup SettlementRows)
    <2>1. IsFiniteSet(SettlementRows \cup {-1})
      BY FS_AddElement, LocksAssumption
    <2>2. IsFiniteSet((SettlementRows \cup {-1}) \cup {-2})
      BY <2>1, FS_AddElement
    <2>3. (SettlementRows \cup {-1}) \cup {-2} = {-2, -1} \cup SettlementRows
      OBVIOUS
    <2> QED
      BY <2>2, <2>3
  <1> QED
    BY <1>1, LocksAssumption DEF Rank, Ranks, AllRows

\* Every path locks tenant -> key -> settlement, and settlements by id
LEMMA ProgramsAscend == ASSUME NEW p \in Programs \cup {<<>>} PROVE Ascends(p)
  <1>1. CASE p \in Accounting
    <2>1. PICK s \in SettlementRows : p = <<TenantOf[KeyOf[s]], KeyOf[s], s>>
      BY <1>1 DEF Accounting
    <2>2. KeyOf[s] \in KeyRows /\ TenantOf[KeyOf[s]] \in TenantRows
      BY LocksAssumption
    <2>3. Len(p) = 3 /\ p[1] = TenantOf[KeyOf[s]] /\ p[2] = KeyOf[s] /\ p[3] = s
      BY <2>1
    <2>4. p \in Seq(AllRows)
      BY <2>1, <2>2 DEF AllRows
    <2>5. Rank(p[1]) = -2 /\ Rank(p[2]) = -1 /\ Rank(p[3]) \in Nat
      BY <2>2, <2>3, RankOf
    <2> QED
      BY <2>3, <2>4, <2>5 DEF Ascends
  <1>2. CASE p \in OneSettlement \cup TenantChanges \cup {<<k>> : k \in KeyRows}
    <2>1. PICK x \in AllRows : p = <<x>>
      BY <1>2 DEF OneSettlement, TenantChanges, AllRows
    <2> QED
      BY <2>1 DEF Ascends
  <1>3. CASE p \in {<<TenantOf[k], k>> : k \in KeyRows}
    <2>1. PICK k \in KeyRows : p = <<TenantOf[k], k>>
      BY <1>3
    <2>2. TenantOf[k] \in TenantRows
      BY LocksAssumption
    <2>3. Len(p) = 2 /\ p[1] = TenantOf[k] /\ p[2] = k /\ p \in Seq(AllRows)
      BY <2>1, <2>2 DEF AllRows
    <2>4. Rank(p[1]) = -2 /\ Rank(p[2]) = -1
      BY <2>2, <2>3, RankOf
    <2> QED
      BY <2>3, <2>4 DEF Ascends
  <1>4. CASE p \in TakingOver
    <2>1. PICK n \in 1..Cardinality(SettlementRows) : p \in [1..n -> SettlementRows]
      BY <1>4 DEF TakingOver
    <2>2. n \in Nat
      BY <2>1, FS_CardinalityType, LocksAssumption
    <2>3. p \in Seq(SettlementRows) /\ Len(p) = n
      BY <2>1, <2>2
    <2>4. \A i, j \in 1..n : i < j => p[i] < p[j]
      BY <1>4, <2>1 DEF TakingOver
    <2>5. \A i \in 1..n : Rank(p[i]) = p[i]
      BY <2>1, RankOf
    <2>6. p \in Seq(AllRows)
      BY <2>3, <2>2 DEF AllRows
    <2> QED
      BY <2>3, <2>4, <2>5, <2>6 DEF Ascends
  <1>5. CASE p = <<>>
    BY <1>5 DEF Ascends
  <1> QED
    BY <1>1, <1>2, <1>3, <1>4, <1>5 DEF Programs, KeyChanges

\* Every lock is held by the processes that took it, in ascending order.
LEMMA TypeLocks == SpecLocks => []TypeOKLocks
  <1>1. InitLocks => TypeOKLocks
    BY DEF InitLocks, TypeOKLocks
  <1>2. TypeOKLocks /\ [NextLocks]_lockVars => TypeOKLocks'
    <2> SUFFICES ASSUME TypeOKLocks, [NextLocks]_lockVars PROVE TypeOKLocks'
      OBVIOUS
    <2>0. \A s \in Sessions : Len(program[s]) \in Nat
      BY ProgramsAscend DEF TypeOKLocks, Ascends
    <2>1. ASSUME NEW s \in Sessions, Begin(s) PROVE TypeOKLocks'
      <3>1. PICK p \in Programs : program' = [program EXCEPT ![s] = p]
        BY <2>1 DEF Begin
      <3>2. Len(p) \in Nat
        BY ProgramsAscend DEF Ascends
      <3>3. locked[s] = 0
        BY <2>1 DEF Begin, TypeOKLocks
      <3> QED
        BY <2>1, <3>1, <3>2, <3>3 DEF Begin, TypeOKLocks
    <2>2. ASSUME NEW s \in Sessions, LockRow(s) PROVE TypeOKLocks'
      BY <2>0, <2>2 DEF LockRow, Waits, TypeOKLocks
    <2>3. ASSUME NEW s \in Sessions, End(s) PROVE TypeOKLocks'
      BY <2>3 DEF End, TypeOKLocks
    <2>4. CASE UNCHANGED lockVars
      BY <2>4 DEF lockVars, TypeOKLocks
    <2> QED
      BY <2>1, <2>2, <2>3, <2>4 DEF NextLocks
  <1> QED
    BY <1>1, <1>2, PTL DEF SpecLocks

\* The ranks above that of the row a transaction waits for
Above(s) == {n \in Ranks : n > Rank(Wanted(s))}

\* Of finitely many processes that wait, one waits for the last row.
LEMMA HigherRanks ==
    ASSUME NEW R, \A n \in R : n \in Int, NEW a \in R, NEW b \in R, a < b
    PROVE  /\ b \in {n \in R : n > a} /\ b \notin {n \in R : n > b}
           /\ {n \in R : n > b} \subseteq {n \in R : n > a}
  <1>1. a \in Int /\ b \in Int
    OBVIOUS
  <1>2. b > a /\ ~(b > b)
    BY <1>1
  <1>3. \A n \in R : n > b => n > a
    BY <1>1
  <1> QED
    BY <1>2, <1>3

\* Whoever holds a row that is wanted waits for a row of a higher rank
LEMMA HoldersWaitHigher ==
    ASSUME TypeOKLocks, NEW s \in Sessions, NEW q \in Sessions, Waits(s), Waits(q), Wanted(s) \in Held(q)
    PROVE  Above(q) \subseteq Above(s) /\ Above(q) # Above(s)
  <1>1. Ascends(program[q]) /\ Ascends(program[s])
    BY ProgramsAscend DEF TypeOKLocks
  <1>2. PICK i \in 1..locked[q] : Wanted(s) = program[q][i]
    BY DEF Held
  <1>3. locked[q] + 1 \in 1..Len(program[q]) /\ i \in 1..Len(program[q]) /\ i < locked[q] + 1
    BY <1>1, <1>2 DEF Waits, TypeOKLocks, Ascends
  <1>4. Rank(Wanted(s)) < Rank(Wanted(q))
    BY <1>1, <1>2, <1>3 DEF Ascends, Wanted
  <1>5. Wanted(q) \in AllRows /\ Wanted(s) \in AllRows
    BY <1>1, <1>2, <1>3 DEF Ascends, Wanted
  <1>6. Rank(Wanted(q)) \in Ranks /\ Rank(Wanted(s)) \in Ranks /\ Ranks \subseteq Int
    BY <1>5, RankOf
  <1>7. Rank(Wanted(q)) \in Above(s) /\ Rank(Wanted(q)) \notin Above(q) /\ Above(q) \subseteq Above(s)
    BY <1>4, <1>6, HigherRanks DEF Above
  <1> QED
    BY <1>7

\* The holder of the last row that is waited for waits for nothing.
LEMMA AscendingNeverBlocks == TypeOKLocks => NoDeadlock
  <1> SUFFICES ASSUME TypeOKLocks, NEW S \in SUBSET Sessions, S # {}, Blocked(S) PROVE FALSE
    BY DEF NoDeadlock
  <1> DEFINE T == {Above(s) : s \in S}
  <1>1. IsWellFoundedOn(StrictSubsetOrdering(Ranks), FiniteSubsetsOf(Ranks))
    BY FS_StrictSubsetOrderingWellFounded
  <1>2. T # {}
    OBVIOUS
  <1>3. \A s \in S : Above(s) \in SUBSET Ranks /\ IsFiniteSet(Above(s))
    <2>1. TAKE s \in S
    <2>2. Above(s) \in SUBSET Ranks
      BY DEF Above
    <2> QED
      BY <2>2, FS_Subset, RankOf
  <1>4. T \subseteq FiniteSubsetsOf(Ranks)
    BY <1>3 DEF FiniteSubsetsOf
  <1> HIDE DEF T
  <1>5. PICK A \in T : \A B \in T : ~(<<B, A>> \in StrictSubsetOrdering(Ranks))
    BY <1>1, <1>2, <1>4, WFMin
  <1>6. PICK s \in S : A = Above(s)
    BY <1>5 DEF T
  <1>7. PICK q \in S \ {s} : Wanted(s) \in Held(q)
    BY DEF Blocked
  <1>8. Above(q) \subseteq Above(s) /\ Above(q) # Above(s)
    BY <1>7, HoldersWaitHigher DEF Blocked
  <1>9. Above(q) \in T
    BY <1>7 DEF T
  <1>10. <<Above(q), Above(s)>> \in StrictSubsetOrdering(Ranks)
    BY <1>3, <1>7, <1>8 DEF StrictSubsetOrdering
  <1> QED
    BY <1>5, <1>6, <1>9, <1>10

\* "Every path locks tenant -> key -> settlement": however many transactions
\* run, MySQL never finds a deadlock among the rows of the ledger.
THEOREM LocksNeverDeadlock == SpecLocks => []NoDeadlock
  BY TypeLocks, AscendingNeverBlocks, PTL


----------------------------------------------------------------------------
(* For any number of accounts, requests and tokens: one administrator      *)
(* stays active, and a token that has ended stays dead.  The second rests  *)
(* on token_version never going back while an account exists, so that no   *)
(* token is ever ahead of its account (NoneAhead).                         *)

\* No token has a later version than its account
NoneAhead == \A t \in minted : Exists(t.user) => t.version <= account[t.user].version

\* The inductive invariant
Inv == TypeOKAccounts /\ NoneAhead /\ AdminRemains

\* What a step may do to the accounts, so that no token comes back to life
EndsTokens ==
    /\ \A u \in Users : account'[u].password # account[u].password \/ (account[u].active /\ ~account'[u].active)
          => \A t \in minted : t.user = u => Dead(t)'
    /\ \A t \in minted : Dead(t) => Dead(t)'

\* What every step is shown to do: keep it, and end the tokens of a changed
\* account
Good == Inv' /\ EndsTokens

\* Of more than one active administrator, one is not u.
LEMMA AnotherActive ==
    ASSUME NEW u, Cardinality(ActiveAdmins) > 1
    PROVE  \E v \in ActiveAdmins : v # u
  <1> SUFFICES ASSUME ActiveAdmins \subseteq {u} PROVE FALSE
    OBVIOUS
  <1>1. ActiveAdmins = {} \/ ActiveAdmins = {u}
    OBVIOUS
  <1>2. Cardinality({}) = 0 /\ Cardinality({u}) = 1
    BY FS_EmptySet, FS_Singleton
  <1> QED
    BY <1>1, <1>2

\* A row of an account that exists, and the row of one that does not
LEMMA RowFacts ==
    ASSUME TypeOKAccounts, NEW u \in Users
    PROVE  /\ Exists(u) => /\ account[u].password \in Passwords /\ account[u].active \in BOOLEAN
                           /\ account[u].must \in BOOLEAN /\ account[u].version \in 0..MaxVersion
           /\ ~Exists(u) => account[u] = Absent
           /\ account[u].version \in Nat
           /\ MaxVersion \in Nat
  BY AccountsAssumption DEF TypeOKAccounts, Rows, Exists, Absent

\* Accounts are as they were; tokens issued carry the version of their account
LEMMA AccountsStay ==
    ASSUME Inv, UNCHANGED account,
           minted' \in SUBSET (minted \cup {Token(u, account[u].version) : u \in {v \in Users : Exists(v)}}),
           minted \subseteq minted',
           TypeOKAccounts'
    PROVE  Good
  <1>1. NoneAhead'
    <2> SUFFICES ASSUME NEW t \in minted', account[t.user].password # NoPassword
                 PROVE  t.version <= account[t.user].version
      BY DEF NoneAhead, Exists
    <2>1. CASE t \in minted
      BY <2>1 DEF Inv, NoneAhead, Exists
    <2>2. ASSUME NEW u \in Users, Exists(u), t = Token(u, account[u].version)
          PROVE  t.version <= account[t.user].version
      BY <2>2, RowFacts DEF Token, Inv
    <2> QED
      BY <2>1, <2>2
  <1>2. AdminRemains'
    BY DEF Inv, AdminRemains, ActiveAdmins, Exists
  <1>3. EndsTokens
    BY DEF EndsTokens, Dead, Exists
  <1> QED
    BY <1>1, <1>2, <1>3 DEF Good, Inv

\* One account changes: its version goes on when its password changes or it is
\* disabled, and it is created only where it has no tokens
Continues(u, new) ==
    \/ /\ Exists(u) /\ new.password # NoPassword
       /\ new.version \in Nat /\ new.version >= account[u].version
       /\ \/ new.version > account[u].version
          \/ new.password = account[u].password /\ (account[u].active => new.active)
    \/ new = Absent
    \/ ~Exists(u) /\ \A t \in minted : t.user # u

\* A change of one account is good if it ends its tokens, or changes nothing
\* that they stand for.
LEMMA OneChanges ==
    ASSUME Inv, NEW u \in Users, NEW new \in Rows,
           account' = [account EXCEPT ![u] = new], UNCHANGED minted,
           Continues(u, new),
           \/ u \notin Admins \/ ~account[u].active \/ (new.password # NoPassword /\ new.active)
           \/ Cardinality(ActiveAdmins) > 1,
           TypeOKAccounts'
    PROVE  Good
  <1>1. account \in [Users -> Rows] /\ account'[u] = new /\ \A v \in Users \ {u} : account'[v] = account[v]
    BY DEF Inv, TypeOKAccounts
  <1>2. \A t \in minted : t.user \in Users /\ t.version \in Nat
    BY DEF Inv, TypeOKAccounts
  <1>3. NoneAhead'
    <2> SUFFICES ASSUME NEW t \in minted, account'[t.user].password # NoPassword
                 PROVE  t.version <= account'[t.user].version
      BY DEF NoneAhead, Exists
    <2>1. CASE t.user # u
      BY <1>1, <1>2, <2>1 DEF Inv, NoneAhead, Exists
    <2>2. CASE t.user = u
      <3>1. new.password # NoPassword
        BY <1>1, <2>2
      <3>2. Exists(u) /\ new.version \in Nat /\ new.version >= account[u].version
        BY <2>2, <3>1 DEF Continues, Absent
      <3>3. t.version <= account[u].version /\ account[u].version \in Nat
        BY <2>2, <3>2, RowFacts DEF Inv, NoneAhead
      <3> QED
        BY <1>1, <1>2, <2>2, <3>2, <3>3
    <2> QED
      BY <2>1, <2>2
  <1>4. AdminRemains'
    <2>1. \A v \in Admins \ {u} : v \in ActiveAdmins => v \in ActiveAdmins'
      BY <1>1 DEF ActiveAdmins, Exists, Users
    <2>2. CASE Cardinality(ActiveAdmins) > 1
      <3>1. PICK v \in ActiveAdmins : v # u
        BY <2>2, AnotherActive
      <3> QED
        BY <2>1, <3>1 DEF AdminRemains, ActiveAdmins
    <2>3. CASE u \notin ActiveAdmins
      <3>1. PICK v \in ActiveAdmins : v # u
        BY <2>3 DEF Inv, AdminRemains
      <3> QED
        BY <2>1, <3>1 DEF AdminRemains, ActiveAdmins
    <2>4. CASE u \in ActiveAdmins /\ new.password # NoPassword /\ new.active
      BY <1>1, <2>4 DEF AdminRemains, ActiveAdmins, Exists
    <2> QED
      BY <2>2, <2>3, <2>4 DEF ActiveAdmins
  <1>5. \A t \in minted : t.user = u => t.version <= account[u].version \/ ~Exists(u)
    BY DEF Inv, NoneAhead
  <1>6. ASSUME NEW t \in minted, t.user = u, Exists(u), new.version \in Nat, new.version > account[u].version
        PROVE  Dead(t)'
    <2>1. t.version <= account[u].version /\ account[u].version \in Nat
      BY <1>5, <1>6, RowFacts DEF Inv
    <2> QED
      BY <1>1, <1>2, <1>6, <2>1 DEF Dead
  <1>7. ASSUME new = Absent, NEW t \in minted, t.user = u PROVE Dead(t)'
    BY <1>1, <1>7 DEF Dead, Exists, Absent
  <1>8. EndsTokens
    <2>1. ASSUME NEW v \in Users,
                 account'[v].password # account[v].password \/ (account[v].active /\ ~account'[v].active),
                 NEW t \in minted, t.user = v
          PROVE  Dead(t)'
      <3>1. v = u
        BY <1>1, <2>1
      <3>2. CASE ~Exists(u) /\ \A x \in minted : x.user # u
        BY <2>1, <3>1, <3>2
      <3>3. CASE Exists(u) /\ new.version \in Nat /\ new.version > account[u].version
        BY <1>6, <2>1, <3>1, <3>3
      <3>4. CASE new = Absent
        BY <1>7, <2>1, <3>1, <3>4
      <3>5. CASE new.password = account[u].password /\ (account[u].active => new.active)
        BY <1>1, <2>1, <3>1, <3>5
      <3> QED
        BY <3>2, <3>3, <3>4, <3>5 DEF Continues
    <2>2. ASSUME NEW t \in minted, Dead(t) PROVE Dead(t)'
      <3>1. CASE t.user # u
        BY <1>1, <1>2, <2>2, <3>1 DEF Dead, Exists
      <3>2. CASE t.user = u /\ new = Absent
        BY <1>7, <3>2
      <3>3. CASE t.user = u /\ Exists(u) /\ new.version \in Nat /\ new.version >= account[u].version
        <4>1. t.version <= account[u].version /\ t.version # account[u].version /\ account[u].version \in Nat
          BY <1>5, <2>2, <3>3, RowFacts DEF Dead, Inv
        <4> QED
          BY <1>1, <1>2, <3>3, <4>1 DEF Dead
      <3> QED
        BY <3>1, <3>2, <3>3 DEF Continues
    <2> QED
      BY <2>1, <2>2 DEF EndsTokens
  <1> QED
    BY <1>3, <1>4, <1>8 DEF Good, Inv

----------------------------------------------------------------------------
\* The actions, each as one of the two cases above

\* A bump of the version is a change of one account.
LEMMA BumpRow ==
    ASSUME TypeOKAccounts, NEW u \in Users, Exists(u), NEW pw \in Passwords, NEW must \in BOOLEAN,
           account[u].version < MaxVersion
    PROVE  Bumped(u, pw, must) \in Rows
  <1>1. account[u] \in [password : Passwords, active : BOOLEAN, must : BOOLEAN, version : 0..MaxVersion]
    BY DEF TypeOKAccounts, Rows, Exists, Absent
  <1>2. account[u].version + 1 \in 0..MaxVersion
    BY <1>1, AccountsAssumption
  <1> QED
    BY <1>1, <1>2 DEF Bumped, Rows

\* A request's record, and the rows of accounts, stay well typed
LEMMA RequestTypes ==
    ASSUME TypeOKAccounts, NEW r \in Handlers, Answered(r)
    PROVE  request' \in [Handlers -> [doing : {"nothing", "marks", "change", "refresh", "create", "reset", "update", "delete"},
                                      user : SUBSET Users, row : Rows]]
  BY DEF TypeOKAccounts, Answered, Idle, Rows

\* The actions, one after the other: a bump,
LEMMA BumpGood ==
    ASSUME Inv, TypeOKAccounts', NEW u \in Users, Exists(u), NEW pw \in Passwords, NEW must \in BOOLEAN,
           account[u].version < MaxVersion, account' = Bump(u, pw, must), UNCHANGED minted
    PROVE  Good
  <1> DEFINE new == Bumped(u, pw, must)
  <1>1. account' = [account EXCEPT ![u] = new] /\ new \in Rows
    BY BumpRow DEF Inv, Bump
  <1>2. Continues(u, new)
    <2>1. account[u].version \in Nat
      BY RowFacts DEF Inv
    <2>2. new.password # NoPassword
      BY AccountsAssumption DEF Bumped
    <2>3. new.version = account[u].version + 1
      BY DEF Bumped
    <2> QED
      BY <2>1, <2>2, <2>3 DEF Continues
  <1>3. ~account[u].active \/ (new.password # NoPassword /\ new.active)
    BY AccountsAssumption DEF Bumped
  <1> HIDE DEF new
  <1> QED
    BY <1>1, <1>2, <1>3, OneChanges

\* Steps that leave every account alone
LEMMA QuietStep ==
    ASSUME Inv, TypeOKAccounts', UNCHANGED <<account, minted>>
    PROVE  Good
  BY AccountsStay

\* a login,
LEMMA LoginGood ==
    ASSUME Inv, NEW r \in Handlers, NEW u \in Users, NEW pw \in Passwords, Login(r, u, pw)
    PROVE  Good
  <1>1. minted' = minted \cup {Token(u, account[u].version)} /\ Exists(u) /\ UNCHANGED <<account, locking>>
    BY DEF Login
  <1>2. TypeOKAccounts'
    <2>1. Token(u, account[u].version) \in [user : Users, version : 0..MaxVersion]
      BY <1>1, RowFacts DEF Token, Inv
    <2>2. request' \in [Handlers -> [doing : {"nothing", "marks", "change", "refresh", "create", "reset", "update", "delete"},
                                     user : SUBSET Users, row : Rows]]
      BY DEF Login, Inv, TypeOKAccounts, Rows
    <2> QED
      BY <1>1, <2>1, <2>2 DEF Inv, TypeOKAccounts
  <1> QED
    BY <1>1, <1>2, AccountsStay

\* a refresh of tokens,
LEMMA RefreshGood ==
    ASSUME Inv, NEW r \in Handlers, RefreshVersion(r)
    PROVE  Good
  <1>1. PICK u \in request[r].user :
            minted' = IF Exists(u) THEN minted \cup {Token(u, account[u].version)} ELSE minted
    BY DEF RefreshVersion
  <1>2. u \in Users
    BY <1>1 DEF Inv, TypeOKAccounts
  <1>3. UNCHANGED <<account, locking>> /\ Answered(r)
    BY DEF RefreshVersion
  <1>4. TypeOKAccounts'
    <2>1. Exists(u) => Token(u, account[u].version) \in [user : Users, version : 0..MaxVersion]
      BY <1>2, RowFacts DEF Token, Inv
    <2> QED
      BY <1>1, <1>3, <2>1, RequestTypes DEF Inv, TypeOKAccounts
  <1> QED
    BY <1>1, <1>2, <1>3, <1>4, AccountsStay

\* a default password that is to be changed,
LEMMA MarkGood ==
    ASSUME Inv, NEW r \in Handlers, MarkDefault(r)
    PROVE  Good
  <1>1. PICK u \in request[r].user :
            account' = IF Exists(u) THEN [account EXCEPT ![u].must = TRUE] ELSE account
    BY DEF MarkDefault
  <1>2. u \in Users /\ UNCHANGED <<minted, locking>> /\ Answered(r)
    BY <1>1 DEF Inv, TypeOKAccounts, MarkDefault
  <1>3. CASE ~Exists(u)
    <2>1. TypeOKAccounts'
      BY <1>1, <1>2, <1>3, RequestTypes DEF Inv, TypeOKAccounts
    <2> QED
      BY <1>1, <1>2, <1>3, <2>1, QuietStep
  <1>4. CASE Exists(u)
    <2> DEFINE new == [account[u] EXCEPT !.must = TRUE]
    <2>1. account' = [account EXCEPT ![u] = new]
      BY <1>1, <1>4
    <2>2. account[u] \in [password : Passwords, active : BOOLEAN, must : BOOLEAN, version : 0..MaxVersion]
      BY <1>2, <1>4 DEF Inv, TypeOKAccounts, Rows, Exists, Absent
    <2>3. /\ new \in [password : Passwords, active : BOOLEAN, must : BOOLEAN, version : 0..MaxVersion]
          /\ new.password = account[u].password /\ new.active = account[u].active
          /\ new.version = account[u].version
      BY <2>2
    <2>4. new \in Rows /\ new.version \in Nat
      BY <2>3 DEF Rows
    <2> HIDE DEF new
    <2>5. account' \in [Users -> Rows]
      BY <1>2, <2>1, <2>4 DEF Inv, TypeOKAccounts
    <2>6. TypeOKAccounts'
      BY <1>2, <2>5, RequestTypes DEF Inv, TypeOKAccounts
    <2>7. new.password # NoPassword
      BY <1>4, <2>3 DEF Exists
    <2>8. Continues(u, new)
      BY <1>4, <2>3, <2>4, <2>7 DEF Continues
    <2>9. ~account[u].active \/ (new.password # NoPassword /\ new.active)
      BY <2>2, <2>3, <2>7
    <2> QED
      BY <1>2, <2>1, <2>4, <2>6, <2>8, <2>9, OneChanges
  <1> QED
    BY <1>3, <1>4

\* a change of a password,
LEMMA ChangeGood ==
    ASSUME Inv, NEW r \in Handlers, NEW old \in Passwords, NEW new \in Passwords, ChangePassword(r, old, new)
    PROVE  Good
  <1>1. PICK u \in request[r].user :
            /\ account[u].version < MaxVersion
            /\ account' = IF Exists(u) THEN Bump(u, new, FALSE) ELSE account
    BY DEF ChangePassword
  <1>2. u \in Users
    BY <1>1 DEF Inv, TypeOKAccounts
  <1>3. UNCHANGED <<minted, locking>>
        /\ request' = [request EXCEPT ![r] = [@ EXCEPT !.doing = "refresh", !.row = Absent]]
    BY DEF ChangePassword
  <1>4. account' \in [Users -> Rows]
    BY <1>1, <1>2, BumpRow DEF Inv, TypeOKAccounts, Bump
  <1>5. request' \in [Handlers -> [doing : {"nothing", "marks", "change", "refresh", "create", "reset", "update", "delete"},
                                   user : SUBSET Users, row : Rows]]
    <2>1. Absent \in Rows
      BY DEF Rows
    <2> QED
      BY <1>3, <2>1 DEF Inv, TypeOKAccounts
  <1>6. TypeOKAccounts'
    BY <1>3, <1>4, <1>5 DEF Inv, TypeOKAccounts
  <1>7. CASE Exists(u)
    BY <1>1, <1>2, <1>3, <1>6, <1>7, BumpGood
  <1>8. CASE ~Exists(u)
    BY <1>1, <1>3, <1>6, <1>8, QuietStep
  <1> QED
    BY <1>7, <1>8

\* its reset by an administrator,
LEMMA ResetGood ==
    ASSUME Inv, NEW r \in Handlers, NEW u \in Users, NEW pw \in Passwords, ResetPassword(r, u, pw)
    PROVE  Good
  <1>1. /\ account[u].version < MaxVersion
        /\ account' = IF Exists(u) THEN Bump(u, pw, TRUE) ELSE account
        /\ UNCHANGED <<minted, locking>> /\ Answered(r)
    BY DEF ResetPassword
  <1>2. account' \in [Users -> Rows]
    BY <1>1, BumpRow DEF Inv, TypeOKAccounts, Bump
  <1>3. TypeOKAccounts'
    BY <1>1, <1>2, RequestTypes DEF Inv, TypeOKAccounts
  <1>4. CASE Exists(u)
    BY <1>1, <1>3, <1>4, BumpGood
  <1>5. CASE ~Exists(u)
    BY <1>1, <1>3, <1>5, QuietStep
  <1> QED
    BY <1>4, <1>5

\* a new account,
LEMMA CreateGood ==
    ASSUME Inv, NEW r \in Handlers, NEW u \in Users, NEW pw \in Passwords, CreateAdmin(r, u, pw)
    PROVE  Good
  <1> DEFINE new == [password |-> pw, active |-> TRUE, must |-> TRUE, version |-> 0]
  <1>1. account' = [account EXCEPT ![u] = new] /\ UNCHANGED <<minted, locking>> /\ Answered(r)
    BY DEF CreateAdmin
  <1>2. new \in Rows
    BY AccountsAssumption DEF Rows
  <1>3. account' \in [Users -> Rows]
    BY <1>1, <1>2 DEF Inv, TypeOKAccounts
  <1>4. TypeOKAccounts'
    BY <1>1, <1>3, RequestTypes DEF Inv, TypeOKAccounts
  <1>5. Continues(u, new)
    BY DEF CreateAdmin, Continues
  <1>6. ~account[u].active
    BY RowFacts DEF CreateAdmin, Inv, Absent
  <1> HIDE DEF new
  <1> QED
    BY <1>1, <1>2, <1>4, <1>5, <1>6, OneChanges

\* the update of an account,
LEMMA UpdateGood ==
    ASSUME Inv, NEW r \in Handlers, NEW u \in Admins, NEW pw \in Passwords \cup {NoPassword}, UpdateAdmin(r, u, pw)
    PROVE  Good
  <1>1. PICK sent \in {{}, {TRUE}, {FALSE}} :
            /\ FALSE \in sent => MayDisable(r, u)
            /\ (pw # NoPassword \/ FALSE \in sent) => account[u].version < MaxVersion
            /\ account' = [account EXCEPT ![u] =
                  [password |-> IF pw = NoPassword THEN account[u].password ELSE pw,
                   active   |-> IF sent = {} THEN account[u].active ELSE sent = {TRUE},
                   must     |-> account[u].must \/ pw # NoPassword,
                   version  |-> IF pw # NoPassword \/ FALSE \in sent THEN account[u].version + 1
                                ELSE account[u].version]]
    BY DEF UpdateAdmin
  <1> DEFINE new == [password |-> IF pw = NoPassword THEN account[u].password ELSE pw,
                     active   |-> IF sent = {} THEN account[u].active ELSE sent = {TRUE},
                     must     |-> account[u].must \/ pw # NoPassword,
                     version  |-> IF pw # NoPassword \/ FALSE \in sent THEN account[u].version + 1
                                  ELSE account[u].version]
  <1>2. u \in Users /\ Exists(u) /\ UNCHANGED minted /\ locking' = {} /\ Answered(r)
    BY DEF UpdateAdmin, Users
  <1>3. /\ account[u].password \in Passwords /\ account[u].active \in BOOLEAN /\ account[u].must \in BOOLEAN
        /\ account[u].version \in 0..MaxVersion /\ MaxVersion \in Nat
    BY <1>2, RowFacts DEF Inv
  <1>4. new \in Rows
    <2>1. (IF pw # NoPassword \/ FALSE \in sent THEN account[u].version + 1 ELSE account[u].version) \in 0..MaxVersion
      <3>1. CASE pw # NoPassword \/ FALSE \in sent
        <4>1. account[u].version < MaxVersion
          BY <1>1, <3>1
        <4>2. account[u].version + 1 \in 0..MaxVersion
          BY <1>3, <4>1
        <4> QED
          BY <3>1, <4>2
      <3>2. CASE ~(pw # NoPassword \/ FALSE \in sent)
        BY <1>3, <3>2
      <3> QED
        BY <3>1, <3>2
    <2>2. (IF sent = {} THEN account[u].active ELSE sent = {TRUE}) \in BOOLEAN
      BY <1>3
    <2>3. (IF pw = NoPassword THEN account[u].password ELSE pw) \in Passwords
      BY <1>3
    <2>4. (account[u].must \/ pw # NoPassword) \in BOOLEAN
      OBVIOUS
    <2> QED
      BY <2>1, <2>2, <2>3, <2>4 DEF Rows
  <1>5. account' = [account EXCEPT ![u] = new]
    BY <1>1
  <1>6. account' \in [Users -> Rows]
    BY <1>2, <1>4, <1>5 DEF Inv, TypeOKAccounts
  <1>7. TypeOKAccounts'
    BY <1>2, <1>6, RequestTypes DEF Inv, TypeOKAccounts
  <1>8. Continues(u, new)
    <2>1. new.password # NoPassword
      BY <1>3, AccountsAssumption
    <2>2. account[u].version \in Nat
      BY <1>3
    <2>3. CASE pw # NoPassword \/ FALSE \in sent
      <3>1. new.version = account[u].version + 1
        BY <2>3
      <3> HIDE DEF new
      <3> QED
        BY <1>2, <2>1, <2>2, <3>1 DEF Continues
    <2>4. CASE pw = NoPassword /\ FALSE \notin sent
      <3>0. new.version = account[u].version
        BY <2>4
      <3>1. account[u].active => new.active
        BY <2>4
      <3>2. new.password = account[u].password
        BY <2>4
      <3> HIDE DEF new
      <3> QED
        BY <1>2, <2>1, <2>2, <3>0, <3>1, <3>2 DEF Continues
    <2> QED
      BY <2>3, <2>4
  <1>9. \/ ~account[u].active \/ (new.password # NoPassword /\ new.active)
        \/ Cardinality(ActiveAdmins) > 1
    <2>1. CASE FALSE \in sent
      BY <1>1, <2>1 DEF MayDisable
    <2>2. CASE FALSE \notin sent
      BY <1>3, <2>2, AccountsAssumption
    <2> QED
      BY <2>1, <2>2
  <1> HIDE DEF new
  <1> QED
    BY <1>2, <1>4, <1>5, <1>7, <1>8, <1>9, OneChanges

\* and its removal.
LEMMA DeleteAccountGood ==
    ASSUME Inv, NEW r \in Handlers, NEW u \in Admins, DeleteAdmin(r, u)
    PROVE  Good
  <1>1. u \in Users /\ account' = [account EXCEPT ![u] = Absent] /\ UNCHANGED minted /\ locking' = {} /\ Answered(r)
    BY DEF DeleteAdmin, Users
  <1>2. Absent \in Rows /\ Continues(u, Absent)
    BY DEF Rows, Continues
  <1>3. TypeOKAccounts'
    BY <1>1, <1>2, RequestTypes DEF Inv, TypeOKAccounts
  <1>4. ~account[u].active \/ Cardinality(ActiveAdmins) > 1
    BY DEF DeleteAdmin, MayDisable
  <1> QED
    BY <1>1, <1>2, <1>3, <1>4, OneChanges

\* Requests that only read, lock or are refused
LEMMA OthersGood ==
    ASSUME Inv, NEW r \in Handlers,
           (\E t \in minted : Enter(r, t)) \/ LockAdmins(r) \/ Refuse(r) \/ UNCHANGED accountVars
    PROVE  Good
  <1>1. CASE \E t \in minted : Enter(r, t)
    <2>1. PICK t \in minted : Enter(r, t)
      BY <1>1
    <2>2. t.user \in Users /\ account[t.user] \in Rows /\ Absent \in Rows
      BY DEF Inv, TypeOKAccounts, Rows
    <2>3. PICK op \in {"change", "reset", "update", "delete", "create"} :
              request' = [request EXCEPT ![r] = [doing |-> op, user |-> {t.user},
                                                 row |-> IF op = "change" THEN account[t.user] ELSE Absent]]
      BY <2>1 DEF Enter
    <2>4. TypeOKAccounts'
      BY <2>1, <2>2, <2>3 DEF Inv, TypeOKAccounts, Enter
    <2> QED
      BY <2>1, <2>4, QuietStep DEF Enter
  <1>2. CASE LockAdmins(r)
    <2>1. TypeOKAccounts'
      BY <1>2 DEF Inv, TypeOKAccounts, LockAdmins
    <2> QED
      BY <1>2, <2>1, QuietStep DEF LockAdmins
  <1>3. CASE Refuse(r)
    <2>1. TypeOKAccounts'
      BY <1>3, RequestTypes DEF Inv, TypeOKAccounts, Refuse
    <2> QED
      BY <1>3, <2>1, QuietStep DEF Refuse
  <1>4. CASE UNCHANGED accountVars
    <2>1. TypeOKAccounts'
      BY <1>4 DEF Inv, TypeOKAccounts, accountVars, Rows
    <2> QED
      BY <1>4, <2>1, QuietStep DEF accountVars
  <1> QED
    BY <1>1, <1>2, <1>3, <1>4

\* Every step is good.
LEMMA GoodStep == Inv /\ [NextAccounts]_accountVars => Good
  <1> SUFFICES ASSUME Inv, [NextAccounts]_accountVars PROVE Good
    OBVIOUS
  <1>1. CASE UNCHANGED accountVars
    <2>1. TypeOKAccounts'
      BY <1>1 DEF Inv, TypeOKAccounts, accountVars, Rows
    <2> QED
      BY <1>1, <2>1, QuietStep DEF accountVars
  <1>2. ASSUME NEW r \in Handlers, NEW u \in Users, NEW pw \in Passwords,
               Login(r, u, pw) \/ CreateAdmin(r, u, pw) \/ ResetPassword(r, u, pw)
        PROVE  Good
    BY <1>2, LoginGood, CreateGood, ResetGood
  <1>3. ASSUME NEW r \in Handlers, NEW old \in Passwords, NEW new \in Passwords, ChangePassword(r, old, new)
        PROVE  Good
    BY <1>3, ChangeGood
  <1>4. ASSUME NEW r \in Handlers,
               \/ MarkDefault(r) \/ RefreshVersion(r) \/ LockAdmins(r) \/ Refuse(r)
               \/ \E t \in minted : Enter(r, t)
        PROVE  Good
    BY <1>4, MarkGood, RefreshGood, OthersGood
  <1>5. ASSUME NEW r \in Handlers, NEW u \in Admins, NEW pw \in Passwords \cup {NoPassword}, UpdateAdmin(r, u, pw)
        PROVE  Good
    BY <1>5, UpdateGood
  <1>6. ASSUME NEW r \in Handlers, NEW u \in Admins, DeleteAdmin(r, u)
        PROVE  Good
    BY <1>6, DeleteAccountGood
  <1> QED
    BY <1>1, <1>2, <1>3, <1>4, <1>5, <1>6 DEF NextAccounts

\* At first there is an administrator and no token.
LEMMA InitGood == InitAccounts => Inv
  <1> SUFFICES ASSUME InitAccounts PROVE Inv
    OBVIOUS
  <1>1. account \in [Users -> Rows]
    <2>1. 0 \in 0..MaxVersion
      BY AccountsAssumption
    <2>2. [password : {Initial}, active : {TRUE}, must : {FALSE}, version : {0}]
            \subseteq [password : Passwords, active : BOOLEAN, must : BOOLEAN, version : 0..MaxVersion]
      BY <2>1, AccountsAssumption
    <2>3. {Absent} \cup [password : {Initial}, active : {TRUE}, must : {FALSE}, version : {0}] \subseteq Rows
      BY <2>2 DEF Rows
    <2> QED
      BY <2>3 DEF InitAccounts
  <1>2. Idle \in [doing : {"nothing", "marks", "change", "refresh", "create", "reset", "update", "delete"},
                  user : SUBSET Users, row : Rows]
    BY DEF Idle, Rows
  <1>3. TypeOKAccounts
    BY <1>1, <1>2 DEF InitAccounts, TypeOKAccounts
  <1> QED
    BY <1>3 DEF Inv, NoneAhead, AdminRemains, InitAccounts

\* Whatever changes of accounts run at the same time, one administrator stays
\* active, and every token that has ended stays dead (users.py, auth.py).
THEOREM AccountsStaySound == SpecAccounts => AccountsSound
  <1>1. Good => AdminRemains' /\ EndsTokens
    BY DEF Good, Inv
  <1> QED
    BY <1>1, InitGood, GoodStep, PTL DEF SpecAccounts, AccountsSound, TokensEnd, EndsTokens, Good


----------------------------------------------------------------------------
(* For any number of keys, administrators and retries, what one change of  *)
(* a tenant checked still holds when it writes.  A change that has checked *)
(* holds the lock of the tenant's row, so no other adds a key or changes   *)
(* max_keys; a revocation needs no lock, but only takes keys away, and     *)
(* waits for an update of the same key.                                    *)

\* Types of the rows and of the requests of administrators
KeyRow == [made : BOOLEAN, enabled : BOOLEAN, revoked : BOOLEAN, bound : SUBSET Selectable]
JobRow == [doing : {"nothing", "create", "update", "delete"}, key : Keys \cup {NoKey},
           bound : SUBSET Selectable, stage : {"begins", "locked", "valid"}]

\* The type invariant of the administration
Shape ==
    /\ keys \in [Keys -> KeyRow] /\ job \in [Requests -> JobRow] /\ maxKeys \in KeyLimits
    /\ applied \in [Adjustments -> Amounts \cup {NoAmount}]
    /\ \A k \in Keys : keys[k].revoked => keys[k].made /\ ~keys[k].enabled

\* What is known of a request in hand: from its lock on nobody else has one; the
\* key it creates is nobody else's; what it checked is still so
Sound(r) ==
    /\ job[r].stage # "begins" => lock = {r} /\ job[r].doing \in {"create", "update"}
    /\ job[r].doing = "create" => /\ job[r].key \in Keys /\ ~keys[job[r].key].made
                                  /\ \A q \in Requests \ {r} : job[q].key # job[r].key
                                  /\ job[r].stage = "valid" => Cardinality(Live) < maxKeys
    /\ job[r].doing = "update" => /\ job[r].key \in Keys /\ keys[job[r].key].made
                                  /\ job[r].stage = "valid" => ~keys[job[r].key].revoked

\* The inductive invariant
AdminInv == Shape /\ \A r \in Requests : Sound(r)

\* What a step may not do: add a key beyond the limit, change a revoked key,
\* apply an adjustment twice
Added == Cardinality(Live) < Cardinality(Live') => Cardinality(Live) < maxKeys
StaysRevoked  == \A k \in Keys : keys[k].revoked => keys'[k] = keys[k]
Once  == /\ total' # total => \E o \in Adjustments : applied[o] = NoAmount /\ applied'[o] = total'
         /\ \A o \in Adjustments : applied[o] # NoAmount => applied'[o] = applied[o]
\* What every step is shown to do
AdminGood  == AdminInv' /\ Added /\ StaysRevoked /\ Once

\* The live keys are finitely many, and fewer of them count for less
LEMMA Fewer ==
    ASSUME NEW S \in SUBSET Keys, NEW T \in SUBSET S
    PROVE  Cardinality(T) \in Nat /\ Cardinality(S) \in Nat /\ Cardinality(T) <= Cardinality(S)
  <1>1. IsFiniteSet(Keys)
    BY AdministrationAssumption
  <1>2. IsFiniteSet(S)
    BY <1>1, FS_Subset
  <1> QED
    BY <1>2, FS_Subset, FS_CardinalityType

\* The keys in use are those of the rows.
LEMMA SameLive == UNCHANGED keys => Live' = Live
  BY DEF Live

\* A step that leaves the keys, the limit and the lock alone, and puts one
\* request where it holds no lock
LEMMA TurnGood ==
    ASSUME AdminInv, NEW r \in Requests, NEW j \in JobRow, job' = [job EXCEPT ![r] = j],
           UNCHANGED <<keys, maxKeys, total, applied, lock>>,
           job[r].stage = "begins", j.stage = "begins",
           j.doing = "create" => j.key \in Keys /\ ~keys[j.key].made /\ \A q \in Requests : job[q].key # j.key,
           j.doing = "update" => j.key \in Keys /\ keys[j.key].made,
           j.doing \in {"nothing", "delete"} => j.key = NoKey
    PROVE  AdminGood
  <1>1. Live' = Live
    BY SameLive
  <1>2. job'[r] = j /\ \A q \in Requests \ {r} : job'[q] = job[q]
    BY DEF AdminInv, Shape
  <1>3. Shape'
    BY DEF AdminInv, Shape, KeyRow, JobRow
  <1>4. Sound(r)'
    BY <1>1, <1>2 DEF AdminInv, Sound, Shape
  <1>5. ASSUME NEW q \in Requests \ {r} PROVE Sound(q)'
    <2>1. Sound(q) /\ job'[q] = job[q]
      BY <1>2 DEF AdminInv
    <2>2. job[q].doing = "create" => \A p \in Requests \ {q} : job'[p].key # job[q].key
      <3>1. job[q].doing = "create" => job[q].key \in Keys /\ ~keys[job[q].key].made
        BY <2>1 DEF Sound
      <3>2. job[q].doing = "create" => j.key # job[q].key
        BY <3>1, AdministrationAssumption DEF JobRow
      <3> QED
        BY <1>2, <2>1, <3>2 DEF Sound
    <2> QED
      BY <1>1, <2>1, <2>2 DEF Sound
  <1>6. AdminInv'
    BY <1>3, <1>4, <1>5 DEF AdminInv
  <1>7. Added
    BY <1>1, Fewer DEF Added, Live
  <1> QED
    BY <1>6, <1>7 DEF AdminGood, StaysRevoked, Once

\* A request that is over is typed.
LEMMA RestRow == Rest \in JobRow
  BY DEF Rest, JobRow

\* The actions, one after the other: a request begins,
LEMMA BeginGood ==
    ASSUME AdminInv, NEW r \in Requests, NEW k \in Keys, NEW B \in SUBSET Selectable,
           CreateKey(r, k, B) \/ UpdateKey(r, k, B)
    PROVE  AdminGood
  <1>1. job[r].stage = "begins" /\ UNCHANGED <<keys, maxKeys, total, applied, lock>>
    BY DEF CreateKey, UpdateKey, Rest
  <1>2. CASE CreateKey(r, k, B)
    <2>1. Job("create", k, B) \in JobRow /\ Job("create", k, B).doing = "create"
          /\ Job("create", k, B).key = k /\ Job("create", k, B).stage = "begins"
      BY DEF Job, JobRow
    <2> QED
      BY <1>1, <1>2, <2>1, TurnGood DEF CreateKey
  <1>3. CASE UpdateKey(r, k, B)
    <2>1. Job("update", k, B) \in JobRow /\ Job("update", k, B).doing = "update"
          /\ Job("update", k, B).key = k /\ Job("update", k, B).stage = "begins"
      BY DEF Job, JobRow
    <2> QED
      BY <1>1, <1>3, <2>1, TurnGood DEF UpdateKey
  <1> QED
    BY <1>2, <1>3

\* a channel is deleted,
LEMMA DeleteGood ==
    ASSUME AdminInv, NEW r \in Requests, DeleteChannel(r) \/ \E c \in Selectable : ReadBindings(r, c)
    PROVE  AdminGood
  <1>1. UNCHANGED <<keys, maxKeys, total, applied, lock>>
    BY DEF DeleteChannel, ReadBindings
  <1>2. CASE DeleteChannel(r)
    <2>1. job[r].stage = "begins"
      BY <1>2 DEF AdminInv, Sound, Shape, JobRow, DeleteChannel
    <2> QED
      BY <1>1, <1>2, <2>1, RestRow, TurnGood DEF DeleteChannel, Ends, Rest
  <1>3. ASSUME NEW c \in Selectable, ReadBindings(r, c) PROVE AdminGood
    <2>1. Job("delete", NoKey, {c}) \in JobRow /\ Job("delete", NoKey, {c}).doing = "delete"
          /\ Job("delete", NoKey, {c}).key = NoKey /\ Job("delete", NoKey, {c}).stage = "begins"
      BY DEF Job, JobRow
    <2>2. job[r].stage = "begins"
      BY <1>3 DEF ReadBindings, Rest
    <2> QED
      BY <1>1, <1>3, <2>1, <2>2, TurnGood DEF ReadBindings
  <1> QED
    BY <1>2, <1>3

\* A request gets the lock when nobody has it, so nobody else is past its begin
LEMMA LockGood == ASSUME AdminInv, NEW r \in Requests, LockTenant(r) PROVE AdminGood
  <1>1. /\ lock = {} /\ lock' = {r} /\ job[r].doing \in {"create", "update"}
        /\ UNCHANGED <<keys, maxKeys, total, applied>>
    BY DEF LockTenant
  <1>2. \A q \in Requests : job[q] \in JobRow /\ job[q].stage = "begins"
    BY <1>1 DEF AdminInv, Sound, Shape
  <1> DEFINE j == [job[r] EXCEPT !.stage = "locked"]
  <1>3. job' = [job EXCEPT ![r] = j]
    BY DEF LockTenant, Stage
  <1>4. j \in JobRow /\ j.doing = job[r].doing /\ j.key = job[r].key /\ j.stage = "locked"
    BY <1>2 DEF JobRow
  <1> HIDE DEF j
  <1>5. job'[r] = j /\ \A q \in Requests \ {r} : job'[q] = job[q]
    BY <1>3 DEF AdminInv, Shape
  <1>6. \A q \in Requests : job'[q].key = job[q].key /\ job'[q].doing = job[q].doing
    BY <1>4, <1>5
  <1>7. Live' = Live
    BY <1>1, SameLive
  <1>8. Shape'
    BY <1>1, <1>3, <1>4 DEF AdminInv, Shape, KeyRow, JobRow
  <1>9. ASSUME NEW q \in Requests PROVE Sound(q)'
    BY <1>1, <1>2, <1>4, <1>5, <1>6, <1>7 DEF AdminInv, Sound
  <1>10. Added
    BY <1>7, Fewer DEF Added, Live
  <1> QED
    BY <1>1, <1>8, <1>9, <1>10 DEF AdminGood, AdminInv, StaysRevoked, Once

\* what a request names is checked,
LEMMA ValidateGood == ASSUME AdminInv, NEW r \in Requests, Validate(r) PROVE AdminGood
  <1>1. /\ job[r].stage = "locked" /\ lock = {r} /\ job[r] \in JobRow
        /\ UNCHANGED <<keys, maxKeys, total, applied>>
    BY DEF Validate, AdminInv, Sound, Shape
  <1>2. \A q \in Requests \ {r} : job[q].stage = "begins"
    BY <1>1 DEF AdminInv, Sound, Shape
  <1>3. Live' = Live /\ Added
    BY <1>1, SameLive, Fewer DEF Added, Live
  <1>4. CASE Valid(r) /\ Stage(r, "valid") /\ UNCHANGED lock
    <2> DEFINE j == [job[r] EXCEPT !.stage = "valid"]
    <2>1. job' = [job EXCEPT ![r] = j]
      BY <1>4 DEF Stage
    <2>2. j \in JobRow /\ j.doing = job[r].doing /\ j.key = job[r].key /\ j.stage = "valid"
      BY <1>1 DEF JobRow
    <2> HIDE DEF j
    <2>3. job'[r] = j /\ \A q \in Requests \ {r} : job'[q] = job[q]
      BY <2>1 DEF AdminInv, Shape
    <2>4. \A q \in Requests : job'[q].key = job[q].key /\ job'[q].doing = job[q].doing
      BY <2>2, <2>3
    <2>5. Shape'
      BY <1>1, <2>1, <2>2 DEF AdminInv, Shape, KeyRow, JobRow
    <2>6. Sound(r)'
      BY <1>1, <1>3, <1>4, <2>2, <2>3, <2>4 DEF AdminInv, Sound, Valid, Modifiable
    <2>7. ASSUME NEW q \in Requests \ {r} PROVE Sound(q)'
      BY <1>1, <1>2, <1>3, <2>3, <2>4 DEF AdminInv, Sound
    <2> QED
      BY <1>1, <1>3, <2>5, <2>6, <2>7 DEF AdminGood, AdminInv, StaysRevoked, Once
  <1>5. CASE Ends(r) /\ lock' = lock \ {r}
    <2>1. job' = [job EXCEPT ![r] = Rest] /\ job'[r] = Rest /\ \A q \in Requests \ {r} : job'[q] = job[q]
      BY <1>5 DEF Ends, AdminInv, Shape
    <2>2. Shape'
      BY <1>1, <2>1, RestRow DEF AdminInv, Shape, KeyRow, JobRow
    <2>3. Sound(r)'
      BY <2>1 DEF Sound, Rest
    <2>4. ASSUME NEW q \in Requests \ {r} PROVE Sound(q)'
      <3>1. Rest.key = NoKey
        BY DEF Rest
      <3> QED
        BY <1>1, <1>2, <1>3, <2>1, <3>1, AdministrationAssumption DEF AdminInv, Sound
    <2> QED
      BY <1>1, <1>3, <2>2, <2>3, <2>4 DEF AdminGood, AdminInv, StaysRevoked, Once
  <1> QED
    BY <1>4, <1>5 DEF Validate

\* The only step that makes a key, and the only one that changes one in use
LEMMA WriteGood == ASSUME AdminInv, NEW r \in Requests, NEW enabled \in BOOLEAN, Write(r, enabled) PROVE AdminGood
  <1> DEFINE k == job[r].key
             made == [made |-> TRUE, enabled |-> TRUE, revoked |-> FALSE, bound |-> job[r].bound]
             edited == [keys[k] EXCEPT !.enabled = enabled, !.bound = job[r].bound]
             keyRow == IF job[r].doing = "create" THEN made ELSE edited
  <1>1. /\ job[r].stage = "valid" /\ lock = {r} /\ job[r] \in JobRow /\ job[r].doing \in {"create", "update"}
        /\ k \in Keys /\ keys[k] \in KeyRow /\ ~keys[k].revoked /\ lock' = {}
        /\ UNCHANGED <<maxKeys, total, applied>>
    BY DEF Write, AdminInv, Sound, Shape
  <1>2. job' = [job EXCEPT ![r] = Rest] /\ job'[r] = Rest /\ \A q \in Requests \ {r} : job'[q] = job[q]
    BY DEF Write, Ends, AdminInv, Shape
  <1>3. keys' = [keys EXCEPT ![k] = keyRow]
    BY DEF Write
  <1>4. keyRow \in KeyRow /\ keyRow.made /\ ~keyRow.revoked
    <2>1. made \in KeyRow /\ made.made /\ ~made.revoked
      BY <1>1 DEF KeyRow, JobRow
    <2>2. job[r].doing = "update" => edited \in KeyRow /\ edited.made /\ ~edited.revoked
      <3>1. job[r].doing = "update" => keys[k].made
        BY DEF AdminInv, Sound
      <3> QED
        BY <1>1, <3>1 DEF KeyRow, JobRow
    <2> HIDE DEF made, edited
    <2> QED
      BY <1>1, <2>1, <2>2
  <1> HIDE DEF keyRow
  <1>5. keys'[k] = keyRow /\ \A q \in Keys \ {k} : keys'[q] = keys[q]
    BY <1>1, <1>3 DEF AdminInv, Shape
  <1>6. \A q \in Requests \ {r} : job[q].stage = "begins"
    BY <1>1 DEF AdminInv, Sound, Shape
  <1>7. Shape'
    <2>1. keys' \in [Keys -> KeyRow] /\ job' \in [Requests -> JobRow]
      BY <1>2, <1>3, <1>4, RestRow DEF AdminInv, Shape
    <2>2. \A q \in Keys : keys'[q].revoked => keys'[q].made /\ ~keys'[q].enabled
      BY <1>4, <1>5 DEF AdminInv, Shape
    <2> QED
      BY <1>1, <2>1, <2>2 DEF AdminInv, Shape, KeyRow, JobRow
  <1>8. Sound(r)'
    BY <1>2 DEF Sound, Rest
  <1>9. ASSUME NEW q \in Requests \ {r} PROVE Sound(q)'
    <2>1. Sound(q) /\ Sound(r) /\ job'[q] = job[q] /\ job[q].stage = "begins"
      BY <1>2, <1>6 DEF AdminInv
    <2>2. job[q].doing = "create" => ~keys'[job[q].key].made
      BY <1>1, <1>5, <2>1 DEF Sound
    <2>3. job[q].doing = "update" => keys'[job[q].key].made
      BY <1>4, <1>5, <2>1 DEF Sound
    <2>4. job[q].doing = "create" => \A p \in Requests \ {q} : job'[p].key # job[q].key
      <3>1. Rest.key = NoKey
        BY DEF Rest
      <3> QED
        BY <1>2, <2>1, <3>1, AdministrationAssumption DEF Sound
    <2> QED
      BY <2>1, <2>2, <2>3, <2>4 DEF Sound
  <1>10. Added
    <2>1. CASE job[r].doing = "create"
      BY <1>1, <2>1 DEF Added, AdminInv, Sound
    <2>2. CASE job[r].doing = "update"
      <3>1. keys[k].made
        BY <2>2 DEF AdminInv, Sound
      <3>2. Live' \subseteq Live
        BY <1>1, <1>5, <3>1 DEF Live
      <3>3. Live \in SUBSET Keys
        BY DEF Live
      <3> QED
        BY <3>2, <3>3, Fewer DEF Added
    <2> QED
      BY <1>1, <2>1, <2>2
  <1>11. StaysRevoked
    BY <1>1, <1>5 DEF StaysRevoked
  <1> QED
    BY <1>1, <1>7, <1>8, <1>9, <1>10, <1>11 DEF AdminGood, AdminInv, Once

\* A revocation only takes a key away, and waits for an update of it
LEMMA RevokeGood == ASSUME AdminInv, NEW k \in Keys, RevokeKey(k) PROVE AdminGood
  <1> DEFINE keyRow == [keys[k] EXCEPT !.enabled = FALSE, !.revoked = TRUE]
  <1>1. keys[k] \in KeyRow /\ keys[k].made /\ UNCHANGED <<maxKeys, total, applied, lock, job>>
    BY DEF RevokeKey, AdminInv, Shape
  <1>2. keys' = [keys EXCEPT ![k] = keyRow]
    BY DEF RevokeKey
  <1>3. keyRow \in KeyRow /\ keyRow.made /\ keyRow.revoked
    BY <1>1 DEF KeyRow
  <1>4. keys[k].revoked => keyRow = keys[k]
    <2>1. keys[k].revoked => keys[k].enabled = FALSE /\ keys[k].revoked = TRUE
      BY <1>1 DEF AdminInv, Shape, KeyRow
    <2> QED
      BY <1>1, <2>1 DEF KeyRow
  <1>5. ~keyRow.enabled
    BY <1>1 DEF KeyRow
  <1> HIDE DEF keyRow
  <1>6. keys'[k] = keyRow /\ \A q \in Keys \ {k} : keys'[q] = keys[q]
    BY <1>1, <1>2 DEF AdminInv, Shape
  <1>7. Live' \subseteq Live /\ Live \in SUBSET Keys
    BY <1>3, <1>6 DEF Live
  <1>8. Cardinality(Live') <= Cardinality(Live) /\ Cardinality(Live') \in Nat /\ Cardinality(Live) \in Nat
    BY <1>7, Fewer
  <1>9. Added
    BY <1>8 DEF Added
  <1>10. Shape'
    <2>1. keys' \in [Keys -> KeyRow]
      BY <1>2, <1>3 DEF AdminInv, Shape
    <2>2. \A q \in Keys : keys'[q].revoked => keys'[q].made /\ ~keys'[q].enabled
      BY <1>3, <1>5, <1>6 DEF AdminInv, Shape
    <2> QED
      BY <1>1, <2>1, <2>2 DEF AdminInv, Shape, KeyRow, JobRow
  <1>11. ASSUME NEW q \in Requests PROVE Sound(q)'
    <2>1. Sound(q) /\ job' = job /\ lock' = lock /\ maxKeys' = maxKeys /\ maxKeys \in Nat
      BY <1>1, AdministrationAssumption DEF AdminInv, Shape
    <2>2. job[q].doing = "create" => ~keys'[job[q].key].made
      BY <1>1, <1>6, <2>1 DEF Sound
    <2>3. job[q].doing = "update" => keys'[job[q].key].made
      BY <1>3, <1>6, <2>1 DEF Sound
    <2>4. job[q].doing = "update" /\ job[q].stage = "valid" => ~keys'[job[q].key].revoked
      BY <1>6, <2>1 DEF Sound, RevokeKey, KeyLocked
    <2>5. job[q].doing = "create" /\ job[q].stage = "valid" => Cardinality(Live') < maxKeys
      BY <1>8, <2>1 DEF Sound
    <2> QED
      BY <2>1, <2>2, <2>3, <2>4, <2>5 DEF Sound
  <1>12. StaysRevoked
    BY <1>4, <1>6 DEF StaysRevoked
  <1> QED
    BY <1>1, <1>9, <1>10, <1>11, <1>12 DEF AdminGood, AdminInv, Once

\* Changes of the tenant's row itself, which nobody has locked
LEMMA TenantGood ==
    ASSUME AdminInv,
           \/ \E n \in KeyLimits : UpdateTenant(n)
           \/ \E o \in Adjustments, n \in Amounts : AdjustQuota(o, n)
    PROVE  AdminGood
  <1>1. lock = {} /\ UNCHANGED <<keys, lock, job>> /\ maxKeys' \in KeyLimits
    BY DEF UpdateTenant, AdjustQuota, AdminInv, Shape
  <1>2. \A q \in Requests : job[q] \in JobRow /\ job[q].stage = "begins"
    BY <1>1 DEF AdminInv, Sound, Shape
  <1>3. Live' = Live /\ Added /\ StaysRevoked
    BY <1>1, SameLive, Fewer DEF Added, StaysRevoked, Live
  <1>4. applied' \in [Adjustments -> Amounts \cup {NoAmount}]
    BY DEF UpdateTenant, AdjustQuota, AdminInv, Shape
  <1>5. Once
    BY DEF Once, UpdateTenant, AdjustQuota, AdminInv, Shape
  <1>6. Shape'
    BY <1>1, <1>4 DEF AdminInv, Shape, KeyRow, JobRow
  <1>7. ASSUME NEW q \in Requests PROVE Sound(q)'
    BY <1>1, <1>2, <1>3 DEF AdminInv, Sound
  <1> QED
    BY <1>3, <1>5, <1>6, <1>7 DEF AdminGood, AdminInv

\* Every step is good.
LEMMA AdminStep == AdminInv /\ [NextAdmin]_adminVars => AdminGood
  <1> SUFFICES ASSUME AdminInv, [NextAdmin]_adminVars PROVE AdminGood
    OBVIOUS
  <1>1. ASSUME NEW r \in Requests, NEW k \in Keys, NEW B \in SUBSET Selectable, CreateKey(r, k, B) \/ UpdateKey(r, k, B)
        PROVE  AdminGood
    BY <1>1, BeginGood
  <1>2. ASSUME NEW r \in Requests,
               \/ LockTenant(r) \/ Validate(r) \/ \E b \in BOOLEAN : Write(r, b)
               \/ DeleteChannel(r) \/ \E c \in Selectable : ReadBindings(r, c)
        PROVE  AdminGood
    BY <1>2, LockGood, ValidateGood, WriteGood, DeleteGood
  <1>3. ASSUME NEW k \in Keys, RevokeKey(k) PROVE AdminGood
    BY <1>3, RevokeGood
  <1>4. CASE UNCHANGED adminVars
    <2>1. Live' = Live /\ UNCHANGED <<keys, maxKeys, total, applied, lock, job>>
      BY <1>4, SameLive DEF adminVars
    <2>2. Added
      BY <2>1, Fewer DEF Added, Live
    <2>3. Shape'
      BY <2>1 DEF AdminInv, Shape, KeyRow, JobRow
    <2>4. \A q \in Requests : Sound(q)'
      BY <2>1 DEF AdminInv, Sound
    <2> QED
      BY <2>1, <2>2, <2>3, <2>4 DEF AdminGood, AdminInv, StaysRevoked, Once
  <1> QED
    BY <1>1, <1>2, <1>3, <1>4, TenantGood DEF NextAdmin

\* No request has begun.
LEMMA AdminBegins == InitAdmin => AdminInv
  <1> SUFFICES ASSUME InitAdmin PROVE AdminInv
    OBVIOUS
  <1>1. Unmade \in KeyRow /\ ~Unmade.revoked
    BY DEF Unmade, KeyRow
  <1>2. Shape
    BY <1>1, RestRow DEF InitAdmin, Shape
  <1>3. \A r \in Requests : Sound(r)
    BY DEF InitAdmin, Sound, Rest
  <1> QED
    BY <1>2, <1>3 DEF AdminInv

\* Whatever forms of keys and tenants are sent at the same time, and sent again:
\* none passes max_keys, revives a key or applies a quota twice (keys.py, tenants.py).
THEOREM AdministrationKeepsChanges == SpecAdmin => ChangesKept
  BY AdminStep, AdminBegins, PTL DEF SpecAdmin, ChangesKept, KeysAdded, RevokedStays, AppliedOnce, AdminGood, Added, StaysRevoked, Once


----------------------------------------------------------------------------
(* Caches are as old as they say (ConfigCaches) *)

\* What an entry may hold
Values == (SUBSET Changes) \cup {Unread}
EntryOK(e) == e \in [value : Values, age : 0..TTL]

\* An entry misses no change that was committed before its stamp
Recent(e) == e.age < TTL => \A x \in row \ e.value : since[x] <= e.age

\* A change of the settings under way holds the row, and writes what it read
Writing(x) == table = "settings" /\ change[x] \in {"written", "touched"}

\* The inductive invariant: entries and the reads that will fill them are
\* recent
CacheInv ==
    /\ row \subseteq Changes /\ since \in [Changes -> 0..TTL] /\ DOMAIN change = Changes
    /\ cache \in [Processes -> SUBSET [value : Values, age : 0..TTL]]
    /\ load \in [Readers -> SUBSET [value : Values, age : 0..TTL]]
    /\ DOMAIN stored = Changes
    /\ \A x \in Changes : Writing(x) => holds = {x} /\ stored[x] = row \cup {x}
    /\ \A w \in Processes : \A e \in cache[w] : Recent(e)
    /\ \A d \in Readers : \A e \in load[d] : e.value # Unread => Recent(e)

\* An entry that has just been filled with what is committed is recent
LEMMA RecentNow == ASSUME NEW v, row \subseteq v, NEW n PROVE \A e \in Cached(v, n) : Recent(e)
  BY DEF Cached, Recent

\* A read of the row, and the entry it fills, are recent.
LEMMA ReaderStep ==
    ASSUME CacheInv, NEW d \in Readers, BeginLoad(d) \/ ReadRow(d) \/ Store(d)
    PROVE  CacheInv'
  <1>1. At[d] \in Processes /\ TTL \in Nat
    BY CachesAssumption DEF Processes
  <1>2. \A e : Recent(e)' <=> Recent(e)
    BY DEF BeginLoad, ReadRow, Store, Recent
  <1>3. UNCHANGED <<table, row, since, change, stored, holds>>
    BY DEF BeginLoad, ReadRow, Store
  <1>4. CASE BeginLoad(d)
    <2>1. load' = [load EXCEPT ![d] = Cached(Unread, 0)] /\ UNCHANGED cache
      BY <1>4 DEF BeginLoad
    <2>2. Cached(Unread, 0) \in SUBSET [value : Values, age : 0..TTL] /\ \A e \in Cached(Unread, 0) : e.value = Unread
      BY <1>1 DEF Cached, Values
    <2> QED
      BY <1>2, <1>3, <2>1, <2>2 DEF CacheInv, Writing
  <1>5. CASE ReadRow(d)
    <2>1. PICK e \in load[d] : e.value = Unread /\ load' = [load EXCEPT ![d] = Cached(row, e.age)]
      BY <1>5 DEF ReadRow
    <2>2. Cached(row, e.age) \in SUBSET [value : Values, age : 0..TTL]
      BY <2>1 DEF CacheInv, Cached, Values
    <2>3. \A g \in Cached(row, e.age) : Recent(g)
      BY RecentNow
    <2>4. UNCHANGED cache
      BY <1>5 DEF ReadRow
    <2> QED
      BY <1>2, <1>3, <2>1, <2>2, <2>3, <2>4 DEF CacheInv, Writing
  <1>6. CASE Store(d)
    <2>1. PICK e \in load[d] : e.value # Unread /\ cache' = [cache EXCEPT ![At[d]] = Cached(e.value, e.age)]
      BY <1>6 DEF Store, Stamp
    <2>2. load' = [load EXCEPT ![d] = {}]
      BY <1>6 DEF Store
    <2>3. Cached(e.value, e.age) \in SUBSET [value : Values, age : 0..TTL]
      BY <2>1 DEF CacheInv, Cached
    <2>4. \A g \in Cached(e.value, e.age) : Recent(g)
      BY <2>1 DEF CacheInv, Cached, Recent
    <2> QED
      BY <1>1, <1>2, <1>3, <2>1, <2>2, <2>3, <2>4 DEF CacheInv, Writing
  <1> QED
    BY <1>4, <1>5, <1>6

\* A change that commits clears the entries of its process, and makes those
\* of the others older.
LEMMA ChangeStep ==
    ASSUME CacheInv, NEW x \in Changes, Patch(x) \/ Touch(x) \/ Commit(x) \/ RollBack(x)
    PROVE  CacheInv'
  <1>1. At[x] \in Processes /\ TTL \in Nat \ {0}
    BY CachesAssumption DEF Processes
  <1>2. UNCHANGED <<table, load>>
    BY DEF Patch, Touch, Commit, RollBack
  <1>3. CASE Patch(x)
    <2>1. /\ UNCHANGED <<row, since, cache>> /\ change' = [change EXCEPT ![x] = "written"]
          /\ stored' = [stored EXCEPT ![x] = row \cup {x}]
          /\ table = "settings" => holds = {} /\ holds' = {x}
      BY <1>3 DEF Patch, Does
    <2>2. \A e : Recent(e)' <=> Recent(e)
      BY <2>1 DEF Recent
    <2>3. \A y \in Changes : Writing(y)' => holds' = {y} /\ stored'[y] = row' \cup {y}
      BY <1>2, <2>1 DEF CacheInv, Writing
    <2> QED
      BY <1>2, <2>1, <2>2, <2>3 DEF CacheInv
  <1>4. CASE Touch(x)
    <2>1. /\ UNCHANGED <<row, since, holds, stored>> /\ change' = [change EXCEPT ![x] = "touched"]
          /\ cache' = [cache EXCEPT ![At[x]] = IF table = "settings" THEN Cached(stored[x], 0) ELSE {}]
          /\ change[x] = "written"
      BY <1>4 DEF Touch, Does
    <2>2. \A e : Recent(e)' <=> Recent(e)
      BY <2>1 DEF Recent
    <2>3. \A y \in Changes : Writing(y)' => holds' = {y} /\ stored'[y] = row' \cup {y}
      BY <1>2, <2>1 DEF CacheInv, Writing
    <2>4. table = "settings" => row \subseteq stored[x] /\ stored[x] \subseteq Changes
      BY <2>1 DEF CacheInv, Writing
    <2>5. /\ table = "settings" => Cached(stored[x], 0) \in SUBSET [value : Values, age : 0..TTL]
          /\ table = "settings" => \A e \in Cached(stored[x], 0) : Recent(e)
      <3>1. table = "settings" => Cached(stored[x], 0) \in SUBSET [value : Values, age : 0..TTL]
        BY <1>1, <2>4 DEF Cached, Values
      <3> QED
        BY <2>4, <3>1, RecentNow
    <2> QED
      BY <1>1, <1>2, <2>1, <2>2, <2>3, <2>5 DEF CacheInv
  <1>5. CASE Commit(x)
    <2>1. /\ UNCHANGED <<cache, stored>> /\ change' = [change EXCEPT ![x] = "done"] /\ change[x] = "touched"
          /\ since' = [since EXCEPT ![x] = 0]
          /\ row' = IF table = "settings" THEN stored[x] ELSE row \cup {x}
          /\ holds' = holds \ {x}
      BY <1>5 DEF Commit, Does
    <2>2. row' = row \cup {x}
      BY <2>1 DEF CacheInv, Writing
    <2>3. ASSUME NEW e \in [value : Values, age : 0..TTL], Recent(e) PROVE Recent(e)'
      BY <1>1, <2>1, <2>2, <2>3 DEF CacheInv, Recent
    <2>4. \A y \in Changes : Writing(y)' => holds' = {y} /\ stored'[y] = row' \cup {y}
      BY <1>2, <2>1, <2>2 DEF CacheInv, Writing
    <2>5. row' \subseteq Changes /\ since' \in [Changes -> 0..TTL] /\ DOMAIN change' = Changes
      BY <1>1, <2>1, <2>2 DEF CacheInv
    <2> QED
      BY <1>2, <2>1, <2>3, <2>4, <2>5 DEF CacheInv
  <1>6. CASE RollBack(x)
    <2>1. /\ UNCHANGED <<row, since, cache, stored>> /\ change' = [change EXCEPT ![x] = "undone"]
          /\ holds' = holds \ {x} /\ change[x] = "touched"
      BY <1>6 DEF RollBack, Does
    <2>2. \A e : Recent(e)' <=> Recent(e)
      BY <2>1 DEF Recent
    <2>3. \A y \in Changes : Writing(y)' => holds' = {y} /\ stored'[y] = row' \cup {y}
      BY <1>2, <2>1 DEF CacheInv, Writing
    <2> QED
      BY <1>2, <2>1, <2>2, <2>3 DEF CacheInv
  <1> QED
    BY <1>3, <1>4, <1>5, <1>6

\* Entries and changes grow old together
LEMMA AgeStep == ASSUME CacheInv, Passes PROVE CacheInv'
  <1>1. TTL \in Nat \ {0}
    BY CachesAssumption
  <1>2. /\ UNCHANGED <<table, row, holds, change, stored>>
        /\ since' = [x \in Changes |-> IF x \in row /\ since[x] < TTL THEN since[x] + 1 ELSE since[x]]
        /\ cache' = [w \in Processes |-> Aged(cache[w])] /\ load' = [d \in Readers |-> Aged(load[d])]
    BY DEF Passes
  <1>3. ASSUME NEW E \in SUBSET [value : Values, age : 0..TTL], NEW g \in Aged(E)
        PROVE  /\ g \in [value : Values, age : 0..TTL]
               /\ \E e \in E : g.value = e.value /\ (Recent(e) => Recent(g)')
    <2>1. PICK e \in E : g = [e EXCEPT !.age = IF e.age = TTL THEN TTL ELSE e.age + 1]
      BY <1>3 DEF Aged
    <2>2. e \in [value : Values, age : 0..TTL]
      OBVIOUS
    <2>3. g.value = e.value /\ g.age = (IF e.age = TTL THEN TTL ELSE e.age + 1) /\ e.age \in 0..TTL
          /\ g \in [value : Values, age : 0..TTL]
      BY <1>1, <2>1, <2>2
    <2>4. ASSUME Recent(e), g.age < TTL, NEW x \in row \ g.value PROVE since'[x] <= g.age
      <3>1. x \in Changes /\ since[x] \in 0..TTL
        BY <2>4 DEF CacheInv
      <3>2. since[x] <= e.age
        BY <1>1, <2>3, <2>4 DEF Recent
      <3>3. since'[x] <= since[x] + 1
        BY <1>1, <1>2, <3>1
      <3> QED
        BY <1>1, <1>2, <2>3, <2>4, <3>1, <3>2, <3>3
    <2> QED
      BY <1>2, <2>3, <2>4 DEF Recent
  <1>4. \A y \in Changes : Writing(y)' => holds' = {y} /\ stored'[y] = row' \cup {y}
    BY <1>2 DEF CacheInv, Writing
  <1>5. row' \subseteq Changes /\ since' \in [Changes -> 0..TTL] /\ DOMAIN change' = Changes /\ DOMAIN stored' = Changes
    BY <1>1, <1>2 DEF CacheInv
  <1>6. /\ cache' \in [Processes -> SUBSET [value : Values, age : 0..TTL]]
        /\ \A w \in Processes : \A e \in cache'[w] : Recent(e)'
    BY <1>2, <1>3 DEF CacheInv
  <1>7. /\ load' \in [Readers -> SUBSET [value : Values, age : 0..TTL]]
        /\ \A d \in Readers : \A e \in load'[d] : e.value # Unread => Recent(e)'
    BY <1>2, <1>3 DEF CacheInv
  <1> QED
    BY <1>4, <1>5, <1>6, <1>7 DEF CacheInv

\* Every step keeps it.
LEMMA CacheStep == CacheInv /\ [NextCaches]_cacheVars => CacheInv'
  <1> SUFFICES ASSUME CacheInv, [NextCaches]_cacheVars PROVE CacheInv'
    OBVIOUS
  <1>1. CASE UNCHANGED cacheVars
    BY <1>1 DEF cacheVars, CacheInv, Recent, Writing
  <1> QED
    BY <1>1, ReaderStep, ChangeStep, AgeStep DEF NextCaches

\* No process has read anything.
LEMMA CacheInit == InitCaches => CacheInv
  BY CachesAssumption DEF InitCaches, CacheInv, Writing, Recent

\* However long a load takes and in whatever order loads end, a worker misses
\* no change that is older than the two seconds its cache may be old.
THEOREM CachesStayFresh == SpecCaches => []StaleBounded
  <1>1. CacheInv => StaleBounded
    BY DEF CacheInv, StaleBounded, Recent
  <1> QED
    BY <1>1, CacheInit, CacheStep, PTL DEF SpecCaches


----------------------------------------------------------------------------
(* A hold covers its bill (Pricing) *)

\* Products of numbers are numbers, and grow with each factor.
LEMMA Products ==
    /\ \A a, b \in Nat : a * b \in Nat
    /\ \A a, b, c \in Nat : a <= b => a * c <= b * c /\ c * a <= c * b
  <1>1. \A a, b \in Nat : a * b \in Nat
    OBVIOUS
  <1>2. ASSUME NEW a \in Nat, NEW b \in Nat, NEW c \in Nat, a <= b PROVE a * c <= b * c /\ c * a <= c * b
    <2>1. (b - a) * c \in Nat
      BY <1>1, <1>2
    <2>2. b * c = a * c + (b - a) * c /\ c * a = a * c /\ c * b = b * c
      BY <1>2
    <2> QED
      BY <1>1, <2>1, <2>2
  <1> QED
    BY <1>1, <1>2

\* What rounding up and rounding to even make of an amount
LEMMA Rounded ==
    ASSUME NEW n \in Nat
    PROVE  /\ Ceiling(n) \in Nat /\ HalfEven(n) \in Nat
           /\ \A k \in Nat : n <= k * Step => HalfEven(n) <= k
           /\ n <= Ceiling(n) * Step
  <1>1. Step \in Nat /\ Step > 0
    BY PricingAssumption
  <1> DEFINE d == n \div Step
             r == n % Step
             c == (n + Step - 1) \div Step
             s == (n + Step - 1) % Step
  <1>2. d \in Nat /\ r \in Nat /\ r < Step /\ n = Step * d + r
    BY <1>1
  <1>3. c \in Nat /\ s \in Nat /\ s < Step /\ n + Step - 1 = Step * c + s
    BY <1>1
  <1>4. HalfEven(n) \in {d, d + 1} /\ (HalfEven(n) = d + 1 => r > 0)
    BY <1>1, <1>2 DEF HalfEven
  <1> HIDE DEF d, r
  <1>5. ASSUME NEW k \in Nat, n <= k * Step PROVE HalfEven(n) <= k
    <2>1. CASE HalfEven(n) = d
      <3>1. ASSUME k < d PROVE FALSE
        <4>1. k + 1 <= d
          BY <1>2, <3>1
        <4>2. (k + 1) * Step <= d * Step
          BY <1>1, <1>2, <4>1, Products
        <4> QED
          BY <1>1, <1>2, <1>5, <4>2
      <3> QED
        BY <1>2, <2>1, <3>1
    <2>2. CASE HalfEven(n) = d + 1 /\ r > 0
      <3>1. ASSUME k <= d PROVE FALSE
        <4>1. k * Step <= d * Step
          BY <1>1, <1>2, <3>1, Products
        <4> QED
          BY <1>1, <1>2, <1>5, <2>2, <4>1
      <3> QED
        BY <1>2, <2>2, <3>1
    <2> QED
      BY <1>4, <2>1, <2>2
  <1>6. n <= c * Step
    <2> HIDE DEF c, s
    <2> QED
      BY <1>1, <1>3
  <1> QED
    BY <1>2, <1>3, <1>4, <1>5, <1>6 DEF Ceiling

\* A request that uses no more than was estimated costs no more, at any price
LEMMA CostsNoMore ==
    ASSUME NEW q \in PriceLists, estimate \in [input : Nat, output : Nat, units : Nat],
           NEW u, u.prompt \in Int, u.output \in Int, u.read \in Int, u.write \in Int,
           u.units = estimate.units, Countable(u)
    PROVE  Cost(q, u) \in Nat /\ Estimated(q) \in Nat /\ (Within(u) => Cost(q, u) <= Estimated(q))
  <1>1. /\ q.input \in Nat /\ q.output \in Nat /\ q.read \in Nat /\ q.write \in Nat /\ q.request \in Nat
        /\ estimate.input \in Nat /\ estimate.output \in Nat /\ estimate.units \in Nat
    BY DEF PriceLists
  <1>2. u.prompt \in Nat /\ u.output \in Nat /\ u.read \in Nat /\ u.write \in Nat
    BY DEF Countable
  <1> DEFINE dear == Dearest(q)
             fresh == FreshTokens(u)
  <1>3. dear \in Nat /\ q.input <= dear /\ q.read <= dear /\ q.write <= dear
    BY <1>1 DEF Dearest, AtLeast
  <1>4. fresh \in Nat /\ (Within(u) => fresh + u.read + u.write = u.prompt /\ u.prompt <= estimate.input)
    BY <1>2 DEF FreshTokens, AtLeast, Within
  <1> HIDE DEF dear, fresh
  <1>5. /\ fresh * q.input \in Nat /\ u.output * q.output \in Nat /\ u.read * q.read \in Nat
        /\ u.write * q.write \in Nat /\ estimate.units * q.request \in Nat
        /\ estimate.input * dear \in Nat /\ estimate.output * q.output \in Nat
        /\ fresh * dear \in Nat /\ u.read * dear \in Nat /\ u.write * dear \in Nat
    BY <1>1, <1>2, <1>3, <1>4, Products
  <1>6. /\ Cost(q, u) = fresh * q.input + u.output * q.output + u.read * q.read + u.write * q.write
                        + estimate.units * q.request
        /\ Estimated(q) = estimate.input * dear + estimate.output * q.output + estimate.units * q.request
    BY DEF Cost, Estimated, fresh, dear
  <1>7. ASSUME Within(u) PROVE Cost(q, u) <= Estimated(q)
    <2>1. /\ fresh * q.input <= fresh * dear /\ u.read * q.read <= u.read * dear /\ u.write * q.write <= u.write * dear
      BY <1>1, <1>2, <1>3, <1>4, Products
    <2>2. u.output * q.output <= estimate.output * q.output
      BY <1>1, <1>2, <1>7, Products DEF Within
    <2>3. (fresh + u.read + u.write) * dear <= estimate.input * dear
      <3>1. fresh + u.read + u.write \in Nat /\ fresh + u.read + u.write <= estimate.input
        BY <1>2, <1>4, <1>7
      <3> QED
        BY <1>1, <1>3, <3>1, Products
    <2>4. (fresh + u.read + u.write) * dear = fresh * dear + u.read * dear + u.write * dear
      BY <1>2, <1>3, <1>4
    <2> QED
      BY <1>5, <1>6, <2>1, <2>2, <2>3, <2>4
  <1> QED
    BY <1>5, <1>6, <1>7

\* What is held is enough for the estimate at the price of every candidate
PriceInv ==
    /\ offers \subseteq Quotes /\ estimate \in [input : Nat, output : Nat, units : Nat]
    /\ held # Unknown => held \in Nat /\ \A p \in offers : Estimated(p) <= held * Step
    /\ held = Unknown => billed = Unknown
    /\ HoldCovers

\* Nothing is priced.
LEMMA PriceInit == InitPricing => PriceInv
  <1> SUFFICES ASSUME InitPricing PROVE PriceInv
    OBVIOUS
  <1>1. PICK t \in Texts, cap \in Caps, n \in Units :
             estimate = [input |-> InputTokens(t), output |-> OutputTokens(cap), units |-> n]
    BY DEF InitPricing
  <1>2. InputTokens(t) \in Nat
    <2>1. t.cjk \in Nat /\ t.other \in Nat /\ t.blobs \in Nat /\ t.ids \in Nat /\ BlobTokens \in Nat
      BY PricingAssumption
    <2>2. (t.other + 3) \div 4 \in Nat /\ t.blobs * BlobTokens \in Nat
      BY <2>1, Products
    <2> QED
      BY <2>1, <2>2 DEF InputTokens, CountTextTokens, AtLeast
  <1>3. OutputTokens(cap) \in Nat /\ n \in Nat
    BY PricingAssumption DEF OutputTokens, AtLeast
  <1> QED
    BY <1>1, <1>2, <1>3 DEF InitPricing, PriceInv, HoldCovers

\* Every step prices as the code does.
LEMMA PriceStep == PriceInv /\ [NextPricing]_pricingVars => PriceInv'
  <1> SUFFICES ASSUME PriceInv, [NextPricing]_pricingVars PROVE PriceInv'
    OBVIOUS
  <1>1. Unknown \notin Nat /\ Step \in Nat /\ Step > 0 /\ Quotes \subseteq PriceLists /\ Reported \subseteq Int
    BY PricingAssumption
  <1>2. CASE Hold
    <2>1. UNCHANGED <<offers, estimate, usage, billed>> /\ held = Unknown
      BY <1>2 DEF Hold
    <2>2. PICK q \in offers : (\A p \in offers : Estimated(p) <= Estimated(q)) /\ held' = Ceiling(Estimated(q))
      BY <1>2 DEF Hold
    <2>3. \A p \in offers : Estimated(p) \in Nat
      <3> SUFFICES ASSUME NEW p \in offers PROVE Estimated(p) \in Nat
        OBVIOUS
      <3>1. /\ p.input \in Nat /\ p.output \in Nat /\ p.read \in Nat /\ p.write \in Nat /\ p.request \in Nat
            /\ estimate.input \in Nat /\ estimate.output \in Nat /\ estimate.units \in Nat
        BY <1>1 DEF PriceLists, PriceInv
      <3>2. Dearest(p) \in Nat
        BY <3>1 DEF Dearest, AtLeast
      <3>3. estimate.input * Dearest(p) \in Nat /\ estimate.output * p.output \in Nat /\ estimate.units * p.request \in Nat
        BY <3>1, <3>2, Products
      <3> QED
        BY <3>3 DEF Estimated
    <2>4. held' \in Nat /\ Estimated(q) <= held' * Step
      BY <2>2, <2>3, Rounded
    <2>5. \A p \in offers : Estimated(p) <= held' * Step
      <3>1. held' * Step \in Nat
        BY <1>1, <2>4, Products
      <3> QED
        BY <2>2, <2>3, <2>4, <3>1
    <2>6. \A p : Estimated(p)' = Estimated(p)
      BY <2>1 DEF Estimated
    <2>7. HoldCovers'
      BY <2>1 DEF HoldCovers, PriceInv
    <2> QED
      BY <2>1, <2>4, <2>5, <2>6, <2>7 DEF PriceInv
  <1>3. CASE Bill
    <2>1. UNCHANGED <<offers, estimate, held>> /\ held # Unknown
      BY <1>3 DEF Bill
    <2>2. PICK q \in offers, u \in Reports :
               usage' = u /\ billed' = IF Countable(u) THEN HalfEven(Cost(q, u)) ELSE Unknown
      BY <1>3 DEF Bill
    <2>3. \A p : Estimated(p)' = Estimated(p)
      BY <2>1 DEF Estimated
    <2>4. ASSUME billed' # Unknown, Within(u) PROVE billed' <= held
      <3>1. Countable(u) /\ billed' = HalfEven(Cost(q, u))
        BY <2>2, <2>4
      <3>2. u.prompt \in Int /\ u.output \in Int /\ u.read \in Int /\ u.write \in Int /\ u.units = estimate.units
        BY <1>1 DEF Reports
      <3>3. q \in PriceLists /\ estimate \in [input : Nat, output : Nat, units : Nat]
        BY <1>1 DEF PriceInv
      <3>4. Cost(q, u) \in Nat /\ Estimated(q) \in Nat /\ Cost(q, u) <= Estimated(q)
        BY <2>4, <3>1, <3>2, <3>3, CostsNoMore
      <3>5. held \in Nat /\ Estimated(q) <= held * Step
        BY <2>1 DEF PriceInv
      <3>6. held * Step \in Nat
        BY <1>1, <3>5, Products
      <3>7. Cost(q, u) <= held * Step
        BY <3>4, <3>5, <3>6
      <3> QED
        BY <3>1, <3>4, <3>5, <3>7, Rounded
    <2>5. Within(u)' <=> Within(u)
      BY <2>1 DEF Within
    <2>6. HoldCovers'
      BY <2>1, <2>2, <2>4, <2>5 DEF HoldCovers, Within
    <2> QED
      BY <2>1, <2>3, <2>6 DEF PriceInv
  <1>4. CASE UNCHANGED pricingVars
    BY <1>4 DEF pricingVars, PriceInv, HoldCovers, Within, Estimated
  <1> QED
    BY <1>2, <1>3, <1>4 DEF NextPricing

\* Whatever the prices, the size of the request and the rounding, a hold
\* covers the bill of a request that used no more than was estimated.
THEOREM HoldsCoverBills == SpecPricing => []HoldCovers
  <1>1. PriceInv => HoldCovers
    BY DEF PriceInv
  <1> QED
    BY <1>1, PriceInit, PriceStep, PTL DEF SpecPricing


----------------------------------------------------------------------------
(* Model checks keep apart (ModelMonitor) *)

\* From its lock to the end of its clean-up a check is the one the lock names
Engaged == {"locked", "runs", "frees", "deletes"}

\* The type invariant
MonitorTypes ==
    /\ stage \in [Pairs -> ProbeStages]
    /\ lockLeft \in [Items -> 0..LockTTL] /\ holder \in [Items -> SUBSET Checkers]
    /\ age \in [ToSet(Scheduled) -> 0..Interval]
    /\ listed \in [Sweepers -> SUBSET ToSet(Scheduled)] /\ DOMAIN todo = Sweepers

\* The lock of a model names the check that took it
Locking ==
    /\ \A i \in Items : holder[i] = {} <=> lockLeft[i] = 0
    /\ \A o \in Checkers, i \in Items : stage[<<o, i>>] \in Engaged => holder[i] = {o}

\* A check that runs holds a lease, and there are two
Leasing ==
    /\ IsFiniteSet(leases) /\ orphans \in Nat /\ Cardinality(leases) + orphans <= 2
    /\ leases \subseteq Pairs /\ \A p \in Pairs : stage[p] = "runs" => p \in leases

\* What a sweep listed and nobody has recorded since is due
ListedDue == \A w \in Sweepers : \A i \in listed[w] : age[i] = Interval

\* The inductive invariant
MonitorInv == MonitorTypes /\ Locking /\ Leasing /\ ListedDue

\* A check begins to run only as BeginProbe lets it
BeginsDue == \A w \in Sweepers, i \in ToSet(Scheduled) :
    stage[<<w, i>>] # "runs" /\ stage'[<<w, i>>] = "runs" => age[i] = Interval

\* The least of two numbers.
LEMMA MinOfTwo == ASSUME NEW m \in Int, NEW n \in Int
                  PROVE  Min({m, n}) \in {m, n} /\ Min({m, n}) <= m /\ Min({m, n}) <= n
  <1>1. \E k \in {m, n} : \A j \in {m, n} : k <= j
    OBVIOUS
  <1>2. Min({m, n}) \in {m, n} /\ \A j \in {m, n} : Min({m, n}) <= j
    BY <1>1 DEF Min
  <1> QED
    BY <1>2

\* One check changes its stage, and what goes with it
LEMMA OneStage ==
    ASSUME MonitorTypes, NEW o \in Checkers, NEW i \in Items, NEW s \in ProbeStages, To(o, i, s)
    PROVE  /\ stage' \in [Pairs -> ProbeStages] /\ stage'[<<o, i>>] = s
           /\ \A p \in Pairs : p # <<o, i>> => stage'[p] = stage[p]
  BY DEF MonitorTypes, To, Pairs

\* A lease that is given up leaves one less.
LEMMA LeaseLess ==
    ASSUME Leasing, NEW S, leases' = leases \ S, orphans' = orphans + Cardinality(leases \ leases') \/ UNCHANGED orphans
    PROVE  IsFiniteSet(leases') /\ orphans' \in Nat /\ Cardinality(leases') + orphans' <= 2
  <1>1. IsFiniteSet(leases) /\ IsFiniteSet(leases') /\ IsFiniteSet(leases \ leases')
    BY FS_Subset DEF Leasing
  <1>2. Cardinality(leases) \in Nat /\ Cardinality(leases') \in Nat /\ Cardinality(leases \ leases') \in Nat
    BY <1>1, FS_CardinalityType
  <1>3. leases \ leases' = leases \cap S /\ leases' = leases \ (leases \cap S)
    OBVIOUS
  <1>4. Cardinality(leases') = Cardinality(leases) - Cardinality(leases \ leases')
    BY <1>1, <1>3, FS_Difference
  <1> QED
    BY <1>1, <1>2, <1>4 DEF Leasing

\* The actions, one after the other: of a sweep,
LEMMA SweepStep == ASSUME MonitorInv, NEW w \in Sweepers, Loop(w) PROVE MonitorInv' /\ BeginsDue
  <1>1. UNCHANGED <<age, lockLeft, holder, leases, orphans>>
    BY DEF Loop, Sweep, NextPair
  <1>2. CASE Sweep(w)
    <2>1. PICK s \in Listings : todo' = [todo EXCEPT ![w] = s] /\ listed' = [listed EXCEPT ![w] = ToSet(s)]
      BY <1>2 DEF Sweep
    <2>2. ToSet(s) \subseteq Overdue
      BY <2>1 DEF Listings, ToSet
    <2>3. UNCHANGED stage
      BY <1>2 DEF Sweep
    <2> QED
      BY <1>1, <2>1, <2>2, <2>3 DEF MonitorInv, MonitorTypes, Locking, Leasing, ListedDue, BeginsDue, Overdue
  <1>3. CASE NextPair(w)
    <2>1. PICK S : stage' = [p \in Pairs |-> IF p[1] = w /\ p[2] \in S THEN "waits" ELSE stage[p]]
      BY <1>3 DEF NextPair
    <2>2. stage' \in [Pairs -> ProbeStages] /\ \A p \in Pairs : stage'[p] = "waits" \/ stage'[p] = stage[p]
      BY <2>1 DEF MonitorInv, MonitorTypes, ProbeStages
    <2>3. UNCHANGED listed /\ DOMAIN todo' = Sweepers
      BY <1>3 DEF NextPair, MonitorInv, MonitorTypes
    <2>4. \A v \in Sweepers, i \in ToSet(Scheduled) : <<v, i>> \in Pairs
      BY DEF Pairs, Checkers, Items
    <2>5. Locking' /\ Leasing'
      BY <1>1, <2>2 DEF MonitorInv, Locking, Leasing, Engaged, Pairs
    <2> QED
      BY <1>1, <2>2, <2>3, <2>4, <2>5 DEF MonitorInv, MonitorTypes, ListedDue, BeginsDue
  <1> QED
    BY <1>2, <1>3 DEF Loop

\* of a check,
LEMMA ProbeStep ==
    ASSUME MonitorInv, NEW o \in Checkers, NEW i \in Items, CheckStep(o, i) \/ Ask(o, i)
    PROVE  MonitorInv' /\ BeginsDue
  <1>1. LockTTL \in Nat /\ (\A k \in Items : Longest[k] \in 1..LockTTL - 1) /\ Interval \in Nat \ {0} /\ LockTTL > 0
    BY MonitorAssumption
  <1>2. \A q \in Checkers, k \in Items : <<q, k>> \in Pairs /\ (<<q, k>> = <<o, i>> <=> q = o /\ k = i)
    BY DEF Pairs
  <1>3. \A v \in Sweepers, k \in ToSet(Scheduled) : <<v, k>> \in Pairs /\ v \in Checkers /\ k \in Items
    BY DEF Pairs, Checkers, Items
  <1>4. ASSUME NEW s \in ProbeStages \ {"runs"}, To(o, i, s), UNCHANGED <<age, listed, todo>>,
               lockLeft' \in [Items -> 0..LockTTL], holder' \in [Items -> SUBSET Checkers],
               \A k \in Items \ {i} : lockLeft'[k] = lockLeft[k] /\ holder'[k] = holder[k],
               holder'[i] = {} <=> lockLeft'[i] = 0,
               s \in Engaged => holder'[i] = {o},
               \A q \in Checkers \ {o} : stage[<<q, i>>] \in Engaged => holder'[i] = {q},
               IsFiniteSet(leases'), orphans' \in Nat, Cardinality(leases') + orphans' <= 2,
               leases' \subseteq Pairs, \A p \in Pairs : p # <<o, i>> /\ p \in leases => p \in leases'
        PROVE  MonitorInv' /\ BeginsDue
    <2>1. /\ stage' \in [Pairs -> ProbeStages] /\ stage'[<<o, i>>] = s
          /\ \A p \in Pairs : p # <<o, i>> => stage'[p] = stage[p]
      BY <1>4, OneStage DEF MonitorInv
    <2>2. Locking'
      <3> SUFFICES ASSUME NEW q \in Checkers, NEW k \in Items, stage'[<<q, k>>] \in Engaged PROVE holder'[k] = {q}
        BY <1>4 DEF Locking, MonitorInv
      <3>1. CASE q = o /\ k = i
        BY <1>4, <2>1, <3>1
      <3>2. CASE k # i
        BY <1>2, <1>4, <2>1, <3>2 DEF MonitorInv, Locking
      <3>3. CASE k = i /\ q # o
        BY <1>2, <1>4, <2>1, <3>3
      <3> QED
        BY <3>1, <3>2, <3>3
    <2>3. Leasing'
      BY <1>4, <2>1 DEF MonitorInv, Leasing
    <2>4. BeginsDue
      BY <1>3, <1>4, <2>1 DEF BeginsDue
    <2> QED
      BY <1>4, <2>1, <2>2, <2>3, <2>4 DEF MonitorInv, MonitorTypes, ListedDue
  <1>5. CASE Ask(o, i)
    BY <1>4, <1>5, <1>2 DEF Ask, MonitorInv, MonitorTypes, Locking, Leasing, ProbeStages, Engaged
  <1>6. CASE Lock(o, i)
    <2>1. UNCHANGED <<age, listed, todo, leases, orphans>>
      BY <1>6 DEF Lock
    <2>2. CASE To(o, i, "none") /\ UNCHANGED <<lockLeft, holder>>
      BY <1>4, <2>1, <2>2, <1>2 DEF MonitorInv, MonitorTypes, Locking, Leasing, ProbeStages, Engaged
    <2>3. CASE /\ lockLeft[i] = 0 /\ To(o, i, "locked")
               /\ lockLeft' = [lockLeft EXCEPT ![i] = LockTTL] /\ holder' = [holder EXCEPT ![i] = {o}]
      <3>1. \A q \in Checkers : stage[<<q, i>>] \notin Engaged
        BY <2>3 DEF MonitorInv, Locking
      <3>2. lockLeft' \in [Items -> 0..LockTTL] /\ holder' \in [Items -> SUBSET Checkers]
        BY <1>1, <2>3 DEF MonitorInv, MonitorTypes
      <3>3. lockLeft'[i] = LockTTL /\ holder'[i] = {o}
        BY <2>3 DEF MonitorInv, MonitorTypes
      <3>4. \A k \in Items \ {i} : lockLeft'[k] = lockLeft[k] /\ holder'[k] = holder[k]
        BY <2>3 DEF MonitorInv, MonitorTypes
      <3> QED
        BY <1>1, <1>4, <2>1, <2>3, <3>1, <3>2, <3>3, <3>4 DEF MonitorInv, Leasing, ProbeStages
    <2> QED
      BY <1>6, <2>2, <2>3 DEF Lock
  <1>7. CASE BeginProbe(o, i)
    <2>1. stage[<<o, i>>] = "locked" /\ holder[i] = {o} /\ UNCHANGED <<age, listed, todo, lockLeft, holder, orphans>>
      BY <1>7 DEF BeginProbe, MonitorInv, Locking, Engaged
    <2>2. CASE To(o, i, "frees") /\ UNCHANGED leases
      BY <1>4, <2>1, <2>2, <1>2 DEF MonitorInv, MonitorTypes, Locking, Leasing, ProbeStages, Engaged
    <2>3. CASE /\ Cardinality(leases) + orphans < 2
               /\ leases' = leases \cup {<<o, i>>} /\ To(o, i, Begins(o, i))
      <3>1. Begins(o, i) \in {"frees", "runs"} /\ (Begins(o, i) = "runs" /\ o \in Sweepers => i \in listed[o])
        BY DEF Begins
      <3>2. /\ stage' \in [Pairs -> ProbeStages] /\ stage'[<<o, i>>] = Begins(o, i)
            /\ \A p \in Pairs : p # <<o, i>> => stage'[p] = stage[p]
        BY <2>3, <3>1, OneStage DEF MonitorInv, ProbeStages
      <3>3. IsFiniteSet(leases') /\ Cardinality(leases') <= Cardinality(leases) + 1 /\ Cardinality(leases') \in Nat
            /\ Cardinality(leases) \in Nat
        <4>1. IsFiniteSet(leases)
          BY DEF MonitorInv, Leasing
        <4>2. /\ IsFiniteSet(leases')
              /\ Cardinality(leases') = IF <<o, i>> \in leases THEN Cardinality(leases) ELSE Cardinality(leases) + 1
          BY <2>3, <4>1, FS_AddElement
        <4> QED
          BY <4>1, <4>2, FS_CardinalityType
      <3>4. Locking'
        BY <1>2, <2>1, <3>1, <3>2 DEF MonitorInv, Locking, Engaged
      <3>5. Leasing'
        BY <1>2, <2>1, <2>3, <3>2, <3>3 DEF MonitorInv, Leasing
      <3>6. BeginsDue
        BY <1>2, <1>3, <3>1, <3>2 DEF BeginsDue, MonitorInv, ListedDue
      <3> QED
        BY <2>1, <3>2, <3>4, <3>5, <3>6 DEF MonitorInv, MonitorTypes, ListedDue
    <2> QED
      BY <1>7, <2>2, <2>3 DEF BeginProbe
  <1>8. CASE FinishProbe(o, i)
    <2>1. stage[<<o, i>>] = "runs" /\ holder[i] = {o} /\ UNCHANGED <<todo, lockLeft, holder, leases, orphans>>
      BY <1>8 DEF FinishProbe, MonitorInv, Locking, Engaged
    <2>2. To(o, i, "frees")
      BY <1>8 DEF FinishProbe
    <2>3. CASE UNCHANGED <<age, listed>>
      BY <1>4, <2>1, <2>2, <2>3, <1>2 DEF MonitorInv, MonitorTypes, Locking, Leasing, ProbeStages, Engaged
    <2>4. CASE age' = [age EXCEPT ![i] = 0] /\ listed' = [w \in Sweepers |-> listed[w] \ {i}]
      <3>1. /\ stage' \in [Pairs -> ProbeStages] /\ stage'[<<o, i>>] = "frees"
            /\ \A p \in Pairs : p # <<o, i>> => stage'[p] = stage[p]
        BY <2>2, OneStage DEF MonitorInv, ProbeStages
      <3>2. age' \in [ToSet(Scheduled) -> 0..Interval] /\ listed' \in [Sweepers -> SUBSET ToSet(Scheduled)] /\ ListedDue'
        <4>1. age \in [ToSet(Scheduled) -> 0..Interval] /\ listed \in [Sweepers -> SUBSET ToSet(Scheduled)]
              /\ 0 \in 0..Interval
          BY <1>1 DEF MonitorInv, MonitorTypes
        <4>2. age' \in [ToSet(Scheduled) -> 0..Interval] /\ \A k \in ToSet(Scheduled) : k # i => age'[k] = age[k]
          BY <2>4, <4>1
        <4>3. listed' \in [Sweepers -> SUBSET ToSet(Scheduled)]
              /\ \A w \in Sweepers : listed'[w] = listed[w] \ {i}
          BY <2>4, <4>1
        <4> QED
          BY <4>2, <4>3 DEF MonitorInv, MonitorTypes, ListedDue
      <3>3. Locking' /\ Leasing'
        BY <1>2, <2>1, <3>1 DEF MonitorInv, Locking, Leasing, Engaged
      <3>4. BeginsDue
        BY <1>3, <3>1 DEF BeginsDue
      <3> QED
        BY <2>1, <3>1, <3>2, <3>3, <3>4 DEF MonitorInv, MonitorTypes
    <2> QED
      BY <1>8, <2>3, <2>4 DEF FinishProbe
  <1>9. CASE Free(o, i)
    <2>1. /\ stage[<<o, i>>] = "frees" /\ holder[i] = {o} /\ leases' = leases \ {<<o, i>>}
          /\ UNCHANGED <<age, listed, todo, lockLeft, holder, orphans>>
      BY <1>9 DEF Free, MonitorInv, Locking, Engaged
    <2>2. PICK s \in {"deletes", "none"} : To(o, i, s)
      BY <1>9 DEF Free
    <2>3. IsFiniteSet(leases') /\ orphans' \in Nat /\ Cardinality(leases') + orphans' <= 2
      BY <2>1, LeaseLess DEF MonitorInv
    <2>4. leases' \subseteq Pairs /\ \A p \in Pairs : p # <<o, i>> /\ p \in leases => p \in leases'
      BY <2>1 DEF MonitorInv, Leasing
    <2>5. s \in ProbeStages \ {"runs"}
      BY DEF ProbeStages
    <2>6. \A q \in Checkers \ {o} : stage[<<q, i>>] \notin Engaged
      BY <2>1 DEF MonitorInv, Locking
    <2>7. holder[i] = {} <=> lockLeft[i] = 0
      BY DEF MonitorInv, Locking
    <2>8. lockLeft \in [Items -> 0..LockTTL] /\ holder \in [Items -> SUBSET Checkers]
      BY DEF MonitorInv, MonitorTypes
    <2> QED
      BY <1>4, <2>1, <2>2, <2>3, <2>4, <2>5, <2>6, <2>7, <2>8
  <1>10. CASE DeleteLock(o, i)
    <2>1. /\ stage[<<o, i>>] = "deletes" /\ holder[i] = {o} /\ To(o, i, "none")
          /\ UNCHANGED <<age, listed, todo, leases, orphans>>
          /\ lockLeft' = [lockLeft EXCEPT ![i] = 0] /\ holder' = [holder EXCEPT ![i] = {}]
      BY <1>10 DEF DeleteLock, MonitorInv, Locking, Engaged
    <2>2. \A q \in Checkers \ {o} : stage[<<q, i>>] \notin Engaged
      BY <2>1 DEF MonitorInv, Locking
    <2>3. /\ lockLeft' \in [Items -> 0..LockTTL] /\ holder' \in [Items -> SUBSET Checkers]
          /\ lockLeft'[i] = 0 /\ holder'[i] = {}
          /\ \A k \in Items \ {i} : lockLeft'[k] = lockLeft[k] /\ holder'[k] = holder[k]
      BY <1>1, <2>1 DEF MonitorInv, MonitorTypes
    <2> QED
      BY <1>4, <2>1, <2>2, <2>3 DEF MonitorInv, Leasing, ProbeStages, Engaged
  <1> QED
    BY <1>5, <1>6, <1>7, <1>8, <1>9, <1>10 DEF CheckStep

\* and of locks and leases that run out.
LEMMA FaultStep ==
    ASSUME MonitorInv,
           \/ \E o \in Checkers, i \in Items : CleanUpFails(o, i)
           \/ \E o \in Checkers : OwnerExits(o)
           \/ LeaseExpires
    PROVE  MonitorInv' /\ BeginsDue
  <1>1. UNCHANGED <<age, lockLeft, holder, listed>>
    BY DEF CleanUpFails, OwnerExits, LeaseExpires
  <1>2. \A v \in Sweepers, k \in ToSet(Scheduled) : <<v, k>> \in Pairs
    BY DEF Pairs, Checkers, Items
  <1>3. ASSUME NEW S \in SUBSET Pairs, stage' \in [Pairs -> ProbeStages], leases' = leases \ S,
               \A p \in Pairs : stage'[p] \in {"none", stage[p]} /\ (p \in S => stage'[p] # "runs"),
               orphans' = orphans + Cardinality(leases \ leases'), DOMAIN todo' = Sweepers
        PROVE  MonitorInv' /\ BeginsDue
    <2>1. IsFiniteSet(leases') /\ orphans' \in Nat /\ Cardinality(leases') + orphans' <= 2
      BY <1>3, LeaseLess DEF MonitorInv
    <2>2. Leasing'
      BY <1>3, <2>1 DEF MonitorInv, Leasing
    <2>3. Locking'
      BY <1>1, <1>3 DEF MonitorInv, Locking, Engaged, Pairs
    <2> QED
      BY <1>1, <1>2, <1>3, <2>2, <2>3 DEF MonitorInv, MonitorTypes, ListedDue, BeginsDue
  <1>4. ASSUME NEW o \in Checkers, NEW i \in Items, CleanUpFails(o, i) PROVE MonitorInv' /\ BeginsDue
    <2>1. To(o, i, "none") /\ leases' = leases \ {<<o, i>>} /\ orphans' = orphans + Cardinality(leases \ leases')
          /\ UNCHANGED todo
      BY <1>4 DEF CleanUpFails
    <2>2. /\ stage' \in [Pairs -> ProbeStages] /\ stage'[<<o, i>>] = "none"
          /\ \A p \in Pairs : p # <<o, i>> => stage'[p] = stage[p]
      BY <2>1, OneStage DEF MonitorInv, ProbeStages
    <2>3. {<<o, i>>} \in SUBSET Pairs /\ DOMAIN todo' = Sweepers
      BY <2>1 DEF Pairs, MonitorInv, MonitorTypes
    <2> QED
      BY <1>3, <2>1, <2>2, <2>3
  <1>5. ASSUME NEW o \in Checkers, OwnerExits(o) PROVE MonitorInv' /\ BeginsDue
    <2> DEFINE S == {p \in Pairs : p[1] = o}
    <2>1. /\ stage' = [p \in Pairs |-> IF p[1] = o THEN "none" ELSE stage[p]]
          /\ leases' = {p \in leases : p[1] # o} /\ orphans' = orphans + Cardinality(leases \ leases')
          /\ DOMAIN todo' = Sweepers
      BY <1>5 DEF OwnerExits
    <2>2. stage' \in [Pairs -> ProbeStages]
          /\ \A p \in Pairs : stage'[p] \in {"none", stage[p]} /\ (p \in S => stage'[p] = "none")
      BY <2>1 DEF MonitorInv, MonitorTypes, ProbeStages
    <2>3. leases' = leases \ {p \in leases : p[1] = o}
      BY <2>1
    <2>4. leases' = leases \ S /\ S \in SUBSET Pairs
      BY <2>3 DEF MonitorInv, Leasing
    <2> HIDE DEF S
    <2> QED
      BY <1>3, <2>1, <2>2, <2>4
  <1>6. CASE LeaseExpires
    <2>1. orphans > 0 /\ orphans' = orphans - 1 /\ UNCHANGED <<leases, stage, todo>>
      BY <1>6 DEF LeaseExpires
    <2>2. Cardinality(leases) \in Nat
      BY FS_CardinalityType DEF MonitorInv, Leasing
    <2> QED
      BY <1>1, <2>1, <2>2 DEF MonitorInv, MonitorTypes, Locking, Leasing, ListedDue, BeginsDue
  <1> QED
    BY <1>4, <1>5, <1>6

\* A lock outlives the check that runs under it: time stops for whoever would
\* run longer than its time-outs allow
LEMMA TimeStep == ASSUME MonitorInv, TimeGoesOn PROVE MonitorInv' /\ BeginsDue
  <1>1. LockTTL \in Nat /\ Interval \in Nat \ {0} /\ \A i \in Items : Longest[i] \in 1..LockTTL - 1
    BY MonitorAssumption
  <1>2. /\ \A p \in Pairs : stage[p] = "none" \/ (stage[p] = "runs" /\ MayRun(p[2]))
        /\ age' = [i \in DOMAIN age |-> Min({age[i] + 1, Interval})]
        /\ lockLeft' = [i \in Items |-> Older(lockLeft[i])]
        /\ holder' = [i \in Items |-> IF lockLeft'[i] = 0 THEN {} ELSE holder[i]]
        /\ UNCHANGED <<leases, orphans, stage, listed, todo>>
    BY DEF TimeGoesOn
  <1>3. ASSUME NEW i \in ToSet(Scheduled) PROVE age'[i] \in 0..Interval /\ (age[i] = Interval => age'[i] = Interval)
    <2>1. age[i] \in 0..Interval /\ age'[i] = Min({age[i] + 1, Interval})
      BY <1>2 DEF MonitorInv, MonitorTypes
    <2>2. /\ Min({age[i] + 1, Interval}) \in {age[i] + 1, Interval}
          /\ Min({age[i] + 1, Interval}) <= age[i] + 1 /\ Min({age[i] + 1, Interval}) <= Interval
      <3>1. age[i] + 1 \in Int /\ Interval \in Int
        BY <1>1, <2>1
      <3> QED
        BY <3>1, MinOfTwo
    <2> QED
      BY <1>1, <2>1, <2>2
  <1>4. age' \in [ToSet(Scheduled) -> 0..Interval] /\ ListedDue'
    BY <1>2, <1>3 DEF MonitorInv, MonitorTypes, ListedDue
  <1>5. ASSUME NEW i \in Items PROVE lockLeft'[i] \in 0..LockTTL /\ (holder'[i] = {} <=> lockLeft'[i] = 0)
    BY <1>1, <1>2 DEF MonitorInv, MonitorTypes, Locking, Older
  <1>6. ASSUME NEW o \in Checkers, NEW i \in Items, stage'[<<o, i>>] \in Engaged PROVE holder'[i] = {o}
    <2>1. <<o, i>> \in Pairs /\ stage[<<o, i>>] \in Engaged /\ stage[<<o, i>>] # "none"
      BY <1>2, <1>6 DEF Pairs, Engaged
    <2>2. holder[i] = {o} /\ lockLeft[i] > LockTTL - Longest[i]
      BY <1>2, <2>1 DEF MonitorInv, Locking, MayRun
    <2>3. lockLeft'[i] # 0
      BY <1>1, <1>2, <2>2 DEF Older, MonitorInv, MonitorTypes
    <2> QED
      BY <1>2, <2>2, <2>3
  <1>7. lockLeft' \in [Items -> 0..LockTTL] /\ holder' \in [Items -> SUBSET Checkers]
    BY <1>2, <1>5 DEF MonitorInv, MonitorTypes
  <1>8. Locking' /\ Leasing'
    BY <1>2, <1>5, <1>6 DEF MonitorInv, Locking, Leasing
  <1> QED
    BY <1>2, <1>4, <1>7, <1>8 DEF MonitorInv, MonitorTypes, BeginsDue

\* Every step keeps it, and checks begin where they are due.
LEMMA MonitorStep == MonitorInv /\ [NextMonitor]_monitorVars => MonitorInv' /\ BeginsDue
  <1> SUFFICES ASSUME MonitorInv, [NextMonitor]_monitorVars PROVE MonitorInv' /\ BeginsDue
    OBVIOUS
  <1>1. CASE UNCHANGED monitorVars
    BY <1>1 DEF monitorVars, MonitorInv, MonitorTypes, Locking, Leasing, ListedDue, BeginsDue
  <1> QED
    BY <1>1, SweepStep, ProbeStep, FaultStep, TimeStep DEF NextMonitor

\* No check has begun.
LEMMA MonitorInit == InitMonitor => MonitorInv
  <1> SUFFICES ASSUME InitMonitor PROVE MonitorInv
    OBVIOUS
  <1>1. LockTTL \in Nat /\ Interval \in Nat
    BY MonitorAssumption
  <1>2. IsFiniteSet({}) /\ Cardinality({}) = 0
    BY FS_EmptySet
  <1> QED
    BY <1>1, <1>2 DEF InitMonitor, MonitorInv, MonitorTypes, Locking, Leasing, ListedDue, Engaged, Pairs, ProbeStages

\* So a model has one check and there are two at most.
LEMMA ChecksAreFew == MonitorInv => OneProbe /\ GlobalTwo
  <1> SUFFICES ASSUME MonitorInv PROVE OneProbe /\ GlobalTwo
    OBVIOUS
  <1>1. ASSUME NEW i \in Items PROVE Cardinality(Probing(i)) <= 1 /\ \A o \in Probing(i) : holder[i] = {o}
    <2>1. \A o \in Probing(i) : holder[i] = {o}
      BY DEF Probing, MonitorInv, Locking, Engaged
    <2>2. Probing(i) = {} \/ \E o \in Probing(i) : Probing(i) = {o}
      BY <2>1
    <2>3. Cardinality({}) = 0 /\ \A o : Cardinality({o}) = 1
      BY FS_EmptySet, FS_Singleton
    <2> QED
      BY <2>1, <2>2, <2>3
  <1>2. GlobalTwo
    <2> DEFINE R == {p \in Pairs : stage[p] = "runs"}
    <2>1. R \subseteq leases /\ IsFiniteSet(leases)
      BY DEF MonitorInv, Leasing
    <2>2. Cardinality(R) <= Cardinality(leases) /\ Cardinality(R) \in Nat /\ Cardinality(leases) \in Nat
      BY <2>1, FS_Subset, FS_CardinalityType
    <2> QED
      BY <2>2 DEF MonitorInv, Leasing, GlobalTwo
  <1> QED
    BY <1>1, <1>2 DEF OneProbe

\* However many workers and administrators, and whoever exits or loses Redis:
\* a check never runs twice at once, at most two run, and a sweep checks
\* nothing that was recorded within the interval.
THEOREM ChecksKeepApart == SpecMonitor => ChecksApart
  BY MonitorInit, MonitorStep, ChecksAreFew, PTL
     DEF SpecMonitor, ChecksApart, ProbedOncePerInterval, BeginsDue


----------------------------------------------------------------------------
(* Concurrency and token limits hold (RateLimits).  First the leases: one   *)
(* that a task renews has almost all of its time left, and the clocks of    *)
(* the workers differ by less, so nobody takes it for expired.              *)

\* Clocks of two workers differ by less than the lifetime of a lease that was
\* just renewed
Synchronous == \A v, w \in Workers : Skew[v] < Skew[w] + LeaseTTL - 1

\* The operations that serve at o
Served(o) == {h \in Operations : o \in tasks[h]}

\* The inductive invariant of the slots
SlotInv ==
    /\ tasks \in [Operations -> SUBSET Owners] /\ due \in [Operations -> SUBSET Owners]
    /\ \A h \in Operations : due[h] \subseteq tasks[h]
    /\ left \in [Owners -> [Operations -> Int]]
    /\ \A o \in Owners, h \in Operations :
         o \in tasks[h] => left[o][h] >= Lease(h) - IF o \in due[h] THEN 1 ELSE 0
    /\ \A o \in Owners : SlotLimit[o] # NoLimit => Cardinality(Served(o)) <= SlotLimit[o]

\* What the assumption says of the constants.
LEMMA LimitTypes ==
    /\ IsFiniteSet(Operations) /\ LeaseTTL \in Nat /\ LeaseTTL > 0
    /\ \A h \in Operations : Lease(h) \in Nat /\ Lease(h) > 0 /\ Tokens[h] \in Nat /\ Skew[WorkerOf[h]] \in Nat
                             /\ WorkerOf[h] \in Workers
    /\ \A o \in Owners : SlotLimit[o] \in Nat \cup {NoLimit} /\ TokenLimit[o] \in Nat \cup {NoLimit}
    /\ Actual \subseteq Nat
  BY LimitsAssumption DEF Lease

\* Fewer tasks, none of them nearer to its end
LEMMA SlotsShrink ==
    ASSUME SlotInv, tasks' \in [Operations -> SUBSET Owners], due' \in [Operations -> SUBSET Owners],
           left' \in [Owners -> [Operations -> Int]],
           \A h \in Operations : tasks'[h] \subseteq tasks[h] /\ due'[h] \subseteq tasks'[h],
           \A o \in Owners, h \in Operations : o \in tasks'[h] =>
               \/ left'[o][h] = left[o][h] /\ (o \in due'[h] <=> o \in due[h])
               \/ left'[o][h] = Lease(h)
    PROVE  SlotInv'
  <1>1. \A h \in Operations : Lease(h)' = Lease(h) /\ Lease(h) \in Nat
    BY LimitTypes DEF Lease
  <1>2. \A o \in Owners, h \in Operations :
            o \in tasks'[h] => left'[o][h] >= Lease(h) - IF o \in due'[h] THEN 1 ELSE 0
    BY <1>1 DEF SlotInv
  <1>3. ASSUME NEW o \in Owners, SlotLimit[o] # NoLimit PROVE Cardinality(Served(o)') <= SlotLimit[o]
    <2>1. Served(o)' \subseteq Served(o) /\ IsFiniteSet(Served(o))
      BY LimitTypes, FS_Subset DEF Served
    <2>2. Cardinality(Served(o)') <= Cardinality(Served(o)) /\ Cardinality(Served(o)') \in Nat /\ Cardinality(Served(o)) \in Nat
      BY <2>1, FS_Subset, FS_CardinalityType
    <2>3. Cardinality(Served(o)) <= SlotLimit[o] /\ SlotLimit[o] \in Int
      BY <1>3, LimitTypes DEF SlotInv, NoLimit
    <2> QED
      BY <2>2, <2>3
  <1> QED
    BY <1>1, <1>2, <1>3 DEF SlotInv

\* The actions, one after the other: what changes no lease,
LEMMA SlotsStay == ASSUME SlotInv, UNCHANGED <<tasks, due, left>> PROVE SlotInv'
  BY DEF SlotInv, Served, Lease

\* a slot that is taken: the leases that it counts are those of all tasks
\* that serve,
LEMMA AcquireSlots == ASSUME SlotInv, Synchronous, NEW h \in Operations, NEW o \in Owners, AcquireSlot(h, o) PROVE SlotInv'
  <1>1. CASE UNCHANGED <<left, tasks>>
    BY <1>1, SlotsStay DEF AcquireSlot
  \* Whoever asks does not take the lease of another for expired
  <1>2. ASSUME NEW x \in Operations, o \in tasks[x] PROVE Kept(o, h)[x] = left[o][x] /\ x \in Members(Kept(o, h))
    <2>1. left[o][x] >= Lease(x) - 1 /\ left[o][x] \in Int /\ Lease(x) \in Nat
      BY <1>2, LimitTypes DEF SlotInv
    <2>2. Lease(x) - 1 > Skew[WorkerOf[h]]
      <3>1. Skew[WorkerOf[h]] < Skew[WorkerOf[x]] + LeaseTTL - 1
        BY LimitTypes DEF Synchronous
      <3> QED
        BY <3>1, LimitTypes DEF Lease
    <2> QED
      BY <2>1, <2>2, LimitTypes DEF Kept, Members, Gone
  <1>3. Kept(o, h) \in [Operations -> Int]
    BY DEF Kept, SlotInv, Gone
  <1>4. CASE /\ left' = [left EXCEPT ![o] = Kept(o, h)] /\ UNCHANGED <<tasks, due>>
    <2>1. left' \in [Owners -> [Operations -> Int]]
      BY <1>3, <1>4 DEF SlotInv
    <2>2. \A p \in Owners, x \in Operations : p \in tasks[x] => left'[p][x] = left[p][x]
      BY <1>2, <1>4 DEF SlotInv
    <2>3. \A x \in Operations : due[x] \subseteq tasks[x]
      BY DEF SlotInv
    <2> QED
      BY <1>4, <2>1, <2>2, <2>3, SlotsShrink DEF SlotInv
  <1> DEFINE new == [Kept(o, h) EXCEPT ![h] = Lease(h)]
  <1>5. CASE left' = [left EXCEPT ![o] = new] /\ UNCHANGED <<tasks, due>>
    <2>1. left' \in [Owners -> [Operations -> Int]]
      BY <1>3, <1>5, LimitTypes DEF SlotInv
    <2>2. \A p \in Owners, x \in Operations : p \in tasks[x] => left'[p][x] \in {left[p][x], Lease(x)}
      BY <1>2, <1>3, <1>5 DEF SlotInv
    <2>3. \A x \in Operations : due[x] \subseteq tasks[x]
      BY DEF SlotInv
    <2> QED
      BY <1>5, <2>1, <2>2, <2>3, SlotsShrink DEF SlotInv
  <1>6. CASE /\ Cardinality(Members(Kept(o, h))) < SlotLimit[o]
             /\ left' = [left EXCEPT ![o] = new] /\ tasks' = [tasks EXCEPT ![h] = @ \cup {o}] /\ UNCHANGED due
    <2>1. left' \in [Owners -> [Operations -> Int]]
      BY <1>3, <1>6, LimitTypes DEF SlotInv
    <2>2. tasks' \in [Operations -> SUBSET Owners] /\ \A x \in Operations : due'[x] \subseteq tasks'[x]
      BY <1>6 DEF SlotInv
    <2>3. ASSUME NEW p \in Owners, NEW x \in Operations, p \in tasks'[x]
          PROVE  left'[p][x] >= Lease(x) - IF p \in due'[x] THEN 1 ELSE 0
      <3>1. CASE p = o /\ x = h
        <4>1. left'[p][x] = Lease(x)
          BY <1>3, <1>6, <3>1 DEF SlotInv
        <4> QED
          BY <4>1, LimitTypes
      <3>2. CASE ~(p = o /\ x = h)
        <4>1. p \in tasks[x]
          BY <1>6, <2>3, <3>2 DEF SlotInv
        <4>2. left'[p][x] = left[p][x]
          BY <1>2, <1>3, <1>6, <3>2, <4>1 DEF SlotInv
        <4> QED
          BY <1>6, <4>1, <4>2 DEF SlotInv
      <3> QED
        BY <3>1, <3>2
    <2>4. ASSUME NEW p \in Owners, SlotLimit[p] # NoLimit PROVE Cardinality(Served(p)') <= SlotLimit[p]
      <3>1. CASE p = o
        <4>1. Served(o)' = Served(o) \cup {h} /\ Served(o) \subseteq Members(Kept(o, h))
          BY <1>2, <1>6 DEF Served, SlotInv
        <4>2. IsFiniteSet(Members(Kept(o, h)))
          BY LimitTypes, FS_Subset DEF Members
        <4>3. /\ IsFiniteSet(Served(o)) /\ Cardinality(Served(o)) <= Cardinality(Members(Kept(o, h)))
              /\ Cardinality(Served(o)) \in Nat /\ Cardinality(Members(Kept(o, h))) \in Nat
          BY <4>1, <4>2, FS_Subset, FS_CardinalityType
        <4>4. Cardinality(Served(o) \cup {h}) = IF h \in Served(o) THEN Cardinality(Served(o)) ELSE Cardinality(Served(o)) + 1
          BY <4>3, FS_AddElement
        <4>5. SlotLimit[o] \in Int
          BY LimitTypes DEF NoLimit
        <4> QED
          BY <1>6, <3>1, <4>1, <4>3, <4>4, <4>5
      <3>2. CASE p # o
        <4>1. Served(p)' = Served(p)
          BY <1>6, <3>2 DEF Served, SlotInv
        <4> QED
          BY <2>4, <4>1 DEF SlotInv
      <3> QED
        BY <3>1, <3>2
    <2>5. \A x : Lease(x)' = Lease(x)
      BY DEF Lease
    <2>6. due' \in [Operations -> SUBSET Owners]
      BY <1>6 DEF SlotInv
    <2> HIDE DEF new
    <2> QED
      BY <2>1, <2>2, <2>3, <2>4, <2>5, <2>6 DEF SlotInv
  <1> QED
    BY <1>1, <1>4, <1>5, <1>6 DEF AcquireSlot

\* a lease that is renewed,
LEMMA RefreshSlots == ASSUME SlotInv, NEW h \in Operations, NEW o \in Owners, Refresh(h, o) PROVE SlotInv'
  <1>1. due' = [due EXCEPT ![h] = @ \ {o}]
    BY DEF Refresh
  <1>2. CASE left' = [left EXCEPT ![o][h] = Lease(h)] /\ UNCHANGED tasks
    <2>1. left' \in [Owners -> [Operations -> Int]]
      BY <1>2, LimitTypes DEF SlotInv
    <2>2. \A p \in Owners, x \in Operations : left'[p][x] = IF p = o /\ x = h THEN Lease(h) ELSE left[p][x]
      BY <1>2 DEF SlotInv
    <2>3. due' \in [Operations -> SUBSET Owners] /\ \A x \in Operations : due'[x] \subseteq tasks[x]
      BY <1>1 DEF SlotInv
    <2>4. \A p \in Owners, x \in Operations : ~(p = o /\ x = h) => (p \in due'[x] <=> p \in due[x])
      BY <1>1 DEF SlotInv
    <2> QED
      BY <1>2, <2>1, <2>2, <2>3, <2>4, SlotsShrink DEF SlotInv
  <1>3. CASE tasks' = [tasks EXCEPT ![h] = @ \ {o}] /\ UNCHANGED left
    <2>1. tasks' \in [Operations -> SUBSET Owners] /\ due' \in [Operations -> SUBSET Owners]
      BY <1>1, <1>3 DEF SlotInv
    <2>2. \A x \in Operations : tasks'[x] \subseteq tasks[x] /\ due'[x] \subseteq tasks'[x]
      BY <1>1, <1>3 DEF SlotInv
    <2>3. \A p \in Owners, x \in Operations : p \in tasks'[x] => (p \in due'[x] <=> p \in due[x])
      BY <1>1, <1>3 DEF SlotInv
    <2> QED
      BY <1>3, <2>1, <2>2, <2>3, SlotsShrink DEF SlotInv
  <1> QED
    BY <1>2, <1>3 DEF Refresh

\* one that is given back,
LEMMA FreeSlots == ASSUME SlotInv, NEW h \in Operations, NEW o \in Owners, FreeSlot(h, o) PROVE SlotInv'
  <1>1. /\ tasks' = [tasks EXCEPT ![h] = @ \ {o}] /\ due' = [due EXCEPT ![h] = @ \ {o}]
        /\ left' \in {left, [left EXCEPT ![o][h] = Gone]}
    BY DEF FreeSlot, Release
  <1>2. tasks' \in [Operations -> SUBSET Owners] /\ due' \in [Operations -> SUBSET Owners]
    BY <1>1 DEF SlotInv
  <1>3. \A x \in Operations : tasks'[x] \subseteq tasks[x] /\ due'[x] \subseteq tasks'[x]
    BY <1>1 DEF SlotInv
  <1>4. left' \in [Owners -> [Operations -> Int]]
    BY <1>1 DEF SlotInv, Gone
  <1>5. \A p \in Owners, x \in Operations : p \in tasks'[x] =>
            left'[p][x] = left[p][x] /\ (p \in due'[x] <=> p \in due[x])
    BY <1>1 DEF SlotInv
  <1> QED
    BY <1>2, <1>3, <1>4, <1>5, SlotsShrink

\* time that passes: a task renews in time,
LEMMA TickSlots == ASSUME SlotInv, Tick PROVE SlotInv'
  <1>1. /\ \A h \in Operations : due[h] = {}
        /\ due' = tasks /\ UNCHANGED tasks
        /\ left' = [o \in Owners |-> [h \in Operations |->
                     IF left[o][h] \in {Gone, 0} THEN left[o][h] ELSE left[o][h] - 1]]
    BY DEF Tick
  <1>2. left' \in [Owners -> [Operations -> Int]]
    BY <1>1 DEF SlotInv
  <1>3. ASSUME NEW o \in Owners, NEW h \in Operations, o \in tasks[h]
        PROVE  left'[o][h] >= Lease(h) - IF o \in due'[h] THEN 1 ELSE 0
    <2>1. left[o][h] \in Int /\ left[o][h] >= Lease(h) /\ Lease(h) \in Nat
      BY <1>1, <1>3, LimitTypes DEF SlotInv
    <2>2. left'[o][h] \in {left[o][h], left[o][h] - 1}
      BY <1>1
    <2> QED
      BY <1>1, <1>3, <2>1, <2>2
  <1>4. \A o \in Owners : Served(o)' = Served(o)
    BY <1>1 DEF Served
  <1>5. \A h : Lease(h)' = Lease(h)
    BY DEF Lease
  <1> QED
    BY <1>1, <1>2, <1>3, <1>4, <1>5 DEF SlotInv

\* and a worker that exits with its tasks.
LEMMA CrashSlots == ASSUME SlotInv, NEW w \in Workers, Crash(w) PROVE SlotInv'
  <1> DEFINE gone == {h \in Operations : WorkerOf[h] = w}
  <1>1. /\ tasks' = [h \in Operations |-> IF h \in gone THEN {} ELSE tasks[h]]
        /\ due' = [h \in Operations |-> IF h \in gone THEN {} ELSE due[h]]
        /\ UNCHANGED left
    BY DEF Crash
  <1>2. tasks' \in [Operations -> SUBSET Owners] /\ due' \in [Operations -> SUBSET Owners]
    BY <1>1 DEF SlotInv
  <1>3. \A x \in Operations : tasks'[x] \subseteq tasks[x] /\ due'[x] \subseteq tasks'[x]
    BY <1>1 DEF SlotInv
  <1>4. \A p \in Owners, x \in Operations : p \in tasks'[x] => (p \in due'[x] <=> p \in due[x])
    BY <1>1
  <1>5. left' \in [Owners -> [Operations -> Int]]
    BY <1>1 DEF SlotInv
  <1> QED
    BY <1>1, <1>2, <1>3, <1>4, <1>5, SlotsShrink

\* Every step keeps it.
LEMMA SlotStep == Synchronous /\ SlotInv /\ [NextLimits]_limitVars => SlotInv'
  <1> SUFFICES ASSUME Synchronous, SlotInv, [NextLimits]_limitVars PROVE SlotInv'
    OBVIOUS
  <1>1. ASSUME NEW h \in Operations, Operate(h) PROVE SlotInv'
    <2>1. ASSUME NEW o \in Owners, ReserveTokens(h, o) \/ GiveBack(h, o) PROVE SlotInv'
      BY <2>1, SlotsStay DEF ReserveTokens, GiveBack
    <2>2. CASE Leave(h)
      BY <2>2, SlotsStay DEF Leave
    <2> QED
      BY <1>1, <2>1, <2>2, AcquireSlots, FreeSlots DEF Operate
  <1>2. ASSUME NEW h \in Operations, Finish(h) PROVE SlotInv'
    BY <1>2, SlotsStay DEF Finish
  <1>3. ASSUME NEW o \in Owners, Window(o) PROVE SlotInv'
    BY <1>3, SlotsStay DEF Window
  <1>4. CASE UNCHANGED limitVars
    BY <1>4, SlotsStay DEF limitVars
  <1> QED
    BY <1>1, <1>2, <1>3, <1>4, RefreshSlots, TickSlots, CrashSlots DEF NextLimits, Renew

\* No task serves.
LEMMA SlotInit == InitLimits => SlotInv
  <1> SUFFICES ASSUME InitLimits PROVE SlotInv
    OBVIOUS
  <1>1. /\ tasks = [h \in Operations |-> {}] /\ due = [h \in Operations |-> {}]
        /\ left = [o \in Owners |-> [h \in Operations |-> Gone]]
    BY DEF InitLimits
  <1>2. \A o \in Owners : Served(o) = {}
    BY <1>1 DEF Served
  <1>3. Cardinality({}) = 0
    BY FS_EmptySet
  <1>4. \A o \in Owners : SlotLimit[o] # NoLimit => Cardinality(Served(o)) <= SlotLimit[o]
    BY <1>2, <1>3, LimitTypes
  <1> QED
    BY <1>1, <1>4 DEF SlotInv, Gone

\* So no more tasks serve than the limit.
LEMMA SlotsAreBounded == SlotInv => SlotsBounded
  <1> SUFFICES ASSUME SlotInv, NEW o \in Owners, SlotLimit[o] # NoLimit
               PROVE  Cardinality({h \in Holders(o) : o \in tasks[h]}) <= SlotLimit[o]
    BY DEF SlotsBounded
  <1>1. {h \in Holders(o) : o \in tasks[h]} \subseteq Served(o) /\ IsFiniteSet(Served(o))
    BY LimitTypes, FS_Subset DEF Holders, Served
  <1>2. /\ Cardinality({h \in Holders(o) : o \in tasks[h]}) <= Cardinality(Served(o))
        /\ Cardinality({h \in Holders(o) : o \in tasks[h]}) \in Nat /\ Cardinality(Served(o)) \in Nat
    BY <1>1, FS_Subset, FS_CardinalityType
  <1>3. Cardinality(Served(o)) <= SlotLimit[o] /\ SlotLimit[o] \in Int
    BY LimitTypes DEF SlotInv, NoLimit
  <1> QED
    BY <1>2, <1>3

----------------------------------------------------------------------------
(* The tokens: what a counter and the corrections that came too late hold   *)
(* together backs what every operation of the window may still give back.   *)

\* Every non-empty set of natural numbers has a least element.
LEMMA LeastNat ==
    ASSUME NEW S \in SUBSET Nat, S # {}
    PROVE  Min(S) \in S /\ \A y \in S : Min(S) <= y
  <1> PICK top \in S : TRUE
    OBVIOUS
  <1> DEFINE F == {x \in S : x <= top}
             HasLeast == {T \in SUBSET F : T = {} \/ \E m \in T : \A y \in T : m <= y}
  <1>1. IsFiniteSet(F)
    <2>1. \A x \in S : x <= top => x \in 0..top
      OBVIOUS
    <2>2. IsFiniteSet(0..top)
      BY FS_Interval
    <2> QED
      BY <2>1, <2>2, FS_Subset, F \subseteq 0..top
  <1>2. ASSUME NEW T \in SUBSET F, \A U \in SUBSET T : U # T => U \in HasLeast PROVE T \in HasLeast
    <2> SUFFICES ASSUME T # {} PROVE \E m \in T : \A y \in T : m <= y
      OBVIOUS
    <2> PICK x \in T : TRUE
      OBVIOUS
    <2>1. T \ {x} \in HasLeast
      BY <1>2
    <2>2. CASE T \ {x} = {}
      <3>1. \A y \in T : x <= y
        BY <2>2
      <3> QED
        BY <3>1
    <2>3. CASE \E m \in T \ {x} : \A y \in T \ {x} : m <= y
      <3> PICK m \in T \ {x} : \A y \in T \ {x} : m <= y
        BY <2>3
      <3>1. (\A y \in T : m <= y) \/ (\A y \in T : x <= y)
        OBVIOUS
      <3> QED
        BY <3>1
    <2> QED
      BY <2>1, <2>2, <2>3
  <1>3. F \in HasLeast
    <2> HIDE DEF HasLeast, F
    <2> QED
      BY <1>1, <1>2, FiniteInduction
  <1>4. top \in F
    OBVIOUS
  <1>5. PICK m \in F : \A y \in F : m <= y
    BY <1>3, <1>4
  <1>6. m \in S /\ \A y \in S : m <= y
    BY <1>5
  <1> QED
    BY <1>6 DEF Min

\* An operation counts for no more than it asked for, nor than it turns out to use
LEMMA CountsLess ==
    ASSUME NEW h \in Operations
    PROVE  /\ Counts(h) \in Nat /\ Counts(h) <= Tokens[h]
           /\ h \in Billed => \A n \in Actual : Counts(h) <= n
  <1>1. Tokens[h] \in Nat /\ Actual \subseteq Nat
    BY LimitTypes
  <1>2. CASE h \in Billed
    <2> DEFINE S == Actual \cup {Tokens[h]}
    <2>1. S \in SUBSET Nat /\ S # {}
      BY <1>1
    <2>2. Min(S) \in S /\ \A y \in S : Min(S) <= y
      <3> HIDE DEF S
      <3> QED
        BY <2>1, LeastNat
    <2>3. Counts(h) = Min(S)
      BY <1>2 DEF Counts
    <2> QED
      BY <1>1, <2>2, <2>3
  <1>3. CASE h \notin Billed
    BY <1>1, <1>3 DEF Counts
  <1> QED
    BY <1>2, <1>3

\* Until its tokens of o were corrected, an operation may give back all of them
Ripe(h, o) == at[h] \in {"asks", "refused"} \/ (at[h] = "finish" /\ o \in taken[h])
\* What an operation backs of the counter, and what it counts for; the
\* counter covers the first, and the limit the second
Backing(h, o) == IF h \notin window[o] THEN 0 ELSE IF Ripe(h, o) THEN Tokens[h] ELSE Counts(h)
Asked(h, o) == IF h \in window[o] THEN Counts(h) ELSE 0
Backed(o) == SumFunctionOnSet([h \in Operations |-> Backing(h, o)], Operations) <= Value(o) + late[o]
Capped(o) == TokenLimit[o] # NoLimit =>
    SumFunctionOnSet([h \in Operations |-> Asked(h, o)], Operations) <= TokenLimit[o] + late[o]

\* The type invariant of the counters
TokenTypes ==
    /\ at \in [Operations -> Places] /\ taken \in [Operations -> SUBSET Owners]
    /\ counter \in [Owners -> Nat \cup {Gone}] /\ late \in [Owners -> Nat]
    /\ window \in [Owners -> SUBSET Operations]
\* The inductive invariant of the counters
TokenInv == TokenTypes /\ \A o \in Owners : Backed(o) /\ Capped(o)

\* Both are numbers
BackingOK == \A h \in Operations, o \in Owners :
    Backing(h, o) \in Nat /\ Asked(h, o) \in Nat /\ Asked(h, o) <= Backing(h, o)

\* What an operation backs is at least what it counts for
LEMMA BackingTypes == TokenTypes => BackingOK
  <1> SUFFICES ASSUME TokenTypes, NEW h \in Operations, NEW o \in Owners
               PROVE  Backing(h, o) \in Nat /\ Asked(h, o) \in Nat /\ Asked(h, o) <= Backing(h, o)
    BY DEF BackingOK
  <1>1. Counts(h) \in Nat /\ Counts(h) <= Tokens[h] /\ Tokens[h] \in Nat
    BY CountsLess, LimitTypes
  <1> QED
    BY <1>1 DEF Backing, Asked

\* A counter goes on backing its window if it changes by d or more and only
\* one operation needs d more than before
LEMMA BackedMoves ==
    ASSUME TokenInv, BackingOK, BackingOK', NEW o \in Owners, NEW h \in Operations, NEW d \in Int,
           Value(o) + late[o] + d <= (Value(o) + late[o])', (Value(o) + late[o])' \in Int, Value(o) + late[o] \in Int,
           \A x \in Operations \ {h} : Backing(x, o)' <= Backing(x, o),
           Backing(h, o)' <= Backing(h, o) + d
    PROVE  Backed(o)'
  <1> DEFINE f == [x \in Operations |-> Backing(x, o)]
             g == [x \in Operations |-> Backing(x, o)']
             m == [x \in Operations |-> IF x = h THEN Backing(h, o) + d ELSE Backing(x, o)]
  <1>1. \A x \in Operations : f[x] \in Int /\ m[x] \in Int /\ g[x] \in Int /\ g[x] <= m[x]
    BY DEF BackingOK
  <1>2. m[h] - f[h] = d /\ \A x \in Operations \ {h} : m[x] = f[x]
    BY DEF BackingOK
  <1>3. IsFiniteSet(Operations)
    BY LimitTypes
  <1>4. SumFunctionOnSet(f, Operations) <= Value(o) + late[o]
    BY DEF TokenInv, Backed
  <1> SUFFICES SumFunctionOnSet(g, Operations) <= (Value(o) + late[o])'
    BY DEF Backed
  <1> HIDE DEF f, g, m
  <1>5. SumFunctionOnSet(m, Operations) = SumFunctionOnSet(f, Operations) + (m[h] - f[h])
    <2>1. \A x \in Operations \ {h} : f[x] \in Int /\ m[x] = f[x]
      BY <1>1, <1>2
    <2>2. f[h] \in Int /\ m[h] \in Int
      BY <1>1
    <2> QED
      BY <1>3, <2>1, <2>2, SumChange
  <1>6. SumFunctionOnSet(g, Operations) <= SumFunctionOnSet(m, Operations)
    BY <1>1, <1>3, SumMonotone
  <1>7. SumFunctionOnSet(g, Operations) \in Int /\ SumFunctionOnSet(f, Operations) \in Int
    BY <1>1, <1>3, SumType
  <1> QED
    BY <1>2, <1>4, <1>5, <1>6, <1>7

\* A limit goes on holding if nothing is added to its window
LEMMA CappedStays ==
    ASSUME TokenInv, BackingOK, BackingOK', NEW o \in Owners, late[o] <= late'[o], late'[o] \in Nat, late[o] \in Nat,
           \A x \in Operations : Asked(x, o)' <= Asked(x, o)
    PROVE  Capped(o)'
  <1> DEFINE f == [x \in Operations |-> Asked(x, o)]
             g == [x \in Operations |-> Asked(x, o)']
  <1> SUFFICES ASSUME TokenLimit[o] # NoLimit PROVE SumFunctionOnSet(g, Operations) <= TokenLimit[o] + late'[o]
    BY DEF Capped
  <1>1. \A x \in Operations : f[x] \in Int /\ g[x] \in Int /\ g[x] <= f[x]
    BY DEF BackingOK
  <1>2. SumFunctionOnSet(f, Operations) <= TokenLimit[o] + late[o] /\ TokenLimit[o] \in Nat
    BY LimitTypes DEF TokenInv, Capped
  <1> HIDE DEF f, g
  <1>3. SumFunctionOnSet(g, Operations) <= SumFunctionOnSet(f, Operations)
    BY <1>1, LimitTypes, SumMonotone
  <1>4. SumFunctionOnSet(g, Operations) \in Int /\ SumFunctionOnSet(f, Operations) \in Int
    BY <1>1, LimitTypes, SumType
  <1> QED
    BY <1>2, <1>3, <1>4

\* ... and it holds if it is a limit on what is backed.
LEMMA CappedByBacking ==
    ASSUME TokenTypes', BackingOK', NEW o \in Owners, Backed(o)', TokenLimit[o] # NoLimit => Value(o)' <= TokenLimit[o]
    PROVE  Capped(o)'
  <1> DEFINE f == [x \in Operations |-> Backing(x, o)']
             g == [x \in Operations |-> Asked(x, o)']
  <1> SUFFICES ASSUME TokenLimit[o] # NoLimit PROVE SumFunctionOnSet(g, Operations) <= TokenLimit[o] + late'[o]
    BY DEF Capped
  <1>1. \A x \in Operations : f[x] \in Int /\ g[x] \in Int /\ g[x] <= f[x]
    BY DEF BackingOK
  <1>2. SumFunctionOnSet(f, Operations) <= Value(o)' + late'[o]
    BY DEF Backed
  <1>3. Value(o)' \in Int /\ late'[o] \in Int /\ TokenLimit[o] \in Nat
    BY LimitTypes DEF TokenTypes, Value, Gone
  <1> HIDE DEF f, g
  <1>4. SumFunctionOnSet(g, Operations) <= SumFunctionOnSet(f, Operations)
    BY <1>1, LimitTypes, SumMonotone
  <1>5. SumFunctionOnSet(g, Operations) \in Int /\ SumFunctionOnSet(f, Operations) \in Int
    BY <1>1, LimitTypes, SumType
  <1> QED
    BY <1>2, <1>3, <1>4, <1>5

\* An operation backs no more than before unless it joins the window or it
\* is again one that may give back all
LEMMA LessBacking ==
    ASSUME TokenInv, TokenTypes', NEW x \in Operations, NEW o \in Owners,
           x \in window'[o] => x \in window[o], Ripe(x, o)' => Ripe(x, o)
    PROVE  Backing(x, o)' <= Backing(x, o) + 0 /\ Backing(x, o)' <= Backing(x, o) /\ Asked(x, o)' <= Asked(x, o)
  <1>1. Counts(x)' = Counts(x) /\ Counts(x) \in Nat /\ Counts(x) <= Tokens[x] /\ Tokens[x] \in Nat
    BY CountsLess, LimitTypes DEF Counts
  <1> QED
    BY <1>1 DEF Backing, Asked

\* An owner whose counter and window stay, of whom no operation may give
\* back what it might not before
LEMMA OwnerStays ==
    ASSUME TokenInv, TokenTypes', NEW o \in Owners,
           counter'[o] = counter[o], late'[o] = late[o], window'[o] = window[o],
           \A x \in Operations : Ripe(x, o)' => Ripe(x, o)
    PROVE  Backed(o)' /\ Capped(o)'
  <1>1. BackingOK /\ BackingOK'
    BY BackingTypes, PTL DEF TokenInv
  <1>2. Value(o)' = Value(o) /\ Value(o) \in Nat /\ late[o] \in Nat
    BY DEF TokenInv, TokenTypes, Value, Gone
  <1>3. \A x \in Operations : Backing(x, o)' <= Backing(x, o) + 0 /\ Backing(x, o)' <= Backing(x, o) /\ Asked(x, o)' <= Asked(x, o)
    BY LessBacking
  <1>4. Capped(o)'
    BY <1>1, <1>2, <1>3, CappedStays
  <1>5. CASE Operations = {}
    <2> DEFINE g == [x \in Operations |-> Backing(x, o)']
    <2>1. SumFunctionOnSet(g, Operations) = 0
      BY <1>5, LimitTypes, SumZero
    <2>2. Backed(o)'
      BY <1>2, <2>1 DEF Backed
    <2> QED
      BY <1>4, <2>2
  <1>6. CASE Operations # {}
    <2> PICK h \in Operations : TRUE
      BY <1>6
    <2>1. Value(o) + late[o] + 0 <= (Value(o) + late[o])' /\ (Value(o) + late[o])' \in Int /\ Value(o) + late[o] \in Int
      BY <1>2
    <2>2. Backed(o)'
      BY <1>1, <1>3, <2>1, BackedMoves
    <2> QED
      BY <1>4, <2>2
  <1> QED
    BY <1>4, <1>5, <1>6

\* The actions, one after the other: what changes no counter,
LEMMA QuietTokens ==
    ASSUME TokenInv, at' \in [Operations -> Places], taken' \in [Operations -> SUBSET Owners],
           UNCHANGED <<counter, late, window>>,
           \A x \in Operations, o \in Owners : Ripe(x, o)' => Ripe(x, o)
    PROVE  TokenInv'
  <1>1. TokenTypes'
    BY DEF TokenInv, TokenTypes
  <1> QED
    BY <1>1, OwnerStays DEF TokenInv

\* tokens that are reserved: INCRBY, and the check of what it answers,
LEMMA ReserveTokensStep ==
    ASSUME TokenInv, NEW h \in Operations, NEW o \in Owners, ReserveTokens(h, o) PROVE TokenInv'
  <1>1. /\ at[h] = "asks" /\ at' \in {at, [at EXCEPT ![h] = "refused"]}
        /\ taken' \in {taken, [taken EXCEPT ![h] = @ \cup {o}]} /\ UNCHANGED late
    BY DEF ReserveTokens, Asks, Advance, Goto
  <1>2. at' \in [Operations -> Places] /\ taken' \in [Operations -> SUBSET Owners]
    BY <1>1 DEF TokenInv, TokenTypes, Places
  <1>3. \A x \in Operations, p \in Owners : Ripe(x, p)' => Ripe(x, p)
    BY <1>1 DEF Ripe, TokenInv, TokenTypes
  <1>4. /\ Value(o) \in Nat /\ Tokens[h] \in Nat /\ late[o] \in Nat
        /\ \A p \in Owners : counter[p] \in Nat \cup {Gone}
    BY LimitTypes DEF Value, TokenInv, TokenTypes
  <1>5. CASE UNCHANGED <<counter, window>>
    BY <1>1, <1>2, <1>3, <1>5, QuietTokens
  <1>6. CASE UNCHANGED window /\ counter' = [counter EXCEPT ![o] = Value(o)]
    <2>1. TokenTypes'
      BY <1>1, <1>2, <1>4, <1>6 DEF TokenInv, TokenTypes
    <2>2. \A p \in Owners \ {o} : counter'[p] = counter[p]
      BY <1>6 DEF TokenInv, TokenTypes
    <2>3. \A p \in Owners \ {o} : Backed(p)' /\ Capped(p)'
      BY <1>1, <1>3, <1>6, <2>1, <2>2, OwnerStays
    <2>4. BackingOK /\ BackingOK'
      BY <2>1, BackingTypes, PTL DEF TokenInv
    <2>5. counter'[o] = Value(o) /\ Value(o)' = Value(o)
      BY <1>4, <1>6 DEF TokenInv, TokenTypes, Value, Gone
    <2>6. \A x \in Operations : Backing(x, o)' <= Backing(x, o) + 0 /\ Backing(x, o)' <= Backing(x, o) /\ Asked(x, o)' <= Asked(x, o)
      BY <1>3, <1>6, LessBacking, <2>1
    <2>7. Value(o) + late[o] + 0 <= (Value(o) + late[o])' /\ (Value(o) + late[o])' \in Int /\ Value(o) + late[o] \in Int
      BY <1>1, <1>4, <2>5
    <2>8. Backed(o)'
      BY <2>4, <2>6, <2>7, BackedMoves
    <2>9. Capped(o)'
      BY <1>1, <1>4, <2>4, <2>6, CappedStays
    <2> QED
      BY <2>1, <2>3, <2>8, <2>9 DEF TokenInv
  <1>7. CASE /\ counter' = [counter EXCEPT ![o] = Value(o) + Tokens[h]]
             /\ window' = [window EXCEPT ![o] = @ \cup {h}]
             /\ TokenLimit[o] # NoLimit /\ Value(o) + Tokens[h] <= TokenLimit[o]
    <2>1. TokenTypes'
      BY <1>1, <1>2, <1>4, <1>7 DEF TokenInv, TokenTypes
    <2>2. \A p \in Owners \ {o} : counter'[p] = counter[p] /\ window'[p] = window[p]
      BY <1>7 DEF TokenInv, TokenTypes
    <2>3. \A p \in Owners \ {o} : Backed(p)' /\ Capped(p)'
      BY <1>1, <1>3, <2>1, <2>2, OwnerStays
    <2>4. BackingOK /\ BackingOK'
      BY <2>1, BackingTypes, PTL DEF TokenInv
    <2>5. counter'[o] = Value(o) + Tokens[h] /\ Value(o)' = Value(o) + Tokens[h] /\ window'[o] = window[o] \cup {h}
      BY <1>4, <1>7 DEF TokenInv, TokenTypes, Value, Gone
    <2>6. \A x \in Operations \ {h} : Backing(x, o)' <= Backing(x, o)
      BY <1>3, <2>5, LessBacking, <2>1
    <2>7. Backing(h, o)' <= Backing(h, o) + Tokens[h]
      <3>1. Backing(h, o) >= 0 /\ Backing(h, o) \in Int
        BY <2>4 DEF BackingOK
      <3>2. Counts(h)' = Counts(h) /\ Counts(h) \in Nat /\ Counts(h) <= Tokens[h]
        BY CountsLess DEF Counts
      <3>3. Backing(h, o)' \in {Tokens[h], Counts(h)'}
        BY <2>5 DEF Backing
      <3> QED
        BY <1>4, <3>1, <3>2, <3>3
    <2>8. /\ Value(o) + late[o] + Tokens[h] <= (Value(o) + late[o])' 
          /\ (Value(o) + late[o])' \in Int /\ Value(o) + late[o] \in Int /\ Tokens[h] \in Int
      BY <1>1, <1>4, <2>5
    <2>9. Backed(o)'
      BY <2>4, <2>6, <2>7, <2>8, BackedMoves
    <2>10. Capped(o)'
      BY <1>7, <2>1, <2>4, <2>5, <2>9, CappedByBacking
    <2> QED
      BY <2>1, <2>3, <2>9, <2>10 DEF TokenInv
  <1> QED
    BY <1>5, <1>6, <1>7 DEF ReserveTokens
\* What GiveBack does to the counter of o, with the tokens that h backs
LEMMA CorrectBacks ==
    ASSUME TokenInv, NEW h \in Operations, NEW o \in Owners, NEW d \in Int, Correct(h, o, d)
    PROVE  /\ counter' \in [Owners -> Nat \cup {Gone}] /\ late' \in [Owners -> Nat] /\ late[o] <= late'[o]
           /\ \A p \in Owners \ {o} : counter'[p] = counter[p] /\ late'[p] = late[p]
           /\ Value(o) + late[o] + (IF d < 0 /\ h \in window[o] THEN d ELSE 0) <= (Value(o) + late[o])'
  <1>1. counter \in [Owners -> Nat \cup {Gone}] /\ late \in [Owners -> Nat]
    BY DEF TokenInv, TokenTypes
  <1>2. /\ counter'[o] = IF counter[o] = Gone \/ d = 0 THEN counter[o]
                         ELSE IF counter[o] + d <= 0 THEN Gone ELSE counter[o] + d
        /\ late'[o] = IF h \notin window[o] /\ counter[o] # Gone /\ d < 0 THEN late[o] - d ELSE late[o]
        /\ \A p \in Owners \ {o} : counter'[p] = counter[p] /\ late'[p] = late[p]
    BY <1>1 DEF Correct
  <1>3. counter'[o] \in Nat \cup {Gone} /\ late'[o] \in Nat /\ late[o] <= late'[o]
    BY <1>1, <1>2
  <1>4. counter' \in [Owners -> Nat \cup {Gone}] /\ late' \in [Owners -> Nat]
    BY <1>1, <1>3 DEF Correct
  <1>5. Value(o) + late[o] + (IF d < 0 /\ h \in window[o] THEN d ELSE 0) <= (Value(o) + late[o])'
    <2>1. CASE counter[o] = Gone
      BY <1>1, <1>2, <2>1 DEF Value
    <2>2. CASE counter[o] # Gone
      BY <1>1, <1>2, <2>2 DEF Value, Gone
    <2> QED
      BY <2>1, <2>2
  <1> QED
    BY <1>2, <1>3, <1>4, <1>5

\* those that are given back or corrected,
LEMMA GiveBackStep ==
    ASSUME TokenInv, NEW h \in Operations, NEW o \in Owners, GiveBack(h, o) PROVE TokenInv'
  <1>1. at[h] \in {"refused", "finish"} /\ o \in taken[h]
    BY DEF GiveBack
  <1>2. CASE UNCHANGED <<counter, spans, late, window>>
    <2>1. /\ at' \in {at, [at EXCEPT ![h] = "over"]}
          /\ taken' \in {[taken EXCEPT ![h] = @ \ {o}], [taken EXCEPT ![h] = {}]}
      BY <1>1, <1>2 DEF GiveBack, Goto
    <2>2. at' \in [Operations -> Places] /\ taken' \in [Operations -> SUBSET Owners]
      BY <2>1 DEF TokenInv, TokenTypes, Places
    <2>3. \A x \in Operations, p \in Owners : Ripe(x, p)' => Ripe(x, p)
      BY <1>1, <2>1 DEF Ripe, TokenInv, TokenTypes
    <2> QED
      BY <1>2, <2>2, <2>3, QuietTokens
  <1>3. ASSUME NEW n \in IF at[h] = "refused" THEN {0} ELSE Actual,
               Correct(h, o, IF at[h] = "refused" \/ h \in Billed THEN n - Tokens[h] ELSE 0),
               taken' = [taken EXCEPT ![h] = @ \ {o}], UNCHANGED at,
               window' = IF at[h] = "refused" THEN [window EXCEPT ![o] = @ \ {h}] ELSE window
        PROVE  TokenInv'
    <2> DEFINE d == IF at[h] = "refused" \/ h \in Billed THEN n - Tokens[h] ELSE 0
               m == IF d < 0 /\ h \in window[o] THEN d ELSE 0
    <2>1. n \in Nat /\ Tokens[h] \in Nat /\ d \in Int /\ m \in Int
      BY LimitTypes
    <2>2. /\ counter' \in [Owners -> Nat \cup {Gone}] /\ late' \in [Owners -> Nat] /\ late[o] <= late'[o]
          /\ \A p \in Owners \ {o} : counter'[p] = counter[p] /\ late'[p] = late[p]
          /\ Value(o) + late[o] + m <= (Value(o) + late[o])'
      BY <1>3, <2>1, CorrectBacks
    <2>3. /\ window' \in [Owners -> SUBSET Operations]
          /\ \A p \in Owners \ {o} : window'[p] = window[p]
          /\ window'[o] = IF at[h] = "refused" THEN window[o] \ {h} ELSE window[o]
          /\ taken' \in [Operations -> SUBSET Owners] /\ o \notin taken'[h]
      BY <1>3 DEF TokenInv, TokenTypes
    <2>4. TokenTypes'
      BY <1>3, <2>2, <2>3 DEF TokenInv, TokenTypes
    <2>5. \A x \in Operations, p \in Owners : Ripe(x, p)' => Ripe(x, p)
      BY <1>3 DEF Ripe, TokenInv, TokenTypes
    <2>6. \A p \in Owners \ {o} : Backed(p)' /\ Capped(p)'
      BY <2>2, <2>3, <2>4, <2>5, OwnerStays
    <2>7. BackingOK /\ BackingOK'
      BY <2>4, BackingTypes, PTL DEF TokenInv
    <2>8. \A x \in Operations : Backing(x, o)' <= Backing(x, o) /\ Asked(x, o)' <= Asked(x, o)
      BY <2>3, <2>4, <2>5, LessBacking
    <2>9. Backing(h, o)' <= Backing(h, o) + m
      <3>1. /\ Counts(h)' = Counts(h) /\ Counts(h) \in Nat /\ Counts(h) <= Tokens[h]
            /\ h \in Billed => \A k \in Actual : Counts(h) <= k
            /\ h \notin Billed => Counts(h) = Tokens[h]
        BY CountsLess DEF Counts
      <3>2. CASE h \notin window[o]
        BY <2>3, <3>2 DEF Backing
      <3>3. CASE h \in window[o] /\ at[h] = "refused"
        <4>1. Backing(h, o) = Tokens[h] /\ Backing(h, o)' = 0 /\ n = 0
          BY <1>3, <2>3, <3>3 DEF Backing, Ripe
        <4> QED
          BY <2>1, <3>3, <4>1
      <3>4. CASE h \in window[o] /\ at[h] = "finish"
        <4>1. Backing(h, o) = Tokens[h] /\ Backing(h, o)' = Counts(h) /\ n \in Actual
          BY <1>1, <1>3, <2>3, <3>1, <3>4 DEF Backing, Ripe
        <4> QED
          BY <2>1, <3>1, <3>4, <4>1
      <3> QED
        BY <1>1, <3>2, <3>3, <3>4
    <2>10. (Value(o) + late[o])' \in Int /\ Value(o) + late[o] \in Int /\ late[o] \in Nat /\ late'[o] \in Nat
      BY <2>4 DEF TokenInv, TokenTypes, Value
    <2> HIDE DEF d, m
    <2>11. Backed(o)'
      <3>1. \A x \in Operations \ {h} : Backing(x, o)' <= Backing(x, o)
        BY <2>8
      <3> QED
        BY <2>1, <2>2, <2>7, <2>9, <2>10, <3>1, BackedMoves
    <2>12. Capped(o)'
      BY <2>2, <2>7, <2>8, <2>10, CappedStays
    <2> QED
      BY <2>4, <2>6, <2>11, <2>12 DEF TokenInv
  <1> QED
    BY <1>2, <1>3 DEF GiveBack
\* a window that ends,
LEMMA WindowStep ==
    ASSUME TokenInv, NEW o \in Owners, Window(o) PROVE TokenInv'
  <1>1. /\ counter' = [counter EXCEPT ![o] = Gone] /\ window' = [window EXCEPT ![o] = {}]
        /\ late' = [late EXCEPT ![o] = 0] /\ UNCHANGED <<at, taken>>
    BY DEF Window
  <1>2. TokenTypes'
    BY <1>1 DEF TokenInv, TokenTypes
  <1>3. \A p \in Owners \ {o} : counter'[p] = counter[p] /\ late'[p] = late[p] /\ window'[p] = window[p]
    BY <1>1 DEF TokenInv, TokenTypes
  <1>4. \A x \in Operations, p \in Owners : Ripe(x, p)' => Ripe(x, p)
    BY <1>1 DEF Ripe
  <1>5. \A p \in Owners \ {o} : Backed(p)' /\ Capped(p)'
    BY <1>2, <1>3, <1>4, OwnerStays
  <1>6. counter'[o] = Gone /\ window'[o] = {} /\ late'[o] = 0
    BY <1>1 DEF TokenInv, TokenTypes
  <1>7. Backed(o)'
    <2> DEFINE g == [x \in Operations |-> Backing(x, o)']
    <2>1. SumFunctionOnSet(g, Operations) = 0
      BY <1>6, LimitTypes, SumZero DEF Backing
    <2> QED
      BY <1>6, <2>1 DEF Backed, Value
  <1>8. BackingOK'
    BY <1>2, BackingTypes, PTL
  <1>9. Value(o)' = 0
    BY <1>6 DEF Value
  <1>10. Capped(o)'
    BY <1>2, <1>7, <1>8, <1>9, LimitTypes, CappedByBacking
  <1> QED
    BY <1>2, <1>5, <1>7, <1>10 DEF TokenInv

\* Places an operation goes to where it may give back no more than before
LEMMA MovesTokens ==
    ASSUME TokenInv, NEW h \in Operations, UNCHANGED <<taken, counter, late, window>>,
           \/ UNCHANGED at
           \/ \E place \in Places : /\ at' = [at EXCEPT ![h] = place]
                                   /\ \/ place = "over"
                                      \/ at[h] = "asks" /\ place \in {"refused", "finish"}
    PROVE  TokenInv'
  <1>1. at' \in [Operations -> Places] /\ taken' \in [Operations -> SUBSET Owners]
    BY DEF TokenInv, TokenTypes
  <1>2. \A x \in Operations, p \in Owners : Ripe(x, p)' => Ripe(x, p)
    BY DEF Ripe, TokenInv, TokenTypes
  <1> QED
    BY <1>1, <1>2, QuietTokens

\* and a worker that exits.
LEMMA CrashTokens ==
    ASSUME TokenInv, NEW w \in Workers, Crash(w) PROVE TokenInv'
  <1>1. /\ \A x \in Operations : at'[x] \in {at[x], "dead"}
        /\ at' \in [Operations -> Places] /\ UNCHANGED <<taken, counter, late, window>>
    BY DEF Crash, TokenInv, TokenTypes, Places
  <1>2. \A x \in Operations, p \in Owners : Ripe(x, p)' => Ripe(x, p)
    BY <1>1 DEF Ripe
  <1>3. taken' \in [Operations -> SUBSET Owners]
    BY <1>1 DEF TokenInv, TokenTypes
  <1> QED
    BY <1>1, <1>2, <1>3, QuietTokens

\* Every step keeps it.
LEMMA TokenStep == TokenInv /\ [NextLimits]_limitVars => TokenInv'
  <1> SUFFICES ASSUME TokenInv, [NextLimits]_limitVars PROVE TokenInv'
    OBVIOUS
  <1>1. ASSUME NEW h \in Operations, Operate(h) PROVE TokenInv'
    <2>1. ASSUME NEW o \in Owners, AcquireSlot(h, o) PROVE TokenInv'
      <3>1. at[h] = "asks" /\ at' \in {at, [at EXCEPT ![h] = "refused"]} /\ UNCHANGED <<taken, counter, late, window>>
        BY <2>1 DEF AcquireSlot, Asks, Goto, Advance
      <3> QED
        BY <3>1, MovesTokens DEF Places
    <2>2. ASSUME NEW o \in Owners, FreeSlot(h, o) PROVE TokenInv'
      <3>1. at' \in {at, [at EXCEPT ![h] = "over"]} /\ UNCHANGED <<taken, counter, late, window>>
        BY <2>2 DEF FreeSlot, Goto
      <3> QED
        BY <3>1, MovesTokens DEF Places
    <2>3. CASE Leave(h)
      BY <2>3, MovesTokens DEF Leave, Goto, Places
    <2> QED
      BY <1>1, <2>1, <2>2, <2>3, ReserveTokensStep, GiveBackStep DEF Operate
  <1>2. ASSUME NEW h \in Operations, Finish(h) PROVE TokenInv'
    BY <1>2, MovesTokens DEF Finish, Running, Goto, Places
  <1>3. CASE Renew
    BY <1>3, MovesTokens DEF Renew, Refresh
  <1>4. CASE Tick \/ UNCHANGED limitVars
    <2>1. UNCHANGED <<at, taken, counter, late, window>>
      BY <1>4 DEF Tick, limitVars
    <2>2. at' \in [Operations -> Places] /\ taken' \in [Operations -> SUBSET Owners]
      BY <2>1 DEF TokenInv, TokenTypes
    <2>3. \A x \in Operations, p \in Owners : Ripe(x, p)' => Ripe(x, p)
      BY <2>1 DEF Ripe
    <2> QED
      BY <2>1, <2>2, <2>3, QuietTokens
  <1> QED
    BY <1>1, <1>2, <1>3, <1>4, WindowStep, CrashTokens DEF NextLimits

\* Nothing is counted.
LEMMA TokenInit == InitLimits => TokenInv
  <1> SUFFICES ASSUME InitLimits PROVE TokenInv
    OBVIOUS
  <1>1. TokenTypes
    BY DEF InitLimits, TokenTypes, Places
  <1>2. ASSUME NEW o \in Owners PROVE Backed(o) /\ Capped(o)
    <2>1. Value(o) = 0 /\ late[o] = 0 /\ window[o] = {}
      BY <1>2 DEF InitLimits, Value
    <2>2. SumFunctionOnSet([x \in Operations |-> Backing(x, o)], Operations) = 0
      BY <2>1, LimitTypes, SumZero DEF Backing
    <2>3. SumFunctionOnSet([x \in Operations |-> Asked(x, o)], Operations) = 0
      BY <2>1, LimitTypes, SumZero DEF Asked
    <2>4. Capped(o)
      <3> SUFFICES ASSUME TokenLimit[o] # NoLimit PROVE 0 <= TokenLimit[o] + 0
        BY <2>1, <2>3 DEF Capped
      <3> QED
        BY LimitTypes
    <2> QED
      BY <2>1, <2>2, <2>4 DEF Backed
  <1> QED
    BY <1>1, <1>2 DEF TokenInv

\* So no more tokens are counted than the limit, but for late corrections.
LEMMA TokensAreBounded == TokenInv => TokensBounded
  <1> SUFFICES ASSUME TokenInv, NEW o \in Owners, TokenLimit[o] # NoLimit
               PROVE  SumFunctionOnSet([h \in Operations |-> Counts(h)], Uses(o)) <= TokenLimit[o] + late[o]
    BY DEF TokensBounded
  <1> DEFINE f == [h \in Operations |-> Counts(h)]
             g == [h \in Operations |-> IF h \in window[o] THEN f[h] ELSE 0]
             a == [h \in Operations |-> Asked(h, o)]
             W == window[o]
             U == Uses(o)
  <1>1. IsFiniteSet(Operations) /\ W \in SUBSET Operations /\ U \in SUBSET W
    BY LimitTypes DEF TokenInv, TokenTypes, Uses
  <1>2. \A h \in W : f[h] \in Nat /\ f[h] \in Int
    BY <1>1, CountsLess
  <1>3. SumFunctionOnSet(a, Operations) <= TokenLimit[o] + late[o]
    BY DEF TokenInv, Capped
  <1>4. g = a
    BY DEF Asked
  <1>5. late[o] \in Nat /\ TokenLimit[o] \in Nat
    BY LimitTypes DEF TokenInv, TokenTypes
  <1>6. IsFiniteSet(W)
    BY <1>1, FS_Subset
  <1>7. g = [h \in Operations |-> IF h \in W THEN f[h] ELSE 0]
    OBVIOUS
  <1> HIDE DEF f, g, a, W, U
  <1>8. SumFunctionOnSet(f, U) <= SumFunctionOnSet(f, W)
    BY <1>1, <1>2, <1>6, SumSubset
  <1>9. SumFunctionOnSet(f, W) = SumFunctionOnSet(g, Operations)
    BY <1>1, <1>2, <1>7, SumWhere
  <1>10. SumFunctionOnSet(f, U) \in Int /\ SumFunctionOnSet(f, W) \in Int
    <2>1. IsFiniteSet(U) /\ \A h \in U : f[h] \in Int
      BY <1>1, <1>2, <1>6, FS_Subset
    <2> QED
      BY <1>2, <1>6, <2>1, SumType
  <1>11. SumFunctionOnSet(f, U) <= TokenLimit[o] + late[o]
    BY <1>3, <1>4, <1>5, <1>8, <1>9, <1>10
  <1> QED
    BY <1>11 DEF f, U

\* At every owner no more tasks serve than its limit of concurrency, and the
\* tokens of a window stay within its limit, if the clocks of the workers are
\* close (services/concurrency.py, services/rate_limit.py).
THEOREM LimitsAreKept ==
    ASSUME Synchronous
    PROVE  SpecLimits => []LimitsHold
  <1>1. InitLimits => SlotInv /\ TokenInv
    BY SlotInit, TokenInit
  <1>2. SlotInv /\ TokenInv /\ [NextLimits]_limitVars => (SlotInv /\ TokenInv)'
    BY SlotStep, TokenStep
  <1>3. SlotInv /\ TokenInv => LimitsHold
    BY SlotsAreBounded, TokensAreBounded DEF LimitsHold
  <1> QED
    BY <1>1, <1>2, <1>3, PTL DEF SpecLimits


----------------------------------------------------------------------------
(* Routing: what was read of a channel's health is true of it for as long   *)
(* as the health did not change, and the first target is the primary model. *)

\* Entries of a plan
PlanEntries == {Entry(ch, k) : ch \in Channels, k \in Models}

\* The type invariant
RouteTypes ==
    /\ up \in [Channels -> BOOLEAN] /\ steady \subseteq Channels
    /\ targets \in Seq(Models) /\ plan \in Seq(PlanEntries)

\* While the candidates of a target are read
ReadOK ==
    /\ targets # <<>>
    /\ unread \subseteq Candidates(Head(targets)) /\ good \subseteq Candidates(Head(targets)) \ unread
    /\ \A ch \in Candidates(Head(targets)) \ unread : ch \in steady => (ch \in good <=> up[ch])

\* Only the first target is the primary model
PrimaryFirst ==
    /\ \A i \in 2..Len(targets) : targets[i] # Primary
    /\ targets # <<>> /\ Head(targets) = Primary => plan = <<>>

\* The inductive invariant
RouteInv ==
    /\ RouteTypes /\ PrimaryFirst
    /\ phase = "start" => plan = <<>>
    /\ phase = "reading" => ReadOK

\* What the assumption says of the constants.
LEMMA RoutingFacts ==
    /\ IsFiniteSet(Channels) /\ Primary \in Models /\ Fallbacks[Primary] \in Seq(Models)
    /\ \A i \in 1..Len(Fallbacks[Primary]) : Fallbacks[Primary][i] # Primary
    /\ \A k : Candidates(k) \subseteq Channels /\ IsFiniteSet(Candidates(k))
    /\ \A k, ch : ch \in Candidates(k) => k \in Models
  <1>1. Primary \in Models
    BY RoutingAssumption DEF Primary
  <1>2. Fallbacks[Primary] \in Seq(Models) /\ IsFiniteSet(Channels)
    BY <1>1, RoutingAssumption
  <1>3. \A k : Candidates(k) \subseteq Channels
    BY DEF Candidates
  <1>4. \A k : IsFiniteSet(Candidates(k))
    BY <1>2, <1>3, FS_Subset
  <1>5. \A k, ch : ch \in Candidates(k) => k \in Models
    BY RoutingAssumption DEF Candidates
  <1>6. \A i \in 1..Len(Fallbacks[Primary]) : Fallbacks[Primary][i] # Primary
    BY <1>1, <1>2, RoutingAssumption
  <1> QED
    BY <1>1, <1>2, <1>3, <1>4, <1>5, <1>6

\* The elements of a tuple
Elements(t) == {t[i] : i \in DOMAIN t}

\* An order of a set has its elements and no others.
LEMMA OrderedAll ==
    ASSUME NEW S, IsFiniteSet(S), NEW s \in Ordered(S)
    PROVE  /\ s \in [1..Cardinality(S) -> S] /\ Cardinality(S) \in Nat
           /\ Elements(s) = S
  <1> DEFINE n == Cardinality(S)
  <1>1. s \in [1..n -> S] /\ \A i, j \in 1..n : i # j => s[i] # s[j]
    BY DEF Ordered, SetToSeqs
  <1>2. n \in Nat
    BY FS_CardinalityType
  <1>3. IsFiniteSet(1..n) /\ Cardinality(1..n) = n
    BY <1>2, FS_Interval
  <1> HIDE DEF n
  <1>4. s \in Injection(1..n, S)
    BY <1>1, Fun_IsInj
  <1>5. s \in Surjection(1..n, S)
    BY <1>3, <1>4, FS_Injection DEF n
  <1>6. \A ch \in S : \E i \in 1..n : s[i] = ch
    BY <1>5 DEF Surjection
  <1>7. Elements(s) = S
    BY <1>1, <1>6 DEF Elements
  <1> QED
    BY <1>1, <1>2, <1>7 DEF n

\* Promotion keeps what is in the order, and puts the session's channel first.
LEMMA Promoted ==
    ASSUME NEW S, NEW n \in Nat, NEW s \in [1..n -> S]
    PROVE  /\ Promote(s) \in [1..n -> S]
           /\ Elements(Promote(s)) = Elements(s)
           /\ bound \in Elements(s) => Promote(s)[1] = bound
  <1>1. CASE ~\E i \in 1..n : s[i] = bound
    BY <1>1 DEF Promote, Elements
  <1>2. CASE \E i \in 1..n : s[i] = bound
    <2> DEFINE k == CHOOSE i \in DOMAIN s : s[i] = bound
               t == [i \in DOMAIN s |-> IF i = 1 THEN bound ELSE IF i <= k THEN s[i - 1] ELSE s[i]]
    <2>1. k \in 1..n /\ s[k] = bound /\ DOMAIN s = 1..n
      BY <1>2
    <2>2. Promote(s) = t
      BY <1>2 DEF Promote
    <2> HIDE DEF k
    <2>3. t \in [1..n -> S] /\ t[1] = bound
      BY <2>1
    <2>4. ASSUME NEW i \in 1..n PROVE \E j \in 1..n : t[j] = s[i]
      <3>1. CASE i = k
        BY <2>1, <2>3, <3>1
      <3>2. CASE i < k
        <4>1. i + 1 \in 1..n /\ t[i + 1] = s[i]
          BY <2>1, <3>2
        <4> QED
          BY <4>1
      <3>3. CASE i > k
        <4>1. t[i] = s[i]
          BY <2>1, <3>3
        <4> QED
          BY <4>1
      <3> QED
        BY <2>1, <3>1, <3>2, <3>3
    <2>5. ASSUME NEW i \in 1..n PROVE \E j \in 1..n : s[j] = t[i]
      <3>1. CASE i = 1
        BY <2>1, <3>1
      <3>2. CASE i # 1 /\ i <= k
        <4>1. i - 1 \in 1..n /\ t[i] = s[i - 1]
          BY <2>1, <3>2
        <4> QED
          BY <4>1
      <3>3. CASE i # 1 /\ ~(i <= k)
        BY <2>1, <3>3
      <3> QED
        BY <3>1, <3>2, <3>3
    <2> HIDE DEF t
    <2>6. Elements(t) = Elements(s)
      <3>1. DOMAIN t = 1..n /\ DOMAIN s = 1..n
        BY <2>3
      <3>2. \A ch \in Elements(t) : ch \in Elements(s)
        BY <2>5, <3>1 DEF Elements
      <3>3. \A ch \in Elements(s) : ch \in Elements(t)
        BY <2>4, <3>1 DEF Elements
      <3> QED
        BY <3>2, <3>3
    <2> QED
      BY <2>2, <2>3, <2>6
  <1> QED
    BY <1>1, <1>2
\* The channels that a target adds to the plan
Joined == {plan'[i].channel : i \in Len(plan) + 1 .. Len(plan')}

\* A target adds its channels to the plan, and no others.
LEMMA PlanGrows ==
    ASSUME RouteTypes, NEW m \in Models, NEW n \in Nat, NEW s \in [1..n -> Channels],
           plan' = plan \o [i \in DOMAIN s |-> Entry(s[i], m)]
    PROVE  /\ plan' \in Seq(PlanEntries)
           /\ Joined = Elements(s)
           /\ plan = <<>> /\ n > 0 => plan'[1].channel = s[1]
  <1> DEFINE places == [i \in DOMAIN s |-> Entry(s[i], m)]
  <1>1. places \in [1..n -> PlanEntries] /\ \A i \in 1..n : places[i].channel = s[i]
    BY DEF PlanEntries, Entry
  <1>2. places \in Seq(PlanEntries) /\ Len(places) = n /\ plan \in Seq(PlanEntries) /\ Len(plan) \in Nat
    BY <1>1 DEF RouteTypes
  <1> HIDE DEF places
  <1>3. /\ plan' \in Seq(PlanEntries) /\ Len(plan') = Len(plan) + n
        /\ \A i \in 1..n : plan'[Len(plan) + i] = places[i]
    <2>1. plan' = plan \o places
      BY DEF places
    <2>2. \A i \in 1..n : Len(plan) + i \in 1..Len(plan) + n /\ ~(Len(plan) + i <= Len(plan)) /\ Len(plan) + i - Len(plan) = i
      BY <1>2
    <2>3. /\ plan' \in Seq(PlanEntries) /\ Len(plan') = Len(plan) + Len(places)
          /\ \A i \in 1..Len(plan) + Len(places) : plan'[i] = IF i <= Len(plan) THEN plan[i] ELSE places[i - Len(plan)]
      BY <1>2, <2>1, ConcatProperties, ZenonT(60)
    <2>4. ASSUME NEW i \in 1..n PROVE plan'[Len(plan) + i] = places[i]
      <3> DEFINE j == Len(plan) + i
      <3>1. j \in 1..Len(plan) + Len(places) /\ ~(j <= Len(plan)) /\ j - Len(plan) = i
        BY <1>2, <2>2
      <3> HIDE DEF j
      <3>2. plan'[j] = places[j - Len(plan)]
        BY <2>3, <3>1
      <3> QED
        BY <3>1, <3>2 DEF j
    <2> QED
      BY <1>2, <2>3, <2>4
  <1>4. ASSUME NEW ch PROVE ch \in Joined <=> \E i \in 1..n : s[i] = ch
    <2>1. ASSUME NEW i \in 1..n, s[i] = ch PROVE ch \in Joined
      <3>1. Len(plan) + i \in Len(plan) + 1 .. Len(plan') /\ plan'[Len(plan) + i].channel = ch
        BY <1>1, <1>2, <1>3, <2>1
      <3> QED
        BY <3>1 DEF Joined
    <2>2. ASSUME ch \in Joined PROVE \E i \in 1..n : s[i] = ch
      <3> PICK j \in Len(plan) + 1 .. Len(plan') : plan'[j].channel = ch
        BY <2>2 DEF Joined
      <3> DEFINE i == j - Len(plan)
      <3>1. i \in 1..n /\ j = Len(plan) + i
        BY <1>2, <1>3
      <3>2. s[i] = ch
        BY <1>1, <1>3, <3>1
      <3> QED
        BY <3>1, <3>2
    <2> QED
      BY <2>1, <2>2
  <1>5. plan = <<>> /\ n > 0 => plan'[1].channel = s[1]
    BY <1>1, <1>2, <1>3
  <1>6. Joined = Elements(s)
    BY <1>4 DEF Elements
  <1> QED
    BY <1>3, <1>5, <1>6

\* Of the candidates of a target, those that stayed up, and those that stayed
\* down
StayedUp == {ch \in Candidates(Head(targets)) : ch \in steady /\ up[ch]}
StayedDown == {ch \in Candidates(Head(targets)) : ch \in steady /\ ~up[ch]}
\* What a target may add to the plan
PlanSound ==
    /\ StayedUp \subseteq Joined /\ Joined \subseteq Candidates(Head(targets))
    /\ Joined \cap StayedDown # {} => StayedUp = {} /\ Cardinality(Joined) = 1
    /\ Head(targets) = Primary /\ bound \in StayedUp => plan'[1].channel = bound

\* And no other is added.
LEMMA CloseSound ==
    ASSUME RouteInv, CloseTarget
    PROVE  PlanSound /\ plan' \in Seq(PlanEntries)
  <1> DEFINE m == Head(targets)
             C == Candidates(m)
  <1>1. phase = "reading" /\ unread = {} /\ targets # <<>>
    BY DEF CloseTarget, RouteInv, ReadOK
  <1>2. /\ good \subseteq C /\ \A ch \in C : ch \in steady => (ch \in good <=> up[ch])
        /\ IsFiniteSet(C) /\ C \subseteq Channels /\ RouteTypes
    BY <1>1, RoutingFacts DEF RouteInv, ReadOK
  <1>3. StayedUp \subseteq good /\ StayedDown \cap good = {} /\ StayedUp \subseteq C /\ StayedDown \subseteq C
    BY <1>2 DEF StayedUp, StayedDown
  <1>4. CASE C = {} /\ UNCHANGED plan
    <2>1. Len(plan) \in Nat /\ plan \in Seq(PlanEntries)
      BY <1>2 DEF RouteTypes
    <2>2. Joined = {}
      BY <1>4, <2>1 DEF Joined
    <2> QED
      BY <1>3, <1>4, <2>1, <2>2 DEF PlanSound
  <1>5. ASSUME NEW t \in Routed(m), plan' = plan \o [i \in DOMAIN t |-> Entry(t[i], m)] \/ plan' = plan \o [i \in DOMAIN Promote(t) |-> Entry(Promote(t)[i], m)],
               m = Primary => plan' = plan \o [i \in DOMAIN Promote(t) |-> Entry(Promote(t)[i], m)]
        PROVE  PlanSound /\ plan' \in Seq(PlanEntries)
    <2>1. CASE good = {}
      <3> PICK ch \in Top(C) : t = <<ch>>
        BY <1>5, <2>1 DEF Routed
      <3>1. ch \in C /\ ch \in Channels /\ m \in Models
        BY <1>2, RoutingFacts DEF Top
      <3>2. t \in [1..1 -> Channels] /\ t[1] = ch
        BY <3>1
      <3>3. Promote(t) \in [1..1 -> Channels] /\ Elements(Promote(t)) = Elements(t)
        BY <3>2, Promoted
      <3>4. plan' \in Seq(PlanEntries) /\ Joined = Elements(t)
        BY <1>2, <1>5, <3>1, <3>2, <3>3, PlanGrows
      <3>5. Joined = {ch}
        BY <3>2, <3>4 DEF Elements
      <3>6. Cardinality(Joined) = 1
        BY <3>5, FS_Singleton
      <3>7. StayedUp = {}
        BY <1>3, <2>1
      <3> QED
        BY <3>1, <3>4, <3>5, <3>6, <3>7 DEF PlanSound
    <2>2. CASE good # {}
      <3> DEFINE n == Cardinality(good)
      <3>1. t \in Ordered(good) /\ IsFiniteSet(good)
        BY <1>2, <1>5, <2>2, FS_Subset DEF Routed
      <3>2. t \in [1..n -> good] /\ n \in Nat /\ Elements(t) = good
        BY <3>1, OrderedAll
      <3> HIDE DEF n
      <3>3. /\ Promote(t) \in [1..n -> good] /\ Elements(Promote(t)) = good
            /\ bound \in good => Promote(t)[1] = bound
        BY <3>2, Promoted
      <3>4. m \in Models /\ n # 0 /\ n > 0 /\ t \in [1..n -> Channels] /\ Promote(t) \in [1..n -> Channels]
        <4>1. n # 0
          <5>1. n = 0 => Elements(t) = {}
            BY <3>2 DEF Elements
          <5> QED
            BY <2>2, <3>2, <5>1
        <4>2. n > 0
          BY <3>2, <4>1
        <4>3. good \subseteq Channels /\ m \in Models
          BY <1>2, <2>2, RoutingFacts
        <4> QED
          BY <3>2, <3>3, <4>1, <4>2, <4>3
      <3>5. plan' \in Seq(PlanEntries) /\ Joined = Elements(t)
        BY <1>2, <1>5, <3>2, <3>3, <3>4, PlanGrows
      <3>6. Joined = good
        BY <3>2, <3>5
      <3>7. ASSUME m = Primary, bound \in StayedUp PROVE plan'[1].channel = bound
        <4>1. plan = <<>>
          BY <1>1, <3>7 DEF RouteInv, PrimaryFirst
        <4>2. plan' = plan \o [i \in DOMAIN Promote(t) |-> Entry(Promote(t)[i], m)]
          BY <1>5, <3>7
        <4>3. plan'[1].channel = Promote(t)[1]
          BY <1>2, <3>2, <3>4, <4>1, <4>2, PlanGrows
        <4> QED
          BY <1>3, <3>2, <3>3, <3>7, <4>3
      <3> QED
        BY <1>2, <1>3, <3>5, <3>6, <3>7 DEF PlanSound
    <2> QED
      BY <2>1, <2>2
  <1> QED
    BY <1>4, <1>5 DEF CloseTarget

\* Every step keeps the invariant.
LEMMA RouteStep == RouteInv /\ [NextRoute]_routeVars => RouteInv'
  <1> SUFFICES ASSUME RouteInv, [NextRoute]_routeVars PROVE RouteInv'
    OBVIOUS
  <1>1. Primary' = Primary /\ \A k : Candidates(k)' = Candidates(k)
    <2>1. downgraded' = downgraded
      BY DEF NextRoute, PlanRoute, ResolveTarget, ReadHealth, CloseTarget, TakeQuotes, Serve, Change, routeVars
    <2> QED
      BY <2>1 DEF Primary, Candidates
  <1>2. CASE PlanRoute
    <2>1. targets' \in Seq(Models) /\ targets' # <<>> /\ \A i \in 2..Len(targets') : targets'[i] # Primary
      <3>1. Fallbacks[Primary] \in Seq(Models) /\ <<Primary>> \in Seq(Models) /\ Len(Fallbacks[Primary]) \in Nat
        BY RoutingFacts
      <3>2. targets' = <<Primary>> \o Fallbacks[Primary]
        BY <1>2 DEF PlanRoute
      <3>3. Len(targets') = 1 + Len(Fallbacks[Primary]) /\ \A i \in 2..Len(targets') : targets'[i] = Fallbacks[Primary][i - 1]
        BY <3>1, <3>2
      <3>4. targets' \in Seq(Models) /\ targets' # <<>>
        BY <3>1, <3>2
      <3>5. ASSUME NEW i \in 2..Len(targets') PROVE targets'[i] # Primary
        <4>1. i - 1 \in 1..Len(Fallbacks[Primary])
          BY <3>1, <3>3
        <4> QED
          BY <3>3, <4>1, RoutingFacts
      <3> QED
        BY <3>4, <3>5
    <2> QED
      BY <1>1, <1>2, <2>1 DEF PlanRoute, RouteInv, RouteTypes, PrimaryFirst
  <1>3. ASSUME targets # <<>>, targets' = Tail(targets)
        PROVE  targets' \in Seq(Models) /\ PrimaryFirst'
    <2>1. targets \in Seq(Models) /\ \A i \in 2..Len(targets) : targets[i] # Primary
      BY DEF RouteInv, RouteTypes, PrimaryFirst
    <2>2. /\ targets' \in Seq(Models) /\ Len(targets') = Len(targets) - 1 /\ Len(targets) \in Nat
          /\ \A i \in 1..Len(targets') : targets'[i] = targets[i + 1]
      BY <1>3, <2>1
    <2>3. \A i \in 1..Len(targets') : targets'[i] # Primary'
      BY <1>1, <2>1, <2>2
    <2>4. targets' # <<>> => Head(targets') # Primary'
      BY <2>2, <2>3
    <2> QED
      BY <2>2, <2>3, <2>4 DEF PrimaryFirst
  <1>4. CASE ResolveTarget
    <2>1. CASE UNCHANGED targets /\ phase' = "reading" /\ unread' = Candidates(Head(targets)) /\ good' = {} /\ steady' = Channels
      <3>1. targets # <<>> /\ UNCHANGED <<up, plan>>
        BY <1>4 DEF ResolveTarget
      <3> QED
        BY <1>1, <2>1, <3>1 DEF RouteInv, RouteTypes, PrimaryFirst, ReadOK
    <2>2. CASE targets' = Tail(targets) /\ UNCHANGED <<unread, good, phase, steady>>
      <3>1. targets # <<>> /\ phase = "target" /\ UNCHANGED <<up, plan>>
        BY <1>4 DEF ResolveTarget
      <3> QED
        BY <1>3, <2>2, <3>1 DEF RouteInv, RouteTypes
    <2> QED
      BY <1>4, <2>1, <2>2 DEF ResolveTarget
  <1>5. CASE ReadHealth
    <2> PICK ch \in unread : /\ unread' = unread \ {ch}
                             /\ good' = IF up[ch] THEN good \cup {ch} ELSE good
      BY <1>5 DEF ReadHealth
    <2>1. phase = "reading" /\ UNCHANGED <<targets, phase, up, steady, plan>>
      BY <1>5 DEF ReadHealth
    <2>2. ReadOK'
      BY <1>1, <2>1 DEF RouteInv, ReadOK
    <2> QED
      BY <1>1, <2>1, <2>2 DEF RouteInv, RouteTypes, PrimaryFirst
  <1>6. CASE CloseTarget
    <2>1. phase' = "target" /\ targets' = Tail(targets) /\ UNCHANGED <<up, steady>> /\ targets # <<>>
      BY <1>6 DEF CloseTarget, RouteInv, ReadOK
    <2>2. plan' \in Seq(PlanEntries)
      BY <1>6, CloseSound
    <2> QED
      BY <1>3, <2>1, <2>2 DEF RouteInv, RouteTypes
  <1>7. CASE Change
    <2>1. /\ UNCHANGED <<targets, unread, good, plan, phase, bound>>
          /\ \/ UNCHANGED <<up, steady>>
             \/ \E ch \in Channels : up' = [up EXCEPT ![ch] = ~@] /\ steady' = steady \ {ch}
      BY <1>7 DEF Change
    <2>2. up' \in [Channels -> BOOLEAN] /\ steady' \subseteq Channels
      BY <2>1 DEF RouteInv, RouteTypes
    <2>3. \A ch \in Channels : ch \in steady' => ch \in steady /\ up'[ch] = up[ch]
      BY <2>1 DEF RouteInv, RouteTypes
    <2>4. phase = "reading" => ReadOK'
      BY <1>1, <2>1, <2>3, RoutingFacts DEF RouteInv, ReadOK
    <2> QED
      BY <1>1, <2>1, <2>2, <2>4 DEF RouteInv, RouteTypes, PrimaryFirst
  <1>8. CASE TakeQuotes \/ Serve \/ UNCHANGED routeVars
    <2>1. UNCHANGED <<targets, unread, good, plan, up, steady>> /\ (phase' = phase \/ phase' \notin {"start", "reading"})
      BY <1>8 DEF TakeQuotes, Serve, routeVars
    <2>2. phase = "reading" => ReadOK'
      BY <1>1, <2>1 DEF RouteInv, ReadOK
    <2> QED
      BY <1>1, <2>1, <2>2 DEF RouteInv, RouteTypes, PrimaryFirst
  <1> QED
    BY <1>2, <1>4, <1>5, <1>6, <1>7, <1>8 DEF NextRoute

\* No target was read.
LEMMA RouteInit == InitRoute => RouteInv
  BY DEF InitRoute, RouteInv, RouteTypes, PrimaryFirst

\* A plan has every candidate that stayed healthy, one that stayed unhealthy
\* only where there is no other, and begins with the channel of the session
\* (services/routing.py).
THEOREM RoutesAreSound == SpecRoute => RouteSound
  <1>1. ASSUME RouteInv, [NextRoute]_routeVars
        PROVE  [phase = "reading" /\ phase' = "target" => PlanSound]_routeVars
    <2>1. phase = "reading" /\ phase' = "target" => CloseTarget \/ UNCHANGED routeVars
      BY <1>1 DEF NextRoute, PlanRoute, ResolveTarget, ReadHealth, TakeQuotes, Serve, Change
    <2> QED
      BY <1>1, <2>1, CloseSound
  <1>2. (phase = "reading" /\ phase' = "target" => PlanSound) =>
        (phase = "reading" /\ phase' = "target" =>
          LET m == Head(targets)
              added == {plan'[i].channel : i \in Len(plan) + 1 .. Len(plan')}
              kept == {c \in Candidates(m) : c \in steady /\ up[c]}
              shut == {c \in Candidates(m) : c \in steady /\ ~up[c]}
          IN  /\ kept \subseteq added /\ added \subseteq Candidates(m)
              /\ added \cap shut # {} => kept = {} /\ Cardinality(added) = 1
              /\ m = Primary /\ bound \in kept => plan'[1].channel = bound)
    BY DEF PlanSound, Joined, StayedUp, StayedDown
  <1> QED
    BY <1>1, <1>2, RouteInit, RouteStep, PTL DEF SpecRoute, RouteSound


=============================================================================
