------------------------------ MODULE RowLocks ------------------------------
(***************************************************************************)
(* The rows that the transactions of the ledger and of its administration  *)
(* lock, in the order in which they lock them, until they commit: "Every   *)
(* path locks tenant -> key -> settlement" (services/settlements.py).  An  *)
(* UPDATE of several rows locks them by id.                                *)
(***************************************************************************)
EXTENDS Integers, Sequences, FiniteSets

CONSTANTS
    TenantRows, KeyRows,
    SettlementRows,     \* ids
    TenantOf,           \* [KeyRows -> TenantRows]
    KeyOf,              \* [SettlementRows -> KeyRows]
    Sessions            \* connections that run transactions

ASSUME LocksAssumption ==
    /\ SettlementRows \subseteq Nat /\ IsFiniteSet(SettlementRows)
    /\ TenantOf \in [KeyRows -> TenantRows] /\ KeyOf \in [SettlementRows -> KeyRows]
    /\ TenantRows \cap KeyRows = {} /\ (TenantRows \cup KeyRows) \cap SettlementRows = {}

VARIABLES
    program,     \* the rows a session's transaction locks, in order; none when it is idle
    locked       \* how many of them it has locked

lockVars == <<program, locked>>

AllRows == TenantRows \cup KeyRows \cup SettlementRows

----------------------------------------------------------------------------
(* What each transaction locks *)

\* reserve, apply, resolve
Accounting == {<<TenantOf[KeyOf[s]], KeyOf[s], s>> : s \in SettlementRows}

\* mark_pending, before_send, release, mark_uncertain, note_failure, retry
OneSettlement == {<<s>> : s \in SettlementRows}

\* recover_orphans: every reservation of the workers that exited, by id
TakingOver == {p \in UNION {[1..n -> SettlementRows] : n \in 1..Cardinality(SettlementRows)} :
                  \A i, j \in DOMAIN p : i < j => p[i] < p[j]}

\* Mutant of KeyChanges: the key found first is locked first
KeyFirst == {<<k, TenantOf[k]>> : k \in KeyRows} \cup {<<k>> : k \in KeyRows}

\* update_key and _create; revoke_key, the reset of a key
KeyChanges == {<<TenantOf[k], k>> : k \in KeyRows} \cup {<<k>> : k \in KeyRows}

\* adjust_quota, update_tenant, the reset of a tenant
TenantChanges == {<<t>> : t \in TenantRows}

Programs == Accounting \cup OneSettlement \cup TakingOver \cup KeyChanges \cup TenantChanges

----------------------------------------------------------------------------

Held(s) == {program[s][i] : i \in 1..locked[s]}
Waits(s) == locked[s] < Len(program[s])
Wanted(s) == program[s][locked[s] + 1]

InitLocks == program = [s \in Sessions |-> <<>>] /\ locked = [s \in Sessions |-> 0]

Begin(s) ==
    /\ program[s] = <<>> /\ \E p \in Programs : program' = [program EXCEPT ![s] = p]
    /\ UNCHANGED locked

LockRow(s) ==
    /\ Waits(s) /\ \A q \in Sessions \ {s} : Wanted(s) \notin Held(q)
    /\ locked' = [locked EXCEPT ![s] = locked[s] + 1]
    /\ UNCHANGED program

\* Commit, and a rollback at any point: a refusal, an error, a crash
End(s) ==
    /\ program[s] # <<>> /\ program' = [program EXCEPT ![s] = <<>>]
    /\ locked' = [locked EXCEPT ![s] = 0]

NextLocks == \E s \in Sessions : Begin(s) \/ LockRow(s) \/ End(s)

SpecLocks == InitLocks /\ [][NextLocks]_lockVars

----------------------------------------------------------------------------
(* Properties *)

TypeOKLocks ==
    /\ program \in [Sessions -> Programs \cup {<<>>}]
    /\ locked \in [Sessions -> Nat] /\ \A s \in Sessions : locked[s] <= Len(program[s])

\* A row is locked by one transaction at a time.
Exclusive == \A s, q \in Sessions : s # q => Held(s) \cap Held(q) = {}

\* No transactions wait for each other in a circle, however many there are: the
\* database never has to roll one of them back as a victim.
Blocked(S) == \A s \in S : Waits(s) /\ \E q \in S \ {s} : Wanted(s) \in Held(q)
NoDeadlock == \A S \in SUBSET Sessions : S # {} => ~Blocked(S)
=============================================================================
