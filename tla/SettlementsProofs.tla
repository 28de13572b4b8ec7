-------------------------- MODULE SettlementsProofs --------------------------
(***************************************************************************)
(* Proofs about Settlements: the types of its variables, what a row holds  *)
(* in each state, that no hold of work which reached the upstream is freed *)
(* without an operator, and that final rows stay final.                    *)
(*                                                                         *)
(* First the types (TypeStep, one step per action).  Then StepMoves reads  *)
(* off every action how it moves the row of each request (Effect), and all *)
(* that follows is about those moves: the invariant Inv, FinalRows, and in *)
(* LedgerProof the refinement.                                             *)
(***************************************************************************)
EXTENDS Settlements, TLAPS

\* The parts of the type invariant, as the proofs cite them
AccountsOK == total \in [Owners -> Int] /\ used \in [Owners -> Nat] /\ enabled \in [Owners -> BOOLEAN]
RowsOK == row \in [Requests -> Row]
HistOK == hist \in [Requests -> History]
MemoryOK ==
    /\ unsaved \in [Requests -> Entry] /\ todo \in [Requests -> Entry]
    /\ older \in [Requests -> SUBSET Requests]
PhaseOK == phase \in [Requests -> Phases] /\ bills \in [Requests -> 0..2] /\ faults \in Nat
WorkersOK ==
    /\ up \in [Workers -> BOOLEAN] /\ beating \in [Workers -> BOOLEAN]
    /\ loop \in [Workers -> Loops] /\ exited \in [Workers -> SUBSET Workers]

\* A note_failure in progress has read its row
NotingOK ==
    /\ noting \in [Actors -> Note \cup {NoNote}]
    /\ \A r \in Requests : phase[r] = "noting" => noting[r] \in Note
    /\ \A w \in Workers : loop[w] = "note" => noting[w] \in Note

TypeInv == AccountsOK /\ RowsOK /\ HistOK /\ MemoryOK /\ PhaseOK /\ WorkersOK /\ NotingOK

\* The parts of the type invariant the proofs carry imply TypeOK of the model.
LEMMA TypeInvTypeOK == TypeInv => TypeOK
  BY DEF TypeInv, TypeOK, AccountsOK, RowsOK, HistOK, MemoryOK, PhaseOK, WorkersOK, NotingOK

\* The row a reservation inserts is well typed.
LEMMA ReserveRows ==
    ASSUME RowsOK, NEW r \in Requests, NEW w \in Workers, NEW n \in Nat,
           row' = [row EXCEPT ![r] = [NoRow EXCEPT !.state = "reserved", !.occupied = n, !.owner = w]]
    PROVE  RowsOK'
  BY DEF RowsOK, Row, NoRow, States, Cost

\* Releasing or holding a reserved row keeps rows well typed.
LEMMA SetIfReservedRows ==
    ASSUME RowsOK, NEW r \in Requests, NEW state \in States, NEW n \in Nat, SetIfReserved(r, state, n)
    PROVE  RowsOK'
  BY DEF RowsOK, Row, SetIfReserved

\* mark_pending writes well-typed rows.
LEMMA MarkPendingRows ==
    ASSUME RowsOK, NEW r \in Requests, NEW c \in Cost, MarkPending(r, c)
    PROVE  RowsOK'
  BY ZenonT(60) DEF RowsOK, Row, MarkPending, States, Cost

\* apply writes well-typed rows.
LEMMA ApplyRows ==
    ASSUME RowsOK, NEW r \in Requests, Apply(r)
    PROVE  RowsOK'
  BY DEF RowsOK, Row, Apply, States

\* note_failure writes well-typed rows.
LEMMA NoteRows ==
    ASSUME RowsOK, NEW a, noting[a] \in Note, NoteFailure(a)
    PROVE  RowsOK'
  <1>1. noting[a].id \in Requests /\ noting[a].seen + 1 \in Nat
    BY DEF Note
  <1>2. ASSUME NEW r \in Requests, NEW n \in Nat,
               row' = [row EXCEPT ![r] = IF @.state = "pending"
                  THEN [@ EXCEPT !.attempts = n, !.state = IF n >= MaxAttempts THEN "failed" ELSE "pending"]
                  ELSE @]
        PROVE  RowsOK'
    BY <1>2, ZenonT(60) DEF RowsOK, Row, States
  <1> QED
    BY <1>1, <1>2 DEF NoteFailure

\* recover_orphans writes well-typed rows.
LEMMA TakeOverRows ==
    ASSUME RowsOK, NEW w, NEW d \in BOOLEAN, NEW s \in States, TakeOver(w, d, s)
    PROVE  RowsOK'
  BY ZenonT(60) DEF RowsOK, Row, TakeOver

\* The debits of apply leave the quota used a natural number.
LEMMA DebitUsed ==
    ASSUME RowsOK, AccountsOK, NEW r \in Requests, Payable(r), Apply(r), UNCHANGED <<total, enabled>>
    PROVE  AccountsOK'
  <1>1. row[r].cost \in Nat
    BY DEF RowsOK, Row, Cost, Payable
  <1> QED
    BY <1>1 DEF AccountsOK, Apply

\* Every cost a request may be billed is a cost of the cost column.
LEMMA CostTyped == Costs \cup {0} \subseteq Cost
  BY AmountAssumption DEF Cost

\* Putting usage in _unsaved keeps the worker's memory well typed.
LEMMA RememberTyped ==
    ASSUME MemoryOK, NEW r \in Requests, NEW c \in Cost, Remember(r, c)
    PROVE  MemoryOK'
  BY DEF MemoryOK, Remember, Entry, ServedBy

\* So does removing it.
LEMMA ForgetTyped ==
    ASSUME MemoryOK, NEW r \in Requests, Forget(r)
    PROVE  unsaved' \in [Requests -> Entry] /\ older' \in [Requests -> SUBSET Requests]
  BY DEF MemoryOK, Forget, Entry

\* persist_usage, in all its outcomes, keeps rows and memory well typed.
LEMMA PersistTyped ==
    ASSUME MemoryOK, RowsOK, NEW r \in Requests, NEW c \in Cost, PersistUsage(r, c)
    PROVE  MemoryOK' /\ RowsOK'
  <1>1. CASE Recordable(r) /\ MarkPending(r, c) /\ Forget(r) /\ UNCHANGED todo
    BY <1>1, MarkPendingRows, ForgetTyped DEF MemoryOK
  <1>2. CASE UNCHANGED row /\ Remember(r, c)
    BY <1>2, RememberTyped DEF RowsOK
  <1>3. CASE MarkPending(r, c) /\ Remember(r, c)
    BY <1>3, MarkPendingRows, RememberTyped
  <1> QED
    BY <1>1, <1>2, <1>3 DEF PersistUsage

\* ... and the count of faults a number.
LEMMA PersistFaults ==
    ASSUME faults \in Nat, NEW r \in Requests, NEW c \in Cost, PersistUsage(r, c)
    PROVE  faults' \in Nat
  BY DEF PersistUsage, Fault, NoFault

\* The entries a flush copies are entries.
LEMMA SnapshotTyped ==
    ASSUME MemoryOK, NEW w \in Workers, Snapshot(w), UNCHANGED <<unsaved, older>>
    PROVE  MemoryOK'
  BY DEF MemoryOK, Snapshot

\* ... and so are none of them.
LEMMA DropSnapshotTyped ==
    ASSUME MemoryOK, NEW w \in Workers, DropSnapshot(w)
    PROVE  todo' \in [Requests -> Entry]
  BY DEF MemoryOK, DropSnapshot, Entry

\* The end of a process leaves well-typed memory, phases, loops and notes.
LEMMA StopTyped ==
    ASSUME MemoryOK, PhaseOK, WorkersOK, NotingOK, NEW w \in Workers, Stop(w),
           beating' \in [Workers -> BOOLEAN]
    PROVE  MemoryOK' /\ PhaseOK' /\ WorkersOK' /\ NotingOK'
  <1>1. MemoryOK'
    BY DropSnapshotTyped DEF MemoryOK, Stop, Entry
  <1>2. PhaseOK'
    BY DEF PhaseOK, Stop, Phases, Serving
  <1>3. WorkersOK'
    BY DEF WorkersOK, Stop, Goto, Loops, Flushes
  <1>4. noting' \in [Actors -> Note \cup {NoNote}]
    BY DEF NotingOK, Stop
  <1>5. ASSUME NEW r \in Requests, phase'[r] = "noting" PROVE noting'[r] \in Note
    <2>1. phase[r] = "noting" /\ r \notin ServedBy(w)
      BY <1>5 DEF Stop, Serving, PhaseOK
    <2>2. r \in Actors /\ r # w
      BY ScopeAssumption DEF Actors
    <2> QED
      BY <2>1, <2>2 DEF Stop, NotingOK
  <1>6. ASSUME NEW v \in Workers, loop'[v] = "note" PROVE noting'[v] \in Note
    <2>1. v # w /\ loop[v] = "note"
      BY <1>6 DEF Stop, Goto, WorkersOK
    <2>2. v \in Actors /\ v \notin ServedBy(w)
      BY ScopeAssumption DEF Actors, ServedBy
    <2> QED
      BY <2>1, <2>2 DEF Stop, NotingOK
  <1> QED
    BY <1>1, <1>2, <1>3, <1>4, <1>5, <1>6 DEF NotingOK

\* The initial state is well typed.
LEMMA TypeInit == Init => TypeInv
  <1> SUFFICES ASSUME Init PROVE TypeInv
    OBVIOUS
  <1>1. AccountsOK
    BY AmountAssumption DEF Init, AccountsOK, Owners, Unlimited
  <1>2. RowsOK /\ HistOK
    BY NullAssumption DEF Init, RowsOK, HistOK, Row, NoRow, States, Cost, History
  <1>3. MemoryOK /\ PhaseOK /\ WorkersOK
    BY DEF Init, MemoryOK, PhaseOK, WorkersOK, Entry, Phases, Loops
  <1>4. NotingOK
    BY DEF Init, NotingOK
  <1> QED
    BY <1>1, <1>2, <1>3, <1>4 DEF TypeInv

\* Every step of every actor keeps the state well typed.
LEMMA TypeStep == TypeInv /\ [Next]_vars => TypeInv'
  <1> SUFFICES ASSUME TypeInv, [Next]_vars PROVE TypeInv'
    OBVIOUS
  <1> USE ScopeAssumption, AmountAssumption, BoundAssumption, NullAssumption
  <1> USE DEF TypeInv
  <1>1. ASSUME NEW r \in Requests, NEW w \in Accepting, NEW n \in Estimates, Reserve(r, w, n) PROVE TypeInv'
    <2>1. RowsOK'
      BY <1>1, ReserveRows DEF Reserve
    <2>2. HistOK'
      BY <1>1 DEF Reserve, History, HistOK
    <2>3. PhaseOK'
      BY <1>1 DEF Reserve, NoFault, Fault, PhaseOK, Phases, Serving
    <2>4. NotingOK'
      BY <1>1 DEF Reserve, NotingOK, PhaseOK, workers
    <2>5. AccountsOK' /\ MemoryOK' /\ WorkersOK'
      BY <1>1 DEF Reserve, AccountsOK, accounts, MemoryOK, memory, WorkersOK, workers
    <2> QED
      BY <2>1, <2>2, <2>3, <2>4, <2>5
  <1>2. ASSUME NEW r \in Requests, NEW w \in Accepting, NEW n \in Estimates, Deny(r, w, n) PROVE TypeInv'
    <2>1. PhaseOK'
      BY <1>2 DEF Deny, NoFault, Fault, PhaseOK, Phases, Serving
    <2>2. NotingOK'
      BY <1>2 DEF Deny, NotingOK, PhaseOK, workers
    <2>3. AccountsOK' /\ RowsOK' /\ HistOK' /\ MemoryOK' /\ WorkersOK'
      BY <1>2 DEF Deny, AccountsOK, accounts, RowsOK, HistOK, MemoryOK, memory, WorkersOK, workers
    <2> QED
      BY <2>1, <2>2, <2>3
  <1>3. ASSUME NEW r \in Requests, BeforeSend(r) PROVE TypeInv'
    <2>1. RowsOK'
      BY <1>3, ZenonT(60) DEF BeforeSend, Row, RowsOK
    <2>2. HistOK'
      <3>1. CASE UNCHANGED hist
        BY <3>1 DEF HistOK
      <3>2. CASE hist' = [hist EXCEPT ![r].reached = TRUE]
        BY <3>2 DEF History, HistOK
      <3> QED
        BY <1>3, <3>1, <3>2 DEF BeforeSend
    <2>3. PhaseOK'
      BY <1>3 DEF BeforeSend, NoFault, Fault, PhaseOK, Phases, Serving
    <2>4. NotingOK'
      BY <1>3 DEF BeforeSend, NotingOK, PhaseOK, workers
    <2>5. AccountsOK' /\ MemoryOK' /\ WorkersOK'
      BY <1>3 DEF BeforeSend, AccountsOK, accounts, MemoryOK, memory, WorkersOK, workers
    <2> QED
      BY <2>1, <2>2, <2>3, <2>4, <2>5
  <1>4. ASSUME NEW r \in Requests, RefuseSend(r) PROVE TypeInv'
    <2>1. PhaseOK'
      BY <1>4 DEF RefuseSend, NoFault, Fault, PhaseOK, Phases, Serving
    <2>2. NotingOK'
      BY <1>4 DEF RefuseSend, NotingOK, PhaseOK, workers
    <2>3. AccountsOK' /\ RowsOK' /\ HistOK' /\ MemoryOK' /\ WorkersOK'
      BY <1>4 DEF RefuseSend, AccountsOK, accounts, RowsOK, HistOK, MemoryOK, memory,
         WorkersOK, workers
    <2> QED
      BY <2>1, <2>2, <2>3
  <1>5. ASSUME NEW r \in Requests, ReleaseLease(r) PROVE TypeInv'
    <2>1. RowsOK'
      BY <1>5, SetIfReservedRows DEF ReleaseLease, States, RowsOK
    <2>2. PhaseOK'
      BY <1>5 DEF ReleaseLease, NoFault, Fault, PhaseOK, Phases, Serving
    <2>3. NotingOK'
      BY <1>5 DEF ReleaseLease, NotingOK, PhaseOK, workers
    <2>4. AccountsOK' /\ HistOK' /\ MemoryOK' /\ WorkersOK'
      BY <1>5 DEF ReleaseLease, AccountsOK, accounts, HistOK, MemoryOK, memory, WorkersOK, workers
    <2> QED
      BY <2>1, <2>2, <2>3, <2>4
  <1>6. ASSUME NEW r \in Requests, Abandon(r) PROVE TypeInv'
    <2>1. RowsOK'
      BY <1>6, SetIfReservedRows DEF Abandon, States, Row, RowsOK
    <2>2. PhaseOK'
      BY <1>6 DEF Abandon, NoFault, Fault, PhaseOK, Phases, Serving
    <2>3. NotingOK'
      BY <1>6 DEF Abandon, NotingOK, PhaseOK, workers
    <2>4. AccountsOK' /\ HistOK' /\ MemoryOK' /\ WorkersOK'
      BY <1>6 DEF Abandon, AccountsOK, accounts, HistOK, MemoryOK, memory, WorkersOK, workers
    <2> QED
      BY <2>1, <2>2, <2>3, <2>4
  <1>7. ASSUME NEW r \in Requests, NEW c \in Costs \cup {0}, Bill(r, c) PROVE TypeInv'
    <2>1. RowsOK' /\ MemoryOK'
      BY <1>7, CostTyped, PersistTyped DEF Bill
    <2>2. HistOK'
      BY <1>7, CostTyped DEF Bill, History, HistOK
    <2>3. PhaseOK'
      BY <1>7, CostTyped, PersistFaults DEF Bill, PhaseOK, Phases, Serving
    <2>4. NotingOK'
      BY <1>7 DEF Bill, NotingOK, PhaseOK, workers
    <2>5. AccountsOK' /\ WorkersOK'
      BY <1>7 DEF Bill, AccountsOK, accounts, WorkersOK, workers
    <2> QED
      BY <2>1, <2>2, <2>3, <2>4, <2>5
  <1>8. ASSUME NEW r \in Requests, BillAgain(r) PROVE TypeInv'
    <2>1. RowsOK' /\ MemoryOK'
      BY <1>8, CostTyped, PersistTyped DEF BillAgain
    <2>2. PhaseOK'
      BY <1>8, CostTyped, PersistFaults DEF BillAgain, PhaseOK, Phases, Serving
    <2>3. NotingOK'
      BY <1>8 DEF BillAgain, NotingOK, PhaseOK, workers
    <2>4. AccountsOK' /\ HistOK' /\ WorkersOK'
      BY <1>8 DEF BillAgain, AccountsOK, accounts, HistOK, WorkersOK, workers
    <2> QED
      BY <2>1, <2>2, <2>3, <2>4
  <1>9. ASSUME NEW r \in Requests, ApplyInRequest(r) PROVE TypeInv'
    <2>1. AccountsOK'
      <3>1. CASE Payable(r)
        BY <1>9, <3>1, DebitUsed DEF ApplyInRequest
      <3>2. CASE ~Payable(r)
        BY <1>9, <3>2 DEF ApplyInRequest, Apply, AccountsOK
      <3> QED
        BY <3>1, <3>2
    <2>2. RowsOK'
      BY <1>9, ApplyRows DEF ApplyInRequest
    <2>3. PhaseOK'
      BY <1>9 DEF ApplyInRequest, Raised, Fault, NoFault, PhaseOK, Phases, Serving
    <2>4. NotingOK'
      BY <1>9 DEF ApplyInRequest, Raised, NotingOK, PhaseOK, workers
    <2>5. HistOK' /\ MemoryOK' /\ WorkersOK'
      BY <1>9 DEF ApplyInRequest, HistOK, MemoryOK, memory, WorkersOK, workers
    <2> QED
      BY <2>1, <2>2, <2>3, <2>4, <2>5
  <1>10. ASSUME NEW r \in Requests, ApplyFails(r) PROVE TypeInv'
    <2>1. PhaseOK'
      BY <1>10 DEF ApplyFails, Raised, Fault, PhaseOK, Phases, Serving
    <2>2. NotingOK'
      <3>1. row[r].attempts \in Nat /\ r \in Actors /\ \A w \in Workers : w # r
        BY DEF RowsOK, Row, Actors
      <3>2. CASE noting' = [noting EXCEPT ![r] = [id |-> r, seen |-> row[r].attempts]]
        BY <1>10, <3>1, <3>2 DEF ApplyFails, NotingOK, Note, PhaseOK, workers
      <3>3. CASE UNCHANGED noting /\ phase' = [phase EXCEPT ![r] = "closed"]
        BY <1>10, <3>3 DEF ApplyFails, NotingOK, PhaseOK, workers
      <3>4. CASE UNCHANGED noting /\ phase' = [phase EXCEPT ![r] = Raised(r)]
        BY <1>10, <3>4 DEF ApplyFails, NotingOK, PhaseOK, workers, Raised
      <3> QED
        BY <1>10, <3>2, <3>3, <3>4 DEF ApplyFails
    <2>3. AccountsOK' /\ RowsOK' /\ HistOK' /\ MemoryOK' /\ WorkersOK'
      BY <1>10 DEF ApplyFails, AccountsOK, accounts, RowsOK, HistOK, MemoryOK, memory,
         WorkersOK, workers
    <2> QED
      BY <2>1, <2>2, <2>3
  <1>11. ASSUME NEW r \in Requests, NoteInRequest(r) PROVE TypeInv'
    <2>1. RowsOK'
      BY <1>11, NoteRows DEF NoteInRequest, NotingOK, RowsOK
    <2>2. PhaseOK'
      BY <1>11 DEF NoteInRequest, Raised, Fault, NoFault, PhaseOK, Phases, Serving
    <2>3. NotingOK'
      <3>1. r \in Actors /\ \A w \in Workers : w # r
        BY DEF Actors
      <3>2. noting' = [noting EXCEPT ![r] = NoNote] /\ UNCHANGED workers
        BY <1>11 DEF NoteInRequest, NoteFailure
      <3>3. \A q \in Requests : phase'[q] = "noting" => q # r /\ phase[q] = "noting"
        BY <1>11 DEF NoteInRequest, Raised, PhaseOK
      <3> QED
        BY <3>1, <3>2, <3>3 DEF NotingOK, workers
    <2>4. AccountsOK' /\ HistOK' /\ MemoryOK' /\ WorkersOK'
      BY <1>11 DEF NoteInRequest, AccountsOK, accounts, HistOK, MemoryOK, memory, WorkersOK, workers
    <2> QED
      BY <2>1, <2>2, <2>3, <2>4
  <1>12. ASSUME NEW r \in Requests, NEW c \in Costs \cup {0}, CutShort(r, c) PROVE TypeInv'
    <2>1. RowsOK'
      BY <1>12, CostTyped, MarkPendingRows DEF CutShort, RowsOK
    <2>2. HistOK'
      <3>1. CASE UNCHANGED hist
        BY <3>1 DEF HistOK
      <3>2. CASE hist' = [hist EXCEPT ![r].learned = c]
        BY <3>2, CostTyped DEF History, HistOK
      <3> QED
        BY <1>12, <3>1, <3>2 DEF CutShort
    <2>3. PhaseOK'
      BY <1>12 DEF CutShort, NoFault, Fault, PhaseOK, Phases, Serving
    <2>4. NotingOK'
      <3>1. r \in Actors /\ \A w \in Workers : w # r
        BY DEF Actors
      <3>2. noting' = [noting EXCEPT ![r] = NoNote] /\ UNCHANGED workers
        BY <1>12 DEF CutShort
      <3>3. \A q \in Requests : phase'[q] = "noting" => q # r /\ phase[q] = "noting"
        BY <1>12 DEF CutShort, PhaseOK
      <3> QED
        BY <3>1, <3>2, <3>3 DEF NotingOK, workers
    <2>5. AccountsOK' /\ MemoryOK' /\ WorkersOK'
      BY <1>12 DEF CutShort, AccountsOK, accounts, MemoryOK, memory, WorkersOK, workers
    <2> QED
      BY <2>1, <2>2, <2>3, <2>4, <2>5
  <1>13. ASSUME NEW w \in Workers, StartLoop(w) PROVE TypeInv'
    <2>1. MemoryOK'
      BY <1>13, SnapshotTyped DEF StartLoop
    <2>2. WorkersOK'
      BY <1>13 DEF StartLoop, WorkersOK, Goto, Loops, Flushes
    <2>3. NotingOK'
      BY <1>13 DEF StartLoop, NotingOK, WorkersOK, Goto
    <2>4. AccountsOK' /\ RowsOK' /\ HistOK' /\ PhaseOK'
      BY <1>13 DEF StartLoop, AccountsOK, accounts, RowsOK, HistOK, PhaseOK, NoFault
    <2> QED
      BY <2>1, <2>2, <2>3, <2>4
  <1>14. ASSUME NEW w \in Workers, FindOrphans(w) PROVE TypeInv'
    <2>1. MemoryOK'
      BY <1>14, SnapshotTyped DEF FindOrphans, MemoryOK
    <2>2. WorkersOK'
      <3>1. exited' \in [Workers -> SUBSET Workers]
        <4>1. CASE exited' = [exited EXCEPT ![w] = {}]
          BY <4>1 DEF WorkersOK
        <4>2. CASE exited' = [exited EXCEPT ![w] =
                {v \in Workers \ {w} : ~beating[v] /\ \E r \in ServedBy(v) : row[r].state = "reserved"}]
          BY <4>2 DEF WorkersOK
        <4> QED
          BY <1>14, <4>1, <4>2 DEF FindOrphans
      <3> QED
        BY <1>14, <3>1 DEF FindOrphans, WorkersOK, Goto, Loops, Flushes
    <2>3. NotingOK'
      BY <1>14 DEF FindOrphans, NotingOK, WorkersOK, Goto
    <2>4. AccountsOK' /\ RowsOK' /\ HistOK' /\ PhaseOK'
      BY <1>14 DEF FindOrphans, AccountsOK, accounts, RowsOK, HistOK, PhaseOK, NoFault, Fault
    <2> QED
      BY <2>1, <2>2, <2>3, <2>4
  <1>15. ASSUME NEW w \in Workers, ReleaseUndispatched(w) PROVE TypeInv'
    <2>1. RowsOK'
      BY <1>15, TakeOverRows DEF ReleaseUndispatched, States
    <2>2. WorkersOK'
      BY <1>15 DEF ReleaseUndispatched, WorkersOK, Goto, Loops, Flushes
    <2>3. NotingOK'
      BY <1>15 DEF ReleaseUndispatched, NotingOK, WorkersOK, Goto
    <2>4. AccountsOK' /\ HistOK' /\ MemoryOK' /\ PhaseOK'
      BY <1>15 DEF ReleaseUndispatched, AccountsOK, accounts, HistOK, MemoryOK, memory,
         PhaseOK, NoFault
    <2> QED
      BY <2>1, <2>2, <2>3, <2>4
  <1>16. ASSUME NEW w \in Workers, HoldDispatched(w) PROVE TypeInv'
    <2>1. RowsOK'
      BY <1>16, TakeOverRows DEF HoldDispatched, States
    <2>2. MemoryOK'
      BY <1>16, SnapshotTyped DEF HoldDispatched
    <2>3. WorkersOK'
      BY <1>16 DEF HoldDispatched, WorkersOK, Goto, Loops, Flushes
    <2>4. NotingOK'
      BY <1>16 DEF HoldDispatched, NotingOK, WorkersOK, Goto
    <2>5. AccountsOK' /\ HistOK' /\ PhaseOK'
      BY <1>16 DEF HoldDispatched, AccountsOK, accounts, HistOK, PhaseOK, NoFault
    <2> QED
      BY <2>1, <2>2, <2>3, <2>4, <2>5
  <1>17. ASSUME NEW w \in Workers, NoteInLoop(w) PROVE TypeInv'
    <2>1. RowsOK'
      BY <1>17, NoteRows DEF NoteInLoop, NotingOK, RowsOK
    <2>2. PhaseOK'
      BY <1>17 DEF NoteInLoop, NoFault, Fault, PhaseOK, Phases, Serving
    <2>3. WorkersOK'
      BY <1>17 DEF NoteInLoop, WorkersOK, Goto, Loops, Flushes
    <2>4. NotingOK'
      <3>1. w \in Actors /\ \A r \in Requests : w # r
        BY DEF Actors
      <3>2. noting' = [noting EXCEPT ![w] = NoNote] /\ UNCHANGED phase
        BY <1>17 DEF NoteInLoop, NoteFailure
      <3>3. \A v \in Workers : loop'[v] = "note" => v # w /\ loop[v] = "note"
        BY <1>17 DEF NoteInLoop, Goto, WorkersOK
      <3> QED
        BY <3>1, <3>2, <3>3 DEF NotingOK
    <2>5. AccountsOK' /\ HistOK' /\ MemoryOK'
      BY <1>17 DEF NoteInLoop, AccountsOK, accounts, HistOK, MemoryOK, memory
    <2> QED
      BY <2>1, <2>2, <2>3, <2>4, <2>5
  <1>18. ASSUME NEW w \in Workers, EndLoop(w) PROVE TypeInv'
    <2>1. PhaseOK'
      BY <1>18 DEF EndLoop, NoFault, Fault, PhaseOK, Phases, Serving
    <2>2. WorkersOK'
      BY <1>18 DEF EndLoop, WorkersOK, Goto, Loops, Flushes
    <2>3. NotingOK'
      BY <1>18 DEF EndLoop, NotingOK, WorkersOK, Goto
    <2>4. AccountsOK' /\ RowsOK' /\ HistOK' /\ MemoryOK'
      BY <1>18 DEF EndLoop, AccountsOK, accounts, RowsOK, HistOK, MemoryOK, memory
    <2> QED
      BY <2>1, <2>2, <2>3, <2>4
  <1>19. ASSUME NEW w \in Workers, NEW at \in {"sleep", "orphans", "recover"}, FlushDone(w, at) PROVE TypeInv'
    <2>1. WorkersOK'
      BY <1>19 DEF FlushDone, WorkersOK, Goto, Loops, Flushes
    <2>2. NotingOK'
      BY <1>19 DEF FlushDone, NotingOK, WorkersOK, Goto
    <2>3. AccountsOK' /\ RowsOK' /\ HistOK' /\ MemoryOK' /\ PhaseOK'
      BY <1>19 DEF FlushDone, AccountsOK, accounts, RowsOK, HistOK, MemoryOK, memory,
         PhaseOK, NoFault
    <2> QED
      BY <2>1, <2>2, <2>3
  <1>20. ASSUME NEW w \in Workers, NEW r \in Requests, FlushOne(w, r) PROVE TypeInv'
    <2>1. RowsOK'
      BY <1>20, MarkPendingRows DEF FlushOne, MemoryOK, Entry, RowsOK
    <2>2. MemoryOK'
      <3>1. CASE Forget(r) /\ todo' = [todo EXCEPT ![r] = Absent]
        BY <3>1, ForgetTyped DEF MemoryOK, Entry
      <3>2. CASE DropSnapshot(w) /\ UNCHANGED <<unsaved, older>>
        BY <3>2, DropSnapshotTyped DEF MemoryOK
      <3> QED
        BY <1>20, <3>1, <3>2 DEF FlushOne
    <2>3. PhaseOK'
      BY <1>20 DEF FlushOne, NoFault, Fault, PhaseOK, Phases, Serving
    <2>4. WorkersOK'
      BY <1>20 DEF FlushOne, WorkersOK, Goto, Loops, Flushes
    <2>5. NotingOK'
      BY <1>20 DEF FlushOne, NotingOK, WorkersOK, Goto
    <2>6. AccountsOK' /\ HistOK'
      BY <1>20 DEF FlushOne, AccountsOK, accounts, HistOK
    <2> QED
      BY <2>1, <2>2, <2>3, <2>4, <2>5, <2>6
  <1>21. ASSUME NEW w \in Workers, NEW r \in Requests, RecoverRow(w, r) PROVE TypeInv'
    <2>1. AccountsOK'
      BY <1>21, DebitUsed DEF RecoverRow, AccountsOK
    <2>2. RowsOK'
      BY <1>21, ApplyRows DEF RecoverRow, RowsOK
    <2>3. PhaseOK'
      BY <1>21 DEF RecoverRow, NoFault, Fault, PhaseOK, Phases, Serving
    <2>4. WorkersOK'
      BY <1>21 DEF RecoverRow, WorkersOK, Goto, Loops, Flushes
    <2>5. NotingOK'
      <3>1. w \in Actors /\ row[r].attempts \in Nat /\ \A q \in Requests : w # q
        BY DEF RowsOK, Row, Actors
      <3>2. CASE UNCHANGED <<loop, noting>>
        BY <1>21, <3>2 DEF RecoverRow, NotingOK
      <3>3. CASE noting' = [noting EXCEPT ![w] = [id |-> r, seen |-> row[r].attempts]] /\ Goto(w, "note")
        <4>1. [id |-> r, seen |-> row[r].attempts] \in Note
          BY <3>1 DEF Note
        <4>2. UNCHANGED phase
          BY <1>21 DEF RecoverRow
        <4>3. \A v \in Workers : loop'[v] = "note" => v = w \/ loop[v] = "note"
          BY <3>3 DEF Goto, WorkersOK
        <4> QED
          BY <3>1, <3>3, <4>1, <4>2, <4>3 DEF NotingOK
      <3> QED
        BY <1>21, <3>2, <3>3 DEF RecoverRow
    <2>6. HistOK' /\ MemoryOK'
      BY <1>21 DEF RecoverRow, HistOK, MemoryOK, memory
    <2> QED
      BY <2>1, <2>2, <2>3, <2>4, <2>5, <2>6
  <1>22. ASSUME NEW w \in Workers, Beat(w) PROVE TypeInv'
    <2>1. WorkersOK'
      BY <1>22 DEF Beat, WorkersOK, Goto, Loops, Flushes
    <2>2. NotingOK'
      BY <1>22 DEF Beat, NotingOK, WorkersOK, Goto
    <2>3. AccountsOK' /\ RowsOK' /\ HistOK' /\ MemoryOK' /\ PhaseOK'
      BY <1>22 DEF Beat, AccountsOK, accounts, RowsOK, HistOK, MemoryOK, memory, PhaseOK, NoFault
    <2> QED
      BY <2>1, <2>2, <2>3
  <1>23. ASSUME NEW w \in Workers, Lapse(w) PROVE TypeInv'
    <2>1. WorkersOK'
      BY <1>23 DEF Lapse, WorkersOK, Goto, Loops, Flushes
    <2>2. NotingOK'
      BY <1>23 DEF Lapse, NotingOK, WorkersOK, Goto
    <2>3. AccountsOK' /\ RowsOK' /\ HistOK' /\ MemoryOK' /\ PhaseOK'
      BY <1>23 DEF Lapse, AccountsOK, accounts, RowsOK, HistOK, MemoryOK, memory, PhaseOK, NoFault
    <2> QED
      BY <2>1, <2>2, <2>3
  <1>24. ASSUME NEW w \in Workers, Crash(w) PROVE TypeInv'
    <2>1. MemoryOK' /\ PhaseOK' /\ WorkersOK' /\ NotingOK'
      BY <1>24, StopTyped DEF Crash, WorkersOK
    <2>2. AccountsOK' /\ RowsOK' /\ HistOK'
      BY <1>24 DEF Crash, Stop, AccountsOK, accounts, RowsOK, HistOK
    <2> QED
      BY <2>1, <2>2
  <1>25. ASSUME NEW w \in Workers, Leave(w) PROVE TypeInv'
    <2>1. MemoryOK' /\ PhaseOK' /\ WorkersOK' /\ NotingOK'
      BY <1>25, StopTyped DEF Leave, WorkersOK
    <2>2. AccountsOK' /\ RowsOK' /\ HistOK'
      BY <1>25 DEF Leave, Stop, AccountsOK, accounts, RowsOK, HistOK
    <2> QED
      BY <2>1, <2>2
  <1>26. ASSUME NEW r \in Operated, Retry(r) PROVE TypeInv'
    <2>1. RowsOK'
      BY <1>26 DEF Retry, Row, States, RowsOK
    <2>2. AccountsOK' /\ HistOK' /\ MemoryOK' /\ PhaseOK' /\ WorkersOK' /\ NotingOK'
      BY <1>26 DEF Retry, AccountsOK, accounts, HistOK, MemoryOK, memory, PhaseOK, NoFault,
         WorkersOK, workers, NotingOK, workers
    <2> QED
      BY <2>1, <2>2
  <1>27. ASSUME NEW r \in Operated, ResolveRelease(r) PROVE TypeInv'
    <2>1. RowsOK'
      BY <1>27 DEF ResolveRelease, Row, States, RowsOK
    <2>2. HistOK'
      BY <1>27 DEF ResolveRelease, History, HistOK
    <2>3. AccountsOK' /\ MemoryOK' /\ PhaseOK' /\ WorkersOK' /\ NotingOK'
      BY <1>27 DEF ResolveRelease, AccountsOK, accounts, MemoryOK, memory, PhaseOK, NoFault,
         WorkersOK, workers, NotingOK, workers
    <2> QED
      BY <2>1, <2>2, <2>3
  <1>28. ASSUME NEW r \in Operated, ResolveCharge(r) PROVE TypeInv'
    <2>1. RowsOK'
      BY <1>28 DEF ResolveCharge, Row, States, Cost, RowsOK
    <2>2. HistOK'
      BY <1>28 DEF ResolveCharge, History, HistOK
    <2>3. AccountsOK' /\ MemoryOK' /\ PhaseOK' /\ WorkersOK' /\ NotingOK'
      BY <1>28 DEF ResolveCharge, AccountsOK, accounts, MemoryOK, memory, PhaseOK, NoFault,
         WorkersOK, workers, NotingOK, workers
    <2> QED
      BY <2>1, <2>2, <2>3
  <1>29. ASSUME NEW o \in Owners, NEW n \in Totals, SetTotal(o, n) PROVE TypeInv'
    <2>1. AccountsOK'
      BY <1>29 DEF SetTotal, AccountsOK, Unlimited
    <2>2. RowsOK' /\ HistOK' /\ MemoryOK' /\ PhaseOK' /\ WorkersOK' /\ NotingOK'
      BY <1>29 DEF SetTotal, RowsOK, HistOK, MemoryOK, memory, PhaseOK, NoFault, WorkersOK,
         workers, NotingOK, workers
    <2> QED
      BY <2>1, <2>2
  <1>30. ASSUME NEW o \in Switched, SetEnabled(o) PROVE TypeInv'
    <2>1. AccountsOK'
      BY <1>30 DEF SetEnabled, AccountsOK
    <2>2. RowsOK' /\ HistOK' /\ MemoryOK' /\ PhaseOK' /\ WorkersOK' /\ NotingOK'
      BY <1>30 DEF SetEnabled, RowsOK, HistOK, MemoryOK, memory, PhaseOK, NoFault,
         WorkersOK, workers, NotingOK, workers
    <2> QED
      BY <2>1, <2>2
  <1>31. CASE UNCHANGED vars
    BY <1>31 DEF vars, accounts, memory, workers, AccountsOK, RowsOK, HistOK, MemoryOK,
       PhaseOK, WorkersOK, NotingOK
  <1>32. ASSUME NEW r \in Requests, Refuse(r) PROVE TypeInv'
    <2>1. PhaseOK'
      BY <1>32 DEF Refuse, PhaseOK, Phases, Serving
    <2>2. NotingOK'
      BY <1>32 DEF Refuse, NotingOK, PhaseOK, workers
    <2> QED
      BY <1>32, <2>1, <2>2 DEF Refuse, AccountsOK, accounts, RowsOK, HistOK, MemoryOK, memory, WorkersOK, workers
  <1>33. QED
    BY <1>1, <1>2, <1>3, <1>4, <1>5, <1>6, <1>7, <1>8, <1>9, <1>10, <1>11, <1>12, <1>13,
       <1>14, <1>15, <1>16, <1>17, <1>18, <1>19, <1>20, <1>21, <1>22, <1>23, <1>24, <1>25,
       <1>26, <1>27, <1>28, <1>29, <1>30, <1>31, <1>32 DEF Next, Serve, Attend, Recovery, Sweep, Process, Operate

----------------------------------------------------------------------------
(* How a step may move the row of one request *)

\* The row of q has these columns now
Becomes(q, state, occupied, cost) ==
    /\ row'[q].state = state /\ row'[q].occupied = occupied /\ row'[q].cost = cost
    /\ row'[q].dispatched = row[q].dispatched

\* Nothing new is known of q but what was learned of its usage
SameHistory(q) ==
    /\ hist'[q].estimate = hist[q].estimate /\ hist'[q].reached = hist[q].reached
    /\ hist'[q].resolved = hist[q].resolved

\* ... without changing the request's place in the ledger
Stays(q) ==
    /\ SameHistory(q)
    /\ \/ row'[q] = row[q]
       \/ row[q].state = "reserved" /\ Becomes(q, "uncertain", row[q].occupied, row[q].cost)
       \/ row[q].state = "pending" /\ Becomes(q, "failed", row[q].occupied, row[q].cost)
       \/ row[q].state \in {"pending", "failed"} /\ Becomes(q, "pending", row[q].occupied, row[q].cost)
       \/ row[q].state \in {"reserved", "uncertain"} /\ Becomes(q, "pending", row[q].occupied, NoCost)

\* mark_dispatched
Sends(q) ==
    /\ phase[q] = "held" /\ row[q].state = "reserved"
    /\ row'[q] = [row[q] EXCEPT !.dispatched = TRUE]
    /\ hist'[q].estimate = hist[q].estimate /\ hist'[q].resolved = hist[q].resolved
    /\ hist'[q].reached => phase'[q] = "sent" \/ hist[q].reached

\* reserve
Opens(q) ==
    /\ phase[q] = "new"
    /\ Admits(q, hist'[q].estimate)
    /\ row'[q].state = "reserved" /\ row'[q].cost = NoCost /\ row'[q].occupied = hist'[q].estimate
    /\ hist'[q].reached = hist[q].reached

\* A bill, or the decision of an operator, gives the row the cost it will
\* settle for
Fills(q) ==
    \/ /\ row[q].state \in {"reserved", "uncertain"} /\ SameHistory(q)
       /\ \E c \in Nat : Becomes(q, "pending", c, c)
    \/ /\ row[q].state \in {"uncertain", "failed"} /\ row[q].cost = NoCost
       /\ Becomes(q, "pending", row[q].occupied, row[q].occupied)
       /\ hist'[q].estimate = hist[q].estimate /\ hist'[q].reached = hist[q].reached

\* apply
Settles(q) ==
    /\ row[q].state = "pending" /\ row[q].cost \in Nat
    /\ Becomes(q, "settled", 0, row[q].cost) /\ SameHistory(q)

\* release: of a row that was not sent, or by an operator
Frees(q) ==
    /\ Becomes(q, "released", 0, row[q].cost)
    /\ hist'[q].estimate = hist[q].estimate /\ hist'[q].reached = hist[q].reached
    /\ \/ row[q].state = "reserved" /\ ~hist[q].reached
       \/ row[q].state \in {"uncertain", "failed"} /\ hist'[q].resolved = "release"

\* A request that has not called its upstream: nothing held yet, or held but unsent
Unsent == {"new", "held", "refused"}
\* A request that has called its upstream is never again one that has not
PhaseMove(q) ==
    /\ phase'[q] \in Unsent => phase[q] \in Unsent
    /\ phase'[q] = "new" => phase[q] = "new"

\* Only r moves, and with its cost it debits its owners
OthersKeep(r) == \A q \in Requests \ {r} : row'[q] = row[q] /\ SameHistory(q)
Debits(r) == used' = [o \in Owners |-> IF o \in OwnersOf(r) THEN used[o] + row[r].cost ELSE used[o]]

\* Everything a step does to the rows, the used quota and the requests
Effect ==
    /\ \A q \in Requests : PhaseMove(q)
    /\ \/ UNCHANGED used /\ \A q \in Requests : Stays(q) \/ Frees(q)
       \/ \E r \in Requests :
            /\ OthersKeep(r)
            /\ \/ UNCHANGED used /\ (Sends(r) \/ (Opens(r) /\ phase'[r] # "new") \/ Fills(r))
               \/ Debits(r) /\ Settles(r)

\* A new request has no row; one that called its upstream has a dispatched row
LeaseOK == \A r \in Requests :
    /\ phase[r] = "new" => row[r] = NoRow
    /\ phase[r] \in Unsent => ~hist[r].reached
    /\ hist[r].reached => row[r].dispatched

\* The inductive invariant of the ledger
Inv == TypeInv /\ HoldMatchesState /\ LeaseOK /\ ReleasedUnsent

\* Releasing or holding moves one row, and only a reserved one.
LEMMA SetIfReservedMove ==
    ASSUME RowsOK, NEW r \in Requests, NEW state \in States, NEW n \in Nat, SetIfReserved(r, state, n)
    PROVE  /\ \A q \in Requests \ {r} : row'[q] = row[q]
           /\ row'[r] = row[r] \/ (row[r].state = "reserved" /\ Becomes(r, state, n, row[r].cost))
  BY DEF RowsOK, Row, SetIfReserved, Becomes

\* mark_pending moves one row, and only one whose usage is unknown.
LEMMA MarkPendingMove ==
    ASSUME RowsOK, NEW r \in Requests, NEW c \in Cost, MarkPending(r, c)
    PROVE  /\ \A q \in Requests \ {r} : row'[q] = row[q]
           /\ \/ row'[r] = row[r]
              \/ /\ row[r].state \in {"reserved", "uncertain"}
                 /\ Becomes(r, "pending", IF c = NoCost THEN row[r].occupied ELSE c, c)
  BY DEF RowsOK, Row, MarkPending, Becomes

\* note_failure moves one pending row, to pending or failed.
LEMMA NoteFailureMove ==
    ASSUME RowsOK, NEW a, noting[a] \in Note, NoteFailure(a)
    PROVE  \E r \in Requests :
             /\ \A q \in Requests \ {r} : row'[q] = row[q]
             /\ \/ row'[r] = row[r]
                \/ /\ row[r].state = "pending"
                   /\ \E s \in {"failed", "pending"} : Becomes(r, s, row[r].occupied, row[r].cost)
  <1>1. noting[a].id \in Requests /\ noting[a].seen + 1 \in Nat
    BY DEF Note
  <1>2. ASSUME NEW r \in Requests, NEW n \in Nat,
               row' = [row EXCEPT ![r] = IF @.state = "pending"
                  THEN [@ EXCEPT !.attempts = n, !.state = IF n >= MaxAttempts THEN "failed" ELSE "pending"]
                  ELSE @]
        PROVE  /\ \A q \in Requests \ {r} : row'[q] = row[q]
               /\ \/ row'[r] = row[r]
                  \/ /\ row[r].state = "pending"
                     /\ \E s \in {"failed", "pending"} : Becomes(r, s, row[r].occupied, row[r].cost)
    BY <1>2 DEF RowsOK, Row, Becomes
  <1> QED
    BY <1>1, <1>2 DEF NoteFailure

\* recover_orphans moves only reserved rows of the dispatch it looks for.
LEMMA TakeOverMove ==
    ASSUME RowsOK, NEW w, NEW d \in BOOLEAN, NEW s \in States, TakeOver(w, d, s), NEW q \in Requests
    PROVE  \/ row'[q] = row[q]
           \/ /\ row[q].state = "reserved" /\ row[q].dispatched = d
              /\ Becomes(q, s, IF d THEN row[q].occupied ELSE 0, row[q].cost)
  BY DEF RowsOK, Row, TakeOver, Becomes

\* A step that leaves every row and history alone is a Effect.
LEMMA QuietStep ==
    ASSUME UNCHANGED <<row, hist, used>>, \A q \in Requests : PhaseMove(q)
    PROVE  Effect
  BY DEF Effect, Stays, SameHistory

\* A step that saves usage (or fails to) fills in one row at most.
LEMMA MarkPendingStep ==
    ASSUME RowsOK, HoldMatchesState, NEW r \in Requests, NEW c \in Cost,
           MarkPending(r, c) \/ UNCHANGED row,
           UNCHANGED used, \A q \in Requests : SameHistory(q) /\ PhaseMove(q)
    PROVE  Effect
  <1>1. CASE UNCHANGED row
    BY <1>1 DEF Effect, Stays
  <1>2. CASE MarkPending(r, c)
    <2>1. \A q \in Requests \ {r} : row'[q] = row[q]
      BY <1>2, MarkPendingMove
    <2>2. CASE row'[r] = row[r]
      BY <2>1, <2>2 DEF Effect, Stays
    <2>3. CASE /\ row[r].state \in {"reserved", "uncertain"}
               /\ Becomes(r, "pending", IF c = NoCost THEN row[r].occupied ELSE c, c)
      <3>1. CASE c = NoCost
        BY <2>1, <2>3, <3>1 DEF Effect, Stays
      <3>2. CASE c # NoCost
        BY <2>1, <2>3, <3>2 DEF Effect, Fills, OthersKeep, Cost
      <3> QED
        BY <3>1, <3>2
    <2> QED
      BY <1>2, <2>2, <2>3, MarkPendingMove
  <1> QED
    BY <1>1, <1>2

\* apply debits the owners of one row and settles it, or does nothing.
LEMMA ApplyStep ==
    ASSUME RowsOK, NEW r \in Requests, Apply(r), UNCHANGED hist, \A q \in Requests : PhaseMove(q)
    PROVE  Effect
  <1>1. CASE Payable(r)
    <2>1. row[r].state = "pending" /\ row[r].cost \in Nat
      BY <1>1 DEF Payable, RowsOK, Row, Cost
    <2>2. OthersKeep(r) /\ Settles(r)
      BY <1>1, <2>1 DEF Apply, RowsOK, Row, OthersKeep, Settles, Becomes, SameHistory
    <2> QED
      BY <1>1, <2>2 DEF Apply, Effect, Debits
  <1>2. CASE ~Payable(r)
    BY <1>2, QuietStep DEF Apply
  <1> QED
    BY <1>1, <1>2

\* note_failure changes no request's place in the ledger.
LEMMA NoteFailureStep ==
    ASSUME RowsOK, NEW a, noting[a] \in Note, NoteFailure(a) \/ UNCHANGED row,
           UNCHANGED <<used, hist>>, \A q \in Requests : PhaseMove(q)
    PROVE  Effect
  BY NoteFailureMove DEF Effect, Stays, SameHistory

\* Every step of the specification moves rows in one of the ways of Effect.
LEMMA StepMoves == Inv /\ [Next]_vars => Effect
  <1> SUFFICES ASSUME Inv, [Next]_vars PROVE Effect
    OBVIOUS
  <1> USE ScopeAssumption, BoundAssumption DEF Inv, TypeInv
  <1>1. ASSUME NEW r \in Requests, NEW w \in Accepting, NEW n \in Estimates, Reserve(r, w, n) PROVE Effect
    <2>1. \A q \in Requests : PhaseMove(q)
      BY <1>1 DEF Reserve, PhaseMove, Unsent, PhaseOK
    <2>2. OthersKeep(r)
      BY <1>1 DEF Reserve, OthersKeep, RowsOK, HistOK, SameHistory
    <2>3. Opens(r) /\ phase'[r] # "new"
      BY <1>1 DEF Reserve, Opens, RowsOK, HistOK, PhaseOK, History, NoRow
    <2> QED
      BY <1>1, <2>1, <2>2, <2>3 DEF Effect, Reserve, accounts
  <1>2. ASSUME NEW r \in Requests, NEW w \in Accepting, NEW n \in Estimates, Deny(r, w, n) PROVE Effect
    BY <1>2, QuietStep DEF Deny, PhaseMove, Unsent, Serving, PhaseOK, accounts
  <1>3. ASSUME NEW r \in Requests, BeforeSend(r) PROVE Effect
    <2>1. \A q \in Requests : PhaseMove(q)
      BY <1>3 DEF BeforeSend, PhaseMove, Unsent, PhaseOK
    <2>2. OthersKeep(r)
      BY <1>3 DEF BeforeSend, OthersKeep, RowsOK, HistOK, SameHistory
    <2>3. Sends(r)
      <3>1. CASE UNCHANGED hist
        BY <1>3, <3>1 DEF BeforeSend, Sends, RowsOK
      <3>2. CASE hist' = [hist EXCEPT ![r].reached = TRUE] /\ phase' = [phase EXCEPT ![r] = "sent"]
        BY <1>3, <3>2 DEF BeforeSend, Sends, RowsOK, HistOK, History, PhaseOK
      <3> QED
        BY <1>3, <3>1, <3>2 DEF BeforeSend
    <2> QED
      BY <1>3, <2>1, <2>2, <2>3 DEF Effect, BeforeSend, accounts
  <1>4. ASSUME NEW r \in Requests, RefuseSend(r) PROVE Effect
    BY <1>4, QuietStep DEF RefuseSend, PhaseMove, Unsent, Serving, PhaseOK, accounts
  <1>5. ASSUME NEW r \in Requests, ReleaseLease(r) PROVE Effect
    <2>1. \A q \in Requests : PhaseMove(q)
      BY <1>5 DEF ReleaseLease, PhaseMove, Unsent, PhaseOK
    <2>2. CASE SetIfReserved(r, "released", 0)
      <3>1. ~hist[r].reached
        BY <1>5 DEF ReleaseLease, LeaseOK, Unsent
      <3>2. \A q \in Requests : SameHistory(q)
        BY <1>5 DEF ReleaseLease, SameHistory
      <3>3. "released" \in States
        BY DEF States
      <3>4. \A q \in Requests : Stays(q) \/ Frees(q)
        BY <2>2, <3>1, <3>2, <3>3, SetIfReservedMove DEF Stays, Frees, SameHistory
      <3> QED
        BY <1>5, <2>1, <3>4 DEF Effect, ReleaseLease, accounts
    <2>3. CASE UNCHANGED row
      BY <1>5, <2>1, <2>3, QuietStep DEF ReleaseLease, accounts
    <2> QED
      BY <1>5, <2>2, <2>3 DEF ReleaseLease
  <1>6. ASSUME NEW r \in Requests, Abandon(r) PROVE Effect
    <2>1. \A q \in Requests : PhaseMove(q)
      BY <1>6 DEF Abandon, PhaseMove, Unsent, PhaseOK
    <2>2. CASE SetIfReserved(r, "uncertain", row[r].occupied)
      <3>1. row[r].occupied \in Nat /\ "uncertain" \in States
        BY DEF RowsOK, Row, States
      <3>2. \A q \in Requests : SameHistory(q)
        BY <1>6 DEF Abandon, SameHistory
      <3>3. \A q \in Requests : Stays(q)
        BY <2>2, <3>1, <3>2, SetIfReservedMove DEF Stays
      <3> QED
        BY <1>6, <2>1, <3>3 DEF Effect, Abandon, accounts
    <2>3. CASE UNCHANGED row
      BY <1>6, <2>1, <2>3, QuietStep DEF Abandon, accounts
    <2> QED
      BY <1>6, <2>2, <2>3 DEF Abandon
  <1>7. ASSUME NEW r \in Requests, NEW c \in Costs \cup {0}, Bill(r, c) PROVE Effect
    <2>1. \A q \in Requests : PhaseMove(q)
      BY <1>7 DEF Bill, PhaseMove, Unsent, PhaseOK
    <2>2. \A q \in Requests : SameHistory(q)
      BY <1>7 DEF Bill, SameHistory, HistOK, History
    <2>3. MarkPending(r, c) \/ UNCHANGED row
      BY <1>7 DEF Bill, PersistUsage
    <2> QED
      BY <1>7, <2>1, <2>2, <2>3, CostTyped, MarkPendingStep DEF Bill, accounts
  <1>8. ASSUME NEW r \in Requests, BillAgain(r) PROVE Effect
    <2>1. \A q \in Requests : PhaseMove(q)
      BY <1>8 DEF BillAgain, PhaseMove, Unsent, PhaseOK
    <2>2. \A q \in Requests : SameHistory(q)
      BY <1>8 DEF BillAgain, SameHistory
    <2>3. MarkPending(r, 0) \/ UNCHANGED row
      BY <1>8 DEF BillAgain, PersistUsage
    <2> QED
      BY <1>8, <2>1, <2>2, <2>3, CostTyped, MarkPendingStep DEF BillAgain, accounts
  <1>9. ASSUME NEW r \in Requests, ApplyInRequest(r) PROVE Effect
    <2>1. \A q \in Requests : PhaseMove(q)
      BY <1>9 DEF ApplyInRequest, Raised, PhaseMove, Unsent, PhaseOK
    <2> QED
      BY <1>9, <2>1, ApplyStep DEF ApplyInRequest
  <1>10. ASSUME NEW r \in Requests, ApplyFails(r) PROVE Effect
    BY <1>10, QuietStep DEF ApplyFails, Raised, PhaseMove, Unsent, Serving, PhaseOK, accounts
  <1>11. ASSUME NEW r \in Requests, NoteInRequest(r) PROVE Effect
    <2>1. \A q \in Requests : PhaseMove(q)
      BY <1>11 DEF NoteInRequest, Raised, PhaseMove, Unsent, PhaseOK
    <2> QED
      BY <1>11, <2>1, NoteFailureStep DEF NoteInRequest, NotingOK, accounts
  <1>12. ASSUME NEW r \in Requests, NEW c \in Costs \cup {0}, CutShort(r, c) PROVE Effect
    <2>1. \A q \in Requests : PhaseMove(q)
      BY <1>12 DEF CutShort, PhaseMove, Unsent, PhaseOK
    <2>2. \A q \in Requests : SameHistory(q)
      BY <1>12 DEF CutShort, SameHistory, HistOK, History
    <2>3. MarkPending(r, c) \/ UNCHANGED row
      BY <1>12 DEF CutShort
    <2> QED
      BY <1>12, <2>1, <2>2, <2>3, CostTyped, MarkPendingStep DEF CutShort, accounts
  <1>13. ASSUME NEW w \in Workers, StartLoop(w) PROVE Effect
    BY <1>13, QuietStep DEF StartLoop, PhaseMove, Unsent, Serving, PhaseOK, accounts
  <1>14. ASSUME NEW w \in Workers, FindOrphans(w) PROVE Effect
    BY <1>14, QuietStep DEF FindOrphans, PhaseMove, Unsent, Serving, PhaseOK, accounts
  <1>15. ASSUME NEW w \in Workers, ReleaseUndispatched(w) PROVE Effect
    <2>1. \A q \in Requests : PhaseMove(q) /\ SameHistory(q)
      BY <1>15 DEF ReleaseUndispatched, PhaseMove, SameHistory
    <2>2. \A q \in Requests : Stays(q) \/ Frees(q)
      <3> TAKE q \in Requests
      <3>1. "released" \in States
        BY DEF States
      <3>2. CASE row'[q] = row[q]
        BY <2>1, <3>2 DEF Stays
      <3>3. CASE row[q].state = "reserved" /\ row[q].dispatched = FALSE /\ Becomes(q, "released", 0, row[q].cost)
        BY <2>1, <3>3 DEF Frees, SameHistory, LeaseOK
      <3> QED
        BY <1>15, <3>1, <3>2, <3>3, TakeOverMove DEF ReleaseUndispatched
    <2> QED
      BY <1>15, <2>1, <2>2 DEF Effect, ReleaseUndispatched, accounts
  <1>16. ASSUME NEW w \in Workers, HoldDispatched(w) PROVE Effect
    <2>1. \A q \in Requests : PhaseMove(q) /\ SameHistory(q)
      BY <1>16 DEF HoldDispatched, PhaseMove, SameHistory
    <2>2. \A q \in Requests : Stays(q)
      <3>1. "uncertain" \in States
        BY DEF States
      <3> QED
        BY <1>16, <2>1, <3>1, TakeOverMove DEF Stays, HoldDispatched
    <2> QED
      BY <1>16, <2>1, <2>2 DEF Effect, HoldDispatched, accounts
  <1>17. ASSUME NEW w \in Workers, NoteInLoop(w) PROVE Effect
    <2>1. \A q \in Requests : PhaseMove(q)
      BY <1>17 DEF NoteInLoop, PhaseMove
    <2> QED
      BY <1>17, <2>1, NoteFailureStep DEF NoteInLoop, NotingOK, accounts
  <1>18. ASSUME NEW w \in Workers, EndLoop(w) PROVE Effect
    BY <1>18, QuietStep DEF EndLoop, PhaseMove, Unsent, Serving, PhaseOK, accounts
  <1>19. ASSUME NEW w \in Workers, NEW at \in {"sleep", "orphans", "recover"}, FlushDone(w, at) PROVE Effect
    BY <1>19, QuietStep DEF FlushDone, PhaseMove, Unsent, Serving, PhaseOK, accounts
  <1>20. ASSUME NEW w \in Workers, NEW r \in Requests, FlushOne(w, r) PROVE Effect
    <2>1. \A q \in Requests : PhaseMove(q) /\ SameHistory(q)
      BY <1>20 DEF FlushOne, PhaseMove, SameHistory
    <2>2. todo[r] \in Cost
      BY <1>20 DEF FlushOne, MemoryOK, Entry
    <2> QED
      BY <1>20, <2>1, <2>2, MarkPendingStep DEF FlushOne, accounts
  <1>21. ASSUME NEW w \in Workers, NEW r \in Requests, RecoverRow(w, r) PROVE Effect
    <2>1. \A q \in Requests : PhaseMove(q)
      BY <1>21 DEF RecoverRow, PhaseMove
    <2> QED
      BY <1>21, <2>1, ApplyStep, QuietStep DEF RecoverRow
  <1>22. ASSUME NEW w \in Workers, Beat(w) PROVE Effect
    BY <1>22, QuietStep DEF Beat, PhaseMove, Unsent, Serving, PhaseOK, accounts
  <1>23. ASSUME NEW w \in Workers, Lapse(w) PROVE Effect
    BY <1>23, QuietStep DEF Lapse, PhaseMove, Unsent, Serving, PhaseOK, accounts
  <1>24. ASSUME NEW w \in Workers, Crash(w) PROVE Effect
    BY <1>24, QuietStep DEF Crash, Stop, PhaseMove, Unsent, Serving, PhaseOK, accounts
  <1>25. ASSUME NEW w \in Workers, Leave(w) PROVE Effect
    BY <1>25, QuietStep DEF Leave, Stop, PhaseMove, Unsent, Serving, PhaseOK, accounts
  <1>26. ASSUME NEW r \in Operated, Retry(r) PROVE Effect
    <2>1. \A q \in Requests : PhaseMove(q) /\ SameHistory(q)
      BY <1>26 DEF Retry, PhaseMove, SameHistory
    <2>2. \A q \in Requests : Stays(q)
      BY <1>26, <2>1 DEF Retry, Stays, RowsOK, Row, Becomes
    <2> QED
      BY <1>26, <2>1, <2>2 DEF Effect, Retry, accounts
  <1>27. ASSUME NEW r \in Operated, ResolveRelease(r) PROVE Effect
    <2>1. \A q \in Requests : PhaseMove(q)
      BY <1>27 DEF ResolveRelease, PhaseMove
    <2>2. OthersKeep(r)
      BY <1>27 DEF ResolveRelease, OthersKeep, RowsOK, HistOK, SameHistory
    <2>3. Frees(r)
      BY <1>27 DEF ResolveRelease, Frees, Becomes, RowsOK, Row, HistOK, History
    <2> QED
      BY <1>27, <2>1, <2>2, <2>3 DEF Effect, Stays, OthersKeep, ResolveRelease, accounts
  <1>28. ASSUME NEW r \in Operated, ResolveCharge(r) PROVE Effect
    <2>1. \A q \in Requests : PhaseMove(q)
      BY <1>28 DEF ResolveCharge, PhaseMove
    <2>2. OthersKeep(r)
      BY <1>28 DEF ResolveCharge, OthersKeep, RowsOK, HistOK, SameHistory
    <2>3. Fills(r)
      BY <1>28 DEF ResolveCharge, Fills, Becomes, RowsOK, Row, HistOK, History
    <2> QED
      BY <1>28, <2>1, <2>2, <2>3 DEF Effect, ResolveCharge, accounts
  <1>29. ASSUME NEW o \in Owners, NEW n \in Totals, SetTotal(o, n) PROVE Effect
    BY <1>29, QuietStep DEF SetTotal, PhaseMove, Unsent, Serving, PhaseOK, accounts
  <1>30. ASSUME NEW o \in Switched, SetEnabled(o) PROVE Effect
    BY <1>30, QuietStep DEF SetEnabled, PhaseMove, Unsent, Serving, PhaseOK, accounts
  <1>31. CASE UNCHANGED vars
    BY <1>31, QuietStep DEF vars, accounts, PhaseMove
  <1>32. ASSUME NEW r \in Requests, Refuse(r) PROVE Effect
    BY <1>32, QuietStep DEF Refuse, PhaseMove, Unsent, Serving, PhaseOK, accounts
  <1>33. QED
    BY <1>1, <1>2, <1>3, <1>4, <1>5, <1>6, <1>7, <1>8, <1>9, <1>10, <1>11, <1>12, <1>13,
       <1>14, <1>15, <1>16, <1>17, <1>18, <1>19, <1>20, <1>21, <1>22, <1>23, <1>24, <1>25,
       <1>26, <1>27, <1>28, <1>29, <1>30, <1>31, <1>32 DEF Next, Serve, Attend, Recovery, Sweep, Process, Operate

\* The invariant is inductive.
LEMMA StepInv == Inv /\ [Next]_vars => Inv'
  <1> SUFFICES ASSUME Inv, [Next]_vars PROVE Inv'
    OBVIOUS
  <1> USE DEF Inv
  <1>1. TypeInv'
    BY TypeStep
  <1>2. Effect
    BY StepMoves
  <1>3. ASSUME NEW q \in Requests
        PROVE  /\ PhaseMove(q)
               /\ Stays(q) \/ Sends(q) \/ (Opens(q) /\ phase'[q] # "new") \/ Fills(q) \/ Settles(q) \/ Frees(q)
    BY <1>2 DEF Effect, OthersKeep, Stays
  <1>4. \A q \in Requests : row[q] \in Row /\ row'[q] \in Row
    BY <1>1 DEF TypeInv, RowsOK
  <1>5. HoldMatchesState'
    <2> SUFFICES ASSUME NEW q \in Requests
                 PROVE  /\ row'[q].state \in {"none", "settled", "released"} => row'[q].occupied = 0
                        /\ row'[q].state \in {"reserved", "uncertain"} =>
                              row'[q].cost = NoCost /\ row'[q].occupied = hist'[q].estimate
                        /\ row'[q].state \in {"pending", "failed"} =>
                              row'[q].occupied = IF row'[q].cost = NoCost THEN hist'[q].estimate ELSE row'[q].cost
                        /\ row'[q].state = "settled" => row'[q].cost # NoCost
      BY DEF HoldMatchesState
    <2> USE NullAssumption DEF HoldMatchesState
    <2>1. CASE Stays(q)
      BY <2>1 DEF Stays, SameHistory, Becomes
    <2>2. CASE Sends(q)
      BY <2>2, <1>4 DEF Sends, Row
    <2>3. CASE Opens(q)
      BY <2>3 DEF Opens
    <2>4. CASE Fills(q)
      BY <2>4, <1>4 DEF Fills, SameHistory, Becomes, Row
    <2>5. CASE Settles(q)
      BY <2>5 DEF Settles, Becomes
    <2>6. CASE Frees(q)
      BY <2>6 DEF Frees, Becomes
    <2> QED
      BY <1>3, <2>1, <2>2, <2>3, <2>4, <2>5, <2>6
  <1>6. ASSUME NEW q \in Requests
        PROVE  /\ phase'[q] = "new" => row'[q] = NoRow
               /\ phase'[q] \in Unsent => ~hist'[q].reached
               /\ hist'[q].reached => row'[q].dispatched
               /\ row'[q].state = "released" /\ hist'[q].reached => hist'[q].resolved = "release"
    <2> USE <1>3 DEF PhaseMove, LeaseOK, ReleasedUnsent, Unsent
    <2>1. CASE Stays(q)
      <3>1. CASE row'[q] = row[q]
        BY <2>1, <3>1 DEF Stays, SameHistory
      <3>2. CASE row'[q] # row[q]
        BY <2>1, <3>2 DEF Stays, SameHistory, Becomes, NoRow
      <3> QED
        BY <3>1, <3>2
    <2>2. CASE Sends(q)
      BY <2>2, <1>4 DEF Sends, Row
    <2>3. CASE Opens(q) /\ phase'[q] # "new"
      BY <2>3 DEF Opens
    <2>4. CASE Fills(q)
      BY <2>4 DEF Fills, SameHistory, Becomes, NoRow
    <2>5. CASE Settles(q)
      BY <2>5 DEF Settles, SameHistory, Becomes, NoRow
    <2>6. CASE Frees(q)
      BY <2>6 DEF Frees, Becomes, NoRow
    <2> QED
      BY <2>1, <2>2, <2>3, <2>4, <2>5, <2>6
  <1> QED
    BY <1>1, <1>5, <1>6 DEF LeaseOK, ReleasedUnsent

\* The invariant holds initially.
LEMMA InitInv == Init => Inv
  <1> SUFFICES ASSUME Init PROVE Inv
    OBVIOUS
  <1>1. TypeInv
    BY TypeInit
  <1>2. HoldMatchesState /\ LeaseOK /\ ReleasedUnsent
    BY DEF Init, HoldMatchesState, LeaseOK, ReleasedUnsent, NoRow
  <1> QED
    BY <1>1, <1>2 DEF Inv

\* The invariant always holds.
LEMMA InvAlways == Spec => []Inv
  BY InitInv, StepInv, PTL DEF Spec

\* The columns of settlements.py and the memory of the workers always hold
\* what they are declared to hold.
THEOREM TypeCorrect == Spec => []TypeOK
  <1>1. Inv => TypeOK
    BY TypeInvTypeOK DEF Inv
  <1> QED
    BY InvAlways, <1>1, PTL

\* For any number of requests, workers, faults and operators: a row holds its
\* estimate while its usage is unknown, its cost while that is owed, and
\* nothing once it is settled or released.
THEOREM HoldsMatch == Spec => []HoldMatchesState
  <1>1. Inv => HoldMatchesState
    BY DEF Inv
  <1> QED
    BY InvAlways, <1>1, PTL

\* No crash, lapsed heartbeat, takeover or late release frees the hold of a
\* request that was sent upstream: only an operator does (resolve).
THEOREM NothingSentIsReleased == Spec => []ReleasedUnsent
  <1>1. Inv => ReleasedUnsent
    BY DEF Inv
  <1> QED
    BY InvAlways, <1>1, PTL

\* A settled or released row and a known cost stay as they are
FinalStep == \A r \in Requests :
    /\ row[r].state \in {"settled", "released"} => row'[r] = row[r]
    /\ row[r].cost # NoCost => row'[r].cost = row[r].cost

\* Every step leaves final rows and known costs alone.
LEMMA FinalMoves == Inv /\ [Next]_vars => FinalStep
  <1> SUFFICES ASSUME Inv, [Next]_vars, NEW r \in Requests
               PROVE  /\ row[r].state \in {"settled", "released"} => row'[r] = row[r]
                      /\ row[r].cost # NoCost => row'[r].cost = row[r].cost
    BY DEF FinalStep
  <1>1. Stays(r) \/ Sends(r) \/ Opens(r) \/ Fills(r) \/ Settles(r) \/ Frees(r)
    BY StepMoves DEF Effect, OthersKeep, Stays
  <1>2. row[r] \in Row /\ (phase[r] = "new" => row[r] = NoRow)
    BY DEF Inv, TypeInv, RowsOK, LeaseOK
  <1>3. row[r].state \in {"reserved", "uncertain"} => row[r].cost = NoCost
    BY DEF Inv, HoldMatchesState
  <1> QED
    BY <1>1, <1>2, <1>3 DEF Stays, Sends, Opens, Fills, Settles, Frees, Becomes, Row, NoRow

\* Late usage, a second billing, a stale recovery batch or a stale
\* note_failure never touches a settled or released row, nor a known cost.
THEOREM FinalRowsStayFinal == Spec => FinalRows
  BY InvAlways, FinalMoves, PTL DEF Spec, FinalRows, FinalStep

=============================================================================
