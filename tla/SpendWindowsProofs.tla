------------------------- MODULE SpendWindowsProofs -------------------------
(***************************************************************************)
(* Spend windows around the settlement ledger.                             *)
(*                                                                         *)
(* Checking them before the reservation and recording them after the       *)
(* settlement only restricts and observes the ledger, so what is proved of *)
(* Settlements holds with the windows around it.  And they are exact: as   *)
(* long as an hour is in the window, its counter is the sum of the costs   *)
(* of the settled requests that hold or held a marker (BucketOK).  A       *)
(* marker outlives the window of its request, and a counter the markers of *)
(* the requests in it (MarkOK).                                            *)
(***************************************************************************)
EXTENDS SpendWindows, SettlementsProofs, SumTheorems


\* A step with windows is a step of Settlements, or leaves its state alone
LEMMA WindowStep == [NextWindows]_allVars => [Next]_vars
  <1> SUFFICES ASSUME [NextWindows]_allVars PROVE [Next]_vars
    OBVIOUS
  <1>1. CASE Elsewhere
    BY <1>1 DEF Elsewhere, Next, Serve, Recovery, Process
  <1>2. ASSUME NEW r \in Requests, ReadHeld(r) \/ CheckWindow(r) PROVE [Next]_vars
    BY <1>2 DEF ReadHeld, CheckWindow, Next, Serve
  <1>3. ASSUME NEW r \in Requests, NEW w \in Accepting, NEW n \in Estimates, ReserveChecked(r, w, n)
        PROVE  [Next]_vars
    BY <1>3 DEF ReserveChecked, Next, Serve
  <1>4. ASSUME NEW a \in Actors, NEW r \in Requests, Settle(a, r) PROVE [Next]_vars
    BY <1>4 DEF Settle, Next, Serve, Recovery
  <1>5. ASSUME NEW w \in Workers, NEW r \in Requests, Revisit(w, r) PROVE [Next]_vars
    BY <1>5 DEF Revisit
  <1>6. ASSUME NEW w \in Workers, Exit(w) PROVE [Next]_vars
    BY <1>6 DEF Exit, Next, Process
  <1>7. ASSUME NEW a \in Actors, Script(a) \/ Flag(a) PROVE [Next]_vars
    BY <1>7 DEF Script, Flag
  <1>8. CASE Tick
    BY <1>8 DEF Tick
  <1>9. CASE UNCHANGED allVars
    BY <1>9 DEF allVars
  <1> QED
    BY <1>1, <1>2, <1>3, <1>4, <1>5, <1>6, <1>7, <1>8, <1>9 DEF NextWindows, Actors

\* The settlement ledger with spend windows around it is still the settlement
\* ledger: begin_request_budget's checks and record_windows add no behaviour.
THEOREM WindowsRefineSettlements == SpecWindows => Spec
  <1>1. InitWindows => Init
    BY DEF InitWindows
  <1> QED
    BY <1>1, WindowStep, PTL DEF SpecWindows, Spec

----------------------------------------------------------------------------
(* The windows are exact *)

\* The requests of an owner made in an hour whose cost its counter has
Counted(o, h) == {r \in RowsOf(o) : made[r] = h /\ marker[r] # 0}

\* Types of the counters
TypesOK ==
    /\ hour \in Hours /\ made \in [Requests -> Hours] /\ \A r \in Requests : made[r] <= hour
    /\ bucket \in [Owners -> [Hours -> Int]] /\ expiry \in [Owners -> [Hours -> Int]]
    /\ marker \in [Requests -> Nat] /\ recorded \in [Requests -> BOOLEAN]

\* A script that is under way is for a settled request
RecordingOK ==
    /\ recording \in [Actors -> Recording]
    /\ \A a \in Actors : recording[a].next \in {"script", "flag"} =>
         /\ recording[a].id \in Requests /\ row[recording[a].id].state = "settled"
         /\ recording[a].next = "flag" => marker[recording[a].id] # 0

\* A marked request is settled, and its counters and its marker outlive the
\* window together
MarkOK == \A r \in Requests :
    /\ marker[r] # 0 => /\ row[r].state = "settled" /\ marker[r] >= made[r] + BucketTTL
                        /\ \A o \in OwnersOf(r) : expiry[o][made[r]] >= made[r] + BucketTTL
    /\ recorded[r] => marker[r] # 0

\* A counter that a window may read is the sum over the marked requests
BucketOK == \A o \in Owners, h \in Hours :
    h > hour - Window => bucket[o][h] = CostOf(Counted(o, h))

\* The inductive invariant
WindowInv == Inv /\ TypesOK /\ RecordingOK /\ MarkOK /\ BucketOK

\* Counters of the same requests, with the costs they had, have the same sum.
LEMMA CountedSame ==
    ASSUME Inv, FinalStep, MarkOK, NEW o, NEW h, Counted(o, h)' = Counted(o, h)
    PROVE  CostOf(Counted(o, h))' = CostOf(Counted(o, h))
  <1> DEFINE S == Counted(o, h)
             f == [r \in Requests |-> row[r].cost]
             g == [r \in Requests |-> row'[r].cost]
  <1>1. S \subseteq Requests /\ IsFiniteSet(S)
    BY ScopeAssumption, FS_Subset DEF Counted, RowsOf
  <1>2. \A r \in S : f[r] = g[r]
    BY <1>1 DEF FinalStep, MarkOK, Counted
  <1>3. SumFunctionOnSet(f, S) = SumFunctionOnSet(g, S)
    <2> HIDE DEF S, f, g
    <2> QED
      BY <1>1, <1>2, SumSame
  <1>4. CostOf(S) = SumFunctionOnSet(f, S) /\ CostOf(S)' = SumFunctionOnSet(g, S')
    BY DEF CostOf
  <1> QED
    BY <1>3, <1>4

\* Nothing changes for the windows in a step that touches neither counters nor
\* markers nor the time.
LEMMA WindowsKept ==
    ASSUME WindowInv, Inv', FinalStep, RecordingOK',
           UNCHANGED <<hour, made, bucket, expiry, marker, recorded>>
    PROVE  WindowInv'
  <1>1. TypesOK'
    BY DEF WindowInv, TypesOK
  <1>2. MarkOK'
    BY DEF WindowInv, MarkOK, FinalStep
  <1>3. ASSUME NEW o \in Owners, NEW h \in Hours, h > hour' - Window
        PROVE  bucket'[o][h] = CostOf(Counted(o, h))'
    <2>1. Counted(o, h)' = Counted(o, h)
      BY DEF Counted
    <2> QED
      BY <1>3, <2>1, CountedSame DEF WindowInv, BucketOK
  <1> QED
    BY <1>1, <1>2, <1>3 DEF WindowInv, BucketOK

\* A call of record_windows in progress is not disturbed by other steps.
LEMMA RecordingKept ==
    ASSUME RecordingOK, FinalStep, UNCHANGED <<recording, marker>>
    PROVE  RecordingOK'
  BY DEF RecordingOK, FinalStep

\* No request is settled and every counter is zero.
LEMMA WindowInit == InitWindows => WindowInv
  <1> SUFFICES ASSUME InitWindows PROVE WindowInv
    OBVIOUS
  <1> USE WindowAssumption
  <1>1. Inv
    BY InitInv DEF InitWindows
  <1>2. TypesOK /\ RecordingOK /\ MarkOK
    BY DEF InitWindows, TypesOK, RecordingOK, MarkOK, Hours, Recording, Idle
  <1>3. ASSUME NEW o \in Owners, NEW h \in Hours PROVE bucket[o][h] = CostOf(Counted(o, h))
    <2>1. Counted(o, h) = {}
      BY DEF InitWindows, Counted, RowsOf
    <2> QED
      BY <2>1, SumEmpty DEF InitWindows, CostOf
  <1> QED
    BY <1>1, <1>2, <1>3 DEF WindowInv, BucketOK

\* An hour passes.
LEMMA TickStep == ASSUME WindowInv, Inv', FinalStep, Tick PROVE WindowInv'
  <1> USE WindowAssumption
  <1>1. /\ hour' = hour + 1 /\ hour' \in Hours /\ hour \in Hours
        /\ UNCHANGED <<vars, expiry, marker, recorded, recording>>
        /\ made' = [r \in Requests |-> IF row[r].state = "none" THEN hour' ELSE made[r]]
        /\ bucket' = [o \in Owners |-> [h \in Hours |-> IF expiry[o][h] <= hour' THEN 0 ELSE bucket[o][h]]]
    BY DEF Tick, WindowInv, TypesOK, Hours
  <1>2. \A r \in Requests : marker[r] # 0 => made'[r] = made[r]
    BY <1>1 DEF WindowInv, MarkOK
  <1>3. TypesOK'
    BY <1>1 DEF WindowInv, TypesOK, Hours
  <1>4. RecordingOK'
    BY <1>1, RecordingKept DEF WindowInv
  <1>5. MarkOK'
    BY <1>1, <1>2 DEF WindowInv, MarkOK, vars
  <1>6. ASSUME NEW o \in Owners, NEW h \in Hours, h > hour' - Window
        PROVE  bucket'[o][h] = CostOf(Counted(o, h))'
    <2>1. Counted(o, h)' = Counted(o, h)
      BY <1>1, <1>2 DEF Counted, RowsOf
    <2>2. CostOf(Counted(o, h))' = CostOf(Counted(o, h))
      BY <2>1, CountedSame DEF WindowInv
    <2>3. bucket[o][h] = CostOf(Counted(o, h))
      <3>1. h > hour - Window
        BY <1>1, <1>6 DEF Hours
      <3> QED
        BY <3>1 DEF WindowInv, BucketOK
    <2>4. CASE expiry[o][h] <= hour'
      <3>1. ASSUME NEW r \in Counted(o, h) PROVE FALSE
        <4>1. r \in Requests /\ o \in OwnersOf(r) /\ made[r] = h /\ marker[r] # 0
          BY <3>1 DEF Counted, RowsOf
        <4>2. expiry[o][h] >= h + BucketTTL
          BY <4>1 DEF WindowInv, MarkOK
        <4>3. expiry[o][h] \in Int
          BY DEF WindowInv, TypesOK
        <4> QED
          BY <1>1, <1>6, <2>4, <4>2, <4>3 DEF Hours
      <3>2. Counted(o, h) = {}
        BY <3>1
      <3>3. CostOf(Counted(o, h)) = 0
        BY <3>2, SumEmpty DEF CostOf
      <3> QED
        BY <1>1, <2>2, <2>4, <3>3
    <2>5. CASE ~(expiry[o][h] <= hour')
      BY <1>1, <2>2, <2>3, <2>5
    <2> QED
      BY <2>4, <2>5
  <1> QED
    BY <1>3, <1>4, <1>5, <1>6 DEF WindowInv, BucketOK

\* The script adds a cost to the counters of a request that has none there.
LEMMA AddSpendStep ==
    ASSUME WindowInv, NEW r \in Requests, row[r].state = "settled", AddSpend(r),
           UNCHANGED <<vars, hour, made, recorded>>
    PROVE  TypesOK' /\ MarkOK' /\ BucketOK' /\ marker'[r] # 0 /\ \A q \in Requests : marker[q] # 0 => marker'[q] # 0
  <1> USE WindowAssumption
  <1>0. CASE ~Unmarked(r)
    <2>1. UNCHANGED <<marker, bucket, expiry>>
      BY <1>0 DEF AddSpend
    <2>2. marker[r] # 0
      BY <1>0 DEF Unmarked, WindowInv, TypesOK, Hours
    <2> QED
      BY <2>1, <2>2 DEF WindowInv, TypesOK, MarkOK, BucketOK, Counted, CostOf, vars
  <1>1. CASE Unmarked(r)
    <2> DEFINE h == made[r]
    <2>1. /\ marker' = [marker EXCEPT ![r] = hour + BucketTTL]
          /\ bucket' = [o \in Owners |-> [bucket[o] EXCEPT ![h] =
                          IF o \in OwnersOf(r) THEN bucket[o][h] + row[r].cost ELSE bucket[o][h]]]
          /\ expiry' = [o \in Owners |-> [expiry[o] EXCEPT ![h] =
                          IF o \in OwnersOf(r) THEN hour + BucketTTL ELSE expiry[o][h]]]
      BY <1>1 DEF AddSpend
    <2>2. h \in Hours /\ hour \in Hours /\ h <= hour /\ hour + BucketTTL \in Nat \ {0} /\ BucketTTL \in Nat /\ BucketTTL >= Window
      BY DEF WindowInv, TypesOK, Hours
    <2>3. row[r].cost \in Nat
      BY DEF WindowInv, Inv, TypeInv, RowsOK, HoldMatchesState, Row, Cost
    <2>4. \A q \in Requests : /\ marker'[q] = IF q = r THEN hour + BucketTTL ELSE marker[q]
                              /\ marker[q] \in Nat /\ made[q] \in Hours /\ made'[q] = made[q]
      BY <2>1 DEF WindowInv, TypesOK
    <2>5. \A o \in Owners, k \in Hours :
            /\ expiry[o][k] \in Int /\ bucket[o][k] \in Int
            /\ bucket'[o][k] = IF k = h /\ o \in OwnersOf(r) THEN bucket[o][k] + row[r].cost ELSE bucket[o][k]
            /\ expiry'[o][k] = IF k = h /\ o \in OwnersOf(r) THEN hour + BucketTTL ELSE expiry[o][k]
      BY <2>1, <2>2 DEF WindowInv, TypesOK
    <2> HIDE DEF h
    <2>6. TypesOK'
      <3>1. bucket' \in [Owners -> [Hours -> Int]] /\ expiry' \in [Owners -> [Hours -> Int]]
        BY <2>1, <2>2, <2>3, <2>5 DEF WindowInv, TypesOK
      <3>2. marker' \in [Requests -> Nat]
        BY <2>1, <2>2 DEF WindowInv, TypesOK
      <3> QED
        BY <3>1, <3>2 DEF WindowInv, TypesOK
    <2>7. MarkOK'
      <3> SUFFICES ASSUME NEW q \in Requests
                   PROVE  /\ marker'[q] # 0 => /\ row[q].state = "settled" /\ marker'[q] >= made[q] + BucketTTL
                                               /\ \A o \in OwnersOf(q) : expiry'[o][made[q]] >= made[q] + BucketTTL
                          /\ recorded[q] => marker'[q] # 0
        BY DEF MarkOK, vars
      <3>1. \A o \in OwnersOf(q) : o \in Owners
        BY ScopeAssumption DEF OwnersOf, Owners
      <3>2. CASE q = r
        BY <2>2, <2>4, <2>5, <3>1, <3>2 DEF h, Hours
      <3>3. CASE q # r
        <4>1. /\ marker[q] # 0 => /\ row[q].state = "settled" /\ marker[q] >= made[q] + BucketTTL
                                  /\ \A o \in OwnersOf(q) : expiry[o][made[q]] >= made[q] + BucketTTL
              /\ recorded[q] => marker[q] # 0
          BY DEF WindowInv, MarkOK
        <4>2. made[q] = h => made[q] + BucketTTL <= hour + BucketTTL
          BY <2>2 DEF Hours
        <4> QED
          BY <2>4, <2>5, <3>1, <3>3, <4>1, <4>2
      <3> QED
        BY <3>2, <3>3
    <2>8. ASSUME NEW o \in Owners, NEW k \in Hours, k > hour - Window
          PROVE  bucket'[o][k] = CostOf(Counted(o, k))'
      <3>1. bucket[o][k] = CostOf(Counted(o, k))
        BY <2>8 DEF WindowInv, BucketOK
      <3>2. CASE k = h /\ o \in OwnersOf(r)
        <4>1. marker[r] = 0
          <5>1. marker[r] # 0 => marker[r] >= h + BucketTTL /\ marker[r] <= hour
            BY <1>1 DEF WindowInv, MarkOK, Unmarked, h
          <5> QED
            BY <2>2, <2>4, <2>8, <3>2, <5>1 DEF Hours
        <4> DEFINE S == Counted(o, k)
                   f == [q \in Requests |-> row[q].cost]
        <4>2. Counted(o, k)' = S \cup {r}
          BY <2>2, <2>4, <3>2 DEF Counted, RowsOf, h
        <4>3. r \notin S /\ IsFiniteSet(S) /\ S \subseteq Requests
          BY <4>1, ScopeAssumption, FS_Subset DEF Counted, RowsOf
        <4>4. \A x \in S \cup {r} : f[x] \in Int
          BY <2>3, <4>3 DEF WindowInv, Inv, TypeInv, RowsOK, HoldMatchesState, Row, Cost, MarkOK, Counted
        <4>5. SumFunctionOnSet(f, S \cup {r}) = f[r] + SumFunctionOnSet(f, S) /\ SumFunctionOnSet(f, S) \in Int
          <5> HIDE DEF S, f
          <5> QED
            BY <4>3, <4>4, SumAdd, SumType
        <4>6. f[r] = row[r].cost
          OBVIOUS
        <4>7. CostOf(Counted(o, k)) = SumFunctionOnSet(f, S) /\ CostOf(Counted(o, k))' = SumFunctionOnSet(f, Counted(o, k)')
          BY DEF CostOf, vars
        <4> HIDE DEF S, f
        <4> QED
          BY <2>3, <2>5, <3>1, <3>2, <4>2, <4>5, <4>6, <4>7
      <3>3. CASE ~(k = h /\ o \in OwnersOf(r))
        <4>1. Counted(o, k)' = Counted(o, k)
          BY <2>4, <3>3 DEF Counted, RowsOf, h
        <4>2. CostOf(Counted(o, k))' = CostOf(Counted(o, k))
          BY <4>1 DEF CostOf, vars
        <4> QED
          BY <2>5, <3>1, <3>3, <4>2
      <3> QED
        BY <3>2, <3>3
    <2> QED
      BY <2>2, <2>4, <2>6, <2>7, <2>8 DEF BucketOK
  <1> QED
    BY <1>0, <1>1

\* Every step keeps the windows exact.
LEMMA WindowInvStep == WindowInv /\ [NextWindows]_allVars => WindowInv'
  <1> SUFFICES ASSUME WindowInv, [NextWindows]_allVars PROVE WindowInv'
    OBVIOUS
  <1>0. Inv' /\ FinalStep
    BY WindowStep, StepInv, FinalMoves DEF WindowInv
  <1>1. CASE UNCHANGED <<hour, made, bucket, expiry, marker, recorded, recording>>
    BY <1>0, <1>1, RecordingKept, WindowsKept DEF WindowInv
  <1>2. CASE Tick
    BY <1>0, <1>2, TickStep
  <1>3. ASSUME NEW a \in Actors, NEW r \in Requests, Settle(a, r) \/ (a \in Workers /\ Revisit(a, r))
        PROVE  WindowInv'
    <2>1. UNCHANGED <<hour, made, bucket, expiry, marker, recorded>>
      BY <1>3 DEF Settle, Revisit
    <2>2. \/ UNCHANGED recording
          \/ StartRecording(a, r) /\ row'[r].state = "settled"
      BY <1>0, <1>3 DEF Settle, Revisit, Debited, vars
    <2>3. RecordingOK'
      BY <1>0, <2>1, <2>2 DEF WindowInv, RecordingOK, FinalStep, StartRecording, Recording
    <2> QED
      BY <1>0, <2>1, <2>3, WindowsKept
  <1>4. ASSUME NEW a \in Actors, Script(a) PROVE WindowInv'
    <2> DEFINE r == recording[a].id
    <2>1. r \in Requests /\ row[r].state = "settled" /\ UNCHANGED <<vars, hour, made, recorded>>
      BY <1>4 DEF Script, WindowInv, RecordingOK
    <2>2. CASE AddSpend(r) /\ recording' \in {[recording EXCEPT ![a] = [id |-> r, next |-> "flag"]],
                                              [recording EXCEPT ![a] = Idle]}
      <3>1. TypesOK' /\ MarkOK' /\ BucketOK' /\ marker'[r] # 0 /\ \A q \in Requests : marker[q] # 0 => marker'[q] # 0
        BY <2>1, <2>2, AddSpendStep
      <3>2. RecordingOK'
        <4>1. UNCHANGED row
          BY <2>1 DEF vars
        <4>2. CASE recording' = [recording EXCEPT ![a] = [id |-> r, next |-> "flag"]]
          BY <2>1, <3>1, <4>1, <4>2 DEF WindowInv, RecordingOK, Recording
        <4>3. CASE recording' = [recording EXCEPT ![a] = Idle]
          BY <2>1, <3>1, <4>1, <4>3 DEF WindowInv, RecordingOK, Recording, Idle
        <4> QED
          BY <2>2, <4>2, <4>3
      <3> QED
        BY <1>0, <3>1, <3>2 DEF WindowInv
    <2>3. CASE UNCHANGED <<marker, bucket, expiry>> /\ recording' = [recording EXCEPT ![a] = Idle]
      <3>1. RecordingOK'
        BY <2>1, <2>3 DEF WindowInv, RecordingOK, Recording, Idle, vars
      <3> QED
        BY <1>0, <2>1, <2>3, <3>1, WindowsKept
    <2> QED
      BY <1>4, <2>2, <2>3 DEF Script
  <1>5. ASSUME NEW a \in Actors, Flag(a) PROVE WindowInv'
    <2> DEFINE r == recording[a].id
    <2>1. r \in Requests /\ marker[r] # 0 /\ UNCHANGED <<vars, hour, made, bucket, expiry, marker>>
      BY <1>5 DEF Flag, WindowInv, RecordingOK
    <2>2. recording' = [recording EXCEPT ![a] = Idle]
          /\ (UNCHANGED recorded \/ recorded' = [recorded EXCEPT ![r] = TRUE])
      BY <1>5 DEF Flag
    <2>3. RecordingOK'
      BY <2>1, <2>2 DEF WindowInv, RecordingOK, Recording, Idle, vars
    <2>4. TypesOK'
      BY <2>1, <2>2 DEF WindowInv, TypesOK
    <2>5. UNCHANGED row
      BY <2>1 DEF vars
    <2>6. MarkOK'
      <3>1. \A q \in Requests : recorded'[q] => recorded[q] \/ q = r
        BY <2>2 DEF WindowInv, TypesOK
      <3> QED
        BY <2>1, <2>5, <3>1 DEF WindowInv, MarkOK
    <2>7. ASSUME NEW o \in Owners, NEW h \in Hours, h > hour' - Window
          PROVE  bucket'[o][h] = CostOf(Counted(o, h))'
      <3>1. Counted(o, h)' = Counted(o, h)
        BY <2>1 DEF Counted
      <3>2. CostOf(Counted(o, h))' = CostOf(Counted(o, h))
        BY <2>5, <3>1 DEF CostOf
      <3> QED
        BY <2>1, <2>7, <3>2 DEF WindowInv, BucketOK
    <2> QED
      BY <1>0, <2>3, <2>4, <2>6, <2>7 DEF WindowInv, BucketOK
  <1>6. ASSUME NEW w \in Workers, Exit(w) PROVE WindowInv'
    <2>1. UNCHANGED <<hour, made, bucket, expiry, marker, recorded>>
      BY <1>6 DEF Exit
    <2>2. RecordingOK'
      BY <1>0, <1>6, <2>1 DEF Exit, WindowInv, RecordingOK, FinalStep, Recording, Idle
    <2> QED
      BY <1>0, <2>1, <2>2, WindowsKept
  <1>7. ASSUME NEW r \in Requests, ReadHeld(r) \/ CheckWindow(r) PROVE WindowInv'
    BY <1>1, <1>7 DEF ReadHeld, CheckWindow
  <1>8. ASSUME NEW r \in Requests, NEW w \in Accepting, NEW n \in Estimates, ReserveChecked(r, w, n)
        PROVE  WindowInv'
    BY <1>1, <1>8 DEF ReserveChecked, windowVars
  <1>9. CASE Elsewhere /\ UNCHANGED windowVars
    BY <1>1, <1>9 DEF windowVars
  <1>10. CASE UNCHANGED allVars
    BY <1>1, <1>10 DEF allVars, windowVars
  <1> QED
    BY <1>2, <1>3, <1>4, <1>5, <1>6, <1>7, <1>8, <1>9, <1>10 DEF NextWindows, Actors

\* What an hourly counter tells of the window is what its requests cost.
LEMMA SpentIsCounted ==
    ASSUME WindowInv, NEW o \in Owners
    PROVE  Spent(o) = CostOf({r \in RowsOf(o) : marker[r] # 0 /\ InWindow(made[r])})
  <1> DEFINE rows == {r \in RowsOf(o) : marker[r] # 0}
             inside == {h \in Hours : InWindow(h)}
             costs == [r \in Requests |-> row[r].cost]
             sums == bucket[o]
  <1>0. PICK when : when = made
    OBVIOUS
  <1>1. rows \subseteq Requests /\ IsFiniteSet(rows)
    BY ScopeAssumption, FS_Subset DEF RowsOf
  <1>2. IsFiniteSet(inside)
    <2>1. IsFiniteSet(Hours)
      BY WindowAssumption, FS_Interval DEF Hours
    <2>2. inside \subseteq Hours
      OBVIOUS
    <2> QED
      BY <2>1, <2>2, FS_Subset
  <1>3. \A r \in rows : costs[r] \in Int
    BY <1>1 DEF WindowInv, Inv, TypeInv, RowsOK, HoldMatchesState, Row, Cost, MarkOK
  <1>4. ASSUME NEW h \in inside PROVE sums[h] = SumFunctionOnSet(costs, ClassOf(rows, when, h))
    <2>1. ClassOf(rows, when, h) = Counted(o, h)
      BY <1>0 DEF Counted, ClassOf
    <2>2. h \in Hours /\ h > hour - Window
      BY WindowAssumption DEF InWindow, WindowInv, TypesOK, Hours
    <2> QED
      BY <2>1, <2>2 DEF WindowInv, BucketOK, CostOf
  <1>5. SumFunctionOnSet(sums, inside) = SumFunctionOnSet(costs, ClassesOf(rows, when, inside))
    <2>1. \A h \in inside : sums[h] = SumFunctionOnSet(costs, ClassOf(rows, when, h))
      BY <1>4
    <2>2. IsFiniteSet(rows)
      BY <1>1
    <2> HIDE DEF rows, inside, costs, sums
    <2> QED
      BY <1>2, <1>3, <2>1, <2>2, SumByClass
  <1>6. ClassesOf(rows, when, inside) = {r \in RowsOf(o) : marker[r] # 0 /\ InWindow(made[r])}
    BY <1>0, <1>1 DEF WindowInv, TypesOK, ClassesOf
  <1> QED
    BY <1>5, <1>6 DEF Spent, CostOf

\* Within a window a settled cost counts once, however often it is recorded
\* and whatever replies are lost; and what is marked as recorded does count.
THEOREM WindowsCountExactly == SpecWindows => []WindowExact
  <1>1. WindowInv => WindowExact
    <2> SUFFICES ASSUME WindowInv, NEW o \in Owners
                 PROVE  /\ Spent(o) <= CostOf(Within(o))
                        /\ Spent(o) >= CostOf({r \in Within(o) : recorded[r]})
      BY DEF WindowExact
    <2> DEFINE S == {r \in RowsOf(o) : marker[r] # 0 /\ InWindow(made[r])}
               P == {r \in Within(o) : recorded[r]}
               f == [r \in Requests |-> row[r].cost]
    <2>1. P \subseteq S /\ S \subseteq Within(o) /\ Within(o) \subseteq Requests
      BY DEF Within, RowsOf, WindowInv, MarkOK
    <2>2. IsFiniteSet(Within(o)) /\ IsFiniteSet(S)
      BY <2>1, ScopeAssumption, FS_Subset
    <2>3. \A r \in Within(o) : f[r] \in Nat
      BY <2>1 DEF Within, WindowInv, Inv, TypeInv, RowsOK, HoldMatchesState, Row, Cost
    <2>4. SumFunctionOnSet(f, P) <= SumFunctionOnSet(f, S) /\ SumFunctionOnSet(f, S) <= SumFunctionOnSet(f, Within(o))
      <3> HIDE DEF S, P, f
      <3> QED
        BY <2>1, <2>2, <2>3, SumSubset
    <2>5. Spent(o) = SumFunctionOnSet(f, S)
      BY SpentIsCounted DEF CostOf
    <2>6. SumFunctionOnSet(f, P) \in Nat /\ SumFunctionOnSet(f, S) \in Nat
      <3>1. IsFiniteSet(P) /\ (\A r \in P : f[r] \in Nat) /\ (\A r \in S : f[r] \in Nat)
        BY <2>1, <2>2, <2>3, FS_Subset
      <3> HIDE DEF S, P, f
      <3> QED
        BY <2>2, <3>1, SumNat
    <2> HIDE DEF S
    <2> QED
      BY <2>4, <2>5, <2>6 DEF CostOf
  <1> QED
    BY WindowInit, WindowInvStep, <1>1, PTL DEF SpecWindows
=============================================================================
