---------------------------- MODULE ServicesProofs ----------------------------
(***************************************************************************)
(* Proofs about the services around the proxy: credentials and the keys of *)
(* upstreams, streams and endpoints, scans of what is answered and reviews *)
(* of what was kept, access, alerts, prompt caching, the catalogue and the *)
(* totals of usage.  They share no state: each part has an inductive       *)
(* invariant of its own.                                                   *)
(***************************************************************************)
EXTENDS Streams, Alerts, UpstreamKeys, MasterKeys, Scanner, Reviews, CacheMarks, Access, Usage, Catalogue, Endpoints,
        Excerpts, GatewaySettings, SumTheorems, FiniteSetTheorems, FunctionTheorems, SequenceTheorems, TLAPS


----------------------------------------------------------------------------
(* The key of credentials (MasterKeys).  Whichever processes start, in      *)
(* whatever order and wherever they exit, all of them come to one key: the  *)
(* environment's or, once it is written, the file's, which nothing replaces.*)

\* Steps of a process that starts
Steps == {"idle", "creates", "writes", "verifies", "serves", "commits"}

\* The type invariant
SecretTypes ==
    /\ stateless \in BOOLEAN /\ envSet \in BOOLEAN
    /\ file \in MasterKeySet \cup {NoFile, Partial}
    /\ creds \in [Credentials -> MasterKeySet \cup {Plain}]
    /\ starts \in [Processes -> [step : Steps, key : MasterKeySet \cup {Plain}, old : MasterKeySet \cup {Plain}]]

\* The key that processes come to
OneKey == IF stateless \/ envSet THEN Given ELSE file

\* Who has a key has that one; a file is created by one process at a time, and
\* only where nothing else gives a key.
KeyHolders ==
    \A p \in Processes :
       /\ starts[p].step \in {"verifies", "serves", "commits"} => starts[p].key = OneKey /\ OneKey \in MasterKeySet
       /\ starts[p].step \in {"creates", "writes"} => ~stateless /\ ~envSet /\ starts[p].key \in MasterKeySet
       /\ starts[p].step = "writes" =>
            file = Partial /\ \A q \in Processes : starts[q].step = "writes" => q = p
       /\ starts[p].step = "serves" => p # Migrator /\ \A k \in Encrypted : creds[k] = OneKey
       /\ starts[p].step = "commits" => p = Migrator
\* A file is created only where it is needed, and a migration runs alone
NeededFile == stateless \/ envSet => file = NoFile
MigratesAlone == starts[Migrator].step # "idle" => Stopped

\* The inductive invariant
SecretInv ==
    /\ SecretTypes /\ KeyHolders /\ NeededFile /\ MigratesAlone
    /\ \A k \in Encrypted : creds[k] \in Durable

\* No process has started.
LEMMA SecretInit == InitSecrets => SecretInv
  BY MasterKeysAssumption DEF InitSecrets, SecretInv, SecretTypes, KeyHolders, NeededFile, MigratesAlone, Stopped,
     Idle, Encrypted, Durable, Steps, MasterKeySet, Processes

\* One process takes a step of its own and changes nothing that others read
LEMMA OneMoves ==
    ASSUME SecretInv, NEW p \in Processes, UNCHANGED <<stateless, envSet, file, legacyRow, creds>>,
           NEW r \in [step : Steps, key : MasterKeySet \cup {Plain}, old : MasterKeySet \cup {Plain}],
           starts' = [starts EXCEPT ![p] = r],
           r.step \in {"verifies", "serves", "commits"} => r.key = OneKey /\ OneKey \in MasterKeySet,
           r.step = "creates" => ~stateless /\ ~envSet /\ r.key \in MasterKeySet,
           r.step # "writes",
           r.step = "serves" => p # Migrator /\ \A k \in Encrypted : creds[k] = OneKey,
           r.step = "commits" => p = Migrator,
           r.step = "idle" \/ starts[p].step # "idle" \/ (IF p = Migrator THEN Stopped ELSE starts[Migrator].step = "idle")
    PROVE  SecretInv'
  <1>1. SecretTypes'
    BY DEF SecretInv, SecretTypes
  <1>2. OneKey' = OneKey /\ Encrypted' = Encrypted /\ Durable' = Durable
    BY DEF OneKey, Given, Encrypted, Durable
  <1>3. starts'[p] = r /\ \A q \in Processes \ {p} : starts'[q] = starts[q]
    BY DEF SecretInv, SecretTypes
  <1>4. KeyHolders'
    BY <1>2, <1>3 DEF SecretInv, KeyHolders
  <1>5. MigratesAlone'
    BY <1>3, MasterKeysAssumption DEF SecretInv, MigratesAlone, Stopped, Processes
  <1> QED
    BY <1>1, <1>2, <1>4, <1>5 DEF SecretInv, NeededFile

\* A process that does not start changes nothing.
LEMMA Refuses ==
    ASSUME SecretInv, NEW p \in Processes, UNCHANGED <<stateless, envSet, file, legacyRow, creds>>, Refuse(p)
    PROVE  SecretInv'
  <1>1. Idle \in [step : Steps, key : MasterKeySet \cup {Plain}, old : MasterKeySet \cup {Plain}] /\ Idle.step = "idle"
    BY DEF Idle, Steps
  <1> QED
    BY <1>1, OneMoves DEF Refuse

\* A process that goes on has the one key.
LEMMA Becomes ==
    ASSUME SecretInv, NEW p \in Processes, UNCHANGED <<stateless, envSet, file, legacyRow, creds>>,
           NEW st \in Steps, NEW k \in MasterKeySet, Become(p, st, k), st # "writes",
           st \in {"verifies", "serves", "commits"} => k = OneKey,
           st = "creates" => ~stateless /\ ~envSet,
           st = "serves" => p # Migrator /\ \A c \in Encrypted : creds[c] = OneKey,
           st = "commits" => p = Migrator,
           st = "idle" \/ starts[p].step # "idle" \/ (IF p = Migrator THEN Stopped ELSE starts[Migrator].step = "idle")
    PROVE  SecretInv'
  <1> DEFINE r == [step |-> st, key |-> k, old |-> starts[p].old]
  <1>1. r \in [step : Steps, key : MasterKeySet \cup {Plain}, old : MasterKeySet \cup {Plain}]
    BY DEF SecretInv, SecretTypes
  <1>2. starts' = [starts EXCEPT ![p] = r]
    <2>1. starts[p] \in [step : Steps, key : MasterKeySet \cup {Plain}, old : MasterKeySet \cup {Plain}]
      BY DEF SecretInv, SecretTypes
    <2>2. starts' = [starts EXCEPT ![p] = [[starts[p] EXCEPT !.step = st] EXCEPT !.key = k]]
      BY DEF Become, SecretInv, SecretTypes
    <2>3. [[starts[p] EXCEPT !.step = st] EXCEPT !.key = k] = r
      <3>1. starts[p] = [step |-> starts[p].step, key |-> starts[p].key, old |-> starts[p].old]
        BY <2>1
      <3> DEFINE x == [step |-> starts[p].step, key |-> starts[p].key, old |-> starts[p].old]
             y == [step |-> st, key |-> starts[p].key, old |-> starts[p].old]
      <3>2. [x EXCEPT !.step = st] = y /\ [y EXCEPT !.key = k] = r
        OBVIOUS
      <3> HIDE DEF x, y, r
      <3> QED
        BY <3>1, <3>2 DEF x
    <2> QED
      BY <2>2, <2>3
  <1>3. r.step = st /\ r.key = k
    OBVIOUS
  <1> HIDE DEF r
  <1> QED
    BY <1>1, <1>2, <1>3, OneMoves

\* Every step keeps it.
LEMMA SecretStep == SecretInv /\ [NextSecrets]_secretVars => SecretInv'
  <1> SUFFICES ASSUME SecretInv, [NextSecrets]_secretVars PROVE SecretInv'
    OBVIOUS
  <1>1. ASSUME NEW p \in Processes, Create(p) PROVE SecretInv'
    <2>1. CASE MayCreate
      <3>1. file = NoFile /\ file' = Partial /\ starts' = [starts EXCEPT ![p].step = "writes"] /\ starts[p].step = "creates"
            /\ UNCHANGED <<stateless, envSet, legacyRow, creds>>
        BY <1>1, <2>1 DEF Create, MayCreate
      <3>2. SecretTypes' /\ ~stateless /\ ~envSet /\ starts'[p] = [starts[p] EXCEPT !.step = "writes"]
            /\ \A q \in Processes \ {p} : starts'[q] = starts[q]
        BY <3>1 DEF SecretInv, SecretTypes, KeyHolders, Steps
      <3>3. \A q \in Processes : starts[q].step \notin {"verifies", "serves", "commits", "writes"}
        <4>1. OneKey \notin MasterKeySet
          BY <3>1, <3>2, MasterKeysAssumption DEF OneKey
        <4>2. file # Partial
          BY <3>1, <3>2, MasterKeysAssumption DEF SecretInv, KeyHolders, NeededFile
        <4> QED
          BY <4>1, <4>2 DEF SecretInv, KeyHolders
      <3>4. starts'[p].step = "writes" /\ starts'[p].key = starts[p].key /\ starts[p].key \in MasterKeySet
        BY <1>1, <3>1, <3>2 DEF SecretInv, SecretTypes, KeyHolders
      <3>5. KeyHolders'
        BY <3>1, <3>2, <3>3, <3>4 DEF KeyHolders, SecretInv
      <3>6. MigratesAlone'
        BY <1>1, <3>1, <3>2, MasterKeysAssumption DEF SecretInv, MigratesAlone, Stopped, Processes
      <3>7. NeededFile' /\ \A k \in Encrypted' : creds'[k] \in Durable'
        BY <3>1, <3>2 DEF SecretInv, NeededFile, Encrypted, Durable
      <3> QED
        BY <3>2, <3>5, <3>6, <3>7 DEF SecretInv
    <2> QED
      BY <1>1, <2>1, Refuses DEF Create
  <1>2. ASSUME NEW p \in Processes, WriteFile(p) PROVE SecretInv'
    <2> DEFINE st == IF p = Migrator THEN "commits" ELSE "verifies"
    <2>1. /\ starts[p].step = "writes" /\ file' = starts[p].key /\ starts' = [starts EXCEPT ![p].step = st]
          /\ UNCHANGED <<stateless, envSet, legacyRow, creds>>
      BY <1>2 DEF WriteFile
    <2>2. /\ ~stateless /\ ~envSet /\ file = Partial /\ starts[p].key \in MasterKeySet
          /\ \A q \in Processes : starts[q].step = "writes" => q = p
      BY <2>1 DEF SecretInv, KeyHolders
    <2>3. SecretTypes' /\ starts'[p] = [starts[p] EXCEPT !.step = st] /\ \A q \in Processes \ {p} : starts'[q] = starts[q]
      BY <2>1, <2>2 DEF SecretInv, SecretTypes, Steps
    <2>4. \A q \in Processes : starts[q].step \notin {"verifies", "serves", "commits"}
      BY <2>2, MasterKeysAssumption DEF SecretInv, KeyHolders, OneKey, MasterKeySet
    <2>5. starts'[p].step = st /\ starts'[p].key = starts[p].key /\ OneKey' = starts[p].key
      BY <2>1, <2>2, <2>3 DEF SecretInv, SecretTypes, OneKey
    <2>6. KeyHolders'
      BY <2>1, <2>2, <2>3, <2>4, <2>5 DEF KeyHolders, SecretInv
    <2>7. MigratesAlone'
      BY <2>1, <2>3, MasterKeysAssumption DEF SecretInv, MigratesAlone, Stopped, Processes
    <2>8. NeededFile' /\ \A k \in Encrypted' : creds'[k] \in Durable'
      BY <2>1, <2>2 DEF SecretInv, NeededFile, Encrypted, Durable
    <2> QED
      BY <2>3, <2>6, <2>7, <2>8 DEF SecretInv
  <1>3. ASSUME NEW p \in Processes, Verify(p) PROVE SecretInv'
    <2>1. starts[p].step = "verifies" /\ starts[p].key = OneKey /\ OneKey \in MasterKeySet
      BY <1>3 DEF Verify, SecretInv, KeyHolders
    <2> QED
      BY <1>3, <2>1, Refuses, Becomes DEF Verify, Steps
  <1>4. ASSUME NEW p \in Processes, Exit(p) PROVE SecretInv'
    BY <1>4, Refuses DEF Exit
  <1>5. ASSUME NEW w \in Starters, StartUp(w) PROVE SecretInv'
    <2>1. w \in Processes /\ w # Migrator /\ starts[w].step = "idle" /\ starts[Migrator].step = "idle" /\ Load(w)
          /\ UNCHANGED <<stateless, envSet, file, legacyRow, creds>>
      BY <1>5, MasterKeysAssumption DEF StartUp, Processes
    <2>2. w \in MasterKeySet /\ Given \in MasterKeySet /\ EnvKey \in MasterKeySet
      BY <2>1 DEF MasterKeySet, Given
    <2>3. CASE Refuse(w)
      BY <2>1, <2>3, Refuses
    <2>4. CASE (stateless \/ envSet) /\ Become(w, "verifies", Given)
      BY <2>1, <2>2, <2>4, Becomes DEF OneKey, Steps
    <2>5. CASE ~stateless /\ ~envSet /\ file \notin {NoFile, Partial} /\ Become(w, "verifies", file)
      <3>1. file \in MasterKeySet
        BY <2>5 DEF SecretInv, SecretTypes
      <3> QED
        BY <2>1, <2>5, <3>1, Becomes DEF OneKey, Steps
    <2>6. CASE ~stateless /\ ~envSet /\ Become(w, "creates", w)
      BY <2>1, <2>2, <2>6, Becomes DEF Steps
    <2> QED
      BY <2>1, <2>3, <2>4, <2>5, <2>6 DEF Load, Given, SecretInv, NeededFile
  <1>6. ASSUME NEW w \in Starters, NEW c \in Credentials, Encrypt(w, c) PROVE SecretInv'
    <2>1. /\ w \in Processes /\ starts[w].step = "serves" /\ starts[w].key = OneKey /\ OneKey \in MasterKeySet
          /\ creds' = [creds EXCEPT ![c] = OneKey] /\ UNCHANGED <<stateless, envSet, file, legacyRow, starts>>
      BY <1>6 DEF Encrypt, SecretInv, KeyHolders, Processes
    <2>2. SecretTypes' /\ OneKey' = OneKey /\ Durable' = Durable
      BY <2>1 DEF SecretInv, SecretTypes, OneKey, Given, Durable
    <2>3. OneKey \in Durable
      BY <2>1, MasterKeysAssumption DEF OneKey, Durable, Given, MasterKeySet
    <2>4. \A k \in Encrypted' : creds'[k] = OneKey \/ (k \in Encrypted /\ creds'[k] = creds[k])
      BY <2>1 DEF Encrypted, SecretInv, SecretTypes
    <2>5. KeyHolders'
      BY <2>1, <2>2, <2>4 DEF SecretInv, KeyHolders
    <2> QED
      BY <2>1, <2>2, <2>3, <2>4, <2>5 DEF SecretInv, NeededFile, MigratesAlone, Stopped
  <1>7. ASSUME NEW old \in {LegacyKey, DefaultKey}, Migrate(old) PROVE SecretInv'
    <2>1. /\ Migrator \in Processes /\ starts[Migrator].step = "idle" /\ Stopped
          /\ UNCHANGED <<stateless, envSet, file, legacyRow, creds>>
          /\ old \in MasterKeySet /\ Given \in MasterKeySet /\ Migrator \in MasterKeySet
      BY <1>7 DEF Migrate, Processes, MasterKeySet, Given
    <2> DEFINE rec(st, k) == [step |-> st, key |-> k, old |-> old]
    <2>2. ASSUME NEW k \in MasterKeySet, starts' = [starts EXCEPT ![Migrator] = rec("commits", k)], k = OneKey
          PROVE  SecretInv'
      <3>1. rec("commits", k) \in [step : Steps, key : MasterKeySet \cup {Plain}, old : MasterKeySet \cup {Plain}]
        BY <2>1 DEF Steps
      <3>2. rec("commits", k).step = "commits" /\ rec("commits", k).key = k
        OBVIOUS
      <3> QED
        BY <2>1, <2>2, <3>1, <3>2, OneMoves
    <2>3. CASE ~stateless /\ ~envSet /\ starts' = [starts EXCEPT ![Migrator] = rec("creates", Migrator)]
      <3>1. rec("creates", Migrator) \in [step : Steps, key : MasterKeySet \cup {Plain}, old : MasterKeySet \cup {Plain}]
        BY <2>1 DEF Steps
      <3>2. rec("creates", Migrator).step = "creates" /\ rec("creates", Migrator).key = Migrator
        OBVIOUS
      <3> QED
        BY <2>1, <2>3, <3>1, <3>2, OneMoves
    <2>4. CASE Refuse(Migrator)
      BY <2>1, <2>4, Refuses
    <2>5. CASE ~stateless /\ file \notin {NoFile, Partial} /\ starts' = [starts EXCEPT ![Migrator] = rec("commits", file)]
      <3>1. file \in MasterKeySet /\ file = OneKey
        BY <2>5 DEF SecretInv, SecretTypes, OneKey, NeededFile
      <3> QED
        BY <2>2, <2>5, <3>1
    <2>6. CASE (stateless \/ envSet) /\ starts' = [starts EXCEPT ![Migrator] = rec("commits", Given)]
      BY <2>1, <2>2, <2>6 DEF OneKey
    <2> QED
      BY <1>7, <2>3, <2>4, <2>5, <2>6 DEF Migrate
  <1>8. CASE Rewrap
    <2>1. starts[Migrator].step = "commits" /\ UNCHANGED <<stateless, envSet, file>> /\ Migrator \in Processes
      BY <1>8 DEF Rewrap, Processes
    <2>2. CASE Refuse(Migrator) /\ UNCHANGED <<legacyRow, creds>>
      BY <2>1, <2>2, Refuses
    <2>3. CASE /\ creds' = [c \in Credentials |-> starts[Migrator].key] /\ Become(Migrator, "verifies", starts[Migrator].key)
      <3>1. Stopped /\ starts[Migrator].key = OneKey /\ OneKey \in MasterKeySet
        BY <2>1 DEF SecretInv, MigratesAlone, KeyHolders
      <3>2. SecretTypes' /\ OneKey' = OneKey /\ Durable' = Durable
        BY <2>1, <2>3, <3>1, ZenonT(60) DEF SecretInv, SecretTypes, OneKey, Given, Durable, Become, Steps
      <3>3. OneKey \in Durable
        BY <3>1, MasterKeysAssumption DEF OneKey, Durable, Given, MasterKeySet
      <3>4. /\ starts'[Migrator].step = "verifies" /\ starts'[Migrator].key = OneKey
            /\ \A w \in Processes \ {Migrator} : starts'[w] = starts[w] /\ starts[w].step = "idle"
        BY <2>1, <2>3, <3>1 DEF SecretInv, SecretTypes, Become, Stopped, Processes
      <3>5. KeyHolders'
        BY <3>1, <3>2, <3>4 DEF KeyHolders
      <3>6. MigratesAlone'
        BY <3>4, MasterKeysAssumption DEF MigratesAlone, Stopped, Processes
      <3> QED
        BY <2>1, <2>3, <3>1, <3>2, <3>3, <3>5, <3>6 DEF SecretInv, NeededFile, Encrypted
    <2> QED
      BY <1>8, <2>2, <2>3 DEF Rewrap
  <1>9. CASE Repair
    <2>1. file = Partial /\ file' = NoFile /\ Stopped /\ starts[Migrator].step = "idle"
          /\ UNCHANGED <<stateless, envSet, legacyRow, creds, starts>>
      BY <1>9 DEF Repair
    <2>2. \A p \in Processes : starts[p].step = "idle"
      BY <2>1 DEF Stopped, Processes
    <2>3. KeyHolders'
      BY <2>1, <2>2 DEF KeyHolders
    <2>4. Durable' = Durable /\ Encrypted' = Encrypted
      BY <2>1 DEF Durable, Encrypted
    <2> QED
      BY <2>1, <2>3, <2>4 DEF SecretInv, SecretTypes, NeededFile, MigratesAlone, Stopped
  <1>10. CASE UNCHANGED secretVars
    BY <1>10 DEF secretVars, SecretInv, SecretTypes, KeyHolders, OneKey, Given, Encrypted, NeededFile, MigratesAlone, Stopped, Durable
  <1> QED
    BY <1>1, <1>2, <1>3, <1>4, <1>5, <1>6, <1>7, <1>8, <1>9, <1>10 DEF NextSecrets

\* Whatever process starts, whatever it finds and wherever it exits, stored
\* credentials stay readable with the key that is given or kept
\* (utils/secrets.py, migrate_secrets.py).
THEOREM CredentialsAreKept == SpecSecrets => []CredentialsKept
  <1>1. SecretInv => CredentialsKept
    BY DEF SecretInv, KeyHolders, CredentialsKept, Processes
  <1> QED
    BY <1>1, SecretInit, SecretStep, PTL DEF SpecSecrets


----------------------------------------------------------------------------
(* Videos and the keys that created them (UpstreamKeys).  A video comes to  *)
(* one key, once; the job of its owner and every remix of it hold that key. *)

\* A record of a call has no other fields
IsCall(r) == r = [step |-> r.step, keys |-> r.keys, key |-> r.key, rotations |-> r.rotations,
                  source |-> r.source, job |-> r.job]
\* v is the video of a call of u, and of nobody else
Owned(u, v) == \A d \in Jobs : VideoOf[d] = v => UserOf[d] = u

\* The type invariant, and what every part of the home of a video knows of it
KeyTypes ==
    /\ call = [d \in Jobs |-> call[d]] /\ \A d \in Jobs : IsCall(call[d])
    /\ jobs = [p \in Users \X Videos |-> jobs[p]] /\ home = [v \in Videos |-> home[v]]
HomesMade == \A v \in Videos : home[v] # NoUpstreamKey => \E d \in Jobs : VideoOf[d] = v /\ call[d].step = "created"
JobsHome == \A u \in Users, v \in Videos : jobs[<<u, v>>] # NoUpstreamKey => jobs[<<u, v>>] = home[v] /\ Owned(u, v)
RemixHome(r, d) == r.source \in Videos /\ r.job # NoUpstreamKey /\ r.job = home[r.source] /\ Owned(UserOf[d], r.source)
RemixesHome == \A d \in Remixes : call[d].step # "new" => RemixHome(call[d], d)
\* The inductive invariant
KeyInv == KeyTypes /\ HomesMade /\ JobsHome /\ RemixesHome /\ HomeReached

\* A call that goes to the home of a video is made with its key
LEMMA VisitHome ==
    ASSUME NEW user, NEW video, NEW keys, NEW key,
           visit' = VisitOf(user, video, keys, key), home'[video] = key, Owned(user, video)
    PROVE  HomeReached'
  BY DEF VisitOf, UpstreamKeyFor, HomeReached, Owned

\* What the steps of a call write into its record
LEMMA StepEdit ==
    ASSUME NEW q, IsCall(q), NEW e, NEW r, r = [q EXCEPT !.step = e]
    PROVE  IsCall(r) /\ r.step = e /\ r.source = q.source /\ r.job = q.job
  BY DEF IsCall

\* Where no call goes, none goes astray.
LEMMA NoVisit == visit' = {} => HomeReached'
  BY DEF HomeReached

\* One call takes a step that keeps its source, or that starts it
LEMMA CallMoves ==
    ASSUME KeyInv, NEW d \in Jobs, NEW r, call' = [call EXCEPT ![d] = r], IsCall(r),
           UNCHANGED <<jobs, home>>, call[d].step # "created", r.step # "new",
           \/ call[d].step # "new" /\ r.source = call[d].source /\ r.job = call[d].job
           \/ d \in Remixes => RemixHome(r, d),
           HomeReached'
    PROVE  KeyInv'
  <1>1. call'[d] = r /\ \A x \in Jobs \ {d} : call'[x] = call[x]
    BY DEF KeyInv, KeyTypes
  <1>2. KeyTypes'
    BY <1>1 DEF KeyInv, KeyTypes
  <1>3. HomesMade'
    BY <1>1 DEF KeyInv, HomesMade
  <1>4. RemixesHome'
    BY <1>1, UpstreamKeysAssumption DEF KeyInv, RemixesHome, RemixHome
  <1> QED
    BY <1>2, <1>3, <1>4 DEF KeyInv, JobsHome

\* A remix asks for the video that it remixes
LEMMA VisitKept ==
    ASSUME KeyInv, NEW d \in Jobs, call[d].step # "new", Visit(d),
           d \in Remixes => home'[call[d].source] = home[call[d].source]
    PROVE  HomeReached'
  <1>1. CASE d \in Remixes
    BY <1>1, VisitHome DEF Visit, KeyInv, RemixesHome, RemixHome
  <1>2. CASE d \notin Remixes
    BY <1>2, NoVisit DEF Visit
  <1> QED
    BY <1>1, <1>2

\* Every step keeps it.
LEMMA KeyStep == KeyInv /\ [NextKeys]_keyVars => KeyInv'
  <1> SUFFICES ASSUME KeyInv, [NextKeys]_keyVars PROVE KeyInv'
    OBVIOUS
  <1>1. ASSUME NEW d \in Jobs PROVE IsCall(call[d])
    BY DEF KeyInv, KeyTypes
  <1>2. ASSUME NEW d \in Jobs, NEW st \in {"refused", "failed", "created"}, call' = [call EXCEPT ![d].step = st]
        PROVE  \E r : /\ call' = [call EXCEPT ![d] = r] /\ IsCall(r) /\ r.step = st
                      /\ r.source = call[d].source /\ r.job = call[d].job
    <2> DEFINE r == [call[d] EXCEPT !.step = st]
    <2>1. call' = [call EXCEPT ![d] = r]
      BY <1>2
    <2>2. IsCall(r) /\ r.step = st /\ r.source = call[d].source /\ r.job = call[d].job
      BY <1>1, StepEdit
    <2> QED
      BY <2>1, <2>2
  <1>3. ASSUME NEW d \in Jobs, NEW video \in Videos \cup {NoVideo}, Start(d, video) PROVE KeyInv'
    <2> PICK q : q = call[d]
      OBVIOUS
    <2> PICK job : job = IF d \in Remixes THEN jobs[<<UserOf[d], video>>] ELSE NoUpstreamKey
      OBVIOUS
    <2> PICK r : r = [q EXCEPT !.step = "keyed", !.keys = pool, !.source = video, !.job = job]
      OBVIOUS
    <2>1. call' = [call EXCEPT ![d] = r] /\ UNCHANGED <<jobs, home>> /\ visit' = {} /\ call[d].step = "new"
      BY <1>3 DEF Start
    <2>2. IsCall(r) /\ r.step = "keyed" /\ r.source = video
          /\ r.job = IF d \in Remixes THEN jobs[<<UserOf[d], video>>] ELSE NoUpstreamKey
      <3>1. IsCall(q)
        BY <1>1
      <3> QED
        BY <3>1 DEF IsCall
    <2>3. ASSUME d \in Remixes PROVE RemixHome(r, d)
      <3>1. video \in Videos /\ UserOf[d] \in Users /\ jobs[<<UserOf[d], video>>] # NoUpstreamKey
        BY <1>3, <2>3, UpstreamKeysAssumption DEF Start, Found
      <3> QED
        BY <2>2, <2>3, <3>1 DEF RemixHome, KeyInv, JobsHome
    <2> QED
      BY <2>1, <2>2, <2>3, NoVisit, CallMoves
  <1>4. ASSUME NEW d \in Jobs, SelectKey(d) PROVE KeyInv'
    <2>1. call[d].step = "keyed" /\ UNCHANGED <<jobs, home>> /\ visit' = {}
      BY <1>4 DEF SelectKey
    <2>2. ASSUME NEW k, call' = [call EXCEPT ![d] = [@ EXCEPT !.step = "sends", !.key = k]] PROVE KeyInv'
      <3> PICK q : q = call[d]
        OBVIOUS
      <3> PICK r : r = [q EXCEPT !.step = "sends", !.key = k]
        OBVIOUS
      <3>1. call' = [call EXCEPT ![d] = r]
        BY <2>2
      <3>2. IsCall(r) /\ r.step = "sends" /\ r.source = call[d].source /\ r.job = call[d].job
        <4>1. IsCall(q)
          BY <1>1
        <4> QED
          BY <4>1 DEF IsCall
      <3> QED
        BY <2>1, <3>1, <3>2, NoVisit, CallMoves
    <2>3. CASE call' = [call EXCEPT ![d].step = "refused"]
      <3> PICK r : /\ call' = [call EXCEPT ![d] = r] /\ IsCall(r) /\ r.step = "refused"
                   /\ r.source = call[d].source /\ r.job = call[d].job
        BY <1>2, <2>3
      <3> QED
        BY <2>1, NoVisit, CallMoves
    <2> QED
      BY <1>4, <2>2, <2>3 DEF SelectKey
  <1>5. ASSUME NEW d \in Jobs, Rotate(d) PROVE KeyInv'
    <2>1. call[d].step = "sends" /\ UNCHANGED <<jobs, home>> /\ Visit(d)
      BY <1>5 DEF Rotate
    <2>2. HomeReached'
      BY <2>1, VisitKept
    <2>3. ASSUME NEW k, call' = [call EXCEPT ![d] = [@ EXCEPT !.key = k, !.rotations = call[d].rotations + 1]]
          PROVE  KeyInv'
      <3> PICK q : q = call[d]
        OBVIOUS
      <3> PICK r : r = [q EXCEPT !.key = k, !.rotations = q.rotations + 1]
        OBVIOUS
      <3>1. call' = [call EXCEPT ![d] = r]
        BY <2>3
      <3>2. IsCall(r) /\ r.step = call[d].step /\ r.source = call[d].source /\ r.job = call[d].job
        <4>1. IsCall(q)
          BY <1>1
        <4> QED
          BY <4>1 DEF IsCall
      <3> QED
        BY <2>1, <2>2, <3>1, <3>2, CallMoves
    <2>4. CASE call' = [call EXCEPT ![d].step = "failed"]
      <3> PICK r : /\ call' = [call EXCEPT ![d] = r] /\ IsCall(r) /\ r.step = "failed"
                   /\ r.source = call[d].source /\ r.job = call[d].job
        BY <1>2, <2>4
      <3> QED
        BY <2>1, <2>2, CallMoves
    <2> QED
      BY <1>5, <2>3, <2>4 DEF Rotate
  <1>6. ASSUME NEW d \in Jobs, Created(d) PROVE KeyInv'
    <2> DEFINE v == VideoOf[d]
               u == UserOf[d]
    <2>1. /\ call[d].step = "sends" /\ Visit(d) /\ call' = [call EXCEPT ![d].step = "created"]
          /\ home' = [home EXCEPT ![v] = Sent(d)] /\ jobs' = [jobs EXCEPT ![<<u, v>>] = Sent(d)]
      BY <1>6 DEF Created, KeyUsed
    <2>2. v \in Videos /\ u \in Users /\ \A x \in Jobs : VideoOf[x] = v => x = d
      BY UpstreamKeysAssumption
    <2>3. home[v] = NoUpstreamKey
      BY <2>1, <2>2 DEF KeyInv, HomesMade
    <2>4. home'[v] = Sent(d) /\ \A w \in Videos \ {v} : home'[w] = home[w]
      BY <2>1, <2>2 DEF KeyInv, KeyTypes
    <2>5. /\ jobs'[<<u, v>>] = Sent(d)
          /\ \A a \in Users, w \in Videos : ~(a = u /\ w = v) => jobs'[<<a, w>>] = jobs[<<a, w>>]
      BY <2>1, <2>2 DEF KeyInv, KeyTypes
    <2> PICK r : /\ call' = [call EXCEPT ![d] = r] /\ IsCall(r) /\ r.step = "created"
                 /\ r.source = call[d].source /\ r.job = call[d].job
      BY <1>2, <2>1
    <2>6. call'[d] = r /\ \A x \in Jobs \ {d} : call'[x] = call[x]
      BY DEF KeyInv, KeyTypes
    <2>7. KeyTypes'
      <3>1. call' = [x \in Jobs |-> call'[x]] /\ jobs' = [p \in Users \X Videos |-> jobs'[p]] /\ home' = [w \in Videos |-> home'[w]]
        BY <2>1 DEF KeyInv, KeyTypes
      <3> QED
        BY <2>6, <3>1, <1>1 DEF KeyTypes
    <2>8. HomesMade'
      BY <2>2, <2>4, <2>6 DEF KeyInv, HomesMade
    <2>9. JobsHome'
      BY <2>2, <2>3, <2>4, <2>5 DEF KeyInv, JobsHome, Owned
    <2>10. ASSUME NEW x \in Remixes, call[x].step # "new" PROVE call[x].source # v /\ home'[call[x].source] = home[call[x].source]
      BY <2>3, <2>4, <2>10 DEF KeyInv, RemixesHome, RemixHome
    <2>11. RemixesHome'
      BY <2>1, <2>6, <2>10, UpstreamKeysAssumption DEF KeyInv, RemixesHome, RemixHome
    <2>12. HomeReached'
      BY <2>1, <2>10, VisitKept
    <2> QED
      BY <2>7, <2>8, <2>9, <2>11, <2>12 DEF KeyInv
  <1>7. ASSUME NEW user \in Users, NEW video \in Videos, Retrieve(user, video) \/ Delete(user, video) PROVE KeyInv'
    <2>1. /\ jobs[<<user, video>>] # NoUpstreamKey /\ UNCHANGED <<call, home>>
          /\ visit' = VisitOf(user, video, pool, jobs[<<user, video>>])
          /\ jobs' \in {jobs, [jobs EXCEPT ![<<user, video>>] = NoUpstreamKey]}
      BY <1>7 DEF Retrieve, Delete, Found
    <2>2. HomeReached'
      BY <2>1, VisitHome DEF KeyInv, JobsHome
    <2>3. jobs' = [p \in Users \X Videos |-> jobs'[p]] /\ \A a \in Users, w \in Videos : jobs'[<<a, w>>] \in {jobs[<<a, w>>], NoUpstreamKey}
      BY <2>1 DEF KeyInv, KeyTypes
    <2>4. JobsHome'
      BY <2>1, <2>3 DEF KeyInv, JobsHome
    <2> QED
      BY <2>1, <2>2, <2>3, <2>4 DEF KeyInv, KeyTypes, HomesMade, RemixesHome, RemixHome
  <1>8. ASSUME UNCHANGED <<call, jobs, home>>, visit' = {} \/ UNCHANGED visit PROVE KeyInv'
    BY <1>8 DEF KeyInv, KeyTypes, HomesMade, RemixesHome, RemixHome, JobsHome, HomeReached
  <1>9. (\E k \in UpstreamKeySet : Warm(k)) \/ Change \/ UNCHANGED keyVars => KeyInv'
    BY <1>8 DEF Warm, Change, keyVars
  <1> QED
    BY <1>3, <1>4, <1>5, <1>6, <1>7, <1>9 DEF NextKeys

\* No video was created.
LEMMA KeyInit == InitKeys => KeyInv
  BY UpstreamKeysAssumption DEF InitKeys, KeyInv, KeyTypes, IsCall, HomesMade, RemixesHome, RemixHome, JobsHome, HomeReached

\* Every later call for a video, its status, content and remixes included, is
\* made with the upstream key that created it (services/video_jobs.py,
\* services/key_pool.py).
THEOREM VideosReachHome == SpecKeys => []HomeReached
  <1>1. KeyInv => HomeReached
    BY DEF KeyInv
  <1> QED
    BY <1>1, KeyInit, KeyStep, PTL DEF SpecKeys


----------------------------------------------------------------------------
(* The relay and the check read a stream alike (Streams) *)

\* The shape of the two readers' state
IsRelay(r) == r = [state |-> r.state, choices |-> r.choices, finished |-> r.finished, metered |-> r.metered,
                   usage |-> r.usage, prompt |-> r.prompt]

\* The type invariant
StreamTypes ==
    /\ sent \in Nat /\ wrote \in Nat
    /\ IsRelay(relay) /\ relay.state \in RelayStates /\ relay.metered \in Nat /\ relay.prompt \in BOOLEAN
    /\ check = [state |-> check.state, text |-> check.text] /\ check.state \in {"reads", "passed", "failed"}

\* While the relay reads, its meter and the usage it was told of are those of
\* the upstream; usage comes last, so nothing is generated after it
MeterExact ==
    relay.state = "reads" =>
        /\ relay.metered = wrote
        /\ IF "completion" \in reported THEN relay.usage = wrote ELSE relay.usage = NotReported
        /\ (relay.prompt <=> "prompt" \in reported)

\* A reader that has reached an end has it at the stream's end, and an error that
\* stops the relay stops the check
EndsAlike ==
    /\ relay.state \in {"complete", "unfinished"} => sent = MaxEvents + 1
    /\ check.state = "passed" => sent = MaxEvents + 1
    /\ relay.state = "failed" => check.state = "failed"

\* The inductive invariant
StreamInv == StreamTypes /\ MeterExact /\ EndsAlike /\ AllBilled /\ CheckedWorks

\* What Feed makes of the relay's state, field by field.
LEMMA FedRelay ==
    ASSUME NEW e, NEW c, NEW tells, IsRelay(relay), relay.state = "reads", Feed(e, c, tells)
    PROVE  /\ IsRelay(relay')
           /\ relay'.state = (IF e = "error" THEN "failed" ELSE IF Ends(e) THEN "complete" ELSE "reads")
           /\ relay'.usage = (IF "completion" \in tells THEN wrote' ELSE relay.usage)
           /\ relay'.prompt = (relay.prompt \/ "prompt" \in tells)
           /\ relay'.metered = (IF Generates(e) THEN relay.metered + 1 ELSE relay.metered)
<1>1. PICK q : q = relay OBVIOUS
<1>2. PICK r : r = [q EXCEPT !.usage = IF "completion" \in tells THEN wrote' ELSE @,
                             !.prompt = @ \/ "prompt" \in tells,
                             !.choices = @ \cup Seen(e, c),
                             !.finished = IF e = "finish" THEN @ \cup {c} ELSE @,
                             !.metered = IF Generates(e) THEN @ + 1 ELSE @] OBVIOUS
<1>3. /\ IsRelay(r) /\ r.state = q.state
      /\ r.usage = (IF "completion" \in tells THEN wrote' ELSE q.usage)
      /\ r.prompt = (q.prompt \/ "prompt" \in tells)
      /\ r.metered = (IF Generates(e) THEN q.metered + 1 ELSE q.metered)
  BY <1>1, <1>2 DEF IsRelay
<1>4. relay' = [r EXCEPT !.state = IF e = "error" THEN "failed" ELSE IF Ends(e) THEN "complete" ELSE "reads"]
  BY <1>1, <1>2 DEF Feed, Stops
<1>. QED BY <1>1, <1>3, <1>4 DEF IsRelay

\* At the start nothing is generated, and nothing is metered.
LEMMA StreamInit == InitStreams => StreamInv
<1> SUFFICES ASSUME InitStreams PROVE StreamInv OBVIOUS
<1>1. relay.state = "reads" /\ relay.metered = 0 /\ relay.usage = NotReported /\ relay.prompt = FALSE
      /\ IsRelay(relay)
  BY DEF InitStreams, IsRelay
<1>2. check = [state |-> check.state, text |-> check.text] /\ check.state = "reads"
  BY DEF InitStreams
<1>3. StreamTypes BY <1>1, <1>2 DEF InitStreams, StreamTypes, RelayStates
<1>4. ~("prompt" \in reported) /\ ~("completion" \in reported) /\ wrote = 0 BY DEF InitStreams
<1>5. (relay.prompt <=> "prompt" \in reported) BY <1>1, <1>4
<1>6. MeterExact BY <1>1, <1>4, <1>5 DEF MeterExact
<1>7. EndsAlike /\ AllBilled /\ CheckedWorks BY <1>1, <1>2 DEF EndsAlike, AllBilled, CheckedWorks
<1>. QED BY <1>3, <1>6, <1>7 DEF StreamInv

\* Every event and every end keeps meter, bill and verdict together.
LEMMA StreamStep == StreamInv /\ [NextStreams]_streamVars => StreamInv'
<1> SUFFICES ASSUME StreamInv, [NextStreams]_streamVars PROVE StreamInv' OBVIOUS
<1>0. StreamTypes /\ MeterExact /\ EndsAlike /\ AllBilled /\ CheckedWorks /\ MaxEvents \in Nat
  BY StreamsAssumption DEF StreamInv
<1>1. ASSUME NEW e \in Events, NEW c \in ChoiceIds, NEW tells \in MayTell(e), Send(e, c, tells) PROVE StreamInv'
  <2>1. sent \in Nat /\ sent < MaxEvents /\ sent' = (IF Ends(e) THEN MaxEvents + 1 ELSE sent + 1)
    BY <1>0, <1>1 DEF Send, StreamTypes
  <2>2. relay.state \notin {"complete", "unfinished"} /\ check.state # "passed"
    BY <2>1, <1>0 DEF EndsAlike
  <2>3. /\ check' = [state |-> check'.state, text |-> check'.text]
        /\ check'.state = (IF check.state # "reads" THEN check.state
                           ELSE IF Passes(e) THEN "passed" ELSE IF Fails(e) THEN "failed" ELSE "reads")
    BY <1>0, <1>1 DEF Send, Examine, StreamTypes
  <2>4. CASE relay.state = "reads"
    <3>1. Feed(e, c, tells) /\ IsRelay(relay) BY <1>0, <1>1 DEF Send, StreamTypes
    <3>2. /\ IsRelay(relay')
          /\ relay'.state = (IF e = "error" THEN "failed" ELSE IF Ends(e) THEN "complete" ELSE "reads")
          /\ relay'.usage = (IF "completion" \in tells THEN wrote' ELSE relay.usage)
          /\ relay'.prompt = (relay.prompt \/ "prompt" \in tells)
          /\ relay'.metered = (IF Generates(e) THEN relay.metered + 1 ELSE relay.metered)
      BY <2>4, <3>1, FedRelay
    <3>3. /\ wrote' = (IF Generates(e) THEN wrote + 1 ELSE wrote) /\ reported' = reported \cup tells
          /\ Generates(e) => "completion" \notin reported
      BY <1>1, <2>4 DEF Send, Abandoned
    <3>4. wrote \in Nat /\ relay.metered = wrote /\ (relay.prompt <=> "prompt" \in reported)
          /\ relay.usage = (IF "completion" \in reported THEN wrote ELSE NotReported)
      BY <1>0, <2>4 DEF StreamTypes, MeterExact
    <3>5. relay'.metered = wrote' /\ wrote' \in Nat
      BY <3>2, <3>3, <3>4
    <3>6. relay'.usage = (IF "completion" \in reported' THEN wrote' ELSE NotReported)
      <4>1. CASE "completion" \in tells BY <4>1, <3>2, <3>3
      <4>2. CASE "completion" \notin tells BY <4>2, <3>2, <3>3, <3>4
      <4>. QED BY <4>1, <4>2
    <3>7. relay'.prompt <=> "prompt" \in reported' BY <3>2, <3>3, <3>4
    <3>8. StreamTypes' BY <2>1, <2>3, <3>2, <3>5, <3>7, <1>0 DEF StreamTypes, RelayStates
    <3>9. AllBilled' /\ MeterExact' BY <3>5, <3>6, <3>7 DEF AllBilled, MeterExact, Output, NotReported
    <3>10. EndsAlike' /\ CheckedWorks'
      BY <2>1, <2>2, <2>3, <3>2, <1>0 DEF EndsAlike, CheckedWorks, Passes, Fails, Ends, StreamTypes
    <3>. QED BY <3>8, <3>9, <3>10 DEF StreamInv
  <2>5. CASE relay.state # "reads"
    <3>1. relay.state \in {"failed", "left"} BY <1>0, <2>2, <2>5 DEF StreamTypes, RelayStates
    <3>2. UNCHANGED <<relay, wrote, reported>> BY <1>1, <2>5, <3>1 DEF Send, Feed, Abandoned
    <3>3. EndsAlike' /\ CheckedWorks'
      BY <1>0, <2>1, <2>2, <2>3, <3>1, <3>2 DEF EndsAlike, CheckedWorks, Passes, Fails, Ends, StreamTypes
    <3>4. StreamTypes' BY <1>0, <2>1, <2>3, <3>2 DEF StreamTypes
    <3>. QED BY <1>0, <3>2, <3>3, <3>4 DEF StreamInv, AllBilled, MeterExact, Output
  <2>. QED BY <2>4, <2>5
<1>2. CASE Eof
  <2>1. sent' = MaxEvents + 1 /\ sent # MaxEvents + 1 /\ UNCHANGED <<wrote, reported>>
    BY <1>0, <1>2 DEF Eof, StreamTypes
  <2>2. check.state # "passed" /\ check' = [state |-> check'.state, text |-> check'.text]
        /\ check'.state = (IF check.state # "reads" THEN check.state ELSE "failed")
    BY <1>0, <1>2, <2>1 DEF Eof, StreamTypes, EndsAlike
  <2>3. /\ IsRelay(relay')
        /\ relay'.metered = relay.metered /\ relay'.usage = relay.usage /\ relay'.prompt = relay.prompt
        /\ relay.state # "reads" => relay' = relay
        /\ relay.state = "reads" => relay'.state \in {"complete", "unfinished"}
    BY <1>0, <1>2 DEF Eof, StreamTypes, IsRelay
  <2>4. StreamTypes' BY <1>0, <2>1, <2>2, <2>3 DEF StreamTypes, RelayStates
  <2>5. AllBilled' /\ MeterExact' BY <1>0, <2>1, <2>3 DEF AllBilled, MeterExact, Output, NotReported, StreamTypes
  <2>6. EndsAlike' /\ CheckedWorks' BY <1>0, <2>1, <2>2, <2>3 DEF EndsAlike, CheckedWorks, StreamTypes
  <2>. QED BY <2>4, <2>5, <2>6 DEF StreamInv
<1>3. CASE ClientLeaves
  <2>1. /\ IsRelay(relay') /\ relay'.state = "left" /\ relay.state = "reads"
        /\ relay'.metered = relay.metered /\ relay'.usage = relay.usage /\ relay'.prompt = relay.prompt
        /\ UNCHANGED <<sent, wrote, reported, check>>
    BY <1>0, <1>3 DEF ClientLeaves, StreamTypes, IsRelay
  <2>2. StreamTypes' BY <1>0, <2>1 DEF StreamTypes, RelayStates
  <2>3. AllBilled' /\ MeterExact' BY <1>0, <2>1 DEF AllBilled, MeterExact, Output, NotReported, StreamTypes
  <2>4. EndsAlike' /\ CheckedWorks' BY <1>0, <2>1 DEF EndsAlike, CheckedWorks
  <2>. QED BY <2>2, <2>3, <2>4 DEF StreamInv
<1>4. CASE UNCHANGED streamVars
  BY <1>0, <1>4 DEF streamVars, StreamInv, StreamTypes, MeterExact, EndsAlike, AllBilled, CheckedWorks, Output, IsRelay
<1>. QED BY <1>1, <1>2, <1>3, <1>4 DEF NextStreams

\* However a stream ends - terminal event, error, lost connection, the client's
\* leaving - it is billed for what was generated until then, and a stream that the
\* check of a channel passes is one that the relay ends (services/proxy.py,
\* services/stream_outcomes.py, services/channel_checks.py).
THEOREM StreamsReadAlike == SpecStreams => []StreamsAgree
<1>1. StreamInv => StreamsAgree BY DEF StreamInv, StreamsAgree
<1>. QED BY <1>1, StreamInit, StreamStep, PTL DEF SpecStreams


----------------------------------------------------------------------------
(* What the endpoints hold and bill (Endpoints) *)

\* What a request is held for: its input, its output and its units
HeldFor(a) ==
    [input  |-> IF a.endpoint = "speech" THEN a.characters ELSE LeastOne(a.text),
     output |-> IF a.cap = Absent THEN DefaultOutput(a.endpoint) ELSE a.cap,
     units  |-> Units(a)]

\* What an upstream may answer
Replies == [prompt : Usages, output : Usages, text : Sizes, searches : Numbers]

\* The bill for what an upstream reported
BillOf(u) == [input  |-> IF u.prompt = Absent THEN hold.input ELSE u.prompt,
              output |-> IF u.output = Absent THEN TextCounted ELSE u.output,
              units  |-> u.units, source |-> Source(u)]

\* A bill is one for a reply, a reply is one to a request that was held for
EndpointInv ==
    /\ ask \in AskedOf
    /\ hold = Unset \/ hold = HeldFor(ask)
    /\ reply = Unset \/ (hold # Unset /\ reply \in Replies)
    /\ bill = Unset \/ (hold # Unset /\ reply # Unset /\ bill = BillOf(UsageRead))

\* What is read of a reply is what it says, or nothing is said; sizes that the
\* reply kept are kept by it.
LEMMA ReadIsSaid ==
    ASSUME ask \in AskedOf, reply \in Replies, hold = HeldFor(ask)
    PROVE  LET u == UsageRead IN
           /\ ReadsUsage /\ reply.prompt # Absent => u.prompt = reply.prompt
           /\ u.prompt # Absent /\ u.output # Absent /\ ask.endpoint # "speech" =>
                reply.prompt # Absent /\ (reply.output # Absent \/ ask.endpoint = "embeddings")
           /\ KeptSize => /\ u.prompt = Absent \/ u.prompt <= hold.input
                          /\ u.output = Absent \/ u.output <= hold.output
                          /\ u.units <= hold.units
<1> DEFINE u == UsageRead
<1>0. /\ Sizes \subseteq Nat /\ FullReply \in Nat /\ Absent \notin Nat /\ Numbers \subseteq Int
      /\ OutputCaps \subseteq Nat \cup {Absent} /\ Usages \subseteq Nat \cup {Absent}
  BY EndpointsAssumption
<1>1. /\ ask.endpoint \in Endpoint /\ ask.characters \in Nat /\ ask.text \in Nat /\ ask.number \in Int
      /\ ask.cap \in Nat \cup {Absent}
  BY <1>0 DEF AskedOf
<1>2. /\ reply.prompt \in Nat \cup {Absent} /\ reply.output \in Nat \cup {Absent} /\ reply.searches \in Int
      /\ reply.text \in Nat
  BY <1>0 DEF Replies
<1>3. /\ hold.input = (IF ask.endpoint = "speech" THEN ask.characters ELSE LeastOne(ask.text))
      /\ hold.output = (IF ask.cap = Absent THEN DefaultOutput(ask.endpoint) ELSE ask.cap)
      /\ hold.units = Units(ask)
  BY DEF HeldFor
<1>4. hold.output \in Nat /\ hold.input \in Nat BY <1>0, <1>1, <1>3 DEF DefaultOutput, LeastOne
<1>5. Units(ask) \in Int BY <1>1 DEF Units, ImageUnits, VideoUnits, LeastOne
<1>6. /\ Or0(reply.prompt) \in Nat /\ Or0(reply.output) \in Nat
      /\ reply.prompt # Absent => Or0(reply.prompt) = reply.prompt
      /\ reply.output # Absent => Or0(reply.output) = reply.output
  BY <1>2 DEF Or0
<1>7. CASE ask.endpoint = "rerank"
  <2>1. u.prompt = Or0(reply.prompt) /\ u.output = Absent /\ u.units = (IF reply.searches = 0 THEN 1 ELSE reply.searches)
    BY <1>7 DEF UsageRead, Reranked, Read
  <2>2. hold.units = 1 BY <1>3, <1>7 DEF Units
  <2>. QED BY <1>6, <1>7, <2>1, <2>2 DEF KeptSize, ReadsUsage
<1>8. CASE ask.endpoint = "speech"
  <2>1. u.prompt = ask.characters /\ u.output = 0 /\ u.units = 1 BY <1>8 DEF UsageRead, Voiced, Read
  <2>2. hold.units = 1 /\ hold.input = ask.characters BY <1>3, <1>8 DEF Units
  <2>. QED BY <1>1, <1>4, <1>8, <2>1, <2>2 DEF ReadsUsage
<1>9. CASE ask.endpoint = "embeddings"
  <2>1. u.prompt = reply.prompt /\ u.output = Or0(reply.output) /\ u.units = 0
    BY <1>9 DEF UsageRead, Embedded, Read
  <2>2. hold.units = 0 BY <1>3, <1>9 DEF Units
  <2>. QED BY <1>6, <1>9, <2>1, <2>2 DEF KeptSize, ReadsUsage
<1>10. CASE ask.endpoint = "video"
  <2>1. u.prompt = Absent /\ u.output = Absent /\ u.units = Units(ask) BY <1>10 DEF UsageRead, Filmed, Read
  <2>. QED BY <1>3, <1>5, <1>10, <2>1 DEF ReadsUsage
<1>11. CASE ask.endpoint \notin {"rerank", "speech", "embeddings", "video"}
  <2>1. u.prompt = reply.prompt /\ u.output = reply.output /\ u.units = Units(ask)
    BY <1>11 DEF UsageRead, Extracted, Read
  <2>. QED BY <1>3, <1>5, <1>6, <1>11, <2>1 DEF KeptSize, ReadsUsage
<1>. QED BY <1>7, <1>8, <1>9, <1>10, <1>11

\* So what is billed is founded.
LEMMA BilledFounded == EndpointInv => BillFounded
<1> SUFFICES ASSUME EndpointInv, bill # Unset PROVE Honest /\ (KeptSize => bill.input <= hold.input /\ bill.output <= hold.output /\ bill.units <= hold.units)
  BY DEF BillFounded
<1> DEFINE u == UsageRead
<1>1. ask \in AskedOf /\ reply \in Replies /\ hold = HeldFor(ask) /\ bill = BillOf(u) BY DEF EndpointInv
<1>2. /\ ReadsUsage /\ reply.prompt # Absent => u.prompt = reply.prompt
      /\ u.prompt # Absent /\ u.output # Absent /\ ask.endpoint # "speech" =>
           reply.prompt # Absent /\ (reply.output # Absent \/ ask.endpoint = "embeddings")
      /\ KeptSize => /\ u.prompt = Absent \/ u.prompt <= hold.input
                     /\ u.output = Absent \/ u.output <= hold.output
                     /\ u.units <= hold.units
  BY <1>1, ReadIsSaid
<1> HIDE DEF u
<1>3. /\ bill.input = (IF u.prompt = Absent THEN hold.input ELSE u.prompt)
      /\ bill.output = (IF u.output = Absent THEN TextCounted ELSE u.output)
      /\ bill.units = u.units /\ bill.source = Source(u)
  BY <1>1 DEF BillOf
<1>4. bill.source = "upstream" => u.prompt # Absent /\ u.output # Absent /\ ask.endpoint # "speech"
  BY <1>3 DEF Source
<1>5. Honest BY <1>2, <1>3, <1>4 DEF Honest
<1>6. hold.input \in Int /\ hold.input <= hold.input
  <2>1. ask.characters \in Nat /\ ask.text \in Nat BY <1>1, EndpointsAssumption DEF AskedOf
  <2>2. hold.input \in Int BY <1>1, <2>1 DEF HeldFor, LeastOne
  <2>. QED BY <2>2
<1>7. ASSUME KeptSize PROVE bill.input <= hold.input /\ bill.output <= hold.output /\ bill.units <= hold.units
  <2>1. TextCounted <= hold.output BY <1>7 DEF KeptSize
  <2>. QED BY <1>2, <1>3, <1>6, <1>7, <2>1
<1>. QED BY <1>5, <1>7

\* A request is one of those the endpoints accept.
LEMMA EndpointInit == InitEndpoints => EndpointInv
BY DEF InitEndpoints, EndpointInv

\* A bill is made once, of a reply that stays.
LEMMA EndpointStep == EndpointInv /\ [NextEndpoints]_endpointVars => EndpointInv'
<1> SUFFICES ASSUME EndpointInv, [NextEndpoints]_endpointVars PROVE EndpointInv' OBVIOUS
<1>1. CASE HoldRequest
  <2>1. hold' = HeldFor(ask) /\ hold = Unset /\ UNCHANGED <<ask, reply, bill>> BY <1>1 DEF HoldRequest, HeldFor
  <2>2. reply = Unset /\ bill = Unset BY <2>1 DEF EndpointInv
  <2>3. HeldFor(ask)' = HeldFor(ask) BY <2>1 DEF HeldFor, LeastOne, DefaultOutput, Units, ImageUnits, VideoUnits
  <2>. QED BY <2>1, <2>2, <2>3 DEF EndpointInv
<1>2. CASE Reply
  <2>1. reply = Unset /\ hold # Unset /\ reply' \in Replies /\ UNCHANGED <<ask, hold, bill>>
    BY <1>2 DEF Reply, Replies
  <2>2. bill = Unset BY <2>1 DEF EndpointInv
  <2>3. HeldFor(ask)' = HeldFor(ask) BY <2>1 DEF HeldFor, LeastOne, DefaultOutput, Units, ImageUnits, VideoUnits
  <2>. QED BY <2>1, <2>2, <2>3 DEF EndpointInv
<1>3. CASE BillReply
  <2>1. reply # Unset /\ bill' = BillOf(UsageRead) /\ UNCHANGED <<ask, hold, reply>>
    BY <1>3 DEF BillReply, BillOf
  <2>2. HeldFor(ask)' = HeldFor(ask) BY <2>1 DEF HeldFor, LeastOne, DefaultOutput, Units, ImageUnits, VideoUnits
  <2>3. UsageRead' = UsageRead
    BY <2>1 DEF UsageRead, Reranked, Voiced, Embedded, Filmed, Extracted, Read, Or0, Units, ImageUnits, VideoUnits, LeastOne
  <2>4. BillOf(UsageRead)' = BillOf(UsageRead)
    BY <2>1, <2>3 DEF BillOf, TextCounted, Source
  <2>. QED BY <2>1, <2>2, <2>4 DEF EndpointInv
<1>4. CASE UNCHANGED endpointVars
  <2>1. UNCHANGED <<ask, hold, reply, bill>> BY <1>4 DEF endpointVars
  <2>2. HeldFor(ask)' = HeldFor(ask) BY <2>1 DEF HeldFor, LeastOne, DefaultOutput, Units, ImageUnits, VideoUnits
  <2>3. UsageRead' = UsageRead
    BY <2>1 DEF UsageRead, Reranked, Voiced, Embedded, Filmed, Extracted, Read, Or0, Units, ImageUnits, VideoUnits, LeastOne
  <2>4. BillOf(UsageRead)' = BillOf(UsageRead)
    BY <2>1, <2>3 DEF BillOf, TextCounted, Source
  <2>. QED BY <2>1, <2>2, <2>4 DEF EndpointInv
<1>. QED BY <1>1, <1>2, <1>3, <1>4 DEF NextEndpoints

\* At every endpoint, what the upstream reports is billed, zeros too, nothing
\* estimated is called the upstream's, and a reply that kept its size is billed
\* within its hold (routers/openai_proxy.py, routers/anthropic_proxy.py).
THEOREM BillsAreFounded == SpecEndpoints => []BillFounded
BY EndpointInit, EndpointStep, BilledFounded, PTL DEF SpecEndpoints


----------------------------------------------------------------------------
(* Secrets across the pieces of an answer (Scanner) *)

\* The tail is how the text ends: all of it, or its last characters
EndsText(end, chars) ==
    /\ Len(end) = IF Len(chars) > TailChars THEN TailChars ELSE Len(chars)
    /\ \A i \in 1..Len(end) : end[i] = chars[Len(chars) - Len(end) + i]

\* A scan that has hit nothing has nothing behind it, and carries how the text ends
ScannerInv ==
    /\ text \in Seq(BOOLEAN) /\ tail \in Seq(BOOLEAN)
    /\ scanned /\ streams # "responses" /\ ~hit => ~HasSecret(text) /\ EndsText(tail, text)

\* The ending of a sequence is its last characters.
LEMMA EndingIs ==
    ASSUME NEW chars \in Seq(BOOLEAN)
    PROVE  Ending(chars, TailChars) \in Seq(BOOLEAN) /\ EndsText(Ending(chars, TailChars), chars)
<1> DEFINE from == IF Len(chars) > TailChars THEN Len(chars) - TailChars + 1 ELSE 1
<1> DEFINE s == SubSeq(chars, from, Len(chars))
<1>0. TailChars \in Nat /\ Len(chars) \in Nat BY ScannerAssumption
<1>1. from \in Int /\ from >= 1 /\ from <= Len(chars) + 1
      /\ Len(chars) - from + 1 = IF Len(chars) > TailChars THEN TailChars ELSE Len(chars)
  BY <1>0
<1>2. Ending(chars, TailChars) = s BY DEF Ending
<1> HIDE DEF from
<1>3. \A i \in from..Len(chars) : chars[i] \in BOOLEAN BY <1>0, <1>1, ElementOfSeq
<1>4. /\ SubSeq(chars, from, Len(chars)) \in Seq(BOOLEAN)
      /\ Len(SubSeq(chars, from, Len(chars))) = IF from <= Len(chars) THEN Len(chars) - from + 1 ELSE 0
      /\ \A i \in 1..Len(chars) - from + 1 : SubSeq(chars, from, Len(chars))[i] = chars[from + i - 1]
  BY <1>0, <1>1, <1>3, SubSeqProperties
<1>5. s \in Seq(BOOLEAN) /\ Len(s) = Len(chars) - from + 1
      /\ \A i \in 1..Len(chars) - from + 1 : s[i] = chars[from + i - 1]
  BY <1>0, <1>1, <1>4
<1> HIDE DEF s
<1>6. Len(s) = (IF Len(chars) > TailChars THEN TailChars ELSE Len(chars)) /\ from = Len(chars) - Len(s) + 1
  BY <1>0, <1>1, <1>5
<1>7. ASSUME NEW i \in 1..Len(s) PROVE s[i] = chars[Len(chars) - Len(s) + i]
  <2>1. s[i] = chars[from + i - 1] BY <1>5, <1>6
  <2>2. from + i - 1 = Len(chars) - Len(s) + i BY <1>0, <1>1, <1>5, <1>6
  <2>. QED BY <2>1, <2>2
<1>8. EndsText(s, chars) BY <1>6, <1>7 DEF EndsText
<1>. QED BY <1>2, <1>5, <1>8

\* A secret that a piece completes lies in what is scanned: the tail is long enough.
LEMMA NothingMissed ==
    ASSUME NEW chars \in Seq(BOOLEAN), NEW end \in Seq(BOOLEAN), NEW piece \in Seq(BOOLEAN),
           EndsText(end, chars), ~HasSecret(chars), HasSecret(chars \o piece)
    PROVE  HasSecret(end \o piece)
<1> DEFINE n == Len(chars)
<1> DEFINE d == Len(chars) - Len(end)
<1> DEFINE whole == chars \o piece
<1> DEFINE seen == end \o piece
<1>0. /\ SecretChars \in Nat /\ SecretChars > 0 /\ TailChars \in Nat /\ TailChars >= SecretChars - 1
      /\ n \in Nat /\ Len(end) \in Nat /\ Len(piece) \in Nat
  BY ScannerAssumption
<1>1. /\ Len(whole) = n + Len(piece)
      /\ \A i \in 1..n + Len(piece) : whole[i] = IF i <= n THEN chars[i] ELSE piece[i - n]
  BY ConcatProperties
<1>2. /\ Len(seen) = Len(end) + Len(piece)
      /\ \A i \in 1..Len(end) + Len(piece) : seen[i] = IF i <= Len(end) THEN end[i] ELSE piece[i - Len(end)]
  BY ConcatProperties
<1>3. /\ d \in Nat /\ n = d + Len(end) /\ (d > 0 => Len(end) = TailChars)
      /\ \A i \in 1..Len(end) : end[i] = chars[d + i]
  <2>1. Len(end) = IF n > TailChars THEN TailChars ELSE n BY DEF EndsText
  <2>2. d \in Nat /\ n = d + Len(end) /\ (d > 0 => Len(end) = TailChars) BY <1>0, <2>1
  <2>3. \A i \in 1..Len(end) : end[i] = chars[d + i] BY DEF EndsText
  <2>. QED BY <2>2, <2>3
<1>4. PICK i \in 1..Len(whole) - SecretChars + 1 : \A j \in i..i + SecretChars - 1 : whole[j]
  BY DEF HasSecret
<1> HIDE DEF n, d, whole, seen
<1>5. CASE i <= d
  <2>1. i + SecretChars - 1 <= n BY <1>0, <1>1, <1>3, <1>4, <1>5
  <2>2. \A j \in i..i + SecretChars - 1 : chars[j] BY <1>0, <1>1, <1>4, <2>1
  <2>3. i \in 1..n - SecretChars + 1 BY <1>0, <1>4, <2>1, <1>1
  <2>. QED BY <2>2, <2>3 DEF HasSecret, n
<1>6. CASE i > d
  <2> DEFINE k == i - d
  <2>1. k \in 1..Len(seen) - SecretChars + 1 BY <1>0, <1>1, <1>2, <1>3, <1>4, <1>6
  <2>2. ASSUME NEW j \in k..k + SecretChars - 1 PROVE seen[j]
    <3> DEFINE l == j + d
    <3>1. l \in i..i + SecretChars - 1 /\ j \in 1..Len(end) + Len(piece) /\ l \in 1..n + Len(piece)
      BY <1>0, <1>1, <1>2, <1>3, <1>4, <2>1
    <3>2. whole[l] /\ whole[l] = IF l <= n THEN chars[l] ELSE piece[l - n] BY <1>1, <1>4, <3>1
    <3>3. seen[j] = IF j <= Len(end) THEN end[j] ELSE piece[j - Len(end)] BY <1>2, <3>1
    <3>4. j <= Len(end) => l <= n /\ end[j] = chars[l] BY <1>0, <1>3, <3>1
    <3>5. ~(j <= Len(end)) => ~(l <= n) /\ j - Len(end) = l - n BY <1>0, <1>3, <3>1
    <3> HIDE DEF l
    <3>. QED BY <3>2, <3>3, <3>4, <3>5
  <2> HIDE DEF k
  <2>. QED BY <2>1, <2>2 DEF HasSecret, seen
<1>. QED BY <1>0, <1>3, <1>4, <1>5, <1>6

\* The end of what is scanned is the end of the text.
LEMMA EndsAgree ==
    ASSUME NEW chars \in Seq(BOOLEAN), NEW end \in Seq(BOOLEAN), NEW piece \in Seq(BOOLEAN), NEW last \in Seq(BOOLEAN),
           EndsText(end, chars), EndsText(last, end \o piece)
    PROVE  EndsText(last, chars \o piece)
<1> DEFINE n == Len(chars)
<1> DEFINE d == Len(chars) - Len(end)
<1> DEFINE whole == chars \o piece
<1> DEFINE seen == end \o piece
<1>0. TailChars \in Nat /\ n \in Nat /\ Len(end) \in Nat /\ Len(piece) \in Nat /\ Len(last) \in Nat
  BY ScannerAssumption
<1>1. /\ Len(whole) = n + Len(piece)
      /\ \A i \in 1..n + Len(piece) : whole[i] = IF i <= n THEN chars[i] ELSE piece[i - n]
  BY ConcatProperties
<1>2. /\ Len(seen) = Len(end) + Len(piece)
      /\ \A i \in 1..Len(end) + Len(piece) : seen[i] = IF i <= Len(end) THEN end[i] ELSE piece[i - Len(end)]
  BY ConcatProperties
<1>3. /\ d \in Nat /\ n = d + Len(end) /\ (d > 0 => Len(end) = TailChars)
      /\ \A i \in 1..Len(end) : end[i] = chars[d + i]
  <2>1. Len(end) = IF n > TailChars THEN TailChars ELSE n BY DEF EndsText
  <2>2. d \in Nat /\ n = d + Len(end) /\ (d > 0 => Len(end) = TailChars) BY <1>0, <2>1
  <2>3. \A i \in 1..Len(end) : end[i] = chars[d + i] BY DEF EndsText
  <2>. QED BY <2>2, <2>3
<1>4. /\ Len(last) = IF Len(seen) > TailChars THEN TailChars ELSE Len(seen)
      /\ \A i \in 1..Len(last) : last[i] = seen[Len(seen) - Len(last) + i]
  BY DEF EndsText
<1> HIDE DEF n, d, whole, seen
<1>5. Len(last) = IF Len(whole) > TailChars THEN TailChars ELSE Len(whole)
  <2>1. CASE d = 0 BY <1>0, <1>1, <1>2, <1>3, <1>4, <2>1
  <2>2. CASE d > 0
    <3>1. Len(seen) >= TailChars /\ Len(whole) > TailChars BY <1>0, <1>1, <1>2, <1>3, <2>2
    <3>. QED BY <1>0, <1>4, <3>1
  <2>. QED BY <1>3, <2>1, <2>2
<1>6. ASSUME NEW i \in 1..Len(last) PROVE last[i] = whole[Len(whole) - Len(last) + i]
  <2> DEFINE j == Len(seen) - Len(last) + i
  <2> DEFINE l == Len(whole) - Len(last) + i
  <2>1. l = j + d /\ j \in 1..Len(end) + Len(piece) /\ l \in 1..n + Len(piece)
    BY <1>0, <1>1, <1>2, <1>3, <1>4
  <2>2. last[i] = seen[j] BY <1>4
  <2>3. whole[l] = IF l <= n THEN chars[l] ELSE piece[l - n] BY <1>1, <2>1
  <2>4. seen[j] = IF j <= Len(end) THEN end[j] ELSE piece[j - Len(end)] BY <1>2, <2>1
  <2>5. j <= Len(end) => l <= n /\ end[j] = chars[l]
    <3> HIDE DEF j, l
    <3>. QED BY <1>0, <1>3, <2>1
  <2>6. ~(j <= Len(end)) => ~(l <= n) /\ j - Len(end) = l - n
    <3> HIDE DEF j, l
    <3>. QED BY <1>0, <1>3, <2>1
  <2> HIDE DEF j, l
  <2>7. last[i] = whole[l] BY <2>2, <2>3, <2>4, <2>5, <2>6
  <2>. QED BY <2>7 DEF l
<1>. QED BY <1>5, <1>6 DEF EndsText, whole

\* No piece of the answer was scanned.
LEMMA ScannerInit == InitScanner => ScannerInv
<1> SUFFICES ASSUME InitScanner PROVE ScannerInv OBVIOUS
<1>1. text = <<>> /\ tail = <<>> BY DEF InitScanner
<1>2. <<>> \in Seq(BOOLEAN) /\ Len(<<>>) = 0 OBVIOUS
<1>3. SecretChars \in Nat /\ SecretChars > 0 /\ TailChars \in Nat BY ScannerAssumption
<1>4. ~HasSecret(text) BY <1>1, <1>2, <1>3 DEF HasSecret
<1>5. EndsText(tail, text) BY <1>1, <1>2, <1>3 DEF EndsText
<1>. QED BY <1>1, <1>2, <1>4, <1>5 DEF ScannerInv

\* Every step keeps it: the tail that is kept is long enough for the part of
\* a secret that it holds.
LEMMA ScannerStep == ScannerInv /\ [NextScanner]_scannerVars => ScannerInv'
<1> SUFFICES ASSUME ScannerInv, [NextScanner]_scannerVars PROVE ScannerInv' OBVIOUS
<1>1. ASSUME NEW n \in 1..MaxPiece, NEW piece \in [1..n -> BOOLEAN], Piece(piece) PROVE ScannerInv'
  <2>1. piece \in Seq(BOOLEAN) /\ Len(piece) = n /\ n >= 1 /\ n \in Nat
    <3>1. n \in Nat /\ n >= 1 OBVIOUS
    <3>. QED BY <3>1, IsASeq
  <2>2. text \in Seq(BOOLEAN) /\ tail \in Seq(BOOLEAN) BY DEF ScannerInv
  <2>3. text' = text \o piece /\ UNCHANGED <<streams, scanned>> /\ text' \in Seq(BOOLEAN)
    BY <1>1, <2>1, <2>2, ConcatProperties DEF Piece
  <2>4. tail' \in Seq(BOOLEAN)
    <3>1. Visible(piece) \in Seq(BOOLEAN)
      <4>1. <<>> \in Seq(BOOLEAN) BY EmptySeq
      <4>. QED BY <2>1, <4>1 DEF Visible
    <3>2. tail \o Visible(piece) \in Seq(BOOLEAN) BY <2>2, <3>1, ConcatProperties
    <3>3. TailOf(tail \o Visible(piece), Visible(piece)) \in Seq(BOOLEAN) BY <3>2, EndingIs DEF TailOf
    <3>4. UNCHANGED tail \/ tail' = TailOf(tail \o Visible(piece), piece) BY <1>1 DEF Piece, Scan
    <3>. QED BY <2>2, <3>3, <3>4 DEF TailOf
  <2>5. ASSUME scanned, streams # "responses", ~hit' PROVE ~HasSecret(text') /\ EndsText(tail', text')
    <3>1. Scan(piece) /\ Visible(piece) = piece /\ piece # <<>> BY <1>1, <2>1, <2>5 DEF Piece, Visible
    <3>2. ~HasSecret(tail \o piece) /\ tail' = Ending(tail \o piece, TailChars) /\ ~hit
      BY <2>5, <3>1 DEF Scan, TailOf
    <3>3. ~HasSecret(text) /\ EndsText(tail, text) BY <2>5, <3>2 DEF ScannerInv
    <3>4. ~HasSecret(text \o piece) BY <2>1, <2>2, <3>2, <3>3, NothingMissed
    <3>5. tail \o piece \in Seq(BOOLEAN) BY <2>1, <2>2, ConcatProperties
    <3>6. EndsText(tail', tail \o piece) BY <3>2, <3>5, EndingIs
    <3>7. EndsText(tail', text \o piece) BY <2>1, <2>2, <2>4, <3>3, <3>6, EndsAgree
    <3>. QED BY <2>3, <3>4, <3>7
  <2>6. scanned' /\ streams' # "responses" /\ ~hit' => ~HasSecret(text') /\ EndsText(tail', text')
    BY <2>3, <2>5
  <2>7. (~HasSecret(text))' <=> ~HasSecret(text') BY DEF HasSecret
  <2>8. (EndsText(tail, text))' <=> EndsText(tail', text') BY DEF EndsText
  <2>. QED BY <2>3, <2>4, <2>6, <2>7, <2>8 DEF ScannerInv
<1>2. CASE UNCHANGED scannerVars BY <1>2 DEF scannerVars, ScannerInv, HasSecret, EndsText
<1>. QED BY <1>1, <1>2 DEF NextScanner

\* A secret in a streamed answer is seen however the answer is cut into pieces, at
\* any length of a secret that the tail allows for (services/content_filter.py).
THEOREM SecretsAreSeen == SpecScanner => []SecretSeen
<1>1. ScannerInv => SecretSeen BY DEF ScannerInv, SecretSeen
<1>. QED BY <1>1, ScannerInit, ScannerStep, PTL DEF SpecScanner


----------------------------------------------------------------------------
(* The model is asked once for an excerpt (Reviews) *)

\* One call of the review, and where it may stand in its list
IsReviewer(v) == v = [at |-> v.at, seen |-> v.seen, step |-> v.step]

\* Where a call of the review may stand
AtOK(r) ==
    /\ IsReviewer(reviewer[r]) /\ reviewer[r].at \in Nat
    /\ reviewer[r].step = "next" => reviewer[r].at >= 1
    /\ reviewer[r].step = "asks" => reviewer[r].at \in 1..Len(Chosen[r])

\* The type invariant
ReviewTypes ==
    /\ reviewer = [r \in Reviewers |-> reviewer[r]] /\ \A r \in Reviewers : AtOK(r)
    /\ calls \in [ExcerptSet -> Nat] /\ verdicts \subseteq ExcerptSet

\* An excerpt that the model answers for once has its answer in the cache, or no
\* answer yet, and then one call at most asks
CountedOnce(e)  == calls[e] = IF e \in verdicts THEN 1 ELSE 0
\* r asks the model for e
Asks(r, e)  == reviewer[r].step = "asks" /\ ExcerptOf[Log(r)] = e
AskedAlone(e) ==
    /\ \A r \in Reviewers : Asks(r, e) => e \notin verdicts
    /\ \A r, q \in Reviewers : Asks(r, e) /\ Asks(q, e) => r = q

\* The inductive invariant
ReviewInv == ReviewTypes /\ \A e \in ExcerptSet \ overlaps : CountedOnce(e) /\ AskedAlone(e)

\* A call that goes on moves to the next excerpt of its list.
LEMMA Going ==
    ASSUME NEW r \in Reviewers, ReviewTypes, Go(r)
    PROVE  /\ reviewer' = [q \in Reviewers |-> reviewer'[q]]
           /\ \A q \in Reviewers : q # r => reviewer'[q] = reviewer[q]
           /\ IsReviewer(reviewer'[r]) /\ reviewer'[r].step = "next" /\ reviewer'[r].at = reviewer[r].at + 1
<1>1. PICK v : v = reviewer[r] OBVIOUS
<1>2. IsReviewer(v) /\ reviewer = [q \in Reviewers |-> reviewer[q]] BY <1>1 DEF ReviewTypes, AtOK
<1>3. PICK w : w = [v EXCEPT !.at = v.at + 1, !.step = "next"] OBVIOUS
<1>4. IsReviewer(w) /\ w.step = "next" /\ w.at = v.at + 1 BY <1>2, <1>3 DEF IsReviewer
<1>5. reviewer' = [reviewer EXCEPT ![r] = w] BY <1>1, <1>2, <1>3 DEF Go
<1>. QED BY <1>1, <1>2, <1>4, <1>5

\* A reviewer that goes on to its next request keeps the others as they are.
LEMMA GoneOn ==
    ASSUME NEW r \in Reviewers, ReviewTypes, Go(r), reviewer[r].step \in {"next", "asks"}
    PROVE  /\ reviewer' = [q \in Reviewers |-> reviewer'[q]] /\ \A q \in Reviewers : AtOK(q)'
           /\ \A e : \A q \in Reviewers : Asks(q, e)' <=> (q # r /\ Asks(q, e))
<1>1. /\ reviewer' = [q \in Reviewers |-> reviewer'[q]]
      /\ \A q \in Reviewers : q # r => reviewer'[q] = reviewer[q]
      /\ IsReviewer(reviewer'[r]) /\ reviewer'[r].step = "next" /\ reviewer'[r].at = reviewer[r].at + 1
  BY Going
<1>2. ASSUME NEW q \in Reviewers PROVE AtOK(q)'
  <2>1. AtOK(q) BY DEF ReviewTypes
  <2>. QED BY <1>1, <2>1 DEF AtOK
<1>3. ASSUME NEW q \in Reviewers, NEW e PROVE Asks(q, e)' <=> (q # r /\ Asks(q, e))
  BY <1>1 DEF Asks, Log
<1>. QED BY <1>1, <1>2, <1>3

\* At the start nothing is asked.
LEMMA ReviewInit == InitReviews => ReviewInv
<1> SUFFICES ASSUME InitReviews PROVE ReviewInv OBVIOUS
<1>1. \A r \in Reviewers : reviewer[r] = [at |-> 0, seen |-> review, step |-> "new"] BY DEF InitReviews
<1>2. ReviewTypes BY <1>1 DEF InitReviews, ReviewTypes, AtOK, IsReviewer
<1>3. \A e \in ExcerptSet : CountedOnce(e) /\ AskedAlone(e)
  BY <1>1 DEF InitReviews, CountedOnce, AskedAlone, Asks
<1>. QED BY <1>2, <1>3 DEF ReviewInv

\* No step asks twice.
LEMMA ReviewStep == ReviewInv /\ [NextReviews]_reviewVars => ReviewInv'
<1> SUFFICES ASSUME ReviewInv, [NextReviews]_reviewVars PROVE ReviewInv' OBVIOUS
<1>0. /\ ReviewTypes /\ \A e \in ExcerptSet \ overlaps : CountedOnce(e) /\ AskedAlone(e)
      /\ Chosen \in [Reviewers -> Seq(Logs)]
  BY ReviewsAssumption DEF ReviewInv
<1>a. ASSUME NEW r \in Reviewers, reviewer[r].at \in 1..Len(Chosen[r])
      PROVE  ExcerptOf[Log(r)] \in ExcerptSet
  BY <1>0, <1>a DEF Log, ExcerptSet
<1>1. ASSUME NEW r \in Reviewers, Open(r) PROVE ReviewInv'
  <2>1. /\ reviewer' = [q \in Reviewers |-> reviewer'[q]]
        /\ \A q \in Reviewers : q # r => reviewer'[q] = reviewer[q]
        /\ reviewer'[r] = [at |-> 1, seen |-> review, step |-> "next"]
        /\ UNCHANGED <<verdicts, calls, overlaps>> /\ reviewer[r].step = "new"
    BY <1>0, <1>1 DEF Open, ReviewTypes
  <2>2. ASSUME NEW q \in Reviewers PROVE AtOK(q)'
    <3>1. AtOK(q) BY <1>0 DEF ReviewTypes
    <3>. QED BY <2>1, <3>1 DEF AtOK, IsReviewer
  <2>3. ASSUME NEW q \in Reviewers, NEW e PROVE Asks(q, e)' <=> Asks(q, e)
    BY <2>1 DEF Asks, Log
  <2>4. ReviewTypes' BY <1>0, <2>1, <2>2 DEF ReviewTypes
  <2>5. ASSUME NEW e \in ExcerptSet \ overlaps' PROVE CountedOnce(e)' /\ AskedAlone(e)'
    BY <1>0, <2>1, <2>3 DEF CountedOnce, AskedAlone
  <2>. QED BY <2>4, <2>5 DEF ReviewInv, ExcerptSet
<1>2. ASSUME NEW r \in Reviewers, NEW fine \in BOOLEAN, Review(r, fine) PROVE ReviewInv'
  <2> DEFINE x == ExcerptOf[Log(r)]
  <2>1. /\ reviewer[r].step = "next" /\ reviewer[r].at \in 1..Len(Chosen[r])
        /\ UNCHANGED <<verdicts, calls>>
    <3>1. AtOK(r) /\ Len(Chosen[r]) \in Nat BY <1>0 DEF ReviewTypes
    <3>. QED BY <3>1, <1>2 DEF Review, AtOK
  <2>2. x \in ExcerptSet BY <2>1, <1>a
  <2>3. CASE Go(r) /\ UNCHANGED overlaps
    <3>1. /\ reviewer' = [q \in Reviewers |-> reviewer'[q]] /\ \A q \in Reviewers : AtOK(q)'
          /\ \A e : \A q \in Reviewers : Asks(q, e)' <=> (q # r /\ Asks(q, e))
      BY <1>0, <2>1, <2>3, GoneOn
    <3>2. ReviewTypes' BY <1>0, <2>1, <3>1 DEF ReviewTypes, ExcerptSet
    <3>3. ASSUME NEW e \in ExcerptSet \ overlaps' PROVE CountedOnce(e)' /\ AskedAlone(e)'
      BY <1>0, <2>1, <2>3, <3>1 DEF CountedOnce, AskedAlone
    <3>. QED BY <3>2, <3>3 DEF ReviewInv, ExcerptSet
  <2>4. CASE /\ reviewer' = [reviewer EXCEPT ![r].step = "asks"] /\ (fine => Unread(x))
             /\ overlaps' = IF fine /\ ~Asking(x) THEN overlaps ELSE overlaps \cup {x}
    <3>1. PICK v : v = reviewer[r] OBVIOUS
    <3>2. PICK w : w = [v EXCEPT !.step = "asks"] OBVIOUS
    <3>3. IsReviewer(v) /\ reviewer = [q \in Reviewers |-> reviewer[q]] BY <1>0, <3>1 DEF ReviewTypes, AtOK
    <3>4. IsReviewer(w) /\ w.step = "asks" /\ w.at = v.at BY <3>2, <3>3 DEF IsReviewer
    <3>a. reviewer' = [reviewer EXCEPT ![r].step = "asks"] BY <2>4
    <3>5. reviewer' = [reviewer EXCEPT ![r] = w] BY <3>a, <3>1, <3>2, <3>3
    <3>6. /\ reviewer' = [q \in Reviewers |-> reviewer'[q]]
          /\ \A q \in Reviewers : q # r => reviewer'[q] = reviewer[q]
          /\ IsReviewer(reviewer'[r]) /\ reviewer'[r].step = "asks" /\ reviewer'[r].at = reviewer[r].at
      BY <3>1, <3>3, <3>4, <3>5
    <3>7. ASSUME NEW q \in Reviewers PROVE AtOK(q)'
      <4>1. AtOK(q) BY <1>0 DEF ReviewTypes
      <4>. QED BY <2>1, <3>6, <4>1 DEF AtOK
    <3>8. ReviewTypes' BY <1>0, <2>1, <3>6, <3>7 DEF ReviewTypes, ExcerptSet
    <3>9. ASSUME NEW q \in Reviewers, NEW e PROVE Asks(q, e)' <=> (Asks(q, e) \/ (q = r /\ e = x))
      BY <2>1, <3>6 DEF Asks, Log
    <3>10. ASSUME NEW e \in ExcerptSet \ overlaps' PROVE CountedOnce(e)' /\ AskedAlone(e)'
      <4>1. e \notin overlaps BY <2>4
      <4>2. CountedOnce(e) /\ AskedAlone(e) BY <1>0, <4>1
      <4>3. CountedOnce(e)' BY <2>1, <4>2 DEF CountedOnce
      <4>a. e \notin overlaps' /\ overlaps' = (IF fine /\ ~Asking(x) THEN overlaps ELSE overlaps \cup {x})
        BY <2>4
      <4>b. e = x => fine /\ ~Asking(x) BY <4>a
      <4>c. e = x => Unread(x) /\ ~Asking(e) BY <2>4, <4>b
      <4>4. e = x => e \notin verdicts /\ \A q \in Reviewers : ~Asks(q, e)
        BY <4>c DEF Unread, Asking, Asks
      <4>5. AskedAlone(e)' BY <2>1, <3>9, <4>2, <4>4 DEF AskedAlone
      <4>. QED BY <4>3, <4>5
    <3>. QED BY <3>8, <3>10 DEF ReviewInv, ExcerptSet
  <2>. QED BY <1>2, <2>3, <2>4 DEF Review
<1>3. ASSUME NEW r \in Reviewers, NEW stores \in BOOLEAN, Answer(r, stores) PROVE ReviewInv'
  <2> DEFINE x == ExcerptOf[Log(r)]
  <2>1. /\ reviewer[r].step = "asks" /\ Go(r) /\ calls' = [calls EXCEPT ![x] = @ + 1]
        /\ verdicts' = (IF stores THEN verdicts \cup {x} ELSE verdicts)
        /\ overlaps' = (IF stores THEN overlaps ELSE overlaps \cup {x})
    BY <1>3 DEF Answer
  <2>2. reviewer[r].at \in 1..Len(Chosen[r]) BY <1>0, <2>1 DEF ReviewTypes, AtOK
  <2>3. x \in ExcerptSet BY <2>2, <1>a
  <2>4. /\ reviewer' = [q \in Reviewers |-> reviewer'[q]] /\ \A q \in Reviewers : AtOK(q)'
        /\ \A e : \A q \in Reviewers : Asks(q, e)' <=> (q # r /\ Asks(q, e))
    BY <1>0, <2>1, GoneOn
  <2>a. calls' \in [ExcerptSet -> Nat] /\ verdicts' \subseteq ExcerptSet
    BY <1>0, <2>1, <2>3 DEF ReviewTypes
  <2>5. ReviewTypes' BY <2>4, <2>a DEF ReviewTypes, ExcerptSet
  <2>6. ASSUME NEW e \in ExcerptSet \ overlaps' PROVE CountedOnce(e)' /\ AskedAlone(e)'
    <3>1. e \notin overlaps /\ (e = x => stores) BY <2>1
    <3>2. CountedOnce(e) /\ AskedAlone(e) BY <1>0, <3>1
    <3>3. Asks(r, x) BY <2>1 DEF Asks
    <3>4. e = x => e \notin verdicts /\ \A q \in Reviewers : Asks(q, e) => q = r
      BY <3>2, <3>3 DEF AskedAlone
    <3>5. CountedOnce(e)' BY <1>0, <2>1, <3>1, <3>2, <3>4 DEF CountedOnce, ReviewTypes
    <3>6. AskedAlone(e)' BY <2>1, <2>4, <3>1, <3>2, <3>4 DEF AskedAlone
    <3>. QED BY <3>5, <3>6
  <2>. QED BY <2>5, <2>6 DEF ReviewInv, ExcerptSet
<1>4. ASSUME NEW r \in Reviewers, Unanswered(r) PROVE ReviewInv'
  <2>1. reviewer[r].step = "asks" /\ Go(r) /\ UNCHANGED <<verdicts, calls, overlaps>> BY <1>4 DEF Unanswered
  <2>2. /\ reviewer' = [q \in Reviewers |-> reviewer'[q]] /\ \A q \in Reviewers : AtOK(q)'
        /\ \A e : \A q \in Reviewers : Asks(q, e)' <=> (q # r /\ Asks(q, e))
    BY <1>0, <2>1, GoneOn
  <2>3. ReviewTypes' BY <1>0, <2>1, <2>2 DEF ReviewTypes, ExcerptSet
  <2>4. ASSUME NEW e \in ExcerptSet \ overlaps' PROVE CountedOnce(e)' /\ AskedAlone(e)'
    BY <1>0, <2>1, <2>2 DEF CountedOnce, AskedAlone
  <2>. QED BY <2>3, <2>4 DEF ReviewInv, ExcerptSet
<1>5. CASE UNCHANGED reviewVars
  <2>1. UNCHANGED <<reviewer, verdicts, calls, overlaps>> BY <1>5 DEF reviewVars
  <2>2. ReviewTypes' BY <1>0, <2>1 DEF ReviewTypes, AtOK, ExcerptSet
  <2>3. ASSUME NEW e \in ExcerptSet \ overlaps' PROVE CountedOnce(e)' /\ AskedAlone(e)'
    BY <1>0, <2>1 DEF CountedOnce, AskedAlone, Asks, Log
  <2>. QED BY <2>2, <2>3 DEF ReviewInv, ExcerptSet
<1>. QED BY <1>1, <1>2, <1>3, <1>4, <1>5 DEF NextReviews

\* The model answers for an excerpt once, however many requests and however many
\* administrators choose it, unless it was sent twice at the same time or Redis
\* failed (services/ai_audit.py).
THEOREM ExcerptsAskedOnce == SpecReviews => []AskedOnce
<1>1. ReviewInv => AskedOnce BY DEF ReviewInv, AskedOnce, CountedOnce
<1>. QED BY <1>1, ReviewInit, ReviewStep, PTL DEF SpecReviews


----------------------------------------------------------------------------
(* Requests and logins beside administrators (Access) *)

----------------------------------------------------------------------------
(* Requests *)

\* Where a request has read its key, and where its tenant; what may forbid it
HasRead   == {"key", "tenant", "key rated", "rated", "admitted"}
HasTenant == {"tenant", "key rated", "rated", "admitted"}
Reasons   == {"key off", "tenant off", "key", "tenant", "group"}

\* A record of a request has no other fields
IsClient(v) == v = [at |-> v.at, key |-> v.key, tenant |-> v.tenant]

\* What has forbidden a request since it came still does, and is nothing that the
\* rows as it read them would allow
Admissible(c) ==
    /\ IsClient(client[c]) /\ stays[c] \subseteq Forbids(keyRows[KeyOf[c]], tenantRow, group)
    /\ client[c].at \in HasRead =>
         /\ client[c].key.on /\ "key off" \notin stays[c]
         /\ client[c].key.models # "without" => "key" \notin stays[c]
         /\ ~client[c].key.group => "group" \notin stays[c]
    /\ client[c].at \in HasTenant =>
         /\ "tenant off" \notin stays[c]
         /\ client[c].tenant.models # "without" => "tenant" \notin stays[c]
    /\ client[c].at = "admitted" => stays[c] = {}

\* The inductive invariant of the requests
ClientInv ==
    /\ client = [c \in Clients |-> client[c]] /\ stays = [c \in Clients |-> stays[c]]
    /\ \A c \in Clients : Admissible(c)

\* A request that only goes to another place that asks for no more stays admissible.
LEMMA Moved ==
    ASSUME NEW c \in Clients, NEW place, ClientInv, Move(c, place), UNCHANGED <<stays, adminPart>>,
           place \in HasRead => client[c].at \in HasRead,
           place \in HasTenant => client[c].at \in HasTenant,
           place = "admitted" => stays[c] = {}
    PROVE  ClientInv'
<1>1. PICK v : v = client[c] OBVIOUS
<1>2. PICK w : w = [v EXCEPT !.at = place] OBVIOUS
<1>3. Admissible(c) /\ client = [d \in Clients |-> client[d]] BY DEF ClientInv
<1>4. IsClient(w) /\ w.at = place /\ w.key = v.key /\ w.tenant = v.tenant
  BY <1>1, <1>2, <1>3 DEF IsClient, Admissible
<1>5. client' = [client EXCEPT ![c] = w] BY <1>1, <1>2, <1>3 DEF Move
<1>6. client'[c] = w /\ \A d \in Clients : d # c => client'[d] = client[d] BY <1>3, <1>5
<1>7. UNCHANGED <<stays, keyRows, tenantRow, group>> BY DEF adminPart
<1>8. ASSUME NEW d \in Clients PROVE Admissible(d)'
  <2>1. Admissible(d) BY DEF ClientInv
  <2>2. CASE d # c BY <1>6, <1>7, <2>1, <2>2 DEF Admissible, Forbids
  <2>3. CASE d = c BY <1>1, <1>3, <1>4, <1>6, <1>7, <2>3 DEF Admissible, Forbids
  <2>. QED BY <2>2, <2>3
<1>. QED BY <1>3, <1>5, <1>7, <1>8 DEF ClientInv

\* Nobody is admitted at the start.
LEMMA ClientInit == InitAccess => ClientInv
<1> SUFFICES ASSUME InitAccess PROVE ClientInv OBVIOUS
<1>1. ASSUME NEW c \in Clients PROVE Admissible(c)
  <2>1. client[c] = [at |-> "new", key |-> keyRows[KeyOf[c]], tenant |-> tenantRow] /\ stays[c] = {}
    BY DEF InitAccess
  <2>. QED BY <2>1 DEF Admissible, IsClient, HasRead, HasTenant
<1>2. client = [c \in Clients |-> client[c]] /\ stays = [c \in Clients |-> stays[c]]
  BY DEF InitAccess
<1>. QED BY <1>1, <1>2 DEF ClientInv

\* The rows may change between any two steps of a request.
LEMMA ClientStep == ClientInv /\ [NextAccess]_accessVars => ClientInv'
<1> SUFFICES ASSUME ClientInv, [NextAccess]_accessVars PROVE ClientInv' OBVIOUS
<1>0. /\ client = [c \in Clients |-> client[c]] /\ stays = [c \in Clients |-> stays[c]]
      /\ \A c \in Clients : Admissible(c)
  BY DEF ClientInv
<1>a. ASSUME UNCHANGED <<client, stays, keyRows, tenantRow, group>> PROVE ClientInv'
  BY <1>0, <1>a, ZenonT(60) DEF ClientInv, Admissible, Forbids
<1>1. ASSUME NEW c \in Clients, ReadKey(c), UNCHANGED adminPart PROVE ClientInv'
  <2>1. PICK v : v = client[c] OBVIOUS
  <2>2. PICK row : row = keyRows[KeyOf[c]] OBVIOUS
  <2>3. PICK w : w = [v EXCEPT !.key = row, !.at = IF row.on THEN "key" ELSE "refused"] OBVIOUS
  <2>4. IsClient(v) BY <1>0, <2>1 DEF Admissible
  <2>5. IsClient(w) /\ w.key = row /\ w.at = IF row.on THEN "key" ELSE "refused"
    BY <2>3, <2>4 DEF IsClient
  <2>6. client' = [client EXCEPT ![c] = w] BY <1>0, <1>1, <2>1, <2>2, <2>3 DEF ReadKey
  <2>7. client'[c] = w /\ \A d \in Clients : d # c => client'[d] = client[d] BY <1>0, <2>6
  <2>8. /\ stays' = [stays EXCEPT ![c] = Forbids(row, tenantRow, group)]
        /\ UNCHANGED <<keyRows, tenantRow, group>>
    BY <1>1, <2>2 DEF ReadKey, adminPart
  <2>9. stays'[c] = Forbids(row, tenantRow, group) /\ \A d \in Clients : d # c => stays'[d] = stays[d]
    BY <1>0, <2>8
  <2>10. Admissible(c)'
    <3>1. stays'[c] \subseteq Forbids(keyRows'[KeyOf[c]], tenantRow', group')
      BY <2>2, <2>8, <2>9 DEF Forbids
    <3>2. w.at \notin HasTenant /\ (w.at \in HasRead => row.on) BY <2>5 DEF HasRead, HasTenant
    <3>3. /\ row.on => "key off" \notin stays'[c]
          /\ row.models # "without" => "key" \notin stays'[c]
          /\ ~row.group => "group" \notin stays'[c]
      BY <2>9 DEF Forbids
    <3>4. w.at # "admitted" BY <2>5
    <3>. QED BY <2>5, <2>7, <3>1, <3>2, <3>3, <3>4 DEF Admissible
  <2>11. ASSUME NEW d \in Clients, d # c PROVE Admissible(d)'
    BY <1>0, <2>7, <2>8, <2>9, <2>11, ZenonT(60) DEF Admissible, Forbids
  <2>. QED BY <1>0, <2>6, <2>8, <2>10, <2>11 DEF ClientInv
<1>2. ASSUME NEW c \in Clients, ReadTenant(c), UNCHANGED adminPart PROVE ClientInv'
  <2>1. PICK v : v = client[c] OBVIOUS
  <2>3. PICK w : w = [v EXCEPT !.tenant = tenantRow, !.at = IF tenantRow.on THEN "tenant" ELSE "refused"] OBVIOUS
  <2>4. IsClient(v) BY <1>0, <2>1 DEF Admissible
  <2>5. /\ IsClient(w) /\ w.key = v.key /\ w.tenant = tenantRow
        /\ w.at = IF tenantRow.on THEN "tenant" ELSE "refused"
    BY <2>3, <2>4 DEF IsClient
  <2>6. client' = [client EXCEPT ![c] = w] BY <1>0, <1>2, <2>1, <2>3 DEF ReadTenant
  <2>7. client'[c] = w /\ \A d \in Clients : d # c => client'[d] = client[d] BY <1>0, <2>6
  <2>8. UNCHANGED <<stays, keyRows, tenantRow, group>> /\ v.at = "key"
    BY <1>2, <2>1 DEF ReadTenant, adminPart
  <2>9. Admissible(c) BY <1>0
  <2>10. Admissible(c)'
    <3>1. stays[c] \subseteq Forbids(keyRows[KeyOf[c]], tenantRow, group) BY <2>9 DEF Admissible
    <3>2. /\ tenantRow.on => "tenant off" \notin stays[c]
          /\ tenantRow.models # "without" => "tenant" \notin stays[c]
      BY <3>1 DEF Forbids
    <3>3. v.at \in HasRead /\ w.at # "admitted" /\ (w.at \in HasTenant => tenantRow.on)
      BY <2>5, <2>8 DEF HasRead, HasTenant
    <3>4. stays'[c] \subseteq Forbids(keyRows'[KeyOf[c]], tenantRow', group') BY <3>1, <2>8 DEF Forbids
    <3>5. /\ v.key.on /\ "key off" \notin stays[c]
          /\ v.key.models # "without" => "key" \notin stays[c]
          /\ ~v.key.group => "group" \notin stays[c]
      BY <2>1, <2>9, <3>3 DEF Admissible
    <3>. QED BY <2>5, <2>7, <2>8, <3>2, <3>3, <3>4, <3>5 DEF Admissible
  <2>11. ASSUME NEW d \in Clients, d # c PROVE Admissible(d)'
    BY <1>0, <2>7, <2>8, <2>11 DEF Admissible, Forbids
  <2>. QED BY <1>0, <2>6, <2>8, <2>10, <2>11 DEF ClientInv
<1>3. ASSUME NEW c \in Clients, CheckModel(c), UNCHANGED adminPart PROVE ClientInv'
  <2>1. Admissible(c) /\ client[c].at = "rated" /\ UNCHANGED stays BY <1>0, <1>3 DEF CheckModel
  <2>2. CASE Effective(client[c].key, client[c].tenant)
    <3>1. Move(c, "admitted") BY <1>3, <2>2 DEF CheckModel
    <3>2. /\ stays[c] \subseteq Reasons /\ (group = "with" => "group" \notin stays[c])
      BY <2>1 DEF Admissible, Forbids, Reasons
    <3>3. stays[c] = {} BY <2>1, <2>2, <3>2 DEF Admissible, Effective, Reasons, HasRead, HasTenant
    <3>. QED BY <1>3, <2>1, <3>1, <3>3, Moved DEF HasRead, HasTenant
  <2>3. CASE ~Effective(client[c].key, client[c].tenant)
    <3>1. Move(c, "refused") BY <1>3, <2>3 DEF CheckModel
    <3>. QED BY <1>3, <2>1, <3>1, Moved DEF HasRead, HasTenant
  <2>. QED BY <2>2, <2>3
<1>4. ASSUME NEW c \in Clients, NEW o,
             CheckRate(c, o, "tenant", "key rated") \/ CheckRate(c, o, "key rated", "rated"), UNCHANGED adminPart
      PROVE  ClientInv'
  <2>1. client[c].at \in {"tenant", "key rated"} /\ UNCHANGED stays
        /\ \E place \in {"key rated", "rated", "refused"} : Move(c, place)
    BY <1>4 DEF CheckRate
  <2>. QED BY <1>4, <2>1, Moved DEF HasRead, HasTenant
<1>5. ASSUME NEW o \in RateOwners, EndWindow(o), UNCHANGED adminPart PROVE ClientInv'
  BY <1>5, <1>a DEF EndWindow, adminPart
<1>6. CASE Administer
  <2>1. UNCHANGED client
        /\ stays' = [c \in Clients |-> stays[c] \cap Forbids(keyRows'[KeyOf[c]], tenantRow', group')]
    BY <1>6 DEF Administer
  <2>2. ASSUME NEW c \in Clients PROVE Admissible(c)'
    <3>1. Admissible(c) BY <1>0
    <3>2. stays'[c] = stays[c] \cap Forbids(keyRows'[KeyOf[c]], tenantRow', group') BY <2>1
    <3>3. stays'[c] \subseteq Forbids(keyRows[KeyOf[c]], tenantRow, group)' /\ stays'[c] \subseteq stays[c]
      BY <3>2 DEF Forbids
    <3>. QED BY <2>1, <3>1, <3>3 DEF Admissible
  <2>. QED BY <1>0, <2>1, <2>2 DEF ClientInv
<1>7. CASE NextLogins BY <1>7, <1>a DEF NextLogins, adminPart, clientPart
<1>8. CASE UNCHANGED accessVars BY <1>8, <1>a DEF accessVars
<1>. QED BY <1>1, <1>2, <1>3, <1>4, <1>5, <1>6, <1>7, <1>8 DEF NextAccess, NextClients

----------------------------------------------------------------------------
(* Logins *)

\* An attempt that counted the first failure is about to set the end of the
\* counter
SetsEnd(a) == login[a].at \in {"ends name", "ends address"}

\* A record of a login has no other fields
IsLogin(v) == v = [at |-> v.at, count |-> v.count]

\* A counter that is no longer zero has an end, or an attempt that sets it
Expiring(f) == failures[f] = 0 \/ f \in expires \cup stranded \/ \E a \in Logins : SetsEnd(a) /\ CounterAt(a) = f

\* The inductive invariant of the logins
LoginInv ==
    /\ login = [a \in Logins |-> login[a]] /\ \A a \in Logins : IsLogin(login[a])
    /\ failures \in [Counters -> Nat] /\ \A f \in Counters : Expiring(f)

\* At moves one attempt.
LEMMA AttemptMoves ==
    ASSUME NEW a \in Logins, NEW place, LoginInv, At(a, place)
    PROVE  /\ login' = [b \in Logins |-> login'[b]] /\ \A b \in Logins : IsLogin(login'[b])
           /\ login'[a].at = place /\ \A b \in Logins : b # a => login'[b] = login[b]
<1>1. PICK v : v = login[a] OBVIOUS
<1>2. PICK w : w = [v EXCEPT !.at = place] OBVIOUS
<1>3. IsLogin(v) /\ login = [b \in Logins |-> login[b]] /\ \A b \in Logins : IsLogin(login[b])
  BY <1>1 DEF LoginInv
<1>4. IsLogin(w) /\ w.at = place BY <1>2, <1>3 DEF IsLogin
<1>5. login' = [login EXCEPT ![a] = w] BY <1>1, <1>2, <1>3 DEF At
<1>6. login'[a] = w /\ \A b \in Logins : b # a => login'[b] = login[b] BY <1>3, <1>5
<1>7. ASSUME NEW b \in Logins PROVE IsLogin(login'[b]) BY <1>3, <1>4, <1>6
<1>. QED BY <1>3, <1>4, <1>5, <1>6, <1>7

\* No login has failed.
LEMMA LoginInit == InitAccess => LoginInv
BY DEF InitAccess, LoginInv, IsLogin, Expiring

\* An attempt that counts the first failure goes on to set its end.
LEMMA LoginStep == LoginInv /\ [NextAccess]_accessVars => LoginInv'
<1> SUFFICES ASSUME LoginInv, [NextAccess]_accessVars PROVE LoginInv' OBVIOUS
<1>0. /\ login = [a \in Logins |-> login[a]] /\ \A a \in Logins : IsLogin(login[a])
      /\ failures \in [Counters -> Nat] /\ \A f \in Counters : Expiring(f)
  BY DEF LoginInv
<1>a. \A a \in Logins : CounterAt(a) \in Counters BY DEF CounterAt, Counters
<1>b. Username \in Counters BY DEF Counters
<1>1. ASSUME NEW a \in Logins, LogIn(a) PROVE LoginInv'
  <2>1. /\ login[a].at = "new" /\ UNCHANGED <<failures, expires, stranded>>
        /\ \E place \in {"wrong", "right"} : At(a, place)
    BY <1>1 DEF LogIn
  <2>2. PICK place \in {"wrong", "right"} : At(a, place) BY <2>1
  <2>3. /\ login' = [b \in Logins |-> login'[b]] /\ \A b \in Logins : IsLogin(login'[b])
        /\ login'[a].at = place /\ \A b \in Logins : b # a => login'[b] = login[b]
    BY <2>2, AttemptMoves
  <2>4. ASSUME NEW f \in Counters PROVE Expiring(f)'
    <3>1. Expiring(f) BY <1>0
    <3>. QED BY <2>1, <2>3, <3>1 DEF Expiring, SetsEnd, CounterAt
  <2>. QED BY <1>0, <2>1, <2>3, <2>4 DEF LoginInv
<1>2. ASSUME NEW a \in Logins, Succeed(a) PROVE LoginInv'
  <2>1. /\ login[a].at = "right" /\ At(a, "over") /\ UNCHANGED stranded
        /\ failures' = [failures EXCEPT ![Username] = 0] /\ expires' = expires \ {Username}
    BY <1>2 DEF Succeed
  <2>3. /\ login' = [b \in Logins |-> login'[b]] /\ \A b \in Logins : IsLogin(login'[b])
        /\ login'[a].at = "over" /\ \A b \in Logins : b # a => login'[b] = login[b]
    BY <2>1, AttemptMoves
  <2>4. ASSUME NEW f \in Counters PROVE Expiring(f)'
    <3>1. Expiring(f) BY <1>0
    <3>2. CASE f = Username BY <1>0, <2>1, <3>2 DEF Expiring
    <3>3. CASE f # Username BY <1>0, <2>1, <2>3, <3>1, <3>3 DEF Expiring, SetsEnd, CounterAt
    <3>. QED BY <3>2, <3>3
  <2>5. failures' \in [Counters -> Nat] BY <1>0, <1>b, <2>1
  <2>. QED BY <2>3, <2>4, <2>5 DEF LoginInv
<1>3. ASSUME NEW a \in Logins, CountFailed(a) PROVE LoginInv'
  <2> DEFINE g == CounterAt(a)
  <2> DEFINE place == IF failures'[g] # 1 THEN After(a) ELSE IF g = Username THEN "ends name" ELSE "ends address"
  <2>1. /\ login[a].at \in {"wrong", "next"} /\ At(a, place) /\ UNCHANGED <<expires, stranded>>
        /\ failures' = [failures EXCEPT ![g] = @ + 1]
    BY <1>3 DEF CountFailed, First
  <2>2. g \in Counters BY <1>a
  <2>3. /\ login' = [b \in Logins |-> login'[b]] /\ \A b \in Logins : IsLogin(login'[b])
        /\ login'[a].at = place /\ \A b \in Logins : b # a => login'[b] = login[b]
    <3>1. At(a, place) BY <2>1
    <3> HIDE DEF place
    <3>. QED BY <3>1, AttemptMoves
  <2>4. failures' \in [Counters -> Nat] /\ failures'[g] = failures[g] + 1 /\ failures[g] \in Nat
        /\ \A f \in Counters : f # g => failures'[f] = failures[f]
    <3>1. failures' = [failures EXCEPT ![g] = @ + 1] BY <2>1
    <3> HIDE DEF g
    <3>. QED BY <1>0, <2>2, <3>1
  <2>5. ASSUME NEW f \in Counters PROVE Expiring(f)'
    <3>1. Expiring(f) BY <1>0
    <3>2. CASE f = g /\ failures[g] = 0
      <4>1. login'[a].at = IF g = Username THEN "ends name" ELSE "ends address" 
        <5>1. failures'[g] = 1 BY <2>4, <3>2
        <5>. QED BY <2>3, <5>1
      <4>2. g = IF login[a].at = "wrong" THEN AddressOf[a] ELSE Username BY <2>1 DEF CounterAt
      <4>3. SetsEnd(a)' BY <4>1 DEF SetsEnd
      <4>4. CounterAt(a)' = f BY <3>2, <4>1, <4>2 DEF CounterAt
      <4>. QED BY <4>3, <4>4 DEF Expiring
    <3>3. CASE f # g \/ failures[g] # 0
      <4>1. failures[f] = 0 => failures'[f] = 0 BY <2>4, <3>3
      <4>2. ASSUME NEW b \in Logins, SetsEnd(b), CounterAt(b) = f PROVE SetsEnd(b)' /\ CounterAt(b)' = f
        BY <2>1, <2>3, <4>2 DEF SetsEnd, CounterAt
      <4>. QED BY <2>1, <3>1, <4>1, <4>2 DEF Expiring
    <3>. QED BY <3>2, <3>3
  <2>. QED BY <2>3, <2>4, <2>5 DEF LoginInv
<1>4. ASSUME NEW a \in Logins, SetEnd(a) PROVE LoginInv'
  <2>1. /\ SetsEnd(a) /\ At(a, After(a)) /\ UNCHANGED <<failures, stranded>>
        /\ expires' = IF failures[CounterAt(a)] > 0 THEN expires \cup {CounterAt(a)} ELSE expires
    BY <1>4 DEF SetEnd, SetsEnd
  <2>3. /\ login' = [b \in Logins |-> login'[b]] /\ \A b \in Logins : IsLogin(login'[b])
        /\ \A b \in Logins : b # a => login'[b] = login[b]
    BY <2>1, AttemptMoves
  <2>4. ASSUME NEW f \in Counters PROVE Expiring(f)'
    <3>1. Expiring(f) /\ failures[f] \in Nat BY <1>0
    <3>2. CASE f = CounterAt(a) BY <2>1, <3>1, <3>2 DEF Expiring
    <3>3. CASE f # CounterAt(a)
      <4>2. ASSUME NEW b \in Logins, SetsEnd(b), CounterAt(b) = f PROVE SetsEnd(b)' /\ CounterAt(b)' = f
        BY <2>3, <3>3, <4>2 DEF SetsEnd, CounterAt
      <4>. QED BY <2>1, <3>1, <4>2 DEF Expiring
    <3>. QED BY <3>2, <3>3
  <2>. QED BY <1>0, <2>1, <2>3, <2>4 DEF LoginInv
<1>5. ASSUME NEW a \in Logins, Die(a) PROVE LoginInv'
  <2>1. /\ At(a, "over") /\ UNCHANGED <<failures, expires>>
        /\ stranded' = IF SetsEnd(a) THEN stranded \cup {CounterAt(a)} ELSE stranded
    BY <1>5 DEF Die, SetsEnd
  <2>3. /\ login' = [b \in Logins |-> login'[b]] /\ \A b \in Logins : IsLogin(login'[b])
        /\ \A b \in Logins : b # a => login'[b] = login[b]
    BY <2>1, AttemptMoves
  <2>4. ASSUME NEW f \in Counters PROVE Expiring(f)'
    <3>1. Expiring(f) BY <1>0
    <3>2. CASE SetsEnd(a) /\ f = CounterAt(a) BY <2>1, <3>1, <3>2 DEF Expiring
    <3>3. CASE ~SetsEnd(a) \/ f # CounterAt(a)
      <4>2. ASSUME NEW b \in Logins, SetsEnd(b), CounterAt(b) = f PROVE SetsEnd(b)' /\ CounterAt(b)' = f
        BY <2>3, <3>3, <4>2 DEF SetsEnd, CounterAt
      <4>. QED BY <2>1, <3>1, <4>2 DEF Expiring
    <3>. QED BY <3>2, <3>3
  <2>. QED BY <1>0, <2>1, <2>3, <2>4 DEF LoginInv
<1>6. ASSUME NEW f \in Counters, EndCounter(f) PROVE LoginInv'
  <2>1. /\ expires' = expires \ {f} /\ failures' = [failures EXCEPT ![f] = 0] /\ UNCHANGED <<login, stranded>>
    BY <1>6 DEF EndCounter
  <2>2. ASSUME NEW h \in Counters PROVE Expiring(h)'
    <3>1. Expiring(h) BY <1>0
    <3>2. CASE h = f BY <1>0, <2>1, <3>2 DEF Expiring
    <3>3. CASE h # f BY <1>0, <2>1, <3>1, <3>3 DEF Expiring, SetsEnd, CounterAt
    <3>. QED BY <3>2, <3>3
  <2>3. failures' \in [Counters -> Nat] BY <1>0, <2>1
  <2>. QED BY <1>0, <2>1, <2>2, <2>3 DEF LoginInv
<1>7. CASE UNCHANGED loginPart
  BY <1>0, <1>7 DEF loginPart, LoginInv, Expiring, SetsEnd, CounterAt
<1>8. CASE UNCHANGED accessVars
  BY <1>7, <1>8 DEF accessVars, loginPart
<1>. QED BY <1>1, <1>2, <1>3, <1>4, <1>5, <1>6, <1>7, <1>8 DEF NextAccess, NextClients, NextLogins

\* Whatever administrators change between the reads of a request, one that is
\* admitted was not forbidden by the same rule all along; and a counter of failed
\* logins that is set ends by itself unless its worker died between two commands
\* (services/auth.py, services/pre_checks.py, routers/auth.py).
THEOREM AccessStaysSound == SpecAccess => []AccessSound
<1>1. ClientInv => AdmissionFounded BY DEF ClientInv, Admissible, AdmissionFounded, HasRead
<1>2. LoginInv => LocksExpire BY DEF LoginInv, Expiring, SetsEnd, LocksExpire
<1>. QED BY <1>1, <1>2, ClientInit, ClientStep, LoginInit, LoginStep, PTL DEF SpecAccess, AccessSound


----------------------------------------------------------------------------
(* Administrators are told once (Alerts) *)

\* Shapes of the records that are changed a field at a time
IsTold(v)    == v = [at |-> v.at, clear |-> v.clear, errors |-> v.errors]
IsTally(v)   == v = [requests |-> v.requests, errors |-> v.errors] /\ v.requests \in Nat /\ v.errors \in Nat
IsOutcome(v) == v = [step |-> v.step, requests |-> v.requests, minute |-> v.minute]

\* A subject whose administrators were told keeps its claim for its quiet time,
\* unless the subject was cleared
ClaimKept(s) ==
    /\ IsTold(told[s]) /\ told[s].at \in Int /\ claimed[s] \in Int
    /\ told[s].at = Never \/ told[s].clear \/ claimed[s] >= told[s].at + Quiet[s]

\* A request that was counted knows the count of its minute
OutcomeOK(o) ==
    /\ IsOutcome(outcome[o])
    /\ outcome[o].step = "counted" => outcome[o].requests \in Nat /\ outcome[o].minute \in Minutes

\* The parts of the inductive invariant, and the whole
Tallies  == tally = [m \in Minutes |-> tally[m]] /\ \A m \in Minutes : IsTally(tally[m])
Endings  == outcome = [o \in Outcomes |-> outcome[o]] /\ \A o \in Outcomes : OutcomeOK(o)
Claims   == \A s \in Subjects : ClaimKept(s)
AlertInv == clock \in 0..MaxTime /\ Tallies /\ Endings /\ Claims

\* What a notice may do to what was told before
Founded(s) ==
    told'[s].at # told[s].at =>
        /\ told[s].at = Never \/ told'[s].at >= told[s].at + Quiet[s] \/ told[s].clear
        /\ s = "spike" => 2 * told'[s].errors >= MinRequests

\* notify claims the subject before it tells, and tells only what it claimed.
LEMMA Notified ==
    ASSUME NEW w, NEW s \in Subjects, NEW freed, NEW errors, clock \in 0..MaxTime, Claims,
           Notify(w, s, freed, errors), s \notin freed, s = "spike" => 2 * errors >= MinRequests
    PROVE  Claims' /\ \A t \in Subjects : Founded(t)
<1>0. MaxTime \in Nat /\ Quiet \in [Subjects -> Nat] /\ clock \in Int BY AlertsAssumption
<1> DEFINE active == Active(ConfigOf(w), s)
<1> DEFINE tells == active /\ Unclaimed(s)
<1>1. /\ claimed' = [c \in Subjects |-> IF c = s /\ tells THEN clock + Quiet[s]
                                        ELSE IF c \in freed /\ active THEN 0 ELSE claimed[c]]
      /\ told' = [t \in Subjects |->
                    IF t = s /\ tells THEN [at |-> clock, clear |-> FALSE, errors |-> errors]
                    ELSE IF t \in freed /\ active THEN [told[t] EXCEPT !.clear = TRUE] ELSE told[t]]
  BY DEF Notify
<1>2. tells => claimed[s] <= clock BY DEF Unclaimed
<1> HIDE DEF tells, active
<1>3. ASSUME NEW t \in Subjects PROVE ClaimKept(t)' /\ Founded(t)
  <2>1. ClaimKept(t) BY DEF Claims
  <2>2. CASE t = s /\ tells
    <3>1. told'[t] = [at |-> clock, clear |-> FALSE, errors |-> errors] /\ claimed'[t] = clock + Quiet[t]
      BY <1>1, <2>2
    <3>2. /\ IsTold(told'[t]) /\ told'[t].at = clock /\ told'[t].errors = errors
      BY <3>1 DEF IsTold
    <3>3. Quiet[t] \in Nat BY <1>0
    <3>4. ClaimKept(t)' BY <1>0, <3>1, <3>2, <3>3 DEF ClaimKept, IsTold
    <3>5. Founded(t) BY <1>0, <1>2, <2>1, <2>2, <3>2, <3>3 DEF Founded, ClaimKept
    <3>. QED BY <3>4, <3>5
  <2>3. CASE ~(t = s /\ tells) /\ t \in freed /\ active
    <3>1. PICK v : v = told[t] OBVIOUS
    <3>2. PICK r : r = [v EXCEPT !.clear = TRUE] OBVIOUS
    <3>3. IsTold(v) /\ v.at \in Int BY <2>1, <3>1 DEF ClaimKept
    <3>4. IsTold(r) /\ r.at = v.at /\ r.clear = TRUE BY <3>2, <3>3 DEF IsTold
    <3>5. told'[t] = r /\ claimed'[t] = 0
      <4>1. told'[t] = [told[t] EXCEPT !.clear = TRUE] /\ claimed'[t] = 0 BY <1>1, <2>3
      <4>. QED BY <3>1, <3>2, <4>1
    <3>6. ClaimKept(t)' BY <3>3, <3>4, <3>5 DEF ClaimKept, IsTold
    <3>7. Founded(t) BY <3>1, <3>4, <3>5 DEF Founded
    <3>. QED BY <3>6, <3>7
  <2>4. CASE ~(t = s /\ tells) /\ ~(t \in freed /\ active)
    <3>1. told'[t] = told[t] /\ claimed'[t] = claimed[t] BY <1>1, <2>4
    <3>. QED BY <2>1, <3>1 DEF ClaimKept, Founded, IsTold
  <2>. QED BY <2>2, <2>3, <2>4
<1>. QED BY <1>3 DEF Claims

\* A subject that nothing is told of stays as it is.
LEMMA Untold ==
    ASSUME Claims, UNCHANGED <<told, claimed>>
    PROVE  Claims' /\ \A t \in Subjects : Founded(t)
BY DEF Claims, ClaimKept, IsTold, Founded

\* Nobody was told anything.
LEMMA AlertInit == InitAlerts => AlertInv
<1> SUFFICES ASSUME InitAlerts PROVE AlertInv OBVIOUS
<1>1. clock \in 0..MaxTime BY AlertsAssumption DEF InitAlerts
<1>2. Tallies BY DEF InitAlerts, Tallies, IsTally
<1>3. Endings BY DEF InitAlerts, Endings, OutcomeOK, IsOutcome
<1>4. Claims BY DEF InitAlerts, Claims, ClaimKept, IsTold, Never
<1>. QED BY <1>1, <1>2, <1>3, <1>4 DEF AlertInv

\* Every step keeps it, and a notice is founded: SET NX lets one caller
\* through in the quiet time.
LEMMA AlertStep ==
    AlertInv /\ [NextAlerts]_alertVars => AlertInv' /\ \A t \in Subjects : Founded(t)
<1> SUFFICES ASSUME AlertInv, [NextAlerts]_alertVars PROVE AlertInv' /\ \A t \in Subjects : Founded(t)
  OBVIOUS
<1>0. /\ clock \in 0..MaxTime /\ Tallies /\ Endings /\ Claims /\ MaxTime \in Nat /\ MinRequests \in Nat
  BY AlertsAssumption DEF AlertInv
<1>a. ASSUME UNCHANGED tally PROVE Tallies' BY <1>0, <1>a DEF Tallies, IsTally
<1>b. ASSUME UNCHANGED outcome PROVE Endings' BY <1>0, <1>b DEF Endings, OutcomeOK, IsOutcome
<1>1. ASSUME NEW w \in Watchers, Opened(w) \/ Recovered(w) \/ CheckBudget(w)
      PROVE  AlertInv' /\ \A t \in Subjects : Founded(t)
  <2>1. /\ UNCHANGED <<clock, tally, outcome>>
        /\ \/ Notify(w, "open", {}, 0) \/ Notify(w, "recover", {"open"}, 0) \/ Notify(w, "budget", {}, 0)
    BY <1>1 DEF Opened, Recovered, CheckBudget
  <2>2. {"open", "recover", "budget"} \subseteq Subjects BY DEF Subjects
  <2>3. Claims' /\ \A t \in Subjects : Founded(t)
    <3>1. CASE Notify(w, "open", {}, 0) BY <1>0, <2>2, <3>1, Notified
    <3>2. CASE Notify(w, "recover", {"open"}, 0) BY <1>0, <2>2, <3>2, Notified
    <3>3. CASE Notify(w, "budget", {}, 0) BY <1>0, <2>2, <3>3, Notified
    <3>. QED BY <2>1, <3>1, <3>2, <3>3
  <2>. QED BY <1>0, <1>a, <1>b, <2>1, <2>3 DEF AlertInv
<1>2. ASSUME NEW w \in Watchers, NEW url, Save(w, url) PROVE AlertInv' /\ \A t \in Subjects : Founded(t)
  <2>1. UNCHANGED <<claimed, clock, tally, outcome, told>> BY <1>2 DEF Save
  <2>. QED BY <1>0, <1>a, <1>b, <2>1, Untold DEF AlertInv
<1>3. ASSUME NEW o \in Outcomes, NEW w \in Watchers, Count(o, w)
      PROVE  AlertInv' /\ \A t \in Subjects : Founded(t)
  <2>1. UNCHANGED <<claimed, clock, told>> BY <1>3 DEF Count
  <2> DEFINE m == MinuteOf(clock)
  <2>2. m \in Minutes BY <1>0 DEF Minutes
  <2>3. PICK v : v = tally[m] OBVIOUS
  <2>4. IsTally(v) /\ IsOutcome(outcome[o]) BY <1>0, <2>2, <2>3 DEF Tallies, Endings, OutcomeOK
  <2>5. CASE Active(ConfigOf(w), "spike")
    <3>1. /\ tally' = [tally EXCEPT ![m].requests = @ + 1]
          /\ outcome' = [outcome EXCEPT ![o] = [step |-> "counted", requests |-> tally[m].requests + 1, minute |-> m]]
      BY <1>3, <2>5 DEF Count
    <3>2. PICK r : r = [v EXCEPT !.requests = v.requests + 1] OBVIOUS
    <3>3. IsTally(r) BY <2>4, <3>2 DEF IsTally
    <3>4. tally' = [tally EXCEPT ![m] = r] BY <2>3, <3>1, <3>2
    <3> HIDE DEF m
    <3>5. Tallies' BY <1>0, <2>2, <3>3, <3>4 DEF Tallies, IsTally
    <3>6. Endings'
      <4>1. v.requests + 1 \in Nat BY <2>4 DEF IsTally
      <4>2. outcome' = [outcome EXCEPT ![o] = [step |-> "counted", requests |-> v.requests + 1, minute |-> m]]
        BY <2>3, <3>1
      <4>. QED BY <1>0, <2>2, <4>1, <4>2 DEF Endings, OutcomeOK, IsOutcome
    <3>. QED BY <1>0, <2>1, <3>5, <3>6, Untold DEF AlertInv
  <2>6. CASE ~Active(ConfigOf(w), "spike")
    <3>1. UNCHANGED tally /\ outcome' = [outcome EXCEPT ![o].step = "done"] BY <1>3, <2>6 DEF Count
    <3>2. PICK q : q = outcome[o] OBVIOUS
    <3>3. PICK r : r = [q EXCEPT !.step = "done"] OBVIOUS
    <3>4. IsOutcome(r) /\ r.step = "done" BY <2>4, <3>2, <3>3 DEF IsOutcome
    <3>5. outcome' = [outcome EXCEPT ![o] = r] BY <3>1, <3>2, <3>3
    <3>6. Endings' BY <1>0, <3>4, <3>5 DEF Endings, OutcomeOK, IsOutcome
    <3>. QED BY <1>0, <1>a, <2>1, <3>1, <3>6, Untold DEF AlertInv
  <2>. QED BY <2>5, <2>6
<1>4. ASSUME NEW o \in Outcomes, NEW w \in Watchers, NEW failed \in BOOLEAN, CountError(o, w, failed)
      PROVE  AlertInv' /\ \A t \in Subjects : Founded(t)
  <2>1. PICK q : q = outcome[o] OBVIOUS
  <2>2. IsOutcome(q) /\ q.requests \in Nat /\ q.minute \in Minutes
    BY <1>0, <1>4, <2>1 DEF Endings, OutcomeOK, CountError
  <2>3. PICK v : v = tally[q.minute] OBVIOUS
  <2>4. IsTally(v) BY <1>0, <2>2, <2>3 DEF Tallies
  <2>5. PICK r : r = [q EXCEPT !.step = "done"] OBVIOUS
  <2>6. IsOutcome(r) /\ r.step = "done" BY <2>2, <2>5 DEF IsOutcome
  <2>7. outcome' = [outcome EXCEPT ![o] = r]
    <3>1. outcome' = [outcome EXCEPT ![o].step = "done"] BY <1>4 DEF CountError
    <3>. QED BY <2>1, <2>5, <3>1
  <2>8. Endings' BY <1>0, <2>6, <2>7 DEF Endings, OutcomeOK, IsOutcome
  <2>9. Tallies'
    <3>1. tally' = IF failed THEN [tally EXCEPT ![q.minute].errors = @ + 1] ELSE tally
      BY <1>4, <2>1 DEF CountError
    <3>2. CASE ~failed BY <1>a, <3>1, <3>2
    <3>3. CASE failed
      <4>1. PICK u : u = [v EXCEPT !.errors = v.errors + 1] OBVIOUS
      <4>2. IsTally(u) BY <2>4, <4>1 DEF IsTally
      <4>3. tally' = [tally EXCEPT ![q.minute] = u] BY <2>3, <3>1, <3>3, <4>1
      <4>. QED BY <1>0, <2>2, <4>2, <4>3 DEF Tallies, IsTally
    <3>. QED BY <3>2, <3>3
  <2>10. UNCHANGED clock BY <1>4 DEF CountError
  <2>11. CASE UNCHANGED <<claimed, told>> BY <1>0, <2>8, <2>9, <2>10, <2>11, Untold DEF AlertInv
  <2>12. CASE Spike(q.requests, tally'[q.minute].errors) /\ Notify(w, "spike", {}, tally'[q.minute].errors)
    <3>1. PICK errors : errors = tally'[q.minute].errors OBVIOUS
    <3>2. errors \in Nat BY <2>2, <2>9, <3>1 DEF Tallies, IsTally
    <3>3. 2 * errors >= MinRequests BY <1>0, <2>2, <2>12, <3>1, <3>2 DEF Spike
    <3>4. "spike" \in Subjects /\ Notify(w, "spike", {}, errors) BY <2>12, <3>1 DEF Subjects
    <3>5. Claims' /\ \A t \in Subjects : Founded(t) BY <1>0, <3>3, <3>4, Notified
    <3>. QED BY <1>0, <2>8, <2>9, <2>10, <3>5 DEF AlertInv
  <2>. QED BY <1>4, <2>1, <2>11, <2>12 DEF CountError
<1>5. CASE Pass
  <2>1. clock' = clock + 1 /\ clock < MaxTime /\ UNCHANGED <<claimed, tally, outcome, told>> BY <1>5 DEF Pass
  <2>. QED BY <1>0, <1>a, <1>b, <2>1, Untold DEF AlertInv
<1>6. CASE UNCHANGED alertVars
  <2>1. UNCHANGED <<claimed, clock, tally, outcome, told>> BY <1>6 DEF alertVars
  <2>. QED BY <1>0, <1>a, <1>b, <2>1, Untold DEF AlertInv
<1>. QED BY <1>1, <1>2, <1>3, <1>4, <1>5, <1>6 DEF NextAlerts

\* Whichever workers see a subject, the administrators are told of it once in its
\* quiet time unless it was cleared, and of a rate of errors only if there were
\* enough requests (services/alerts.py).
THEOREM AlertsStayFounded == SpecAlerts => AlertsFounded
<1>1. AlertInv /\ [NextAlerts]_alertVars =>
        [\A s \in Subjects : told'[s].at # told[s].at =>
           /\ told[s].at = Never \/ told'[s].at >= told[s].at + Quiet[s] \/ told[s].clear
           /\ s = "spike" => 2 * told'[s].errors >= MinRequests]_alertVars
  BY AlertStep DEF Founded
<1>2. AlertInv /\ [NextAlerts]_alertVars => AlertInv' BY AlertStep
<1>. QED BY <1>1, <1>2, AlertInit, PTL DEF SpecAlerts, AlertsFounded


----------------------------------------------------------------------------
(* Marks of the prompt cache (CacheMarks) *)

\* The block of a part that is marked: the last that can be
Target(blocks) ==
    LET can == {i \in DOMAIN blocks : blocks[i] # "thinking"} IN CHOOSE i \in can : \A j \in can : j <= i

\* A request is made of its sections, and they of their blocks
PromptOK(p) == p = [s \in Sections |-> p[s]] /\ \A s \in Sections : p[s] = [i \in DOMAIN p[s] |-> p[s][i]]

\* A request that was marked is one that marking leaves as it is
MarksOK(p, n) ==
    PromptOK(p) /\ n \in Nat /\ Marks(p) <= Allowance /\ (n >= 1 => WithCacheControl(p) = p)
\* The inductive invariant
MarksInv == MarksOK(prompt, marked)

\* MarkLast changes at most one block.
LEMMA OneMarked ==
    ASSUME NEW blocks, blocks = [i \in DOMAIN blocks |-> blocks[i]]
    PROVE  /\ MarkLast(blocks) = [i \in DOMAIN MarkLast(blocks) |-> MarkLast(blocks)[i]]
           /\ DOMAIN MarkLast(blocks) = DOMAIN blocks
           /\ \A i \in DOMAIN blocks : i # Target(blocks) => MarkLast(blocks)[i] = blocks[i]
           /\ MarkLast(blocks) = blocks \/ (Target(blocks) \in DOMAIN blocks /\ MarkLast(blocks)[Target(blocks)] = "marked")
<1>1. MarkLast(blocks) = blocks \/ MarkLast(blocks) = [blocks EXCEPT ![Target(blocks)] = "marked"]
  BY DEF MarkLast, Target
<1>2. CASE MarkLast(blocks) = blocks BY <1>2
<1>3. CASE MarkLast(blocks) = [blocks EXCEPT ![Target(blocks)] = "marked"] /\ Target(blocks) \in DOMAIN blocks
  BY <1>3
<1>4. CASE MarkLast(blocks) = [blocks EXCEPT ![Target(blocks)] = "marked"] /\ Target(blocks) \notin DOMAIN blocks
  <2>1. [blocks EXCEPT ![Target(blocks)] = "marked"] = blocks BY <1>4
  <2>. QED BY <1>4, <2>1
<1>. QED BY <1>1, <1>2, <1>3, <1>4

\* A prompt that the gateway has marked is marked for good.
LEMMA MarkedOnce ==
    ASSUME NEW p, PromptOK(p)
    PROVE  PromptOK(WithCacheControl(p)) /\ WithCacheControl(WithCacheControl(p)) = WithCacheControl(p)
<1> DEFINE q == [s \in Sections |-> MarkLast(p[s])]
<1>1. CASE HasCacheControl(p) BY <1>1 DEF WithCacheControl
<1>2. CASE ~HasCacheControl(p)
  <2>1. WithCacheControl(p) = q BY <1>2 DEF WithCacheControl
  <2>2. PromptOK(q) BY OneMarked DEF PromptOK
  <2>3. CASE HasCacheControl(q) BY <2>1, <2>2, <2>3 DEF WithCacheControl
  <2>4. CASE ~HasCacheControl(q)
    <3>1. ASSUME NEW s \in Sections PROVE MarkLast(p[s]) = p[s]
      <4>1. p[s] = [i \in DOMAIN p[s] |-> p[s][i]] BY DEF PromptOK
      <4>2. /\ DOMAIN MarkLast(p[s]) = DOMAIN p[s]
            /\ MarkLast(p[s]) = p[s]
               \/ (Target(p[s]) \in DOMAIN p[s] /\ MarkLast(p[s])[Target(p[s])] = "marked")
        BY <4>1, OneMarked
      <4>3. q[s] = MarkLast(p[s]) OBVIOUS
      <4>4. \A i \in DOMAIN q[s] : q[s][i] # "marked" BY <2>4 DEF HasCacheControl
      <4>. QED BY <4>2, <4>3, <4>4
    <3>2. q = p BY <3>1 DEF PromptOK
    <3>3. WithCacheControl(p) = p BY <2>1, <3>2
    <3>. QED BY <2>2, <3>2, <3>3
  <2>. QED BY <2>3, <2>4
<1>. QED BY <1>1, <1>2

\* One more element is at most one more.
LEMMA OneMore ==
    ASSUME NEW s, IsFiniteSet(s), NEW n \in Nat, Cardinality(s) <= n, NEW x
    PROVE  IsFiniteSet(s \cup {x}) /\ Cardinality(s \cup {x}) <= n + 1
<1>1. Cardinality(s) \in Nat BY FS_CardinalityType
<1>2. /\ IsFiniteSet(s \cup {x})
      /\ Cardinality(s \cup {x}) = IF x \in s THEN Cardinality(s) ELSE Cardinality(s) + 1
  BY FS_AddElement
<1>. QED BY <1>1, <1>2

\* Marks are finitely many.
LEMMA MarksFinite == ASSUME NEW p PROVE IsFiniteSet(MarkedAt(p)) /\ Marks(p) \in Nat
<1>1. IsFiniteSet(Sections)
  <2>1. IsFiniteSet({}) /\ Cardinality({}) <= 0 BY FS_EmptySet
  <2>2. IsFiniteSet({} \cup {"tools"}) /\ Cardinality({} \cup {"tools"}) <= 1 BY <2>1, OneMore
  <2>3. IsFiniteSet(({} \cup {"tools"}) \cup {"system"}) /\ Cardinality(({} \cup {"tools"}) \cup {"system"}) <= 2
    BY <2>2, OneMore
  <2>4. IsFiniteSet((({} \cup {"tools"}) \cup {"system"}) \cup {"message"}) BY <2>3, OneMore
  <2>5. ((({} \cup {"tools"}) \cup {"system"}) \cup {"message"}) = Sections BY DEF Sections
  <2>. QED BY <2>4, <2>5
<1>2. IsFiniteSet(1..MaxBlocks) BY CacheMarksAssumption, FS_Interval
<1>3. IsFiniteSet(Sections \X (1..MaxBlocks)) BY <1>1, <1>2, FS_Product
<1>4. IsFiniteSet(MarkedAt(p)) BY <1>3, FS_Subset DEF MarkedAt
<1>. QED BY <1>4, FS_CardinalityType DEF Marks

\* One mark for each part is within the allowance.
LEMMA MarksFew ==
    ASSUME NEW p, PromptOK(p), Marks(p) <= Allowance
    PROVE  /\ Marks(WithCacheControl(p)) <= Allowance
           /\ Marks(p) > 0 => WithCacheControl(p) = p
<1>1. CASE HasCacheControl(p) BY <1>1 DEF WithCacheControl
<1>2. CASE ~HasCacheControl(p)
  <2> DEFINE q == [s \in Sections |-> MarkLast(p[s])]
  <2> DEFINE at(s) == <<s, Target(p[s])>>
  <2> DEFINE three == {at("tools"), at("system"), at("message")}
  <2>1. WithCacheControl(p) = q BY <1>2 DEF WithCacheControl
  <2>2. \A s \in Sections : \A i \in DOMAIN p[s] : p[s][i] # "marked" BY <1>2 DEF HasCacheControl
  <2>3. MarkedAt(q) \subseteq three
    <3> SUFFICES ASSUME NEW m \in MarkedAt(q) PROVE m \in three OBVIOUS
    <3>1. /\ m = <<m[1], m[2]>> /\ m[1] \in Sections /\ m[2] \in DOMAIN q[m[1]] /\ q[m[1]][m[2]] = "marked"
      BY DEF MarkedAt
    <3>2. PICK s : s = m[1] OBVIOUS
    <3>3. PICK i : i = m[2] OBVIOUS
    <3>4. s \in Sections /\ i \in DOMAIN MarkLast(p[s]) /\ MarkLast(p[s])[i] = "marked" BY <3>1, <3>2, <3>3
    <3>5. p[s] = [k \in DOMAIN p[s] |-> p[s][k]] BY <3>4 DEF PromptOK
    <3>6. /\ DOMAIN MarkLast(p[s]) = DOMAIN p[s]
          /\ \A k \in DOMAIN p[s] : k # Target(p[s]) => MarkLast(p[s])[k] = p[s][k]
      BY <3>5, OneMarked
    <3>7. i = Target(p[s]) BY <2>2, <3>4, <3>6
    <3>8. m = at(s) BY <3>1, <3>2, <3>3, <3>7
    <3>. QED BY <3>4, <3>8 DEF Sections
  <2>4. IsFiniteSet(three) /\ Cardinality(three) \in Nat /\ Cardinality(three) <= 3
    <3> HIDE DEF at
    <3>1. IsFiniteSet({}) /\ Cardinality({}) <= 0 BY FS_EmptySet
    <3>2. IsFiniteSet({} \cup {at("tools")}) /\ Cardinality({} \cup {at("tools")}) <= 1 BY <3>1, OneMore
    <3>3. /\ IsFiniteSet(({} \cup {at("tools")}) \cup {at("system")})
          /\ Cardinality(({} \cup {at("tools")}) \cup {at("system")}) <= 2
      BY <3>2, OneMore
    <3>4. /\ IsFiniteSet((({} \cup {at("tools")}) \cup {at("system")}) \cup {at("message")})
          /\ Cardinality((({} \cup {at("tools")}) \cup {at("system")}) \cup {at("message")}) <= 3
      BY <3>3, OneMore
    <3>5. ((({} \cup {at("tools")}) \cup {at("system")}) \cup {at("message")}) = three OBVIOUS
    <3> HIDE DEF three
    <3>. QED BY <3>4, <3>5, FS_CardinalityType
  <2>5. Marks(q) <= 3
    <3>1. Cardinality(MarkedAt(q)) <= Cardinality(three) BY <2>3, <2>4, FS_Subset
    <3>2. Marks(q) \in Nat BY MarksFinite
    <3>. QED BY <2>4, <3>1, <3>2 DEF Marks
  <2>6. Marks(p) = 0
    <3>1. MarkedAt(p) = {} BY <2>2 DEF MarkedAt
    <3>. QED BY <3>1, FS_EmptySet DEF Marks
  <2>7. Marks(q) \in Nat BY MarksFinite
  <2> HIDE DEF q
  <2>. QED BY <2>1, <2>5, <2>6, <2>7, CacheMarksAssumption
<1>. QED BY <1>1, <1>2

\* The request of a client has no more marks than allowed, and none of ours.
LEMMA MarksInit == InitMarks => MarksInv
<1> SUFFICES ASSUME InitMarks PROVE MarksInv OBVIOUS
<1>1. prompt \in [Sections -> BlockSeqs("message")] /\ marked = 0 /\ Marks(prompt) <= Allowance
  BY DEF InitMarks
<1>2. ASSUME NEW s \in Sections PROVE prompt[s] = [i \in DOMAIN prompt[s] |-> prompt[s][i]]
  BY <1>1 DEF BlockSeqs
<1>. QED BY <1>1, <1>2 DEF MarksInv, MarksOK, PromptOK

\* Every step keeps it, and a request that has marks is left as it is.
LEMMA MarksStep ==
    MarksInv /\ [NextMarks]_markVars =>
        MarksInv' /\ Marks(prompt') <= Allowance /\ (marked = 1 \/ Marks(prompt) > 0 => prompt' = prompt)
<1> SUFFICES ASSUME MarksInv, [NextMarks]_markVars
             PROVE  MarksInv' /\ Marks(prompt') <= Allowance /\ (marked = 1 \/ Marks(prompt) > 0 => prompt' = prompt)
  OBVIOUS
<1>0. /\ PromptOK(prompt) /\ marked \in Nat /\ Marks(prompt) <= Allowance
      /\ marked >= 1 => WithCacheControl(prompt) = prompt
  BY DEF MarksInv, MarksOK
<1>1. CASE Mark
  <2>1. prompt' = WithCacheControl(prompt) /\ marked' = marked + 1 BY <1>1 DEF Mark
  <2>2. PromptOK(prompt') /\ WithCacheControl(prompt') = prompt' BY <1>0, <2>1, MarkedOnce
  <2>3. Marks(prompt') <= Allowance /\ (Marks(prompt) > 0 => prompt' = prompt) BY <1>0, <2>1, MarksFew
  <2>4. marked = 1 => prompt' = prompt BY <1>0, <2>1
  <2>5. MarksOK(prompt', marked') BY <1>0, <2>1, <2>2, <2>3 DEF MarksOK
  <2>6. MarksInv' BY <2>5 DEF MarksInv
  <2>. QED BY <2>3, <2>4, <2>6
<1>2. CASE UNCHANGED markVars
  <2>1. UNCHANGED <<prompt, marked>> BY <1>2 DEF markVars
  <2>2. MarksOK(prompt', marked') BY <2>1 DEF MarksInv
  <2>3. MarksInv' BY <2>2 DEF MarksInv
  <2>. QED BY <1>0, <2>1, <2>3
<1>. QED BY <1>1, <1>2 DEF NextMarks

\* The breakpoints of a request stay within what Anthropic accepts, a client's own
\* are left alone, and marking a request again changes nothing
\* (services/auto_cache.py).
THEOREM MarksStayBounded == SpecMarks => MarksBounded
<1>1. MarksInv /\ [NextMarks]_markVars => MarksInv' BY MarksStep
<1>2. MarksInv /\ [NextMarks]_markVars =>
        [/\ Marks(prompt') <= Allowance
         /\ marked = 1 \/ Marks(prompt) > 0 => prompt' = prompt]_markVars
  BY MarksStep
<1>. QED BY <1>1, <1>2, MarksInit, PTL DEF SpecMarks, MarksBounded


----------------------------------------------------------------------------
(* Readers of the prices and the channels (Catalogue) *)

\* A row that is in use has a price
RowOK(n) ==
    /\ sale[n] = [price |-> sale[n].price, active |-> sale[n].active]
    /\ sale[n].price \in Nat \cup {Unpriceable} /\ sale[n].active \in BOOLEAN
    /\ sale[n].active => HasRow(n)

\* The inductive invariant
CatalogueInv == sale = [n \in AllNames |-> sale[n]] /\ \A n \in AllNames : RowOK(n)

\* Of finitely many numbers one is the greatest.
LEMMA Greatest ==
    ASSUME NEW S, IsFiniteSet(S), NEW f, \A s \in S : f[s] \in Int
    PROVE  S = {} \/ \E s \in S : \A t \in S : f[s] >= f[t]
<1> DEFINE Good == {T \in SUBSET S : T = {} \/ \E s \in T : \A t \in T : f[s] >= f[t]}
<1>1. {} \in Good OBVIOUS
<1>2. ASSUME NEW T \in SUBSET S, T # {}, T \ {Pick(T)} \in Good PROVE T \in Good
  <2>1. Pick(T) \in T /\ Pick(T) \in S BY <1>2 DEF Pick
  <2>2. CASE T \ {Pick(T)} = {}
    <3>1. T = {Pick(T)} BY <2>1, <2>2
    <3>2. \A t \in T : f[Pick(T)] >= f[t] BY <2>1, <3>1
    <3>. QED BY <2>1, <3>2
  <2>3. CASE T \ {Pick(T)} # {}
    <3>1. PICK s \in T \ {Pick(T)} : \A t \in T \ {Pick(T)} : f[s] >= f[t] BY <1>2, <2>3
    <3>2. f[s] \in Int /\ f[Pick(T)] \in Int /\ \A t \in T : f[t] \in Int BY <2>1
    <3>3. CASE f[s] >= f[Pick(T)]
      <4>1. \A t \in T : f[s] >= f[t] BY <3>1, <3>2, <3>3
      <4>. QED BY <4>1
    <3>4. CASE ~(f[s] >= f[Pick(T)])
      <4>1. \A t \in T : f[Pick(T)] >= f[t] BY <3>1, <3>2, <3>4
      <4>. QED BY <2>1, <4>1
    <3>. QED BY <3>3, <3>4
  <2>. QED BY <2>2, <2>3
<1>3. \A T \in SUBSET S : T # {} /\ T \ {Pick(T)} \in Good => T \in Good BY <1>2
<1> HIDE DEF Good
<1>4. S \in Good BY <1>1, <1>3, PickInduction
<1>. QED BY <1>4 DEF Good

\* The greatest of them is what Max gives.
LEMMA GreatestIsMax ==
    ASSUME NEW S, IsFiniteSet(S), NEW f, \A s \in S : f[s] \in Int
    PROVE  \A s \in S : f[s] <= Max({f[t] : t \in S})
<1> SUFFICES ASSUME NEW s \in S PROVE f[s] <= Max({f[t] : t \in S}) OBVIOUS
<1>1. PICK g \in S : \A t \in S : f[g] >= f[t] BY Greatest
<1> DEFINE values == {f[t] : t \in S}
<1>2. \E x \in values : \A y \in values : x >= y BY <1>1
<1>3. Max(values) \in values /\ \A y \in values : Max(values) >= y BY <1>2 DEF Max
<1>4. f[s] \in values /\ f[s] \in Int /\ Max(values) \in Int BY <1>3
<1>. QED BY <1>3, <1>4

\* The rows of the start have prices.
LEMMA CatalogueInit == InitCatalogue => CatalogueInv
<1> SUFFICES ASSUME InitCatalogue PROVE CatalogueInv OBVIOUS
<1>1. \A n \in AllNames : sale[n] = [price |-> Unpriceable, active |-> FALSE] BY DEF InitCatalogue, NoRow
<1>2. ASSUME NEW n \in AllNames PROVE RowOK(n)
  <2>1. sale[n].price = Unpriceable /\ sale[n].active = FALSE BY <1>1
  <2>2. sale[n] = [price |-> sale[n].price, active |-> sale[n].active] BY <1>1, <2>1
  <2>. QED BY <2>1, <2>2 DEF RowOK
<1>3. sale = [n \in AllNames |-> sale[n]] BY DEF InitCatalogue
<1>. QED BY <1>2, <1>3 DEF CatalogueInv

\* Administrators set prices, or remove rows.
LEMMA CatalogueStep == CatalogueInv /\ [NextCatalogue]_catalogueVars => CatalogueInv'
<1> SUFFICES ASSUME CatalogueInv, [NextCatalogue]_catalogueVars PROVE CatalogueInv' OBVIOUS
<1>0. /\ sale = [n \in AllNames |-> sale[n]] /\ \A n \in AllNames : RowOK(n)
      /\ SalePrices \subseteq Nat /\ Unpriceable \notin Nat /\ Reference \in [DOMAIN Reference -> Nat]
  BY CatalogueAssumption DEF CatalogueInv
<1>a. CASE UNCHANGED sale BY <1>0, <1>a DEF CatalogueInv, RowOK, HasRow
<1>b. ASSUME NEW n, NEW r, sale' = [sale EXCEPT ![n] = r], r = [price |-> r.price, active |-> r.active],
             r.price \in Nat \cup {Unpriceable}, r.active \in BOOLEAN, r.active => r.price # Unpriceable
      PROVE  CatalogueInv'
  <2>1. ASSUME NEW k \in AllNames PROVE RowOK(k)'
    <3>1. RowOK(k) BY <1>0
    <3>2. sale'[k] = IF k = n THEN r ELSE sale[k] BY <1>0, <1>b
    <3>3. CASE k = n BY <1>b, <3>2, <3>3 DEF RowOK, HasRow
    <3>4. CASE k # n BY <3>1, <3>2, <3>4 DEF RowOK, HasRow
    <3>. QED BY <3>3, <3>4
  <2>2. sale' = [k \in AllNames |-> sale'[k]] BY <1>0, <1>b
  <2>. QED BY <2>1, <2>2 DEF CatalogueInv
<1>1. ASSUME NEW n \in AllNames, NEW p \in SalePrices, NEW on \in BOOLEAN, CreatePrice(n, p) \/ UpdatePrice(n, p, on)
      PROVE  CatalogueInv'
  <2>1. PICK act \in BOOLEAN : sale' = [sale EXCEPT ![n] = [price |-> p, active |-> act]]
    BY <1>1 DEF CreatePrice, UpdatePrice
  <2>2. p \in Nat /\ p # Unpriceable BY <1>0
  <2>3. PICK r : r = [price |-> p, active |-> act] OBVIOUS
  <2>. QED BY <1>b, <2>1, <2>2, <2>3
<1>2. ASSUME NEW n \in AllNames, DeletePrice(n) PROVE CatalogueInv'
  <2>1. PICK r : r = NoRow OBVIOUS
  <2>2. sale' = [sale EXCEPT ![n] = r] BY <1>2, <2>1 DEF DeletePrice
  <2>3. r = [price |-> r.price, active |-> r.active] /\ r.price \in Nat \cup {Unpriceable} /\ r.active = FALSE
    BY <2>1 DEF NoRow
  <2>. QED BY <1>b, <2>2, <2>3
<1>3. ASSUME NEW n \in DOMAIN Reference, SyncDefault(n) PROVE CatalogueInv'
  <2>1. UNCHANGED sale \/ sale' = [sale EXCEPT ![n] = [price |-> Reference[n], active |-> TRUE]]
    BY <1>3 DEF SyncDefault
  <2>2. PICK r : r = [price |-> Reference[n], active |-> TRUE] OBVIOUS
  <2>3. Reference[n] \in Nat BY <1>0
  <2>4. r = [price |-> r.price, active |-> r.active] /\ r.price \in Nat /\ r.active = TRUE BY <2>2, <2>3
  <2>5. CASE sale' = [sale EXCEPT ![n] = r] BY <1>0, <1>b, <2>4, <2>5
  <2>. QED BY <1>a, <2>1, <2>2, <2>5
<1>4. ASSUME UNCHANGED sale PROVE CatalogueInv' BY <1>a, <1>4
<1>. QED BY <1>1, <1>2, <1>3, <1>4 DEF NextCatalogue, BeginSync, UpdateChannel, catalogueVars

\* A quote is a number or none.
LEMMA QuoteIsPrice ==
    ASSUME CatalogueInv, NEW ch \in Shops, NEW m, Serves(ch, m)
    PROVE  PickQuote(ch, m) \in Nat \cup {Unpriceable}
<1> DEFINE names == QuoteNames(ch, m)
           rows == {n \in AllNames : HasRow(n)}
           row == sale[FirstOf(names, rows)]
<1>0. Factor[ch] \in Nat /\ Reference \in [DOMAIN Reference -> Nat] BY CatalogueAssumption
<1>1. names[1] = m /\ names[2] = ActualOf[ch][m] /\ DOMAIN names = {1, 2} BY DEF QuoteNames
<1>2. ASSUME NEW s, Among(names, s) PROVE FirstOf(names, s) \in s
  BY <1>1, <1>2 DEF Among, FirstOf
<1>3. Among(names, rows) => row.price \in Nat
  <2>1. ASSUME Among(names, rows) PROVE row.price \in Nat
    <3>1. FirstOf(names, rows) \in rows BY <1>2, <2>1
    <3>. QED BY <3>1 DEF CatalogueInv, RowOK, HasRow
  <2>. QED BY <2>1
<1>4. Among(names, DOMAIN Reference) => Reference[FirstOf(names, DOMAIN Reference)] \in Nat
  BY <1>0, <1>2
<1>5. \A a, b \in Nat : a * b \in Nat OBVIOUS
<1>6. PickQuote(ch, m) = IF Among(names, rows) /\ ~row.active THEN Unpriceable
        ELSE IF Among(names, fixedAt[ch]) THEN FixedPrice
        ELSE IF Among(names, rows) THEN row.price * Factor[ch]
        ELSE IF Among(names, DOMAIN Reference) THEN Reference[FirstOf(names, DOMAIN Reference)] * Factor[ch]
        ELSE Unpriceable
  BY DEF PickQuote
<1> HIDE DEF names, rows, row
<1>. QED BY <1>0, <1>3, <1>4, <1>5, <1>6 DEF FixedPrice

\* The list of unpriced models and the quote of a request agree.
LEMMA UnpricedIsRefused ==
    ASSUME CatalogueInv, NEW ch \in Shops, NEW m \in Aliases, Serves(ch, m)
    PROVE  /\ Unpriced(ch, m) => PickQuote(ch, m) = Unpriceable
           /\ PickQuote(ch, m) = Unpriceable =>
                Unpriced(ch, m) \/ \E i \in 1..2 : HasRow(QuoteNames(ch, m)[i]) /\ ~sale[QuoteNames(ch, m)[i]].active
<1> DEFINE names == QuoteNames(ch, m)
           rows == {n \in AllNames : HasRow(n)}
           row == sale[FirstOf(names, rows)]
           active == {n \in AllNames : sale[n].active}
           listed == {n \in DOMAIN Reference : ~(HasRow(n) /\ ~sale[n].active)}
           disabled == \E i \in 1..2 : HasRow(names[i]) /\ ~sale[names[i]].active
<1>0. /\ Factor[ch] \in Nat /\ Reference \in [DOMAIN Reference -> Nat] /\ Unpriceable \notin Nat
  BY CatalogueAssumption
<1>1. names[1] = m /\ names[2] = ActualOf[ch][m] /\ DOMAIN names = {1, 2} /\ 1..2 = {1, 2} BY DEF QuoteNames
<1>2. \A s : Among(names, s) <=> names[1] \in s \/ names[2] \in s
  <2>. HIDE DEF names
  <2>. QED BY <1>1 DEF Among
<1>3. \A s : FirstOf(names, s) = IF names[1] \in s THEN names[1] ELSE names[2] BY DEF FirstOf
<1>4. PickQuote(ch, m) = IF Among(names, rows) /\ ~row.active THEN Unpriceable
        ELSE IF Among(names, fixedAt[ch]) THEN FixedPrice
        ELSE IF Among(names, rows) THEN row.price * Factor[ch]
        ELSE IF Among(names, DOMAIN Reference) THEN Reference[FirstOf(names, DOMAIN Reference)] * Factor[ch]
        ELSE Unpriceable
  BY DEF PickQuote
<1>5. Unpriced(ch, m) <=> ~Among(names, active \cup listed \cup fixedAt[ch]) BY DEF Unpriced
<1>6. \A n \in AllNames : RowOK(n) BY DEF CatalogueInv
<1>7. row = sale[FirstOf(names, rows)] OBVIOUS
<1>8. \A n : n \in rows <=> n \in AllNames /\ HasRow(n) OBVIOUS
<1>9. \A n : n \in active <=> n \in AllNames /\ sale[n].active OBVIOUS
<1>10. \A n : n \in listed <=> n \in DOMAIN Reference /\ ~(HasRow(n) /\ ~sale[n].active) OBVIOUS
<1>11. disabled <=> (HasRow(names[1]) /\ ~sale[names[1]].active) \/ (HasRow(names[2]) /\ ~sale[names[2]].active)
  <2>. HIDE DEF names
  <2>. QED BY <1>1
<1>12. \A a, b \in Nat : a * b \in Nat OBVIOUS
<1> HIDE DEF names, rows, row, active, listed, disabled
<1>13. Unpriced(ch, m) => PickQuote(ch, m) = Unpriceable
  <2> SUFFICES ASSUME Unpriced(ch, m) PROVE PickQuote(ch, m) = Unpriceable OBVIOUS
  <2>1. /\ names[1] \notin active /\ names[2] \notin active /\ names[1] \notin listed /\ names[2] \notin listed
        /\ ~Among(names, fixedAt[ch])
    BY <1>2, <1>5
  <2>2. Among(names, rows) => ~row.active
    <3>1. Among(names, rows) => FirstOf(names, rows) \in rows \cap {names[1], names[2]} BY <1>2, <1>3
    <3>. QED BY <1>7, <1>8, <1>9, <2>1, <3>1
  <2>3. ~Among(names, rows) => ~Among(names, DOMAIN Reference)
    <3>1. ASSUME NEW n \in {names[1], names[2]}, n \in DOMAIN Reference PROVE HasRow(n) /\ ~sale[n].active
      BY <1>10, <2>1, <3>1
    <3>2. names[1] \in AllNames /\ names[2] \in AllNames BY <1>1, CatalogueAssumption DEF Serves
    <3>. QED BY <1>2, <1>8, <3>1, <3>2
  <2>. QED BY <1>4, <2>1, <2>2, <2>3
<1>14. PickQuote(ch, m) = Unpriceable => Unpriced(ch, m) \/ disabled
  <2> SUFFICES ASSUME PickQuote(ch, m) = Unpriceable, ~disabled PROVE Unpriced(ch, m) OBVIOUS
  <2>1. Among(names, rows) => row.active /\ row.price \in Nat
    <3>1. Among(names, rows) => FirstOf(names, rows) \in rows \cap {names[1], names[2]} BY <1>2, <1>3
    <3>2. \A n \in rows : sale[n].price \in Nat BY <1>6, <1>8 DEF RowOK, HasRow
    <3>. QED BY <1>7, <1>8, <1>11, <3>1, <3>2
  <2>2. ~Among(names, fixedAt[ch]) BY <1>0, <1>4, <2>1 DEF FixedPrice
  <2>3. ~Among(names, rows) BY <1>0, <1>4, <1>12, <2>1, <2>2
  <2>4. ~Among(names, DOMAIN Reference)
    <3>1. Among(names, DOMAIN Reference) => Reference[FirstOf(names, DOMAIN Reference)] \in Nat
      BY <1>0, <1>2, <1>3
    <3>. QED BY <1>0, <1>4, <1>12, <2>2, <2>3, <3>1
  <2>5. \A n \in active : n \in rows BY <1>6, <1>8, <1>9 DEF RowOK
  <2>. QED BY <1>2, <1>5, <1>10, <2>2, <2>3, <2>4, <2>5
<1>. QED BY <1>13, <1>14 DEF disabled, names

\* The price that is shown is the greatest of the routes'.
LEMMA ShownIsGreatest ==
    ASSUME CatalogueInv, NEW m, NEW shops \in SUBSET Shops, Listable(m, shops), NEW ch \in Routes(m, shops)
    PROVE  PickQuote(ch, m) <= PublicPrice(m, shops)
<1> DEFINE R == Routes(m, shops)
<1> DEFINE f == [s \in R |-> PickQuote(s, m)]
<1>1. IsFiniteSet(R)
  <2>1. R \subseteq Shops BY DEF Routes
  <2>. QED BY <2>1, CatalogueAssumption, FS_Subset
<1>2. ASSUME NEW s \in R PROVE PickQuote(s, m) \in Nat /\ PickQuote(s, m) # Unpriceable
  <2>1. s \in Shops /\ Serves(s, m) /\ PickQuote(s, m) # Unpriceable BY DEF Listable, Routes
  <2>. QED BY <2>1, QuoteIsPrice
<1>3. \A s \in R : f[s] \in Int /\ f[s] = PickQuote(s, m) BY <1>2
<1>4. {PickQuote(s, m) : s \in R} \ {Unpriceable} = {f[t] : t \in R} BY <1>2, <1>3
<1>5. PublicPrice(m, shops) = Max({f[t] : t \in R}) BY <1>4 DEF PublicPrice
<1> HIDE DEF f, R
<1>6. \A s \in R : f[s] <= Max({f[t] : t \in R}) BY <1>1, <1>3, GreatestIsMax
<1>7. ch \in R BY DEF R
<1>8. PickQuote(ch, m) = f[ch] BY <1>3, <1>7
<1>. QED BY <1>5, <1>6, <1>7, <1>8

\* Enabled channels are channels.
OnlyShops == open \subseteq Shops

\* Only channels are enabled.
LEMMA OpenAlways == SpecCatalogue => []OnlyShops
<1>1. InitCatalogue => OnlyShops BY DEF InitCatalogue, OnlyShops
<1>2. OnlyShops /\ [NextCatalogue]_catalogueVars => OnlyShops'
  <2> SUFFICES ASSUME open \subseteq Shops, [NextCatalogue]_catalogueVars PROVE open' \subseteq Shops
    BY DEF OnlyShops
  <2>1. CASE UNCHANGED open BY <2>1
  <2>2. ASSUME NEW ch \in Shops, NEW on \in BOOLEAN, NEW names, UpdateChannel(ch, names, on) PROVE open' \subseteq Shops
    BY <2>2 DEF UpdateChannel
  <2>3. UNCHANGED open \/ \E ch \in Shops, on \in BOOLEAN : \E names \in {{}} \cup {{m} : m \in Aliases} : UpdateChannel(ch, names, on)
    BY DEF NextCatalogue, CreatePrice, UpdatePrice, DeletePrice, BeginSync, SyncDefault, catalogueVars
  <2>4. CASE \E ch \in Shops, on \in BOOLEAN : \E names \in {{}} \cup {{m} : m \in Aliases} : UpdateChannel(ch, names, on)
    <3>1. PICK ch \in Shops, on \in BOOLEAN : \E names \in {{}} \cup {{m} : m \in Aliases} : UpdateChannel(ch, names, on)
      BY <2>4
    <3>2. PICK names \in {{}} \cup {{m} : m \in Aliases} : UpdateChannel(ch, names, on) BY <3>1
    <3>. QED BY <2>2, <3>2
  <2>. QED BY <2>1, <2>3, <2>4
<1>. QED BY <1>1, <1>2, PTL DEF SpecCatalogue

\* With such rows the public prices, the list of models and the router agree.
LEMMA AgreesNow == CatalogueInv /\ OnlyShops => CatalogueAgrees
<1> SUFFICES ASSUME CatalogueInv, open \subseteq Shops, NEW m \in Aliases
    PROVE /\ \A shops \in SUBSET open : Listable(m, shops) =>
               \A ch \in Routes(m, shops) : PickQuote(ch, m) # Unpriceable /\ PickQuote(ch, m) <= PublicPrice(m, shops)
          /\ Routes(m, open) # {} => (HasPricing(m) <=> Listable(m, open))
          /\ \A ch \in Shops : Serves(ch, m) =>
               /\ Unpriced(ch, m) => PickQuote(ch, m) = Unpriceable
               /\ PickQuote(ch, m) = Unpriceable =>
                    Unpriced(ch, m) \/ \E i \in 1..2 : LET n == QuoteNames(ch, m)[i] IN HasRow(n) /\ ~sale[n].active
  BY DEF CatalogueAgrees, OnlyShops
<1>1. ASSUME NEW shops \in SUBSET open, Listable(m, shops), NEW ch \in Routes(m, shops)
      PROVE  PickQuote(ch, m) # Unpriceable /\ PickQuote(ch, m) <= PublicPrice(m, shops)
  <2>1. shops \in SUBSET Shops OBVIOUS
  <2>2. PickQuote(ch, m) <= PublicPrice(m, shops) BY <1>1, <2>1, ShownIsGreatest
  <2>. QED BY <1>1, <2>2 DEF Listable
<1>2. Routes(m, open) # {} => (HasPricing(m) <=> Listable(m, open)) BY DEF HasPricing, Listable
<1>3. ASSUME NEW ch \in Shops, Serves(ch, m)
      PROVE  /\ Unpriced(ch, m) => PickQuote(ch, m) = Unpriceable
             /\ PickQuote(ch, m) = Unpriceable =>
                  Unpriced(ch, m) \/ \E i \in 1..2 : LET n == QuoteNames(ch, m)[i] IN HasRow(n) /\ ~sale[n].active
  BY <1>3, UnpricedIsRefused
<1>. QED BY <1>1, <1>2, <1>3

\* What a customer is shown, what a request is charged, the list of unpriced models
\* and the page of all models agree (services/billing_quotes.py, routers/models.py,
\* routers/model_prices.py).
THEOREM ReadersAgree == SpecCatalogue => []CatalogueAgrees
BY CatalogueInit, CatalogueStep, OpenAlways, AgreesNow, PTL DEF SpecCatalogue


----------------------------------------------------------------------------
(* Totals outlive the logs (Usage) *)

----------------------------------------------------------------------------
(* Counting by classes *)

\* The size of a set is a sum of ones.
LEMMA SizeIsSum ==
    ASSUME NEW S, IsFiniteSet(S), NEW f, \A x \in S : f[x] = 1
    PROVE  SumFunctionOnSet(f, S) = Cardinality(S)
<1> DEFINE Good == {T \in SUBSET S : SumFunctionOnSet(f, T) = Cardinality(T)}
<1>1. {} \in Good BY SumEmpty, FS_EmptySet
<1>2. ASSUME NEW T \in SUBSET S, T # {}, T \ {Pick(T)} \in Good PROVE T \in Good
  <2> DEFINE c == Pick(T)
  <2>1. c \in T /\ IsFiniteSet(T) BY <1>2, FS_Subset DEF Pick
  <2>2. SumFunctionOnSet(f, T) = f[c] + SumFunctionOnSet(f, T \ {c}) BY <1>2, <2>1, SumPick
  <2>3. SumFunctionOnSet(f, T \ {c}) = Cardinality(T \ {c}) BY <1>2
  <2>4. Cardinality(T \ {c}) = Cardinality(T) - 1 /\ Cardinality(T) \in Nat
    <3> HIDE DEF c
    <3>. QED BY <2>1, FS_RemoveElement, FS_CardinalityType
  <2>5. f[c] = 1 BY <2>1
  <2> HIDE DEF c
  <2>6. SumFunctionOnSet(f, T) = Cardinality(T) BY <2>2, <2>3, <2>4, <2>5
  <2>. QED BY <2>6
<1>3. \A T \in SUBSET S : T # {} /\ T \ {Pick(T)} \in Good => T \in Good BY <1>2
<1> HIDE DEF Good
<1>4. S \in Good BY <1>1, <1>3, PickInduction
<1>. QED BY <1>4 DEF Good

\* A set may be counted class by class.
LEMMA SizeByClass ==
    ASSUME NEW S, IsFiniteSet(S), NEW K, IsFiniteSet(K), NEW m,
           NEW g, \A k \in K : g[k] = Cardinality(ClassOf(S, m, k))
    PROVE  SumFunctionOnSet(g, K) = Cardinality(ClassesOf(S, m, K))
<1> DEFINE one == [x \in S |-> 1]
<1>1. \A T \in SUBSET S : IsFiniteSet(T) /\ SumFunctionOnSet(one, T) = Cardinality(T)
  <2> SUFFICES ASSUME NEW T \in SUBSET S PROVE IsFiniteSet(T) /\ SumFunctionOnSet(one, T) = Cardinality(T) OBVIOUS
  <2>1. IsFiniteSet(T) BY FS_Subset
  <2>2. \A x \in T : one[x] = 1 OBVIOUS
  <2> HIDE DEF one
  <2>. QED BY <2>1, <2>2, SizeIsSum
<1>2. \A x \in S : one[x] \in Int OBVIOUS
<1> HIDE DEF one
<1>3. ASSUME NEW k \in K PROVE g[k] = SumFunctionOnSet(one, ClassOf(S, m, k))
  <2>1. ClassOf(S, m, k) \in SUBSET S BY DEF ClassOf
  <2>. QED BY <1>1, <2>1
<1>4. SumFunctionOnSet(g, K) = SumFunctionOnSet(one, ClassesOf(S, m, K)) BY <1>2, <1>3, SumByClass
<1>5. ClassesOf(S, m, K) \in SUBSET S BY DEF ClassesOf
<1>. QED BY <1>1, <1>4, <1>5

----------------------------------------------------------------------------
(* The invariant *)

\* Requests that were logged, those of them that failed, and the group of
\* each
Logged   == {r \in Calls : stamp[r] # NoDay}
Faulty  == {r \in Logged : Field(r, "failed")}
Where   == [r \in Calls |-> GroupOf(r, stamp[r])]

\* A request whose log may be gone
Aged(r) == stamp[r] # NoDay /\ Retention > 0 /\ stamp[r] + Retention <= today

\* The type invariant
UsageTypes ==
    /\ today \in Days /\ observed \in [Calls -> Days \cup {NoDay}] /\ stamp \in [Calls -> Days \cup {NoDay}]
    /\ logs \subseteq Logged
    /\ \A r \in Logged \cap Settled : observed[r] = stamp[r]

\* The totals of a group are those of the requests that were logged
TotalsExact ==
    /\ daily = [g \in Groups |-> daily[g]]
    /\ \A g \in Groups : /\ daily[g].requests = Cardinality(ClassOf(Logged, Where, g))
                         /\ daily[g].errors = Cardinality(ClassOf(Faulty, Where, g))

\* A record of a removal has no other fields
IsSweep(v) == v = [at |-> v.at, ids |-> v.ids]

\* Only the logs of old requests go
SweepsOld ==
    /\ sweep = [s \in Sweepers |-> sweep[s]]
    /\ \A s \in Sweepers : /\ IsSweep(sweep[s]) /\ sweep[s].ids \subseteq {r \in Calls : Aged(r)}
                           /\ sweep[s].at # "sleeps" => Retention > 0
    /\ \A r \in Logged \ logs : Aged(r)

\* The inductive invariant
UsageInv == UsageTypes /\ TotalsExact /\ SweepsOld

\* Finitely many requests and days make finitely many groups.
LEMMA GroupsFinite == IsFiniteSet(Groups) /\ \A S \in SUBSET Calls : IsFiniteSet(S)
<1>1. IsFiniteSet(Calls) /\ IsFiniteSet(Days) BY UsageAssumption, FS_Interval DEF Days
<1>2. IsFiniteSet(Calls \X Days) BY <1>1, FS_Product
<1> DEFINE f == [x \in Calls \X Days |-> GroupOf(x[1], x[2])]
<1>3. f \in Surjection(Calls \X Days, Groups)
  <2>1. \A x \in Calls \X Days : f[x] \in Groups BY DEF Groups
  <2>2. ASSUME NEW g \in Groups PROVE \E x \in Calls \X Days : f[x] = g
    <3>1. PICK r \in Calls, d \in Days : g = GroupOf(r, d) BY DEF Groups
    <3>2. <<r, d>> \in Calls \X Days /\ f[<<r, d>>] = g BY <3>1
    <3>. QED BY <3>2
  <2>. QED BY <2>1, <2>2 DEF Surjection
<1> HIDE DEF f
<1>. QED BY <1>1, <1>2, <1>3, FS_Surjection, FS_Subset

\* A group is named by its fields.
LEMMA GroupNamed ==
    ASSUME NEW r \in Calls, NEW d \in Days
    PROVE  /\ GroupOf(r, d) \in Groups /\ GroupOf(r, d).day = d
           /\ GroupOf(r, d).key = Field(r, "key") /\ GroupOf(r, d).model = Field(r, "model")
           /\ GroupOf(r, d).channel = Field(r, "channel") /\ GroupOf(r, d).tenant = Field(r, "tenant")
BY DEF Groups, GroupOf

\* Nothing was logged.
LEMMA UsageInit == InitUsage => UsageInv
<1> SUFFICES ASSUME InitUsage PROVE UsageInv OBVIOUS
<1>1. Logged = {} /\ logs = {} BY DEF InitUsage, Logged
<1>2. UsageTypes BY <1>1, UsageAssumption DEF InitUsage, UsageTypes, Days
<1>3. TotalsExact
  <2>1. \A g \in Groups : ClassOf(Logged, Where, g) = {} /\ ClassOf(Faulty, Where, g) = {}
    BY <1>1 DEF ClassOf, Faulty
  <2>2. daily = [g \in Groups |-> daily[g]] /\ \A g \in Groups : daily[g].requests = 0 /\ daily[g].errors = 0
    BY DEF InitUsage, Nothing
  <2>. QED BY <2>1, <2>2, FS_EmptySet DEF TotalsExact
<1>4. SweepsOld BY <1>1 DEF InitUsage, SweepsOld, IsSweep
<1>. QED BY <1>2, <1>3, <1>4 DEF UsageInv

----------------------------------------------------------------------------
(* A log that is saved *)

\* save_request_log adds one request to one group.
LEMMA OneLogMore ==
    ASSUME UsageInv, NEW r \in Calls, SaveLog(r)
    PROVE  UsageTypes' /\ TotalsExact' /\ (\A q \in Calls : Aged(q) => Aged(q)') /\ (Logged \ logs)' = Logged \ logs
<1>0. /\ UsageTypes /\ TotalsExact /\ NoDay \notin Days BY DEF UsageInv, NoDay, Days
<1> DEFINE d == Stamp(r)
           g == GroupOf(r, d)
<1>1. /\ observed[r] # NoDay /\ stamp[r] = NoDay /\ stamp' = [stamp EXCEPT ![r] = d] /\ logs' = logs \cup {r}
      /\ daily' = Counted(r, d) /\ UNCHANGED <<today, observed, sweep>>
  BY DEF SaveLog, sweepPart
<1>2. d \in Days /\ (r \in Settled => observed[r] = d)
  BY <1>0, <1>1 DEF Stamp, UsageTypes
<1>3. g \in Groups BY <1>2, GroupNamed
<1>4. daily' = [daily EXCEPT ![g] = [requests |-> daily[g].requests + 1,
                                     errors |-> daily[g].errors + IF Field(r, "failed") THEN 1 ELSE 0]]
  BY <1>0, <1>1, <1>3 DEF Counted, TotalsExact
<1> HIDE DEF d
<1>5. /\ Logged' = Logged \cup {r} /\ r \notin Logged
      /\ Faulty' = (IF Field(r, "failed") THEN Faulty \cup {r} ELSE Faulty) /\ r \notin Faulty
  <2>1. Logged' = Logged \cup {r} /\ r \notin Logged BY <1>0, <1>1, <1>2 DEF Logged, UsageTypes
  <2>. QED BY <2>1 DEF Faulty, Field
<1>6. Where'[r] = g /\ \A q \in Calls : q # r => Where'[q] = Where[q]
  BY <1>0, <1>1 DEF Where, UsageTypes
<1>7. UsageTypes' BY <1>0, <1>1, <1>2, <1>5 DEF UsageTypes
<1> HIDE DEF g
<1>8. Logged \subseteq Calls /\ Faulty \subseteq Calls BY DEF Logged, Faulty
<1>9. ASSUME NEW h \in Groups
      PROVE  /\ ClassOf(Logged', Where', h) = (IF h = g THEN ClassOf(Logged, Where, h) \cup {r} ELSE ClassOf(Logged, Where, h))
             /\ ClassOf(Faulty', Where', h) = (IF h = g /\ Field(r, "failed") THEN ClassOf(Faulty, Where, h) \cup {r}
                                               ELSE ClassOf(Faulty, Where, h))
  <2>1. ClassOf(Logged', Where', h) = (IF h = g THEN ClassOf(Logged, Where, h) \cup {r} ELSE ClassOf(Logged, Where, h))
    BY <1>5, <1>6, <1>8 DEF ClassOf
  <2>2. ClassOf(Faulty', Where', h) = (IF h = g /\ Field(r, "failed") THEN ClassOf(Faulty, Where, h) \cup {r}
                                       ELSE ClassOf(Faulty, Where, h))
    BY <1>5, <1>6, <1>8 DEF ClassOf
  <2>. QED BY <2>1, <2>2
<1>10. ASSUME NEW h \in Groups
       PROVE  /\ daily'[h].requests = Cardinality(ClassOf(Logged', Where', h))
              /\ daily'[h].errors = Cardinality(ClassOf(Faulty', Where', h))
  <2> DEFINE A == ClassOf(Logged, Where, h)
             B == ClassOf(Faulty, Where, h)
  <2>1. A \in SUBSET Calls /\ B \in SUBSET Calls /\ r \notin A /\ r \notin B BY <1>5, <1>8 DEF ClassOf
  <2>2. IsFiniteSet(A) /\ IsFiniteSet(B) BY <2>1, GroupsFinite
  <2>3. daily[h].requests = Cardinality(A) /\ daily[h].errors = Cardinality(B) BY <1>0 DEF TotalsExact
  <2> HIDE DEF A, B
  <2>4. /\ Cardinality(A \cup {r}) = Cardinality(A) + 1 /\ Cardinality(B \cup {r}) = Cardinality(B) + 1
        /\ Cardinality(A) \in Nat /\ Cardinality(B) \in Nat
    BY <2>1, <2>2, FS_AddElement, FS_CardinalityType
  <2>5. CASE h # g
    <3>1. daily'[h] = daily[h] BY <1>0, <1>4, <2>5 DEF TotalsExact
    <3>. QED BY <1>9, <2>3, <2>5, <3>1 DEF A, B
  <2>6. CASE h = g
    <3>1. daily'[h] = [requests |-> daily[h].requests + 1,
                       errors |-> daily[h].errors + IF Field(r, "failed") THEN 1 ELSE 0]
      BY <1>0, <1>4, <2>6 DEF TotalsExact
    <3>2. /\ ClassOf(Logged', Where', h) = A \cup {r}
          /\ ClassOf(Faulty', Where', h) = (IF Field(r, "failed") THEN B \cup {r} ELSE B)
      BY <1>9, <2>6 DEF A, B
    <3>3. daily'[h].requests = Cardinality(A) + 1
          /\ daily'[h].errors = Cardinality(B) + IF Field(r, "failed") THEN 1 ELSE 0
      BY <2>3, <3>1
    <3>4. CASE Field(r, "failed") BY <2>4, <3>2, <3>3, <3>4
    <3>5. CASE ~Field(r, "failed") BY <2>4, <3>2, <3>3, <3>5
    <3>. QED BY <3>4, <3>5
  <2>. QED BY <2>5, <2>6
<1>11. daily' = [h \in Groups |-> daily'[h]] BY <1>0, <1>4 DEF TotalsExact
<1>12. TotalsExact' BY <1>10, <1>11 DEF TotalsExact, Groups, GroupOf, Field
<1>13. \A q \in Calls : Aged(q) => Aged(q)' BY <1>0, <1>1, <1>2 DEF Aged, UsageTypes
<1>14. (Logged \ logs)' = Logged \ logs BY <1>1, <1>5
<1>. QED BY <1>7, <1>12, <1>13, <1>14

----------------------------------------------------------------------------
(* Steps *)

\* Every step keeps it.
LEMMA UsageStep == UsageInv /\ [NextUsage]_usageVars => UsageInv'
<1> SUFFICES ASSUME UsageInv, [NextUsage]_usageVars PROVE UsageInv' OBVIOUS
<1>0. UsageTypes /\ TotalsExact /\ SweepsOld /\ Retention \in Nat /\ LastDay \in Nat
  BY UsageAssumption DEF UsageInv
<1>a. ASSUME UNCHANGED <<observed, stamp, logs, today>> PROVE UsageTypes'
  BY <1>0, <1>a DEF UsageTypes, Logged
<1>b. ASSUME UNCHANGED <<stamp, daily>> PROVE TotalsExact' BY <1>0, <1>b DEF TotalsExact, Logged, Faulty, Where
<1>c. ASSUME UNCHANGED <<stamp, logs, today, sweep>> PROVE SweepsOld' BY <1>0, <1>c DEF SweepsOld, Logged, Aged
<1>d. Retention \in Nat /\ today \in Int /\ \A r \in Logged : stamp[r] \in Int
  BY <1>0 DEF UsageTypes, Days, Logged
<1>1. CASE NextDay
  <2>1. today' = today + 1 /\ today < LastDay /\ UNCHANGED <<observed, stamp, logs, daily, sweep>>
    BY <1>1 DEF NextDay, logPart
  <2>2. UsageTypes' BY <1>0, <2>1 DEF UsageTypes, Logged, Days
  <2>3. ASSUME NEW r \in Calls, Aged(r) PROVE Aged(r)'
    <3>1. stamp[r] \in Int BY <1>d, <2>3 DEF Aged, Logged
    <3>. QED BY <1>d, <2>1, <2>3, <3>1 DEF Aged
  <2>4. Logged' = Logged /\ Logged \subseteq Calls BY <2>1 DEF Logged
  <2>5. SweepsOld' BY <1>0, <2>1, <2>3, <2>4 DEF SweepsOld
  <2>. QED BY <1>b, <2>1, <2>2, <2>5 DEF UsageInv
<1>2. ASSUME NEW r \in Calls, Ended(r) PROVE UsageInv'
  <2>1. observed[r] = NoDay /\ observed' = [observed EXCEPT ![r] = today]
        /\ UNCHANGED <<today, stamp, logs, daily, sweep>>
    BY <1>2 DEF Ended, sweepPart
  <2>2. UsageTypes'
    <3>1. ASSUME NEW q \in Logged \cap Settled PROVE observed'[q] = stamp[q]
      BY <1>0, <2>1 DEF UsageTypes, Logged
    <3>. QED BY <1>0, <2>1, <3>1 DEF UsageTypes, Logged
  <2>. QED BY <1>b, <1>c, <2>1, <2>2 DEF UsageInv
<1>3. ASSUME NEW r \in Calls, SaveLog(r) PROVE UsageInv'
  <2>1. /\ UsageTypes' /\ TotalsExact' /\ (\A q \in Calls : Aged(q) => Aged(q)') /\ (Logged \ logs)' = Logged \ logs
        /\ UNCHANGED sweep
    BY <1>3, OneLogMore DEF SaveLog, sweepPart
  <2>2. SweepsOld' BY <1>0, <2>1 DEF SweepsOld, Logged
  <2>. QED BY <2>1, <2>2 DEF UsageInv
<1>4. ASSUME NEW r \in Calls, CountMinute(r) \/ ReadPeak(r) \/ WritePeak(r) \/ Unobserved(r) PROVE UsageInv'
  <2>1. UNCHANGED <<today, observed, stamp, logs, daily, sweep>>
    BY <1>4 DEF CountMinute, ReadPeak, WritePeak, Unobserved, logPart, sweepPart
  <2>. QED BY <1>a, <1>b, <1>c, <2>1 DEF UsageInv
<1>5. ASSUME NEW s \in Sweepers, Claim(s) \/ DropBodies(s) PROVE UsageInv'
  <2>1. UNCHANGED <<today, observed, stamp, logs, daily>> BY <1>5 DEF Claim, DropBodies, logPart
  <2>2. PICK place : sweep' = [sweep EXCEPT ![s].at = place] /\ (place # "sleeps" => Retention > 0)
    BY <1>0, <1>5 DEF Claim, DropBodies, SweepsOld
  <2>3. PICK v : v = sweep[s] OBVIOUS
  <2>4. PICK w : w = [v EXCEPT !.at = place] OBVIOUS
  <2>5. IsSweep(v) BY <1>0, <2>3 DEF SweepsOld
  <2>6. IsSweep(w) /\ w.at = place /\ w.ids = v.ids BY <2>4, <2>5 DEF IsSweep
  <2>7. sweep' = [sweep EXCEPT ![s] = w] BY <2>2, <2>3, <2>4
  <2>8. SweepsOld' BY <1>0, <2>1, <2>2, <2>3, <2>6, <2>7 DEF SweepsOld, Logged, Aged
  <2>. QED BY <1>a, <1>b, <2>1, <2>8 DEF UsageInv
<1>6. ASSUME NEW s \in Sweepers, PickLogs(s) PROVE UsageInv'
  <2>1. UNCHANGED <<today, observed, stamp, logs, daily>> BY <1>6 DEF PickLogs, logPart
  <2>2. PICK later \in BOOLEAN :
            LET old == {r \in logs : stamp[r] + Retention < IF later THEN today + 1 ELSE today} IN
            sweep' = [sweep EXCEPT ![s] = IF old = {} THEN [at |-> "sleeps", ids |-> {}] ELSE [at |-> "bodies", ids |-> old]]
    BY <1>6 DEF PickLogs
  <2> DEFINE old == {r \in logs : stamp[r] + Retention < IF later THEN today + 1 ELSE today}
  <2>3. Retention > 0 BY <1>0, <1>6 DEF PickLogs, SweepsOld
  <2>4. old \subseteq {r \in Calls : Aged(r)}
    <3> SUFFICES ASSUME NEW r \in old PROVE r \in Calls /\ Aged(r) OBVIOUS
    <3>1. r \in Logged BY <1>0 DEF UsageTypes
    <3>2. r \in Calls /\ stamp[r] # NoDay /\ stamp[r] \in Int BY <1>d, <3>1 DEF Logged
    <3>3. stamp[r] + Retention <= today BY <1>d, <3>2
    <3>. QED BY <2>3, <3>2, <3>3 DEF Aged
  <2>5. PICK w : w = IF old = {} THEN [at |-> "sleeps", ids |-> {}] ELSE [at |-> "bodies", ids |-> old] OBVIOUS
  <2>6. sweep' = [sweep EXCEPT ![s] = w] BY <2>2, <2>5
  <2> HIDE DEF old
  <2>7. IsSweep(w) /\ w.ids \subseteq {r \in Calls : Aged(r)} BY <2>4, <2>5 DEF IsSweep
  <2>8. SweepsOld' BY <1>0, <2>1, <2>3, <2>6, <2>7 DEF SweepsOld, Logged, Aged
  <2>. QED BY <1>a, <1>b, <2>1, <2>8 DEF UsageInv
<1>7. ASSUME NEW s \in Sweepers, DropLogs(s) PROVE UsageInv'
  <2>1. /\ UNCHANGED <<today, observed, stamp, daily>> /\ logs' = logs \ sweep[s].ids
        /\ sweep' = [sweep EXCEPT ![s].at = "picks"] /\ sweep[s].at = "logs"
    BY <1>7 DEF DropLogs
  <2>2. PICK v : v = sweep[s] OBVIOUS
  <2>3. PICK w : w = [v EXCEPT !.at = "picks"] OBVIOUS
  <2>4. IsSweep(v) /\ Retention > 0 /\ v.ids \subseteq {r \in Calls : Aged(r)} BY <1>0, <2>1, <2>2 DEF SweepsOld
  <2>5. IsSweep(w) /\ w.ids = v.ids BY <2>3, <2>4 DEF IsSweep
  <2>6. sweep' = [sweep EXCEPT ![s] = w] BY <2>1, <2>2, <2>3
  <2>7. Logged' = Logged /\ \A r \in Calls : Aged(r)' <=> Aged(r) BY <2>1 DEF Logged, Aged
  <2>8. \A r \in Logged' \ logs' : Aged(r)'
    BY <1>0, <2>1, <2>2, <2>4, <2>7 DEF SweepsOld, Logged
  <2>9. SweepsOld' BY <1>0, <2>4, <2>5, <2>6, <2>7, <2>8 DEF SweepsOld
  <2>10. UsageTypes' BY <1>0, <2>1, <2>7 DEF UsageTypes
  <2>. QED BY <1>b, <2>1, <2>9, <2>10 DEF UsageInv
<1>8. ASSUME NEW s \in Sweepers, StopSweep(s) PROVE UsageInv'
  <2>1. /\ UNCHANGED <<today, observed, stamp, logs, daily>>
        /\ sweep' = [sweep EXCEPT ![s] = [at |-> "sleeps", ids |-> {}]]
    BY <1>8 DEF StopSweep, logPart
  <2>2. SweepsOld' BY <1>0, <2>1 DEF SweepsOld, Logged, Aged, IsSweep
  <2>. QED BY <1>a, <1>b, <2>1, <2>2 DEF UsageInv
<1>9. CASE UNCHANGED usageVars
  <2>1. UNCHANGED <<today, observed, stamp, logs, daily, sweep>> BY <1>9 DEF usageVars
  <2>. QED BY <1>a, <1>b, <1>c, <2>1 DEF UsageInv
<1>. QED BY <1>1, <1>2, <1>3, <1>4, <1>5, <1>6, <1>7, <1>8, <1>9 DEF NextUsage

----------------------------------------------------------------------------
(* What the dashboards show *)

\* The totals of any rows are those of the requests that they are about.
LEMMA RowsTell ==
    ASSUME UsageInv, NEW rows \in SUBSET Groups, NEW s \in SUBSET Logged,
           \A r \in Logged : r \in s <=> GroupOf(r, stamp[r]) \in rows
    PROVE  Totals(rows) = Tally(s)
<1>0. TotalsExact /\ Logged \in SUBSET Calls /\ Faulty \in SUBSET Calls BY DEF UsageInv, Logged, Faulty
<1>1. IsFiniteSet(rows) /\ IsFiniteSet(Logged) /\ IsFiniteSet(Faulty) BY <1>0, GroupsFinite, FS_Subset
<1> DEFINE f == [g \in Groups |-> daily[g].requests]
           e == [g \in Groups |-> daily[g].errors]
<1>2. \A k \in rows : f[k] = Cardinality(ClassOf(Logged, Where, k)) BY <1>0 DEF TotalsExact
<1>3. \A k \in rows : e[k] = Cardinality(ClassOf(Faulty, Where, k)) BY <1>0 DEF TotalsExact
<1>4. Totals(rows) = [requests |-> SumFunctionOnSet(f, rows), errors |-> SumFunctionOnSet(e, rows)] BY DEF Totals
<1> HIDE DEF f, e
<1>5. SumFunctionOnSet(f, rows) = Cardinality(ClassesOf(Logged, Where, rows)) BY <1>1, <1>2, SizeByClass
<1>6. SumFunctionOnSet(e, rows) = Cardinality(ClassesOf(Faulty, Where, rows)) BY <1>1, <1>3, SizeByClass
<1>7. ClassesOf(Logged, Where, rows) = s BY <1>0 DEF ClassesOf, Where
<1>8. ClassesOf(Faulty, Where, rows) = {r \in s : Field(r, "failed")} BY <1>0 DEF ClassesOf, Where, Faulty
<1>. QED BY <1>4, <1>5, <1>6, <1>7, <1>8 DEF Tally

\* Logged requests of the days of a window
InWindow(days) == {r \in Logged : DayOf(r) >= StartDay(days)}

\* A saved request is of the day of its log.
LEMMA DaysAgree ==
    ASSUME UsageInv, NEW r \in Logged
    PROVE  r \in Calls /\ stamp[r] \in Days /\ DayOf(r) = stamp[r]
BY DEF UsageInv, UsageTypes, Logged, DayOf

\* Views of a window: by the model, the key, the tenant or the channel of the rows.
LEMMA ViewsTell ==
    ASSUME UsageInv, NEW days \in 1..2, NEW v
    PROVE  /\ Totals({g \in Since(days) : g.model = v}) = Tally({r \in InWindow(days) : Field(r, "model") = v})
           /\ Totals({g \in Since(days) : g.key = v}) = Tally({r \in InWindow(days) : Field(r, "key") = v})
           /\ Totals({g \in Since(days) : g.tenant = v}) = Tally({r \in InWindow(days) : Field(r, "tenant") = v})
           /\ Totals({g \in Since(days) : g.channel = v}) = Tally({r \in InWindow(days) : Field(r, "channel") = v})
<1>1. ASSUME NEW r \in Logged
      PROVE  LET g == GroupOf(r, stamp[r]) IN
             /\ (r \in InWindow(days) <=> g \in Since(days))
             /\ g.model = Field(r, "model") /\ g.key = Field(r, "key") /\ g.tenant = Field(r, "tenant")
             /\ g.channel = Field(r, "channel")
  <2>1. r \in Calls /\ stamp[r] \in Days /\ DayOf(r) = stamp[r] BY DaysAgree
  <2>. QED BY <2>1, GroupNamed DEF InWindow, Since
<1>2. Since(days) \subseteq Groups /\ InWindow(days) \subseteq Logged BY DEF Since, InWindow
<1>3. Totals({g \in Since(days) : g.model = v}) = Tally({r \in InWindow(days) : Field(r, "model") = v})
  <2> DEFINE rows == {g \in Since(days) : g.model = v}
             s == {r \in InWindow(days) : Field(r, "model") = v}
  <2>1. rows \in SUBSET Groups /\ s \in SUBSET Logged BY <1>2
  <2>2. \A r \in Logged : r \in s <=> GroupOf(r, stamp[r]) \in rows BY <1>1
  <2> HIDE DEF rows, s
  <2>3. Totals(rows) = Tally(s) BY <2>1, <2>2, RowsTell
  <2>. QED BY <2>3 DEF rows, s
<1>4. Totals({g \in Since(days) : g.key = v}) = Tally({r \in InWindow(days) : Field(r, "key") = v})
  <2> DEFINE rows == {g \in Since(days) : g.key = v}
             s == {r \in InWindow(days) : Field(r, "key") = v}
  <2>1. rows \in SUBSET Groups /\ s \in SUBSET Logged BY <1>2
  <2>2. \A r \in Logged : r \in s <=> GroupOf(r, stamp[r]) \in rows BY <1>1
  <2> HIDE DEF rows, s
  <2>3. Totals(rows) = Tally(s) BY <2>1, <2>2, RowsTell
  <2>. QED BY <2>3 DEF rows, s
<1>5. Totals({g \in Since(days) : g.tenant = v}) = Tally({r \in InWindow(days) : Field(r, "tenant") = v})
  <2> DEFINE rows == {g \in Since(days) : g.tenant = v}
             s == {r \in InWindow(days) : Field(r, "tenant") = v}
  <2>1. rows \in SUBSET Groups /\ s \in SUBSET Logged BY <1>2
  <2>2. \A r \in Logged : r \in s <=> GroupOf(r, stamp[r]) \in rows BY <1>1
  <2> HIDE DEF rows, s
  <2>3. Totals(rows) = Tally(s) BY <2>1, <2>2, RowsTell
  <2>. QED BY <2>3 DEF rows, s
<1>6. Totals({g \in Since(days) : g.channel = v}) = Tally({r \in InWindow(days) : Field(r, "channel") = v})
  <2> DEFINE rows == {g \in Since(days) : g.channel = v}
             s == {r \in InWindow(days) : Field(r, "channel") = v}
  <2>1. rows \in SUBSET Groups /\ s \in SUBSET Logged BY <1>2
  <2>2. \A r \in Logged : r \in s <=> GroupOf(r, stamp[r]) \in rows BY <1>1
  <2> HIDE DEF rows, s
  <2>3. Totals(rows) = Tally(s) BY <2>1, <2>2, RowsTell
  <2>. QED BY <2>3 DEF rows, s
<1>. QED BY <1>3, <1>4, <1>5, <1>6

\* All requests, and those of a day.
LEMMA DaysTell ==
    ASSUME UsageInv
    PROVE  /\ Totals(Groups) = Tally(Logged)
           /\ \A d \in Days : Totals({g \in Groups : g.day = d}) = Tally({r \in Logged : DayOf(r) = d})
<1>1. \A r \in Logged : GroupOf(r, stamp[r]) \in Groups /\ GroupOf(r, stamp[r]).day = DayOf(r)
  BY DaysAgree, GroupNamed
<1>2. Totals(Groups) = Tally(Logged)
  <2>1. \A r \in Logged : r \in Logged <=> GroupOf(r, stamp[r]) \in Groups BY <1>1
  <2>. QED BY <2>1, RowsTell
<1>3. ASSUME NEW d \in Days PROVE Totals({g \in Groups : g.day = d}) = Tally({r \in Logged : DayOf(r) = d})
  <2> DEFINE rows == {g \in Groups : g.day = d}
             s == {r \in Logged : DayOf(r) = d}
  <2>1. rows \in SUBSET Groups /\ s \in SUBSET Logged OBVIOUS
  <2>2. \A r \in Logged : r \in s <=> GroupOf(r, stamp[r]) \in rows BY <1>1
  <2> HIDE DEF rows, s
  <2>3. Totals(rows) = Tally(s) BY <2>1, <2>2, RowsTell
  <2>. QED BY <2>3 DEF rows, s
<1>. QED BY <1>2, <1>3

\* Sessions of a window that retention does not reach are complete.
LEMMA SessionsTell ==
    ASSUME UsageInv, NEW v, NEW days \in 1..2, Retention = 0 \/ days <= Retention
    PROVE  Sessions(v, days) = {o \in InWindow(days) : v # NoSession /\ Field(o, "session") = v}
<1>0. /\ logs \subseteq Logged /\ Retention \in Nat /\ today \in Int /\ \A r \in Logged \ logs : Aged(r)
      /\ \A r \in Logged : r \in Calls /\ stamp[r] \in Int /\ DayOf(r) = stamp[r]
  BY UsageAssumption, DaysAgree DEF UsageInv, UsageTypes, SweepsOld, Days
<1>1. ASSUME NEW r \in Logged, stamp[r] >= StartDay(days) PROVE r \in logs
  <2>1. SUFFICES ASSUME r \notin logs PROVE FALSE OBVIOUS
  <2>2. Retention > 0 /\ stamp[r] + Retention <= today BY <1>0, <2>1 DEF Aged
  <2>. QED BY <1>0, <1>1, <2>2 DEF StartDay
<1>2. \A r : r \in logs /\ stamp[r] >= StartDay(days) <=> r \in Logged /\ DayOf(r) >= StartDay(days)
  BY <1>0, <1>1
<1>. QED BY <1>2 DEF Sessions, InWindow

\* So every view is of the requests that were logged.
LEMMA ViewsAgree == UsageInv => TotalsOutliveLogs
<1> SUFFICES ASSUME UsageInv PROVE TotalsOutliveLogs OBVIOUS
<1>1. Logged = {r \in Calls : stamp[r] # NoDay} BY DEF Logged
<1>2. \A days : InWindow(days) = {r \in Logged : DayOf(r) >= StartDay(days)} BY DEF InWindow
<1>3. Overview = [all |-> Tally(Logged), today |-> Tally({r \in Logged : DayOf(r) = today})]
  <2>1. today \in Days BY DEF UsageInv, UsageTypes
  <2>. QED BY <2>1, DaysTell DEF Overview
<1>4. ASSUME NEW d \in Days
      PROVE  UsageOn(d) = Tally({r \in Logged : DayOf(r) = d})
             /\ ErrorRate(d) = <<Tally({r \in Logged : DayOf(r) = d}).errors, Tally({r \in Logged : DayOf(r) = d}).requests>>
  BY DaysTell DEF UsageOn, ErrorRate
<1>5. ASSUME NEW r \in Calls, NEW days \in 1..2
      PROVE  /\ ByModel(Field(r, "model"), days) = Tally({o \in InWindow(days) : Field(o, "model") = Field(r, "model")})
             /\ ByKey(Field(r, "key"), days) = Tally({o \in InWindow(days) : Field(o, "key") = Field(r, "key")})
             /\ Field(r, "tenant") \notin Internal \cup {NoTenant} =>
                  ByTeam(Field(r, "tenant"), days) = Tally({o \in InWindow(days) : Field(o, "tenant") = Field(r, "tenant")})
             /\ Field(r, "channel") # NoChannel =>
                  CacheStats(Field(r, "channel"), days)
                      = Tally({o \in InWindow(days) : Field(o, "channel") = Field(r, "channel")})
  <2>1. ByModel(Field(r, "model"), days) = Tally({o \in InWindow(days) : Field(o, "model") = Field(r, "model")})
    BY ViewsTell, ZenonT(60) DEF ByModel
  <2>2. ByKey(Field(r, "key"), days) = Tally({o \in InWindow(days) : Field(o, "key") = Field(r, "key")})
    BY ViewsTell, ZenonT(60) DEF ByKey
  <2>3. Field(r, "tenant") \notin Internal \cup {NoTenant} =>
          ByTeam(Field(r, "tenant"), days) = Tally({o \in InWindow(days) : Field(o, "tenant") = Field(r, "tenant")})
    <3>1. \A t, n : t \notin Internal \cup {NoTenant} => ByTeam(t, n) = Totals({g \in Since(n) : g.tenant = t})
      BY Zenon DEF ByTeam
    <3>2. Totals({g \in Since(days) : g.tenant = Field(r, "tenant")})
             = Tally({o \in InWindow(days) : Field(o, "tenant") = Field(r, "tenant")})
      BY ViewsTell, ZenonT(60)
    <3>3. Field(r, "tenant") \notin Internal \cup {NoTenant} =>
            ByTeam(Field(r, "tenant"), days) = Totals({g \in Since(days) : g.tenant = Field(r, "tenant")})
      BY <3>1
    <3>. QED BY <3>2, <3>3
  <2>4. Field(r, "channel") # NoChannel =>
          CacheStats(Field(r, "channel"), days)
              = Tally({o \in InWindow(days) : Field(o, "channel") = Field(r, "channel")})
    BY ViewsTell, ZenonT(60) DEF CacheStats, ByChannel
  <2>. QED BY <2>1, <2>2, <2>3, <2>4
<1>6. ASSUME NEW r \in Calls, NEW days \in 1..2, Retention = 0 \/ days <= Retention
      PROVE  Sessions(Field(r, "session"), days)
               = {o \in InWindow(days) : Field(r, "session") # NoSession /\ Field(o, "session") = Field(r, "session")}
  BY <1>6, SessionsTell
<1>7. ASSUME NEW r \in Calls, LogAudit(r) PROVE r \in ListLogs("key", Field(r, "key"))
  BY <1>7 DEF LogAudit, ListLogs
<1> HIDE DEF Logged
<1>. QED BY <1>1, <1>3, <1>4, <1>5, <1>6, <1>7 DEF TotalsOutliveLogs, InWindow

\* Whatever cleanup removed and however late a request was settled, every view of
\* the running totals is that of the requests that were ever logged
\* (services/usage_stats.py, services/logging_service.py).
THEOREM TotalsStay == SpecUsage => []TotalsOutliveLogs
BY UsageInit, UsageStep, ViewsAgree, PTL DEF SpecUsage

----------------------------------------------------------------------------
(* What is kept of a request (Excerpts) *)

\* What every clip leaves of a text
Shortest == Limits[Len(Limits)]

\* b is what is left of the request, and of its latest message enough
LeftOf(b) ==
    /\ b \in Body /\ b.other <= request.other
    /\ b.messages = <<>> <=> request.messages = <<>>
    /\ request.messages # <<>> =>
          /\ Len(LastOf(b)) = Len(LastOf(request))
          /\ \A i \in 1..Len(LastOf(b)) :
                /\ LastOf(b)[i] <= LastOf(request)[i]
                /\ LastOf(b)[i] >= Least(LastOf(request)[i], Shortest)

\* A function of 1..n is a sequence.
LEMMA SeqOf ==
    ASSUME NEW n \in Nat, NEW S, NEW f \in [1..n -> S]
    PROVE  f \in Seq(S) /\ Len(f) = n
  <1>1. f \in Seq(S)
    BY SeqDef
  <1> QED
    BY <1>1

\* The sum of a sequence of numbers is one, and no greater if no number is.
LEMMA TotalFacts ==
    ASSUME NEW s \in Seq(Nat)
    PROVE  /\ Total(s) \in Nat
           /\ \A t \in Seq(Nat) : Len(t) = Len(s) /\ (\A i \in 1..Len(s) : t[i] <= s[i]) => Total(t) <= Total(s)
  <1>1. IsFiniteSet(1..Len(s)) /\ DOMAIN s = 1..Len(s) /\ \A i \in 1..Len(s) : s[i] \in Nat
    <2>1. Len(s) \in Nat
      OBVIOUS
    <2>2. IsFiniteSet(1..Len(s))
      BY <2>1, FS_Interval
    <2> QED
      BY <2>2
  <1>2. Total(s) \in Nat
    BY <1>1, SumNat DEF Total
  <1>3. ASSUME NEW t \in Seq(Nat), Len(t) = Len(s), \A i \in 1..Len(s) : t[i] <= s[i]
        PROVE  Total(t) <= Total(s)
    <2>1. DOMAIN t = DOMAIN s /\ \A i \in DOMAIN s : t[i] \in Int /\ s[i] \in Int /\ t[i] <= s[i]
      BY <1>1, <1>3
    <2> QED
      BY <1>1, <2>1, SumMonotone DEF Total
  <1> QED
    BY <1>2, <1>3

\* The size of a body is a number,
LEMMA SizeNat == ASSUME NEW b \in Body PROVE Size(b) \in Nat
  <1> DEFINE s == [i \in DOMAIN b.messages |-> 1 + Total(b.messages[i])]
  <1>1. b.messages \in Seq(Seq(Nat)) /\ b.tools \in Nat /\ b.other \in Nat
    BY DEF Body
  <1>2. s \in Seq(Nat)
    <2>0. DOMAIN s = 1..Len(b.messages) /\ Len(b.messages) \in Nat
      BY <1>1
    <2>1. \A i \in 1..Len(b.messages) : b.messages[i] \in Seq(Nat)
      BY <1>1
    <2>2. \A i \in 1..Len(b.messages) : 1 + Total(b.messages[i]) \in Nat
      BY <2>1, TotalFacts
    <2>3. s \in [1..Len(b.messages) -> Nat]
      BY <2>0, <2>2
    <2> QED
      BY <2>0, <2>3, SeqOf
  <1>3. Total(s) \in Nat
    BY <1>2, TotalFacts
  <1> QED
    BY <1>1, <1>3 DEF Size

\* ... a message's own and what is beside it, if there is one,
LEMMA SizeOne ==
    ASSUME NEW b \in Body, NEW m \in Seq(Nat), b.messages = <<m>>
    PROVE  Size(b) = 1 + Total(m) + b.tools + b.other
  <1> DEFINE s == [i \in DOMAIN b.messages |-> 1 + Total(b.messages[i])]
  <1>1. DOMAIN s = {1} /\ s[1] = 1 + Total(m) /\ Total(m) \in Nat
    BY TotalFacts
  <1>2. Size(b) = Total(s) + b.tools + b.other
    BY DEF Size
  <1> HIDE DEF s
  <1>3. IsFiniteSet({1}) /\ {1} \ {1} = {} /\ \A i \in {1} : s[i] \in Int
    <2>1. IsFiniteSet({1})
      BY FS_Singleton
    <2> QED
      BY <1>1, <2>1
  <1>4. SumFunctionOnSet(s, {1}) = s[1] + SumFunctionOnSet(s, {1} \ {1})
    BY <1>3, SumRemove
  <1>5. Total(s) = s[1] + 0
    BY <1>1, <1>3, <1>4, SumEmpty DEF Total
  <1> QED
    BY <1>1, <1>2, <1>5

\* ... and the placeholder's is 1.
LEMMA SizePlaceholder == Size(Placeholder) = 1 /\ Placeholder \in Body
  <1>1. Placeholder = [messages |-> <<>>, tools |-> 0, other |-> 1, whole |-> FALSE]
    BY DEF Placeholder, NotKept
  <1> DEFINE s == [i \in DOMAIN Placeholder.messages |-> 1 + Total(Placeholder.messages[i])]
  <1>2. DOMAIN s = {}
    BY <1>1
  <1>3. Total(s) = 0
    <2> HIDE DEF s
    <2> QED
      BY <1>2, SumEmpty DEF Total
  <1> QED
    BY <1>1, <1>3 DEF Size, Body

\* Clipped texts are as many, no longer, and no shorter than what clips most.
LEMMA RetightenKeeps ==
    ASSUME NEW b, LeftOf(b), NEW limit \in Nat, limit >= Shortest, request \in Body
    PROVE  /\ LeftOf(Retighten(b, limit))
           /\ Len(Retighten(b, limit).messages) = Len(b.messages)
           /\ Retighten(b, limit).tools = b.tools /\ Retighten(b, limit).whole = b.whole
  <1> DEFINE r == Retighten(b, limit)
  <1>1. b \in Body /\ b.messages \in Seq(Seq(Nat)) /\ Shortest \in Nat
    BY ExcerptsAssumption DEF LeftOf, Body, Shortest
  <1>2. /\ DOMAIN r = {"messages", "tools", "other", "whole"}
        /\ r = [messages |-> r.messages, tools |-> r.tools, other |-> r.other, whole |-> r.whole]
        /\ r.tools = b.tools /\ r.whole = b.whole /\ r.other = Least(b.other, limit)
    BY DEF Retighten
  <1>2a. /\ DOMAIN r.messages = 1..Len(b.messages) /\ Len(b.messages) \in Nat
         /\ r.messages = [i \in 1..Len(b.messages) |-> r.messages[i]]
    BY <1>1 DEF Retighten
  <1>2b. ASSUME NEW i \in 1..Len(b.messages)
         PROVE  r.messages[i] = [j \in 1..Len(b.messages[i]) |-> Least(b.messages[i][j], limit)]
    <2>1. i \in DOMAIN b.messages /\ b.messages[i] \in Seq(Nat)
      BY <1>1
    <2>2. r.messages[i] = [j \in DOMAIN b.messages[i] |-> Least(b.messages[i][j], limit)]
      BY <2>1 DEF Retighten
    <2>3. DOMAIN b.messages[i] = 1..Len(b.messages[i])
      BY <2>1
    <2> QED
      BY <2>2, <2>3
  <1>3. \A n \in Nat : Least(n, limit) \in Nat /\ Least(n, limit) <= n /\ Least(n, limit) >= Least(n, Shortest)
    BY <1>1 DEF Least
  <1>4. \A i \in 1..Len(b.messages) : r.messages[i] \in Seq(Nat) /\ Len(r.messages[i]) = Len(b.messages[i])
    <2> SUFFICES ASSUME NEW i \in 1..Len(b.messages)
                 PROVE  r.messages[i] \in Seq(Nat) /\ Len(r.messages[i]) = Len(b.messages[i])
      OBVIOUS
    <2>1. b.messages[i] \in Seq(Nat)
      BY <1>1
    <2>1a. Len(b.messages[i]) \in Nat /\ \A j \in 1..Len(b.messages[i]) : b.messages[i][j] \in Nat
      BY <2>1
    <2>2. Len(b.messages[i]) \in Nat /\ r.messages[i] \in [1..Len(b.messages[i]) -> Nat]
      BY <1>2b, <1>3, <2>1a
    <2> HIDE DEF r
    <2> QED
      BY <2>2, SeqOf
  <1>5. r.messages \in Seq(Seq(Nat)) /\ Len(r.messages) = Len(b.messages)
    <2>1. r.messages \in [1..Len(b.messages) -> Seq(Nat)]
      BY <1>2a, <1>4
    <2> HIDE DEF r
    <2> QED
      BY <1>2a, <2>1, SeqOf
  <1>6. r \in Body /\ r.other <= b.other
    BY <1>1, <1>2, <1>3, <1>5 DEF Body
  <1>7. b.messages = <<>> <=> r.messages = <<>>
    BY <1>1, <1>5
  <1>8. ASSUME request.messages # <<>> 
        PROVE  /\ Len(LastOf(r)) = Len(LastOf(b))
               /\ \A i \in 1..Len(LastOf(b)) : LastOf(r)[i] = Least(LastOf(b)[i], limit) /\ LastOf(b)[i] \in Nat
    <2>1. b.messages # <<>> /\ Len(b.messages) \in 1..Len(b.messages)
      BY <1>1, <1>8 DEF LeftOf
    <2>2. LastOf(r) = [j \in 1..Len(LastOf(b)) |-> Least(LastOf(b)[j], limit)] /\ LastOf(b) \in Seq(Nat)
      <3>1. r.messages[Len(b.messages)] = [j \in 1..Len(b.messages[Len(b.messages)]) |-> Least(b.messages[Len(b.messages)][j], limit)]
        BY <1>2b, <2>1
      <3> HIDE DEF r
      <3> QED
        BY <1>1, <1>5, <2>1, <3>1 DEF LastOf
    <2>3. Len(LastOf(b)) \in Nat
      BY <2>2
    <2> QED
      BY <2>2, <2>3
  <1> HIDE DEF r
  <1>9. LeftOf(r)
    <2>1. r.other <= request.other
      BY <1>1, <1>6 DEF LeftOf, Body
    <2>2. ASSUME request.messages # <<>>, NEW i \in 1..Len(LastOf(r))
          PROVE  LastOf(r)[i] <= LastOf(request)[i] /\ LastOf(r)[i] >= Least(LastOf(request)[i], Shortest)
      <3>1. i \in 1..Len(LastOf(b)) /\ i \in 1..Len(LastOf(request))
        BY <1>8, <2>2 DEF LeftOf
      <3>2. LastOf(request)[i] \in Nat
        <4>1. request.messages \in Seq(Seq(Nat)) /\ request.messages # <<>>
          BY <2>2 DEF Body
        <4>2. LastOf(request) \in Seq(Nat)
          BY <4>1 DEF LastOf
        <4> QED
          BY <3>1, <4>2
      <3>3. LastOf(r)[i] = Least(LastOf(b)[i], limit) /\ LastOf(b)[i] \in Nat
        BY <1>8, <2>2, <3>1
      <3>4. LastOf(b)[i] <= LastOf(request)[i] /\ LastOf(b)[i] >= Least(LastOf(request)[i], Shortest)
        BY <2>2, <3>1 DEF LeftOf
      <3> QED
        BY <1>1, <3>2, <3>3, <3>4 DEF Least
    <2> QED
      BY <1>6, <1>7, <1>8, <2>1, <2>2 DEF LeftOf
  <1> QED
    BY <1>2, <1>5, <1>9 DEF r

\* Whoever drops messages keeps the latest.
LEMMA EndingKeeps ==
    ASSUME NEW b, LeftOf(b), NEW c \in Body, c.other = b.other,
           b.messages = <<>> <=> c.messages = <<>>,
           c.messages # <<>> => LastOf(c) = LastOf(b)
    PROVE  LeftOf(c)
  BY DEF LeftOf

\* Dropping the oldest does,
LEMMA DropKeeps ==
    ASSUME NEW b, LeftOf(b)
    PROVE  /\ LeftOf(DropOldest(b)) /\ DropOldest(b).other = b.other
           /\ DropOldest(b).messages # <<>> => LastOf(DropOldest(b)) = LastOf(b)
  <1> DEFINE n == Len(b.messages)
             from(i) == [b EXCEPT !.messages = SubSeq(@, i, n)]
             fits == {i \in 1..n : i = n \/ Size(from(i)) <= MaxChars}
  <1>1. b \in Body /\ b.messages \in Seq(Seq(Nat)) /\ n \in Nat
    BY DEF LeftOf, Body
  <1>2. CASE n = 0
    BY <1>2 DEF DropOldest
  <1>3. CASE n # 0
    <2>1. fits \in SUBSET (0..n) /\ n \in fits
      BY <1>1, <1>3
    <2>2. \E i \in fits : \A j \in fits : i <= j
      <3> HIDE DEF fits, n
      <3> QED
        BY <1>1, <2>1, LeastNumber
    <2> DEFINE first == CHOOSE i \in fits : \A j \in fits : i <= j
    <2>3. first \in 1..n
      <3> HIDE DEF fits
      <3>1. first \in fits
        BY <2>2
      <3> QED
        BY <3>1 DEF fits
    <2>4. DropOldest(b) = [b EXCEPT !.messages = SubSeq(@, first, n)]
      BY <1>3 DEF DropOldest
    <2> HIDE DEF first
    <2> DEFINE rest == SubSeq(b.messages, first, n)
    <2>5. rest \in Seq(Seq(Nat)) /\ Len(rest) = n - first + 1 /\ rest[Len(rest)] = b.messages[n]
      BY <1>1, <2>3
    <2>6. /\ DropOldest(b).messages = rest /\ DropOldest(b).other = b.other
          /\ DropOldest(b) \in Body
      <3>1. DropOldest(b) = [b EXCEPT !.messages = rest]
        BY <2>4
      <3> HIDE DEF rest
      <3> QED
        BY <1>1, <2>5, <3>1 DEF Body
    <2>7. rest # <<>> /\ b.messages # <<>>
      <3> HIDE DEF rest
      <3>1. Len(rest) # 0
        BY <1>1, <2>3, <2>5
      <3> QED
        BY <1>3, <3>1
    <2>8. LastOf(DropOldest(b)) = LastOf(b)
      BY <2>5, <2>6 DEF LastOf
    <2> QED
      BY <2>6, <2>7, <2>8, EndingKeeps
  <1> QED
    BY <1>2, <1>3

\* ... and the first cut.
LEMMA ShrinkKeeps ==
    ASSUME request \in Body
    PROVE  LeftOf(Shrink(request))
  <1> DEFINE b == Retighten(request, StringChars)
             n == Len(b.messages)
             end == SubSeq(b.messages, n - Turns + 2, n)
             all == <<<<1>>>> \o end
  <1>0. \A m \in Nat, k \in Nat : Least(m, k) <= m
    BY DEF Least
  <1>1. LeftOf(request)
    <2>1. Shortest \in Nat /\ request.other \in Nat
      BY ExcerptsAssumption DEF Shortest, Body
    <2>2. ASSUME request.messages # <<>>, NEW i \in 1..Len(LastOf(request))
          PROVE  LastOf(request)[i] \in Nat
      <3>1. request.messages \in Seq(Seq(Nat))
        BY DEF Body
      <3>2. LastOf(request) \in Seq(Nat)
        BY <2>2, <3>1 DEF LastOf
      <3> QED
        BY <2>2, <3>2
    <2> QED
      BY <1>0, <2>1, <2>2 DEF LeftOf
  <1>2. LeftOf(b)
    BY <1>1, RetightenKeeps, ExcerptsAssumption DEF Shortest
  <1>3. b \in Body /\ b.messages \in Seq(Seq(Nat)) /\ n \in Nat
    BY <1>2 DEF LeftOf, Body
  <1> HIDE DEF b
  <1>4. CASE n <= Turns
    BY <1>2, <1>4 DEF Shrink, b
  <1>5. CASE ~(n <= Turns)
    <2>1. Turns \in Nat /\ Turns > 1 /\ n - Turns + 2 \in 1..n /\ n # 0
      BY <1>3, <1>5, ExcerptsAssumption
    <2>2. end \in Seq(Seq(Nat)) /\ Len(end) = Turns - 1 /\ end[Len(end)] = b.messages[n]
      BY <1>3, <2>1
    <2>3. <<<<1>>>> \in Seq(Seq(Nat)) /\ Len(<<<<1>>>>) = 1
      OBVIOUS
    <2> HIDE DEF end
    <2>4. all \in Seq(Seq(Nat)) /\ Len(all) = Turns /\ all[Len(all)] = b.messages[n]
      BY <2>1, <2>2, <2>3
    <2>5. Shrink(request) = [b EXCEPT !.messages = all]
      BY <1>5 DEF Shrink, b, end
    <2> HIDE DEF all
    <2>6. Shrink(request) \in Body /\ Shrink(request).messages = all /\ Shrink(request).other = b.other
      BY <1>3, <2>4, <2>5 DEF Body
    <2>7. all # <<>> /\ b.messages # <<>>
      BY <1>3, <2>1, <2>4
    <2>8. LastOf(Shrink(request)) = LastOf(b)
      BY <2>4, <2>6 DEF LastOf
    <2> QED
      BY <1>2, <2>6, <2>7, <2>8, EndingKeeps
  <1> QED
    BY <1>4, <1>5

\* No text of b is longer than the limit
Tight(b, limit) ==
    /\ b.other <= limit
    /\ b.messages # <<>> => \A i \in 1..Len(LastOf(b)) : LastOf(b)[i] <= limit

\* What a pass leaves: enough of the request, which fits or is clipped
Passing(b) == LeftOf(b) /\ (b.whole => Size(b) <= MaxChars)

\* A pass leaves that,
LEMMA ClipKeeps ==
    ASSUME NEW b, Passing(b), NEW limit \in Nat, limit >= Shortest, request \in Body
    PROVE  Passing(Clip(b, limit)) /\ (~Clip(b, limit).whole => Tight(Clip(b, limit), limit))
  <1> DEFINE r == Retighten(b, limit)
             d == DropOldest(r)
             c == [d EXCEPT !.whole = Size(d) <= MaxChars]
  <1>1. CASE b.whole
    BY <1>1 DEF Clip
  <1>2. CASE ~b.whole
    <2>1. LeftOf(r)
      BY RetightenKeeps DEF Passing
    <2>2. Tight(r, limit)
      <3>1. b.other \in Nat /\ b.messages \in Seq(Seq(Nat))
        BY DEF Passing, LeftOf, Body
      <3>2. \A m \in Nat : Least(m, limit) <= limit
        BY DEF Least
      <3>3. r.other <= limit
        BY <3>1, <3>2 DEF Retighten
      <3>4. ASSUME r.messages # <<>>, NEW i \in 1..Len(LastOf(r)) PROVE LastOf(r)[i] <= limit
        <4> DEFINE n == Len(b.messages)
        <4>1. n \in 1..n /\ Len(r.messages) = n /\ n \in DOMAIN b.messages
          <5>1. b.messages # <<>>
            BY <2>1, <3>4 DEF Passing, LeftOf
          <5> QED
            BY <3>1, <5>1, RetightenKeeps DEF Passing
        <4>2. b.messages[n] \in Seq(Nat)
          BY <3>1, <4>1
        <4>3. LastOf(r) = [j \in DOMAIN b.messages[n] |-> Least(b.messages[n][j], limit)]
          BY <4>1 DEF Retighten, LastOf
        <4>4. LastOf(r) = [j \in 1..Len(b.messages[n]) |-> Least(b.messages[n][j], limit)]
          BY <4>2, <4>3
        <4>5. Len(b.messages[n]) \in Nat /\ Len(LastOf(r)) = Len(b.messages[n])
          BY <4>2, <4>4
        <4> HIDE DEF r, n
        <4>6. i \in 1..Len(b.messages[n])
          BY <3>4, <4>5
        <4>7. b.messages[n][i] \in Nat
          BY <4>2, <4>6
        <4> QED
          BY <3>2, <4>4, <4>6, <4>7
      <3> HIDE DEF r
      <3> QED
        BY <3>3, <3>4 DEF Tight
    <2> HIDE DEF r
    <2>3. LeftOf(d) /\ d.other = r.other /\ (d.messages # <<>> => LastOf(d) = LastOf(r))
      BY <2>1, DropKeeps
    <2>4. d \in Body /\ (d.messages = <<>> <=> r.messages = <<>>)
      BY <2>1, <2>3 DEF LeftOf
    <2> HIDE DEF d
    <2>5. Size(d) \in Nat /\ MaxChars \in Nat
      BY <2>4, SizeNat, ExcerptsAssumption DEF LeftOf
    <2>6. /\ c \in Body /\ c.messages = d.messages /\ c.other = d.other /\ c.tools = d.tools
          /\ c.whole = (Size(d) <= MaxChars)
      <3>1. \A v \in BOOLEAN : LET e == [d EXCEPT !.whole = v] IN
               e \in Body /\ e.messages = d.messages /\ e.other = d.other /\ e.tools = d.tools /\ e.whole = v
        BY <2>3 DEF LeftOf, Body
      <3>2. (Size(d) <= MaxChars) \in BOOLEAN
        OBVIOUS
      <3> QED
        BY <3>1, <3>2
    <2>7. Clip(b, limit) = c
      BY <1>2 DEF Clip, d, r
    <2> HIDE DEF c
    <2>8. LastOf(c) = LastOf(d) /\ Size(c) = Size(d)
      BY <2>6 DEF LastOf, Size
    <2>9. LeftOf(c)
      BY <2>3, <2>6, <2>8, EndingKeeps
    <2>10. Tight(c, limit)
      BY <2>2, <2>3, <2>4, <2>6, <2>8 DEF Tight
    <2> QED
      BY <2>6, <2>7, <2>8, <2>9, <2>10 DEF Passing
  <1> QED
    BY <1>1, <1>2

\* p is a table of what the passes leave of b
PassTable(p, b, n) ==
    p = [k \in 0..n |-> IF k = 0 THEN [b EXCEPT !.whole = FALSE] ELSE Clip(p[k - 1], Limits[k])]

\* There is one.
LEMMA PassesExist ==
    ASSUME NEW b, NEW n \in Nat
    PROVE  \E p : PassTable(p, b, n)
  <1> DEFINE Uncut == [b EXCEPT !.whole = FALSE]
             Table(p, m) == /\ DOMAIN p = 0..m /\ p = [k \in 0..m |-> p[k]]
                            /\ \A k \in 0..m : p[k] = IF k = 0 THEN Uncut ELSE Clip(p[k - 1], Limits[k])
             Good == {m \in 0..n : \E p : Table(p, m)}
  <1>1. 0 \in Good
    <2> DEFINE p == [k \in 0..0 |-> Uncut]
    <2> HIDE DEF Uncut
    <2>1. Table(p, 0)
      OBVIOUS
    <2> HIDE DEF Table, p
    <2>2. 0 \in 0..n
      OBVIOUS
    <2> QED
      BY <2>1, <2>2
  <1>2. ASSUME NEW m \in 1..n, m - 1 \in Good PROVE m \in Good
    <2> HIDE DEF Uncut
    <2>1. PICK p : Table(p, m - 1)
      BY <1>2
    <2> DEFINE q == [k \in 0..m |-> IF k = m THEN Clip(p[m - 1], Limits[m]) ELSE p[k]]
    <2>2. m \in Nat /\ m # 0 /\ \A k \in 0..m : k = m \/ (k \in 0..(m - 1) /\ k - 1 # m)
      OBVIOUS
    <2>3. ASSUME NEW k \in 0..m PROVE q[k] = IF k = 0 THEN Uncut ELSE Clip(q[k - 1], Limits[k])
      <3>1. CASE k = m
        BY <2>2, <3>1
      <3>2. CASE k # m
        <4>1. k \in 0..(m - 1) /\ (k # 0 => k - 1 \in 0..m /\ k - 1 # m)
          BY <2>2, <3>2
        <4>2. q[k] = p[k] /\ (k # 0 => q[k - 1] = p[k - 1])
          BY <3>2, <4>1
        <4> HIDE DEF q
        <4> QED
          BY <2>1, <4>1, <4>2
      <3> QED
        BY <3>1, <3>2
    <2>4. Table(q, m)
      <3> HIDE DEF q
      <3>1. DOMAIN q = 0..m /\ q = [k \in 0..m |-> q[k]]
        BY DEF q
      <3> QED
        BY <2>3, <3>1
    <2> HIDE DEF q, Table
    <2> QED
      BY <2>4
  <1>3. n \in Good
    <2> HIDE DEF Good
    <2> QED
      BY <1>1, <1>2, NumberInduction
  <1>4. PICK p : Table(p, n)
    BY <1>3
  <1>5. p = [k \in 0..n |-> IF k = 0 THEN Uncut ELSE Clip(p[k - 1], Limits[k])]
    <2> HIDE DEF Uncut
    <2> QED
      BY <1>4
  <1> QED
    BY <1>5 DEF PassTable

\* Alone, the latest message is no larger than the request's, if it is clipped.
LEMMA AloneFits ==
    ASSUME NEW b, LeftOf(b), Tight(b, Shortest), request \in Body, request.messages # <<>>
    PROVE  /\ Size(Retighten(Alone(b), LastPass)) <= Size(Retighten(Alone(request), Shortest))
           /\ Size(Retighten(Alone(b), LastPass)) \in Nat /\ Size(Retighten(Alone(request), Shortest)) \in Nat
  <1> DEFINE one(c, limit) == [j \in 1..Len(LastOf(c)) |-> Least(LastOf(c)[j], limit)]
  <1>1. Shortest \in Nat /\ LastPass \in Nat /\ LastPass >= Shortest
    BY ExcerptsAssumption DEF Shortest
  <1>2. ASSUME NEW c \in Body, c.messages # <<>>, NEW limit \in Nat
        PROVE  /\ LastOf(c) \in Seq(Nat) /\ one(c, limit) \in Seq(Nat) /\ Len(one(c, limit)) = Len(LastOf(c))
               /\ Size(Retighten(Alone(c), limit)) = 1 + Total(one(c, limit)) + Least(c.other, limit)
               /\ c.other \in Nat
    <2>1. c.messages \in Seq(Seq(Nat)) /\ c.other \in Nat /\ c.whole \in BOOLEAN
      BY DEF Body
    <2>2. LastOf(c) \in Seq(Nat)
      BY <1>2, <2>1 DEF LastOf
    <2>3. Len(LastOf(c)) \in Nat /\ \A j \in 1..Len(LastOf(c)) : LastOf(c)[j] \in Nat
      BY <2>2
    <2>4. one(c, limit) \in [1..Len(LastOf(c)) -> Nat]
      BY <2>3 DEF Least
    <2>5. one(c, limit) \in Seq(Nat) /\ Len(one(c, limit)) = Len(LastOf(c))
      <3> HIDE DEF one
      <3> QED
        BY <2>3, <2>4, SeqOf
    <2> DEFINE a == Alone(c)
               r == Retighten(a, limit)
    <2>6. a = [messages |-> <<LastOf(c)>>, tools |-> 0, other |-> c.other, whole |-> c.whole]
      BY <1>2 DEF Alone
    <2>7. /\ r.messages = [i \in DOMAIN a.messages |-> [j \in DOMAIN a.messages[i] |-> Least(a.messages[i][j], limit)]]
          /\ r.tools = a.tools /\ r.other = Least(a.other, limit) /\ r.whole = a.whole
          /\ r = [messages |-> r.messages, tools |-> r.tools, other |-> r.other, whole |-> r.whole]
      BY DEF Retighten
    <2>8. a.messages = <<LastOf(c)>> /\ a.tools = 0 /\ a.other = c.other /\ a.whole = c.whole
      BY <2>6
    <2> HIDE DEF r, a
    <2>9. r.messages = <<[j \in DOMAIN LastOf(c) |-> Least(LastOf(c)[j], limit)]>>
      BY <2>7, <2>8
    <2>10. DOMAIN LastOf(c) = 1..Len(LastOf(c))
      BY <2>2
    <2>11. r.messages = <<one(c, limit)>>
      BY <2>9, <2>10
    <2>12. Least(c.other, limit) \in Nat
      BY <2>1 DEF Least
    <2> HIDE DEF one
    <2>13. r \in Body
      <3>1. <<one(c, limit)>> \in Seq(Seq(Nat))
        BY <2>5
      <3>2a. r.messages \in Seq(Seq(Nat)) /\ r.tools \in Nat /\ r.other \in Nat
        BY <2>7, <2>8, <2>11, <2>12, <3>1
      <3>2b. r.whole = a.whole /\ a.whole = c.whole /\ c.whole \in BOOLEAN
        BY <2>1, <2>7, <2>8, Zenon
      <3>2. r.messages \in Seq(Seq(Nat)) /\ r.tools \in Nat /\ r.other \in Nat /\ r.whole \in BOOLEAN
        BY <3>2a, <3>2b, Zenon
      <3>3. r = [messages |-> r.messages, tools |-> r.tools, other |-> r.other, whole |-> r.whole]
        BY <2>7
      <3> QED
        BY <3>2, <3>3 DEF Body
    <2>14. Size(r) = 1 + Total(one(c, limit)) + 0 + Least(c.other, limit)
      BY <2>5, <2>7, <2>8, <2>11, <2>13, SizeOne
    <2>15. Total(one(c, limit)) \in Nat
      BY <2>5, TotalFacts
    <2> QED
      BY <2>1, <2>2, <2>5, <2>12, <2>14, <2>15 DEF r, a
  <1>3. b \in Body /\ b.messages # <<>>
    BY DEF LeftOf
  <1> DEFINE s == one(b, LastPass)
             t == one(request, Shortest)
  <1>4. /\ LastOf(b) \in Seq(Nat) /\ s \in Seq(Nat) /\ Len(s) = Len(LastOf(b))
        /\ Size(Retighten(Alone(b), LastPass)) = 1 + Total(s) + Least(b.other, LastPass) /\ b.other \in Nat
    BY <1>1, <1>2, <1>3
  <1>5. /\ LastOf(request) \in Seq(Nat) /\ t \in Seq(Nat) /\ Len(t) = Len(LastOf(request))
        /\ Size(Retighten(Alone(request), Shortest)) = 1 + Total(t) + Least(request.other, Shortest)
        /\ request.other \in Nat
    BY <1>1, <1>2
  <1>6. Len(s) = Len(t)
    BY <1>3, <1>4, <1>5 DEF LeftOf
  <1>7. ASSUME NEW i \in 1..Len(t) PROVE s[i] <= t[i]
    <2>1. i \in 1..Len(LastOf(b)) /\ i \in 1..Len(LastOf(request))
      BY <1>4, <1>5, <1>6, <1>7
    <2>2. s[i] = Least(LastOf(b)[i], LastPass) /\ t[i] = Least(LastOf(request)[i], Shortest)
      BY <2>1
    <2>3. LastOf(b)[i] \in Nat /\ LastOf(request)[i] \in Nat
      BY <1>4, <1>5, <2>1
    <2>4. LastOf(b)[i] <= Shortest /\ LastOf(b)[i] <= LastOf(request)[i]
      BY <1>3, <2>1 DEF Tight, LeftOf
    <2> HIDE DEF s, t
    <2> QED
      BY <1>1, <2>2, <2>3, <2>4 DEF Least
  <1>8. b.other <= Shortest /\ b.other <= request.other
    BY DEF Tight, LeftOf
  <1> HIDE DEF s, t
  <1>9. Total(s) \in Nat /\ Total(t) \in Nat /\ Total(s) <= Total(t)
    BY <1>4, <1>5, <1>6, <1>7, TotalFacts
  <1>10. Least(b.other, LastPass) <= Least(request.other, Shortest)
         /\ Least(b.other, LastPass) \in Nat /\ Least(request.other, Shortest) \in Nat
    BY <1>1, <1>4, <1>5, <1>8 DEF Least
  <1> QED
    BY <1>4, <1>5, <1>9, <1>10

\* What is kept of a request, if it is not the placeholder, is enough
Enough(b) == LeftOf(b) /\ Size(b) <= MaxChars

\* The passes end in enough, or in the placeholder where nothing else fits.
LEMMA FitKeeps ==
    ASSUME NEW b, LeftOf(b), request \in Body
    PROVE  \/ Enough(Fit(b))
           \/ /\ Fit(b) = Placeholder
              /\ request.messages # <<>> => Size(Retighten(Alone(request), Shortest)) > MaxChars
  <1> DEFINE n == Len(Limits)
             p == CHOOSE p : p = [k \in 0..n |-> IF k = 0 THEN [b EXCEPT !.whole = FALSE] ELSE Clip(p[k - 1], Limits[k])]
             last == Retighten(Alone(p[n]), LastPass)
  <1>1. n \in Nat \ {0} /\ LastPass \in Nat /\ LastPass >= Shortest /\ MaxChars \in Nat
        /\ \A k \in 1..n : Limits[k] \in Nat /\ Limits[k] >= Shortest
    BY ExcerptsAssumption DEF Shortest
  <1>2. Fit(b) = IF p[n].whole THEN p[n] ELSE IF Size(last) <= MaxChars THEN last ELSE Placeholder
    BY DEF Fit
  <1>3. p = [k \in 0..n |-> IF k = 0 THEN [b EXCEPT !.whole = FALSE] ELSE Clip(p[k - 1], Limits[k])]
    <2>1. \E q : PassTable(q, b, n)
      <3>1. n \in Nat
        BY <1>1
      <3> HIDE DEF n
      <3> QED
        BY <3>1, PassesExist
    <2> HIDE DEF n
    <2> QED
      BY <2>1 DEF PassTable
  <1> HIDE DEF p
  <1>4. p[0] = [b EXCEPT !.whole = FALSE] /\ \A k \in 1..n : p[k] = Clip(p[k - 1], Limits[k])
    <2> HIDE DEF n
    <2>1. 0 \in 0..n /\ \A k \in 1..n : k \in 0..n /\ k # 0
      BY <1>1
    <2> QED
      BY <1>3, <2>1
  <1>5. Passing(p[0])
    <2>1. p[0] \in Body /\ p[0].messages = b.messages /\ p[0].other = b.other /\ ~p[0].whole
      BY <1>4 DEF LeftOf, Body
    <2> QED
      BY <2>1, EndingKeeps DEF Passing, LastOf
  <1> DEFINE Good == {k \in 0..n : Passing(p[k])}
  <1>6. \A k \in 0..n : k \in Good
    <2>1. 0 \in Good
      BY <1>1, <1>5
    <2>2. \A k \in 1..n : k - 1 \in Good => k \in Good
      <3> SUFFICES ASSUME NEW k \in 1..n, Passing(p[k - 1]) PROVE Passing(p[k])
        BY <1>1
      <3> QED
        BY <1>1, <1>4, ClipKeeps
    <2> HIDE DEF Good, n
    <2> QED
      BY <1>1, <2>1, <2>2, NumberInduction
  <1>7. n - 1 \in 0..n /\ n \in 1..n /\ n \in 0..n
    BY <1>1
  <1>8. Passing(p[n]) /\ (~p[n].whole => Tight(p[n], Shortest))
    <2>1. Passing(p[n - 1]) /\ Limits[n] = Shortest /\ Limits[n] \in Nat /\ Limits[n] >= Shortest
      BY <1>1, <1>6, <1>7 DEF Shortest
    <2>2. p[n] = Clip(p[n - 1], Limits[n])
      BY <1>4, <1>7
    <2> HIDE DEF n
    <2> QED
      BY <2>1, <2>2, ClipKeeps
  <1> HIDE DEF n
  <1>9. CASE p[n].whole
    BY <1>2, <1>8, <1>9 DEF Passing, Enough
  <1>10. CASE ~p[n].whole /\ Size(last) <= MaxChars
    <2> DEFINE a == Alone(p[n])
    <2>1. p[n] \in Body /\ p[n].messages \in Seq(Seq(Nat)) /\ LeftOf(p[n])
      BY <1>8 DEF Passing, LeftOf, Body
    <2>2. a.messages = (IF p[n].messages = <<>> THEN <<>> ELSE <<LastOf(p[n])>>) /\ a.other = p[n].other
      BY DEF Alone
    <2>3. a.messages \in Seq(Seq(Nat)) /\ (a.messages = <<>> <=> p[n].messages = <<>>)
      <3>1. CASE p[n].messages = <<>>
        BY <2>2, <3>1
      <3>2. CASE p[n].messages # <<>>
        <4>1. LastOf(p[n]) \in Seq(Nat)
          BY <2>1, <3>2 DEF LastOf
        <4> QED
          BY <2>2, <3>2, <4>1
      <3> QED
        BY <3>1, <3>2
    <2>4. a = [messages |-> a.messages, tools |-> 0, other |-> p[n].other, whole |-> p[n].whole]
      BY DEF Alone
    <2>5. a.messages # <<>> => LastOf(a) = LastOf(p[n])
      <3> HIDE DEF a
      <3> QED
        BY <2>2 DEF LastOf
    <2> HIDE DEF a
    <2>6. a \in Body
      BY <2>1, <2>3, <2>4 DEF Body
    <2>7. LeftOf(a)
      BY <2>1, <2>2, <2>3, <2>5, <2>6, EndingKeeps
    <2>8. LeftOf(last)
      BY <1>1, <2>7, RetightenKeeps DEF a
    <2> QED
      BY <1>2, <1>10, <2>8 DEF Enough
  <1>11. CASE ~p[n].whole /\ ~(Size(last) <= MaxChars)
    <2>1. Fit(b) = Placeholder
      BY <1>2, <1>11
    <2>2. ASSUME request.messages # <<>> PROVE Size(Retighten(Alone(request), Shortest)) > MaxChars
      <3>1. LeftOf(p[n]) /\ Tight(p[n], Shortest)
        BY <1>8, <1>11 DEF Passing
      <3>2. Size(last) <= Size(Retighten(Alone(request), Shortest))
        BY <2>2, <3>1, AloneFits
      <3>3. Size(last) \in Nat /\ Size(Retighten(Alone(request), Shortest)) \in Nat
        BY <2>2, <3>1, AloneFits
      <3> HIDE DEF last
      <3> QED
        BY <1>1, <1>11, <3>2, <3>3
    <2> QED
      BY <2>1, <2>2
  <1> QED
    BY <1>9, <1>10, <1>11

\* An excerpt fits, and has the latest message unless that alone cannot fit
\* (services/audit.py, _fit).
THEOREM ExcerptsKeepLatest == SpecExcerpts => []ExcerptKeepsLatest
  <1> DEFINE I == request \in Body /\ ExcerptKeepsLatest
  <1>1. InitExcerpts => I
    BY ExcerptsAssumption DEF InitExcerpts, ExcerptKeepsLatest
  <1>2. I /\ [NextExcerpts]_excerptVars => I'
    <2> SUFFICES ASSUME I, [NextExcerpts]_excerptVars PROVE I'
      OBVIOUS
    <2>1. CASE UNCHANGED excerptVars
      BY <2>1 DEF excerptVars, ExcerptKeepsLatest
    <2>2. CASE Keep
      <3> DEFINE e == Excerpt(request)
      <3>1. kept' = e /\ request' = request
        BY <2>2 DEF Keep
      <3>2. \/ Enough(e)
            \/ e = Placeholder /\ (request.messages # <<>> => Size(Retighten(Alone(request), Shortest)) > MaxChars)
        BY ShrinkKeeps, FitKeeps DEF Excerpt, Enough
      <3>3. ASSUME Enough(e), request.messages # <<>>
            PROVE  /\ e # Placeholder /\ Len(LastOf(e)) = Len(LastOf(request))
                   /\ \A i \in DOMAIN LastOf(e) : LastOf(e)[i] >= Least(LastOf(request)[i], Shortest)
        <4> HIDE DEF e
        <4>1. e.messages # <<>> /\ e.messages \in Seq(Seq(Nat))
          BY <3>3 DEF Enough, LeftOf, Body
        <4>2. LastOf(e) \in Seq(Nat)
          BY <4>1 DEF LastOf
        <4>3. DOMAIN LastOf(e) = 1..Len(LastOf(e))
          BY <4>2
        <4> QED
          BY <3>3, <4>1, <4>3 DEF Enough, LeftOf, Placeholder
      <3>4. Size(Placeholder) <= MaxChars
        BY SizePlaceholder, ExcerptsAssumption
      <3> HIDE DEF e
      <3> QED
        BY <3>1, <3>2, <3>3, <3>4 DEF ExcerptKeepsLatest, Enough, Shortest
    <2> QED
      BY <2>1, <2>2 DEF NextExcerpts
  <1>3. I => ExcerptKeepsLatest
    OBVIOUS
  <1> QED
    BY <1>1, <1>2, <1>3, PTL DEF SpecExcerpts


----------------------------------------------------------------------------
(* The settings (GatewaySettings) *)

\* Names that stay as they are, and those that were normalised once: what
\* becomes of any name, and of that
Kept == {m \in ModelNames : NameOf[m] = m}
Once == {NameOf[m] : m \in ModelNames}
TurnInto(A, B) == A \subseteq ModelNames /\ B \subseteq ModelNames /\ \A m \in A : NameOf[m] \in B

\* A sequence of targets, as a form has it
Targets(seq, S) == Len(seq) \in Nat /\ DOMAIN seq = 1..Len(seq) /\ \A i \in DOMAIN seq : seq[i] \in S

\* A chain of names as a row has it: normal already
Normal(source, chain, S) ==
    /\ Targets(chain, S) /\ Len(chain) \in 1..MaxFallbacks
    /\ chain = [i \in DOMAIN chain |-> chain[i]]
    /\ \A i \in DOMAIN chain : chain[i] \notin {NoName, source} /\ \A j \in DOMAIN chain : i # j => chain[i] # chain[j]

\* What a configuration may be made of
Raw(raw, S) ==
    /\ raw.number \in Int \cup {NoSetting}
    /\ \A m \in DOMAIN raw.fallbacks : m \in S /\ Targets(raw.fallbacks[m], S)
    /\ \A m \in DOMAIN raw.rules : {m, raw.rules[m]} \subseteq S

\* Fallbacks, rules and a configuration whose names are those of S
ChainsOver(f, S) ==
    /\ f = [m \in DOMAIN f |-> f[m]]
    /\ \A m \in DOMAIN f : m \in S \ {NoName} /\ Normal(m, f[m], S)
RulesOver(g, S) ==
    /\ g = [m \in DOMAIN g |-> g[m]]
    /\ \A m \in DOMAIN g : {m, g[m]} \subseteq S \ {NoName} /\ g[m] # m
ConfigOver(c, S) ==
    /\ c = [number |-> c.number, fallbacks |-> c.fallbacks, rules |-> c.rules]
    /\ c.number \in Low..High /\ ChainsOver(c.fallbacks, S) /\ RulesOver(c.rules, S)

\* Whoever was granted a token since the last reset has the row's
TokenGranted == 
    /\ \A c \in Askers \ wasReset : asker[c].step = "done" => asker[c].token = tokenRow /\ tokenRow # NoToken
    /\ DOMAIN asker = Askers
    /\ \A c \in Askers : asker[c] = [step |-> asker[c].step, token |-> asker[c].token]

\* A cut is undone, if at all, the second time.
LEMMA NamesTurn == TurnInto(ModelNames, Once) /\ TurnInto(Once, Kept)
  BY NamesAssumption DEF TurnInto, Once, Kept

\* Of entries one is the latest.
LEMMA LatestIs ==
    ASSUME NEW order \in Orders, NEW entries \in SUBSET ModelNames, entries # {}
    PROVE  Latest(entries, order) \in entries
  <1>1. order \in [ModelNames -> Nat]
    BY OrdersAssumption
  <1>2. PICK some \in entries : TRUE
    OBVIOUS
  <1> DEFINE places == {k \in 0..order[some] : \E n \in entries : order[n] = k}
  <1>3. order[some] \in Nat /\ order[some] \in places
    BY <1>1, <1>2
  <1>4. PICK least \in places : \A k \in places : least <= k
    <2> HIDE DEF places
    <2>1. places \in SUBSET (0..order[some])
      BY DEF places
    <2> QED
      BY <1>3, <2>1, LeastNumber
  <1>5. PICK n \in entries : order[n] = least
    OBVIOUS
  <1>6. \A k \in entries : order[n] <= order[k]
    BY <1>1, <1>3, <1>4, <1>5
  <1> QED
    BY <1>6 DEF Latest

\* What Chain makes of any targets is normal, or nothing.
LEMMA ChainNormal ==
    ASSUME NEW A, NEW B, TurnInto(A, B), NEW source, NEW targets, Targets(targets, A), Chain(source, targets) # <<>>
    PROVE  Normal(source, Chain(source, targets), B)
  <1> DEFINE S == Distinct(source, targets)
             size == IF Cardinality(S) < MaxFallbacks THEN Cardinality(S) ELSE MaxFallbacks
             at(n) == CHOOSE i \in S : Cardinality({j \in S : j <= i}) = n
  <1>1. S \in SUBSET (1..Len(targets)) /\ Len(targets) \in Nat
    BY DEF Targets, Distinct
  <1>2. Cardinality(S) \in Nat /\ MaxFallbacks \in Nat \ {0}
    <2>1. IsFiniteSet(1..Len(targets))
      BY <1>1, FS_Interval
    <2> HIDE DEF S
    <2> QED
      BY <1>1, <2>1, FS_Subset, FS_CardinalityType, GatewaySettingsAssumption
  <1>3. size \in Nat /\ size <= MaxFallbacks /\ size <= Cardinality(S)
    BY <1>2
  <1>4. \A n \in 1..size : at(n) \in S /\ Cardinality({j \in S : j <= at(n)}) = n
    <2> SUFFICES ASSUME NEW n \in 1..size PROVE at(n) \in S /\ Cardinality({j \in S : j <= at(n)}) = n
      OBVIOUS
    <2>1. n \in 1..Cardinality(S)
      BY <1>2, <1>3
    <2>2. \E i \in S : Cardinality({j \in S : j <= i}) = n
      <3> HIDE DEF S
      <3> QED
        BY <1>1, <2>1, RankExists
    <2> HIDE DEF S
    <2> QED
      BY <2>2
  <1>5. Chain(source, targets) = [n \in 1..size |-> NameOf[targets[at(n)]]]
    BY DEF Chain, ModelName
  <1>6. \A i, j \in S : /\ NameOf[targets[i]] \in B \ {NoName, source}
                        /\ i # j => NameOf[targets[i]] # NameOf[targets[j]]
    BY <1>1 DEF Distinct, ModelName, Targets, TurnInto
  <1>7. size # 0
    BY <1>3, <1>5
  <1> HIDE DEF S, size, at
  <1> DEFINE chain == Chain(source, targets)
  <1>8. DOMAIN chain = 1..size /\ Len(chain) = size
    BY <1>3, <1>5
  <1>9. \A i \in 1..size : chain[i] = NameOf[targets[at(i)]]
    BY <1>5
  <1>10. \A i, j \in 1..size : i # j => at(i) # at(j)
    BY <1>4
  <1>5a. chain = [i \in DOMAIN chain |-> chain[i]]
    BY <1>5
  <1> HIDE DEF chain
  <1>12. \A i, j \in 1..size : chain[i] \in B \ {NoName, source} /\ (i # j => chain[i] # chain[j])
    <2>1. \A i \in S : NameOf[targets[i]] \in B \ {NoName, source}
      BY <1>6
    <2>2. \A i, j \in S : i # j => NameOf[targets[i]] # NameOf[targets[j]]
      BY <1>6
    <2>3. \A i \in 1..size : chain[i] \in B \ {NoName, source}
      BY <1>4, <1>9, <2>1
    <2>4. ASSUME NEW i \in 1..size, NEW j \in 1..size, i # j PROVE chain[i] # chain[j]
      <3>1. at(i) \in S /\ at(j) \in S /\ at(i) # at(j)
        BY <1>4, <1>10, <2>4
      <3>2. NameOf[targets[at(i)]] # NameOf[targets[at(j)]]
        BY <2>2, <3>1
      <3> QED
        BY <1>9, <3>2
    <2> QED
      BY <2>3, <2>4
  <1>11. Targets(chain, B) /\ Len(chain) \in 1..MaxFallbacks
    BY <1>2, <1>3, <1>7, <1>8, <1>12 DEF Targets
  <1>13. Normal(source, chain, B)
    BY <1>5a, <1>8, <1>11, <1>12 DEF Normal
  <1> QED
    BY <1>13 DEF chain

\* A normal chain is normalised to itself.
LEMMA ChainAgain ==
    ASSUME NEW source, NEW chain, Normal(source, chain, Kept)
    PROVE  Chain(source, chain) = chain /\ chain # <<>>
  <1> DEFINE n == Len(chain)
  <1>1. n \in Nat /\ n \in 1..MaxFallbacks /\ DOMAIN chain = 1..n /\ MaxFallbacks \in Nat
    BY GatewaySettingsAssumption DEF Normal, Targets
  <1>2. Distinct(source, chain) = 1..n
    BY <1>1 DEF Distinct, Normal, Targets, Kept, ModelName
  <1>3. \A k \in 0..n : Cardinality(1..k) = k
    BY FS_Interval, <1>1
  <1>4. \A i \in 1..n : {j \in 1..n : j <= i} = 1..i
    BY <1>1
  <1>5. \A k \in 1..n : (CHOOSE i \in 1..n : Cardinality({j \in 1..n : j <= i}) = k) = k
    <2> SUFFICES ASSUME NEW k \in 1..n PROVE (CHOOSE i \in 1..n : Cardinality({j \in 1..n : j <= i}) = k) = k
      OBVIOUS
    <2>1. \A i \in 1..n : Cardinality({j \in 1..n : j <= i}) = i
      <3> SUFFICES ASSUME NEW i \in 1..n PROVE Cardinality({j \in 1..n : j <= i}) = i
        OBVIOUS
      <3>1. {j \in 1..n : j <= i} = 1..i /\ i \in 0..n
        BY <1>1, <1>4
      <3> QED
        BY <1>3, <3>1
    <2>2. (CHOOSE i \in 1..n : Cardinality({j \in 1..n : j <= i}) = k) \in 1..n
          /\ Cardinality({j \in 1..n : j <= (CHOOSE i \in 1..n : Cardinality({l \in 1..n : l <= i}) = k)}) = k
      <3> DEFINE P(i) == Cardinality({j \in 1..n : j <= i}) = k
      <3>1. P(k)
        BY <2>1
      <3> HIDE DEF P
      <3>2. (CHOOSE i \in 1..n : P(i)) \in 1..n /\ P(CHOOSE i \in 1..n : P(i))
        BY <3>1
      <3> QED
        BY <3>2 DEF P
    <2> QED
      BY <2>1, <2>2
  <1>6. Cardinality(1..n) = n
    BY <1>1, <1>3
  <1>7. Chain(source, chain) = [k \in 1..n |-> chain[k]]
    <2> DEFINE size == IF Cardinality(1..n) < MaxFallbacks THEN Cardinality(1..n) ELSE MaxFallbacks
    <2>1. size = n
      <3> HIDE DEF n
      <3> QED
        BY <1>1, <1>6
    <2>2. Chain(source, chain) = [k \in 1..size |-> NameOf[chain[CHOOSE i \in 1..n : Cardinality({j \in 1..n : j <= i}) = k]]]
      BY <1>2 DEF Chain, ModelName
    <2>3. \A k \in 1..n : NameOf[chain[k]] = chain[k]
      BY <1>1 DEF Normal, Targets, Kept
    <2> HIDE DEF size, n
    <2> QED
      BY <1>5, <2>1, <2>2, <2>3
  <1>8. chain # <<>>
    BY <1>1
  <1>9. chain = [k \in 1..n |-> chain[k]]
    BY <1>1 DEF Normal
  <1> HIDE DEF n
  <1> QED
    BY <1>7, <1>8, <1>9

\* Normalising gives a normal configuration, of the names that names become.
LEMMA NormalizeOver ==
    ASSUME NEW A, NEW B, TurnInto(A, B), NEW raw, Raw(raw, A), NEW order \in Arranged
    PROVE  ConfigOver(Normalize(raw, order), B)
  <1> DEFINE f == NormalFallbacks(raw.fallbacks, order.fallbacks)
             g == NormalRules(raw.rules, order.rules)
  <1>1. Normalize(raw, order) = [number |-> ClampInt(raw.number), fallbacks |-> f, rules |-> g]
    BY DEF Normalize
  <1>2. ClampInt(raw.number) \in Low..High
    BY GatewaySettingsAssumption DEF ClampInt, Raw
  <1>3. A \subseteq ModelNames /\ B \subseteq ModelNames /\ \A m \in A : NameOf[m] \in B
    BY DEF TurnInto
  <1>4. order.fallbacks \in Orders /\ order.rules \in Orders
    BY DEF Arranged
  <1>5. ChainsOver(f, B)
    <2> DEFINE from(m) == Latest(ChainsOf(raw.fallbacks, m), order.fallbacks)
    <2>1. f = [m \in DOMAIN f |-> f[m]]
      BY DEF NormalFallbacks
    <2>2. ASSUME NEW m \in DOMAIN f PROVE m \in B \ {NoName} /\ Normal(m, f[m], B)
      <3>1. m \in Subject(raw.fallbacks) /\ ChainsOf(raw.fallbacks, m) # {} /\ f[m] = Chain(m, raw.fallbacks[from(m)])
        BY <2>2 DEF NormalFallbacks
      <3>2. m \in B \ {NoName}
        BY <1>3, <3>1 DEF Subject, Raw, ModelName
      <3>3. ChainsOf(raw.fallbacks, m) \in SUBSET ModelNames
        BY <1>3 DEF ChainsOf, Raw
      <3>4. from(m) \in ChainsOf(raw.fallbacks, m)
        BY <1>4, <3>1, <3>3, LatestIs
      <3> HIDE DEF from
      <3>5. Chain(m, raw.fallbacks[from(m)]) # <<>> /\ Targets(raw.fallbacks[from(m)], A)
        BY <3>4 DEF ChainsOf, Raw
      <3>6. Normal(m, Chain(m, raw.fallbacks[from(m)]), B)
        BY <3>5, ChainNormal
      <3> QED
        BY <3>1, <3>2, <3>6
    <2> QED
      BY <2>1, <2>2 DEF ChainsOver
  <1>6. RulesOver(g, B)
    <2> DEFINE from(m) == Latest(RulesOf(raw.rules, m), order.rules)
    <2>1. g = [m \in DOMAIN g |-> g[m]]
      BY DEF NormalRules
    <2>2. ASSUME NEW m \in DOMAIN g PROVE {m, g[m]} \subseteq B \ {NoName} /\ g[m] # m
      <3>1. m \in Subject(raw.rules) /\ RulesOf(raw.rules, m) # {} /\ g[m] = NameOf[raw.rules[from(m)]]
        BY <2>2 DEF NormalRules, ModelName
      <3>2. m \in B \ {NoName}
        BY <1>3, <3>1 DEF Subject, Raw, ModelName
      <3>3. RulesOf(raw.rules, m) \in SUBSET ModelNames
        BY <1>3 DEF RulesOf, Raw
      <3>4. from(m) \in RulesOf(raw.rules, m)
        BY <1>4, <3>1, <3>3, LatestIs
      <3> HIDE DEF from
      <3>5. NameOf[raw.rules[from(m)]] \notin {m, NoName} /\ raw.rules[from(m)] \in A
        BY <3>4 DEF RulesOf, Raw, ModelName
      <3> QED
        BY <1>3, <3>1, <3>2, <3>5
    <2> QED
      BY <2>1, <2>2 DEF RulesOver
  <1> HIDE DEF f, g
  <1> QED
    BY <1>1, <1>2, <1>5, <1>6 DEF ConfigOver

\* ... and changes nothing of one whose names stay.
LEMMA NormalizeAgain ==
    ASSUME NEW c, ConfigOver(c, Kept), NEW order \in Arranged
    PROVE  Normalize(c, order) = c
  <1> DEFINE f == c.fallbacks
             g == c.rules
  <1>1. ClampInt(c.number) = c.number
    BY GatewaySettingsAssumption DEF ClampInt, ConfigOver
  <1>2. order.fallbacks \in Orders /\ order.rules \in Orders
    BY DEF Arranged
  <1>3. NormalFallbacks(f, order.fallbacks) = f
    <2>1. f = [m \in DOMAIN f |-> f[m]] /\ \A m \in DOMAIN f : m \in Kept \ {NoName} /\ Normal(m, f[m], Kept)
      BY DEF ConfigOver, ChainsOver
    <2> HIDE DEF f
    <2>2. Subject(f) = DOMAIN f
      BY <2>1 DEF Subject, Kept, ModelName
    <2>3. ASSUME NEW m \in DOMAIN f
          PROVE  ChainsOf(f, m) = {m} /\ Chain(m, f[Latest(ChainsOf(f, m), order.fallbacks)]) = f[m]
      <3>1. Chain(m, f[m]) = f[m] /\ f[m] # <<>>
        BY <2>1, ChainAgain
      <3>2. \A n \in DOMAIN f : ModelName(n) = n
        BY <2>1 DEF Kept, ModelName
      <3>3. ChainsOf(f, m) = {m}
        BY <3>1, <3>2 DEF ChainsOf
      <3>4. Latest({m}, order.fallbacks) \in {m}
        BY <1>2, <2>1, LatestIs DEF Kept
      <3> QED
        BY <3>1, <3>3, <3>4
    <2>4. {m \in Subject(f) : ChainsOf(f, m) # {}} = DOMAIN f
      BY <2>2, <2>3
    <2> QED
      BY <2>1, <2>3, <2>4 DEF NormalFallbacks
  <1>4. NormalRules(g, order.rules) = g
    <2>1. g = [m \in DOMAIN g |-> g[m]] /\ \A m \in DOMAIN g : {m, g[m]} \subseteq Kept \ {NoName} /\ g[m] # m
      BY DEF ConfigOver, RulesOver
    <2> HIDE DEF g
    <2>2. Subject(g) = DOMAIN g
      BY <2>1 DEF Subject, Kept, ModelName
    <2>3. ASSUME NEW m \in DOMAIN g
          PROVE  RulesOf(g, m) = {m} /\ ModelName(g[Latest(RulesOf(g, m), order.rules)]) = g[m]
      <3>1. \A n \in DOMAIN g : ModelName(n) = n /\ ModelName(g[n]) = g[n]
        BY <2>1 DEF Kept, ModelName
      <3>2. RulesOf(g, m) = {m}
        BY <2>1, <3>1 DEF RulesOf
      <3>3. Latest({m}, order.rules) \in {m}
        BY <1>2, <2>1, LatestIs DEF Kept
      <3> QED
        BY <3>1, <3>2, <3>3
    <2>4. {m \in Subject(g) : RulesOf(g, m) # {}} = DOMAIN g
      BY <2>2, <2>3
    <2> QED
      BY <2>1, <2>3, <2>4 DEF NormalRules
  <1>5. c = [number |-> c.number, fallbacks |-> f, rules |-> g]
    BY DEF ConfigOver
  <1> HIDE DEF f, g
  <1>6. Normalize(c, order) = [number |-> ClampInt(c.number), fallbacks |-> NormalFallbacks(f, order.fallbacks),
                               rules |-> NormalRules(g, order.rules)]
    BY DEF Normalize, f, g
  <1> QED
    BY <1>1, <1>3, <1>4, <1>5, <1>6

\* A configuration may be normalised again.
LEMMA ConfigIsRaw == ASSUME NEW c, NEW S, ConfigOver(c, S) PROVE Raw(c, S)
  BY GatewaySettingsAssumption DEF ConfigOver, ChainsOver, RulesOver, Raw, Normal

\* What is read has only names that stay.
LEMMA ReadIsKept == ConfigOver(config, Once) => ConfigOver(AsRead, Kept)
  <1> SUFFICES ASSUME ConfigOver(config, Once) PROVE ConfigOver(AsRead, Kept)
    OBVIOUS
  <1>1. [fallbacks |-> StoreOrder, rules |-> StoreOrder] \in Arranged
    BY OrdersAssumption DEF Arranged
  <1> QED
    BY <1>1, ConfigIsRaw, NamesTurn, NormalizeOver DEF AsRead

\* A patch normalises what it was sent, and what it leaves once more.
LEMMA PatchStep ==
    ASSUME ConfigOver(config, Once), NEW form \in Forms, PatchConfig(form)
    PROVE  /\ ConfigOver(config', Once)
           /\ \A field \in DOMAIN config \ DOMAIN form : config'[field] = AsRead[field]
  <1> DEFINE raw == Patched(form)
  <1>1. PICK order \in Arranged : config' = Normalize(raw, order)
    BY DEF PatchConfig
  <1>2. ConfigOver(AsRead, Kept) /\ Raw(AsRead, Kept)
    BY ReadIsKept, ConfigIsRaw
  <1>3. DOMAIN config = {"number", "fallbacks", "rules"}
    BY DEF ConfigOver
  <1>4. \A field \in DOMAIN config : raw[field] = IF field \in DOMAIN form THEN form[field] ELSE AsRead[field]
    BY DEF Patched
  <1>5. Kept \subseteq ModelNames /\ \A seq \in Seq(ModelNames) : Targets(seq, ModelNames)
    BY DEF Kept, Targets
  <1> HIDE DEF raw
  <1>6. raw.number \in Int \cup {NoSetting}
    BY <1>2, <1>3, <1>4, GatewaySettingsAssumption DEF Raw
  <1>7. \A m \in DOMAIN raw.fallbacks : m \in ModelNames /\ Targets(raw.fallbacks[m], ModelNames)
    <2>1. CASE "fallbacks" \in DOMAIN form
      BY <1>3, <1>4, <1>5, <2>1, GatewaySettingsAssumption
    <2>2. CASE "fallbacks" \notin DOMAIN form
      BY <1>2, <1>3, <1>4, <1>5, <2>2 DEF Raw, Targets
    <2> QED
      BY <2>1, <2>2
  <1>8. \A m \in DOMAIN raw.rules : {m, raw.rules[m]} \subseteq ModelNames
    BY <1>2, <1>3, <1>4, <1>5, GatewaySettingsAssumption DEF Raw
  <1>9. ConfigOver(config', Once)
    BY <1>1, <1>6, <1>7, <1>8, NamesTurn, NormalizeOver DEF Raw
  <1>10. ASSUME NEW field \in DOMAIN config \ DOMAIN form PROVE config'[field] = AsRead[field]
    <2>1. raw[field] = AsRead[field]
      BY <1>4
    <2>2. Normalize(AsRead, order) = AsRead
      BY <1>2, NormalizeAgain
    <2>3. Normalize(raw, order)[field] = Normalize(AsRead, order)[field]
      BY <1>3, <2>1 DEF Normalize
    <2> QED
      BY <1>1, <2>2, <2>3
  <1> QED
    BY <1>9, <1>10

\* Nothing but the patch touches the configuration.
LEMMA ConfigStep == ConfigOver(config, Once) /\ [NextSettings]_settingsVars => ConfigOver(config, Once)'
  <1> SUFFICES ASSUME ConfigOver(config, Once), [NextSettings]_settingsVars PROVE ConfigOver(config', Once)
    BY DEF ConfigOver, ChainsOver, RulesOver, Normal, Targets, Once
  <1>1. CASE UNCHANGED config
    BY <1>1
  <1>2. ASSUME NEW form \in Forms, PatchConfig(form) PROVE ConfigOver(config', Once)
    BY <1>2, PatchStep
  <1> QED
    BY <1>1, <1>2 DEF NextSettings, NextRows, NextConfig, LookUp, CreateToken, ResetToken, ReadSwitch, WriteSwitch,
                      settingsVars

\* The row has a token once one was granted, and whoever has one has that.
LEMMA TokenStep == TokenGranted /\ [NextSettings]_settingsVars => TokenGranted'
  <1> SUFFICES ASSUME TokenGranted, [NextSettings]_settingsVars PROVE TokenGranted'
    OBVIOUS
  <1>1. CASE UNCHANGED <<tokenRow, asker, wasReset>>
    BY <1>1 DEF TokenGranted
  <1>2. ASSUME NEW c \in Askers, LookUp(c) PROVE TokenGranted'
    BY <1>2 DEF LookUp, Granted, TokenGranted
  <1>3. ASSUME NEW c \in Askers, CreateToken(c) PROVE TokenGranted'
    BY <1>3, GatewaySettingsAssumption DEF CreateToken, Granted, TokenFor, TokenGranted
  <1>4. ASSUME NEW c \in Resetters, ResetToken(c) PROVE TokenGranted'
    BY <1>4 DEF ResetToken, TokenGranted
  <1> QED
    BY <1>1, <1>2, <1>3, <1>4 DEF NextSettings, NextRows, NextConfig, ReadSwitch, WriteSwitch, PatchConfig, settingsVars

\* A normal chain names as many models as it is long.
LEMMA ChainNames ==
    ASSUME NEW source, NEW chain, NEW S, Normal(source, chain, S)
    PROVE  Cardinality({chain[i] : i \in DOMAIN chain} \ {source, NoName}) = Len(chain)
  <1> DEFINE n == Len(chain)
             T == {chain[i] : i \in DOMAIN chain}
  <1>1. n \in Nat /\ DOMAIN chain = 1..n
    BY DEF Normal, Targets
  <1>2. T \ {source, NoName} = T
    BY DEF Normal
  <1>3. IsFiniteSet(1..n) /\ Cardinality(1..n) = n
    <2> HIDE DEF n
    <2> QED
      BY <1>1, FS_Interval
  <1>4. chain \in Bijection(1..n, T)
    BY <1>1 DEF Bijection, Injection, IsInjective, Surjection, Normal
  <1>5. Cardinality(T) = Cardinality(1..n)
    <2> HIDE DEF T
    <2> QED
      BY <1>3, <1>4, FS_Bijection DEF ExistsBijection
  <1> QED
    BY <1>2, <1>3, <1>5

\* A configuration over any names is sound.
LEMMA ConfigSound == ASSUME NEW c, NEW S, ConfigOver(c, S) PROVE Sound(c)
  <1>1. \A m \in DOMAIN c.fallbacks : Normal(m, c.fallbacks[m], S)
    BY DEF ConfigOver, ChainsOver
  <1>2. \A m \in DOMAIN c.fallbacks :
           /\ Len(c.fallbacks[m]) \in 1..MaxFallbacks
           /\ Cardinality({c.fallbacks[m][i] : i \in DOMAIN c.fallbacks[m]} \ {m, NoName}) = Len(c.fallbacks[m])
    BY <1>1, ChainNames DEF Normal
  <1>3. \A m \in DOMAIN c.rules : c.rules[m] \notin {m, NoName}
    BY DEF ConfigOver, RulesOver
  <1> QED
    BY <1>2, <1>3 DEF Sound

\* The row and what is read of it agree.
LEMMA RowAgrees == ConfigOver(config, Once) => ConfigAgrees
  <1> SUFFICES ASSUME ConfigOver(config, Once) PROVE ConfigAgrees
    OBVIOUS
  <1>1. ConfigOver(AsRead, Kept)
    BY ReadIsKept
  <1>2. ASSUME AllStay(config) PROVE AsRead = config
    <2>1. Once \subseteq ModelNames /\ \A m \in Once \cap NamesIn(config) : m \in Kept
      BY <1>2, NamesTurn DEF AllStay, Kept, ModelName, TurnInto
    <2>2. /\ \A m \in DOMAIN config.fallbacks : m \in NamesIn(config)
          /\ \A m \in DOMAIN config.fallbacks : \A i \in DOMAIN config.fallbacks[m] :
               config.fallbacks[m][i] \in NamesIn(config)
          /\ \A m \in DOMAIN config.rules : {m, config.rules[m]} \subseteq NamesIn(config)
      BY DEF NamesIn
    <2>3. ChainsOver(config.fallbacks, Kept)
      BY <2>1, <2>2 DEF ConfigOver, ChainsOver, Normal, Targets
    <2>4. RulesOver(config.rules, Kept)
      BY <2>1, <2>2 DEF ConfigOver, RulesOver
    <2>5. ConfigOver(config, Kept)
      BY <2>3, <2>4 DEF ConfigOver
    <2>6. [fallbacks |-> StoreOrder, rules |-> StoreOrder] \in Arranged
      BY OrdersAssumption DEF Arranged
    <2> QED
      BY <2>5, <2>6, NormalizeAgain DEF AsRead
  <1>3. \A order \in Arranged : Normalize(AsRead, order) = AsRead
    BY <1>1, NormalizeAgain
  <1> QED
    BY <1>1, <1>2, <1>3, ConfigSound DEF ConfigAgrees

\* What a patch leaves is read as before.
LEMMA PatchKeeps == ConfigOver(config, Once) => OthersKept
  <1> SUFFICES ASSUME ConfigOver(config, Once), NEW form \in Forms, PatchConfig(form),
                      NEW field \in DOMAIN config \ DOMAIN form
               PROVE  AsRead'[field] = AsRead[field]
    BY DEF OthersKept
  <1>1. ConfigOver(config', Once) /\ config'[field] = AsRead[field]
    BY PatchStep
  <1>2. ConfigOver(AsRead, Kept)
    BY ReadIsKept
  <1> DEFINE order == [fallbacks |-> StoreOrder, rules |-> StoreOrder]
  <1>3. order \in Arranged
    BY OrdersAssumption DEF Arranged
  <1>4. AsRead' = Normalize(config', order)
    BY DEF AsRead, Normalize, NormalFallbacks, NormalRules
  <1>5. Normalize(AsRead, order) = AsRead
    BY <1>2, <1>3, NormalizeAgain
  <1>6. field \in {"number", "fallbacks", "rules"}
    BY DEF ConfigOver
  <1> HIDE DEF order
  <1>7. Normalize(config', order)[field] = Normalize(AsRead, order)[field]
    BY <1>1, <1>6 DEF Normalize
  <1> QED
    BY <1>4, <1>5, <1>7

\* The first caller's token is everybody's until it is replaced; workers read a
\* sound configuration, though a name was cut and whatever order the entries of
\* the row come in, and no patch changes for them what it does not name
\* (settings_service.py).
THEOREM SettingsAgreeAlways == SpecSettings => SettingsAgree
  <1> DEFINE I == ConfigOver(config, Once) /\ TokenGranted
  <1>1. InitSettings => I
    BY GatewaySettingsAssumption
    DEF InitSettings, DefaultConfig, ConfigOver, ChainsOver, RulesOver, Normal, TokenGranted
  <1>2. I /\ [NextSettings]_settingsVars => I'
    BY ConfigStep, TokenStep
  <1>3. I => TokensAgree /\ ConfigAgrees
    BY RowAgrees DEF TokensAgree, TokenGranted
  <1>4. I => OthersKept
    BY PatchKeeps
  <1> QED
    BY <1>1, <1>2, <1>3, <1>4, PTL DEF SpecSettings, SettingsAgree

=============================================================================
