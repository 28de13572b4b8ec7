----------------------------- MODULE MasterKeys -----------------------------
(***************************************************************************)
(* The key that upstream credentials are encrypted with                    *)
(* (utils/secrets.py, migrate_secrets.py): workers that start at the same  *)
(* time find, create or refuse it, and the migration moves credentials     *)
(* from a former key to it while the gateway is stopped.  A process may    *)
(* exit between any two steps.  A key that a process makes up is named     *)
(* after the process.                                                      *)
(***************************************************************************)
EXTENDS FiniteSets

CONSTANTS
    Starters,        \* workers of the gateway
    Migrator,        \* python -m app.migrate_secrets
    Credentials,     \* rows of channels and settings that hold one
    EnvKey, DefaultKey, LegacyKey,
    NoFile, Partial, \* no secrets file, and one that was not written to its end
    Plain            \* a credential that is not encrypted

Processes == Starters \cup {Migrator}
MasterKeySet == Processes \cup {EnvKey, DefaultKey, LegacyKey}

ASSUME MasterKeysAssumption ==
    /\ Migrator \notin Starters /\ NoFile # Partial
    /\ MasterKeySet \cap {NoFile, Partial, Plain} = {}

VARIABLES
    stateless,   \* SECRETS_FILE is empty
    envSet,      \* ENCRYPTION_KEY is set, to EnvKey
    file,        \* NoFile, Partial or the key in the file
    legacyRow,   \* the row app_secret is there
    creds,       \* [credential -> Plain or the key it is encrypted with]
    starts       \* [process -> [step, key, old]]

secretVars == <<stateless, envSet, file, legacyRow, creds, starts>>

Idle == [step |-> "idle", key |-> Plain, old |-> Plain]
Encrypted == {c \in Credentials : creds[c] # Plain}

InitSecrets ==
    /\ stateless \in BOOLEAN /\ envSet \in BOOLEAN /\ legacyRow \in BOOLEAN
    /\ file = NoFile
    /\ creds \in [Credentials -> {Plain, LegacyKey}] \cup [Credentials -> {Plain, DefaultKey}]
    /\ legacyRow => \A c \in Encrypted : creds[c] = LegacyKey
    /\ starts = [p \in Processes |-> Idle]

\* What is there after every process has exited, and what operators keep
Durable == {DefaultKey, LegacyKey} \cup (IF envSet THEN {EnvKey} ELSE {})
           \cup (IF file \in {NoFile, Partial} THEN {} ELSE {file})

Become(p, step, key) == starts' = [starts EXCEPT ![p].step = step, ![p].key = key]
Refuse(p) == starts' = [starts EXCEPT ![p] = Idle]
Stopped == \A w \in Starters : starts[w].step = "idle"

----------------------------------------------------------------------------
(* StartUp of a worker: load_secret_key *)

Given == IF envSet THEN EnvKey ELSE DefaultKey

\* read_external, and the comparison with the environment; it creates a file when
\* there is none and nothing is encrypted yet
Load(p) ==
    IF legacyRow THEN Refuse(p)
    ELSE IF stateless THEN Become(p, "verifies", Given)
    ELSE IF file = Partial THEN Refuse(p)
    ELSE IF file # NoFile THEN IF envSet /\ file # EnvKey THEN Refuse(p) ELSE Become(p, "verifies", file)
    ELSE IF envSet THEN Become(p, "verifies", EnvKey)
    ELSE IF Encrypted # {} THEN Refuse(p)
    ELSE Become(p, "creates", p)

StartUp(w) ==
    /\ starts[w].step = "idle" /\ starts[Migrator].step = "idle"
    /\ Load(w)
    /\ UNCHANGED <<stateless, envSet, file, legacyRow, creds>>

\* Mutant of MayCreate: without O_EXCL
MayCreateOver == file \in {NoFile, Partial} \cup MasterKeySet

\* O_EXCL: a second worker that starts for the first time fails here
MayCreate == file = NoFile

\* create_external, in two steps: the file is there, then it has its content
Create(p) ==
    /\ starts[p].step = "creates"
    /\ IF MayCreate THEN file' = Partial /\ starts' = [starts EXCEPT ![p].step = "writes"]
                    ELSE Refuse(p) /\ UNCHANGED file
    /\ UNCHANGED <<stateless, envSet, legacyRow, creds>>

WriteFile(p) ==
    /\ starts[p].step = "writes" /\ file' = starts[p].key
    /\ starts' = [starts EXCEPT ![p].step = IF p = Migrator THEN "commits" ELSE "verifies"]
    /\ UNCHANGED <<stateless, envSet, legacyRow, creds>>

\* verify_stored_ciphertexts
Verify(p) ==
    /\ starts[p].step = "verifies"
    /\ IF \A c \in Encrypted : creds[c] = starts[p].key
       THEN Become(p, IF p = Migrator THEN "idle" ELSE "serves", starts[p].key) ELSE Refuse(p)
    /\ UNCHANGED <<stateless, envSet, file, legacyRow, creds>>

\* encrypt_plaintext_channel_keys at the start, encrypt_secret whenever one is saved
Encrypt(w, c) ==
    /\ starts[w].step = "serves" /\ creds' = [creds EXCEPT ![c] = starts[w].key]
    /\ UNCHANGED <<stateless, envSet, file, legacyRow, starts>>

----------------------------------------------------------------------------
(* Migration: migrate, while the gateway is stopped *)

\* The former key: of the row, of a file of the operator, or the public one
Former == IF legacyRow THEN {LegacyKey} ELSE {LegacyKey} \cup (IF envSet THEN {DefaultKey} ELSE {})

Migrate(old) ==
    /\ Stopped /\ starts[Migrator].step = "idle" /\ old \in Former
    /\ IF ~stateless /\ file = Partial THEN Refuse(Migrator)
       ELSE starts' = [starts EXCEPT ![Migrator] =
                IF ~stateless /\ file # NoFile   THEN [step |-> "commits", key |-> file, old |-> old]
                ELSE IF stateless \/ envSet      THEN [step |-> "commits", key |-> Given, old |-> old]
                ELSE [step |-> "creates", key |-> Migrator, old |-> old]]
    /\ UNCHANGED <<stateless, envSet, file, legacyRow, creds>>

\* One transaction: what cannot be decrypted with the former key ends it
Rewrap ==
    /\ starts[Migrator].step = "commits"
    /\ IF \E c \in Encrypted : creds[c] # starts[Migrator].old
       THEN Refuse(Migrator) /\ UNCHANGED <<legacyRow, creds>>
       ELSE /\ creds' = [c \in Credentials |-> starts[Migrator].key] /\ legacyRow' = FALSE
            /\ Become(Migrator, "verifies", starts[Migrator].key)
    /\ UNCHANGED <<stateless, envSet, file>>

----------------------------------------------------------------------------

\* A process exits; an operator repairs a file that was not written to its end by
\* removing it, with every process stopped
Exit(p) == starts[p] # Idle /\ Refuse(p) /\ UNCHANGED <<stateless, envSet, file, legacyRow, creds>>

Repair ==
    /\ Stopped /\ starts[Migrator].step = "idle" /\ file = Partial /\ file' = NoFile
    /\ UNCHANGED <<stateless, envSet, legacyRow, creds, starts>>

NextSecrets ==
    \/ \E p \in Processes : Create(p) \/ WriteFile(p) \/ Verify(p) \/ Exit(p)
    \/ \E w \in Starters : StartUp(w) \/ \E c \in Credentials : Encrypt(w, c)
    \/ \E old \in {LegacyKey, DefaultKey} : Migrate(old)
    \/ Rewrap \/ Repair

SpecSecrets == InitSecrets /\ [][NextSecrets]_secretVars

----------------------------------------------------------------------------
(* Properties *)

\* Whenever every process exits, each credential can be decrypted with a key that
\* the file, the environment or the operator still has; and a worker that serves
\* can decrypt each of them, whichever workers started with it.
CredentialsKept ==
    /\ \A c \in Encrypted : creds[c] \in Durable
    /\ \A w \in Starters : starts[w].step = "serves" => \A c \in Encrypted : creds[c] = starts[w].key
=============================================================================
