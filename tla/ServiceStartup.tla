---------------------------- MODULE ServiceStartup ----------------------------
(***************************************************************************)
(* What a process does before it serves: it brings the schema to the head  *)
(* under the migration lock, makes sure that somebody can administrate,    *)
(* and encrypts the secrets stored in plain text.  Several processes may   *)
(* start on one database, die at any step and start again, while others    *)
(* serve and the command line creates users.                               *)
(*                                                                         *)
(* Revisions are numbered; 0 is no revision.  On SQLite the DDL before the *)
(* first row written is committed statement by statement, so an upgrade    *)
(* that breaks off may leave objects of the first pending revision: the    *)
(* database is torn.  What a torn initial revision lacks is either a table *)
(* that a later revision alters, which then fails, or an index.            *)
(***************************************************************************)
EXTENDS Integers, Sequences, SequencesExt

CONSTANTS
    Procs,         \* processes that start on the database
    Free,          \* holder of a lock that nobody holds
    Secrets,       \* rows with a password or a private key
    NoSecret,
    HeadRevision,  \* the head of the migration scripts
    Fingerprints,  \* revisions a database without version is recognised at
    Databases,     \* <<engine, schema, version>> to start from
    Settings,      \* auto, key, plain, production, auth, local, bootstrap
    Generations,   \* VEA_DB_BACKUP_GENERATIONS
    AdminName,     \* VEA_BOOTSTRAP_ADMIN_USERNAME
    Names,         \* user names
    MaxStarts,     \* bound: starts
    MaxEntered     \* bound: passwords saved

\* There is more than the initial revision, and a database that names the head
\* has its schema.
ASSUME StartupAssumption ==
    /\ HeadRevision \in Nat \ {0, 1}
    /\ Fingerprints \subseteq 1 .. HeadRevision
    /\ {Generations, MaxStarts, MaxEntered} \subseteq Nat
    /\ Free \notin Procs
    /\ AdminName \in Names
    /\ Databases \subseteq {"sqlite", "postgresql"} \X (0 .. HeadRevision) \X (0 .. HeadRevision + 1)
    /\ \A d \in Databases : d[3] = HeadRevision => d[2] = HeadRevision
    /\ Settings \subseteq [auto : BOOLEAN, key : BOOLEAN, plain : BOOLEAN, production : BOOLEAN,
                          auth : BOOLEAN, local : BOOLEAN, bootstrap : {"none", "partial", "both"}]
    /\ NoSecret \notin 0 .. MaxEntered
    /\ NoSecret \notin [value : 0 .. MaxEntered, encrypted : BOOLEAN]

VARIABLES
    db,        \* [schema, version, torn]; version is the alembic_version row
    engine,    \* "sqlite" or "postgresql"
    backups,   \* files of backup_sqlite, oldest first
    migrating, \* holder of the migration lock
    proc,      \* process -> its place and what it has read
    accounts,  \* local users: [name, admin]
    adminDirectory, \* a directory that maps a group to admin is enabled
    secret,    \* row -> [value, encrypted] as stored
    entered,   \* ghost: row -> value last saved
    starts

startupVars == <<db, engine, backups, migrating, proc, accounts, adminDirectory,
                 secret, entered, starts>>

Down == [pc |-> "down"]
Stored(v, encrypted) == [value |-> v, encrypted |-> encrypted]

StartupInit ==
    /\ \E d \in Databases :
        /\ engine = d[1]
        /\ db = [schema |-> d[2], version |-> d[3], torn |-> FALSE]
    /\ backups = <<>>
    /\ migrating = Free
    /\ proc = [p \in Procs |-> Down]
    /\ accounts = {}
    /\ adminDirectory \in BOOLEAN
    /\ secret = [s \in Secrets |-> IF db.schema = 0 THEN NoSecret ELSE Stored(0, FALSE)]
    /\ entered = [s \in Secrets |-> IF db.schema = 0 THEN NoSecret ELSE 0]
    /\ starts = 0

At(p, pc) == proc[p].pc = pc
To(p, pc) == proc' = [proc EXCEPT ![p].pc = pc]
Cfg(p) == proc[p].settings
Stops(p) == proc' = [proc EXCEPT ![p] = Down]
LetGo(p) == migrating' = IF migrating = p THEN Free ELSE migrating
HasTables == db.schema > 0 \/ db.version > 0 \/ db.torn

----------------------------------------------------------------------------
\* create_app and lifespan up to init_db.  Settings that validate_startup_settings
\* refuses change nothing.
ValidStartup(c) == c.production => c.key /\ ~c.plain /\ c.auth

Start(p, c) ==
    /\ At(p, "down") /\ starts < MaxStarts
    /\ ValidStartup(c)
    /\ starts' = starts + 1
    /\ proc' = [proc EXCEPT ![p] = [pc |-> "wait", settings |-> c, stamp |-> 0,
                                    tables |-> FALSE, read |-> [s \in Secrets |-> NoSecret]]]
    /\ UNCHANGED <<db, engine, backups, migrating, accounts, adminDirectory, secret, entered>>

(* Mutant: the lock is not asked for. *)
TakeLock_Unlocked(p) ==
    /\ At(p, "wait")
    /\ To(p, "inspect")
    /\ UNCHANGED <<db, engine, backups, migrating, accounts, adminDirectory, secret, entered, starts>>

\* flock or pg_try_advisory_lock.
TakeLock(p) ==
    /\ At(p, "wait") /\ migrating = Free
    /\ migrating' = p
    /\ To(p, "inspect")
    /\ UNCHANGED <<db, engine, backups, accounts, adminDirectory, secret, entered, starts>>

LockTimesOut(p) ==
    /\ At(p, "wait") /\ migrating # Free
    /\ Stops(p)
    /\ UNCHANGED <<db, engine, backups, migrating, accounts, adminDirectory, secret, entered, starts>>

\* The revisions a database without version may be taken for; {} is ambiguous.
\* An interrupted first creation looks like the initial schema once vcenters is there.
LegacyStamps ==
    IF db.version > 0 THEN {0}
    ELSE IF db.schema = 0 THEN {0} \cup (IF db.torn THEN Fingerprints \cap {1} ELSE {})
    ELSE {db.schema} \cap Fingerprints

AtHead(p) ==
    /\ At(p, "inspect") /\ db.version = HeadRevision
    /\ To(p, "admin")
    /\ LetGo(p)
    /\ UNCHANGED <<db, engine, backups, accounts, adminDirectory, secret, entered, starts>>

Inspect(p) ==
    /\ At(p, "inspect") /\ db.version < HeadRevision /\ Cfg(p).auto
    /\ \E stamp \in LegacyStamps :
        proc' = [proc EXCEPT ![p].pc = "backup", ![p].stamp = stamp, ![p].tables = HasTables]
    /\ UNCHANGED <<db, engine, backups, migrating, accounts, adminDirectory, secret, entered, starts>>

InspectStops(p) ==
    /\ At(p, "inspect") /\ db.version # HeadRevision
    /\ ~Cfg(p).auto \/ db.version > HeadRevision \/ LegacyStamps = {}
    /\ Stops(p) /\ LetGo(p)
    /\ UNCHANGED <<db, engine, backups, accounts, adminDirectory, secret, entered, starts>>

Backup(p) ==
    /\ At(p, "backup")
    /\ backups' = IF engine = "sqlite" /\ proc[p].tables
                  THEN Append(backups, [whole |-> TRUE, image |-> db]) ELSE backups
    /\ To(p, "stamp")
    /\ UNCHANGED <<db, engine, migrating, accounts, adminDirectory, secret, entered, starts>>

\* The partial file is unlinked.
BackupFails(p) ==
    /\ At(p, "backup") /\ engine = "sqlite" /\ proc[p].tables
    /\ Stops(p) /\ LetGo(p)
    /\ UNCHANGED <<db, engine, backups, accounts, adminDirectory, secret, entered, starts>>

\* Committed in a transaction of its own, before the upgrade.
Stamp(p) ==
    /\ At(p, "stamp")
    /\ db' = IF proc[p].stamp = 0 THEN db ELSE [db EXCEPT !.version = proc[p].stamp]
    /\ To(p, "upgrade")
    /\ UNCHANGED <<engine, backups, migrating, accounts, adminDirectory, secret, entered, starts>>

Upgrade(p) ==
    /\ At(p, "upgrade")
    /\ db' = [schema |-> HeadRevision, version |-> HeadRevision, torn |-> FALSE]
    /\ To(p, "prune")
    /\ UNCHANGED <<engine, backups, migrating, accounts, adminDirectory, secret, entered, starts>>

\* What an upgrade that breaks off may leave.
BrokenOff == {db} \cup (IF engine = "sqlite" THEN {[db EXCEPT !.torn = TRUE]} ELSE {})

UpgradeFails(p) ==
    /\ At(p, "upgrade") /\ db.version < HeadRevision
    /\ db' \in BrokenOff
    /\ Stops(p) /\ LetGo(p)
    /\ UNCHANGED <<engine, backups, accounts, adminDirectory, secret, entered, starts>>

KeptBackups == IF Generations = 0 THEN {backups}
               ELSE {backups, SubSeq(backups, 1 + (IF Len(backups) > Generations
                                                  THEN Len(backups) - Generations ELSE 0),
                                     Len(backups))}

\* A backup that cannot be deleted is only logged.
Prune(p) ==
    /\ At(p, "prune")
    /\ backups' \in IF engine = "sqlite" /\ proc[p].tables THEN KeptBackups ELSE {backups}
    /\ To(p, "admin")
    /\ LetGo(p)
    /\ UNCHANGED <<db, engine, accounts, adminDirectory, secret, entered, starts>>

----------------------------------------------------------------------------
\* ensure_bootstrap_admin.
LocalAdmin == \E a \in accounts : a.admin
UsableAdmin(c) == (c.local /\ LocalAdmin) \/ adminDirectory

\* _report_missing_admin: production stops, development logs.
Reported(p) == IF Cfg(p).production THEN Stops(p) ELSE To(p, "secrets")

EnsureAdmin(p) ==
    /\ At(p, "admin")
    /\ LET c == Cfg(p) IN
       IF ~c.auth THEN To(p, "secrets")
       ELSE IF ~c.local /\ c.bootstrap # "none" THEN Stops(p)
       ELSE IF ~c.local \/ accounts # {} THEN
               IF UsableAdmin(c) THEN To(p, "secrets") ELSE Reported(p)
       ELSE IF c.bootstrap = "both" THEN To(p, "create")
       ELSE IF c.bootstrap = "partial" THEN Stops(p)
       ELSE IF adminDirectory THEN To(p, "secrets") ELSE Reported(p)
    /\ UNCHANGED <<db, engine, backups, migrating, accounts, adminDirectory, secret, entered, starts>>

\* The name may have been taken since the users were counted.
CreateAdmin(p) ==
    /\ At(p, "create")
    /\ IF \E a \in accounts : a.name = AdminName
       THEN To(p, "recheck") /\ UNCHANGED accounts
       ELSE /\ accounts' = accounts \cup {[name |-> AdminName, admin |-> TRUE]}
            /\ To(p, "secrets")
    /\ UNCHANGED <<db, engine, backups, migrating, adminDirectory, secret, entered, starts>>

Recheck(p) ==
    /\ At(p, "recheck")
    /\ IF UsableAdmin(Cfg(p)) THEN To(p, "secrets") ELSE Reported(p)
    /\ UNCHANGED <<db, engine, backups, migrating, accounts, adminDirectory, secret, entered, starts>>

\* create-user of the command line.
CreateUser(name, admin) ==
    /\ db.schema = HeadRevision /\ ~db.torn
    /\ \A a \in accounts : a.name # name
    /\ accounts' = accounts \cup {[name |-> name, admin |-> admin]}
    /\ UNCHANGED <<db, engine, backups, migrating, proc, adminDirectory, secret, entered, starts>>

----------------------------------------------------------------------------
\* ensure_secret_storage, and the passwords that serving processes store.
ReadSecrets(p) ==
    /\ At(p, "secrets")
    /\ proc' = [proc EXCEPT ![p].pc = IF Cfg(p).key THEN "encrypt" ELSE "serving",
                            ![p].read = secret]
    /\ UNCHANGED <<db, engine, backups, migrating, accounts, adminDirectory, secret, entered, starts>>

Plain(stored) == stored # NoSecret /\ ~stored.encrypted

\* UPDATE ... WHERE id = :id AND column = :previous, the rows in one transaction.
EncryptSecrets(p) ==
    /\ At(p, "encrypt")
    /\ secret' = [s \in Secrets |->
                    IF Plain(proc[p].read[s]) /\ secret[s] = proc[p].read[s]
                    THEN Stored(secret[s].value, TRUE) ELSE secret[s]]
    /\ To(p, "serving")
    /\ UNCHANGED <<db, engine, backups, migrating, accounts, adminDirectory, entered, starts>>

NextValue(s) == IF entered[s] = NoSecret THEN 0 ELSE entered[s] + 1

\* passwords_may_be_stored, then process_bind_param.
SaveSecret(p, s) ==
    /\ At(p, "serving")
    /\ Cfg(p).key \/ Cfg(p).plain
    /\ NextValue(s) <= MaxEntered
    /\ entered' = [entered EXCEPT ![s] = NextValue(s)]
    /\ secret' = [secret EXCEPT ![s] = Stored(NextValue(s), Cfg(p).key)]
    /\ UNCHANGED <<db, engine, backups, migrating, proc, accounts, adminDirectory, starts>>

----------------------------------------------------------------------------
\* The process is killed, or shuts down.  A backup that is being copied stays
\* as a partial file, an upgrade is broken off.
Crash(p) ==
    /\ ~At(p, "down")
    /\ Stops(p) /\ LetGo(p)
    /\ \/ UNCHANGED <<db, backups>>
       \/ /\ At(p, "upgrade") /\ db.version < HeadRevision
          /\ db' \in BrokenOff
          /\ UNCHANGED backups
       \/ /\ At(p, "backup") /\ engine = "sqlite" /\ proc[p].tables
          /\ backups' = Append(backups, [whole |-> FALSE, image |-> db])
          /\ UNCHANGED db
    /\ UNCHANGED <<engine, accounts, adminDirectory, secret, entered, starts>>

\* The operator puts a backup in the place of a torn database.
Restore(b) ==
    /\ db.torn /\ \A p \in Procs : At(p, "down")
    /\ b.whole /\ ~b.image.torn
    /\ db' = b.image
    /\ UNCHANGED <<engine, backups, migrating, proc, accounts, adminDirectory, secret, entered, starts>>

MigrationStep(p) ==
    \/ TakeLock(p) \/ LockTimesOut(p) \/ AtHead(p) \/ Inspect(p) \/ InspectStops(p)
    \/ Backup(p) \/ BackupFails(p) \/ Stamp(p) \/ Upgrade(p) \/ UpgradeFails(p) \/ Prune(p)

AfterMigration(p) ==
    \/ EnsureAdmin(p) \/ CreateAdmin(p) \/ Recheck(p)
    \/ ReadSecrets(p) \/ EncryptSecrets(p)

StartupNext ==
    \/ \E p \in Procs :
        \/ \E c \in Settings : Start(p, c)
        \/ MigrationStep(p)
        \/ AfterMigration(p)
        \/ Crash(p)
        \/ \E s \in Secrets : SaveSecret(p, s)
    \/ \E name \in Names, admin \in BOOLEAN : CreateUser(name, admin)
    \/ \E b \in ToSet(backups) : Restore(b)

StartupSpec == StartupInit /\ [][StartupNext]_startupVars

----------------------------------------------------------------------------
Places == {"down", "wait", "inspect", "backup", "stamp", "upgrade", "prune", "admin", "create",
           "recheck", "secrets", "encrypt", "serving"}
Images == [schema : 0 .. HeadRevision, version : 0 .. HeadRevision + 1, torn : BOOLEAN]
StoredSecrets == {NoSecret} \cup [value : 0 .. MaxEntered, encrypted : BOOLEAN]

StartupTypeOK ==
    /\ db \in Images
    /\ engine \in {"sqlite", "postgresql"}
    /\ backups \in Seq([whole : BOOLEAN, image : Images])
    /\ migrating \in Procs \cup {Free}
    /\ \A p \in Procs : proc[p].pc \in Places
    /\ accounts \subseteq [name : Names, admin : BOOLEAN]
    /\ adminDirectory \in BOOLEAN
    /\ secret \in [Secrets -> StoredSecrets]
    /\ starts \in 0 .. MaxStarts

PastMigration(p) == proc[p].pc \in {"admin", "create", "recheck", "secrets", "encrypt", "serving"}

\* A process that is past init_db works on the schema at head, and the version
\* says so, whatever other processes that start are doing.
SchemaInStep ==
    \A p \in Procs : PastMigration(p) => db = [schema |-> HeadRevision, version |-> HeadRevision, torn |-> FALSE]

\* A SQLite database with data that an upgrade has left torn has a whole backup
\* of the revision it was at, however often the start has been tried since.
TornHasBackup ==
    db.torn /\ db.schema > 0 =>
        \E b \in ToSet(backups) : b.whole /\ ~b.image.torn /\ b.image.schema = db.schema

\* A production process serves only when somebody can log in as administrator.
ServingHasAdmin ==
    \A p \in Procs : At(p, "serving") /\ Cfg(p).production => UsableAdmin(Cfg(p))

\* The encryption at the start of one process never brings back a password that
\* was changed through another.
EnteredIsStored ==
    \A s \in Secrets :
        IF entered[s] = NoSecret THEN secret[s] = NoSecret ELSE secret[s].value = entered[s]

\* A start leaves schema, backups and secrets fit for use.
StartupSafe == SchemaInStep /\ TornHasBackup /\ EnteredIsStored
===============================================================================
