------------------------------ MODULE Migration ------------------------------
(***************************************************************************)
(* Opening the store and Store.Migrate (internal/storage/sqlite/store.go   *)
(* and migrate.go): processes, perhaps of different builds, open the same  *)
(* database file and bring its schema up to the migrations embedded in     *)
(* their build.  Nothing serialises them but SQLite's write lock: the      *)
(* applied rows are read first, outside of any transaction, and each       *)
(* pending migration then runs in a transaction of its own.                *)
(*                                                                         *)
(* A migration is its version and its content; content stands for the      *)
(* file's name and SHA-256, which are stored and compared together.        *)
(* SQLite is external: a transaction takes the write lock with its first   *)
(* write, a failing COMMIT may have committed, ROLLBACK works.             *)
(***************************************************************************)
EXTENDS Naturals, Sequences, FiniteSets

CONSTANTS
    Process,
    Build,
    Files,        \* build -> the .sql files it embeds
    Content,
    MaxVersion,   \* 999
    Rerunnable,   \* contents whose SQL also succeeds when it has already run
    MaxStarts,    \* bound on the number of times a store is opened
    MaxFaults,    \* bound on failing statements, commits and crashes
    NoOne

Migrations == [version : 1..MaxVersion, content : Content]

Versions(ms) == {m.version : m \in ms}

\* discoverManifest: every version has one file.
WellFormed(ms) == \A m, n \in ms : m.version = n.version => m = n

\* The numbers of a build's files have no gaps, as those of the embedded
\* directory; discoverManifest does not insist on it.
NoGaps(ms) ==
    \A v, w \in Versions(ms) : \A u \in v..w : u \in Versions(ms)

ASSUME MigrationConstants ==
    /\ MaxVersion \in Nat
    /\ MaxStarts \in Nat
    /\ MaxFaults \in Nat
    /\ Files \in [Build -> SUBSET Migrations]
    /\ \A b \in Build : NoGaps(Files[b])
    /\ Rerunnable \subseteq Content
    /\ NoOne \notin Process

VARIABLES
    stage,     \* where the process is
    build,     \* the build it runs
    pools,     \* the connection pools it has open
    seen,      \* table and rows as loadAppliedMigrations returned them
    pending,   \* migrations it still has to apply
    tx,        \* what its open transaction has written
    outcome,   \* what Migrate returned
    disturbed, \* history: a fault hit it, or it was not alone
    table,     \* schema_migrations: absent, ours, or not the expected definition
    schema,    \* the migrations whose SQL has taken effect, in order
    meta,      \* rows of schema_migrations
    lock,      \* the process with the write lock
    starts, faults

local == <<stage, build, pools, seen, pending, tx, outcome, disturbed>>

database == <<table, schema, meta, lock>>

vars == <<local, database, starts, faults>>

Stage == {"idle", "opening", "writer", "open", "load", "rows", "check", "apply",
          "begun", "executed", "recorded"}

NoTx == [sql |-> <<>>, rows |-> {}]

Nothing == [table |-> "absent", rows |-> {}]

Active(p) == stage[p] # "idle"

Manifest(p) == Files[build[p]]

\* The file is new, or somebody else's table has the name of ours.
Init ==
    /\ stage = [p \in Process |-> "idle"]
    /\ build \in [Process -> Build]
    /\ pools = [p \in Process |-> {}]
    /\ seen = [p \in Process |-> Nothing]
    /\ pending = [p \in Process |-> {}]
    /\ tx = [p \in Process |-> NoTx]
    /\ outcome = [p \in Process |-> "none"]
    /\ disturbed = [p \in Process |-> FALSE]
    /\ table \in {"absent", "alien"}
    /\ schema = <<>>
    /\ meta = {}
    /\ lock = NoOne
    /\ starts = 0
    /\ faults = 0

Goto(p, s) == stage' = [stage EXCEPT ![p] = s]

Fault(p) ==
    /\ faults < MaxFaults
    /\ faults' = faults + 1
    /\ disturbed' = [disturbed EXCEPT ![p] = TRUE]

NoFault == UNCHANGED <<faults, disturbed>>

\* A process starts and opens the store; the ones that are at it notice later.
Start(p) ==
    /\ ~Active(p)
    /\ starts < MaxStarts
    /\ starts' = starts + 1
    /\ \E b \in Build : build' = [build EXCEPT ![p] = b]
    /\ Goto(p, "opening")
    /\ outcome' = [outcome EXCEPT ![p] = "none"]
    /\ disturbed' = [q \in Process |->
          IF q = p THEN \E r \in Process \ {p} : Active(r)
          ELSE disturbed[q] \/ Active(q)]
    /\ seen' = [seen EXCEPT ![p] = Nothing]
    /\ pending' = [pending EXCEPT ![p] = {}]
    /\ UNCHANGED <<pools, tx, database, faults>>

\* openStore: the writer pool first, then its pragmas, then the reader pool.
OpenWriter(p) ==
    /\ stage[p] = "opening"
    /\ pools' = [pools EXCEPT ![p] = {"writer"}]
    /\ Goto(p, "writer")
    /\ NoFault
    /\ UNCHANGED <<build, seen, pending, tx, outcome, database, starts>>

OpenReader(p) ==
    /\ stage[p] = "writer"
    /\ pools' = [pools EXCEPT ![p] = @ \cup {"reader"}]
    /\ Goto(p, "open")
    /\ NoFault
    /\ UNCHANGED <<build, seen, pending, tx, outcome, database, starts>>

\* Mutant: only the writer is closed when the store cannot be opened.
OpenFailsLeaks(p) ==
    /\ stage[p] \in {"opening", "writer", "open"}
    /\ Fault(p)
    /\ pools' = [pools EXCEPT ![p] = @ \ {"writer"}]
    /\ Goto(p, "idle")
    /\ outcome' = [outcome EXCEPT ![p] = "error"]
    /\ UNCHANGED <<build, seen, pending, tx, database, starts>>

\* A pool cannot be opened, pinged or configured, or its pragmas are not as
\* requested: the deferred function closes what was opened.
OpenFails(p) ==
    /\ stage[p] \in {"opening", "writer", "open"}
    /\ Fault(p)
    /\ pools' = [pools EXCEPT ![p] = {}]
    /\ Goto(p, "idle")
    /\ outcome' = [outcome EXCEPT ![p] = "error"]
    /\ UNCHANGED <<build, seen, pending, tx, database, starts>>

\* Migrate returns o; the caller closes the store, and Close closes both pools.
Return(p, o) ==
    /\ Goto(p, "idle")
    /\ outcome' = [outcome EXCEPT ![p] = o]
    /\ pools' = [pools EXCEPT ![p] = {}]

\* migrateDB: discoverManifest, before the database is looked at.
DiscoverManifest(p) ==
    /\ stage[p] = "open"
    /\ IF WellFormed(Manifest(p)) THEN Goto(p, "load") /\ UNCHANGED <<outcome, pools>>
       ELSE Return(p, "refused")
    /\ NoFault
    /\ UNCHANGED <<build, seen, pending, tx, database, starts>>

\* loadAppliedMigrations: does the table exist, and is it the one we create?
LoadTable(p) ==
    /\ stage[p] = "load"
    /\ IF table = "alien" THEN Return(p, "refused")
       ELSE /\ Goto(p, IF table = "absent" THEN "check" ELSE "rows")
            /\ UNCHANGED <<outcome, pools>>
    /\ seen' = [seen EXCEPT ![p] = [table |-> table, rows |-> {}]]
    /\ NoFault
    /\ UNCHANGED <<build, pending, tx, database, starts>>

LoadRows(p) ==
    /\ stage[p] = "rows"
    /\ seen' = [seen EXCEPT ![p].rows = meta]
    /\ Goto(p, "check")
    /\ NoFault
    /\ UNCHANGED <<build, pools, pending, tx, outcome, database, starts>>

\* Mutant: only the version of an applied row is compared.
AgreesByVersion(p) == Versions(seen[p].rows) \subseteq Versions(Manifest(p))

\* Every applied row is in the manifest, with the same name and checksum.
Agrees(p) == seen[p].rows \subseteq Manifest(p)

Unapplied(p) == {m \in Manifest(p) : m.version \notin Versions(seen[p].rows)}

\* An unapplied migration is lower than an applied one.
Skipped(p) ==
    \E m \in Unapplied(p) : \E v \in Versions(seen[p].rows) : m.version < v

\* A new database begins with version 1, which creates the table.
FirstIsFirst(p) == seen[p].table = "ours" \/ 1 \in Versions(Unapplied(p))

\* migrateDB compares the applied rows with the manifest before it applies
\* anything.
CheckManifest(p) ==
    /\ stage[p] = "check"
    /\ \/ /\ ~Agrees(p) \/ Skipped(p)
          /\ Return(p, "refused")
          /\ UNCHANGED pending
       \/ /\ Agrees(p) /\ ~Skipped(p)
          /\ Unapplied(p) = {}
          /\ Return(p, "nil")
          /\ UNCHANGED pending
       \/ /\ Agrees(p) /\ ~Skipped(p)
          /\ Unapplied(p) # {} /\ ~FirstIsFirst(p)
          /\ Return(p, "refused")
          /\ UNCHANGED pending
       \/ /\ Agrees(p) /\ ~Skipped(p)
          /\ Unapplied(p) # {} /\ FirstIsFirst(p)
          /\ pending' = [pending EXCEPT ![p] = Unapplied(p)]
          /\ Goto(p, "apply")
          /\ UNCHANGED <<outcome, pools>>
    /\ NoFault
    /\ UNCHANGED <<build, seen, tx, database, starts>>

Lowest(ms) == CHOOSE m \in ms : \A n \in ms : m.version <= n.version

\* The next pending migration: discoverManifest has sorted them.
Current(p) == Lowest(pending[p])

\* applyMigration: BeginTx.  The transaction is deferred and has no lock yet.
BeginTx(p) ==
    /\ stage[p] = "apply"
    /\ pending[p] # {}
    /\ Goto(p, "begun")
    /\ NoFault
    /\ UNCHANGED <<build, pools, seen, pending, tx, outcome, database, starts>>

Applied(v) == \E i \in 1..Len(schema) : schema[i].version = v

\* The SQL of a migration that has already run meets the objects it creates.
SQLSucceeds(m) == m.content \in Rerunnable \/ ~Applied(m.version)

ExecuteSQL(p) ==
    /\ stage[p] = "begun"
    /\ lock = NoOne
    /\ SQLSucceeds(Current(p))
    /\ lock' = p
    /\ tx' = [tx EXCEPT ![p] = [sql |-> <<Current(p)>>, rows |-> {}]]
    /\ Goto(p, "executed")
    /\ NoFault
    /\ UNCHANGED <<build, pools, seen, pending, outcome, table, schema, meta, starts>>

\* Mutant: INSERT OR REPLACE.
MayInsertAlways(m) == TRUE

\* The table exists (the first migration has just created it), and version is
\* its PRIMARY KEY.
MayInsert(m) ==
    /\ table = "ours" \/ m.version = 1
    /\ m.version \notin Versions(meta)

\* Mutant: the row has the position in the manifest, counted from 0.
RowOfPosition(m) == [m EXCEPT !.version = @ - 1]

RowOf(m) == m

RecordMetadata(p) ==
    /\ stage[p] = "executed"
    /\ MayInsert(Current(p))
    /\ tx' = [tx EXCEPT ![p] = [sql |-> tx[p].sql, rows |-> {RowOf(Current(p))}]]
    /\ Goto(p, "recorded")
    /\ NoFault
    /\ UNCHANGED <<build, pools, seen, pending, outcome, database, starts>>

\* What the transaction has written becomes the database.
Durable(p) ==
    /\ schema' = schema \o tx[p].sql
    /\ meta' = meta \cup tx[p].rows
    /\ table' = IF 1 \in Versions(tx[p].rows) THEN "ours" ELSE table

\* The transaction is gone, and so is the write lock if it had it.
EndTx(p) ==
    /\ tx' = [tx EXCEPT ![p] = NoTx]
    /\ lock' = IF lock = p THEN NoOne ELSE lock

\* The transaction commits; Migrate goes on with the next pending migration
\* and returns nil after the last one.
Commit(p) ==
    /\ stage[p] = "recorded"
    /\ Durable(p)
    /\ EndTx(p)
    /\ pending' = [pending EXCEPT ![p] = @ \ {Current(p)}]
    /\ IF pending[p] = {Current(p)} THEN Return(p, "nil")
       ELSE Goto(p, "apply") /\ UNCHANGED <<outcome, pools>>
    /\ NoFault
    /\ UNCHANGED <<build, seen, starts>>

\* COMMIT reports an error although it has committed.
CommitUnconfirmed(p) ==
    /\ stage[p] = "recorded"
    /\ Fault(p)
    /\ Durable(p)
    /\ EndTx(p)
    /\ Return(p, "error")
    /\ UNCHANGED <<build, seen, pending, starts>>

Migrating(p) == stage[p] \notin {"idle", "opening", "writer", "open"}

\* Mutant: on an error the transaction is committed with what it has.
CleanupKeepsTx(p) == Durable(p) /\ EndTx(p)

\* The deferred Rollback of applyMigration.
Rollback(p) == EndTx(p) /\ UNCHANGED <<table, schema, meta>>

\* A query, statement or context check fails: for a reason of its own (fault),
\* or because another process got there first.
Fails(p) ==
    /\ Migrating(p)
    /\ \/ Fault(p)
       \/ /\ stage[p] = "begun"
          /\ lock # NoOne \/ ~SQLSucceeds(Current(p))
          /\ NoFault
       \/ /\ stage[p] = "executed"
          /\ ~MayInsert(Current(p))
          /\ NoFault
    /\ Rollback(p)
    /\ Return(p, "error")
    /\ UNCHANGED <<build, seen, pending, starts>>

\* The process dies; SQLite drops its transaction.
Crash(p) ==
    /\ Active(p)
    /\ Fault(p)
    /\ EndTx(p)
    /\ Goto(p, "idle")
    /\ outcome' = [outcome EXCEPT ![p] = "none"]
    /\ pools' = [pools EXCEPT ![p] = {}]
    /\ UNCHANGED <<build, seen, pending, table, schema, meta, starts>>

Step(p) ==
    \/ OpenWriter(p) \/ OpenReader(p) \/ OpenFails(p) \/ DiscoverManifest(p)
    \/ LoadTable(p) \/ LoadRows(p) \/ CheckManifest(p) \/ BeginTx(p)
    \/ ExecuteSQL(p) \/ RecordMetadata(p) \/ Commit(p) \/ CommitUnconfirmed(p)
    \/ Fails(p)

Next == \E p \in Process : Start(p) \/ Step(p) \/ Crash(p)

Spec == Init /\ [][Next]_vars

-----------------------------------------------------------------------------
(* Properties.                                                             *)

\* The processes, the database and what a transaction has written keep their
\* types.
TypeOK ==
    /\ stage \in [Process -> Stage]
    /\ build \in [Process -> Build]
    /\ pools \in [Process -> SUBSET {"writer", "reader"}]
    /\ seen \in [Process -> [table : {"absent", "ours", "alien"}, rows : SUBSET Migrations]]
    /\ pending \in [Process -> SUBSET Migrations]
    /\ tx \in [Process -> [sql : Seq(Migrations), rows : SUBSET Migrations]]
    /\ outcome \in [Process -> {"none", "nil", "refused", "error"}]
    /\ disturbed \in [Process -> BOOLEAN]
    /\ table \in {"absent", "ours", "alien"}
    /\ schema \in Seq(Migrations)
    /\ meta \in SUBSET Migrations
    /\ lock \in Process \cup {NoOne}
    /\ starts \in 0..MaxStarts
    /\ faults \in 0..MaxFaults

\* The recorded migrations are exactly the ones whose SQL took effect, each
\* once and in the order of their versions from 1 on, however many processes
\* migrate at the same time, fail, or die: applyMigration is atomic, and a
\* process that read the rows too early runs into the primary key.
SchemaMatchesMetadata ==
    /\ meta = {schema[i] : i \in 1..Len(schema)}
    /\ \A i \in 1..Len(schema) : schema[i].version = i
    /\ table = "ours" <=> schema # <<>>

\* Migrate returned nil: the schema begins with the migrations of this build,
\* and another build can at most have added later ones since.
NilMeansMigrated ==
    \A p \in Process : outcome[p] = "nil" =>
        /\ Manifest(p) \subseteq meta
        /\ \A m \in meta \ Manifest(p) : \A n \in Manifest(p) : n.version < m.version

\* The schema only ever grows, by the next migration of one build that agrees
\* with everything the database has: a build with other files, with fewer, or
\* with another table of that name never changes it.
OnlyAgreeingBuildsWrite ==
    [][schema' # schema =>
          /\ Len(schema') = Len(schema) + 1
          /\ \E p \in Process :
                /\ Active(p)
                /\ \A i \in 1..Len(schema') : schema'[i] \in Manifest(p)
                /\ \A i \in 1..Len(schema) : schema'[i] = schema[i]]_vars

\* No path, early return or error leaves a pool, a transaction or the write
\* lock of a process behind that has returned from openStore or Migrate.
NothingLeftBehind ==
    \A p \in Process :
        /\ ~Active(p) => pools[p] = {} /\ tx[p] = NoTx /\ lock # p
        /\ lock = p <=> stage[p] \in {"executed", "recorded"}

\* A build that agrees with the database is not turned away without a reason:
\* if no fault hit it and nobody else was at the database, Migrate returns nil.
\* (After a crash or an unconfirmed commit, simply opening again is enough.)
AloneAndAgreeingSucceeds ==
    \A p \in Process :
        outcome[p] \in {"refused", "error"} /\ ~disturbed[p] =>
            \/ table = "alien"
            \/ ~WellFormed(Manifest(p))
            \/ ~(meta \subseteq Manifest(p))
            \/ 1 \notin Versions(Manifest(p))
=============================================================================
