-------------------------- MODULE MigrationProofs --------------------------
(***************************************************************************)
(* Safety of opening and migrating for any number of processes, builds and *)
(* migrations: the schema and its metadata never drift apart, and only     *)
(* builds that agree with the whole history extend it.                     *)
(***************************************************************************)
EXTENDS Migration, SequenceTheorems, TLAPS

\* The first n migrations of the database.
Prefix(n) == {schema[i] : i \in 1..n}

Applying == {"apply", "begun", "executed", "recorded"}

\* The part of p's manifest that is not pending is the first n migrations of
\* the database, and the next one is at hand.
AppliedUpTo(p, n) ==
    /\ {m \in Manifest(p) : m.version <= n} = Prefix(n)
    /\ pending[p] = {m \in Manifest(p) : m.version > n}
    /\ \E m \in pending[p] : m.version = n + 1

\* What p loaded was the whole database at some time.
SeenPrefix(p, k) ==
    /\ seen[p].rows = Prefix(k)
    /\ \/ seen[p].table = "absent" /\ k = 0
       \/ seen[p].table = "ours" /\ k > 0

\* A process that returned nil has applied its whole manifest.
NilKnows(p) == outcome[p] = "nil" => \E n \in 0..Len(schema) : Manifest(p) = Prefix(n)

\* What p knows about the database, by stage.
Knows(p) ==
    /\ stage[p] \in {"load", "rows", "check"} \cup Applying => WellFormed(Manifest(p))
    /\ stage[p] \in {"rows", "check"} \cup Applying => table # "alien"
    /\ stage[p] = "rows" => table = "ours" /\ seen[p].table = "ours"
    /\ stage[p] = "check" => \E k \in 0..Len(schema) : SeenPrefix(p, k)
    /\ stage[p] \in Applying => \E n \in 0..Len(schema) : AppliedUpTo(p, n)
    /\ NilKnows(p)

\* What the transaction of p holds, by stage.
Writes(p) ==
    /\ stage[p] = "executed" => tx[p] = [sql |-> <<Current(p)>>, rows |-> {}]
    /\ stage[p] = "recorded" =>
          /\ tx[p] = [sql |-> <<Current(p)>>, rows |-> {Current(p)}]
          /\ Current(p).version = Len(schema) + 1
    /\ stage[p] \notin {"executed", "recorded"} => tx[p] = NoTx

\* NothingLeftBehind, for one process.
Left(p) ==
    /\ ~Active(p) => pools[p] = {} /\ tx[p] = NoTx /\ lock # p
    /\ lock = p <=> stage[p] \in {"executed", "recorded"}

\* The inductive invariant.
IInv ==
    /\ TypeOK
    /\ SchemaMatchesMetadata
    /\ \A p \in Process : Left(p) /\ Knows(p) /\ Writes(p)

-----------------------------------------------------------------------------
(* Facts the steps share.                                                  *)

\* The files of a build are migrations.
LEMMA ManifestType ==
    ASSUME TypeOK, NEW p \in Process
    PROVE  Manifest(p) \subseteq Migrations
  BY MigrationConstants DEF TypeOK, Manifest

\* The next pending migration is the one after the applied ones.
LEMMA CurrentIsNext ==
    ASSUME TypeOK, NEW p \in Process, NEW n \in 0..Len(schema), AppliedUpTo(p, n)
    PROVE  /\ Current(p) \in pending[p]
           /\ Current(p) \in Manifest(p)
           /\ Current(p) \in Migrations
           /\ Current(p).version = n + 1
<1>1. PICK m \in pending[p] : m.version = n + 1
  BY DEF AppliedUpTo
<1>2. \A k \in pending[p] : k \in Manifest(p) /\ k \in Migrations /\ k.version > n
  BY ManifestType DEF AppliedUpTo
<1>3. n \in Nat /\ \A k \in pending[p] : k.version \in Nat
  BY <1>2, MigrationConstants DEF TypeOK, Migrations
<1>4. \A k \in pending[p] : m.version <= k.version
  BY <1>1, <1>2, <1>3
<1>5. /\ Current(p) \in pending[p]
      /\ \A k \in pending[p] : Current(p).version <= k.version
  BY <1>4 DEF Current, Lowest
<1> QED
  BY <1>1, <1>2, <1>3, <1>5

\* One more migration at the end of the schema.
LEMMA SchemaGrows ==
    ASSUME TypeOK, NEW m \in Migrations, schema' = schema \o <<m>>
    PROVE  /\ schema' \in Seq(Migrations)
           /\ Len(schema) \in Nat
           /\ Len(schema') = Len(schema) + 1
           /\ \A i \in 1..Len(schema) : schema'[i] = schema[i]
           /\ schema'[Len(schema) + 1] = m
           /\ \A k \in 0..Len(schema) : Prefix(k)' = Prefix(k)
<1>1. schema \in Seq(Migrations) /\ <<m>> \in Seq(Migrations) /\ Len(<<m>>) = 1 /\ <<m>>[1] = m
  BY DEF TypeOK
<1>2. Len(schema) \in Nat
  BY <1>1, LenProperties
<1>3. /\ schema' \in Seq(Migrations)
      /\ Len(schema') = Len(schema) + 1
      /\ \A i \in 1..Len(schema) + 1 :
            schema'[i] = IF i <= Len(schema) THEN schema[i] ELSE <<m>>[i - Len(schema)]
  BY <1>1, ConcatProperties
<1>4. \A i \in 1..Len(schema) : schema'[i] = schema[i]
  BY <1>2, <1>3
<1>5. schema'[Len(schema) + 1] = m
  BY <1>1, <1>2, <1>3
<1>6. \A k \in 0..Len(schema) : Prefix(k)' = Prefix(k)
  BY <1>2, <1>4 DEF Prefix
<1> QED
  BY <1>2, <1>3, <1>4, <1>5, <1>6

\* A process that takes no step keeps what it knows, also while the schema
\* grows, unless it holds the write lock.
LEMMA OthersKnow ==
    ASSUME IInv, NEW q \in Process,
           stage'[q] = stage[q], build'[q] = build[q], seen'[q] = seen[q],
           pending'[q] = pending[q], tx'[q] = tx[q], outcome'[q] = outcome[q],
           \/ UNCHANGED <<table, schema>>
           \/ /\ stage[q] \notin {"executed", "recorded"}
              /\ table # "alien" /\ table' \in {table, "ours"}
              /\ \E m \in Migrations : schema' = schema \o <<m>>
    PROVE  (Knows(q) /\ Writes(q))'
<1>1. Knows(q) /\ Writes(q) /\ TypeOK
  BY DEF IInv
<1>2. Manifest(q)' = Manifest(q) /\ Current(q)' = Current(q)
  BY DEF Manifest, Current
<1>3. CASE UNCHANGED <<table, schema>>
  <2>1. \A k : Prefix(k)' = Prefix(k)
    BY <1>3 DEF Prefix
  <2>2. \A n : AppliedUpTo(q, n)' = AppliedUpTo(q, n) /\ SeenPrefix(q, n)' = SeenPrefix(q, n)
    BY <1>2, <2>1 DEF AppliedUpTo, SeenPrefix
  <2> QED
    BY <1>1, <1>2, <1>3, <2>1, <2>2 DEF Knows, NilKnows, Writes, WellFormed
<1>4. CASE /\ stage[q] \notin {"executed", "recorded"}
           /\ table # "alien" /\ table' \in {table, "ours"}
           /\ \E m \in Migrations : schema' = schema \o <<m>>
  <2>1. /\ Len(schema) \in Nat /\ Len(schema') = Len(schema) + 1
        /\ \A k \in 0..Len(schema) : Prefix(k)' = Prefix(k)
    BY <1>1, <1>4, SchemaGrows
  <2>2. \A n \in 0..Len(schema) :
           /\ n \in 0..Len(schema')
           /\ AppliedUpTo(q, n)' = AppliedUpTo(q, n)
           /\ SeenPrefix(q, n)' = SeenPrefix(q, n)
    BY <1>2, <2>1 DEF AppliedUpTo, SeenPrefix
  <2> QED
    BY <1>1, <1>2, <1>4, <2>1, <2>2 DEF Knows, NilKnows, Writes, WellFormed
<1> QED
  BY <1>3, <1>4

-----------------------------------------------------------------------------
(* Types.                                                                  *)

\* The variables start well typed.
LEMMA InitType == Init => TypeOK
<1>1. <<>> \in Seq(Migrations) /\ NoTx \in [sql : Seq(Migrations), rows : SUBSET Migrations]
  BY DEF NoTx
<1> QED
  BY <1>1, MigrationConstants DEF Init, TypeOK, Nothing, Stage

\* The transaction of a process becomes durable with well-typed rows.
LEMMA DurableType ==
    ASSUME TypeOK, NEW p \in Process, Durable(p)
    PROVE  /\ schema' \in Seq(Migrations)
           /\ meta' \in SUBSET Migrations
           /\ table' \in {"absent", "ours", "alien"}
<1>1. tx[p].sql \in Seq(Migrations) /\ tx[p].rows \in SUBSET Migrations
  BY DEF TypeOK
<1>2. schema' \in Seq(Migrations)
  BY <1>1, ConcatProperties DEF TypeOK, Durable
<1> QED
  BY <1>1, <1>2 DEF TypeOK, Durable

\* Every step of opening, migrating, failing and dying keeps the types.
LEMMA StepType ==
    ASSUME TypeOK, \A p \in Process : Knows(p), [Next]_vars
    PROVE  TypeOK'
<1>1. NoTx \in [sql : Seq(Migrations), rows : SUBSET Migrations]
  BY DEF NoTx
<1>2. CASE UNCHANGED vars
  BY <1>2 DEF vars, local, database, TypeOK
<1>3. ASSUME NEW p \in Process, Start(p) PROVE TypeOK'
  <2>1. disturbed' \in [Process -> BOOLEAN]
    <3>1. \A q \in Process : (IF q = p THEN \E r \in Process \ {p} : Active(r)
                              ELSE disturbed[q] \/ Active(q)) \in BOOLEAN
      BY DEF TypeOK, Active
    <3> QED
      BY <1>3, <3>1 DEF Start
  <2>2. build' \in [Process -> Build] /\ starts' \in 0..MaxStarts
    BY <1>3, MigrationConstants DEF Start, TypeOK
  <2>3. /\ stage' \in [Process -> Stage]
        /\ outcome' \in [Process -> {"none", "nil", "refused", "error"}]
        /\ seen' \in [Process -> [table : {"absent", "ours", "alien"}, rows : SUBSET Migrations]]
        /\ pending' \in [Process -> SUBSET Migrations]
    BY <1>3 DEF Start, Goto, Nothing, Stage, TypeOK
  <2> QED
    BY <1>3, <2>1, <2>2, <2>3 DEF Start, TypeOK, database
<1>4. ASSUME NEW p \in Process, OpenWriter(p) PROVE TypeOK'
  BY <1>4 DEF OpenWriter, Goto, NoFault, Stage, TypeOK, database
<1>5. ASSUME NEW p \in Process, OpenReader(p) PROVE TypeOK'
  BY <1>5 DEF OpenReader, Goto, NoFault, Stage, TypeOK, database
<1>6. ASSUME NEW p \in Process, OpenFails(p) PROVE TypeOK'
  BY <1>6, MigrationConstants DEF OpenFails, Goto, Fault, Stage, TypeOK, database
<1>7. ASSUME NEW p \in Process, DiscoverManifest(p) PROVE TypeOK'
  BY <1>7 DEF DiscoverManifest, Goto, Return, NoFault, Stage, TypeOK, database
<1>8. ASSUME NEW p \in Process, LoadTable(p) PROVE TypeOK'
  BY <1>8 DEF LoadTable, Goto, Return, NoFault, Stage, TypeOK, database
<1>9. ASSUME NEW p \in Process, LoadRows(p) PROVE TypeOK'
  BY <1>9 DEF LoadRows, Goto, NoFault, Stage, TypeOK, database
<1>10. ASSUME NEW p \in Process, CheckManifest(p) PROVE TypeOK'
  <2>1. Unapplied(p) \subseteq Migrations
    BY ManifestType DEF Unapplied
  <2>2. pending' \in [Process -> SUBSET Migrations]
    BY <1>10, <2>1 DEF CheckManifest, TypeOK
  <2>3. \/ \E o \in {"refused", "nil"} : Return(p, o)
        \/ Goto(p, "apply") /\ UNCHANGED <<outcome, pools>>
    BY <1>10 DEF CheckManifest
  <2>4. /\ stage' \in [Process -> Stage]
        /\ outcome' \in [Process -> {"none", "nil", "refused", "error"}]
        /\ pools' \in [Process -> SUBSET {"writer", "reader"}]
    <3>1. ASSUME NEW o \in {"refused", "nil"}, Return(p, o)
          PROVE  /\ stage' \in [Process -> Stage]
                 /\ outcome' \in [Process -> {"none", "nil", "refused", "error"}]
                 /\ pools' \in [Process -> SUBSET {"writer", "reader"}]
      BY <3>1 DEF Goto, Return, Stage, TypeOK
    <3>2. CASE Goto(p, "apply") /\ UNCHANGED <<outcome, pools>>
      BY <3>2 DEF Goto, Stage, TypeOK
    <3> QED
      BY <2>3, <3>1, <3>2
  <2> QED
    BY <1>10, <2>2, <2>4 DEF CheckManifest, NoFault, TypeOK, database
<1>11. ASSUME NEW p \in Process, BeginTx(p) PROVE TypeOK'
  BY <1>11 DEF BeginTx, Goto, NoFault, Stage, TypeOK, database
<1>12. ASSUME NEW p \in Process, stage[p] \in Applying PROVE Current(p) \in Migrations
  BY <1>12, CurrentIsNext DEF Knows
<1>13. ASSUME NEW p \in Process, ExecuteSQL(p) PROVE TypeOK'
  <2>1. <<Current(p)>> \in Seq(Migrations)
    BY <1>12, <1>13 DEF ExecuteSQL, Applying
  <2> QED
    BY <1>13, <2>1 DEF ExecuteSQL, Goto, NoFault, Stage, TypeOK
<1>14. ASSUME NEW p \in Process, RecordMetadata(p) PROVE TypeOK'
  <2>1. {RowOf(Current(p))} \in SUBSET Migrations
    BY <1>12, <1>14 DEF RecordMetadata, Applying, RowOf
  <2> QED
    BY <1>14, <2>1 DEF RecordMetadata, Goto, NoFault, Stage, TypeOK, database
<1>15. ASSUME NEW p \in Process, Commit(p) PROVE TypeOK'
  BY <1>1, <1>15, DurableType DEF Commit, EndTx, Goto, Return, NoFault, Stage, TypeOK
<1>16. ASSUME NEW p \in Process, CommitUnconfirmed(p) PROVE TypeOK'
  BY <1>1, <1>16, DurableType, MigrationConstants
     DEF CommitUnconfirmed, EndTx, Goto, Return, Fault, Stage, TypeOK
<1>17. ASSUME NEW p \in Process, Fails(p) PROVE TypeOK'
  <2>1. faults' \in 0..MaxFaults /\ disturbed' \in [Process -> BOOLEAN]
    <3>1. Fault(p) \/ NoFault
      BY <1>17 DEF Fails
    <3>2. CASE Fault(p)
      BY <3>2, MigrationConstants DEF Fault, TypeOK
    <3>3. CASE NoFault
      BY <3>3 DEF NoFault, TypeOK
    <3> QED
      BY <3>1, <3>2, <3>3
  <2>2. /\ Goto(p, "idle") /\ EndTx(p)
        /\ outcome' = [outcome EXCEPT ![p] = "error"]
        /\ pools' = [pools EXCEPT ![p] = {}]
        /\ UNCHANGED <<build, seen, pending, table, schema, meta, starts>>
    BY <1>17 DEF Fails, Rollback, Return
  <2> QED
    BY <1>1, <2>1, <2>2 DEF EndTx, Goto, Stage, TypeOK
<1>18. ASSUME NEW p \in Process, Crash(p) PROVE TypeOK'
  BY <1>1, <1>18, MigrationConstants DEF Crash, EndTx, Goto, Fault, Stage, TypeOK
<1> QED
  BY <1>2, <1>3, <1>4, <1>5, <1>6, <1>7, <1>8, <1>9, <1>10, <1>11, <1>13, <1>14,
     <1>15, <1>16, <1>17, <1>18 DEF Next, Step

-----------------------------------------------------------------------------
(* What a step leaves alone.                                               *)

\* A step of p changes no other process.
Frame(p) ==
    \A q \in Process \ {p} :
        /\ stage'[q] = stage[q] /\ build'[q] = build[q] /\ pools'[q] = pools[q]
        /\ seen'[q] = seen[q] /\ pending'[q] = pending[q] /\ tx'[q] = tx[q]
        /\ outcome'[q] = outcome[q]

\* It writes to the database with a commit only.
Effect(p) ==
    \/ UNCHANGED <<table, schema, meta>>
    \/ stage[p] = "recorded" /\ Durable(p)

\* It takes and gives back no lock but its own.
Lock(p) == lock' = lock \/ (lock = NoOne /\ lock' = p) \/ (lock = p /\ lock' = NoOne)

\* What the step of a process touches.
LEMMA StepTouches ==
    ASSUME TypeOK, NEW p \in Process, Start(p) \/ Step(p) \/ Crash(p)
    PROVE  Frame(p) /\ Effect(p) /\ Lock(p)
<1> USE DEF Frame, Effect, Lock, TypeOK, database
<1>1. CASE Start(p)
  BY <1>1 DEF Start, Goto
<1>2. CASE OpenWriter(p) \/ OpenReader(p) \/ OpenFails(p)
  BY <1>2 DEF OpenWriter, OpenReader, OpenFails, Goto
<1>3. CASE DiscoverManifest(p) \/ LoadTable(p) \/ LoadRows(p)
  BY <1>3 DEF DiscoverManifest, LoadTable, LoadRows, Goto, Return
<1>4. CASE CheckManifest(p)
  <2>1. \/ \E o \in {"refused", "nil"} : Return(p, o)
        \/ Goto(p, "apply") /\ UNCHANGED <<outcome, pools>>
    BY <1>4 DEF CheckManifest
  <2>2. pending' = pending \/ pending' = [pending EXCEPT ![p] = Unapplied(p)]
    BY <1>4 DEF CheckManifest
  <2>3. \A q \in Process \ {p} : stage'[q] = stage[q] /\ outcome'[q] = outcome[q] /\ pools'[q] = pools[q]
    BY <2>1 DEF Goto, Return
  <2> QED
    BY <1>4, <2>2, <2>3 DEF CheckManifest
<1>5. CASE BeginTx(p) \/ ExecuteSQL(p) \/ RecordMetadata(p)
  BY <1>5 DEF BeginTx, ExecuteSQL, RecordMetadata, Goto
<1>6. CASE Commit(p)
  BY <1>6 DEF Commit, EndTx, Goto, Return
<1>7. CASE CommitUnconfirmed(p)
  BY <1>7 DEF CommitUnconfirmed, EndTx, Goto, Return
<1>8. CASE Fails(p)
  <2>1. /\ Goto(p, "idle") /\ EndTx(p)
        /\ outcome' = [outcome EXCEPT ![p] = "error"]
        /\ pools' = [pools EXCEPT ![p] = {}]
        /\ UNCHANGED <<build, seen, pending, table, schema, meta>>
    BY <1>8 DEF Fails, Rollback, Return
  <2> QED
    BY <2>1 DEF EndTx, Goto
<1>9. CASE Crash(p)
  BY <1>9 DEF Crash, EndTx, Goto
<1> QED
  BY <1>1, <1>2, <1>3, <1>4, <1>5, <1>6, <1>7, <1>8, <1>9 DEF Step

\* What a commit adds is the next migration, and its row.
LEMMA DurableExtends ==
    ASSUME IInv, NEW p \in Process, stage[p] = "recorded", Durable(p)
    PROVE  /\ Current(p) \in Migrations /\ Current(p) \in Manifest(p)
           /\ Current(p).version = Len(schema) + 1
           /\ schema' = schema \o <<Current(p)>>
           /\ meta' = meta \cup {Current(p)}
           /\ table # "alien" /\ table' = "ours"
           /\ AppliedUpTo(p, Len(schema))
           /\ SchemaMatchesMetadata'
<1>1. /\ TypeOK /\ SchemaMatchesMetadata
      /\ tx[p] = [sql |-> <<Current(p)>>, rows |-> {Current(p)}]
      /\ Current(p).version = Len(schema) + 1
  BY DEF IInv, Writes
<1>2. PICK n \in 0..Len(schema) : AppliedUpTo(p, n)
  BY DEF IInv, Knows, Applying
<1>3. Current(p) \in Migrations /\ Current(p) \in Manifest(p) /\ Current(p).version = n + 1
  BY <1>1, <1>2, CurrentIsNext
<1>4. Len(schema) \in Nat /\ n = Len(schema)
  BY <1>1, <1>2, <1>3, LenProperties DEF TypeOK
<1>5. schema' = schema \o <<Current(p)>> /\ meta' = meta \cup {Current(p)}
  BY <1>1 DEF Durable
<1>6. Versions({Current(p)}) = {Len(schema) + 1}
  BY <1>1 DEF Versions
<1>7. table # "alien" /\ table' = "ours"
  <2>1. table # "alien"
    BY DEF IInv, Knows, Applying
  <2>2. CASE schema = <<>>
    <3>1. tx[p].rows = {Current(p)}
      BY <1>1
    <3>2. Len(schema) + 1 = 1
      BY <2>2
    <3>3. 1 \in Versions(tx[p].rows)
      BY <1>6, <3>1, <3>2
    <3> QED
      BY <2>1, <3>3 DEF Durable
  <2>3. CASE schema # <<>>
    BY <1>1, <2>3 DEF Durable, SchemaMatchesMetadata
  <2> QED
    BY <2>1, <2>2, <2>3
<1>8. /\ Len(schema') = Len(schema) + 1
      /\ \A i \in 1..Len(schema) : schema'[i] = schema[i]
      /\ schema'[Len(schema) + 1] = Current(p)
  BY <1>1, <1>3, <1>5, SchemaGrows
<1>9. SchemaMatchesMetadata'
  <2>1. meta' = {schema'[i] : i \in 1..Len(schema')}
    <3>1. 1..Len(schema') = 1..Len(schema) \cup {Len(schema) + 1}
      BY <1>4, <1>8
    <3> QED
      BY <1>1, <1>5, <1>8, <3>1 DEF SchemaMatchesMetadata
  <2>2. \A i \in 1..Len(schema') : schema'[i].version = i
    BY <1>1, <1>4, <1>8 DEF SchemaMatchesMetadata
  <2>3. schema' # <<>>
    BY <1>4, <1>8
  <2> QED
    BY <1>7, <2>1, <2>2, <2>3 DEF SchemaMatchesMetadata
<1> QED
  BY <1>1, <1>2, <1>3, <1>4, <1>5, <1>7, <1>9

-----------------------------------------------------------------------------
(* The process that takes the step.                                        *)

\* Outside of Migrate's work there is little to know.
LEMMA OutsideKnows ==
    ASSUME NEW p \in Process, stage'[p] \in {"idle", "opening", "writer", "open"},
           tx'[p] = NoTx, NilKnows(p)'
    PROVE  (Knows(p) /\ Writes(p))'
  BY DEF Knows, Writes, Applying

\* Nobody takes back a nil, unless the process starts again.
LEMMA NilKept ==
    ASSUME NEW p, NilKnows(p), outcome'[p] \in {outcome[p], "none", "refused", "error"},
           build'[p] = build[p], schema' = schema
    PROVE  NilKnows(p)'
  BY DEF NilKnows, Manifest, Prefix

\* Opening the store, up to the point where Migrate is called.
LEMMA OpenStep ==
    ASSUME IInv, NEW p \in Process,
           Start(p) \/ OpenWriter(p) \/ OpenReader(p) \/ OpenFails(p)
    PROVE  (Left(p) /\ Knows(p) /\ Writes(p))'
<1>1. TypeOK /\ Left(p) /\ Knows(p) /\ Writes(p)
  BY DEF IInv
<1>2. stage[p] \in {"idle", "opening", "writer", "open"}
  BY DEF Start, Active, OpenWriter, OpenReader, OpenFails
<1>3. /\ stage'[p] \in {"idle", "opening", "writer", "open"}
      /\ stage'[p] = "idle" => pools'[p] = {}
      /\ tx' = tx /\ lock' = lock /\ schema' = schema
  BY <1>1 DEF Start, OpenWriter, OpenReader, OpenFails, Goto, TypeOK, database
<1>4. tx'[p] = NoTx /\ lock' # p
  BY <1>1, <1>2, <1>3 DEF Writes, Left
<1>5. NilKnows(p)'
  <2>1. CASE Start(p)
    BY <1>1, <2>1 DEF Start, NilKnows, TypeOK
  <2>2. CASE OpenWriter(p) \/ OpenReader(p) \/ OpenFails(p)
    BY <1>1, <1>3, <2>2, NilKept DEF OpenWriter, OpenReader, OpenFails, Knows, TypeOK
  <2> QED
    BY <2>1, <2>2
<1> QED
  BY <1>3, <1>4, <1>5, OutsideKnows DEF Left, Active

\* Every way out of Migrate but a commit: an early return, an error, death.
LEMMA ReturnStep ==
    ASSUME IInv, NEW p \in Process, stage'[p] = "idle", pools'[p] = {},
           outcome'[p] \in {"none", "refused", "error"}, tx'[p] = NoTx, lock' # p
    PROVE  (Left(p) /\ Knows(p) /\ Writes(p))'
<1>1. NilKnows(p)'
  BY DEF NilKnows
<1> QED
  BY <1>1, OutsideKnows DEF Left, Active

\* Errors, deaths and unconfirmed commits.
LEMMA FailStep ==
    ASSUME IInv, NEW p \in Process, Fails(p) \/ Crash(p) \/ CommitUnconfirmed(p)
    PROVE  (Left(p) /\ Knows(p) /\ Writes(p))'
<1>1. /\ EndTx(p) /\ Goto(p, "idle")
      /\ pools' = [pools EXCEPT ![p] = {}]
      /\ \E o \in {"none", "error"} : outcome' = [outcome EXCEPT ![p] = o]
  BY DEF Fails, Crash, CommitUnconfirmed, Rollback, Return
<1>2. /\ stage'[p] = "idle" /\ pools'[p] = {} /\ tx'[p] = NoTx
      /\ outcome'[p] \in {"none", "refused", "error"}
  BY <1>1 DEF EndTx, Goto, IInv, TypeOK
<1>3. lock' # p
  BY <1>1, MigrationConstants DEF EndTx
<1> QED
  BY <1>2, <1>3, ReturnStep

\* discoverManifest and loadAppliedMigrations.
LEMMA LoadStep ==
    ASSUME IInv, NEW p \in Process, DiscoverManifest(p) \/ LoadTable(p) \/ LoadRows(p)
    PROVE  (Left(p) /\ Knows(p) /\ Writes(p))'
<1>1. TypeOK /\ Left(p) /\ Knows(p) /\ Writes(p) /\ SchemaMatchesMetadata
  BY DEF IInv
<1>2. stage[p] \in {"open", "load", "rows"}
  BY DEF DiscoverManifest, LoadTable, LoadRows
<1>3. tx[p] = NoTx /\ lock # p
  BY <1>1, <1>2 DEF Writes, Left
<1>4. UNCHANGED <<build, tx, table, schema, meta, lock>>
  BY DEF DiscoverManifest, LoadTable, LoadRows, database
<1>5. CASE Return(p, "refused")
  BY <1>1, <1>3, <1>4, <1>5, ReturnStep DEF Return, Goto, TypeOK
<1>6. ASSUME stage'[p] \in {"load", "rows", "check"}, outcome' = outcome,
             WellFormed(Manifest(p)),
             stage'[p] # "load" => table # "alien",
             stage'[p] = "rows" => table = "ours" /\ seen'[p].table = "ours",
             stage'[p] = "check" => \E k \in 0..Len(schema) : SeenPrefix(p, k)'
      PROVE  (Left(p) /\ Knows(p) /\ Writes(p))'
  <2>1. NilKnows(p)'
    BY <1>1, <1>4, <1>6, NilKept DEF Knows
  <2>2. Manifest(p)' = Manifest(p)
    BY <1>4 DEF Manifest
  <2>3. Knows(p)'
    BY <1>4, <1>6, <2>1, <2>2 DEF Knows, Applying, WellFormed
  <2> QED
    BY <1>3, <1>4, <1>6, <2>3 DEF Left, Writes, Active
<1>7. CASE DiscoverManifest(p)
  <2>1. CASE WellFormed(Manifest(p))
    <3>1. stage'[p] = "load" /\ outcome' = outcome
      BY <1>1, <1>7, <2>1 DEF DiscoverManifest, Goto, TypeOK
    <3> QED
      BY <1>6, <2>1, <3>1
  <2>2. CASE ~WellFormed(Manifest(p))
    BY <1>5, <1>7, <2>2 DEF DiscoverManifest
  <2> QED
    BY <2>1, <2>2
<1>8. CASE LoadTable(p)
  <2>1. WellFormed(Manifest(p))
    BY <1>1, <1>8 DEF LoadTable, Knows
  <2>2. CASE table = "alien"
    BY <1>5, <1>8, <2>2 DEF LoadTable
  <2>3. CASE table # "alien"
    <3>1. /\ stage'[p] = IF table = "absent" THEN "check" ELSE "rows"
          /\ outcome' = outcome
          /\ seen'[p].table = table /\ seen'[p].rows = {}
      BY <1>1, <1>8, <2>3 DEF LoadTable, Goto, TypeOK
    <3>2. Prefix(0)' = {}
      BY DEF Prefix
    <3>3. table = "absent" => SeenPrefix(p, 0)'
      BY <3>1, <3>2 DEF SeenPrefix
    <3>4. table # "absent" => table = "ours"
      BY <1>1, <2>3 DEF TypeOK
    <3>5. 0 \in 0..Len(schema)
      BY <1>1, LenProperties DEF TypeOK
    <3> QED
      BY <1>6, <2>1, <2>3, <3>1, <3>3, <3>4, <3>5
  <2> QED
    BY <2>2, <2>3
<1>9. CASE LoadRows(p)
  <2>1. WellFormed(Manifest(p)) /\ table = "ours" /\ seen[p].table = "ours"
    BY <1>1, <1>9 DEF LoadRows, Knows
  <2>2. stage'[p] = "check" /\ outcome' = outcome /\ seen'[p] = [seen[p] EXCEPT !.rows = meta]
    BY <1>1, <1>9 DEF LoadRows, Goto, TypeOK
  <2>3. seen'[p].table = "ours" /\ seen'[p].rows = meta
    BY <1>1, <2>1, <2>2 DEF TypeOK
  <2>4. Len(schema) \in Nat /\ Len(schema) > 0
    <3>1. schema # <<>> /\ schema \in Seq(Migrations)
      BY <1>1, <2>1 DEF SchemaMatchesMetadata, TypeOK
    <3> QED
      BY <3>1, EmptySeq, LenProperties
  <2>5. meta = Prefix(Len(schema))
    BY <1>1 DEF SchemaMatchesMetadata, Prefix
  <2>6. Prefix(Len(schema))' = Prefix(Len(schema))
    BY <1>4 DEF Prefix
  <2>7. SeenPrefix(p, Len(schema))'
    BY <1>4, <2>3, <2>4, <2>5, <2>6 DEF SeenPrefix
  <2> QED
    BY <1>4, <1>6, <2>1, <2>2, <2>3, <2>4, <2>7
<1> QED
  BY <1>7, <1>8, <1>9

\* After the comparison with the manifest, what is left to apply is what comes
\* after the part of the database that was seen.
LEMMA CheckedManifest ==
    ASSUME IInv, NEW p \in Process, WellFormed(Manifest(p)),
           NEW k \in 0..Len(schema), SeenPrefix(p, k), Agrees(p)
    PROVE  /\ {m \in Manifest(p) : m.version <= k} = Prefix(k)
           /\ Unapplied(p) = {m \in Manifest(p) : m.version > k}
<1>1. TypeOK /\ SchemaMatchesMetadata
  BY DEF IInv
<1>2. Len(schema) \in Nat /\ k \in Nat
  BY <1>1, LenProperties DEF TypeOK
<1>3. \A m \in Manifest(p) : m.version \in Nat /\ m.version >= 1
  BY <1>1, ManifestType, MigrationConstants DEF Migrations
<1>4. \A i \in 1..k : schema[i].version = i /\ schema[i] \in Manifest(p)
  BY <1>1, <1>2 DEF SchemaMatchesMetadata, SeenPrefix, Agrees, Prefix
<1>5. Versions(seen[p].rows) = 1..k
  <2>1. Versions(seen[p].rows) = {schema[i].version : i \in 1..k}
    BY DEF Versions, SeenPrefix, Prefix
  <2> QED
    BY <1>4, <2>1
<1>6. \A m \in Manifest(p) : m.version <= k => m \in Prefix(k)
  <2> TAKE m \in Manifest(p)
  <2> HAVE m.version <= k
  <2>1. m.version \in 1..k
    BY <1>2, <1>3
  <2>2. schema[m.version].version = m.version /\ schema[m.version] \in Manifest(p)
    BY <1>4, <2>1
  <2>3. schema[m.version] = m
    BY <2>2 DEF WellFormed
  <2> QED
    BY <2>1, <2>3 DEF Prefix
<1>7. \A m \in Prefix(k) : m \in Manifest(p) /\ m.version <= k
  BY <1>2, <1>4 DEF Prefix
<1>8. Unapplied(p) = {m \in Manifest(p) : m.version > k}
  BY <1>2, <1>3, <1>5 DEF Unapplied
<1> QED
  BY <1>6, <1>7, <1>8

\* migrateDB's checks: the first pending migration follows the last applied one.
LEMMA CheckStep ==
    ASSUME IInv, NEW p \in Process, CheckManifest(p)
    PROVE  (Left(p) /\ Knows(p) /\ Writes(p))'
<1>1. TypeOK /\ Left(p) /\ Knows(p) /\ Writes(p) /\ SchemaMatchesMetadata
  BY DEF IInv
<1>2. stage[p] = "check" /\ UNCHANGED <<build, tx, table, schema, meta, lock, seen>>
  BY DEF CheckManifest, database
<1>3. tx[p] = NoTx /\ lock # p /\ WellFormed(Manifest(p)) /\ table # "alien"
  BY <1>1, <1>2 DEF Writes, Left, Knows
<1>4. PICK k \in 0..Len(schema) : SeenPrefix(p, k)
  BY <1>1, <1>2 DEF Knows
<1>5. Len(schema) \in Nat /\ k \in Nat
  BY <1>1, LenProperties DEF TypeOK
<1>6. Manifest(p)' = Manifest(p) /\ \A n : Prefix(n)' = Prefix(n)
  BY <1>2 DEF Manifest, Prefix
<1>7. CASE Return(p, "refused")
  BY <1>1, <1>2, <1>3, <1>7, ReturnStep DEF Return, Goto, TypeOK
<1>8. CASE Agrees(p) /\ Unapplied(p) = {} /\ Return(p, "nil")
  <2>1. Manifest(p) = Prefix(k)
    <3>1. /\ {m \in Manifest(p) : m.version <= k} = Prefix(k)
          /\ {m \in Manifest(p) : m.version > k} = {}
      BY <1>3, <1>4, <1>8, CheckedManifest
    <3>2. \A m \in Manifest(p) : m.version \in Nat
      BY <1>1, ManifestType DEF Migrations
    <3>3. \A m \in Manifest(p) : m.version <= k
      BY <1>5, <3>1, <3>2
    <3> QED
      BY <3>1, <3>3
  <2>2. NilKnows(p)'
    BY <1>2, <1>4, <1>6, <2>1 DEF NilKnows
  <2>3. stage'[p] = "idle" /\ pools'[p] = {}
    BY <1>1, <1>8 DEF Return, Goto, TypeOK
  <2> QED
    BY <1>2, <1>3, <2>2, <2>3, OutsideKnows DEF Left, Active
<1>9. CASE /\ Agrees(p) /\ Unapplied(p) # {} /\ FirstIsFirst(p)
           /\ pending' = [pending EXCEPT ![p] = Unapplied(p)]
           /\ Goto(p, "apply")
           /\ UNCHANGED <<outcome, pools>>
  <2>1. stage'[p] = "apply" /\ pending'[p] = Unapplied(p)
    BY <1>1, <1>9 DEF Goto, TypeOK
  <2>2. /\ {m \in Manifest(p) : m.version <= k} = Prefix(k)
        /\ Unapplied(p) = {m \in Manifest(p) : m.version > k}
    BY <1>3, <1>4, <1>9, CheckedManifest
  <2>3. \E m \in Unapplied(p) : m.version = k + 1
    <3>1. CASE k = 0
      BY <1>4, <1>9, <3>1 DEF FirstIsFirst, SeenPrefix, Versions
    <3>2. CASE k > 0
      <4>1. PICK m \in Unapplied(p) : TRUE
        BY <1>9
      <4>2. m \in Manifest(p) /\ m.version \in Nat /\ m.version > k
        BY <1>1, <2>2, ManifestType DEF Migrations
      <4>3. schema[k] \in Manifest(p) /\ schema[k].version = k
        BY <1>1, <1>4, <1>5, <1>9, <3>2
           DEF SchemaMatchesMetadata, SeenPrefix, Agrees, Prefix
      <4>4. k \in Versions(Manifest(p)) /\ m.version \in Versions(Manifest(p))
        BY <4>2, <4>3 DEF Versions
      <4>5. NoGaps(Manifest(p))
        BY <1>1, MigrationConstants DEF TypeOK, Manifest
      <4>6. k + 1 \in k..m.version
        BY <1>5, <4>2
      <4>7. k + 1 \in Versions(Manifest(p))
        BY <4>4, <4>5, <4>6 DEF NoGaps
      <4>8. PICK x \in Manifest(p) : x.version = k + 1
        BY <4>7 DEF Versions
      <4> QED
        BY <1>5, <2>2, <4>8
    <3> QED
      BY <1>5, <3>1, <3>2
  <2>4. AppliedUpTo(p, k)'
    BY <1>6, <2>1, <2>2, <2>3 DEF AppliedUpTo
  <2>5. NilKnows(p)'
    BY <1>1, <1>2, <1>9, NilKept DEF Knows
  <2>6. Knows(p)'
    BY <1>2, <1>3, <1>4, <1>6, <2>1, <2>4, <2>5 DEF Knows, Applying, WellFormed
  <2> QED
    BY <1>2, <1>3, <2>1, <2>6 DEF Left, Writes, Active
<1> QED
  BY <1>7, <1>8, <1>9 DEF CheckManifest

\* Inside a migration's transaction: what is written is the current migration,
\* and the primary key makes sure that it comes next.
LEMMA ApplyStep ==
    ASSUME IInv, NEW p \in Process, BeginTx(p) \/ ExecuteSQL(p) \/ RecordMetadata(p)
    PROVE  (Left(p) /\ Knows(p) /\ Writes(p))'
<1>1. TypeOK /\ Left(p) /\ Knows(p) /\ Writes(p) /\ SchemaMatchesMetadata
  BY DEF IInv
<1>2. /\ stage[p] \in {"apply", "begun", "executed"}
      /\ stage'[p] \in {"begun", "executed", "recorded"}
      /\ UNCHANGED <<build, pools, pending, outcome, table, schema, meta>>
  BY <1>1 DEF BeginTx, ExecuteSQL, RecordMetadata, Goto, TypeOK, database
<1>3. /\ Manifest(p)' = Manifest(p) /\ Current(p)' = Current(p)
      /\ \A n : Prefix(n)' = Prefix(n)
  BY <1>2 DEF Manifest, Prefix, Current
<1>4. PICK n \in 0..Len(schema) : AppliedUpTo(p, n)
  BY <1>1, <1>2 DEF Knows, Applying
<1>5. AppliedUpTo(p, n)'
  BY <1>2, <1>3, <1>4 DEF AppliedUpTo
<1>6. NilKnows(p)'
  BY <1>1, <1>2, NilKept DEF Knows
<1>7. Knows(p)'
  <2>1. WellFormed(Manifest(p)) /\ table # "alien"
    BY <1>1, <1>2 DEF Knows, Applying
  <2> QED
    BY <1>2, <1>3, <1>4, <1>5, <1>6, <2>1 DEF Knows, Applying, WellFormed
<1>8. CASE BeginTx(p)
  <2>1. stage[p] = "apply" /\ stage'[p] = "begun" /\ tx' = tx /\ lock' = lock
    BY <1>1, <1>8 DEF BeginTx, Goto, TypeOK, database
  <2> QED
    BY <1>1, <1>7, <2>1 DEF Left, Writes, Active
<1>9. CASE ExecuteSQL(p)
  <2>1. /\ stage[p] = "begun" /\ stage'[p] = "executed" /\ lock' = p
        /\ tx'[p] = [sql |-> <<Current(p)>>, rows |-> {}]
    BY <1>1, <1>9 DEF ExecuteSQL, Goto, TypeOK
  <2> QED
    BY <1>3, <1>7, <2>1 DEF Left, Writes, Active
<1>10. CASE RecordMetadata(p)
  <2>1. /\ stage[p] = "executed" /\ stage'[p] = "recorded" /\ lock' = lock
        /\ tx'[p] = [sql |-> tx[p].sql, rows |-> {Current(p)}]
        /\ Current(p).version \notin Versions(meta)
    BY <1>1, <1>10 DEF RecordMetadata, Goto, MayInsert, RowOf, TypeOK, database
  <2>2. tx'[p] = [sql |-> <<Current(p)>>, rows |-> {Current(p)}]
    <3>1. tx[p] = [sql |-> <<Current(p)>>, rows |-> {}]
      BY <1>1, <2>1 DEF Writes
    <3>2. tx[p].sql = <<Current(p)>>
      BY <3>1
    <3> QED
      BY <2>1, <3>2
  <2>3. Current(p).version = n + 1
    BY <1>1, <1>4, CurrentIsNext
  <2>4. Len(schema) \in Nat
    BY <1>1, LenProperties DEF TypeOK
  <2>5. \A i \in 1..Len(schema) : i \in Versions(meta)
    BY <1>1 DEF SchemaMatchesMetadata, Versions
  <2>6. n = Len(schema)
    BY <2>1, <2>3, <2>4, <2>5
  <2>7. Writes(p)'
    BY <1>2, <1>3, <2>1, <2>2, <2>3, <2>6 DEF Writes
  <2> QED
    BY <1>1, <1>7, <2>1, <2>7 DEF Left, Active
<1> QED
  BY <1>8, <1>9, <1>10

\* The schema after a commit begins with more of the manifest of the process.
LEMMA CommittedPrefix ==
    ASSUME IInv, NEW p \in Process, stage[p] = "recorded", Durable(p),
           NEW n, n = Len(schema)
    PROVE  /\ n \in Nat /\ Len(schema') = n + 1
           /\ {m \in Manifest(p) : m.version <= n + 1} = Prefix(n + 1)'
           /\ pending[p] \ {Current(p)} = {m \in Manifest(p) : m.version > n + 1}
<1>1. TypeOK /\ WellFormed(Manifest(p))
  BY DEF IInv, Knows, Applying
<1>2. /\ Current(p) \in Migrations /\ Current(p) \in Manifest(p)
      /\ Current(p).version = n + 1
      /\ schema' = schema \o <<Current(p)>>
      /\ AppliedUpTo(p, n)
  BY DurableExtends
<1>3. /\ n \in Nat /\ Len(schema') = n + 1
      /\ \A i \in 1..n : schema'[i] = schema[i]
      /\ schema'[n + 1] = Current(p)
  BY <1>1, <1>2, SchemaGrows
<1>4. \A m \in Manifest(p) : m.version \in Nat
  BY <1>1, ManifestType DEF Migrations
<1>5. \A m \in Manifest(p) : m.version = n + 1 => m = Current(p)
  BY <1>1, <1>2 DEF WellFormed
<1>6. Prefix(n + 1)' = Prefix(n) \cup {Current(p)}
  <2>1. 1..(n + 1) = 1..n \cup {n + 1}
    BY <1>3
  <2>2. {schema'[i] : i \in 1..(n + 1)}
           = {schema[i] : i \in 1..n} \cup {Current(p)}
    BY <1>3, <2>1
  <2> QED
    BY <2>2 DEF Prefix
<1>7. {m \in Manifest(p) : m.version <= n + 1}
         = {m \in Manifest(p) : m.version <= n} \cup {Current(p)}
  BY <1>2, <1>3, <1>4, <1>5
<1>8. pending[p] \ {Current(p)} = {m \in Manifest(p) : m.version > n + 1}
  BY <1>2, <1>3, <1>4, <1>5 DEF AppliedUpTo
<1> QED
  BY <1>2, <1>3, <1>6, <1>7, <1>8 DEF AppliedUpTo

\* A commit: the next pending migration, or nil.
LEMMA CommitStep ==
    ASSUME IInv, NEW p \in Process, Commit(p)
    PROVE  (Left(p) /\ Knows(p) /\ Writes(p))'
<1>1. TypeOK /\ WellFormed(Manifest(p)) /\ stage[p] = "recorded" /\ Durable(p)
  BY DEF IInv, Commit, Knows, Applying
<1>2. PICK n : n = Len(schema)
  OBVIOUS
<1>3. /\ n \in Nat /\ Len(schema') = n + 1
      /\ {m \in Manifest(p) : m.version <= n + 1} = Prefix(n + 1)'
      /\ pending[p] \ {Current(p)} = {m \in Manifest(p) : m.version > n + 1}
  BY <1>1, <1>2, CommittedPrefix
<1>4. /\ Current(p) \in Manifest(p) /\ Current(p).version = n + 1
      /\ table' = "ours"
  BY <1>1, <1>2, DurableExtends
<1>5. tx'[p] = NoTx /\ lock' # p /\ Manifest(p)' = Manifest(p)
  BY <1>1, MigrationConstants DEF Commit, EndTx, Manifest, TypeOK
<1>6. \A m \in Manifest(p) : m.version \in Nat
  BY <1>1, ManifestType DEF Migrations
<1>7. CASE pending[p] = {Current(p)}
  <2>1. stage'[p] = "idle" /\ pools'[p] = {}
    BY <1>1, <1>7 DEF Commit, Return, Goto, TypeOK
  <2>2. Manifest(p) = Prefix(n + 1)'
    <3>1. \A m \in Manifest(p) : m.version <= n + 1
      BY <1>3, <1>6, <1>7
    <3> QED
      BY <1>3, <3>1
  <2>3. NilKnows(p)'
    BY <1>3, <1>5, <2>2 DEF NilKnows
  <2> QED
    BY <1>5, <2>1, <2>3, OutsideKnows DEF Left, Active
<1>8. CASE pending[p] # {Current(p)}
  <2>1. /\ stage'[p] = "apply" /\ outcome'[p] = outcome[p]
        /\ pending'[p] = pending[p] \ {Current(p)}
    BY <1>1, <1>8 DEF Commit, Goto, TypeOK
  <2>2. PICK m \in pending[p] \ {Current(p)} : TRUE
    <3>1. AppliedUpTo(p, n)
      BY <1>1, <1>2, DurableExtends
    <3>2. Current(p) \in pending[p]
      BY <1>3, <1>4, <3>1 DEF AppliedUpTo
    <3> QED
      BY <1>8, <3>2
  <2>3. \E x \in pending'[p] : x.version = n + 1 + 1
    <3>1. m \in Manifest(p) /\ m.version \in Nat /\ m.version > n + 1
      BY <1>3, <1>6, <2>2
    <3>2. n + 1 \in Versions(Manifest(p)) /\ m.version \in Versions(Manifest(p))
      BY <1>4, <3>1 DEF Versions
    <3>3. NoGaps(Manifest(p))
      BY <1>1, MigrationConstants DEF TypeOK, Manifest
    <3>4. n + 1 + 1 \in (n + 1)..m.version
      BY <1>3, <3>1
    <3>5. n + 1 + 1 \in Versions(Manifest(p))
      BY <3>2, <3>3, <3>4 DEF NoGaps
    <3>6. PICK x \in Manifest(p) : x.version = n + 1 + 1
      BY <3>5 DEF Versions
    <3> QED
      BY <1>3, <2>1, <3>6
  <2>4. AppliedUpTo(p, n + 1)'
    BY <1>3, <1>5, <2>1, <2>3 DEF AppliedUpTo
  <2>5. NilKnows(p)'
    <3>1. \A k \in 0..n : Prefix(k)' = Prefix(k)
      BY <1>1, <1>2, DurableExtends, SchemaGrows
    <3>2. NilKnows(p)
      BY DEF IInv, Knows
    <3>3. 0..n \subseteq 0..(n + 1)
      BY <1>3
    <3> QED
      BY <1>2, <1>3, <1>5, <2>1, <3>1, <3>2, <3>3 DEF NilKnows
  <2>6. Knows(p)'
    <3>1. n + 1 \in 0..Len(schema')
      BY <1>3
    <3> QED
      BY <1>1, <1>4, <1>5, <2>1, <2>4, <2>5, <3>1 DEF Knows, Applying, WellFormed
  <2> QED
    BY <1>5, <2>1, <2>6 DEF Left, Writes, Active
<1> QED
  BY <1>7, <1>8

-----------------------------------------------------------------------------
(* The theorems.                                                           *)

\* A new database and idle processes satisfy the invariant.
LEMMA InitInv == Init => IInv
<1> SUFFICES ASSUME Init PROVE IInv
  OBVIOUS
<1>1. SchemaMatchesMetadata
  <2>1. schema = <<>> /\ meta = {} /\ table # "ours" /\ Len(schema) = 0
    BY DEF Init
  <2>2. {schema[i] : i \in 1..Len(schema)} = {}
    BY <2>1
  <2> QED
    BY <2>1, <2>2 DEF SchemaMatchesMetadata
<1>2. ASSUME NEW p \in Process PROVE Left(p) /\ Knows(p) /\ Writes(p)
  BY MigrationConstants DEF Init, Left, Knows, NilKnows, Writes, Active, Applying
<1> QED
  BY <1>1, <1>2, InitType DEF IInv

\* Every step preserves it.
LEMMA StepInv == IInv /\ [Next]_vars => IInv'
<1> SUFFICES ASSUME IInv, [Next]_vars PROVE IInv'
  OBVIOUS
<1>1. TypeOK'
  BY StepType DEF IInv
<1>2. CASE UNCHANGED vars
  <2>1. UNCHANGED <<stage, build, pools, seen, pending, tx, outcome, table, schema, meta, lock>>
    BY <1>2 DEF vars, local, database
  <2>2. SchemaMatchesMetadata'
    BY <2>1 DEF IInv, SchemaMatchesMetadata
  <2>3. ASSUME NEW q \in Process PROVE (Left(q) /\ Knows(q) /\ Writes(q))'
    BY <2>1, OthersKnow DEF IInv, Left, Active
  <2> QED
    BY <1>1, <2>2, <2>3 DEF IInv
<1>3. ASSUME NEW p \in Process, Start(p) \/ Step(p) \/ Crash(p) PROVE IInv'
  <2>1. Frame(p) /\ Effect(p) /\ Lock(p)
    BY <1>3, StepTouches DEF IInv
  <2>2. SchemaMatchesMetadata'
    <3>1. CASE UNCHANGED <<table, schema, meta>>
      BY <3>1 DEF IInv, SchemaMatchesMetadata
    <3>2. CASE stage[p] = "recorded" /\ Durable(p)
      BY <3>2, DurableExtends
    <3> QED
      BY <2>1, <3>1, <3>2 DEF Effect
  <2>3. (Left(p) /\ Knows(p) /\ Writes(p))'
    BY <1>3, OpenStep, LoadStep, CheckStep, ApplyStep, CommitStep, FailStep DEF Step
  <2>4. ASSUME NEW q \in Process, q # p PROVE (Left(q) /\ Knows(q) /\ Writes(q))'
    <3>1. (Knows(q) /\ Writes(q))'
      <4>1. CASE UNCHANGED <<table, schema, meta>>
        BY <2>1, <2>4, <4>1, OthersKnow DEF Frame
      <4>2. CASE stage[p] = "recorded" /\ Durable(p)
        <5>1. stage[q] \notin {"executed", "recorded"}
          BY <2>4, <4>2 DEF IInv, Left
        <5>2. /\ table # "alien" /\ table' \in {table, "ours"}
              /\ \E m \in Migrations : schema' = schema \o <<m>>
          BY <4>2, DurableExtends
        <5> QED
          BY <2>1, <2>4, <5>1, <5>2, OthersKnow DEF Frame
      <4> QED
        BY <2>1, <4>1, <4>2 DEF Effect
    <3>2. Left(q)'
      <4>1. /\ stage'[q] = stage[q] /\ pools'[q] = pools[q] /\ tx'[q] = tx[q]
            /\ Left(q)
        BY <2>1, <2>4 DEF Frame, IInv
      <4>2. lock' = q <=> lock = q
        BY <2>1, <2>4, MigrationConstants DEF Lock
      <4> QED
        BY <4>1, <4>2 DEF Left, Active
    <3> QED
      BY <3>1, <3>2
  <2> QED
    BY <1>1, <2>2, <2>3, <2>4 DEF IInv
<1> QED
  BY <1>2, <1>3 DEF Next

\* The inductive invariant always holds.
THEOREM Invariance == Spec => []IInv
  BY InitInv, StepInv, PTL DEF Spec

\* Types, for every set of processes and builds.
THEOREM MigrationTypes == Spec => []TypeOK
<1>1. IInv => TypeOK
  BY DEF IInv
<1> QED
  BY <1>1, Invariance, PTL

\* Recorded and applied migrations never drift apart: applyMigration is atomic,
\* and a process that read the rows too early runs into the primary key.
THEOREM MetadataTellsTheTruth == Spec => []SchemaMatchesMetadata
<1>1. IInv => SchemaMatchesMetadata
  BY DEF IInv
<1> QED
  BY <1>1, Invariance, PTL

\* Every way out of openStore and Migrate closes the pools and gives up the
\* transaction and the write lock.
THEOREM NothingIsLeftBehind == Spec => []NothingLeftBehind
<1>1. IInv => NothingLeftBehind
  BY DEF IInv, Left, NothingLeftBehind
<1> QED
  BY <1>1, Invariance, PTL

\* When Migrate has returned nil, the database begins with this build's
\* migrations.
THEOREM NilIsTrue == Spec => []NilMeansMigrated
<1>1. IInv => NilMeansMigrated
  <2> SUFFICES ASSUME IInv, NEW p \in Process, outcome[p] = "nil"
               PROVE  /\ Manifest(p) \subseteq meta
                      /\ \A m \in meta \ Manifest(p) : \A n \in Manifest(p) : n.version < m.version
    BY DEF NilMeansMigrated
  <2>1. PICK k \in 0..Len(schema) : Manifest(p) = Prefix(k)
    BY DEF IInv, Knows, NilKnows
  <2>2. Len(schema) \in Nat
    BY LenProperties DEF IInv, TypeOK
  <2>3. /\ meta = {schema[i] : i \in 1..Len(schema)}
        /\ \A i \in 1..Len(schema) : schema[i].version = i
    BY DEF IInv, SchemaMatchesMetadata
  <2>4. Manifest(p) \subseteq meta
    BY <2>1, <2>2, <2>3 DEF Prefix
  <2>5. ASSUME NEW m \in meta \ Manifest(p), NEW n \in Manifest(p) PROVE n.version < m.version
    <3>1. PICK i \in 1..k : n = schema[i]
      BY <2>1 DEF Prefix
    <3>2. PICK j \in 1..Len(schema) : m = schema[j]
      BY <2>3
    <3>3. j > k
      BY <2>1, <2>2, <2>5, <3>2 DEF Prefix
    <3> QED
      BY <2>2, <2>3, <3>1, <3>2, <3>3
  <2> QED
    BY <2>4, <2>5
<1> QED
  BY <1>1, Invariance, PTL

\* Only a build that has every migration of the database extends it, by one.
THEOREM HistoryIsAgreedUpon == Spec => OnlyAgreeingBuildsWrite
<1>1. ASSUME IInv, [Next]_vars, schema' # schema
      PROVE  /\ Len(schema') = Len(schema) + 1
             /\ \E p \in Process :
                   /\ Active(p)
                   /\ \A i \in 1..Len(schema') : schema'[i] \in Manifest(p)
                   /\ \A i \in 1..Len(schema) : schema'[i] = schema[i]
  <2>1. PICK p \in Process : stage[p] = "recorded" /\ Durable(p)
    <3>1. ~UNCHANGED vars
      BY <1>1 DEF vars, database
    <3>2. PICK p \in Process : Start(p) \/ Step(p) \/ Crash(p)
      BY <1>1, <3>1 DEF Next
    <3>3. Effect(p)
      BY <1>1, <3>2, StepTouches DEF IInv
    <3> QED
      BY <1>1, <3>3 DEF Effect
  <2>2. /\ TypeOK /\ Current(p) \in Migrations /\ Current(p) \in Manifest(p)
        /\ schema' = schema \o <<Current(p)>>
        /\ AppliedUpTo(p, Len(schema))
    BY <1>1, <2>1, DurableExtends DEF IInv
  <2>3. /\ Len(schema) \in Nat
        /\ Len(schema') = Len(schema) + 1
        /\ \A i \in 1..Len(schema) : schema'[i] = schema[i]
        /\ schema'[Len(schema) + 1] = Current(p)
    BY <2>2, SchemaGrows
  <2>4. \A i \in 1..Len(schema) : schema[i] \in Manifest(p)
    BY <2>2 DEF AppliedUpTo, Prefix
  <2>5. \A i \in 1..Len(schema') : schema'[i] \in Manifest(p)
    BY <2>2, <2>3, <2>4
  <2>6. Active(p)
    BY <2>1 DEF Active
  <2> QED
    BY <2>3, <2>5, <2>6
<1> QED
  BY <1>1, Invariance, PTL DEF Spec, OnlyAgreeingBuildsWrite

-----------------------------------------------------------------------------
(* The process that is alone.                                              *)

Alone(p) == \A q \in Process \ {p} : ~Active(q)

\* What a process knows that nothing has disturbed: nobody else is there, what
\* it read of the database is still so, and what it has to apply is new.
Calm(p) ==
    Active(p) /\ ~disturbed[p] =>
        /\ Alone(p)
        /\ stage[p] = "check" => seen[p].rows = meta
        /\ stage[p] \in Applying => \A m \in pending[p] : m.version > Len(schema)

\* The reasons there are to turn a build away.
Reason(p) ==
    \/ table = "alien"
    \/ ~WellFormed(Manifest(p))
    \/ ~(meta \subseteq Manifest(p))
    \/ 1 \notin Versions(Manifest(p))

\* AloneAndAgreeingSucceeds, for one process.
WithReason(p) == outcome[p] \in {"refused", "error"} /\ ~disturbed[p] => Reason(p)

\* A reason that there was does not go away.
LEMMA ReasonStays ==
    ASSUME IInv, NEW p \in Process, NEW q \in Process, Effect(p), build'[q] = build[q], Reason(q)
    PROVE  Reason(q)'
<1>1. Manifest(q)' = Manifest(q)
  BY DEF Manifest
<1>2. CASE UNCHANGED <<table, schema, meta>>
  BY <1>1, <1>2 DEF Reason, WellFormed, Versions
<1>3. CASE stage[p] = "recorded" /\ Durable(p)
  <2>1. table # "alien" /\ meta \subseteq meta'
    BY <1>3, DurableExtends
  <2> QED
    BY <1>1, <2>1 DEF Reason, WellFormed, Versions
<1> QED
  BY <1>2, <1>3 DEF Effect

\* The versions in the database are the numbers from 1 on.
LEMMA RecordedVersions ==
    ASSUME IInv
    PROVE  Len(schema) \in Nat /\ Versions(meta) = 1..Len(schema)
<1>1. Len(schema) \in Nat
  BY LenProperties DEF IInv, TypeOK
<1>2. Versions(meta) = {schema[i].version : i \in 1..Len(schema)}
  BY DEF IInv, SchemaMatchesMetadata, Versions
<1>3. \A i \in 1..Len(schema) : schema[i].version = i
  BY DEF IInv, SchemaMatchesMetadata
<1> QED
  BY <1>1, <1>2, <1>3

\* The steps of the others disturb a process or do not concern it.
LEMMA OthersCalm ==
    ASSUME IInv, NEW p \in Process, NEW q \in Process, q # p, Calm(q), WithReason(q),
           Start(p) \/ Step(p) \/ Crash(p)
    PROVE  (Calm(q) /\ WithReason(q))'
<1>1. Frame(p) /\ Effect(p) /\ TypeOK
  BY StepTouches DEF IInv
<1>2. /\ stage'[q] = stage[q] /\ outcome'[q] = outcome[q] /\ build'[q] = build[q]
  BY <1>1 DEF Frame
<1>3. disturbed'[q] = disturbed[q] \/ (Start(p) /\ disturbed'[q] = (disturbed[q] \/ Active(q)))
  <2>1. CASE Start(p)
    BY <2>1 DEF Start
  <2>2. CASE Step(p) \/ Crash(p)
    <3>1. Fault(p) \/ NoFault
      BY <2>2 DEF Step, Crash, OpenWriter, OpenReader, OpenFails, DiscoverManifest, LoadTable,
                  LoadRows, CheckManifest, BeginTx, ExecuteSQL, RecordMetadata, Commit,
                  CommitUnconfirmed, Fails
    <3> QED
      BY <1>1, <3>1 DEF Fault, NoFault, TypeOK
  <2> QED
    BY <2>1, <2>2
<1>4. disturbed[q] => disturbed'[q]
  BY <1>3
<1>5. WithReason(q)'
  BY <1>1, <1>2, <1>4, ReasonStays DEF WithReason
<1>6. Calm(q)'
  <2> SUFFICES ASSUME Active(q)', ~disturbed'[q] PROVE FALSE
    BY DEF Calm
  <2>1. Active(q) /\ ~disturbed[q] /\ ~Start(p)
    BY <1>2, <1>3, <1>4 DEF Active, Start
  <2>2. Active(p)
    BY <2>1 DEF Step, Crash, OpenWriter, OpenReader, OpenFails, DiscoverManifest, LoadTable,
                LoadRows, CheckManifest, BeginTx, ExecuteSQL, RecordMetadata, Commit,
                CommitUnconfirmed, Fails, Migrating, Active
  <2> QED
    BY <2>1, <2>2 DEF Calm, Alone
<1> QED
  BY <1>5, <1>6

\* A process that stays at work stays alone until somebody starts.
LEMMA StaysAlone ==
    ASSUME NEW p \in Process, Frame(p), Alone(p) PROVE Alone(p)'
  BY DEF Frame, Alone, Active

\* Start: alone if nobody else is there.
LEMMA StartCalm ==
    ASSUME IInv, NEW p \in Process, Start(p) PROVE (Calm(p) /\ WithReason(p))'
<1>1. /\ stage'[p] = "opening" /\ outcome'[p] = "none"
      /\ disturbed'[p] = (\E r \in Process \ {p} : Active(r))
  BY DEF Start, Goto, IInv, TypeOK
<1>2. Frame(p)
  BY StepTouches DEF IInv
<1>3. Calm(p)'
  BY <1>1, <1>2, StaysAlone DEF Calm, Alone, Applying
<1> QED
  BY <1>1, <1>3 DEF WithReason

\* A step that ends with a fault needs no reason, nor does a death.
LEMMA FaultCalm ==
    ASSUME IInv, NEW p \in Process, Fault(p), stage'[p] = "idle"
    PROVE  (Calm(p) /\ WithReason(p))'
<1>1. disturbed'[p]
  BY DEF Fault, IInv, TypeOK
<1> QED
  BY <1>1 DEF Calm, WithReason

\* Opening, and reading what has been applied.
LEMMA LoadCalm ==
    ASSUME IInv, NEW p \in Process, Calm(p), WithReason(p),
           \/ OpenWriter(p) \/ OpenReader(p) \/ DiscoverManifest(p)
           \/ LoadTable(p) \/ LoadRows(p)
    PROVE  (Calm(p) /\ WithReason(p))'
<1>1. TypeOK /\ Frame(p) /\ Effect(p) /\ SchemaMatchesMetadata
  BY StepTouches DEF IInv, Step
<1>2. /\ stage[p] \in {"opening", "writer", "open", "load", "rows"}
      /\ UNCHANGED <<build, disturbed, table, schema, meta>>
  BY DEF OpenWriter, OpenReader, DiscoverManifest, LoadTable, LoadRows, NoFault, database
<1>3. Active(p)
  BY <1>2 DEF Active
<1>4. CASE OpenWriter(p) \/ OpenReader(p)
  <2>1. stage'[p] \in {"writer", "open"} /\ outcome' = outcome
    BY <1>1, <1>4 DEF OpenWriter, OpenReader, Goto, TypeOK
  <2>2. WithReason(p)'
    BY <1>1, <1>2, <2>1, ReasonStays DEF WithReason
  <2> QED
    BY <1>1, <1>2, <1>3, <2>1, <2>2, StaysAlone DEF Calm, Applying
<1>5. CASE DiscoverManifest(p)
  <2>1. \/ stage'[p] = "load" /\ outcome' = outcome
        \/ stage'[p] = "idle" /\ ~WellFormed(Manifest(p))
    BY <1>1, <1>5 DEF DiscoverManifest, Return, Goto, TypeOK
  <2>2. ~WellFormed(Manifest(p)) => Reason(p)'
    BY <1>2 DEF Reason, WellFormed, Manifest
  <2>3. WithReason(p)'
    BY <1>1, <1>2, <2>1, <2>2, ReasonStays DEF WithReason
  <2> QED
    BY <1>1, <1>2, <1>3, <2>1, <2>3, StaysAlone DEF Calm, Applying, Active
<1>6. CASE LoadTable(p)
  <2>1. /\ \/ stage'[p] = "rows" /\ outcome' = outcome
           \/ stage'[p] = "check" /\ outcome' = outcome /\ table = "absent"
           \/ stage'[p] = "idle" /\ table = "alien"
        /\ seen'[p].rows = {}
    BY <1>1, <1>6 DEF LoadTable, Return, Goto, TypeOK
  <2>2. table = "alien" => Reason(p)'
    BY <1>2 DEF Reason
  <2>3. table = "absent" => meta = {}
    <3>1. table = "absent" => schema = <<>>
      BY <1>1 DEF SchemaMatchesMetadata
    <3> QED
      BY <1>1, <3>1 DEF SchemaMatchesMetadata
  <2>4. WithReason(p)'
    BY <1>1, <1>2, <2>1, <2>2, ReasonStays DEF WithReason
  <2> QED
    BY <1>1, <1>2, <1>3, <2>1, <2>3, <2>4, StaysAlone DEF Calm, Applying, Active
<1>7. CASE LoadRows(p)
  <2>1. stage'[p] = "check" /\ outcome' = outcome /\ seen'[p].rows = meta
    BY <1>1, <1>7 DEF LoadRows, Goto, TypeOK
  <2>2. WithReason(p)'
    BY <1>1, <1>2, <2>1, ReasonStays DEF WithReason
  <2> QED
    BY <1>1, <1>2, <1>3, <2>1, <2>2, StaysAlone DEF Calm, Applying
<1> QED
  BY <1>4, <1>5, <1>6, <1>7

\* The comparison with the manifest refuses a process that is alone only if
\* the database has a migration that its build does not, or the build does not
\* begin with version 1.
LEMMA CheckCalm ==
    ASSUME IInv, NEW p \in Process, Calm(p), WithReason(p), CheckManifest(p)
    PROVE  (Calm(p) /\ WithReason(p))'
<1>1. TypeOK /\ Frame(p) /\ Effect(p) /\ Knows(p)
  BY StepTouches DEF IInv, Step
<1>2. /\ stage[p] = "check" /\ Active(p)
      /\ UNCHANGED <<build, disturbed, table, schema, meta>>
  BY DEF CheckManifest, NoFault, database, Active
<1>3. CASE disturbed[p]
  BY <1>2, <1>3 DEF Calm, WithReason
<1>4. CASE ~disturbed[p]
  <2>1. seen[p].rows = meta /\ Alone(p)'
    BY <1>1, <1>2, <1>4, StaysAlone DEF Calm
  <2>2. Len(schema) \in Nat /\ Versions(seen[p].rows) = 1..Len(schema)
    BY <2>1, RecordedVersions
  <2>3. \A m \in Manifest(p) : m.version \in Nat /\ m.version >= 1
    BY <1>1, ManifestType, MigrationConstants DEF Migrations
  <2>4. \A m \in Unapplied(p) : m.version > Len(schema)
    BY <2>2, <2>3 DEF Unapplied
  <2>5. ~Skipped(p)
    BY <2>2, <2>3, <2>4 DEF Skipped, Unapplied
  <2>6. ~Agrees(p) => Reason(p)'
    BY <1>2, <2>1 DEF Agrees, Reason, Manifest
  <2>7. ~FirstIsFirst(p) => Reason(p)'
    <3> SUFFICES ASSUME ~FirstIsFirst(p) PROVE 1 \notin Versions(Manifest(p))
      BY <1>2 DEF Reason, Manifest, Versions
    <3>1. PICK k \in 0..Len(schema) : SeenPrefix(p, k)
      BY <1>1, <1>2 DEF Knows
    <3>2. seen[p].rows = {}
      BY <3>1 DEF SeenPrefix, FirstIsFirst, Prefix
    <3>3. Unapplied(p) = Manifest(p)
      BY <3>2 DEF Unapplied, Versions
    <3> QED
      BY <3>3 DEF FirstIsFirst
  <2>8. CASE Return(p, "nil")
    BY <1>1, <2>8 DEF Return, Goto, TypeOK, Calm, WithReason, Active
  <2>9. CASE Return(p, "refused") /\ (~Agrees(p) \/ ~FirstIsFirst(p))
    BY <1>1, <2>6, <2>7, <2>9 DEF Return, Goto, TypeOK, Calm, WithReason, Active
  <2>10. CASE /\ pending' = [pending EXCEPT ![p] = Unapplied(p)]
              /\ Goto(p, "apply") /\ UNCHANGED <<outcome, pools>>
    <3>1. stage'[p] = "apply" /\ pending'[p] = Unapplied(p) /\ outcome' = outcome
      BY <1>1, <2>10 DEF Goto, TypeOK
    <3>2. WithReason(p)'
      BY <1>1, <1>2, <3>1, ReasonStays DEF WithReason
    <3> QED
      BY <1>2, <2>1, <2>4, <3>1, <3>2 DEF Calm
  <2> QED
    BY <2>5, <2>8, <2>9, <2>10 DEF CheckManifest
<1> QED
  BY <1>3, <1>4 DEF IInv, TypeOK

\* Inside the transactions of a process that is alone.
LEMMA ApplyCalm ==
    ASSUME IInv, NEW p \in Process, Calm(p), WithReason(p),
           BeginTx(p) \/ ExecuteSQL(p) \/ RecordMetadata(p)
    PROVE  (Calm(p) /\ WithReason(p))'
<1>1. TypeOK /\ Frame(p) /\ Effect(p)
  BY StepTouches DEF IInv, Step
<1>2. /\ stage[p] \in Applying /\ Active(p)
      /\ UNCHANGED <<build, disturbed, table, schema, meta, pending, outcome>>
      /\ stage'[p] \in {"begun", "executed", "recorded"}
  BY <1>1 DEF BeginTx, ExecuteSQL, RecordMetadata, NoFault, database, Active, Applying, Goto, TypeOK
<1>3. WithReason(p)'
  BY <1>1, <1>2, ReasonStays DEF WithReason
<1>4. Calm(p)'
  BY <1>1, <1>2, StaysAlone DEF Calm
<1> QED
  BY <1>3, <1>4

\* A commit leaves what comes after it.
LEMMA CommitCalm ==
    ASSUME IInv, NEW p \in Process, Calm(p), WithReason(p), Commit(p)
    PROVE  (Calm(p) /\ WithReason(p))'
<1>1. TypeOK /\ Frame(p) /\ Effect(p) /\ stage[p] = "recorded" /\ Durable(p)
  BY StepTouches DEF IInv, Step, Commit
<1>2. Active(p) /\ UNCHANGED <<build, disturbed>>
  BY <1>1 DEF Commit, NoFault, Active
<1>3. \/ stage'[p] = "idle" /\ outcome'[p] = "nil"
      \/ stage'[p] = "apply" /\ outcome' = outcome
  BY <1>1 DEF Commit, Return, Goto, TypeOK
<1>4. /\ Len(schema') = Len(schema) + 1
      /\ pending'[p] = {m \in Manifest(p) : m.version > Len(schema) + 1}
  BY <1>1, CommittedPrefix DEF Commit, TypeOK
<1>5. WithReason(p)'
  BY <1>1, <1>2, <1>3, ReasonStays DEF WithReason
<1>6. Calm(p)'
  BY <1>1, <1>2, <1>3, <1>4, StaysAlone DEF Calm, Active
<1> QED
  BY <1>5, <1>6

\* A statement that fails for no reason of its own means that somebody else
\* is, or was, there: a process that is alone finds the write lock free, no
\* object of its next migration, and no row with its version.
LEMMA FailsCalm ==
    ASSUME IInv, NEW p \in Process, Calm(p), WithReason(p), Fails(p)
    PROVE  (Calm(p) /\ WithReason(p))'
<1>1. TypeOK /\ stage'[p] = "idle"
  BY DEF IInv, TypeOK, Fails, Return, Goto
<1>2. CASE Fault(p)
  BY <1>1, <1>2, FaultCalm
<1>3. CASE /\ NoFault
           /\ \/ stage[p] = "begun" /\ (lock # NoOne \/ ~SQLSucceeds(Current(p)))
              \/ stage[p] = "executed" /\ ~MayInsert(Current(p))
  <2>1. Active(p) /\ stage[p] \in Applying /\ disturbed' = disturbed
    BY <1>3 DEF Active, Applying, NoFault
  <2>2. ASSUME ~disturbed[p] PROVE FALSE
    <3>1. Alone(p) /\ \A m \in pending[p] : m.version > Len(schema)
      BY <2>1, <2>2 DEF Calm
    <3>2. PICK n \in 0..Len(schema) : AppliedUpTo(p, n)
      BY <2>1 DEF IInv, Knows
    <3>3. Current(p) \in pending[p] /\ Current(p).version = n + 1
      BY <1>1, <3>2, CurrentIsNext
    <3>4. Len(schema) \in Nat /\ Versions(meta) = 1..Len(schema)
      BY RecordedVersions
    <3>5. Current(p).version = Len(schema) + 1
      BY <3>1, <3>2, <3>3, <3>4
    <3>6. lock # NoOne => lock = p
      BY <1>1, <3>1 DEF IInv, Left, Alone, Active, TypeOK
    <3>7. stage[p] = "begun" => lock = NoOne
      BY <3>6 DEF IInv, Left
    <3>8. SQLSucceeds(Current(p))
      BY <3>4, <3>5 DEF SQLSucceeds, Applied, IInv, SchemaMatchesMetadata
    <3>9. MayInsert(Current(p))
      <4>1. Len(schema) = 0 \/ schema # <<>>
        OBVIOUS
      <4> QED
        BY <3>4, <3>5, <4>1 DEF MayInsert, IInv, SchemaMatchesMetadata
    <3> QED
      BY <1>3, <3>7, <3>8, <3>9
  <2> QED
    BY <1>1, <2>1, <2>2 DEF Calm, WithReason, Active
<1> QED
  BY <1>2, <1>3 DEF Fails

\* A new process is calm, and every step keeps all of them so.
LEMMA InitCalm == Init => \A p \in Process : Calm(p) /\ WithReason(p)
  BY DEF Init, Calm, WithReason, Active

LEMMA StepCalm ==
    ASSUME IInv, \A p \in Process : Calm(p) /\ WithReason(p), [Next]_vars
    PROVE  (\A p \in Process : Calm(p) /\ WithReason(p))'
<1> SUFFICES ASSUME NEW q \in Process PROVE (Calm(q) /\ WithReason(q))'
  OBVIOUS
<1>1. CASE UNCHANGED vars
  BY <1>1 DEF vars, local, database, Calm, WithReason, Reason, Manifest, Active, Alone, WellFormed
<1>2. ASSUME NEW p \in Process, Start(p) \/ Step(p) \/ Crash(p) PROVE (Calm(q) /\ WithReason(q))'
  <2>1. CASE q # p
    BY <1>2, <2>1, OthersCalm
  <2>2. ASSUME OpenFails(p) \/ CommitUnconfirmed(p) \/ Crash(p)
        PROVE  (Calm(p) /\ WithReason(p))'
    <3>1. Fault(p) /\ stage'[p] = "idle"
      BY <2>2 DEF OpenFails, CommitUnconfirmed, Crash, Return, Goto, IInv, TypeOK
    <3> QED
      BY <3>1, FaultCalm
  <2>3. CASE q = p
    BY <1>2, <2>2, <2>3, StartCalm, LoadCalm, CheckCalm, ApplyCalm, CommitCalm, FailsCalm DEF Step
  <2> QED
    BY <2>1, <2>3
<1> QED
  BY <1>1, <1>2 DEF Next

\* A build that agrees with the database is not turned away without a reason:
\* without a fault, and with nobody else at the database, Migrate returns nil.
THEOREM NotTurnedAway == Spec => []AloneAndAgreeingSucceeds
<1> DEFINE Inv == IInv /\ \A p \in Process : Calm(p) /\ WithReason(p)
<1>1. Init => Inv
  BY InitInv, InitCalm
<1>2. Inv /\ [Next]_vars => Inv'
  BY StepInv, StepCalm
<1>3. Inv => AloneAndAgreeingSucceeds
  BY DEF WithReason, Reason, AloneAndAgreeingSucceeds
<1> QED
  BY <1>1, <1>2, <1>3, PTL DEF Spec
=============================================================================
