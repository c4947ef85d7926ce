---------------------------- MODULE ImmediateTx ----------------------------
(***************************************************************************)
(* withImmediate (internal/storage/sqlite/immediate.go): a call runs a     *)
(* callback inside BEGIN IMMEDIATE ... COMMIT on the only writer           *)
(* connection of its process, and tries again when SQLite is busy.         *)
(*                                                                         *)
(* The rows are abstract: db is the set of committed rows, tx[p] the open  *)
(* transaction of process p's connection with the rows it has written.  A  *)
(* module that extends this one says what a callback writes.               *)
(*                                                                         *)
(* SQLite itself is external.  An error of BEGIN means that no transaction *)
(* was begun, and a busy COMMIT that nothing was committed; any other      *)
(* error of COMMIT (interrupted, connection lost) says nothing about       *)
(* whether the transaction is in the database.                             *)
(***************************************************************************)
EXTENDS Naturals

CONSTANTS
    Call,         \* calls of withImmediate, each made by one goroutine
    Process,      \* processes that have the database open
    ProcessOf,    \* the process a call runs in
    MaxAttempts,  \* 1 + RetryPolicy.MaxRetries
    MaxFaults,    \* bound on failing statements, cancelled contexts and crashes
    NoOne         \* nobody holds the connection or the lock

\* RetryPolicy.Validate: a call makes at least one attempt.
ASSUME TxConstants ==
    /\ ProcessOf \in [Call -> Process]
    /\ MaxAttempts \in Nat \ {0}
    /\ MaxFaults \in Nat
    /\ NoOne \notin Call \cup Process

VARIABLES
    stage,     \* where the goroutine of a call is
    attempt,   \* number of the running attempt
    outcome,   \* the error of the last attempt, then that of the call
    ctxDone,   \* the context of the call is cancelled or past its deadline
    conn,      \* process -> the call that has the writer connection
    tx,        \* process -> the transaction of its connection
    lock,      \* the process whose connection holds the write lock
    db,        \* committed rows
    faults     \* faults so far

txVars == <<stage, attempt, outcome, ctxDone, conn, tx, lock, db, faults>>

Stage == {"idle", "attempt", "conn", "begun", "ran", "cleanup", "committed",
          "backoff", "done"}

Outcome == {"none", "nil", "busy", "unavailable", "refused", "error"}

NoTx == [open |-> FALSE, rows |-> {}]

OpenTx(rows) == [open |-> TRUE, rows |-> rows]

Running(c) == stage[c] \notin {"idle", "done"}

TxInit ==
    /\ stage = [c \in Call |-> "idle"]
    /\ attempt = [c \in Call |-> 0]
    /\ outcome = [c \in Call |-> "none"]
    /\ ctxDone = [c \in Call |-> FALSE]
    /\ conn = [p \in Process |-> NoOne]
    /\ tx = [p \in Process |-> NoTx]
    /\ lock = NoOne
    /\ db = {}
    /\ faults = 0

Fault == faults < MaxFaults /\ faults' = faults + 1

\* A statement of c fails: the context is done, or something broke.
StatementFails(c) == \/ ctxDone[c] /\ UNCHANGED faults
                     \/ Fault

Goto(c, s) == stage' = [stage EXCEPT ![c] = s]

ReturnWith(c, o) ==
    /\ Goto(c, "done")
    /\ outcome' = [outcome EXCEPT ![c] = o]

Enter(c) ==
    /\ stage[c] = "idle"
    /\ Goto(c, "attempt")
    /\ attempt' = [attempt EXCEPT ![c] = 1]
    /\ UNCHANGED <<outcome, ctxDone, conn, tx, lock, db, faults>>

\* The client hangs up, the deadline passes, the server shuts down.
CancelContext(c) ==
    /\ Running(c)
    /\ ~ctxDone[c]
    /\ ctxDone' = [ctxDone EXCEPT ![c] = TRUE]
    /\ Fault
    /\ UNCHANGED <<stage, attempt, outcome, conn, tx, lock, db>>

\* db.Conn: wait for the process's connection.
AcquireConn(c) ==
    LET p == ProcessOf[c] IN
    /\ stage[c] = "attempt"
    /\ ~ctxDone[c]
    /\ conn[p] = NoOne
    /\ conn' = [conn EXCEPT ![p] = c]
    /\ Goto(c, "conn")
    /\ UNCHANGED <<attempt, outcome, ctxDone, tx, lock, db, faults>>

\* The context ends before an attempt, while it waits for the connection, or
\* during the backoff.
GiveUp(c) ==
    /\ stage[c] \in {"attempt", "backoff"}
    /\ ctxDone[c]
    /\ ReturnWith(c, "error")
    /\ UNCHANGED <<attempt, ctxDone, conn, tx, lock, db, faults>>

Begin(c) ==
    LET p == ProcessOf[c] IN
    /\ stage[c] = "conn"
    /\ lock = NoOne
    /\ lock' = p
    /\ tx' = [tx EXCEPT ![p] = OpenTx({})]
    /\ Goto(c, "begun")
    /\ UNCHANGED <<attempt, outcome, ctxDone, conn, db, faults>>

\* Mutant: busy is retried once too often.
RetryOnceMore(c) == attempt[c] <= MaxAttempts

MayRetry(c) == attempt[c] < MaxAttempts

\* How withImmediate goes on after an attempt that failed with o.
AfterFailure(c, o) ==
    IF o # "busy" THEN ReturnWith(c, o)
    ELSE IF MayRetry(c) THEN Goto(c, "backoff") /\ UNCHANGED outcome
    ELSE ReturnWith(c, "unavailable")

\* Mutant: the connection is not closed when BEGIN fails.
BeginFailsLeaks(c) ==
    /\ stage[c] = "conn"
    /\ \/ lock # NoOne /\ AfterFailure(c, "busy") /\ UNCHANGED faults
       \/ AfterFailure(c, "error") /\ StatementFails(c)
    /\ UNCHANGED <<attempt, ctxDone, conn, tx, lock, db>>

\* BEGIN IMMEDIATE fails: nothing to roll back, the connection is closed.
BeginFails(c) ==
    LET p == ProcessOf[c] IN
    /\ stage[c] = "conn"
    /\ conn' = [conn EXCEPT ![p] = NoOne]
    /\ \/ lock # NoOne /\ AfterFailure(c, "busy") /\ UNCHANGED faults
       \/ AfterFailure(c, "error") /\ StatementFails(c)
    /\ UNCHANGED <<attempt, ctxDone, tx, lock, db>>

\* The callback returned nil after writing rows.
CallbackSucceeds(c, rows) ==
    /\ stage[c] = "begun"
    /\ tx' = [tx EXCEPT ![ProcessOf[c]] = OpenTx(rows)]
    /\ Goto(c, "ran")
    /\ UNCHANGED <<attempt, outcome, ctxDone, conn, lock, db, faults>>

\* The callback returned an error, perhaps after some of its writes.
CallbackFails(c, rows, o) ==
    /\ stage[c] = "begun"
    /\ tx' = [tx EXCEPT ![ProcessOf[c]] = OpenTx(rows)]
    /\ outcome' = [outcome EXCEPT ![c] = o]
    /\ Goto(c, "cleanup")
    /\ UNCHANGED <<attempt, ctxDone, conn, lock, db>>

\* The transaction leaves the connection; its rows are in the database or not.
EndTx(p, durable) ==
    /\ tx' = [tx EXCEPT ![p] = NoTx]
    /\ lock' = NoOne
    /\ db' = IF durable THEN db \cup tx[p].rows ELSE db

Commit(c) ==
    /\ stage[c] = "ran"
    /\ ~ctxDone[c]
    /\ EndTx(ProcessOf[c], TRUE)
    /\ Goto(c, "committed")
    /\ UNCHANGED <<attempt, outcome, ctxDone, conn, faults>>

\* Mutant: an interrupted COMMIT is taken for a busy one and tried again.
CommitErrorBusy == "busy"

\* What an error of COMMIT other than busy is classified as.
CommitError == "error"

\* The context check before COMMIT, or COMMIT itself, fails.
CommitFails(c) ==
    /\ stage[c] = "ran"
    /\ \/ /\ UNCHANGED <<tx, lock, db>>
          /\ outcome' = [outcome EXCEPT ![c] = CommitError]
          /\ StatementFails(c)
       \/ /\ UNCHANGED <<tx, lock, db>>
          /\ outcome' = [outcome EXCEPT ![c] = "busy"]
          /\ Fault
       \/ /\ EndTx(ProcessOf[c], TRUE)
          /\ outcome' = [outcome EXCEPT ![c] = CommitError]
          /\ Fault
    /\ Goto(c, "cleanup")
    /\ UNCHANGED <<attempt, ctxDone, conn>>

\* Mutant: a connection whose rollback failed goes back to the pool as it is.
NotPoisoned(p) == UNCHANGED <<tx, lock, db>>

\* poisonConn: the physical connection is closed; SQLite drops what it had.
PoisonConn(p) ==
    /\ tx' = [tx EXCEPT ![p] = NoTx]
    /\ lock' = IF lock = p THEN NoOne ELSE lock
    /\ UNCHANGED db

\* Mutant: the cleanup commits what the failed attempt has written.
CleanupCommits(c) ==
    LET p == ProcessOf[c] IN
    /\ stage[c] = "cleanup"
    /\ \/ tx[p].open /\ EndTx(p, TRUE) /\ UNCHANGED faults
       \/ ~tx[p].open /\ PoisonConn(p) /\ UNCHANGED faults
       \/ tx[p].open /\ PoisonConn(p) /\ Fault
    /\ conn' = [conn EXCEPT ![p] = NoOne]
    /\ AfterFailure(c, outcome[c])
    /\ UNCHANGED <<attempt, ctxDone>>

\* The deferred cleanup: ROLLBACK under its own context.  It fails when the
\* transaction is already gone, or by a fault; then the connection is poisoned.
\* Either way the connection is closed before the caller sees the error.
RollBack(c) ==
    LET p == ProcessOf[c] IN
    /\ stage[c] = "cleanup"
    /\ \/ tx[p].open /\ EndTx(p, FALSE) /\ UNCHANGED faults
       \/ ~tx[p].open /\ PoisonConn(p) /\ UNCHANGED faults
       \/ tx[p].open /\ PoisonConn(p) /\ Fault
    /\ conn' = [conn EXCEPT ![p] = NoOne]
    /\ AfterFailure(c, outcome[c])
    /\ UNCHANGED <<attempt, ctxDone>>

\* Success is returned only after a confirmed commit.
ReturnNil(c) ==
    /\ stage[c] = "committed"
    /\ conn' = [conn EXCEPT ![ProcessOf[c]] = NoOne]
    /\ ReturnWith(c, "nil")
    /\ UNCHANGED <<attempt, ctxDone, tx, lock, db, faults>>

\* The backoff ends with the timer.
WakeUp(c) ==
    /\ stage[c] = "backoff"
    /\ ~ctxDone[c]
    /\ attempt' = [attempt EXCEPT ![c] = @ + 1]
    /\ Goto(c, "attempt")
    /\ UNCHANGED <<outcome, ctxDone, conn, tx, lock, db, faults>>

Victim(p, c) == ProcessOf[c] = p /\ Running(c)

\* A process dies: its calls never return and SQLite rolls its transaction
\* back when the file lock is gone.
Crash(p) ==
    /\ Fault
    /\ \E c \in Call : Victim(p, c)
    /\ stage' = [c \in Call |-> IF Victim(p, c) THEN "done" ELSE stage[c]]
    /\ outcome' = [c \in Call |-> IF Victim(p, c) THEN "none" ELSE outcome[c]]
    /\ conn' = [conn EXCEPT ![p] = NoOne]
    /\ PoisonConn(p)
    /\ UNCHANGED <<attempt, ctxDone>>

\* The steps of the wrapper that do not depend on the callback.
TxStep(c) ==
    \/ AcquireConn(c) \/ GiveUp(c) \/ Begin(c) \/ BeginFails(c)
    \/ Commit(c) \/ CommitFails(c) \/ RollBack(c) \/ ReturnNil(c) \/ WakeUp(c)

-----------------------------------------------------------------------------
(* Properties of the wrapper, whatever the callbacks write.                *)

\* Type invariant of withImmediate; attempt never passes 1 + MaxRetries.
TxTypeOK ==
    /\ stage \in [Call -> Stage]
    /\ attempt \in [Call -> 0..MaxAttempts]
    /\ outcome \in [Call -> Outcome]
    /\ ctxDone \in [Call -> BOOLEAN]
    /\ conn \in [Process -> Call \cup {NoOne}]
    /\ lock \in Process \cup {NoOne}
    /\ faults \in 0..MaxFaults

\* The write lock is held exactly by the connection that has a transaction
\* open, and only while an attempt is using that connection: no error, failed
\* rollback, cancelled context or crash leaves a transaction behind in the
\* pool, where the next caller would inherit it or wait for it for ever.
NoTxLeftBehind ==
    \A p \in Process :
        /\ tx[p].open <=> lock = p
        /\ tx[p].open => conn[p] # NoOne /\ stage[conn[p]] \in {"begun", "ran", "cleanup"}
        /\ conn[p] # NoOne => Running(conn[p])
=============================================================================
