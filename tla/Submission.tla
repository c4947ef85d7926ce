----------------------------- MODULE Submission -----------------------------
(***************************************************************************)
(* POST of a review: handleSubmit (internal/api/server.go) builds the      *)
(* snapshot and calls Store.Submit (internal/storage/sqlite/submit.go),    *)
(* whose callback runs under withImmediate.  A Call is one HTTP request;   *)
(* a client that got no answer, or an error, sends another one with the    *)
(* same key at any time, also while the first is still running.            *)
(*                                                                         *)
(* Key stands for (project_id, idempotency_key).  Body stands for title    *)
(* and content: RequestHashV1 is injective on them (every field carries    *)
(* its length), so two request hashes are equal iff the bodies are, and    *)
(* snapshotID derives the snapshot's id from the same fields.  The         *)
(* snapshot's hash (units) also depends on the splitter version.           *)
(* Requests without a key, title, content or evidence are refused before   *)
(* the store is called and are left out.                                   *)
(***************************************************************************)
EXTENDS ImmediateTx

CONSTANTS
    Key,
    Body,
    Units,        \* snapshot hashes
    Submittable   \* requests clients send: key, body, units the body is cut into

\* The units depend on the body and on the splitter version that cuts it up;
\* processes of different builds may disagree about a body.
\* NoOne is no request and no session.
ASSUME SubmissionConstants ==
    /\ Submittable \subseteq [key : Key, body : Body, units : Units]
    /\ NoOne \notin Submittable
    /\ NoOne \notin [key : Key, body : Body]
    /\ NoOne \notin [id : Call \X (1..MaxAttempts), body : Body, by : Call]

VARIABLES
    request,    \* call -> what was submitted, with the snapshot built from it
    result      \* call -> the SubmitResult variable the callback assigns

subVars == <<request, result>>

vars == <<txVars, subVars>>

Id == Call \X (1..MaxAttempts)

NoAnswer == [code |-> "none", id |-> NoOne]

NoResult == [id |-> NoOne, replay |-> FALSE]

\* Rows.  by is the request that wrote the session (not a column).
SessionRow(c, id) ==
    [table |-> "sessions", id |-> id, key |-> request[c].key,
     body |-> request[c].body, by |-> c]

SnapshotRow(c) ==
    [table |-> "snapshots", id |-> request[c].body, hash |-> request[c].units]

RoleRunsRow(id) == [table |-> "role_runs", id |-> id]

Row ==
    [table : {"sessions"}, id : Id, key : Key, body : Body, by : Call]
        \cup [table : {"snapshots"}, id : Body, hash : Units]
        \cup [table : {"role_runs"}, id : Id]

Rows(table) == {row \in db : row.table = table}

Init ==
    /\ TxInit
    /\ request = [c \in Call |-> NoOne]
    /\ result = [c \in Call |-> NoResult]

\* handleSubmit up to the store: decode, validate, build the snapshot.
HandleSubmit(c) ==
    /\ Enter(c)
    /\ \E r \in Submittable : request' = [request EXCEPT ![c] = r]
    /\ UNCHANGED result

\* Mutant: the lookup is by request hash instead of key.
ExistingByBody(c) == {row \in Rows("sessions") : row.body = request[c].body}

\* SELECT ... WHERE project_id = ? AND idempotency_key = ?  It runs under the
\* write lock, so the insert below never meets the UNIQUE constraint on these
\* columns, and the code's reread after a violation is not needed.
Existing(c) == {row \in Rows("sessions") : row.key = request[c].key}

\* SELECT hash FROM snapshots WHERE id = ?
StoredSnapshot(c) == {row \in Rows("snapshots") : row.id = request[c].body}

SameBody(c, row) == row.body = request[c].body

\* The key is known and the request is the same one: replay.
Replay(c) ==
    \E row \in Existing(c) :
        /\ SameBody(c, row)
        /\ result' = [result EXCEPT ![c] = [id |-> row.id, replay |-> TRUE]]
        /\ CallbackSucceeds(c, {})

\* The key is known for another request: IdempotencyConflictError.
Conflict(c) ==
    /\ \E row \in Existing(c) : ~SameBody(c, row)
    /\ CallbackFails(c, {}, "refused")
    /\ UNCHANGED <<result, faults>>

\* Mutant: the result of an earlier attempt is kept.
KeepFirstResult(c, id) ==
    IF result[c] = NoResult THEN [id |-> id, replay |-> FALSE] ELSE result[c]

NewResult(c, id) == [id |-> id, replay |-> FALSE]

\* Everything a new submission inserts, with a fresh id per attempt.  A
\* snapshot that is already stored is reused.
NewRows(c, id) ==
    {SessionRow(c, id), RoleRunsRow(id)}
        \cup IF StoredSnapshot(c) = {} THEN {SnapshotRow(c)} ELSE {}

SnapshotUsable(c) == \A row \in StoredSnapshot(c) : row.hash = request[c].units

Create(c) ==
    LET id == <<c, attempt[c]>> IN
    /\ Existing(c) = {}
    /\ SnapshotUsable(c)
    /\ result' = [result EXCEPT ![c] = NewResult(c, id)]
    /\ CallbackSucceeds(c, NewRows(c, id))

\* The stored snapshot of this document was cut up by another splitter.
SnapshotMismatch(c) ==
    /\ Existing(c) = {}
    /\ ~SnapshotUsable(c)
    /\ CallbackFails(c, {}, "error")
    /\ UNCHANGED <<result, faults>>

\* Some statement of the callback fails; the ones before it have run.  A busy
\* database is reported with the driver's error wrapped, so it is retried.
StatementError(c) ==
    LET id == <<c, attempt[c]>> IN
    /\ \E done \in {{}, NewRows(c, id) \ {SessionRow(c, id), RoleRunsRow(id)},
                        NewRows(c, id) \ {RoleRunsRow(id)}} :
          /\ done # {} => Existing(c) = {} /\ SnapshotUsable(c)
          /\ \/ CallbackFails(c, done, "error") /\ StatementFails(c)
             \/ CallbackFails(c, done, "busy") /\ Fault
    /\ UNCHANGED result

Callback(c) ==
    /\ stage[c] = "begun"
    /\ Replay(c) \/ Conflict(c) \/ Create(c) \/ SnapshotMismatch(c) \/ StatementError(c)
    /\ UNCHANGED request

\* Submit returns its result only without an error; the handler maps them.
Answer(c) ==
    IF stage[c] # "done" \/ outcome[c] = "none" THEN NoAnswer
    ELSE IF outcome[c] = "nil"
    THEN [code |-> IF result[c].replay THEN "replay" ELSE "created", id |-> result[c].id]
    ELSE [code |-> IF outcome[c] = "refused" THEN "conflict" ELSE "error", id |-> NoOne]

Step(c) ==
    \/ TxStep(c) /\ UNCHANGED subVars
    \/ Callback(c)

Next ==
    \/ \E p \in Process : Crash(p) /\ UNCHANGED subVars
    \/ \E c \in Call :
          \/ HandleSubmit(c)
          \/ CancelContext(c) /\ UNCHANGED subVars
          \/ Step(c)

Spec == Init /\ [][Next]_vars

\* Every goroutine runs on, and a call that waits for the connection gets it
\* when it becomes free again and again (database/sql queues its waiters).
\* Nothing is assumed about the write lock: BEGIN may always find it taken.
Fairness ==
    \A c \in Call :
        /\ WF_vars(Step(c))
        /\ SF_vars(AcquireConn(c) /\ UNCHANGED subVars)

FairSpec == Spec /\ Fairness

-----------------------------------------------------------------------------
(* Properties.                                                             *)

\* The calls of Submit keep well-typed requests, results and transactions, and
\* withImmediate makes no more attempts than its policy allows.
TypeOK ==
    /\ TxTypeOK
    /\ db \subseteq Row
    /\ tx \in [Process -> [open : BOOLEAN, rows : SUBSET Row]]
    /\ request \in [Call -> Submittable \cup {NoOne}]
    /\ result \in [Call -> [id : Id \cup {NoOne}, replay : BOOLEAN]]

\* However often a submission is retried, concurrently, after a lost answer or
\* an ambiguous commit, its key has one session.
OneSessionPerKey ==
    \A row, other \in Rows("sessions") : row.key = other.key => row = other

\* A stored session is complete: its snapshot and role runs are stored too,
\* and the snapshot is the one of its document.
NoPartialSubmission ==
    \A row \in Rows("sessions") :
        /\ RoleRunsRow(row.id) \in db
        /\ \E snap \in Rows("snapshots") :
              \A other \in Rows("snapshots") : other.id = row.body <=> other = snap

\* Exhausted retries mean that nothing was stored: unlike after other errors,
\* a client told "persistence unavailable" by the store has left no session.
UnavailableStoredNothing ==
    \A c \in Call : outcome[c] = "unavailable" =>
        \A row \in Rows("sessions") : row.by # c

\* Every request that was accepted gets an answer (or its process dies): the
\* calls do not wait for each other, for the connection or for the lock for ever.
EveryRequestAnswered == []<>(\A c \in Call : ~Running(c))

\* Submission keeps the promise of SubmitOnce.
SessionOf(k) ==
    LET rows == {row \in Rows("sessions") : row.key = k} IN
    IF rows = {} THEN NoOne
    ELSE LET row == CHOOSE r \in rows : TRUE
         IN [id |-> row.id, body |-> row.body, by |-> row.by]

Promise == INSTANCE SubmitOnce WITH
    Request <- Call, Nobody <- NoOne,
    binding <- [k \in Key |-> SessionOf(k)],
    asked <- [c \in Call |-> IF request[c] = NoOne THEN NoOne
                             ELSE [key |-> request[c].key, body |-> request[c].body]],
    reply <- [c \in Call |-> Answer(c)]

ImplementsSubmitOnce == Promise!Spec
=============================================================================
