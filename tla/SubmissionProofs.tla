-------------------------- MODULE SubmissionProofs --------------------------
(***************************************************************************)
(* Safety of withImmediate and of Store.Submit for any number of requests, *)
(* processes, keys, attempts and faults: no transaction is left behind on  *)
(* a pooled connection, a key has one complete session, and "unavailable"  *)
(* means that nothing was stored.                                          *)
(***************************************************************************)
EXTENDS Submission, TLAPS

Sessions == Rows("sessions")

Snapshots == Rows("snapshots")

\* The stages in which a call has the connection of its process.
Holding == {"conn", "begun", "ran", "cleanup", "committed"}

\* The connection of a process and its transaction.
Pool(p) ==
    /\ tx[p].open <=> lock = p
    /\ tx[p].open => conn[p] # NoOne
    /\ conn[p] # NoOne => ProcessOf[conn[p]] = p

\* What a call knows of the connection.
Own(c) ==
    /\ stage[c] \in Holding <=> conn[ProcessOf[c]] = c
    /\ stage[c] \in {"begun", "ran"} => tx[ProcessOf[c]].open
    /\ stage[c] \in {"conn", "committed"} => ~tx[ProcessOf[c]].open

\* What a call has been asked and how far it is.
Asked(c) ==
    /\ stage[c] = "idle" => request[c] = NoOne
    /\ stage[c] # "idle" => request[c] \in Submittable /\ attempt[c] \in 1..MaxAttempts
    /\ stage[c] = "backoff" => attempt[c] < MaxAttempts
    /\ stage[c] = "cleanup" => outcome[c] \in {"busy", "refused", "error"}
    /\ stage[c] \notin {"cleanup", "done"} => outcome[c] \in {"none", "busy"}

Wrote(c) == \E row \in Sessions : row.by = c

\* A session in the database was written by a call that has committed.
Fate(c) ==
    Wrote(c) =>
        \/ stage[c] = "committed"
        \/ stage[c] = "cleanup" /\ outcome[c] = "error" /\ ~tx[ProcessOf[c]].open
        \/ stage[c] = "done" /\ outcome[c] \in {"none", "nil", "error"}

\* What a callback that returned nil has written, and the result it assigned:
\* nothing and the session of its key, or a whole submission of a free key.
Ready(c) ==
    \/ /\ tx[ProcessOf[c]].rows = {}
       /\ \E row \in Existing(c) :
             SameBody(c, row) /\ result[c] = [id |-> row.id, replay |-> TRUE]
    \/ /\ tx[ProcessOf[c]].rows = NewRows(c, <<c, attempt[c]>>)
       /\ Existing(c) = {}
       /\ result[c] = NewResult(c, <<c, attempt[c]>>)

\* The result names the session of the key and says who made it.
Named(c) ==
    \E row \in Existing(c) :
        /\ SameBody(c, row)
        /\ result[c].id = row.id
        /\ result[c].replay <=> row.by # c

\* The key belongs to another body.
Taken(c) == \E row \in Existing(c) : ~SameBody(c, row)

\* What a call is about to be told, or has been told, is true.
Told(c) ==
    /\ stage[c] = "ran" => Ready(c)
    /\ stage[c] = "committed" => Named(c)
    /\ stage[c] = "done" /\ outcome[c] = "nil" => Named(c)
    /\ stage[c] \in {"cleanup", "done"} /\ outcome[c] = "refused" => Taken(c)

\* The id of a session begins with the request that made it.
IdsByMaker == \A row \in Sessions : row.id[1] = row.by

SnapshotsUnique == \A s, t \in Snapshots : s.id = t.id => s = t

Stored(row) ==
    /\ RoleRunsRow(row.id) \in db
    /\ \E snap \in Snapshots : snap.id = row.body

SessionsStored == \A row \in Sessions : Stored(row)

\* The inductive invariant.
IInv ==
    /\ TypeOK
    /\ \A p \in Process : Pool(p)
    /\ \A c \in Call : Own(c) /\ Asked(c) /\ Fate(c) /\ Told(c)
    /\ OneSessionPerKey
    /\ IdsByMaker
    /\ SnapshotsUnique
    /\ SessionsStored

-----------------------------------------------------------------------------
(* Types.                                                                  *)

\* What a failed attempt does to the call.
LEMMA AfterFailureFacts ==
    ASSUME TypeOK, NEW c \in Call, NEW o \in {"busy", "refused", "error"}, AfterFailure(c, o)
    PROVE  /\ \/ /\ o = "busy" /\ outcome' = outcome
                 /\ stage' = [stage EXCEPT ![c] = "backoff"]
                 /\ attempt[c] < MaxAttempts
              \/ /\ stage' = [stage EXCEPT ![c] = "done"]
                 /\ \E r \in {"refused", "error", "unavailable"} :
                       /\ outcome' = [outcome EXCEPT ![c] = r]
                       /\ r = "unavailable" <=> o = "busy"
                       /\ r = "refused" <=> o = "refused"
           /\ stage' \in [Call -> Stage]
           /\ outcome' \in [Call -> Outcome]
<1>1. stage \in [Call -> Stage] /\ outcome \in [Call -> Outcome]
  BY DEF TypeOK, TxTypeOK
<1>2. CASE o # "busy"
  BY <1>1, <1>2 DEF AfterFailure, ReturnWith, Goto, Stage, Outcome
<1>3. CASE o = "busy" /\ MayRetry(c)
  BY <1>1, <1>3 DEF AfterFailure, MayRetry, Goto, Stage
<1>4. CASE o = "busy" /\ ~MayRetry(c)
  BY <1>1, <1>4 DEF AfterFailure, ReturnWith, Goto, Stage, Outcome
<1> QED
  BY <1>2, <1>3, <1>4

\* A fault is counted.
LEMMA FaultType ==
    ASSUME TypeOK, Fault
    PROVE  faults' \in 0..MaxFaults
BY TxConstants DEF TypeOK, TxTypeOK, Fault

\* A statement that fails is at most a counted fault.
LEMMA StatementFailsType ==
    ASSUME TypeOK, NEW c \in Call, StatementFails(c)
    PROVE  faults' \in 0..MaxFaults
BY FaultType DEF TypeOK, TxTypeOK, StatementFails

\* The end of a transaction keeps the types.
LEMMA EndTxType ==
    ASSUME TypeOK, NEW p \in Process, NEW d \in BOOLEAN, EndTx(p, d) \/ PoisonConn(p)
    PROVE  /\ tx' = [tx EXCEPT ![p] = NoTx]
           /\ tx' \in [Process -> [open : BOOLEAN, rows : SUBSET Row]]
           /\ lock' \in Process \cup {NoOne}
           /\ db' \subseteq Row
<1>1. NoTx \in [open : BOOLEAN, rows : SUBSET Row]
  BY DEF NoTx
<1>2. tx[p].rows \subseteq Row
  BY DEF TypeOK
<1> QED
  BY <1>1, <1>2 DEF EndTx, PoisonConn, TypeOK, TxTypeOK

\* The rows a submission writes are rows.
LEMMA NewRowsType ==
    ASSUME TypeOK, NEW c \in Call, request[c] \in Submittable, attempt[c] \in 1..MaxAttempts
    PROVE  /\ <<c, attempt[c]>> \in Id
           /\ SessionRow(c, <<c, attempt[c]>>) \in Row
           /\ RoleRunsRow(<<c, attempt[c]>>) \in Row
           /\ SnapshotRow(c) \in Row
           /\ NewRows(c, <<c, attempt[c]>>) \subseteq Row
<1>1. request[c] \in [key : Key, body : Body, units : Units]
  BY SubmissionConstants
<1>2. <<c, attempt[c]>> \in Id
  BY DEF Id
<1>3. SessionRow(c, <<c, attempt[c]>>) \in Row
  BY <1>1, <1>2 DEF SessionRow, Row
<1>4. RoleRunsRow(<<c, attempt[c]>>) \in Row
  BY <1>2 DEF RoleRunsRow, Row
<1>5. SnapshotRow(c) \in Row
  BY <1>1 DEF SnapshotRow, Row
<1> QED
  BY <1>2, <1>3, <1>4, <1>5 DEF NewRows

\* The variables start well typed.
LEMMA InitType == Init => TypeOK
<1> SUFFICES ASSUME Init PROVE TypeOK
  OBVIOUS
<1> USE TxConstants DEF Init, TxInit
<1>1. TxTypeOK
  BY DEF TxTypeOK, Stage, Outcome
<1>2. tx \in [Process -> [open : BOOLEAN, rows : SUBSET Row]]
  BY DEF NoTx
<1>3. result \in [Call -> [id : Id \cup {NoOne}, replay : BOOLEAN]]
  BY DEF NoResult
<1> QED
  BY <1>1, <1>2, <1>3 DEF TypeOK

\* Every step of the wrapper keeps the types.
LEMMA TxStepType ==
    ASSUME IInv, NEW c \in Call, TxStep(c), UNCHANGED subVars
    PROVE  TypeOK'
<1> DEFINE p == ProcessOf[c]
<1>1. TypeOK /\ Asked(c) /\ p \in Process
  BY TxConstants DEF IInv
<1>2. /\ request' = request /\ result' = result
      /\ stage \in [Call -> Stage] /\ outcome \in [Call -> Outcome]
      /\ attempt \in [Call -> 0..MaxAttempts] /\ conn \in [Process -> Call \cup {NoOne}]
      /\ lock \in Process \cup {NoOne} /\ faults \in 0..MaxFaults
      /\ db \subseteq Row /\ tx \in [Process -> [open : BOOLEAN, rows : SUBSET Row]]
  BY <1>1 DEF TypeOK, TxTypeOK, subVars
<1>3. CASE AcquireConn(c)
  BY <1>1, <1>2, <1>3 DEF AcquireConn, Goto, TypeOK, TxTypeOK, Stage
<1>4. CASE GiveUp(c)
  BY <1>1, <1>2, <1>4 DEF GiveUp, ReturnWith, Goto, TypeOK, TxTypeOK, Stage, Outcome
<1>5. CASE Begin(c)
  <2>1. OpenTx({}) \in [open : BOOLEAN, rows : SUBSET Row]
    BY DEF OpenTx
  <2> QED
    BY <1>1, <1>2, <1>5, <2>1 DEF Begin, Goto, TypeOK, TxTypeOK, Stage
<1>6. CASE BeginFails(c)
  <2>1. stage' \in [Call -> Stage] /\ outcome' \in [Call -> Outcome]
    BY <1>1, <1>6, AfterFailureFacts DEF BeginFails
  <2>2. faults' \in 0..MaxFaults
    BY <1>1, <1>2, <1>6, StatementFailsType DEF BeginFails
  <2> QED
    BY <1>1, <1>2, <1>6, <2>1, <2>2 DEF BeginFails, TypeOK, TxTypeOK
<1>7. CASE Commit(c)
  <2>1. /\ tx' \in [Process -> [open : BOOLEAN, rows : SUBSET Row]]
        /\ lock' \in Process \cup {NoOne} /\ db' \subseteq Row
    BY <1>1, <1>7, EndTxType DEF Commit
  <2> QED
    BY <1>1, <1>2, <1>7, <2>1 DEF Commit, Goto, TypeOK, TxTypeOK, Stage
<1>8. CASE CommitFails(c)
  <2>1. /\ tx' \in [Process -> [open : BOOLEAN, rows : SUBSET Row]]
        /\ lock' \in Process \cup {NoOne} /\ db' \subseteq Row
    BY <1>1, <1>2, <1>8, EndTxType DEF CommitFails
  <2>2. faults' \in 0..MaxFaults
    BY <1>1, <1>2, <1>8, StatementFailsType, FaultType DEF CommitFails
  <2>3. outcome' \in [Call -> Outcome]
    BY <1>1, <1>2, <1>8 DEF CommitFails, CommitError, Outcome
  <2> QED
    BY <1>1, <1>2, <1>8, <2>1, <2>2, <2>3 DEF CommitFails, Goto, TypeOK, TxTypeOK, Stage
<1>9. CASE RollBack(c)
  <2>1. /\ tx' \in [Process -> [open : BOOLEAN, rows : SUBSET Row]]
        /\ lock' \in Process \cup {NoOne} /\ db' \subseteq Row
    BY <1>1, <1>2, <1>9, EndTxType DEF RollBack
  <2>2. faults' \in 0..MaxFaults
    BY <1>1, <1>2, <1>9, FaultType DEF RollBack
  <2>3. stage' \in [Call -> Stage] /\ outcome' \in [Call -> Outcome]
    BY <1>1, <1>9, AfterFailureFacts DEF RollBack, Asked
  <2> QED
    BY <1>1, <1>2, <1>9, <2>1, <2>2, <2>3 DEF RollBack, TypeOK, TxTypeOK
<1>10. CASE ReturnNil(c)
  BY <1>1, <1>2, <1>10 DEF ReturnNil, ReturnWith, Goto, TypeOK, TxTypeOK, Stage, Outcome
<1>11. CASE WakeUp(c)
  <2>1. attempt[c] + 1 \in 0..MaxAttempts
    BY <1>1, <1>2, <1>11, TxConstants DEF WakeUp, Asked
  <2> QED
    BY <1>1, <1>2, <1>11, <2>1 DEF WakeUp, Goto, TypeOK, TxTypeOK, Stage
<1> QED
  BY <1>3, <1>4, <1>5, <1>6, <1>7, <1>8, <1>9, <1>10, <1>11 DEF TxStep

\* The callback of Submit keeps the types.
LEMMA CallbackType ==
    ASSUME IInv, NEW c \in Call, Callback(c)
    PROVE  TypeOK'
<1> DEFINE p == ProcessOf[c]
           id == <<c, attempt[c]>>
<1>1. TypeOK /\ Asked(c) /\ p \in Process /\ stage[c] = "begun"
  BY TxConstants DEF IInv, Callback
<1>2. /\ request' = request
      /\ stage \in [Call -> Stage] /\ outcome \in [Call -> Outcome]
      /\ result \in [Call -> [id : Id \cup {NoOne}, replay : BOOLEAN]]
      /\ db \subseteq Row /\ tx \in [Process -> [open : BOOLEAN, rows : SUBSET Row]]
  BY <1>1 DEF TypeOK, TxTypeOK, Callback
<1>3. id \in Id /\ NewRows(c, id) \subseteq Row
  BY <1>1, NewRowsType DEF Asked
<1>4. \A rows \in SUBSET Row : OpenTx(rows) \in [open : BOOLEAN, rows : SUBSET Row]
  BY DEF OpenTx
<1>5. ASSUME NEW rows \in SUBSET Row, CallbackSucceeds(c, rows),
             result' \in [Call -> [id : Id \cup {NoOne}, replay : BOOLEAN]]
      PROVE  TypeOK'
  BY <1>1, <1>2, <1>4, <1>5 DEF CallbackSucceeds, Goto, TypeOK, TxTypeOK, Stage
<1>6. ASSUME NEW rows \in SUBSET Row, NEW o \in Outcome, CallbackFails(c, rows, o),
             result' = result, faults' \in 0..MaxFaults
      PROVE  TypeOK'
  BY <1>1, <1>2, <1>4, <1>6 DEF CallbackFails, Goto, TypeOK, TxTypeOK, Stage
<1>7. CASE Replay(c)
  <2>1. PICK row \in Existing(c) :
           /\ result' = [result EXCEPT ![c] = [id |-> row.id, replay |-> TRUE]]
           /\ CallbackSucceeds(c, {})
    BY <1>7 DEF Replay
  <2>2. row.id \in Id
    BY <1>2, <2>1 DEF Existing, Rows, Row
  <2>3. [id |-> row.id, replay |-> TRUE] \in [id : Id \cup {NoOne}, replay : BOOLEAN]
    BY <2>2
  <2> QED
    BY <1>2, <1>5, <2>1, <2>3
<1>8. CASE Create(c)
  <2>1. NewResult(c, id) \in [id : Id \cup {NoOne}, replay : BOOLEAN]
    BY <1>3 DEF NewResult
  <2>2. result' = [result EXCEPT ![c] = NewResult(c, id)] /\ CallbackSucceeds(c, NewRows(c, id))
    BY <1>8 DEF Create
  <2> QED
    BY <1>2, <1>3, <1>5, <2>1, <2>2
<1>9. CASE Conflict(c) \/ SnapshotMismatch(c)
  <2>1. /\ result' = result /\ faults' = faults
        /\ CallbackFails(c, {}, "refused") \/ CallbackFails(c, {}, "error")
    BY <1>9 DEF Conflict, SnapshotMismatch
  <2>2. {} \in SUBSET Row /\ "refused" \in Outcome /\ "error" \in Outcome
        /\ faults \in 0..MaxFaults
    BY <1>1 DEF Outcome, TypeOK, TxTypeOK
  <2> QED
    BY <1>6, <2>1, <2>2
<1>10. CASE StatementError(c)
  <2>1. PICK done \in SUBSET NewRows(c, id) :
           \/ CallbackFails(c, done, "error") /\ StatementFails(c)
           \/ CallbackFails(c, done, "busy") /\ Fault
    BY <1>10 DEF StatementError
  <2>2. faults' \in 0..MaxFaults /\ result' = result
    BY <1>1, <1>10, <2>1, StatementFailsType, FaultType DEF StatementError
  <2>3. done \in SUBSET Row /\ "error" \in Outcome /\ "busy" \in Outcome
    BY <1>3, <2>1 DEF Outcome
  <2> QED
    BY <1>6, <2>1, <2>2, <2>3
<1> QED
  BY <1>7, <1>8, <1>9, <1>10 DEF Callback

\* A new request, a cancelled context and a crash keep the types.
LEMMA OtherType ==
    ASSUME IInv,
           \/ \E c \in Call : HandleSubmit(c)
           \/ \E c \in Call : CancelContext(c) /\ UNCHANGED subVars
           \/ \E p \in Process : Crash(p) /\ UNCHANGED subVars
    PROVE  TypeOK'
<1>1. TypeOK
  BY DEF IInv
<1>2. ASSUME NEW c \in Call, HandleSubmit(c)
      PROVE  TypeOK'
  BY <1>1, <1>2, TxConstants DEF HandleSubmit, Enter, Goto, TypeOK, TxTypeOK, Stage
<1>3. ASSUME NEW c \in Call, CancelContext(c), UNCHANGED subVars
      PROVE  TypeOK'
  <2>1. faults' \in 0..MaxFaults
    BY <1>1, <1>3, FaultType DEF CancelContext
  <2>2. ctxDone' \in [Call -> BOOLEAN]
    BY <1>1, <1>3 DEF CancelContext, TypeOK, TxTypeOK
  <2> QED
    BY <1>1, <1>3, <2>1, <2>2 DEF CancelContext, subVars, TypeOK, TxTypeOK
<1>4. ASSUME NEW p \in Process, Crash(p), UNCHANGED subVars
      PROVE  TypeOK'
  <2>1. faults' \in 0..MaxFaults
    BY <1>1, <1>4, FaultType DEF Crash
  <2>2. /\ tx' \in [Process -> [open : BOOLEAN, rows : SUBSET Row]]
        /\ lock' \in Process \cup {NoOne} /\ db' \subseteq Row
    BY <1>1, <1>4, EndTxType DEF Crash
  <2>3. stage' \in [Call -> Stage] /\ outcome' \in [Call -> Outcome]
    BY <1>1, <1>4 DEF Crash, TypeOK, TxTypeOK, Stage, Outcome
  <2>4. conn' \in [Process -> Call \cup {NoOne}]
    BY <1>1, <1>4 DEF Crash, TypeOK, TxTypeOK
  <2> QED
    BY <1>1, <1>4, <2>1, <2>2, <2>3, <2>4 DEF Crash, subVars, TypeOK, TxTypeOK
<1> QED
  BY <1>2, <1>3, <1>4

-----------------------------------------------------------------------------
(* The connection and its transaction.                                     *)

Connections == (\A p \in Process : Pool(p)) /\ (\A c \in Call : Own(c))

\* A step of the call that has, or takes, the connection of its process.
LEMMA HolderStep ==
    ASSUME IInv, NEW c \in Call, NEW s \in Stage, NEW x \in {c, NoOne},
           NEW t \in [open : BOOLEAN, rows : SUBSET Row],
           stage' = [stage EXCEPT ![c] = s],
           conn[ProcessOf[c]] \in {c, NoOne},
           conn' = [conn EXCEPT ![ProcessOf[c]] = x],
           tx' = [tx EXCEPT ![ProcessOf[c]] = t],
           t.open <=> lock' = ProcessOf[c],
           \/ lock' = lock
           \/ lock = ProcessOf[c] /\ lock' = NoOne
           \/ lock = NoOne /\ lock' = ProcessOf[c],
           s \in Holding <=> x = c,
           t.open => x = c,
           s \in {"begun", "ran"} => t.open,
           s \in {"conn", "committed"} => ~t.open
    PROVE  Connections'
<1> DEFINE p == ProcessOf[c]
<1>1. /\ p \in Process /\ c # NoOne /\ NoOne \notin Process
      /\ \A d \in Call : ProcessOf[d] \in Process
  BY TxConstants
<1>2. /\ stage \in [Call -> Stage] /\ conn \in [Process -> Call \cup {NoOne}]
      /\ tx \in [Process -> [open : BOOLEAN, rows : SUBSET Row]]
  BY DEF IInv, TypeOK, TxTypeOK
<1>3. conn'[p] = x /\ tx'[p] = t /\ stage'[c] = s
  BY <1>1, <1>2
<1>4. \A q \in Process \ {p} :
         conn'[q] = conn[q] /\ tx'[q] = tx[q] /\ (lock' = q <=> lock = q)
  BY <1>1, <1>2
<1>5. ASSUME NEW q \in Process PROVE Pool(q)'
  <2>1. Pool(q)
    BY DEF IInv
  <2>2. CASE q = p
    BY <1>1, <1>3, <2>2 DEF Pool
  <2>3. CASE q # p
    BY <1>4, <2>1, <2>3 DEF Pool
  <2> QED
    BY <2>2, <2>3
<1>6. ASSUME NEW d \in Call PROVE Own(d)'
  <2>1. Own(d)
    BY DEF IInv
  <2>2. CASE d = c
    BY <1>3, <2>2 DEF Own
  <2>3. CASE d # c /\ ProcessOf[d] = p
    <3>1. stage'[d] = stage[d] /\ conn[p] # d /\ conn'[p] # d
      BY <1>1, <1>2, <1>3, <2>3, TxConstants
    <3> QED
      BY <2>1, <2>3, <3>1 DEF Own, Holding
  <2>4. CASE d # c /\ ProcessOf[d] # p
    <3>1. stage'[d] = stage[d]
      BY <1>2, <2>4
    <3> QED
      BY <1>1, <1>4, <2>1, <2>4, <3>1 DEF Own
  <2> QED
    BY <2>2, <2>3, <2>4
<1> QED
  BY <1>5, <1>6 DEF Connections

\* A step of a call without a connection.
LEMMA OutsiderStep ==
    ASSUME IInv, NEW c \in Call, NEW s \in Stage \ Holding, stage[c] \notin Holding,
           stage' = [stage EXCEPT ![c] = s],
           UNCHANGED <<conn, tx, lock>>
    PROVE  Connections'
<1>1. stage \in [Call -> Stage]
  BY DEF IInv, TypeOK, TxTypeOK
<1>2. ASSUME NEW q \in Process PROVE Pool(q)'
  BY DEF IInv, Pool
<1>3. ASSUME NEW d \in Call PROVE Own(d)'
  BY <1>1 DEF IInv, Own, Holding
<1> QED
  BY <1>2, <1>3 DEF Connections

\* Every step of the wrapper.
LEMMA TxStepConnections ==
    ASSUME IInv, NEW c \in Call, TxStep(c)
    PROVE  Connections'
<1> DEFINE p == ProcessOf[c]
           T == [open : BOOLEAN, rows : SUBSET Row]
<1>1. TypeOK /\ Asked(c) /\ Own(c) /\ Pool(p) /\ p \in Process /\ p # NoOne
  BY TxConstants DEF IInv
<1>2. /\ stage \in [Call -> Stage] /\ conn \in [Process -> Call \cup {NoOne}]
      /\ tx \in [Process -> T] /\ tx[p] \in T /\ lock \in Process \cup {NoOne}
  BY <1>1 DEF TypeOK, TxTypeOK
<1>3. NoTx \in T /\ ~NoTx.open /\ OpenTx({}) \in T /\ OpenTx({}).open
  BY DEF NoTx, OpenTx
<1>4. tx = [tx EXCEPT ![p] = tx[p]] /\ conn = [conn EXCEPT ![p] = conn[p]]
  BY <1>1, <1>2
<1>5. CASE AcquireConn(c)
  <2>1. /\ stage' = [stage EXCEPT ![c] = "conn"] /\ conn[p] = NoOne
        /\ conn' = [conn EXCEPT ![p] = c] /\ tx' = [tx EXCEPT ![p] = tx[p]] /\ lock' = lock
    BY <1>4, <1>5 DEF AcquireConn, Goto
  <2>2. ~tx[p].open /\ lock # p
    BY <1>1, <2>1 DEF Pool
  <2> QED
    BY <1>2, <2>1, <2>2, HolderStep DEF Stage, Holding
<1>6. CASE GiveUp(c)
  BY <1>6, OutsiderStep DEF GiveUp, ReturnWith, Goto, Stage, Holding
<1>7. CASE Begin(c)
  <2>1. conn[p] = c
    BY <1>1, <1>7 DEF Begin, Own, Holding
  <2>2. /\ stage' = [stage EXCEPT ![c] = "begun"] /\ conn' = [conn EXCEPT ![p] = c]
        /\ tx' = [tx EXCEPT ![p] = OpenTx({})] /\ lock = NoOne /\ lock' = p
    BY <1>4, <1>7, <2>1 DEF Begin, Goto
  <2> QED
    BY <1>3, <2>1, <2>2, HolderStep DEF Stage, Holding
<1>8. CASE BeginFails(c)
  <2>1. conn[p] = c /\ ~tx[p].open /\ lock # p
    BY <1>1, <1>8 DEF BeginFails, Own, Holding, Pool
  <2>2. /\ conn' = [conn EXCEPT ![p] = NoOne] /\ lock' = lock
        /\ tx' = [tx EXCEPT ![p] = tx[p]]
    BY <1>4, <1>8 DEF BeginFails
  <2>3. PICK s \in {"backoff", "done"} : stage' = [stage EXCEPT ![c] = s]
    BY <1>1, <1>8, AfterFailureFacts DEF BeginFails
  <2>4. s \in Stage /\ s \notin Holding /\ s \notin {"begun", "ran"}
    BY <2>3 DEF Stage, Holding
  <2>5. c # NoOne
    BY TxConstants
  <2> QED
    BY <1>2, <2>1, <2>2, <2>3, <2>4, <2>5, HolderStep DEF Holding
<1>9. CASE Commit(c)
  <2>1. conn[p] = c /\ lock = p
    BY <1>1, <1>9 DEF Commit, Own, Holding, Pool
  <2>2. /\ stage' = [stage EXCEPT ![c] = "committed"] /\ conn' = [conn EXCEPT ![p] = c]
        /\ tx' = [tx EXCEPT ![p] = NoTx] /\ lock' = NoOne
    BY <1>4, <1>9, <2>1 DEF Commit, Goto, EndTx
  <2> QED
    BY <1>1, <1>3, <2>1, <2>2, HolderStep DEF Stage, Holding
<1>10. CASE CommitFails(c)
  <2>1. conn[p] = c /\ lock = p /\ tx[p].open
    BY <1>1, <1>10 DEF CommitFails, Own, Holding, Pool
  <2>2. stage' = [stage EXCEPT ![c] = "cleanup"] /\ conn' = [conn EXCEPT ![p] = c]
    BY <1>4, <1>10, <2>1 DEF CommitFails, Goto
  <2>3. \/ tx' = [tx EXCEPT ![p] = tx[p]] /\ lock' = lock
        \/ tx' = [tx EXCEPT ![p] = NoTx] /\ lock' = NoOne
    BY <1>4, <1>10 DEF CommitFails, EndTx
  <2> QED
    BY <1>1, <1>2, <1>3, <2>1, <2>2, <2>3, HolderStep DEF Stage, Holding
<1>11. CASE RollBack(c)
  <2>1. conn[p] = c /\ (tx[p].open <=> lock = p)
    BY <1>1, <1>11 DEF RollBack, Own, Holding, Pool
  <2>2. PICK s \in {"backoff", "done"} : stage' = [stage EXCEPT ![c] = s]
    BY <1>1, <1>11, AfterFailureFacts DEF RollBack, Asked
  <2>3. /\ conn' = [conn EXCEPT ![p] = NoOne] /\ tx' = [tx EXCEPT ![p] = NoTx]
        /\ lock' = IF lock = p THEN NoOne ELSE lock
    BY <1>11, <2>1 DEF RollBack, EndTx, PoisonConn
  <2>4. s \in Stage /\ s \notin Holding /\ s \notin {"begun", "ran"} /\ c # NoOne
    BY <2>2, TxConstants DEF Stage, Holding
  <2> QED
    BY <1>1, <1>3, <2>1, <2>2, <2>3, <2>4, HolderStep DEF Holding
<1>12. CASE ReturnNil(c)
  <2>1. conn[p] = c /\ ~tx[p].open /\ lock # p /\ c # NoOne
    BY <1>1, <1>12, TxConstants DEF ReturnNil, Own, Holding, Pool
  <2>2. /\ stage' = [stage EXCEPT ![c] = "done"] /\ conn' = [conn EXCEPT ![p] = NoOne]
        /\ tx' = [tx EXCEPT ![p] = tx[p]] /\ lock' = lock
    BY <1>4, <1>12 DEF ReturnNil, ReturnWith, Goto
  <2> QED
    BY <1>2, <2>1, <2>2, HolderStep DEF Stage, Holding
<1>13. CASE WakeUp(c)
  BY <1>13, OutsiderStep DEF WakeUp, Goto, Stage, Holding
<1> QED
  BY <1>5, <1>6, <1>7, <1>8, <1>9, <1>10, <1>11, <1>12, <1>13 DEF TxStep

\* The callback runs on the connection, in its transaction.
LEMMA CallbackConnections ==
    ASSUME IInv, NEW c \in Call, Callback(c)
    PROVE  Connections'
<1> DEFINE p == ProcessOf[c]
           id == <<c, attempt[c]>>
<1>1. TypeOK /\ Asked(c) /\ Own(c) /\ Pool(p) /\ p \in Process /\ stage[c] = "begun"
  BY TxConstants DEF IInv, Callback
<1>2. conn[p] = c /\ lock = p /\ tx[p].open
  BY <1>1 DEF Own, Pool, Holding
<1>3. NewRows(c, id) \subseteq Row
  BY <1>1, NewRowsType DEF Asked
<1>4. PICK rows \in SUBSET Row : \/ CallbackSucceeds(c, rows)
                                 \/ \E o \in Outcome : CallbackFails(c, rows, o)
  BY <1>3 DEF Callback, Replay, Conflict, Create, SnapshotMismatch, StatementError, Outcome
<1>5. OpenTx(rows) \in [open : BOOLEAN, rows : SUBSET Row] /\ OpenTx(rows).open
  BY DEF OpenTx
<1>6. PICK s \in {"ran", "cleanup"} : stage' = [stage EXCEPT ![c] = s]
  BY <1>4 DEF CallbackSucceeds, CallbackFails, Goto
<1>7. tx' = [tx EXCEPT ![p] = OpenTx(rows)] /\ lock' = lock /\ conn' = conn
  BY <1>4 DEF CallbackSucceeds, CallbackFails
<1>8. conn' = [conn EXCEPT ![p] = c]
  BY <1>1, <1>2, <1>7 DEF TypeOK, TxTypeOK
<1> QED
  BY <1>2, <1>5, <1>6, <1>7, <1>8, HolderStep DEF Stage, Holding

\* New requests, cancelled contexts, crashes.
LEMMA OtherConnections ==
    ASSUME IInv,
           \/ \E c \in Call : HandleSubmit(c)
           \/ \E c \in Call : CancelContext(c)
           \/ \E p \in Process : Crash(p)
    PROVE  Connections'
<1>1. /\ stage \in [Call -> Stage] /\ conn \in [Process -> Call \cup {NoOne}]
      /\ tx \in [Process -> [open : BOOLEAN, rows : SUBSET Row]]
  BY DEF IInv, TypeOK, TxTypeOK
<1>2. ASSUME NEW c \in Call, HandleSubmit(c) PROVE Connections'
  BY <1>2, OutsiderStep DEF HandleSubmit, Enter, Goto, Stage, Holding
<1>3. ASSUME NEW c \in Call, CancelContext(c) PROVE Connections'
  BY <1>3 DEF IInv, CancelContext, Connections, Pool, Own
<1>4. ASSUME NEW p \in Process, Crash(p) PROVE Connections'
  <2>1. /\ stage' = [c \in Call |-> IF Victim(p, c) THEN "done" ELSE stage[c]]
        /\ conn' = [conn EXCEPT ![p] = NoOne]
        /\ tx' = [tx EXCEPT ![p] = NoTx]
        /\ lock' = IF lock = p THEN NoOne ELSE lock
    BY <1>4 DEF Crash, PoisonConn
  <2>2. ~NoTx.open /\ NoOne \notin Process /\ NoOne \notin Call
    BY TxConstants DEF NoTx
  <2>3. ASSUME NEW q \in Process PROVE Pool(q)'
    BY <1>1, <2>1, <2>2 DEF IInv, Pool
  <2>4. ASSUME NEW d \in Call PROVE Own(d)'
    <3>1. Own(d) /\ ProcessOf[d] \in Process
      BY TxConstants DEF IInv
    <3>2. CASE ProcessOf[d] = p
      <4>1. stage'[d] \in {"idle", "done"}
        BY <2>1, <3>2 DEF Victim, Running
      <4>2. conn'[p] = NoOne /\ d # NoOne
        BY <1>1, <2>1, <2>2
      <4> QED
        BY <3>2, <4>1, <4>2 DEF Own, Holding
    <3>3. CASE ProcessOf[d] # p
      <4>1. /\ stage'[d] = stage[d] /\ conn'[ProcessOf[d]] = conn[ProcessOf[d]]
            /\ tx'[ProcessOf[d]] = tx[ProcessOf[d]]
        BY <1>1, <2>1, <3>1, <3>3 DEF Victim
      <4> QED
        BY <3>1, <4>1 DEF Own
    <3> QED
      BY <3>2, <3>3
  <2> QED
    BY <2>3, <2>4 DEF Connections
<1> QED
  BY <1>2, <1>3, <1>4

-----------------------------------------------------------------------------
(* The database and what the calls say about it.                           *)

Database == OneSessionPerKey /\ IdsByMaker /\ SnapshotsUnique /\ SessionsStored

CallKnows(c) == Asked(c) /\ Fate(c) /\ Told(c)

\* Two calls are not inside their transactions at the same time.
LEMMA OneWriter ==
    ASSUME IInv, NEW c \in Call, NEW d \in Call,
           tx[ProcessOf[c]].open, conn[ProcessOf[c]] = c, stage[d] \in {"begun", "ran"}
    PROVE  d = c
<1>1. Own(d) /\ Pool(ProcessOf[c]) /\ Pool(ProcessOf[d])
  BY TxConstants DEF IInv
<1> QED
  BY <1>1 DEF Own, Pool, Holding

\* A call that does not move keeps what it knows, if the database stays as it
\* is or grows by rows of others while it is not inside its transaction.
LEMMA OthersKeep ==
    ASSUME IInv, NEW d \in Call,
           stage'[d] = stage[d], outcome'[d] = outcome[d], attempt'[d] = attempt[d],
           request'[d] = request[d], result'[d] = result[d],
           stage[d] \in Holding => tx'[ProcessOf[d]] = tx[ProcessOf[d]],
           \/ db' = db
           \/ /\ stage[d] # "ran" /\ db \subseteq db'
              /\ \A row \in db' \ db : row.table = "sessions" => row.by # d
    PROVE  CallKnows(d)'
<1>1. Asked(d) /\ Fate(d) /\ Told(d)
  BY DEF IInv
<1>2. Asked(d)'
  BY <1>1 DEF Asked
<1>3. Fate(d)'
  <2>1. Wrote(d)' => Wrote(d)
    BY DEF Wrote, Sessions, Rows
  <2> QED
    BY <1>1, <2>1 DEF Fate, Holding
<1>4. Existing(d) \subseteq Existing(d)'
  BY DEF Existing, Rows
<1>5. \A row : SameBody(d, row)' <=> SameBody(d, row)
  BY DEF SameBody
<1>6. Named(d) => Named(d)'
  BY <1>4, <1>5 DEF Named
<1>7. Taken(d) => Taken(d)'
  BY <1>4, <1>5 DEF Taken
<1>8. ASSUME stage[d] = "ran" PROVE Ready(d)'
  <2>1. db' = db /\ tx'[ProcessOf[d]] = tx[ProcessOf[d]]
    BY <1>8 DEF Holding
  <2>2. Existing(d)' = Existing(d) /\ StoredSnapshot(d)' = StoredSnapshot(d)
    BY <2>1 DEF Existing, StoredSnapshot, Rows
  <2>3. NewRows(d, <<d, attempt[d]>>)' = NewRows(d, <<d, attempt[d]>>)
    BY <2>2 DEF NewRows, SessionRow, SnapshotRow, RoleRunsRow
  <2>4. NewResult(d, <<d, attempt[d]>>)' = NewResult(d, <<d, attempt[d]>>)
    BY DEF NewResult
  <2>5. Ready(d)
    BY <1>1, <1>8 DEF Told
  <2> QED
    BY <1>5, <2>1, <2>2, <2>3, <2>4, <2>5 DEF Ready
<1>9. Told(d)'
  BY <1>1, <1>6, <1>7, <1>8 DEF Told
<1> QED
  BY <1>2, <1>3, <1>9 DEF CallKnows

\* The rows of a new submission, table by table.
LEMMA NewRowsByTable ==
    ASSUME NEW c \in Call, NEW id, NEW row \in NewRows(c, id)
    PROVE  /\ row.table = "sessions" => row = SessionRow(c, id)
           /\ row.table = "snapshots" => row = SnapshotRow(c) /\ StoredSnapshot(c) = {}
           /\ SessionRow(c, id) \in NewRows(c, id) /\ SessionRow(c, id).table = "sessions"
           /\ RoleRunsRow(id) \in NewRows(c, id)
BY DEF NewRows, SessionRow, SnapshotRow, RoleRunsRow

\* A transaction that becomes durable leaves the database whole, and its call
\* can name the session.
LEMMA CommitKeepsDatabase ==
    ASSUME IInv, NEW c \in Call, stage[c] = "ran",
           db' = db \cup tx[ProcessOf[c]].rows, request' = request, result' = result,
           attempt' = attempt
    PROVE  /\ Database' /\ Named(c)'
           /\ \A row \in db' \ db : row.table = "sessions" => row.by = c
<1> DEFINE id == <<c, attempt[c]>>
<1>1. Ready(c) /\ Fate(c) /\ Asked(c) /\ Database /\ TypeOK
  BY DEF IInv, Told, Database
<1>2. ~Wrote(c)
  BY <1>1 DEF Fate
<1>3. CASE tx[ProcessOf[c]].rows = {} /\ Existing(c) # {}
  <2>1. db' = db
    BY <1>3
  <2>2. PICK row \in Existing(c) :
           SameBody(c, row) /\ result[c] = [id |-> row.id, replay |-> TRUE]
    BY <1>1, <1>3 DEF Ready
  <2>3. row.by # c
    BY <1>2, <2>2 DEF Existing, Wrote, Sessions
  <2>4. row \in Existing(c)' /\ SameBody(c, row)'
    BY <2>1, <2>2 DEF Existing, SameBody, Rows
  <2>5. result'[c].id = row.id /\ result'[c].replay = TRUE
    BY <2>2
  <2>6. Named(c)'
    BY <2>3, <2>4, <2>5 DEF Named
  <2>7. Database'
    BY <1>1, <2>1 DEF Database, OneSessionPerKey, IdsByMaker, SnapshotsUnique, SessionsStored,
       Stored, Sessions, Snapshots, Rows, RoleRunsRow
  <2> QED
    BY <2>1, <2>6, <2>7
<1>4. CASE /\ tx[ProcessOf[c]].rows = NewRows(c, id)
           /\ Existing(c) = {}
           /\ result[c] = NewResult(c, id)
  <2>0. PICK new : new = SessionRow(c, id)
    OBVIOUS
  <2>1. db' = db \cup NewRows(c, id)
    BY <1>4
  <2>2. /\ new.key = request[c].key /\ new.body = request[c].body /\ new.by = c
        /\ new.id = id /\ new.table = "sessions" /\ new \in NewRows(c, id)
        /\ id[1] = c
    BY <2>0 DEF SessionRow, NewRows
  <2>3. Sessions' = Sessions \cup {new}
    BY <2>1, <2>2, <2>0, NewRowsByTable DEF Sessions, Rows
  <2>4. Snapshots' = Snapshots \cup IF StoredSnapshot(c) = {} THEN {SnapshotRow(c)} ELSE {}
    <3>1. SnapshotRow(c).table = "snapshots"
      BY DEF SnapshotRow
    <3>2. StoredSnapshot(c) = {} => SnapshotRow(c) \in NewRows(c, id)
      BY DEF NewRows
    <3> QED
      BY <2>1, <3>1, <3>2, NewRowsByTable DEF Snapshots, Rows
  <2>5. \A row \in Sessions : row.key # request[c].key
    BY <1>4 DEF Existing, Sessions
  <2>6. OneSessionPerKey'
    <3>1. \A row, other \in Sessions : row.key = other.key => row = other
      BY <1>1 DEF Database, OneSessionPerKey, Sessions
    <3>2. \A row, other \in Sessions' : row.key = other.key => row = other
      BY <2>2, <2>3, <2>5, <3>1
    <3> QED
      BY <3>2 DEF OneSessionPerKey, Sessions
  <2>7. IdsByMaker'
    BY <1>1, <2>2, <2>3 DEF Database, IdsByMaker
  <2>8. SnapshotRow(c).id = request[c].body
    BY DEF SnapshotRow
  <2>9. SnapshotsUnique'
    <3>1. CASE StoredSnapshot(c) = {}
      <4>1. \A s \in Snapshots : s.id # request[c].body
        BY <3>1 DEF StoredSnapshot, Snapshots
      <4> QED
        BY <1>1, <2>4, <2>8, <3>1, <4>1 DEF Database, SnapshotsUnique
    <3>2. CASE StoredSnapshot(c) # {}
      BY <1>1, <2>4, <3>2 DEF Database, SnapshotsUnique
    <3> QED
      BY <3>1, <3>2
  <2>10. \E snap \in Snapshots' : snap.id = request[c].body
    BY <2>4, <2>8 DEF StoredSnapshot, Snapshots
  <2>11. SessionsStored'
    <3>1. RoleRunsRow(id) \in db'
      BY <2>1 DEF NewRows
    <3>2. Stored(new)'
      BY <2>2, <2>10, <3>1 DEF Stored, RoleRunsRow
    <3>3. ASSUME NEW row \in Sessions PROVE Stored(row)'
      <4>1. Stored(row)
        BY <1>1 DEF Database, SessionsStored
      <4> QED
        BY <2>1, <2>4, <4>1 DEF Stored, RoleRunsRow
    <3> QED
      BY <2>3, <3>2, <3>3 DEF SessionsStored
  <2>12. Named(c)'
    <3>1. new \in Existing(c)'
      BY <2>2, <2>3 DEF Existing, Sessions
    <3>2. SameBody(c, new)'
      BY <2>2 DEF SameBody
    <3>3. result'[c].id = id /\ result'[c].replay = FALSE
      BY <1>4 DEF NewResult
    <3> QED
      BY <2>2, <3>1, <3>2, <3>3 DEF Named
  <2>13. \A row \in db' \ db : row.table = "sessions" => row.by = c
    BY <2>1, <2>2, <2>0, NewRowsByTable
  <2> QED
    BY <2>6, <2>7, <2>9, <2>11, <2>12, <2>13 DEF Database
<1> QED
  BY <1>1, <1>3, <1>4 DEF Ready

\* Nothing becomes durable.
LEMMA QuietDatabase ==
    ASSUME IInv, db' = db
    PROVE  Database'
BY DEF IInv, Database, OneSessionPerKey, IdsByMaker, SnapshotsUnique, SessionsStored,
   Stored, Sessions, Snapshots, Rows, RoleRunsRow

\* The step of a call leaves the others alone.
LEMMA StepLeavesOthers ==
    ASSUME IInv, NEW c \in Call, TxStep(c) \/ Callback(c), NEW d \in Call, d # c
    PROVE  /\ stage'[d] = stage[d] /\ outcome'[d] = outcome[d] /\ attempt'[d] = attempt[d]
           /\ stage[d] \in Holding => tx'[ProcessOf[d]] = tx[ProcessOf[d]]
<1>1. /\ stage \in [Call -> Stage] /\ outcome \in [Call -> Outcome]
      /\ attempt \in [Call -> 0..MaxAttempts] /\ TypeOK /\ Asked(c)
      /\ tx \in [Process -> [open : BOOLEAN, rows : SUBSET Row]]
  BY DEF IInv, TypeOK, TxTypeOK
<1>2. stage[d] \in Holding /\ stage[c] \in Holding => ProcessOf[d] # ProcessOf[c]
  BY DEF IInv, Own
<1>3. ProcessOf[c] \in Process /\ ProcessOf[d] \in Process
  BY TxConstants
<1>4. CASE AcquireConn(c) \/ GiveUp(c) \/ WakeUp(c)
  BY <1>1, <1>4 DEF AcquireConn, GiveUp, WakeUp, ReturnWith, Goto
<1>5. CASE Begin(c) \/ ReturnNil(c)
  BY <1>1, <1>2, <1>3, <1>5 DEF Begin, ReturnNil, ReturnWith, Goto, Holding
<1>6. CASE BeginFails(c)
  <2>1. stage'[d] = stage[d] /\ outcome'[d] = outcome[d]
    BY <1>1, <1>6, AfterFailureFacts DEF BeginFails
  <2> QED
    BY <1>6, <2>1 DEF BeginFails
<1>7. CASE Commit(c) \/ CommitFails(c)
  <2>1. /\ stage'[d] = stage[d] /\ outcome'[d] = outcome[d] /\ attempt' = attempt
        /\ stage[c] = "ran"
    BY <1>1, <1>7 DEF Commit, CommitFails, Goto
  <2>2. tx' = tx \/ tx' = [tx EXCEPT ![ProcessOf[c]] = NoTx]
    BY <1>7 DEF Commit, CommitFails, EndTx
  <2> QED
    BY <1>1, <1>2, <1>3, <2>1, <2>2 DEF Holding
<1>8. CASE RollBack(c)
  <2>1. stage'[d] = stage[d] /\ outcome'[d] = outcome[d]
    BY <1>1, <1>8, AfterFailureFacts DEF RollBack, Asked
  <2>2. tx' = [tx EXCEPT ![ProcessOf[c]] = NoTx] /\ attempt' = attempt /\ stage[c] = "cleanup"
    BY <1>8 DEF RollBack, EndTx, PoisonConn
  <2> QED
    BY <1>1, <1>2, <1>3, <2>1, <2>2 DEF Holding
<1>9. CASE Callback(c)
  <2>1. PICK rows : \/ CallbackSucceeds(c, rows)
                    \/ \E o \in Outcome : CallbackFails(c, rows, o)
    BY <1>9 DEF Callback, Replay, Conflict, Create, SnapshotMismatch, StatementError, Outcome
  <2> QED
    BY <1>1, <1>2, <1>3, <2>1 DEF CallbackSucceeds, CallbackFails, Goto, Holding
<1> QED
  BY <1>4, <1>5, <1>6, <1>7, <1>8, <1>9 DEF TxStep

\* Every step of the wrapper.
LEMMA TxStepCalls ==
    ASSUME IInv, NEW c \in Call, TxStep(c), UNCHANGED subVars
    PROVE  Database' /\ \A d \in Call : CallKnows(d)'
<1> DEFINE p == ProcessOf[c]
<1>1. TypeOK /\ Asked(c) /\ Own(c) /\ Pool(p) /\ Fate(c) /\ Told(c) /\ p \in Process
  BY TxConstants DEF IInv
<1>2. /\ request' = request /\ result' = result
      /\ stage \in [Call -> Stage] /\ outcome \in [Call -> Outcome]
      /\ attempt \in [Call -> 0..MaxAttempts]
      /\ tx \in [Process -> [open : BOOLEAN, rows : SUBSET Row]]
      /\ lock \in Process \cup {NoOne}
  BY <1>1 DEF TypeOK, TxTypeOK, subVars
<1>3. ASSUME db' = db, NEW d \in Call, d # c PROVE CallKnows(d)'
  BY <1>2, <1>3, StepLeavesOthers, OthersKeep
<1>4. ASSUME db' = db, CallKnows(c)' PROVE Database' /\ \A d \in Call : CallKnows(d)'
  BY <1>3, <1>4, QuietDatabase
<1>5. ASSUME db' = db, stage'[c] \notin {"ran", "committed"},
             stage'[c] = "done" => outcome'[c] # "nil",
             stage'[c] \in {"cleanup", "done"} /\ outcome'[c] = "refused" => Taken(c)
      PROVE  Told(c)'
  <2>1. Taken(c) => Taken(c)'
    BY <1>2, <1>5 DEF Taken, Existing, SameBody, Rows
  <2> QED
    BY <1>5, <2>1 DEF Told
<1>6. ASSUME db' = db, ~Wrote(c) PROVE Fate(c)'
  BY <1>6 DEF Fate, Wrote, Sessions, Rows
<1>7. stage[c] \notin {"committed", "cleanup", "done"} => ~Wrote(c)
  BY <1>1 DEF Fate
<1>8. CASE AcquireConn(c) \/ Begin(c) \/ WakeUp(c)
  <2>1. /\ db' = db /\ outcome' = outcome
        /\ stage[c] \in {"attempt", "conn", "backoff"}
        /\ stage'[c] \in {"attempt", "conn", "begun"}
    BY <1>2, <1>8 DEF AcquireConn, Begin, WakeUp, Goto
  <2>2. attempt'[c] \in 1..MaxAttempts
    BY <1>1, <1>2, <1>8, TxConstants DEF AcquireConn, Begin, WakeUp, Asked
  <2>3. Asked(c)'
    BY <1>1, <1>2, <2>1, <2>2 DEF Asked
  <2> QED
    BY <1>4, <1>5, <1>6, <1>7, <2>1, <2>3 DEF CallKnows
<1>9. CASE GiveUp(c)
  <2>1. /\ db' = db /\ attempt' = attempt /\ stage[c] \in {"attempt", "backoff"}
        /\ stage'[c] = "done" /\ outcome'[c] = "error"
    BY <1>2, <1>9 DEF GiveUp, ReturnWith, Goto
  <2>2. Asked(c)'
    BY <1>1, <1>2, <2>1 DEF Asked
  <2> QED
    BY <1>4, <1>5, <1>6, <1>7, <2>1, <2>2 DEF CallKnows
<1>10. CASE BeginFails(c)
  <2>1. db' = db /\ attempt' = attempt /\ stage[c] = "conn"
    BY <1>10 DEF BeginFails
  <2>2. \/ /\ stage'[c] = "backoff" /\ outcome'[c] = outcome[c] /\ attempt[c] < MaxAttempts
        \/ stage'[c] = "done" /\ outcome'[c] \in {"error", "unavailable"}
    BY <1>1, <1>2, <1>10, AfterFailureFacts DEF BeginFails
  <2>3. Asked(c)'
    BY <1>1, <1>2, <2>1, <2>2 DEF Asked
  <2> QED
    BY <1>4, <1>5, <1>6, <1>7, <2>1, <2>2, <2>3 DEF CallKnows
<1>11. CASE stage[c] = "ran" /\ db' = db \cup tx[p].rows /\ attempt' = attempt
            /\ ~tx'[p].open
            /\ \/ stage'[c] = "committed" /\ outcome' = outcome
               \/ stage'[c] = "cleanup" /\ outcome'[c] = "error"
  <2>1. Database' /\ Named(c)' /\ \A row \in db' \ db : row.table = "sessions" => row.by = c
    BY <1>2, <1>11, CommitKeepsDatabase
  <2>2. tx[p].open /\ conn[p] = c
    BY <1>1, <1>11 DEF Own, Holding
  <2>3. ASSUME NEW d \in Call, d # c PROVE CallKnows(d)'
    <3>1. stage[d] # "ran"
      BY <2>2, <2>3, OneWriter
    <3>2. db \subseteq db' /\ \A row \in db' \ db : row.table = "sessions" => row.by # d
      BY <1>11, <2>1, <2>3
    <3> QED
      BY <1>2, <2>3, <3>1, <3>2, StepLeavesOthers, OthersKeep
  <2>4. CallKnows(c)'
    BY <1>1, <1>2, <1>11, <2>1 DEF CallKnows, Asked, Fate, Told
  <2> QED
    BY <2>1, <2>3, <2>4
<1>12. CASE Commit(c)
  <2>1. tx'[p] = NoTx /\ ~NoTx.open
    BY <1>1, <1>2, <1>12 DEF Commit, EndTx, NoTx
  <2> QED
    BY <1>2, <1>11, <1>12, <2>1 DEF Commit, EndTx, Goto
<1>13. CASE CommitFails(c) /\ db' = db
  <2>1. /\ attempt' = attempt /\ stage[c] = "ran" /\ stage'[c] = "cleanup"
        /\ outcome'[c] \in {"busy", "error"}
    BY <1>2, <1>13 DEF CommitFails, CommitError, Goto
  <2>2. Asked(c)'
    BY <1>1, <1>2, <2>1 DEF Asked
  <2> QED
    BY <1>4, <1>5, <1>6, <1>7, <1>13, <2>1, <2>2 DEF CallKnows
<1>14. CASE CommitFails(c) /\ db' # db
  <2>1. /\ EndTx(p, TRUE) /\ attempt' = attempt /\ stage[c] = "ran"
        /\ stage'[c] = "cleanup" /\ outcome'[c] = "error"
    BY <1>2, <1>14 DEF CommitFails, CommitError, Goto
  <2>2. tx'[p] = NoTx /\ ~NoTx.open /\ db' = db \cup tx[p].rows
    BY <1>1, <1>2, <2>1 DEF EndTx, NoTx
  <2> QED
    BY <1>11, <2>1, <2>2
<1>15. CASE RollBack(c)
  <2>1. db' = db /\ attempt' = attempt /\ stage[c] = "cleanup"
    BY <1>15 DEF RollBack, EndTx, PoisonConn
  <2>2. \/ /\ stage'[c] = "backoff" /\ outcome[c] = "busy" /\ outcome'[c] = "busy"
           /\ attempt[c] < MaxAttempts
        \/ /\ stage'[c] = "done" /\ outcome'[c] \in {"refused", "error", "unavailable"}
           /\ outcome'[c] = "unavailable" <=> outcome[c] = "busy"
           /\ outcome'[c] = "refused" <=> outcome[c] = "refused"
    BY <1>1, <1>2, <1>15, AfterFailureFacts DEF RollBack, Asked
  <2>3. Asked(c)'
    BY <1>1, <1>2, <2>1, <2>2 DEF Asked
  <2>4. Told(c)'
    BY <1>1, <1>5, <2>1, <2>2 DEF Told
  <2>5. Fate(c)'
    <3>1. CASE ~Wrote(c)
      BY <1>6, <2>1, <3>1
    <3>2. CASE Wrote(c)
      <4>1. outcome[c] = "error"
        BY <1>1, <2>1, <3>2 DEF Fate
      <4>2. stage'[c] = "done" /\ outcome'[c] = "error"
        BY <1>1, <2>1, <2>2, <4>1
      <4> QED
        BY <4>2 DEF Fate
    <3> QED
      BY <3>1, <3>2
  <2> QED
    BY <1>4, <2>1, <2>3, <2>4, <2>5 DEF CallKnows
<1>16. CASE ReturnNil(c)
  <2>1. /\ db' = db /\ attempt' = attempt /\ stage[c] = "committed"
        /\ stage'[c] = "done" /\ outcome'[c] = "nil"
    BY <1>2, <1>16 DEF ReturnNil, ReturnWith, Goto
  <2>2. Named(c)'
    <3>1. Named(c)
      BY <1>1, <2>1 DEF Told
    <3> QED
      BY <1>2, <2>1, <3>1 DEF Named, Existing, SameBody, Rows
  <2>3. CallKnows(c)'
    BY <1>1, <1>2, <2>1, <2>2 DEF CallKnows, Asked, Fate, Told
  <2> QED
    BY <1>4, <2>1, <2>3
<1> QED
  BY <1>8, <1>9, <1>10, <1>12, <1>13, <1>14, <1>15, <1>16 DEF TxStep

\* The callback: what it assigned and wrote fits the database it saw.
LEMMA CallbackCalls ==
    ASSUME IInv, NEW c \in Call, Callback(c)
    PROVE  Database' /\ \A d \in Call : CallKnows(d)'
<1> DEFINE p == ProcessOf[c]
           id == <<c, attempt[c]>>
<1>1. TypeOK /\ Asked(c) /\ Fate(c) /\ Told(c) /\ p \in Process /\ stage[c] = "begun"
  BY TxConstants DEF IInv, Callback
<1>2. /\ request' = request
      /\ stage \in [Call -> Stage] /\ outcome \in [Call -> Outcome]
      /\ result \in [Call -> [id : Id \cup {NoOne}, replay : BOOLEAN]]
      /\ tx \in [Process -> [open : BOOLEAN, rows : SUBSET Row]]
  BY <1>1 DEF TypeOK, TxTypeOK, Callback
<1>3. db' = db /\ attempt' = attempt /\ ~Wrote(c)
  BY <1>1 DEF Callback, Replay, Conflict, Create, SnapshotMismatch, StatementError,
     CallbackSucceeds, CallbackFails, Fate
<1>4. /\ Existing(c)' = Existing(c) /\ NewRows(c, id)' = NewRows(c, id)
      /\ NewResult(c, id)' = NewResult(c, id)
      /\ \A row : SameBody(c, row)' <=> SameBody(c, row)
  BY <1>2, <1>3 DEF Existing, NewRows, NewResult, SameBody, StoredSnapshot, Rows,
     SessionRow, SnapshotRow, RoleRunsRow
<1>5. \A rows : OpenTx(rows).rows = rows
  BY DEF OpenTx
<1>6. ASSUME NEW d \in Call, d # c PROVE CallKnows(d)'
  <2>1. result'[d] = result[d]
    BY <1>2, <1>6 DEF Callback, Replay, Conflict, Create, SnapshotMismatch, StatementError
  <2> QED
    BY <1>2, <1>3, <1>6, <2>1, StepLeavesOthers, OthersKeep
<1>7. Fate(c)'
  BY <1>3 DEF Fate, Wrote, Sessions, Rows
<1>8. ASSUME Replay(c) PROVE Asked(c)' /\ Told(c)'
  <2>1. PICK row \in Existing(c) :
           /\ SameBody(c, row)
           /\ result' = [result EXCEPT ![c] = [id |-> row.id, replay |-> TRUE]]
           /\ CallbackSucceeds(c, {})
    BY <1>8 DEF Replay
  <2>2. stage'[c] = "ran" /\ outcome' = outcome /\ tx'[p].rows = {}
    BY <1>1, <1>2, <1>5, <2>1 DEF CallbackSucceeds, Goto
  <2>3. result'[c] = [id |-> row.id, replay |-> TRUE]
    BY <1>2, <2>1
  <2>4. Ready(c)'
    BY <1>4, <2>1, <2>2, <2>3 DEF Ready
  <2> QED
    BY <1>1, <1>2, <1>3, <2>2, <2>4 DEF Asked, Told
<1>9. ASSUME Create(c) PROVE Asked(c)' /\ Told(c)'
  <2>1. /\ Existing(c) = {} /\ result' = [result EXCEPT ![c] = NewResult(c, id)]
        /\ CallbackSucceeds(c, NewRows(c, id))
    BY <1>9 DEF Create
  <2>2. stage'[c] = "ran" /\ outcome' = outcome /\ tx'[p].rows = NewRows(c, id)
    BY <1>1, <1>2, <1>5, <2>1 DEF CallbackSucceeds, Goto
  <2>3. result'[c] = NewResult(c, id)
    BY <1>2, <2>1
  <2>4. Ready(c)'
    BY <1>3, <1>4, <2>1, <2>2, <2>3 DEF Ready
  <2> QED
    BY <1>1, <1>2, <1>3, <2>2, <2>4 DEF Asked, Told
<1>10. ASSUME Conflict(c) \/ SnapshotMismatch(c) \/ StatementError(c)
       PROVE  Asked(c)' /\ Told(c)'
  <2>1. \/ Taken(c) /\ \E rows : CallbackFails(c, rows, "refused")
        \/ \E rows : CallbackFails(c, rows, "error") \/ CallbackFails(c, rows, "busy")
    BY <1>10 DEF Conflict, SnapshotMismatch, StatementError, Taken
  <2>2. /\ stage'[c] = "cleanup"
        /\ \/ outcome'[c] \in {"error", "busy"}
           \/ outcome'[c] = "refused" /\ Taken(c)
    BY <1>1, <1>2, <2>1 DEF CallbackFails, Goto
  <2>3. Taken(c) => Taken(c)'
    BY <1>4 DEF Taken
  <2> QED
    BY <1>1, <1>2, <1>3, <2>2, <2>3 DEF Asked, Told
<1>11. Asked(c)' /\ Told(c)'
  BY <1>8, <1>9, <1>10 DEF Callback
<1> QED
  BY <1>3, <1>6, <1>7, <1>11, QuietDatabase DEF CallKnows

\* New requests, cancelled contexts, crashes.
LEMMA OtherCalls ==
    ASSUME IInv,
           \/ \E c \in Call : HandleSubmit(c)
           \/ \E c \in Call : CancelContext(c) /\ UNCHANGED subVars
           \/ \E p \in Process : Crash(p) /\ UNCHANGED subVars
    PROVE  Database' /\ \A d \in Call : CallKnows(d)'
<1>1. /\ stage \in [Call -> Stage] /\ outcome \in [Call -> Outcome]
      /\ attempt \in [Call -> 0..MaxAttempts]
      /\ request \in [Call -> Submittable \cup {NoOne}]
      /\ tx \in [Process -> [open : BOOLEAN, rows : SUBSET Row]]
  BY DEF IInv, TypeOK, TxTypeOK
<1>2. db' = db
  BY DEF HandleSubmit, Enter, CancelContext, Crash, PoisonConn
<1>3. ASSUME NEW c \in Call, HandleSubmit(c), NEW d \in Call PROVE CallKnows(d)'
  <2>1. CASE d # c
    BY <1>1, <1>2, <1>3, <2>1, OthersKeep DEF HandleSubmit, Enter, Goto
  <2>2. CASE d = c
    <3>1. /\ stage[c] = "idle" /\ stage'[c] = "attempt" /\ attempt'[c] = 1
          /\ outcome'[c] = outcome[c] /\ request'[c] \in Submittable
      BY <1>1, <1>3 DEF HandleSubmit, Enter, Goto
    <3>2. Asked(c) /\ Fate(c)
      BY DEF IInv
    <3>3. ~Wrote(c)'
      BY <1>2, <3>1, <3>2 DEF Fate, Wrote, Sessions, Rows
    <3> QED
      BY <2>2, <3>1, <3>2, <3>3, TxConstants DEF CallKnows, Asked, Fate, Told
  <2> QED
    BY <2>1, <2>2
<1>4. ASSUME NEW c \in Call, CancelContext(c), UNCHANGED subVars, NEW d \in Call
      PROVE  CallKnows(d)'
  BY <1>2, <1>4, OthersKeep DEF CancelContext, subVars
<1>5. ASSUME NEW p \in Process, Crash(p), UNCHANGED subVars, NEW d \in Call
      PROVE  CallKnows(d)'
  <2>1. /\ request' = request /\ result' = result /\ attempt' = attempt
        /\ tx' = [tx EXCEPT ![p] = NoTx]
        /\ stage'[d] = IF Victim(p, d) THEN "done" ELSE stage[d]
        /\ outcome'[d] = IF Victim(p, d) THEN "none" ELSE outcome[d]
    BY <1>5 DEF Crash, PoisonConn, subVars
  <2>2. CASE Victim(p, d)
    <3>1. Asked(d)
      BY DEF IInv
    <3>2. stage[d] # "idle" /\ stage'[d] = "done" /\ outcome'[d] = "none"
      BY <2>1, <2>2 DEF Victim, Running
    <3> QED
      BY <2>1, <3>1, <3>2 DEF CallKnows, Asked, Fate, Told
  <2>3. CASE ~Victim(p, d)
    <3>1. stage[d] \in Holding => ProcessOf[d] # p
      BY <2>3 DEF Victim, Running, Holding
    <3>2. ProcessOf[d] \in Process
      BY TxConstants
    <3>3. stage[d] \in Holding => tx'[ProcessOf[d]] = tx[ProcessOf[d]]
      BY <1>1, <2>1, <3>1, <3>2
    <3> QED
      BY <1>2, <2>1, <2>3, <3>3, OthersKeep
  <2> QED
    BY <2>2, <2>3
<1> QED
  BY <1>2, <1>3, <1>4, <1>5, QuietDatabase

-----------------------------------------------------------------------------
(* The theorems.                                                           *)

\* An empty database and idle calls satisfy the invariant.
LEMMA InitInv == Init => IInv
<1> SUFFICES ASSUME Init PROVE IInv
  OBVIOUS
<1>1. TypeOK
  BY InitType
<1>2. /\ db = {} /\ lock = NoOne
      /\ \A c \in Call : /\ stage[c] = "idle" /\ outcome[c] = "none" /\ request[c] = NoOne
      /\ \A p \in Process : conn[p] = NoOne /\ ~tx[p].open
  BY DEF Init, TxInit, NoTx
<1>3. NoOne \notin Process /\ NoOne \notin Call /\ \A c \in Call : ProcessOf[c] \in Process
  BY TxConstants
<1>4. \A p \in Process : Pool(p)
  BY <1>2, <1>3 DEF Pool
<1>5. \A c \in Call : Own(c)
  BY <1>2, <1>3 DEF Own, Holding
<1>6. Sessions = {} /\ Snapshots = {}
  BY <1>2 DEF Sessions, Snapshots, Rows
<1>7. \A c \in Call : Asked(c) /\ Fate(c) /\ Told(c)
  BY <1>2, <1>6 DEF Asked, Fate, Told, Wrote
<1>8. OneSessionPerKey /\ IdsByMaker /\ SnapshotsUnique /\ SessionsStored
  BY <1>6 DEF OneSessionPerKey, IdsByMaker, SnapshotsUnique, SessionsStored, Sessions
<1> QED
  BY <1>1, <1>4, <1>5, <1>7, <1>8 DEF IInv

\* A stuttering step preserves it.
LEMMA StutterInv ==
    ASSUME IInv, UNCHANGED vars
    PROVE  IInv'
<1>1. UNCHANGED <<stage, attempt, outcome, ctxDone, conn, tx, lock, db, faults, request, result>>
  BY DEF vars, txVars, subVars
<1>2. TypeOK'
  BY <1>1 DEF IInv, TypeOK, TxTypeOK
<1>3. Connections'
  BY <1>1 DEF IInv, Connections, Pool, Own
<1>4. \A d \in Call : CallKnows(d)'
  BY <1>1, OthersKeep
<1>5. Database'
  BY <1>1, QuietDatabase
<1> QED
  BY <1>2, <1>3, <1>4, <1>5 DEF IInv, Connections, CallKnows, Database

\* Every step preserves it.
LEMMA StepInv == IInv /\ [Next]_vars => IInv'
<1> SUFFICES ASSUME IInv, [Next]_vars PROVE IInv'
  OBVIOUS
<1>1. ASSUME TypeOK', Connections', Database', \A d \in Call : CallKnows(d)'
      PROVE  IInv'
  BY <1>1 DEF IInv, Connections, CallKnows, Database
<1>2. ASSUME NEW c \in Call, TxStep(c), UNCHANGED subVars PROVE IInv'
  BY <1>1, <1>2, TxStepType, TxStepConnections, TxStepCalls
<1>3. ASSUME NEW c \in Call, Callback(c) PROVE IInv'
  BY <1>1, <1>3, CallbackType, CallbackConnections, CallbackCalls
<1>4. ASSUME \/ \E c \in Call : HandleSubmit(c)
             \/ \E c \in Call : CancelContext(c) /\ UNCHANGED subVars
             \/ \E p \in Process : Crash(p) /\ UNCHANGED subVars
      PROVE  IInv'
  BY <1>1, <1>4, OtherType, OtherConnections, OtherCalls
<1> QED
  BY <1>2, <1>3, <1>4, StutterInv DEF Next, Step

\* The inductive invariant always holds.
THEOREM Invariance == Spec => []IInv
BY InitInv, StepInv, PTL DEF Spec

\* Types, and no more attempts than RetryPolicy allows, for every policy.
THEOREM SubmissionTypes == Spec => []TypeOK
<1>1. IInv => TypeOK
  BY DEF IInv
<1> QED
  BY <1>1, Invariance, PTL

\* withImmediate never leaves a transaction on a connection of the pool.
THEOREM PoolIsClean == Spec => []NoTxLeftBehind
<1>1. ASSUME IInv PROVE NoTxLeftBehind
  <2> SUFFICES ASSUME NEW p \in Process
               PROVE  /\ tx[p].open <=> lock = p
                      /\ tx[p].open => /\ conn[p] # NoOne
                                       /\ stage[conn[p]] \in {"begun", "ran", "cleanup"}
                      /\ conn[p] # NoOne => Running(conn[p])
    BY DEF NoTxLeftBehind
  <2>1. Pool(p) /\ conn[p] \in Call \cup {NoOne}
    BY <1>1 DEF IInv, TypeOK, TxTypeOK
  <2>2. conn[p] # NoOne => Own(conn[p])
    BY <1>1, <2>1 DEF IInv
  <2> QED
    BY <2>1, <2>2 DEF Pool, Own, Holding, Running
<1> QED
  BY <1>1, Invariance, PTL

\* However a submission is retried, its key has one session.
THEOREM KeyIsBoundOnce == Spec => []OneSessionPerKey
<1>1. IInv => OneSessionPerKey
  BY DEF IInv
<1> QED
  BY <1>1, Invariance, PTL

\* A stored session is complete, whatever fails or dies in between.
THEOREM SubmissionIsAtomic == Spec => []NoPartialSubmission
<1>1. ASSUME IInv PROVE NoPartialSubmission
  <2> SUFFICES ASSUME NEW row \in Rows("sessions")
               PROVE  /\ RoleRunsRow(row.id) \in db
                      /\ \E snap \in Rows("snapshots") :
                            \A other \in Rows("snapshots") :
                                other.id = row.body <=> other = snap
    BY DEF NoPartialSubmission
  <2>1. Stored(row) /\ SnapshotsUnique
    BY <1>1 DEF IInv, SessionsStored, Sessions
  <2>2. PICK snap \in Rows("snapshots") : snap.id = row.body
    BY <2>1 DEF Stored, Snapshots
  <2>3. \A other \in Rows("snapshots") : other.id = row.body <=> other = snap
    BY <2>1, <2>2 DEF SnapshotsUnique, Snapshots
  <2> QED
    BY <2>1, <2>2, <2>3 DEF Stored
<1> QED
  BY <1>1, Invariance, PTL

\* A call that ran out of retries has stored nothing.
THEOREM UnavailableIsHonest == Spec => []UnavailableStoredNothing
<1>1. ASSUME IInv PROVE UnavailableStoredNothing
  <2> SUFFICES ASSUME NEW c \in Call, outcome[c] = "unavailable" PROVE ~Wrote(c)
    BY DEF UnavailableStoredNothing, Wrote, Sessions
  <2>1. Fate(c) /\ Asked(c)
    BY <1>1 DEF IInv
  <2> QED
    BY <2>1 DEF Fate, Asked
<1> QED
  BY <1>1, Invariance, PTL

-----------------------------------------------------------------------------
(* Submission implements SubmitOnce.                                       *)

\* What SubmitOnce sees of the state.
Binding == [k \in Key |-> SessionOf(k)]

AskedOf(c) ==
    IF request[c] = NoOne THEN NoOne
    ELSE [key |-> request[c].key, body |-> request[c].body]

\* The session of a row, as SubmitOnce sees it.
Summary(row) == [id |-> row.id, body |-> row.body, by |-> row.by]

\* Sessions are complete records.
LEMMA SessionType ==
    ASSUME IInv, NEW row \in Sessions
    PROVE  row.id \in Id /\ row.key \in Key /\ row.body \in Body /\ row.by \in Call
BY DEF IInv, TypeOK, Sessions, Rows, Row

\* The binding of a key is its session.
LEMMA SessionOfFacts ==
    ASSUME IInv, NEW k \in Key
    PROVE  /\ (\A row \in Sessions : row.key # k) => SessionOf(k) = NoOne
           /\ \A row \in Sessions : row.key = k =>
                 SessionOf(k) = Summary(row) /\ SessionOf(k) # NoOne
<1> DEFINE rows == {row \in Rows("sessions") : row.key = k}
<1>1. SessionOf(k) = IF rows = {} THEN NoOne ELSE Summary(CHOOSE r \in rows : TRUE)
  BY DEF SessionOf, Summary
<1>2. ASSUME \A row \in Sessions : row.key # k PROVE SessionOf(k) = NoOne
  BY <1>1, <1>2 DEF Sessions
<1>3. ASSUME NEW row \in Sessions, row.key = k
      PROVE  SessionOf(k) = Summary(row) /\ SessionOf(k) # NoOne
  <2>1. row \in rows
    BY <1>3 DEF Sessions
  <2>2. \A other \in rows : other = row
    BY <1>3, <2>1 DEF IInv, OneSessionPerKey
  <2>3. (CHOOSE r \in rows : TRUE) = row
    BY <2>1, <2>2
  <2>4. SessionOf(k) = Summary(row)
    BY <1>1, <2>1, <2>3
  <2>5. Summary(row) \in [id : Call \X (1..MaxAttempts), body : Body, by : Call]
    BY SessionType DEF Summary, Id
  <2> QED
    BY <2>4, <2>5, SubmissionConstants
<1> QED
  BY <1>2, <1>3

\* The binding depends on the sessions only.
LEMMA SameSessions ==
    ASSUME Sessions' = Sessions
    PROVE  Binding' = Binding
<1>1. Rows("sessions")' = Rows("sessions")
  BY DEF Sessions
<1> QED
  BY <1>1 DEF Binding, SessionOf

\* A call that does not reach its end keeps its answer.
LEMMA SameAnswer ==
    ASSUME NEW c \in Call, result'[c] = result[c],
           \/ stage'[c] = stage[c] /\ outcome'[c] = outcome[c]
           \/ stage[c] # "done" /\ stage'[c] # "done"
           \/ stage[c] # "done" /\ outcome'[c] = "none"
    PROVE  Answer(c)' = Answer(c)
BY DEF Answer

\* The initial states correspond.
LEMMA InitRefines == Init => Promise!Init
<1> SUFFICES ASSUME Init PROVE Promise!Init
  OBVIOUS
<1>1. \A k \in Key : SessionOf(k) = NoOne
  BY DEF Init, TxInit, SessionOf, Rows
<1>2. \A c \in Call : request[c] = NoOne /\ stage[c] = "idle"
  BY DEF Init, TxInit
<1>3. \A c \in Call : Answer(c) = NoAnswer
  BY <1>2 DEF Answer
<1> QED
  BY <1>1, <1>2, <1>3 DEF Promise!Init, Promise!Pending, NoAnswer

\* A step that moves neither the sessions, nor a request, nor an answer.
LEMMA StutterRefines ==
    ASSUME Sessions' = Sessions, request' = request, \A c \in Call : Answer(c)' = Answer(c)
    PROVE  UNCHANGED <<[k \in Key |-> SessionOf(k)],
                       [c \in Call |-> IF request[c] = NoOne THEN NoOne
                                       ELSE [key |-> request[c].key, body |-> request[c].body]],
                       [c \in Call |-> Answer(c)]>>
<1>1. Binding' = Binding
  BY SameSessions
<1> QED
  BY <1>1 DEF Binding

\* A new request.
LEMMA AskRefines ==
    ASSUME IInv, NEW c \in Call, HandleSubmit(c)
    PROVE  Promise!Ask(c)
<1>1. Asked(c) /\ request \in [Call -> Submittable \cup {NoOne}] /\ stage \in [Call -> Stage]
  BY DEF IInv, TypeOK, TxTypeOK
<1>2. PICK r \in Submittable : request' = [request EXCEPT ![c] = r]
  BY DEF HandleSubmit
<1>3. /\ stage[c] = "idle" /\ stage' = [stage EXCEPT ![c] = "attempt"]
      /\ db' = db /\ outcome' = outcome /\ result' = result
  BY DEF HandleSubmit, Enter, Goto
<1>4. request[c] = NoOne /\ r # NoOne /\ r \in [key : Key, body : Body, units : Units]
  BY <1>1, <1>2, <1>3, SubmissionConstants DEF Asked
<1>5. AskedOf(c)' = [key |-> r.key, body |-> r.body]
  BY <1>1, <1>2, <1>4 DEF AskedOf
<1>6. \A d \in Call \ {c} : AskedOf(d)' = AskedOf(d)
  BY <1>1, <1>2 DEF AskedOf
<1>7. [d \in Call |-> AskedOf(d)]'
         = [[d \in Call |-> AskedOf(d)] EXCEPT ![c] = [key |-> r.key, body |-> r.body]]
  BY <1>5, <1>6
<1>8. \A d \in Call : Answer(d)' = Answer(d)
  <2> SUFFICES ASSUME NEW d \in Call PROVE Answer(d)' = Answer(d)
    OBVIOUS
  <2> QED
    BY <1>1, <1>3, SameAnswer
<1>9. Binding' = Binding
  BY <1>3, SameSessions DEF Sessions, Rows
<1>10. r.key \in Key /\ r.body \in Body
  BY <1>4
<1> QED
  BY <1>4, <1>7, <1>8, <1>9, <1>10 DEF Promise!Ask, AskedOf, Binding

\* A submission becomes durable.
LEMMA BindRefines ==
    ASSUME IInv, NEW c \in Call, stage[c] = "ran",
           db' = db \cup NewRows(c, <<c, attempt[c]>>), Existing(c) = {},
           request' = request, \A d \in Call : Answer(d)' = Answer(d)
    PROVE  Promise!Bind(c)
<1> DEFINE id == <<c, attempt[c]>>
<1>1. PICK new : new = SessionRow(c, id)
  OBVIOUS
<1>2. /\ new.key = request[c].key /\ new.body = request[c].body /\ new.by = c
      /\ new.id = id /\ new.table = "sessions" /\ new \in NewRows(c, id)
  BY <1>1 DEF SessionRow, NewRows
<1>3. Sessions' = Sessions \cup {new}
  BY <1>1, <1>2, NewRowsByTable DEF Sessions, Rows
<1>4. PICK key : key = request[c].key
  OBVIOUS
<1>5. request[c] \in Submittable /\ attempt[c] \in 1..MaxAttempts /\ ~Wrote(c)
  BY DEF IInv, Asked, Fate
<1>6. request[c] # NoOne /\ key \in Key
  BY <1>4, <1>5, SubmissionConstants
<1>7. AskedOf(c) = [key |-> key, body |-> request[c].body] /\ AskedOf(c) # NoOne
  <2>1. request[c].body \in Body
    BY <1>5, SubmissionConstants
  <2> QED
    BY <1>4, <1>6, <2>1, SubmissionConstants DEF AskedOf
<1>8. \A row \in Sessions : row.key # key
  BY <1>4 DEF Existing, Sessions
<1>9. SessionOf(key) = NoOne
  BY <1>6, <1>8, SessionOfFacts
<1>10. SessionOf(key)' = [id |-> id, body |-> request[c].body, by |-> c]
  <2>1. {row \in Rows("sessions")' : row.key = key} = {new}
    BY <1>2, <1>3, <1>4, <1>8 DEF Sessions
  <2>2. (CHOOSE r \in {new} : TRUE) = new
    OBVIOUS
  <2>3. SessionOf(key)' = [id |-> new.id, body |-> new.body, by |-> new.by]
    BY <2>1, <2>2 DEF SessionOf
  <2> QED
    BY <1>2, <2>3
<1>11. ASSUME NEW k \in Key, k # key PROVE SessionOf(k)' = SessionOf(k)
  <2>1. {row \in Rows("sessions")' : row.key = k} = {row \in Rows("sessions") : row.key = k}
    BY <1>2, <1>3, <1>4, <1>11 DEF Sessions
  <2> QED
    BY <2>1 DEF SessionOf
<1>12. Binding' = [Binding EXCEPT ![key] = [id |-> id, body |-> request[c].body, by |-> c]]
  BY <1>10, <1>11 DEF Binding
<1>13. ASSUME NEW k \in Key, SessionOf(k) # NoOne PROVE SessionOf(k).id # id
  <2>1. PICK row \in Sessions : row.key = k
    BY <1>13, SessionOfFacts
  <2>2. SessionOf(k) = Summary(row)
    BY <2>1, SessionOfFacts
  <2>3. row.id[1] # c
    BY <1>5, <2>1 DEF IInv, IdsByMaker, Wrote
  <2>4. id[1] = c
    OBVIOUS
  <2> QED
    BY <2>2, <2>3, <2>4 DEF Summary
<1>14. id \in Id
  BY <1>5 DEF Id
<1>15. Answer(c) = [code |-> "none", id |-> NoOne]
  BY DEF Answer, NoAnswer
<1>16. [d \in Call |-> AskedOf(d)]' = [d \in Call |-> AskedOf(d)]
  BY DEF AskedOf
<1>17. [d \in Call |-> AskedOf(d)][c] = [key |-> key, body |-> request[c].body]
  BY <1>7
<1>18. \E i \in Id :
          /\ \A k \in Key : Binding[k] # NoOne => Binding[k].id # i
          /\ Binding' = [Binding EXCEPT ![AskedOf(c).key] =
                            [id |-> i, body |-> AskedOf(c).body, by |-> c]]
  <2>1. \A k \in Key : Binding[k] # NoOne => Binding[k].id # id
    BY <1>13 DEF Binding
  <2>2. AskedOf(c).key = key /\ AskedOf(c).body = request[c].body
    BY <1>7
  <2> QED
    BY <1>12, <1>14, <2>1, <2>2
<1>19. Binding[AskedOf(c).key] = NoOne
  BY <1>6, <1>7, <1>9 DEF Binding
<1> QED
  BY <1>7, <1>15, <1>16, <1>18, <1>19
     DEF Promise!Bind, Promise!Pending, Binding, AskedOf

\* An answer is true.
LEMMA AnswerRefines ==
    ASSUME IInv, NEW c \in Call, stage[c] \notin {"idle", "done"}, stage'[c] = "done",
           Sessions' = Sessions, request' = request, result' = result,
           \A d \in Call \ {c} : Answer(d)' = Answer(d),
           \/ outcome'[c] \in {"error", "unavailable"}
           \/ outcome'[c] = "refused" /\ Taken(c)
           \/ outcome'[c] = "nil" /\ Named(c)
    PROVE  Promise!Answer(c)
<1>1. request[c] \in Submittable
  BY DEF IInv, Asked
<1>2. PICK key : key = request[c].key
  OBVIOUS
<1>3. key \in Key /\ request[c].body \in Body /\ request[c] # NoOne
  BY <1>1, <1>2, SubmissionConstants
<1>4. AskedOf(c) = [key |-> key, body |-> request[c].body] /\ AskedOf(c) # NoOne
  BY <1>2, <1>3, SubmissionConstants DEF AskedOf
<1>5. Binding' = Binding
  BY SameSessions
<1>6. [d \in Call |-> AskedOf(d)]' = [d \in Call |-> AskedOf(d)]
  BY DEF AskedOf
<1>7. Answer(c) = [code |-> "none", id |-> NoOne]
  BY DEF Answer, NoAnswer
<1>8. \/ Answer(c)' = [code |-> "error", id |-> NoOne]
      \/ /\ SessionOf(key) # NoOne
         /\ SessionOf(key).body = request[c].body
         /\ Answer(c)' = [code |-> IF SessionOf(key).by = c THEN "created" ELSE "replay",
                          id |-> SessionOf(key).id]
      \/ /\ SessionOf(key) # NoOne
         /\ SessionOf(key).body # request[c].body
         /\ Answer(c)' = [code |-> "conflict", id |-> NoOne]
  <2>1. CASE outcome'[c] \in {"error", "unavailable"}
    BY <2>1 DEF Answer
  <2>2. CASE outcome'[c] = "refused" /\ Taken(c)
    <3>1. PICK row \in Existing(c) : ~SameBody(c, row)
      BY <2>2 DEF Taken
    <3>2. SessionOf(key) # NoOne /\ SessionOf(key) = Summary(row)
      BY <1>2, <1>3, <3>1, SessionOfFacts DEF Existing, Sessions
    <3>3. SessionOf(key).body # request[c].body
      BY <3>1, <3>2 DEF Summary, SameBody
    <3>4. Answer(c)' = [code |-> "conflict", id |-> NoOne]
      BY <2>2 DEF Answer
    <3> QED
      BY <3>2, <3>3, <3>4
  <2>3. CASE outcome'[c] = "nil" /\ Named(c)
    <3>1. PICK row \in Existing(c) : /\ SameBody(c, row) /\ result[c].id = row.id
                                     /\ result[c].replay <=> row.by # c
      BY <2>3 DEF Named
    <3>2. SessionOf(key) # NoOne /\ SessionOf(key) = Summary(row)
      BY <1>2, <1>3, <3>1, SessionOfFacts DEF Existing, Sessions
    <3>3. /\ SessionOf(key).body = request[c].body /\ SessionOf(key).by = row.by
          /\ SessionOf(key).id = row.id
      BY <3>1, <3>2 DEF Summary, SameBody
    <3>4. Answer(c)' = [code |-> IF result[c].replay THEN "replay" ELSE "created",
                        id |-> result[c].id]
      BY <2>3 DEF Answer
    <3> QED
      BY <3>1, <3>2, <3>3, <3>4
  <2> QED
    BY <2>1, <2>2, <2>3
<1>9. Binding[AskedOf(c).key] = SessionOf(key) /\ AskedOf(c).body = request[c].body
  BY <1>3, <1>4 DEF Binding
<1>10. Promise!Truthful(c, Answer(c)')
  BY <1>8, <1>9 DEF Promise!Truthful, Binding, AskedOf
<1> QED
  BY <1>4, <1>5, <1>6, <1>7, <1>10 DEF Promise!Answer, Promise!Pending, Binding, AskedOf

\* What SubmitOnce sees, as a tuple.
Seen == <<[k \in Key |-> SessionOf(k)],
          [c \in Call |-> IF request[c] = NoOne THEN NoOne
                          ELSE [key |-> request[c].key, body |-> request[c].body]],
          [c \in Call |-> Answer(c)]>>

\* Every step of the wrapper is a binding, an answer or nothing.
LEMMA TxStepRefines ==
    ASSUME IInv, NEW c \in Call, TxStep(c), UNCHANGED subVars
    PROVE  Promise!Bind(c) \/ Promise!Answer(c) \/ UNCHANGED Seen
<1> DEFINE p == ProcessOf[c]
<1>1. TypeOK /\ Asked(c) /\ Told(c) /\ p \in Process
  BY TxConstants DEF IInv
<1>2. /\ request' = request /\ result' = result
      /\ stage \in [Call -> Stage] /\ outcome \in [Call -> Outcome]
  BY <1>1 DEF TypeOK, TxTypeOK, subVars
<1>3. \A d \in Call \ {c} : Answer(d)' = Answer(d)
  <2> SUFFICES ASSUME NEW d \in Call, d # c PROVE Answer(d)' = Answer(d)
    OBVIOUS
  <2>1. stage'[d] = stage[d] /\ outcome'[d] = outcome[d]
    BY StepLeavesOthers
  <2> QED
    BY <1>2, <2>1, SameAnswer
<1>4. db' = db => Sessions' = Sessions
  BY DEF Sessions, Rows
<1>5. ASSUME stage[c] # "done", stage'[c] # "done" PROVE \A d \in Call : Answer(d)' = Answer(d)
  BY <1>2, <1>3, <1>5, SameAnswer
<1>6. ASSUME db' = db, stage[c] # "done", stage'[c] # "done" PROVE UNCHANGED Seen
  BY <1>2, <1>4, <1>5, <1>6, StutterRefines DEF Seen
<1>7. ASSUME db' = db, stage[c] \notin {"idle", "done"}, stage'[c] = "done",
             \/ outcome'[c] \in {"error", "unavailable"}
             \/ outcome'[c] = "refused" /\ Taken(c)
             \/ outcome'[c] = "nil" /\ Named(c)
      PROVE  Promise!Answer(c)
  BY <1>2, <1>3, <1>4, <1>7, AnswerRefines
<1>8. CASE AcquireConn(c) \/ Begin(c) \/ WakeUp(c)
  BY <1>2, <1>6, <1>8 DEF AcquireConn, Begin, WakeUp, Goto
<1>9. CASE GiveUp(c)
  BY <1>2, <1>7, <1>9 DEF GiveUp, ReturnWith, Goto
<1>10. CASE BeginFails(c)
  <2>1. db' = db /\ stage[c] = "conn"
    BY <1>10 DEF BeginFails
  <2>2. \/ stage'[c] = "backoff"
        \/ stage'[c] = "done" /\ outcome'[c] \in {"error", "unavailable"}
    BY <1>1, <1>2, <1>10, AfterFailureFacts DEF BeginFails
  <2> QED
    BY <1>6, <1>7, <2>1, <2>2
<1>11. CASE Commit(c) \/ CommitFails(c)
  <2>1. /\ stage[c] = "ran" /\ stage'[c] \in {"committed", "cleanup"}
        /\ db' = db \/ db' = db \cup tx[p].rows
    BY <1>2, <1>11 DEF Commit, CommitFails, EndTx, Goto
  <2>2. Ready(c)
    BY <1>1, <2>1 DEF Told
  <2>3. CASE db' = db
    BY <1>6, <2>1, <2>3
  <2>4. CASE db' # db
    <3>1. tx[p].rows # {} /\ db' = db \cup tx[p].rows
      BY <2>1, <2>4
    <3>2. tx[p].rows = NewRows(c, <<c, attempt[c]>>) /\ Existing(c) = {}
      BY <2>2, <3>1 DEF Ready
    <3> QED
      BY <1>2, <1>5, <2>1, <3>1, <3>2, BindRefines
  <2> QED
    BY <2>3, <2>4
<1>12. CASE RollBack(c)
  <2>1. db' = db /\ stage[c] = "cleanup"
    BY <1>12 DEF RollBack, EndTx, PoisonConn
  <2>2. \/ stage'[c] = "backoff"
        \/ /\ stage'[c] = "done" /\ outcome'[c] \in {"refused", "error", "unavailable"}
           /\ outcome'[c] = "refused" <=> outcome[c] = "refused"
    BY <1>1, <1>2, <1>12, AfterFailureFacts DEF RollBack, Asked
  <2>3. outcome[c] = "refused" => Taken(c)
    BY <1>1, <2>1 DEF Told
  <2> QED
    BY <1>6, <1>7, <2>1, <2>2, <2>3
<1>13. CASE ReturnNil(c)
  <2>1. /\ db' = db /\ stage[c] = "committed" /\ stage'[c] = "done" /\ outcome'[c] = "nil"
    BY <1>2, <1>13 DEF ReturnNil, ReturnWith, Goto
  <2>2. Named(c)
    BY <1>1, <2>1 DEF Told
  <2> QED
    BY <1>7, <2>1, <2>2
<1> QED
  BY <1>8, <1>9, <1>10, <1>11, <1>12, <1>13 DEF TxStep

\* The other steps that SubmitOnce does not see.
LEMMA HiddenSteps ==
    ASSUME IInv,
           \/ \E c \in Call : Callback(c)
           \/ \E c \in Call : CancelContext(c) /\ UNCHANGED subVars
           \/ \E p \in Process : Crash(p) /\ UNCHANGED subVars
           \/ UNCHANGED vars
    PROVE  UNCHANGED Seen
<1>1. /\ stage \in [Call -> Stage] /\ outcome \in [Call -> Outcome]
      /\ result \in [Call -> [id : Id \cup {NoOne}, replay : BOOLEAN]]
  BY DEF IInv, TypeOK, TxTypeOK
<1>2. db' = db /\ request' = request
  BY DEF Callback, Replay, Conflict, Create, SnapshotMismatch, StatementError,
     CallbackSucceeds, CallbackFails, CancelContext, Crash, PoisonConn, subVars, vars, txVars
<1>3. ASSUME NEW c \in Call, Callback(c), NEW d \in Call PROVE Answer(d)' = Answer(d)
  <2>1. CASE d # c
    <3>1. stage'[d] = stage[d] /\ outcome'[d] = outcome[d]
      BY <1>3, <2>1, StepLeavesOthers
    <3>2. result'[d] = result[d]
      BY <1>1, <1>3, <2>1
         DEF Callback, Replay, Conflict, Create, SnapshotMismatch, StatementError
    <3> QED
      BY <3>1, <3>2, SameAnswer
  <2>2. CASE d = c
    <3>1. PICK rows : \/ CallbackSucceeds(c, rows)
                      \/ \E o \in Outcome : CallbackFails(c, rows, o)
      BY <1>3 DEF Callback, Replay, Conflict, Create, SnapshotMismatch, StatementError, Outcome
    <3>2. stage[c] = "begun" /\ stage'[c] \in {"ran", "cleanup"}
      BY <1>1, <3>1 DEF CallbackSucceeds, CallbackFails, Goto
    <3> QED
      BY <2>2, <3>2 DEF Answer
  <2> QED
    BY <2>1, <2>2
<1>4. ASSUME NEW c \in Call, CancelContext(c), UNCHANGED subVars, NEW d \in Call
      PROVE  Answer(d)' = Answer(d)
  BY <1>4, SameAnswer DEF CancelContext, subVars
<1>5. ASSUME NEW p \in Process, Crash(p), UNCHANGED subVars, NEW d \in Call
      PROVE  Answer(d)' = Answer(d)
  <2>1. /\ result' = result
        /\ stage'[d] = IF Victim(p, d) THEN "done" ELSE stage[d]
        /\ outcome'[d] = IF Victim(p, d) THEN "none" ELSE outcome[d]
    BY <1>5 DEF Crash, subVars
  <2>2. Victim(p, d) => stage[d] # "done"
    BY DEF Victim, Running
  <2> QED
    BY <2>1, <2>2, SameAnswer
<1>6. ASSUME UNCHANGED vars, NEW d \in Call PROVE Answer(d)' = Answer(d)
  BY <1>6, SameAnswer DEF vars, txVars, subVars
<1>7. \A d \in Call : Answer(d)' = Answer(d)
  BY <1>3, <1>4, <1>5, <1>6
<1>8. Sessions' = Sessions
  BY <1>2 DEF Sessions, Rows
<1> QED
  BY <1>2, <1>7, <1>8, StutterRefines DEF Seen

\* Every step is one of SubmitOnce, or invisible to it.
LEMMA StepRefines == IInv /\ [Next]_vars => [Promise!Next]_Seen
<1> SUFFICES ASSUME IInv, [Next]_vars PROVE [Promise!Next]_Seen
  OBVIOUS
<1>1. ASSUME NEW c \in Call, TxStep(c), UNCHANGED subVars PROVE [Promise!Next]_Seen
  BY <1>1, TxStepRefines DEF Promise!Next
<1>2. ASSUME NEW c \in Call, HandleSubmit(c) PROVE [Promise!Next]_Seen
  BY <1>2, AskRefines DEF Promise!Next
<1>3. ASSUME \/ \E c \in Call : Callback(c)
             \/ \E c \in Call : CancelContext(c) /\ UNCHANGED subVars
             \/ \E p \in Process : Crash(p) /\ UNCHANGED subVars
             \/ UNCHANGED vars
      PROVE  [Promise!Next]_Seen
  BY <1>3, HiddenSteps
<1> QED
  BY <1>1, <1>2, <1>3 DEF Next, Step

\* Submission keeps the promise of SubmitOnce: whatever is retried, lost, left
\* ambiguous by a COMMIT or cut off by a crash, a key is bound once and every
\* answer tells the truth about it.
THEOREM SubmitIsIdempotent == Spec => ImplementsSubmitOnce
<1>1. Init => Promise!Init
  BY InitRefines
<1>2. IInv /\ [Next]_vars => [Promise!Next]_Seen
  BY StepRefines
<1>3. Spec => Promise!Init /\ [][Promise!Next]_Seen
  BY <1>1, <1>2, Invariance, PTL DEF Spec
<1> QED
  BY <1>3, PTL DEF ImplementsSubmitOnce, Promise!Spec, Seen
=============================================================================
