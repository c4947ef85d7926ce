------------------------ MODULE ReviewStoreRowProofs ------------------------
(***************************************************************************)
(* The timestamps of the review store: the row CHECKs of the schema, the   *)
(* order of claims and the room for a full call, although every operation  *)
(* works with a clock reading of its own that may be stale.                *)
(***************************************************************************)
EXTENDS ReviewStoreProofs

\* What makes the row checks and the claim order inductive: a session that
\* exists was created at a time the clock has reached.
CreatedInThePast ==
    \A s \in Session : sessions[s].status # "absent" =>
        sessions[s].created_at \in Nat /\ sessions[s].created_at <= clock

\* Nor is a role started in the future.
StartedInThePast ==
    \A s \in Session, r \in Role : role_runs[s][r].started_at # Null =>
        role_runs[s][r].started_at <= clock

RowInv ==
    /\ IInv
    /\ CreatedInThePast
    /\ StartedInThePast
    /\ RowChecksHold
    /\ NotOvertaken
    /\ FullCallFits

-----------------------------------------------------------------------------
(* Role rows.                                                              *)

\* What a transaction can make of one role row, with the times it writes.
RowChange(s, old, new) ==
    \/ new = old
    \/ new = PendingRun
    \/ \E now \in Nat : /\ old.status = "pending" /\ Reviewing(s)
                        /\ now < DispatchCutoffAt(s) /\ now <= clock
                        /\ new = Started(old, now)
    \/ \E now \in Nat, outcome \in {"complete", "failed"} :
          /\ old.status = "in_flight" /\ now >= old.started_at
          /\ new = Published(old, outcome, now)
    \/ \E now \in Nat, why \in InterruptCause :
          old.status = "pending" /\ new = Interrupted(old, why, now)
    \/ \E now \in Nat :
          /\ old.status = "in_flight"
          /\ new = Interrupted(old, "process_restart", Later(now, old.started_at))

\* No transaction does anything else to a role row.
LEMMA RowStep ==
    ASSUME TypeOK, [Next]_vars, NEW s \in Session, NEW r \in Role
    PROVE  RowChange(s, role_runs[s][r], role_runs'[s][r])
<1> DEFINE Goal == RowChange(s, role_runs[s][r], role_runs'[s][r])
<1>1. CASE UNCHANGED role_runs
  BY <1>1 DEF RowChange
<1>2. ASSUME NEW t \in Session, Submit(t) PROVE Goal
  BY <1>2 DEF Submit, TypeOK, RowChange
<1>3. ASSUME NEW t \in Session, NEW why \in InterruptCause, NEW now \in Reading,
             InterruptPending(t, why, now)
      PROVE  Goal
  <2>1. now \in Nat
    BY ReadingType
  <2>2. \/ role_runs'[s][r] = role_runs[s][r]
        \/ /\ role_runs[s][r].status = "pending"
           /\ role_runs'[s][r] = Interrupted(role_runs[s][r], why, now)
    BY <1>3 DEF InterruptPending, TypeOK
  <2> QED
    BY <2>1, <2>2 DEF RowChange
<1>4. ASSUME NEW t \in Session, NEW q \in Role, NEW now \in Reading,
             ReservePendingRole(t, q, now)
      PROVE  Goal
  <2>1. now \in Nat /\ now <= clock
    BY ReadingType DEF Reading, TypeOK
  <2>2. \/ role_runs'[s][r] = role_runs[s][r]
        \/ /\ t = s /\ q = r
           /\ role_runs'[s][r] = Started(role_runs[s][r], now)
    BY <1>4 DEF ReservePendingRole, TypeOK
  <2>3. /\ role_runs[t][q].status = "pending" /\ Reviewing(t)
        /\ now < DispatchCutoffAt(t)
    BY <1>4 DEF ReservePendingRole, Reservable, NextPendingRole, RolesIn, BeforeCutoff
  <2> QED
    BY <2>1, <2>2, <2>3 DEF RowChange
<1>5. ASSUME NEW t \in Session, NEW q \in Role, NEW now \in Reading,
             NEW outcome \in {"complete", "failed"}, Publish(t, q, outcome, now)
      PROVE  Goal
  <2>1. now \in Nat
    BY ReadingType
  <2>2. \/ role_runs'[s][r] = role_runs[s][r]
        \/ /\ t = s /\ q = r
           /\ role_runs'[s][r] = Published(role_runs[s][r], outcome, now)
    BY <1>5 DEF Publish, TypeOK
  <2>3. role_runs[t][q].status = "in_flight" /\ now >= role_runs[t][q].started_at
    BY <1>5 DEF Publish, Publishable
  <2> QED
    BY <2>1, <2>2, <2>3 DEF RowChange
<1>6. ASSUME NEW cutoff, NEW now \in Reading, SweepRestartRecovery(cutoff, now)
      PROVE  Goal
  <2>1. now \in Nat /\ PendingCause(s) \in InterruptCause
    BY ReadingType DEF PendingCause, InterruptCause
  <2>2. \/ role_runs'[s][r] = role_runs[s][r]
        \/ role_runs'[s][r] = RecoveredRun(s, role_runs[s][r], now)
    BY <1>6 DEF SweepRestartRecovery
  <2> QED
    BY <2>1, <2>2 DEF RowChange, RecoveredRun
<1>7. {"user_cancelled", "deadline_cutoff"} \subseteq InterruptCause
  BY DEF InterruptCause
<1> QED
  BY <1>1, <1>2, <1>3, <1>4, <1>5, <1>6, <1>7
     DEF Next, vars, Tick, RequestCancellation, ClaimSession, ComposeSession,
         SweepCancellation, SweepCutoff, SweepHardDeadline,
         PublishRoleSuccess, PublishRoleFailure

\* None of these changes breaks a CHECK of role_runs.
LEMMA RowChangeOK ==
    ASSUME NEW s, NEW old \in RoleRow, NEW new, RoleRowOK(old), RowChange(s, old, new)
    PROVE  RoleRowOK(new)
<1>1. CASE new = old
  BY <1>1
<1>2. CASE new = PendingRun
  BY <1>2 DEF PendingRun, RoleRowOK, TerminalRole
<1>3. ASSUME NEW now \in Nat, old.status = "pending", new = Started(old, now)
      PROVE  RoleRowOK(new)
  <2>1. /\ new.status = "in_flight" /\ new.started_at = now
        /\ new.completed_at = old.completed_at /\ new.cause = old.cause
    BY <1>3 DEF Started, RoleRow
  <2>2. old.completed_at = Null /\ old.cause = Null
    BY <1>3 DEF RoleRowOK, TerminalRole
  <2> QED
    BY <2>1, <2>2, StoreConstants DEF RoleRowOK, TerminalRole
<1>4. ASSUME NEW now \in Nat, NEW outcome \in {"complete", "failed"},
             old.status = "in_flight", now >= old.started_at,
             new = Published(old, outcome, now)
      PROVE  RoleRowOK(new)
  <2>1. /\ new.status = outcome /\ new.started_at = old.started_at
        /\ new.completed_at = now /\ new.cause = old.cause
    BY <1>4 DEF Published, RoleRow
  <2>2. old.started_at # Null /\ old.cause = Null
    BY <1>4 DEF RoleRowOK
  <2> QED
    BY <1>4, <2>1, <2>2, StoreConstants DEF RoleRowOK, TerminalRole
<1>5. ASSUME NEW now \in Nat, NEW why \in InterruptCause,
             old.status = "pending", new = Interrupted(old, why, now)
      PROVE  RoleRowOK(new)
  <2>1. /\ new.status = "interrupted" /\ new.started_at = old.started_at
        /\ new.completed_at = now /\ new.cause = why
    BY <1>5 DEF Interrupted, RoleRow
  <2>2. old.started_at = Null
    BY <1>5 DEF RoleRowOK
  <2> QED
    BY <2>1, <2>2, StoreConstants, NullIsNoWord DEF RoleRowOK, TerminalRole
<1>6. ASSUME NEW now \in Nat, old.status = "in_flight",
             new = Interrupted(old, "process_restart", Later(now, old.started_at))
      PROVE  RoleRowOK(new)
  <2>1. /\ new.status = "interrupted" /\ new.started_at = old.started_at
        /\ new.completed_at = Later(now, old.started_at) /\ new.cause = "process_restart"
    BY <1>6 DEF Interrupted, RoleRow
  <2>2. old.started_at \in Nat
    BY <1>6 DEF RoleRowOK, RoleRow, OptTime
  <2>3. Later(now, old.started_at) \in Nat /\ Later(now, old.started_at) >= old.started_at
    BY <2>2 DEF Later
  <2> QED
    BY <2>1, <2>3, StoreConstants, NullIsNoWord DEF RoleRowOK, TerminalRole, InterruptCause
<1> QED
  BY <1>1, <1>2, <1>3, <1>4, <1>5, <1>6 DEF RowChange

-----------------------------------------------------------------------------
(* Session rows.                                                           *)

\* What the row of a session can become, with the times that are written.
NewlySubmitted(s) ==
    /\ sessions[s].status = "absent" /\ UNCHANGED clock
    /\ sessions'[s] = [NoSession EXCEPT !.status = "queued", !.created_at = clock]

NewlyFlagged(s) ==
    /\ sessions[s].status \in {"queued", "reviewing"}
    /\ sessions'[s] = [sessions[s] EXCEPT !.cancel_requested = TRUE]

NewlyClaimed(s) == \E now \in Nat :
    /\ OldestQueued(s)
    /\ sessions[s].created_at <= now
    /\ sessions' = [sessions EXCEPT ![s] = Claimed(sessions[s], now)]
    /\ UNCHANGED role_runs

NewlyComposed(s) ==
    /\ Reviewing(s)
    /\ clock \in Nat
    /\ sessions'[s] = Composed(sessions[s], Verdict(role_runs[s]),
                               Cardinality(CompletedRoles(role_runs[s])), clock)

\* No transaction does anything else to a session row, and none turns back
\* the clock.
LEMMA SessionRowStep ==
    ASSUME TypeOK, [Next]_vars, NEW s \in Session
    PROVE  /\ \/ sessions'[s] = sessions[s]
              \/ NewlySubmitted(s) \/ NewlyFlagged(s) \/ NewlyClaimed(s) \/ NewlyComposed(s)
           /\ clock \in Nat /\ clock' \in Nat /\ clock <= clock'
<1> DEFINE Goal == /\ \/ sessions'[s] = sessions[s]
                      \/ NewlySubmitted(s) \/ NewlyFlagged(s) \/ NewlyClaimed(s)
                      \/ NewlyComposed(s)
                   /\ clock \in Nat /\ clock' \in Nat /\ clock <= clock'
<1>1. clock \in Nat
  BY DEF TypeOK
<1>2. CASE UNCHANGED sessions /\ (UNCHANGED clock \/ clock' = clock + 1)
  BY <1>1, <1>2
<1>3. ASSUME NEW t \in Session, Submit(t) PROVE Goal
  BY <1>1, <1>3 DEF Submit, TypeOK, NewlySubmitted
<1>4. ASSUME NEW t \in Session, RequestCancellation(t) PROVE Goal
  <2>1. CASE s # t
    BY <1>1, <1>4, <2>1 DEF RequestCancellation, TypeOK
  <2>2. CASE s = t
    <3>1. sessions'[s] = [sessions[s] EXCEPT !.cancel_requested = TRUE]
      BY <1>4, <2>2 DEF RequestCancellation, TypeOK
    <3> QED
      BY <1>1, <1>4, <2>2, <3>1 DEF RequestCancellation, NewlyFlagged
  <2> QED
    BY <2>1, <2>2
<1>5. ASSUME NEW t \in Session, NEW now \in Reading, ClaimSession(t, now) PROVE Goal
  <2>1. CASE s # t
    BY <1>1, <1>5, <2>1 DEF ClaimSession, TypeOK
  <2>2. CASE s = t
    <3>1. now \in Nat
      BY ReadingType
    <3>2. /\ OldestQueued(s) /\ sessions[s].created_at <= now
          /\ sessions' = [sessions EXCEPT ![s] = Claimed(sessions[s], now)]
          /\ role_runs' = role_runs /\ clock' = clock
      BY <1>5, <2>2 DEF ClaimSession
    <3>3. NewlyClaimed(s)
      BY <3>1, <3>2 DEF NewlyClaimed
    <3> QED
      BY <1>1, <3>2, <3>3
  <2> QED
    BY <2>1, <2>2
<1>6. ASSUME NEW t \in Session, ComposeSession(t) PROVE Goal
  BY <1>1, <1>6 DEF ComposeSession, TypeOK, NewlyComposed
<1> QED
  BY <1>2, <1>3, <1>4, <1>5, <1>6
     DEF Next, vars, Tick, SweepCancellation, SweepCutoff, SweepHardDeadline,
         InterruptPending, ReservePendingRole, PublishRoleSuccess,
         PublishRoleFailure, Publish, SweepRestartRecovery

\* The columns of a session row after each of them.
LEMMA NewFields ==
    ASSUME NEW s \in Session, sessions[s] \in SessionRow
    PROVE  /\ NewlySubmitted(s) =>
                 /\ sessions'[s].status = "queued" /\ sessions'[s].created_at = clock
                 /\ sessions'[s].claimed_at = Null /\ sessions'[s].terminal_at = Null
                 /\ sessions'[s].terminal_reason = Null
           /\ NewlyFlagged(s) =>
                 /\ sessions'[s].status = sessions[s].status
                 /\ sessions'[s].created_at = sessions[s].created_at
                 /\ sessions'[s].claimed_at = sessions[s].claimed_at
                 /\ sessions'[s].terminal_at = sessions[s].terminal_at
                 /\ sessions'[s].terminal_reason = sessions[s].terminal_reason
           /\ NewlyComposed(s) =>
                 /\ sessions'[s].created_at = sessions[s].created_at
                 /\ sessions'[s].claimed_at = sessions[s].claimed_at
                 /\ sessions'[s].terminal_at = Later(clock, sessions[s].claimed_at)
                 /\ sessions'[s].status = Verdict(role_runs[s]).status
                 /\ sessions'[s].terminal_reason = Verdict(role_runs[s]).reason
                 /\ sessions'[s].completed_role_count =
                       Cardinality(CompletedRoles(role_runs[s]))
  BY DEF NewlySubmitted, NewlyFlagged, NewlyComposed, NoSession, SessionRow, Composed

\* A claim sets the status and claimed_at to its reading of the clock.
LEMMA ClaimedRow ==
    ASSUME TypeOK, NEW s \in Session, NewlyClaimed(s)
    PROVE  /\ sessions[s].status = "queued" /\ sessions'[s].status = "reviewing"
           /\ sessions'[s].created_at = sessions[s].created_at
           /\ sessions'[s].claimed_at \in Nat
           /\ sessions'[s].claimed_at >= sessions[s].created_at
           /\ sessions'[s].terminal_at = sessions[s].terminal_at
           /\ sessions'[s].terminal_reason = sessions[s].terminal_reason
<1>1. PICK now \in Nat :
         /\ OldestQueued(s)
         /\ sessions[s].created_at <= now
         /\ sessions' = [sessions EXCEPT ![s] = Claimed(sessions[s], now)]
  BY DEF NewlyClaimed
<1>2. sessions'[s] = Claimed(sessions[s], now) /\ sessions[s] \in SessionRow
  BY <1>1 DEF TypeOK
<1>3. /\ sessions'[s].status = "reviewing"
      /\ sessions'[s].created_at = sessions[s].created_at
      /\ sessions'[s].claimed_at = now
      /\ sessions'[s].terminal_at = sessions[s].terminal_at
      /\ sessions'[s].terminal_reason = sessions[s].terminal_reason
  BY <1>2 DEF Claimed, SessionRow
<1> QED
  BY <1>1, <1>3 DEF OldestQueued

\* Sessions are created in the past and stay so.
LEMMA StepCreated == ASSUME RowInv, [Next]_vars PROVE CreatedInThePast'
<1> SUFFICES ASSUME NEW s \in Session, sessions'[s].status # "absent"
             PROVE  sessions'[s].created_at \in Nat /\ sessions'[s].created_at <= clock'
  BY DEF CreatedInThePast
<1>1. TypeOK /\ sessions[s] \in SessionRow
  BY DEF RowInv, IInv, TypeOK
<1>2. clock \in Nat /\ clock' \in Nat /\ clock <= clock'
  BY <1>1, SessionRowStep
<1>3. CASE NewlySubmitted(s)
  BY <1>1, <1>2, <1>3, NewFields
<1>4. CASE /\ sessions[s].status # "absent"
           /\ sessions'[s].created_at = sessions[s].created_at
  <2>1. sessions[s].created_at \in Nat /\ sessions[s].created_at <= clock
    BY <1>4 DEF RowInv, CreatedInThePast
  <2> QED
    BY <1>2, <1>4, <2>1
<1> QED
  BY <1>1, <1>3, <1>4, SessionRowStep, NewFields, ClaimedRow
     DEF NewlyFlagged, NewlyComposed, Reviewing

\* The composer's verdict fits the counts the schema allows for it.
LEMMA VerdictCounts ==
    ASSUME NEW rows
    PROVE  LET v == Verdict(rows)
               n == Cardinality(CompletedRoles(rows)) IN
           /\ v.status = "complete" =>
                 v.reason = "all_roles_complete" /\ n = Cardinality(Role)
           /\ v.status = "partial" =>
                 /\ v.reason # "all_roles_complete" /\ n < Cardinality(Role)
                 /\ n > 0 \/ v.reason = "user_cancelled"
           /\ v.status = "failed" =>
                 v.reason \notin {"all_roles_complete", "user_cancelled"} /\ n = 0
<1> DEFINE C == CompletedRoles(rows)
<1>1. C \subseteq Role
  BY DEF CompletedRoles
<1>2. IsFiniteSet(C) /\ Cardinality(C) \in Nat /\ IsFiniteSet(Role) /\ Cardinality(Role) \in Nat
  BY <1>1, RoleCount, RoleFinite
<1>3. C # Role => Cardinality(C) < Cardinality(Role)
  <2>1. Cardinality(C) <= Cardinality(Role) /\ (Cardinality(C) = Cardinality(Role) => C = Role)
    BY <1>1, <1>2, FS_Subset
  <2> QED
    BY <1>2, <2>1
<1>4. (C = {} => Cardinality(C) = 0) /\ (C # {} => Cardinality(C) > 0)
  BY <1>2, FS_EmptySet
<1>5. RemainingReason(rows) \in {"process_restart", "deadline_cutoff", "role_failures"}
  BY DEF RemainingReason
<1> QED
  BY <1>3, <1>4, <1>5 DEF Verdict

\* No transaction breaks a CHECK of sessions.
LEMMA StepSessionRows ==
    ASSUME RowInv, [Next]_vars, NEW s \in Session
    PROVE  SessionRowOK(s)'
<1> USE DEF TerminalSession
<1>1. TypeOK /\ sessions[s] \in SessionRow /\ SessionRowOK(s)
  BY DEF RowInv, IInv, TypeOK, RowChecksHold
<1>2. CASE sessions'[s] = sessions[s]
  BY <1>1, <1>2 DEF SessionRowOK
<1>3. CASE NewlySubmitted(s)
  BY <1>1, <1>3, NewFields DEF SessionRowOK
<1>4. CASE NewlyFlagged(s)
  <2>1. sessions'[s].status \in {"queued", "reviewing"}
    BY <1>1, <1>4, NewFields DEF NewlyFlagged
  <2> QED
    BY <1>1, <1>4, <2>1, NewFields DEF SessionRowOK
<1>5. CASE NewlyClaimed(s)
  BY <1>1, <1>5, ClaimedRow DEF SessionRowOK
<1>6. CASE NewlyComposed(s)
  <2>1. /\ Reviewing(s) /\ clock \in Nat
        /\ sessions[s].claimed_at \in Nat /\ sessions[s].claimed_at >= sessions[s].created_at
    BY <1>1, <1>6 DEF NewlyComposed, Reviewing, SessionRowOK
  <2>2. /\ Later(clock, sessions[s].claimed_at) \in Nat
        /\ Later(clock, sessions[s].claimed_at) >= sessions[s].claimed_at
    BY <2>1 DEF Later
  <2>3. Null \notin Nat /\ Null \notin TerminalReason
    BY StoreConstants, NullIsNoWord
  <2>4. /\ sessions'[s].status \in TerminalSession /\ sessions'[s].terminal_reason # Null
        /\ sessions'[s].terminal_at # Null /\ sessions'[s].terminal_at >= sessions'[s].claimed_at
        /\ sessions'[s].claimed_at \in Nat
        /\ sessions'[s].claimed_at >= sessions'[s].created_at
    BY <1>1, <1>6, <2>1, <2>2, <2>3, NewFields, VerdictType
  <2> QED
    BY <1>1, <1>6, <2>4, NewFields, VerdictCounts DEF SessionRowOK
<1> QED
  BY <1>1, <1>2, <1>3, <1>4, <1>5, <1>6, SessionRowStep

\* No transaction breaks a row CHECK.
LEMMA StepRowChecks == ASSUME RowInv, [Next]_vars PROVE RowChecksHold'
<1>1. TypeOK /\ TypeOK'
  BY StepType DEF RowInv, IInv
<1>2. ASSUME NEW s \in Session, NEW r \in Role PROVE RoleRowOK(role_runs'[s][r])
  <2>1. role_runs[s][r] \in RoleRow /\ RoleRowOK(role_runs[s][r])
    BY DEF RowInv, IInv, TypeOK, RowChecksHold
  <2> QED
    BY <1>1, <2>1, RowStep, RowChangeOK
<1> QED
  BY <1>2, StepSessionRows DEF RowChecksHold

-----------------------------------------------------------------------------
(* The order of claims.                                                    *)

\* A claim takes the oldest queued session, and a new session is no older than
\* any that exists.
LEMMA StepNotOvertaken == ASSUME RowInv, [Next]_vars PROVE NotOvertaken'
<1> SUFFICES ASSUME NEW s \in Session, NEW q \in Session,
                    sessions'[s].claimed_at # Null, sessions'[q].status = "queued"
             PROVE  sessions'[s].created_at <= sessions'[q].created_at
  BY DEF NotOvertaken
<1>1. /\ TypeOK /\ sessions[s] \in SessionRow /\ sessions[q] \in SessionRow
      /\ SessionRowOK(s) /\ SessionRowOK(q)
  BY DEF RowInv, IInv, TypeOK, RowChecksHold
<1>2. /\ sessions'[s].created_at = sessions[s].created_at /\ sessions[s].status # "absent"
      /\ sessions[s].claimed_at # Null \/ NewlyClaimed(s)
  <2>1. sessions[s].claimed_at # Null => sessions[s].status # "absent"
    BY <1>1 DEF SessionRowOK
  <2> QED
    BY <1>1, <2>1, SessionRowStep, NewFields, ClaimedRow
       DEF NewlyFlagged, NewlyComposed, Reviewing
<1>3. \/ NewlySubmitted(q)
      \/ sessions[q].status = "queued" /\ sessions'[q].created_at = sessions[q].created_at
  BY <1>1, SessionRowStep, NewFields, ClaimedRow, VerdictType
     DEF NewlyFlagged, NewlyComposed, TerminalSession
<1>4. CASE NewlySubmitted(q)
  <2>1. sessions'[q].created_at = clock
    BY <1>1, <1>4, NewFields
  <2>2. sessions[s].created_at <= clock
    BY <1>2 DEF RowInv, CreatedInThePast
  <2> QED
    BY <1>2, <2>1, <2>2
<1>5. CASE sessions[q].status = "queued" /\ sessions'[q].created_at = sessions[q].created_at
  <2>1. CASE sessions[s].claimed_at # Null
    BY <1>2, <1>5, <2>1 DEF RowInv, NotOvertaken
  <2>2. CASE NewlyClaimed(s)
    <3>1. OldestQueued(s) /\ sessions'[s].status = "reviewing"
      BY <1>1, <2>2, ClaimedRow DEF NewlyClaimed
    <3>2. q # s
      BY <3>1
    <3>3. Before(s, q)
      BY <1>5, <3>1, <3>2 DEF OldestQueued
    <3>4. sessions[s].created_at \in Nat /\ sessions[q].created_at \in Nat
      BY <1>2, <1>5 DEF RowInv, CreatedInThePast
    <3> QED
      BY <1>2, <1>5, <3>3, <3>4 DEF Before
  <2> QED
    BY <1>2, <2>1, <2>2
<1> QED
  BY <1>3, <1>4, <1>5

-----------------------------------------------------------------------------
(* Room for a full call.                                                   *)

\* A session's claimed_at changes only while all its roles are pending.
LEMMA ClaimedAtStep ==
    ASSUME RowInv, [Next]_vars, NEW s \in Session
    PROVE  \/ sessions'[s].claimed_at = sessions[s].claimed_at
           \/ \A r \in Role : role_runs'[s][r].started_at = Null
<1>1. TypeOK /\ RolesFollowSession /\ sessions[s] \in SessionRow
  BY DEF RowInv, IInv, TypeOK
<1>2. CASE NewlySubmitted(s)
  <2>1. sessions[s].status = "absent" /\ sessions'[s].status = "queued"
    BY <1>1, <1>2, NewFields DEF NewlySubmitted
  <2>2. SessionRowOK(s)
    BY DEF RowInv, RowChecksHold
  <2>3. sessions[s].claimed_at = Null /\ sessions'[s].claimed_at = Null
    BY <1>1, <1>2, <2>1, <2>2, NewFields DEF SessionRowOK
  <2> QED
    BY <2>3
<1>3. CASE NewlyClaimed(s)
  <2>1. role_runs' = role_runs /\ sessions[s].status = "queued"
    BY <1>1, <1>3, ClaimedRow DEF NewlyClaimed
  <2>2. \A r \in Role : role_runs[s][r].status = "pending" /\ RoleRowOK(role_runs[s][r])
    BY <1>1, <2>1 DEF RolesFollowSession, RowInv, RowChecksHold
  <2> QED
    BY <2>1, <2>2 DEF RoleRowOK
<1> QED
  BY <1>1, <1>2, <1>3, SessionRowStep, NewFields

\* A reservation is made before the cutoff, which leaves time for a call.
LEMMA StepFullCall == ASSUME RowInv, [Next]_vars PROVE FullCallFits'
<1> SUFFICES ASSUME NEW s \in Session, NEW r \in Role,
                    role_runs'[s][r].started_at # Null
             PROVE  role_runs'[s][r].started_at + CallTimeout
                       < sessions'[s].claimed_at + SessionHardDeadline
  BY DEF FullCallFits, HardDeadlineAt
<1>1. /\ TypeOK /\ RolesFollowSession
      /\ role_runs[s][r] \in RoleRow /\ RoleRowOK(role_runs[s][r]) /\ SessionRowOK(s)
  BY DEF RowInv, IInv, TypeOK, RowChecksHold
<1>2. sessions'[s].claimed_at = sessions[s].claimed_at
  BY ClaimedAtStep
<1>3. CASE role_runs'[s][r].started_at = role_runs[s][r].started_at
  BY <1>2, <1>3 DEF RowInv, FullCallFits, HardDeadlineAt
<1>4. ASSUME NEW now \in Nat, Reviewing(s), now < DispatchCutoffAt(s),
             role_runs'[s][r] = Started(role_runs[s][r], now)
      PROVE  role_runs'[s][r].started_at + CallTimeout
                < sessions'[s].claimed_at + SessionHardDeadline
  <2>1. role_runs'[s][r].started_at = now
    BY <1>1, <1>4 DEF Started, RoleRow
  <2>2. sessions[s].claimed_at \in Nat
    BY <1>1, <1>4 DEF SessionRowOK, Reviewing
  <2> QED
    BY <1>2, <1>4, <2>1, <2>2, TimingPolicyValid DEF DispatchCutoffAt
<1> QED
  <2>1. RowChange(s, role_runs[s][r], role_runs'[s][r])
    BY <1>1, RowStep
  <2>2. PendingRun.started_at = Null
    BY DEF PendingRun
  <2>3. \A outcome, at :
           Published(role_runs[s][r], outcome, at).started_at = role_runs[s][r].started_at
    BY <1>1 DEF Published, RoleRow
  <2>4. \A why, at :
           Interrupted(role_runs[s][r], why, at).started_at = role_runs[s][r].started_at
    BY <1>1 DEF Interrupted, RoleRow
  <2> QED
    BY <1>3, <1>4, <2>1, <2>2, <2>3, <2>4 DEF RowChange

-----------------------------------------------------------------------------

\* A reservation stamps its role with a clock reading.
LEMMA StepStarted == ASSUME RowInv, [Next]_vars PROVE StartedInThePast'
<1> SUFFICES ASSUME NEW s \in Session, NEW r \in Role, role_runs'[s][r].started_at # Null
             PROVE  role_runs'[s][r].started_at <= clock'
  BY DEF StartedInThePast
<1>1. TypeOK /\ role_runs[s][r] \in RoleRow
  BY DEF RowInv, IInv, TypeOK
<1>2. clock \in Nat /\ clock' \in Nat /\ clock <= clock'
  BY <1>1, SessionRowStep
<1>3. \/ role_runs'[s][r].started_at = role_runs[s][r].started_at
      \/ role_runs'[s][r].started_at \in Nat /\ role_runs'[s][r].started_at <= clock
  <2>1. RowChange(s, role_runs[s][r], role_runs'[s][r])
    BY <1>1, RowStep
  <2>2. /\ PendingRun.started_at = Null
        /\ \A now : Started(role_runs[s][r], now).started_at = now
        /\ \A o, now : Published(role_runs[s][r], o, now).started_at = role_runs[s][r].started_at
        /\ \A why, now : Interrupted(role_runs[s][r], why, now).started_at
                            = role_runs[s][r].started_at
    BY <1>1 DEF RoleRow, PendingRun, Started, Published, Interrupted
  <2> QED
    BY <2>1, <2>2 DEF RowChange
<1>4. role_runs[s][r].started_at \in Nat \cup {Null}
  BY <1>1 DEF RoleRow, OptTime
<1> QED
  BY <1>2, <1>3, <1>4 DEF RowInv, StartedInThePast

\* Empty tables satisfy the invariant.
LEMMA InitRows == Init => RowInv
<1> SUFFICES ASSUME Init PROVE RowInv
  OBVIOUS
<1>1. /\ \A s \in Session : sessions[s] = NoSession
      /\ \A s \in Session, r \in Role : role_runs[s][r] = PendingRun
  BY DEF Init
<1>2. CreatedInThePast /\ StartedInThePast /\ NotOvertaken /\ FullCallFits
  BY <1>1 DEF CreatedInThePast, StartedInThePast, NotOvertaken, FullCallFits, NoSession, PendingRun
<1>3. RowChecksHold
  BY <1>1 DEF RowChecksHold, SessionRowOK, RoleRowOK, NoSession, PendingRun,
              TerminalSession, TerminalRole
<1> QED
  BY <1>2, <1>3, InitInv DEF RowInv

\* It holds in every reachable state.
THEOREM RowInvariance == Spec => []RowInv
<1>1. RowInv /\ [Next]_vars => RowInv'
  BY StepInv, StepCreated, StepStarted, StepRowChecks, StepNotOvertaken, StepFullCall DEF RowInv
<1> QED
  BY <1>1, InitRows, PTL DEF Spec

\* No transaction ever writes a row that a CHECK of 002_core_schema.sql would
\* refuse, however stale the clock readings are.
THEOREM ChecksNeverFire == Spec => []RowChecksHold
<1>1. RowInv => RowChecksHold
  BY DEF RowInv
<1> QED
  BY <1>1, RowInvariance, PTL

\* Reviews start in the order in which they were submitted.
THEOREM FirstComeFirstReviewed == Spec => []NotOvertaken
<1>1. RowInv => NotOvertaken
  BY DEF RowInv
<1> QED
  BY <1>1, RowInvariance, PTL

\* Every policy TimingPolicy.Validate accepts leaves a started role time for a
\* full call before the hard deadline.
THEOREM CallFitsBeforeDeadline == Spec => []FullCallFits
<1>1. RowInv => FullCallFits
  BY DEF RowInv
<1> QED
  BY <1>1, RowInvariance, PTL
=============================================================================
