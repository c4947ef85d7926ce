------------------------- MODULE ReviewStoreProofs -------------------------
(***************************************************************************)
(* Safety of the review store for every set of sessions, every role list,  *)
(* every in-flight cap and every timing policy TimingPolicy.Validate       *)
(* accepts.                                                                *)
(***************************************************************************)
EXTENDS ReviewStore, FiniteSetTheorems, TLAPS


\* The roles are finitely many, so the counts of role rows are numbers.
LEMMA RoleFinite == IsFiniteSet(Role)
<1>1. PICK n \in Nat : DOMAIN CanonicalRoles = 1..n
  BY StoreConstants
<1>2. IsFiniteSet(DOMAIN CanonicalRoles)
  BY <1>1, FS_Interval
<1>3. CanonicalRoles \in Surjection(DOMAIN CanonicalRoles, Role)
  BY StoreConstants DEF Surjection, Role
<1> QED
  BY <1>2, <1>3, FS_Surjection

\* Any set of roles has a natural number of members.
LEMMA RoleCount == ASSUME NEW R \in SUBSET Role
                   PROVE  IsFiniteSet(R) /\ Cardinality(R) \in Nat
  BY RoleFinite, FS_Subset, FS_CardinalityType

\* The composer's verdict is a terminal status with a terminal reason.
LEMMA VerdictType ==
    ASSUME NEW rows
    PROVE  /\ Verdict(rows).status \in TerminalSession
           /\ Verdict(rows).reason \in TerminalReason
  BY DEF Verdict, RemainingReason, TerminalSession, TerminalReason

\* Interrupting a row gives a row.
LEMMA InterruptedType ==
    ASSUME NEW row \in RoleRow, NEW why \in InterruptCause, NEW at \in OptTime
    PROVE  Interrupted(row, why, at) \in RoleRow
  BY DEF Interrupted, RoleRow, RoleStatus

\* So does starting one.
LEMMA StartedType ==
    ASSUME NEW row \in RoleRow, NEW now \in Nat
    PROVE  Started(row, now) \in RoleRow
  BY DEF Started, RoleRow, RoleStatus, OptTime

\* Publishing gives a row too.
LEMMA PublishedType ==
    ASSUME NEW row \in RoleRow, NEW now \in Nat,
           NEW outcome \in {"complete", "failed"}
    PROVE  Published(row, outcome, now) \in RoleRow
  BY DEF Published, RoleRow, RoleStatus, OptTime

\* Claiming a session row gives a session row.
LEMMA ClaimedType ==
    ASSUME NEW row \in SessionRow, NEW now \in Nat
    PROVE  Claimed(row, now) \in SessionRow
  BY DEF Claimed, SessionRow, SessionStatus, OptTime

\* Composing one does too, its counts and times included.
LEMMA ComposedType ==
    ASSUME NEW row \in SessionRow, NEW rows, NEW n \in Nat, NEW now \in Nat
    PROVE  Composed(row, Verdict(rows), n, now) \in SessionRow
<1>1. Later(now, row.claimed_at) \in OptTime
  BY DEF Later, SessionRow, OptTime
<1> QED
  BY <1>1, VerdictType DEF Composed, SessionRow, SessionStatus, TerminalSession

-----------------------------------------------------------------------------
(* Type correctness.                                                       *)

\* Empty tables are well typed.
LEMMA InitType == Init => TypeOK
  BY DEF Init, TypeOK, SessionRow, RoleRow, SessionStatus, RoleStatus, OptTime,
         NoSession, PendingRun

\* A clock reading is a time.
LEMMA ReadingType == TypeOK => Reading \subseteq Nat
  BY DEF TypeOK, Reading

\* Every write transaction leaves well-typed rows.
LEMMA StepType == TypeOK /\ [Next]_vars => TypeOK'
<1> SUFFICES ASSUME TypeOK, [Next]_vars PROVE TypeOK'
  OBVIOUS
<1> USE DEF OptTime
<1>1. CASE Tick
  BY <1>1 DEF Tick, TypeOK
<1>2. ASSUME NEW s \in Session, Submit(s) PROVE TypeOK'
  BY <1>2 DEF Submit, TypeOK, SessionRow, RoleRow, SessionStatus, RoleStatus,
              NoSession, PendingRun
<1>3. ASSUME NEW s \in Session, RequestCancellation(s) PROVE TypeOK'
  BY <1>3 DEF RequestCancellation, TypeOK, SessionRow
<1>4. ASSUME NEW s \in Session, NEW now \in Reading, ClaimSession(s, now)
      PROVE  TypeOK'
  BY <1>4, ReadingType, ClaimedType DEF ClaimSession, TypeOK
<1>5. ASSUME NEW s \in Session, NEW why \in InterruptCause, NEW now \in Reading,
             InterruptPending(s, why, now)
      PROVE  TypeOK'
  BY <1>5, ReadingType, InterruptedType DEF InterruptPending, TypeOK
<1>6. ASSUME NEW s \in Session, ComposeSession(s) PROVE TypeOK'
  <2>1. Cardinality(CompletedRoles(role_runs[s])) \in Nat
    BY RoleCount DEF CompletedRoles
  <2> QED
    BY <1>6, <2>1, ComposedType DEF ComposeSession, TypeOK
<1>7. ASSUME NEW s \in Session, NEW r \in Role, NEW now \in Reading,
             ReservePendingRole(s, r, now)
      PROVE  TypeOK'
  BY <1>7, ReadingType, StartedType DEF ReservePendingRole, TypeOK
<1>8. ASSUME NEW s \in Session, NEW r \in Role, NEW now \in Reading,
             NEW outcome \in {"complete", "failed"}, Publish(s, r, outcome, now)
      PROVE  TypeOK'
  BY <1>8, ReadingType, PublishedType DEF Publish, TypeOK
<1>9. ASSUME NEW cutoff, NEW now \in Reading, SweepRestartRecovery(cutoff, now)
      PROVE  TypeOK'
  <2>1. ASSUME NEW s \in Session, NEW row \in RoleRow
        PROVE  RecoveredRun(s, row, now) \in RoleRow
    <3>1. Later(now, row.started_at) \in OptTime
      BY ReadingType DEF Later, RoleRow
    <3>2. PendingCause(s) \in InterruptCause /\ "process_restart" \in InterruptCause
      BY DEF PendingCause, InterruptCause
    <3> QED
      BY <3>1, <3>2, InterruptedType, ReadingType DEF RecoveredRun
  <2> QED
    BY <1>9, <2>1 DEF SweepRestartRecovery, TypeOK
<1>10. CASE UNCHANGED vars
  BY <1>10 DEF vars, TypeOK
<1>11. {"user_cancelled", "deadline_cutoff"} \subseteq InterruptCause
  BY DEF InterruptCause
<1> QED
  BY <1>1, <1>2, <1>3, <1>4, <1>5, <1>6, <1>7, <1>8, <1>9, <1>10, <1>11
     DEF Next, SweepCancellation, SweepCutoff, SweepHardDeadline,
         PublishRoleSuccess, PublishRoleFailure

\* Every column of sessions and role_runs always holds a value of its type,
\* whatever transactions commit in whatever order.
THEOREM TypeCorrect == Spec => []TypeOK
  BY InitType, StepType, PTL DEF Spec

-----------------------------------------------------------------------------
(* What one transaction can do to the rows of one session.                 *)

\* The new row is a change the state model of a role run allows in a session
\* under review.
RowEffect(s, old, new) ==
    \/ new = old
    \/ /\ old.status \notin TerminalRole
       /\ new.status # "pending"
       /\ new.status = "interrupted" /\ new.cause = "user_cancelled"
             => sessions[s].cancel_requested
       /\ sessions[s].cancel_requested => new.started_at = old.started_at

RoleEffect(s) ==
    \/ role_runs'[s] = role_runs[s]
    \/ /\ sessions[s].status = "absent"
       /\ sessions'[s].status = "queued"
       /\ role_runs'[s] = [r \in Role |-> PendingRun]
    \/ /\ Reviewing(s) /\ sessions' = sessions
       /\ \A r \in Role : RowEffect(s, role_runs[s][r], role_runs'[s][r])

Submitted(s, new) ==
    /\ sessions[s].status = "absent"
    /\ role_runs'[s] = [r \in Role |-> PendingRun]
    /\ new.status = "queued"
    /\ new.terminal_reason = Null

Flagged(s, new) ==
    /\ sessions[s].status \in {"queued", "reviewing"}
    /\ role_runs' = role_runs
    /\ new.status = sessions[s].status
    /\ new.terminal_reason = sessions[s].terminal_reason
    /\ new.cancel_requested

TakenUp(s, new) ==
    /\ NoneReviewing /\ sessions[s].status = "queued"
    /\ role_runs' = role_runs
    /\ \A t \in Session \ {s} : sessions'[t] = sessions[t]
    /\ new.status = "reviewing"
    /\ new.terminal_reason = sessions[s].terminal_reason
    /\ new.cancel_requested = sessions[s].cancel_requested

Concluded(s, new) ==
    /\ Reviewing(s) /\ AllTerminal(s)
    /\ role_runs' = role_runs
    /\ new.status = Verdict(role_runs[s]).status
    /\ new.terminal_reason = Verdict(role_runs[s]).reason
    /\ new.completed_role_count = Cardinality(CompletedRoles(role_runs[s]))
    /\ new.cancel_requested = sessions[s].cancel_requested

SessionEffect(s) ==
    \/ sessions'[s] = sessions[s]
    \/ Submitted(s, sessions'[s])
    \/ Flagged(s, sessions'[s])
    \/ TakenUp(s, sessions'[s])
    \/ Concluded(s, sessions'[s])

\* Interrupting a row that is not terminal is such a change, provided that
\* "user_cancelled" is blamed only on a cancelled session.
LEMMA InterruptedEffect ==
    ASSUME NEW s, NEW row \in RoleRow, NEW why \in InterruptCause, NEW at,
           row.status \notin TerminalRole,
           why = "user_cancelled" => sessions[s].cancel_requested
    PROVE  RowEffect(s, row, Interrupted(row, why, at))
<1>1. /\ Interrupted(row, why, at).status = "interrupted"
      /\ Interrupted(row, why, at).cause = why
      /\ Interrupted(row, why, at).started_at = row.started_at
  BY DEF Interrupted, RoleRow
<1> QED
  BY <1>1 DEF RowEffect

\* So is the start of a pending role in a session nobody cancelled.
LEMMA StartedEffect ==
    ASSUME NEW s \in Session, NEW row \in RoleRow, NEW now,
           row.status = "pending", NotCancelled(s)
    PROVE  RowEffect(s, row, Started(row, now))
<1>1. Started(row, now).status = "in_flight"
  BY DEF Started, RoleRow
<1> QED
  BY <1>1 DEF RowEffect, NotCancelled, TerminalRole

\* So is the publication of a role in flight.
LEMMA PublishedEffect ==
    ASSUME NEW s \in Session, NEW row \in RoleRow, NEW now,
           NEW outcome \in {"complete", "failed"}, row.status = "in_flight"
    PROVE  RowEffect(s, row, Published(row, outcome, now))
<1>1. /\ Published(row, outcome, now).status = outcome
      /\ Published(row, outcome, now).started_at = row.started_at
  BY DEF Published, RoleRow
<1> QED
  BY <1>1 DEF RowEffect, TerminalRole

\* What the composition leaves in the session row.
LEMMA ComposedFields ==
    ASSUME NEW row \in SessionRow, NEW verdict, NEW n, NEW now
    PROVE  LET new == Composed(row, verdict, n, now)
           IN  /\ new.status = verdict.status
               /\ new.terminal_reason = verdict.reason
               /\ new.completed_role_count = n
               /\ new.cancel_requested = row.cancel_requested
  BY DEF Composed, SessionRow

\* What the claim leaves in it.
LEMMA ClaimedFields ==
    ASSUME NEW row \in SessionRow, NEW now
    PROVE  LET new == Claimed(row, now)
           IN  /\ new.status = "reviewing"
               /\ new.terminal_reason = row.terminal_reason
               /\ new.cancel_requested = row.cancel_requested
  BY DEF Claimed, SessionRow

\* No transaction changes the session row in any other way.
LEMMA SessionStep == ASSUME TypeOK, [Next]_vars, NEW s \in Session
                     PROVE  SessionEffect(s)
<1> USE DEF SessionEffect
<1>1. CASE UNCHANGED sessions
  BY <1>1
<1>2. ASSUME NEW t \in Session, Submit(t) PROVE SessionEffect(s)
  BY <1>2 DEF Submit, TypeOK, Submitted, NoSession
<1>3. ASSUME NEW t \in Session, RequestCancellation(t) PROVE SessionEffect(s)
  BY <1>3 DEF RequestCancellation, TypeOK, SessionRow, Flagged
<1>4. ASSUME NEW t \in Session, NEW now \in Reading, ClaimSession(t, now)
      PROVE  SessionEffect(s)
  BY <1>4, ClaimedFields DEF ClaimSession, OldestQueued, TypeOK, TakenUp
<1>5. ASSUME NEW t \in Session, ComposeSession(t) PROVE SessionEffect(s)
  BY <1>5, ComposedFields DEF ComposeSession, TypeOK, Concluded
<1> QED
  BY <1>1, <1>2, <1>3, <1>4, <1>5
     DEF Next, vars, Tick, SweepCancellation, SweepCutoff, SweepHardDeadline,
         InterruptPending, ReservePendingRole, PublishRoleSuccess,
         PublishRoleFailure, Publish, SweepRestartRecovery

\* No transaction changes role rows in any other way.  A publication looks
\* only at the role row: that the session is still under review is a
\* consequence of RolesFollowSession, not of a check.
LEMMA RoleStep ==
    ASSUME TypeOK, RolesFollowSession, [Next]_vars, NEW s \in Session
    PROVE  RoleEffect(s)
<1> USE DEF RoleEffect
<1>1. CASE UNCHANGED role_runs
  BY <1>1
<1>2. ASSUME NEW t \in Session, Submit(t) PROVE RoleEffect(s)
  BY <1>2 DEF Submit, TypeOK, NoSession
<1>3. ASSUME NEW t \in Session, NEW why \in InterruptCause, NEW now,
             Reviewing(t), InterruptPending(t, why, now),
             why = "user_cancelled" => sessions[t].cancel_requested
      PROVE  RoleEffect(s)
  <2>1. CASE s # t
    BY <1>3, <2>1 DEF InterruptPending, TypeOK
  <2>2. CASE s = t
    <3>1. ASSUME NEW r \in Role
          PROVE  RowEffect(s, role_runs[s][r], role_runs'[s][r])
      <4>1. role_runs[s][r] \in RoleRow
        BY DEF TypeOK
      <4>2. CASE role_runs[s][r].status = "pending"
        <5>1. role_runs'[s][r] = Interrupted(role_runs[s][r], why, now)
          BY <1>3, <2>2, <4>2 DEF InterruptPending, TypeOK
        <5> QED
          BY <1>3, <2>2, <4>1, <4>2, <5>1, InterruptedEffect DEF TerminalRole
      <4>3. CASE role_runs[s][r].status # "pending"
        BY <1>3, <2>2, <4>3 DEF InterruptPending, TypeOK, RowEffect
      <4> QED
        BY <4>2, <4>3
    <3> QED
      BY <1>3, <2>2, <3>1 DEF InterruptPending
  <2> QED
    BY <2>1, <2>2
<1>4. ASSUME NEW t \in Session, NEW q \in Role, NEW now,
             ReservePendingRole(t, q, now)
      PROVE  RoleEffect(s)
  <2>1. CASE s # t
    BY <1>4, <2>1 DEF ReservePendingRole, TypeOK
  <2>2. CASE s = t
    <3>1. RowEffect(s, role_runs[s][q], Started(role_runs[s][q], now))
      BY <1>4, <2>2, StartedEffect
         DEF ReservePendingRole, Reservable, NextPendingRole, RolesIn, TypeOK
    <3>2. \A r \in Role : RowEffect(s, role_runs[s][r], role_runs'[s][r])
      BY <1>4, <2>2, <3>1 DEF ReservePendingRole, TypeOK, RowEffect
    <3> QED
      BY <1>4, <2>2, <3>2 DEF ReservePendingRole, Reservable
  <2> QED
    BY <2>1, <2>2
<1>5. ASSUME NEW t \in Session, NEW q \in Role, NEW now,
             NEW outcome \in {"complete", "failed"}, Publish(t, q, outcome, now)
      PROVE  RoleEffect(s)
  <2>1. CASE s # t
    BY <1>5, <2>1 DEF Publish, TypeOK
  <2>2. CASE s = t
    <3>1. role_runs[s][q].status = "in_flight"
      BY <1>5, <2>2 DEF Publish, Publishable
    <3>2. Reviewing(s)
      BY <3>1 DEF RolesFollowSession, AllTerminal, TerminalRole, TerminalSession,
                  Reviewing, TypeOK, SessionRow, SessionStatus
    <3>3. RowEffect(s, role_runs[s][q], Published(role_runs[s][q], outcome, now))
      BY <3>1, PublishedEffect DEF TypeOK
    <3>4. \A r \in Role : RowEffect(s, role_runs[s][r], role_runs'[s][r])
      BY <1>5, <2>2, <3>3 DEF Publish, TypeOK, RowEffect
    <3> QED
      BY <1>5, <3>2, <3>4 DEF Publish
  <2> QED
    BY <2>1, <2>2
<1>6. ASSUME NEW cutoff, NEW now, SweepRestartRecovery(cutoff, now)
      PROVE  RoleEffect(s)
  <2>1. CASE ~Stale(s, cutoff)
    BY <1>6, <2>1 DEF SweepRestartRecovery
  <2>2. CASE Stale(s, cutoff)
    <3>1. ASSUME NEW r \in Role
          PROVE  RowEffect(s, role_runs[s][r], role_runs'[s][r])
      <4>1. role_runs[s][r] \in RoleRow
        BY DEF TypeOK
      <4>2. role_runs'[s][r] = RecoveredRun(s, role_runs[s][r], now)
        BY <1>6, <2>2 DEF SweepRestartRecovery
      <4>3. /\ PendingCause(s) \in InterruptCause
            /\ PendingCause(s) = "user_cancelled" => sessions[s].cancel_requested
            /\ "process_restart" \in InterruptCause
        BY DEF PendingCause, InterruptCause
      <4>4. CASE role_runs[s][r].status = "pending"
        BY <4>1, <4>2, <4>3, <4>4, InterruptedEffect DEF RecoveredRun, TerminalRole
      <4>5. CASE role_runs[s][r].status = "in_flight"
        BY <4>1, <4>2, <4>3, <4>5, InterruptedEffect DEF RecoveredRun, TerminalRole
      <4>6. CASE role_runs[s][r].status \notin {"pending", "in_flight"}
        BY <4>2, <4>6 DEF RecoveredRun, RowEffect
      <4> QED
        BY <4>4, <4>5, <4>6
    <3> QED
      BY <1>6, <2>2, <3>1 DEF SweepRestartRecovery, Stale
  <2> QED
    BY <2>1, <2>2
<1>7. {"user_cancelled", "deadline_cutoff"} \subseteq InterruptCause
  BY DEF InterruptCause
<1> QED
  BY <1>1, <1>2, <1>3, <1>4, <1>5, <1>6, <1>7
     DEF Next, vars, Tick, RequestCancellation, ClaimSession, ComposeSession,
         SweepCancellation, SweepCutoff, SweepHardDeadline,
         PublishRoleSuccess, PublishRoleFailure

-----------------------------------------------------------------------------
(* The inductive invariant.                                                *)

\* RolesFollowSession is what makes the others inductive: it keeps late
\* publications out of sessions that already have their verdict.
IInv ==
    /\ TypeOK
    /\ OneReviewing
    /\ RolesFollowSession
    /\ VerdictStaysTrue
    /\ CancelledOnlyOnRequest

\* A verdict is a record of its two fields.
LEMMA VerdictFields ==
    ASSUME NEW rows
    PROVE  Verdict(rows) = [status |-> Verdict(rows).status,
                            reason |-> Verdict(rows).reason]
  BY DEF Verdict

\* Empty tables satisfy the invariant.
LEMMA InitInv == Init => IInv
<1> SUFFICES ASSUME Init PROVE IInv
  OBVIOUS
<1>1. /\ \A s \in Session : sessions[s].status = "absent"
      /\ \A s \in Session : sessions[s].terminal_reason = Null
      /\ \A s \in Session, r \in Role : role_runs[s][r].status = "pending"
  BY DEF Init, NoSession, PendingRun
<1> QED
  BY <1>1, InitType, NullIsNoWord
     DEF IInv, OneReviewing, Reviewing, RolesFollowSession, VerdictStaysTrue,
         TerminalSession, CancelledOnlyOnRequest, HasCause, TerminalReason

\* Only a claim puts a session under review, and it found none there.
LEMMA StepOneReviewing == IInv /\ [Next]_vars => OneReviewing'
<1> SUFFICES ASSUME IInv, [Next]_vars, NEW s \in Session, NEW t \in Session,
                    Reviewing(s)', Reviewing(t)', s # t
             PROVE  FALSE
  BY DEF OneReviewing
<1>1. TypeOK /\ sessions[s] \in SessionRow /\ sessions[t] \in SessionRow
  BY DEF IInv, TypeOK
<1>2. ASSUME NEW u \in {s, t}, ~Reviewing(u) PROVE FALSE
  <2>1. TakenUp(u, sessions'[u])
    BY <1>1, <1>2, SessionStep, VerdictType
       DEF SessionEffect, Submitted, Flagged, Concluded, Reviewing, TerminalSession
  <2> QED
    BY <2>1 DEF TakenUp, NoneReviewing, Reviewing
<1> QED
  BY <1>2 DEF IInv, OneReviewing

\* A session before its claim has only pending roles, a session with a
\* verdict only terminal ones.
LEMMA StepRolesFollow == IInv /\ [Next]_vars => RolesFollowSession'
<1> SUFFICES ASSUME IInv, [Next]_vars, NEW s \in Session
             PROVE  /\ sessions'[s].status \in {"absent", "queued"} =>
                          \A r \in Role : role_runs'[s][r].status = "pending"
                    /\ sessions'[s].status \in TerminalSession =>
                          \A r \in Role : role_runs'[s][r].status \in TerminalRole
  BY DEF RolesFollowSession, AllTerminal
<1>1. TypeOK /\ RolesFollowSession /\ sessions[s] \in SessionRow
  BY DEF IInv, TypeOK
<1>2. CASE sessions'[s] = sessions[s]
  BY <1>1, <1>2, RoleStep
     DEF RoleEffect, RolesFollowSession, AllTerminal, Reviewing, TerminalSession
<1>3. CASE Submitted(s, sessions'[s])
  BY <1>3 DEF Submitted, PendingRun, TerminalSession
<1>4. CASE Flagged(s, sessions'[s])
  BY <1>1, <1>4 DEF Flagged, RolesFollowSession, AllTerminal
<1>5. CASE TakenUp(s, sessions'[s])
  BY <1>5 DEF TakenUp, TerminalSession
<1>6. CASE Concluded(s, sessions'[s])
  BY <1>6, VerdictType DEF Concluded, AllTerminal, TerminalSession
<1> QED
  BY <1>1, <1>2, <1>3, <1>4, <1>5, <1>6, SessionStep DEF SessionEffect

\* Nothing about a session with a verdict changes: neither its row nor one of
\* its role rows.
LEMMA TerminalQuiet ==
    ASSUME IInv, [Next]_vars, NEW s \in Session,
           sessions[s].status \in TerminalSession
    PROVE  sessions'[s] = sessions[s] /\ role_runs'[s] = role_runs[s]
  BY SessionStep, RoleStep
     DEF IInv, SessionEffect, Submitted, Flagged, TakenUp, Concluded,
         RoleEffect, TerminalSession, Reviewing

\* The verdict is right when it is stored and nothing moves afterwards.
LEMMA StepVerdict == IInv /\ [Next]_vars => VerdictStaysTrue'
<1> SUFFICES ASSUME IInv, [Next]_vars, NEW s \in Session,
                    sessions'[s].status \in TerminalSession
             PROVE  /\ Verdict(role_runs'[s]) =
                          [status |-> sessions'[s].status,
                           reason |-> sessions'[s].terminal_reason]
                    /\ sessions'[s].completed_role_count =
                          Cardinality(CompletedRoles(role_runs'[s]))
  BY DEF VerdictStaysTrue
<1>1. TypeOK /\ sessions[s] \in SessionRow
  BY DEF IInv, TypeOK
<1>2. CASE sessions[s].status \in TerminalSession
  BY <1>2, TerminalQuiet DEF IInv, VerdictStaysTrue
<1>3. CASE sessions[s].status \notin TerminalSession
  <2>1. Concluded(s, sessions'[s])
    BY <1>1, <1>3, SessionStep
       DEF SessionEffect, Submitted, Flagged, TakenUp, TerminalSession
  <2> QED
    BY <2>1, VerdictFields DEF Concluded
<1> QED
  BY <1>2, <1>3

\* A verdict blames the owner only if an interrupted role does.
LEMMA VerdictBlame ==
    ASSUME NEW rows, Verdict(rows).reason = "user_cancelled"
    PROVE  HasCause(rows, "user_cancelled")
  BY DEF Verdict, RemainingReason

\* "user_cancelled" enters a role row only by sweeps that saw the flag, the
\* flag stays set, and the verdict takes its reason from the role rows.
LEMMA StepCancelled == IInv /\ [Next]_vars => CancelledOnlyOnRequest'
<1> SUFFICES ASSUME IInv, [Next]_vars, NEW s \in Session,
                    ~sessions'[s].cancel_requested
             PROVE  /\ ~HasCause(role_runs'[s], "user_cancelled")
                    /\ sessions'[s].terminal_reason # "user_cancelled"
  BY DEF CancelledOnlyOnRequest
<1>1. TypeOK /\ RolesFollowSession /\ sessions[s] \in SessionRow
  BY DEF IInv, TypeOK
<1>2. CASE Submitted(s, sessions'[s])
  BY <1>2, NullIsNoWord DEF Submitted, HasCause, PendingRun, TerminalReason
<1>3. CASE ~Submitted(s, sessions'[s])
  <2>1. ~sessions[s].cancel_requested
    BY <1>1, <1>3, SessionStep DEF SessionEffect, Flagged, TakenUp, Concluded
  <2>2. /\ ~HasCause(role_runs[s], "user_cancelled")
        /\ sessions[s].terminal_reason # "user_cancelled"
    BY <2>1 DEF IInv, CancelledOnlyOnRequest
  <2>3. ~HasCause(role_runs'[s], "user_cancelled")
    BY <1>1, <2>1, <2>2, RoleStep DEF RoleEffect, RowEffect, HasCause, PendingRun
  <2>4. sessions'[s].terminal_reason # "user_cancelled"
    BY <1>1, <1>3, <2>2, SessionStep, VerdictBlame
       DEF SessionEffect, Flagged, TakenUp, Concluded
  <2> QED
    BY <2>3, <2>4
<1> QED
  BY <1>2, <1>3

\* The invariant is inductive.
LEMMA StepInv == IInv /\ [Next]_vars => IInv'
  BY StepType, StepOneReviewing, StepRolesFollow, StepVerdict, StepCancelled DEF IInv

\* It holds in every reachable state.
THEOREM InvariantHolds == Spec => []IInv
  BY InitInv, StepInv, PTL DEF Spec

\* The claim's check inside its transaction is enough: two sessions are never
\* under review at the same time.
THEOREM AtMostOneReviewing == Spec => []OneReviewing
<1>1. IInv => OneReviewing
  BY DEF IInv
<1> QED
  BY <1>1, InvariantHolds, PTL

\* No role runs before the claim and none is left behind by the composition.
THEOREM RolesInsideSession == Spec => []RolesFollowSession
<1>1. IInv => RolesFollowSession
  BY DEF IInv
<1> QED
  BY <1>1, InvariantHolds, PTL

\* A stored verdict always agrees with the role rows, although publications,
\* sweeps and recovery never look at it.
THEOREM VerdictNeverContradicted == Spec => []VerdictStaysTrue
<1>1. IInv => VerdictStaysTrue
  BY DEF IInv
<1> QED
  BY <1>1, InvariantHolds, PTL

\* Cancellation is reported only to an owner who asked for it.
THEOREM NoUnaskedCancellation == Spec => []CancelledOnlyOnRequest
<1>1. IInv => CancelledOnlyOnRequest
  BY DEF IInv
<1> QED
  BY <1>1, InvariantHolds, PTL

\* A terminal role row never changes, nor does a terminal session row (the
\* immutability triggers of 003_state_guards.sql never have to fire).
THEOREM TerminalRowsFrozen == Spec => TerminalFrozen
<1>1. ASSUME IInv, [Next]_vars
      PROVE  /\ \A s \in Session, r \in Role :
                   role_runs[s][r].status \in TerminalRole =>
                       role_runs'[s][r] = role_runs[s][r]
             /\ \A s \in Session :
                   sessions[s].status \in TerminalSession =>
                       sessions'[s] = sessions[s]
  <2>1. ASSUME NEW s \in Session, NEW r \in Role,
               role_runs[s][r].status \in TerminalRole
        PROVE  role_runs'[s][r] = role_runs[s][r]
    BY <1>1, <2>1, RoleStep
       DEF IInv, RoleEffect, RowEffect, RolesFollowSession, TerminalRole
  <2> QED
    BY <1>1, <2>1, TerminalQuiet
<1> QED
  BY <1>1, InvariantHolds, PTL DEF Spec, TerminalFrozen

\* After a committed cancellation no pending role of the session starts.
THEOREM CancelStopsDispatch == Spec => NoStartAfterCancel
<1>1. ASSUME IInv, [Next]_vars
      PROVE  \A s \in Session, r \in Role :
                sessions[s].cancel_requested /\ role_runs[s][r].started_at = Null
                   => role_runs'[s][r].started_at = Null
  BY <1>1, RoleStep DEF IInv, RoleEffect, RowEffect, PendingRun
<1> QED
  BY <1>1, InvariantHolds, PTL DEF Spec, NoStartAfterCancel

-----------------------------------------------------------------------------
(* The in-flight cap.                                                      *)

\* An interrupted row is not in flight.
LEMMA InterruptedStatus ==
    ASSUME NEW row \in RoleRow, NEW why, NEW at
    PROVE  Interrupted(row, why, at).status = "interrupted"
  BY DEF Interrupted, RoleRow

\* A transaction adds at most one role to those in flight, and only while a
\* slot is free.
LEMMA InFlightStep ==
    ASSUME TypeOK, [Next]_vars, NEW s \in Session
    PROVE  \/ RolesIn(s, "in_flight")' \subseteq RolesIn(s, "in_flight")
           \/ /\ SlotFree(s)
              /\ \E q \in Role :
                    RolesIn(s, "in_flight")' \subseteq RolesIn(s, "in_flight") \cup {q}
<1> DEFINE Goal == \/ RolesIn(s, "in_flight")' \subseteq RolesIn(s, "in_flight")
                   \/ /\ SlotFree(s)
                      /\ \E q \in Role : RolesIn(s, "in_flight")'
                                           \subseteq RolesIn(s, "in_flight") \cup {q}
<1>1. CASE role_runs'[s] = role_runs[s]
  BY <1>1 DEF RolesIn
<1>2. CASE role_runs'[s] = [r \in Role |-> PendingRun]
  BY <1>2 DEF RolesIn, PendingRun
<1>3. ASSUME NEW why, NEW now, InterruptPending(s, why, now) PROVE Goal
  <2>1. \A r \in Role : Interrupted(role_runs[s][r], why, now).status = "interrupted"
    BY InterruptedStatus DEF TypeOK
  <2>2. \A r \in Role : role_runs'[s][r].status = "in_flight" =>
                           role_runs[s][r].status = "in_flight"
    BY <1>3, <2>1 DEF InterruptPending, TypeOK
  <2> QED
    BY <2>2 DEF RolesIn
<1>4. ASSUME NEW q \in Role, NEW now, ReservePendingRole(s, q, now) PROVE Goal
  BY <1>4 DEF ReservePendingRole, Reservable, RolesIn, TypeOK
<1>5. ASSUME NEW q \in Role, NEW now, NEW outcome \in {"complete", "failed"},
             Publish(s, q, outcome, now)
      PROVE  Goal
  BY <1>5 DEF Publish, Published, RolesIn, TypeOK, RoleRow
<1>6. ASSUME NEW cutoff, NEW now, SweepRestartRecovery(cutoff, now) PROVE Goal
  <2>1. \A r \in Role : \A why, at :
           Interrupted(role_runs[s][r], why, at).status = "interrupted"
    BY InterruptedStatus DEF TypeOK
  <2>2. \A r \in Role : role_runs'[s][r].status = "in_flight" =>
                           role_runs[s][r].status = "in_flight"
    BY <1>6, <2>1 DEF SweepRestartRecovery, RecoveredRun
  <2> QED
    BY <2>2 DEF RolesIn
<1>7. ASSUME NEW t \in Session, Submit(t) PROVE Goal
  BY <1>1, <1>2, <1>7 DEF Submit, TypeOK
<1>8. ASSUME NEW t \in Session, NEW why, NEW now, InterruptPending(t, why, now)
      PROVE  Goal
  <2>1. CASE t = s
    BY <1>3, <1>8, <2>1
  <2>2. CASE t # s
    BY <1>1, <1>8, <2>2 DEF InterruptPending, TypeOK
  <2> QED
    BY <2>1, <2>2
<1>9. ASSUME NEW t \in Session, NEW q \in Role, NEW now,
              ReservePendingRole(t, q, now)
       PROVE  Goal
  BY <1>1, <1>4, <1>9 DEF ReservePendingRole, TypeOK
<1>10. ASSUME NEW t \in Session, NEW q \in Role, NEW now,
              NEW outcome \in {"complete", "failed"}, Publish(t, q, outcome, now)
       PROVE  Goal
  BY <1>1, <1>5, <1>10 DEF Publish, TypeOK
<1>11. CASE UNCHANGED role_runs
  BY <1>1, <1>11
<1> QED
  BY <1>6, <1>7, <1>8, <1>9, <1>10, <1>11
     DEF Next, vars, Tick, RequestCancellation, ClaimSession, ComposeSession,
         SweepCancellation, SweepCutoff, SweepHardDeadline,
         PublishRoleSuccess, PublishRoleFailure

\* However reservations, publications, sweeps and recovery interleave, a
\* session never has more than MaxInFlight roles in flight.
THEOREM CapRespected == Spec => []InFlightCap
<1>1. Init => InFlightCap
  <2> SUFFICES ASSUME Init, NEW s \in Session
               PROVE  Cardinality(RolesIn(s, "in_flight")) <= MaxInFlight
    BY DEF InFlightCap
  <2>1. RolesIn(s, "in_flight") = {}
    BY DEF Init, RolesIn, PendingRun
  <2>2. Cardinality(RolesIn(s, "in_flight")) = 0
    BY <2>1, FS_EmptySet, Zenon
  <2> QED
    BY <2>2, StoreConstants
<1>2. TypeOK /\ InFlightCap /\ [Next]_vars => InFlightCap'
  <2> SUFFICES ASSUME TypeOK, InFlightCap, [Next]_vars, NEW s \in Session
               PROVE  Cardinality(RolesIn(s, "in_flight")') <= MaxInFlight
    BY DEF InFlightCap
  <2> DEFINE old == RolesIn(s, "in_flight")
             new == RolesIn(s, "in_flight")'
  <2>1. /\ IsFiniteSet(old) /\ Cardinality(old) \in Nat
        /\ Cardinality(old) <= MaxInFlight
    BY RoleCount DEF RolesIn, InFlightCap
  <2>2. Cardinality(new) \in Nat
    BY RoleCount DEF RolesIn
  <2>3. CASE new \subseteq old
    <3>1. Cardinality(new) <= Cardinality(old)
      BY <2>1, <2>3, FS_Subset
    <3> QED
      BY <2>1, <2>2, <3>1, StoreConstants
  <2>4. ASSUME NEW q \in Role, SlotFree(s), new \subseteq old \cup {q}
        PROVE  Cardinality(new) <= MaxInFlight
    <3> HIDE DEF old, new
    <3>1. /\ IsFiniteSet(old \cup {q})
          /\ \/ Cardinality(old \cup {q}) = Cardinality(old)
             \/ Cardinality(old \cup {q}) = Cardinality(old) + 1
      BY <2>1, FS_AddElement
    <3>2. Cardinality(new) <= Cardinality(old \cup {q})
      BY <2>4, <3>1, FS_Subset
    <3>3. Cardinality(old \cup {q}) \in Nat
      BY <3>1, FS_CardinalityType
    <3>4. Cardinality(old) < MaxInFlight
      BY <2>4 DEF SlotFree, old
    <3> QED
      BY <2>1, <2>2, <3>1, <3>2, <3>3, <3>4, StoreConstants
  <2> QED
    BY <2>3, <2>4, InFlightStep
<1> QED
  BY <1>1, <1>2, TypeCorrect, PTL DEF Spec
=============================================================================
