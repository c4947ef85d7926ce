----------------------- MODULE ReviewStoreRefinement -----------------------
(***************************************************************************)
(* The review store implements ReviewLifecycle: every transaction is a     *)
(* step the lifecycle promised to the owner allows, or invisible to it.    *)
(***************************************************************************)
EXTENDS ReviewStoreRowProofs

\* What the lifecycle sees of the tables.
Phase == [s \in Session |-> sessions[s].status]

Reason == [s \in Session |-> IF sessions[s].terminal_reason = Null
                             THEN "none" ELSE sessions[s].terminal_reason]

Outcomes == [s \in Session |-> [r \in Role |-> OutcomeOf(role_runs[s][r])]]

CancelFlags == [s \in Session |-> sessions[s].cancel_requested]

Seen == <<Phase, Reason, Outcomes, CancelFlags>>

\* A session that does not exist has no column set.  (The lifecycle's Submit
\* keeps the cancel flag and the reason, the store's writes a new row.)
AbsentIsBlank ==
    \A s \in Session : sessions[s].status = "absent" => sessions[s] = NoSession

RefInv == RowInv /\ AbsentIsBlank

\* Rows come into being by Submit and are never removed.
LEMMA StepBlank == ASSUME RefInv, [Next]_vars PROVE AbsentIsBlank'
<1> SUFFICES ASSUME NEW s \in Session, sessions'[s].status = "absent"
             PROVE  sessions'[s] = sessions[s] /\ sessions[s].status = "absent"
  BY DEF AbsentIsBlank, RefInv
<1>1. TypeOK /\ sessions[s] \in SessionRow
  BY DEF RefInv, RowInv, IInv, TypeOK
<1> QED
  BY <1>1, SessionRowStep, NewFields, ClaimedRow, VerdictType
     DEF NewlyFlagged, TerminalSession

\* Whatever the lifecycle sees is a function of the tables.
LEMMA TablesSeen ==
    /\ UNCHANGED sessions => Phase' = Phase /\ Reason' = Reason /\ CancelFlags' = CancelFlags
    /\ UNCHANGED role_runs => Outcomes' = Outcomes
  BY DEF Phase, Reason, CancelFlags, Outcomes

\* A settled outcome tells the row's status and cause.
LEMMA OutcomeFacts ==
    ASSUME NEW row \in RoleRow, RoleRowOK(row)
    PROVE  /\ \A st \in {"pending", "in_flight", "complete", "failed"} :
                 OutcomeOf(row) = st <=> row.status = st
           /\ \A why \in InterruptCause :
                 OutcomeOf(row) = why <=> row.status = "interrupted" /\ row.cause = why
           /\ row.status \in TerminalRole <=> OutcomeOf(row) \in Lifecycle!Settled
  BY NullIsNoWord
     DEF OutcomeOf, RoleRow, RoleStatus, RoleRowOK, InterruptCause, TerminalRole,
         Lifecycle!Settled, Lifecycle!Cause

-----------------------------------------------------------------------------
(* One transaction at a time.                                              *)

\* A new row is a submission; its role runs are pending before and after.
LEMMA SubmitRefines ==
    ASSUME RefInv, NEW s \in Session, Submit(s)
    PROVE  Lifecycle!Submit(s)
<1>1. /\ TypeOK /\ sessions[s] = NoSession /\ RolesFollowSession
      /\ sessions[s].status = "absent"
  BY DEF RefInv, RowInv, IInv, AbsentIsBlank, Submit
<1>2. /\ sessions'[s].status = "queued" /\ sessions'[s].terminal_reason = Null
      /\ sessions'[s].cancel_requested = FALSE
      /\ \A t \in Session \ {s} : sessions'[t] = sessions[t]
  BY <1>1 DEF Submit, TypeOK, NoSession
<1>3. Phase[s] = "absent" /\ Phase' = [Phase EXCEPT ![s] = "queued"]
  BY <1>1, <1>2 DEF Phase
<1>4. sessions[s].terminal_reason = Null /\ sessions[s].cancel_requested = FALSE
  BY <1>1 DEF NoSession
<1>5. Reason' = Reason
  BY <1>2, <1>4 DEF Reason
<1>6. CancelFlags' = CancelFlags
  BY <1>2, <1>4 DEF CancelFlags
<1>7. Outcomes' = Outcomes
  <2>1. \A r \in Role : OutcomeOf(role_runs'[s][r]) = "pending"
    BY <1>1 DEF Submit, TypeOK, PendingRun, OutcomeOf
  <2>2. \A r \in Role : OutcomeOf(role_runs[s][r]) = "pending"
    BY <1>1 DEF RolesFollowSession, OutcomeOf
  <2>3. \A t \in Session \ {s} : role_runs'[t] = role_runs[t]
    BY <1>1 DEF Submit, TypeOK
  <2> QED
    BY <2>1, <2>2, <2>3 DEF Outcomes
<1> QED
  BY <1>3, <1>5, <1>6, <1>7 DEF Lifecycle!Submit, Phase, Reason, CancelFlags, Outcomes

\* RequestCancellation only sets the flag.
LEMMA CancelRefines ==
    ASSUME RefInv, NEW s \in Session, RequestCancellation(s)
    PROVE  Lifecycle!Cancel(s)
<1>1. /\ TypeOK /\ sessions[s] \in SessionRow
      /\ sessions[s].status \in {"queued", "reviewing"} /\ role_runs' = role_runs
  BY DEF RefInv, RowInv, IInv, TypeOK, RequestCancellation
<1>2. /\ sessions'[s] = [sessions[s] EXCEPT !.cancel_requested = TRUE]
      /\ \A t \in Session \ {s} : sessions'[t] = sessions[t]
  BY <1>1 DEF RequestCancellation, TypeOK
<1>3. /\ sessions'[s].status = sessions[s].status /\ sessions'[s].cancel_requested
      /\ sessions'[s].cancel_requested = TRUE
      /\ sessions'[s].terminal_reason = sessions[s].terminal_reason
  BY <1>1, <1>2 DEF SessionRow
<1>4. Phase' = Phase /\ Reason' = Reason /\ Phase[s] \in {"queued", "reviewing"}
  <2>1. \A t \in Session : /\ sessions'[t].status = sessions[t].status
                            /\ sessions'[t].terminal_reason = sessions[t].terminal_reason
    BY <1>2, <1>3
  <2>2. Phase' = Phase
    BY <2>1 DEF Phase
  <2>3. Reason' = Reason
    BY <2>1 DEF Reason
  <2> QED
    BY <1>1, <2>2, <2>3 DEF Phase
<1>5. CancelFlags' = [CancelFlags EXCEPT ![s] = TRUE]
  BY <1>2, <1>3 DEF CancelFlags
<1>6. Outcomes' = Outcomes
  BY <1>1, TablesSeen
<1> QED
  BY <1>4, <1>5, <1>6 DEF Lifecycle!Cancel, Phase, Reason, CancelFlags, Outcomes

\* A claim is one, because none is under review.
LEMMA ClaimRefines ==
    ASSUME RefInv, NEW s \in Session, NEW now, ClaimSession(s, now)
    PROVE  Lifecycle!Claim(s)
<1>1. /\ TypeOK /\ sessions[s] \in SessionRow /\ role_runs' = role_runs
      /\ sessions[s].status = "queued" /\ \A t \in Session : sessions[t].status # "reviewing"
  BY DEF RefInv, RowInv, IInv, TypeOK, ClaimSession, OldestQueued, NoneReviewing, Reviewing
<1>2. /\ sessions'[s] = Claimed(sessions[s], now)
      /\ \A t \in Session \ {s} : sessions'[t] = sessions[t]
  BY <1>1 DEF ClaimSession, TypeOK
<1>3. /\ sessions'[s].status = "reviewing"
      /\ sessions'[s].terminal_reason = sessions[s].terminal_reason
      /\ sessions'[s].cancel_requested = sessions[s].cancel_requested
  BY <1>1, <1>2, ClaimedFields
<1>4. /\ Phase[s] = "queued" /\ \A t \in Session : Phase[t] # "reviewing"
      /\ Phase' = [Phase EXCEPT ![s] = "reviewing"]
  BY <1>1, <1>2, <1>3 DEF Phase
<1>5. Reason' = Reason /\ CancelFlags' = CancelFlags
  BY <1>2, <1>3 DEF Reason, CancelFlags
<1>6. Outcomes' = Outcomes
  BY <1>1, TablesSeen
<1> QED
  BY <1>4, <1>5, <1>6 DEF Lifecycle!Claim, Phase, Reason, CancelFlags, Outcomes

\* A change of role rows alone is seen only in the outcomes.
LEMMA RoleRowsSeen ==
    ASSUME TypeOK, UNCHANGED sessions, NEW s \in Session, NEW new,
           \A t \in Session \ {s} : role_runs'[t] = role_runs[t],
           \A r \in Role : OutcomeOf(role_runs'[s][r]) = new[r],
           new = [r \in Role |-> new[r]]
    PROVE  /\ Outcomes' = [Outcomes EXCEPT ![s] = new]
           /\ Phase' = Phase /\ Reason' = Reason /\ CancelFlags' = CancelFlags
<1>1. Phase' = Phase /\ Reason' = Reason /\ CancelFlags' = CancelFlags
  BY TablesSeen
<1>2. \A t \in Session \ {s} : Outcomes'[t] = Outcomes[t]
  BY DEF Outcomes
<1>3. Outcomes'[s] = new
  BY DEF Outcomes
<1> QED
  BY <1>1, <1>2, <1>3 DEF Outcomes

\* A sweep interrupts the pending roles of a session under review.
LEMMA SweepRefines ==
    ASSUME RefInv, NEW s \in Session, NEW why \in InterruptCause, NEW now,
           Reviewing(s), why = "user_cancelled" => sessions[s].cancel_requested,
           InterruptPending(s, why, now)
    PROVE  Lifecycle!InterruptRoles(s, RolesIn(s, "pending"), why)
<1> DEFINE new == [r \in Role |-> IF r \notin RolesIn(s, "pending") THEN Outcomes[s][r]
                                  ELSE IF Outcomes[s][r] = "pending" THEN why
                                  ELSE "process_restart"]
<1>1. /\ TypeOK /\ UNCHANGED sessions /\ Phase[s] = "reviewing"
      /\ why = "user_cancelled" => CancelFlags[s]
  BY DEF RefInv, RowInv, IInv, InterruptPending, Reviewing, Phase, CancelFlags
<1>2. \A t \in Session \ {s} : role_runs'[t] = role_runs[t]
  BY <1>1 DEF InterruptPending, TypeOK
<1>3. ASSUME NEW r \in Role
      PROVE  /\ OutcomeOf(role_runs'[s][r]) = new[r]
             /\ r \in RolesIn(s, "pending") => Outcomes[s][r] = "pending"
  <2>1. /\ role_runs[s][r] \in RoleRow
        /\ Outcomes[s][r] = OutcomeOf(role_runs[s][r])
        /\ r \in RolesIn(s, "pending") <=> role_runs[s][r].status = "pending"
    BY <1>1 DEF TypeOK, Outcomes, RolesIn
  <2>2. role_runs'[s][r] = IF role_runs[s][r].status = "pending"
                           THEN Interrupted(role_runs[s][r], why, now)
                           ELSE role_runs[s][r]
    BY <1>1 DEF InterruptPending, TypeOK
  <2>3. OutcomeOf(Interrupted(role_runs[s][r], why, now)) = why
    BY <2>1 DEF OutcomeOf, Interrupted, RoleRow
  <2>4. r \in RolesIn(s, "pending") => Outcomes[s][r] = "pending"
    BY <2>1 DEF OutcomeOf
  <2> QED
    BY <2>1, <2>2, <2>3, <2>4
<1>4. /\ Outcomes' = [Outcomes EXCEPT ![s] = new]
      /\ Phase' = Phase /\ Reason' = Reason /\ CancelFlags' = CancelFlags
  <2>1. new = [r \in Role |-> new[r]]
    OBVIOUS
  <2>2. \A r \in Role : OutcomeOf(role_runs'[s][r]) = new[r]
    BY <1>3
  <2> HIDE DEF new
  <2> QED
    BY <1>1, <1>2, <2>1, <2>2, RoleRowsSeen
<1> QED
  BY <1>1, <1>3, <1>4
     DEF Lifecycle!InterruptRoles, Phase, Reason, CancelFlags, Outcomes, RolesIn

\* One row of a session under review moves on.
LEMMA OneRowSeen ==
    ASSUME TypeOK, UNCHANGED sessions, NEW s \in Session, NEW r \in Role, NEW row,
           role_runs' = [role_runs EXCEPT ![s][r] = row]
    PROVE  /\ Outcomes' = [Outcomes EXCEPT ![s][r] = OutcomeOf(row)]
           /\ Phase' = Phase /\ Reason' = Reason /\ CancelFlags' = CancelFlags
<1>1. Phase' = Phase /\ Reason' = Reason /\ CancelFlags' = CancelFlags
  BY TablesSeen
<1>2. /\ \A t \in Session \ {s} : role_runs'[t] = role_runs[t]
      /\ role_runs'[s] = [role_runs[s] EXCEPT ![r] = row]
      /\ \A q \in Role \ {r} : role_runs'[s][q] = role_runs[s][q]
      /\ role_runs'[s][r] = row
  BY DEF TypeOK
<1>3. \A t \in Session \ {s} : Outcomes'[t] = Outcomes[t]
  BY <1>2 DEF Outcomes
<1>4. Outcomes'[s] = [Outcomes[s] EXCEPT ![r] = OutcomeOf(row)]
  <2>1. Outcomes'[s] = [q \in Role |-> OutcomeOf(role_runs'[s][q])]
    BY DEF Outcomes
  <2>2. Outcomes[s] = [q \in Role |-> OutcomeOf(role_runs[s][q])]
    BY DEF Outcomes
  <2>3. Outcomes'[s][r] = OutcomeOf(row)
    BY <1>2, <2>1
  <2>4. ASSUME NEW q \in Role \ {r} PROVE Outcomes'[s][q] = Outcomes[s][q]
    BY <1>2, <2>1, <2>2
  <2>5. DOMAIN Outcomes[s] = Role /\ DOMAIN Outcomes'[s] = Role
    BY <2>1, <2>2
  <2>6. Outcomes[s] = [q \in Role |-> Outcomes[s][q]]
    BY <2>2
  <2>7. Outcomes'[s] = [q \in Role |-> Outcomes'[s][q]]
    BY <2>1
  <2> DEFINE f == Outcomes[s]
             g == Outcomes'[s]
             x == OutcomeOf(row)
  <2> HIDE DEF f, g, x
  <2>8. g[r] = x /\ (\A q \in Role \ {r} : g[q] = f[q]) /\ DOMAIN f = Role
        /\ f = [q \in Role |-> f[q]] /\ g = [q \in Role |-> g[q]]
    BY <2>3, <2>4, <2>5, <2>6, <2>7 DEF f, g, x
  <2>9. g = [f EXCEPT ![r] = x]
    BY <2>8
  <2> QED
    BY <2>9 DEF f, g, x
<1> QED
  BY <1>1, <1>3, <1>4 DEF Outcomes

\* A reservation starts a pending role of a review nobody cancelled.
LEMMA ReserveRefines ==
    ASSUME RefInv, NEW s \in Session, NEW r \in Role, NEW now, ReservePendingRole(s, r, now)
    PROVE  Lifecycle!Start(s, r)
<1> DEFINE row == Started(role_runs[s][r], now)
<1>1. /\ TypeOK /\ UNCHANGED sessions /\ Phase[s] = "reviewing" /\ ~CancelFlags[s]
      /\ role_runs[s][r] \in RoleRow /\ role_runs[s][r].status = "pending"
      /\ role_runs' = [role_runs EXCEPT ![s][r] = row]
  BY DEF RefInv, RowInv, IInv, TypeOK, ReservePendingRole, Reservable, Reviewing,
         NotCancelled, NextPendingRole, RolesIn, Phase, CancelFlags
<1>2. OutcomeOf(row) = "in_flight" /\ Outcomes[s][r] = "pending"
  BY <1>1 DEF OutcomeOf, Started, RoleRow, Outcomes
<1>3. /\ Outcomes' = [Outcomes EXCEPT ![s][r] = "in_flight"]
      /\ Phase' = Phase /\ Reason' = Reason /\ CancelFlags' = CancelFlags
  <2> HIDE DEF row
  <2>1. Outcomes' = [Outcomes EXCEPT ![s][r] = OutcomeOf(row)]
    BY <1>1, OneRowSeen
  <2> QED
    BY <1>1, <1>2, <2>1, TablesSeen
<1> QED
  BY <1>1, <1>2, <1>3 DEF Lifecycle!Start, Phase, Reason, CancelFlags, Outcomes

\* A publication finishes a role of a session that is still under review,
\* although it does not look at the session.
LEMMA PublishRefines ==
    ASSUME RefInv, NEW s \in Session, NEW r \in Role, NEW o \in {"complete", "failed"},
           NEW now, Publish(s, r, o, now)
    PROVE  Lifecycle!Finish(s, r)
<1> DEFINE row == Published(role_runs[s][r], o, now)
<1>1. /\ TypeOK /\ UNCHANGED sessions /\ RolesFollowSession
      /\ role_runs[s][r] \in RoleRow /\ role_runs[s][r].status = "in_flight"
      /\ role_runs' = [role_runs EXCEPT ![s][r] = row]
      /\ sessions[s] \in SessionRow
  BY DEF RefInv, RowInv, IInv, TypeOK, Publish, Publishable
<1>2. OutcomeOf(row) = o /\ Outcomes[s][r] = "in_flight"
  BY <1>1 DEF OutcomeOf, Published, RoleRow, Outcomes
<1>3. /\ Outcomes' = [Outcomes EXCEPT ![s][r] = o]
      /\ Phase' = Phase /\ Reason' = Reason /\ CancelFlags' = CancelFlags
  <2> HIDE DEF row
  <2> QED
    BY <1>1, <1>2, OneRowSeen
<1>4. Phase[s] = "reviewing"
  BY <1>1 DEF RolesFollowSession, AllTerminal, TerminalRole, TerminalSession,
              SessionRow, SessionStatus, Phase
<1> QED
  BY <1>2, <1>3, <1>4 DEF Lifecycle!Finish, Phase, Reason, CancelFlags, Outcomes

\* Restart recovery interrupts what the one session under review has left, or
\* does nothing.
LEMMA RecoveryRefines ==
    ASSUME RefInv, NEW cutoff, NEW now, SweepRestartRecovery(cutoff, now)
    PROVE  \/ \E s \in Session, R \in SUBSET Role, why \in InterruptCause :
                 Lifecycle!InterruptRoles(s, R, why)
           \/ UNCHANGED Seen
<1>1. TypeOK /\ OneReviewing /\ UNCHANGED sessions
  BY DEF RefInv, RowInv, IInv, SweepRestartRecovery
<1>2. ASSUME \A s \in Session : ~Stale(s, cutoff) PROVE UNCHANGED Seen
  <2>1. role_runs' = role_runs
    BY <1>1, <1>2 DEF SweepRestartRecovery, TypeOK
  <2> QED
    BY <1>1, <2>1, TablesSeen DEF Seen
<1>3. ASSUME NEW s \in Session, Stale(s, cutoff)
      PROVE  Lifecycle!InterruptRoles(s, RolesIn(s, "pending") \cup RolesIn(s, "in_flight"),
                                      PendingCause(s))
  <2> DEFINE R == RolesIn(s, "pending") \cup RolesIn(s, "in_flight")
             why == PendingCause(s)
             new == [r \in Role |-> IF r \notin R THEN Outcomes[s][r]
                                    ELSE IF Outcomes[s][r] = "pending" THEN why
                                    ELSE "process_restart"]
  <2>1. /\ Phase[s] = "reviewing" /\ why \in InterruptCause
        /\ why = "user_cancelled" => CancelFlags[s]
    BY <1>3 DEF Stale, Reviewing, Phase, CancelFlags, PendingCause, InterruptCause
  <2>2. \A t \in Session \ {s} : role_runs'[t] = role_runs[t]
    BY <1>1, <1>3 DEF SweepRestartRecovery, Stale, OneReviewing, TypeOK
  <2>3. ASSUME NEW r \in Role
        PROVE  /\ OutcomeOf(role_runs'[s][r]) = new[r]
               /\ r \in R => Outcomes[s][r] \in {"pending", "in_flight"}
    <3>1. /\ role_runs[s][r] \in RoleRow
          /\ Outcomes[s][r] = OutcomeOf(role_runs[s][r])
          /\ r \in R <=> role_runs[s][r].status \in {"pending", "in_flight"}
      BY <1>1 DEF TypeOK, Outcomes, RolesIn
    <3>2. role_runs'[s][r] = RecoveredRun(s, role_runs[s][r], now)
      BY <1>1, <1>3 DEF SweepRestartRecovery
    <3>3. \A c \in InterruptCause : \A at : OutcomeOf(Interrupted(role_runs[s][r], c, at)) = c
      BY <3>1 DEF OutcomeOf, Interrupted, RoleRow
    <3>4. role_runs[s][r].status \in {"pending", "in_flight"} =>
             Outcomes[s][r] = role_runs[s][r].status
      BY <3>1 DEF OutcomeOf
    <3>5. CASE role_runs[s][r].status = "pending"
      BY <2>1, <3>1, <3>2, <3>3, <3>4, <3>5 DEF RecoveredRun
    <3>6. CASE role_runs[s][r].status = "in_flight"
      <4>1. "process_restart" \in InterruptCause
        BY DEF InterruptCause
      <4> QED
        BY <3>1, <3>2, <3>3, <3>4, <3>6, <4>1 DEF RecoveredRun
    <3>7. CASE role_runs[s][r].status \notin {"pending", "in_flight"}
      BY <3>1, <3>2, <3>7 DEF RecoveredRun
    <3> QED
      BY <3>5, <3>6, <3>7
  <2>4. /\ Outcomes' = [Outcomes EXCEPT ![s] = new]
        /\ Phase' = Phase /\ Reason' = Reason /\ CancelFlags' = CancelFlags
    <3>1. new = [r \in Role |-> new[r]]
      OBVIOUS
    <3>2. \A r \in Role : OutcomeOf(role_runs'[s][r]) = new[r]
      BY <2>3
    <3> HIDE DEF new
    <3> QED
      BY <1>1, <2>2, <3>1, <3>2, RoleRowsSeen
  <2>5. \A r \in R : Outcomes[s][r] \in {"pending", "in_flight"}
    BY <2>3 DEF RolesIn
  <2> QED
    BY <2>1, <2>4, <2>5 DEF Lifecycle!InterruptRoles, Phase, Reason, CancelFlags, Outcomes
<1> QED
  <2>1. ASSUME NEW s \in Session
        PROVE  /\ RolesIn(s, "pending") \cup RolesIn(s, "in_flight") \in SUBSET Role
               /\ PendingCause(s) \in InterruptCause
    BY DEF RolesIn, PendingCause, InterruptCause
  <2> QED
    BY <1>2, <1>3, <2>1

\* The composer's verdict is the right one for the outcomes.
LEMMA VerdictIsRight ==
    ASSUME NEW rows, NEW o,
           \A r \in Role : o[r] = "complete" <=> rows[r].status = "complete",
           \A r \in Role, why \in InterruptCause :
              o[r] = why <=> rows[r].status = "interrupted" /\ rows[r].cause = why
    PROVE  /\ Lifecycle!RightVerdict(o, Verdict(rows).status)
           /\ Lifecycle!RightReason(o, Verdict(rows).reason)
<1>1. /\ CompletedRoles(rows) = Role <=> \A r \in Role : o[r] = "complete"
      /\ CompletedRoles(rows) # {} <=> Lifecycle!Present(o, "complete")
  BY DEF CompletedRoles, Lifecycle!Present
<1>2. \A why \in InterruptCause : HasCause(rows, why) <=> Lifecycle!Present(o, why)
  BY DEF HasCause, Lifecycle!Present
<1>3. /\ HasCause(rows, "user_cancelled") <=> Lifecycle!Present(o, "user_cancelled")
      /\ HasCause(rows, "process_restart") <=> Lifecycle!Present(o, "process_restart")
      /\ HasCause(rows, "deadline_cutoff") <=> Lifecycle!Present(o, "deadline_cutoff")
  BY <1>2 DEF InterruptCause
<1>4. ASSUME \A r \in Role : o[r] = "complete", NEW why \in InterruptCause
      PROVE  ~Lifecycle!Present(o, why)
  BY <1>4 DEF Lifecycle!Present, InterruptCause
<1>5. CASE CompletedRoles(rows) = Role
  <2>1. Verdict(rows) = [status |-> "complete", reason |-> "all_roles_complete"]
    BY <1>5 DEF Verdict
  <2>2. /\ ~Lifecycle!Present(o, "user_cancelled") /\ ~Lifecycle!Present(o, "process_restart")
        /\ ~Lifecycle!Present(o, "deadline_cutoff") /\ \A r \in Role : o[r] = "complete"
    BY <1>1, <1>4, <1>5 DEF InterruptCause
  <2> QED
    BY <2>1, <2>2 DEF Lifecycle!RightVerdict, Lifecycle!RightReason
<1>6. CASE CompletedRoles(rows) # Role /\ HasCause(rows, "user_cancelled")
  <2>1. Verdict(rows) = [status |-> "partial", reason |-> "user_cancelled"]
    BY <1>6 DEF Verdict
  <2> QED
    BY <1>1, <1>3, <1>6, <2>1 DEF Lifecycle!RightVerdict, Lifecycle!RightReason
<1>7. CASE CompletedRoles(rows) # Role /\ ~HasCause(rows, "user_cancelled")
  <2>1. /\ Verdict(rows).status = IF CompletedRoles(rows) # {} THEN "partial" ELSE "failed"
        /\ Verdict(rows).reason = RemainingReason(rows)
    BY <1>7 DEF Verdict
  <2>2. RemainingReason(rows) =
           IF HasCause(rows, "process_restart") THEN "process_restart"
           ELSE IF HasCause(rows, "deadline_cutoff") THEN "deadline_cutoff"
           ELSE "role_failures"
    BY DEF RemainingReason
  <2>3. Lifecycle!RightVerdict(o, Verdict(rows).status)
    BY <1>1, <1>3, <1>7, <2>1 DEF Lifecycle!RightVerdict
  <2>4. Lifecycle!RightReason(o, Verdict(rows).reason)
    BY <1>1, <1>3, <1>7, <2>1, <2>2 DEF Lifecycle!RightReason
  <2> QED
    BY <2>3, <2>4
<1> QED
  BY <1>5, <1>6, <1>7

\* A composition concludes the review with that verdict.
LEMMA ComposeRefines ==
    ASSUME RefInv, NEW s \in Session, ComposeSession(s)
    PROVE  Lifecycle!Conclude(s)
<1> DEFINE v == Verdict(role_runs[s])
<1>1. /\ TypeOK /\ sessions[s] \in SessionRow /\ role_runs' = role_runs
      /\ Phase[s] = "reviewing" /\ AllTerminal(s)
      /\ sessions' = [sessions EXCEPT ![s] =
            Composed(sessions[s], v, Cardinality(CompletedRoles(role_runs[s])), clock)]
  BY DEF RefInv, RowInv, IInv, TypeOK, ComposeSession, Reviewing, Phase
<1>2. v.status \in TerminalSession /\ v.reason \in TerminalReason
  BY VerdictType
<1>3. /\ sessions'[s].status = v.status /\ sessions'[s].terminal_reason = v.reason
      /\ sessions'[s].cancel_requested = sessions[s].cancel_requested
      /\ \A t \in Session \ {s} : sessions'[t] = sessions[t]
  <2> HIDE DEF v
  <2> QED
    BY <1>1, ComposedFields DEF TypeOK
<1>4. \A r \in Role : role_runs[s][r] \in RoleRow /\ RoleRowOK(role_runs[s][r])
  BY DEF RefInv, RowInv, IInv, TypeOK, RowChecksHold
<1>5. \A r \in Role : Outcomes[s][r] = OutcomeOf(role_runs[s][r])
  BY DEF Outcomes
<1>6. /\ Lifecycle!RightVerdict(Outcomes[s], v.status)
      /\ Lifecycle!RightReason(Outcomes[s], v.reason)
  <2>1. \A r \in Role : Outcomes[s][r] = "complete" <=> role_runs[s][r].status = "complete"
    BY <1>4, <1>5, OutcomeFacts
  <2>2. \A r \in Role, why \in InterruptCause :
           Outcomes[s][r] = why <=> role_runs[s][r].status = "interrupted"
                                    /\ role_runs[s][r].cause = why
    BY <1>4, <1>5, OutcomeFacts
  <2> QED
    BY <2>1, <2>2, VerdictIsRight
<1>7. \A r \in Role : Outcomes[s][r] \in Lifecycle!Settled
  BY <1>1, <1>4, <1>5, OutcomeFacts DEF AllTerminal
<1>8. Phase' = [Phase EXCEPT ![s] = v.status] /\ CancelFlags' = CancelFlags
  <2> HIDE DEF v
  <2> QED
    BY <1>3 DEF Phase, CancelFlags
<1>9. Reason' = [Reason EXCEPT ![s] = v.reason]
  <2> HIDE DEF v
  <2>1. v.reason # Null
    BY <1>2, NullIsNoWord
  <2> QED
    BY <1>3, <2>1 DEF Reason
<1>10. Outcomes' = Outcomes
  BY <1>1, TablesSeen
<1>11. /\ v.status \in Lifecycle!Verdicts
       /\ v.reason \in {"all_roles_complete", "role_failures"} \cup Lifecycle!Cause
  <2> HIDE DEF v
  <2> QED
    BY <1>2 DEF TerminalSession, TerminalReason, Lifecycle!Verdicts, Lifecycle!Cause
<1> HIDE DEF v
<1> QED
  BY <1>1, <1>6, <1>7, <1>8, <1>9, <1>10, <1>11
     DEF Lifecycle!Conclude, Phase, Reason, CancelFlags, Outcomes

-----------------------------------------------------------------------------
(* The refinement.                                                         *)

\* Every step of the store is a lifecycle step or invisible.
LEMMA StepRefines ==
    ASSUME RefInv, [Next]_vars
    PROVE  Lifecycle!Next \/ UNCHANGED Seen
<1> USE DEF Lifecycle!Next
<1>1. CASE UNCHANGED <<sessions, role_runs>>
  BY <1>1, TablesSeen DEF Seen
<1>2. ASSUME NEW s \in Session, Submit(s) PROVE Lifecycle!Next
  BY <1>2, SubmitRefines
<1>3. ASSUME NEW s \in Session, RequestCancellation(s) PROVE Lifecycle!Next
  BY <1>3, CancelRefines
<1>4. ASSUME NEW s \in Session, ComposeSession(s) PROVE Lifecycle!Next
  BY <1>4, ComposeRefines
<1>5. ASSUME NEW s \in Session, NEW now \in Reading, ClaimSession(s, now)
      PROVE  Lifecycle!Next
  BY <1>5, ClaimRefines
<1>6. ASSUME NEW s \in Session, NEW now \in Reading,
             SweepCancellation(s, now) \/ SweepCutoff(s, now) \/ SweepHardDeadline(s, now)
      PROVE  Lifecycle!Next
  <2>1. PICK why \in InterruptCause :
           /\ InterruptPending(s, why, now) /\ Reviewing(s)
           /\ why = "user_cancelled" => sessions[s].cancel_requested
    BY <1>6 DEF SweepCancellation, SweepCutoff, SweepHardDeadline, InterruptCause
  <2>2. Lifecycle!InterruptRoles(s, RolesIn(s, "pending"), why)
    BY <2>1, SweepRefines
  <2>3. RolesIn(s, "pending") \in SUBSET Role /\ why \in Lifecycle!Cause
    BY DEF RolesIn, InterruptCause, Lifecycle!Cause
  <2> QED
    BY <2>2, <2>3
<1>7. ASSUME NEW s \in Session, NEW r \in Role, NEW now \in Reading,
             ReservePendingRole(s, r, now)
      PROVE  Lifecycle!Next
  BY <1>7, ReserveRefines
<1>8. ASSUME NEW s \in Session, NEW r \in Role, NEW now \in Reading,
             PublishRoleSuccess(s, r, now) \/ PublishRoleFailure(s, r, now)
      PROVE  Lifecycle!Next
  <2>1. PICK o \in {"complete", "failed"} : Publish(s, r, o, now)
    BY <1>8 DEF PublishRoleSuccess, PublishRoleFailure
  <2> QED
    BY <2>1, PublishRefines
<1>9. ASSUME NEW cutoff \in 0..clock, NEW now \in Reading, SweepRestartRecovery(cutoff, now)
      PROVE  Lifecycle!Next \/ UNCHANGED Seen
  <2>1. InterruptCause = Lifecycle!Cause
    BY DEF InterruptCause, Lifecycle!Cause
  <2> QED
    BY <1>9, <2>1, RecoveryRefines
<1>10. CASE Tick
  BY <1>1, <1>10 DEF Tick
<1>11. CASE UNCHANGED vars
  BY <1>1, <1>11 DEF vars
<1> QED
  BY <1>2, <1>3, <1>4, <1>5, <1>6, <1>7, <1>8, <1>9, <1>10, <1>11 DEF Next

\* The empty tables are the lifecycle's initial state.
LEMMA InitRefines == Init => RefInv /\ Lifecycle!Init
<1> SUFFICES ASSUME Init PROVE RefInv /\ Lifecycle!Init
  OBVIOUS
<1>1. RefInv
  BY InitRows DEF RefInv, AbsentIsBlank, Init
<1>2. Lifecycle!Init
  BY DEF Init, NoSession, PendingRun, Lifecycle!Init, OutcomeOf
<1> QED
  BY <1>1, <1>2

\* Every behaviour of the tables, with its stale clock readings, sweeps and
\* recoveries, is a behaviour of the lifecycle promised to the owner.
THEOREM StoreKeepsThePromise == Spec => ImplementsLifecycle
<1>1. RefInv /\ [Next]_vars => RefInv'
  BY StepInv, StepCreated, StepStarted, StepRowChecks, StepNotOvertaken, StepFullCall, StepBlank
     DEF RefInv, RowInv
<1>2. RefInv /\ [Next]_vars => [Lifecycle!Next]_Seen
  BY StepRefines
<1>3. RefInv /\ [Next]_vars => [Lifecycle!Next]_(Lifecycle!vars)
  BY <1>2 DEF Seen, Phase, Reason, Outcomes, CancelFlags, Lifecycle!vars
<1> QED
  BY <1>1, <1>3, InitRefines, PTL DEF Spec, ImplementsLifecycle, Lifecycle!Spec
=============================================================================
