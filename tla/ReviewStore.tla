---------------------------- MODULE ReviewStore ----------------------------
(***************************************************************************)
(* The review state kept in SQLite: the tables sessions and role_runs, and *)
(* one action per write transaction of internal/storage/sqlite.  Every     *)
(* transaction is BEGIN IMMEDIATE ... COMMIT on the single writer, so it   *)
(* is one atomic step here.  What is not atomic is the time it works with: *)
(* except for Submit and ComposeSession, an operation reads its clock       *)
(* BEFORE the transaction starts (and the transaction may first wait for   *)
(* the write lock and be retried), so it runs with a `now' that can be     *)
(* older than the clock.                                                   *)
(*                                                                         *)
(* An operation that finds nothing to do (no work, already cancelled,      *)
(* conflict, not ready) commits or rolls back without changing a row: it   *)
(* is a stuttering step of this module.                                    *)
(***************************************************************************)
EXTENDS Integers, FiniteSets, Sequences

CONSTANTS
    Session,             \* session ids; numbers, because claim orders by id
    CanonicalRoles,      \* the roles in canonical order (domain/role.go)
    MaxInFlight,         \* in-flight roles allowed per session
    DispatchCutoff,      \* the timing policy, in clock units
    CallTimeout,
    SessionHardDeadline,
    MaxStaleness,        \* bound: how old a clock reading may get before use
    MaxTime,             \* bound: where the clock stops
    Null                 \* SQL NULL

\* Session ids are ordered, NULL is no timestamp and the cap is a number.
ASSUME StoreConstants ==
    /\ Session \subseteq Nat
    /\ CanonicalRoles \in Seq(STRING)
    /\ \A i, j \in DOMAIN CanonicalRoles :
          CanonicalRoles[i] = CanonicalRoles[j] => i = j
    /\ MaxInFlight \in Nat
    /\ MaxStaleness \in Nat
    /\ MaxTime \in Nat
    /\ Null \notin Nat

\* TimingPolicy.Validate: positive values, and a role dispatched just before
\* the cutoff has time for one full call.  (Its overflow test is about the
\* nanosecond encoding and has no counterpart here.)
ASSUME TimingPolicyValid ==
    /\ DispatchCutoff \in Nat \ {0}
    /\ CallTimeout \in Nat \ {0}
    /\ SessionHardDeadline \in Nat \ {0}
    /\ SessionHardDeadline >= DispatchCutoff + CallTimeout

Role == {CanonicalRoles[i] : i \in DOMAIN CanonicalRoles}

RoleOrder(r) == CHOOSE i \in DOMAIN CanonicalRoles : CanonicalRoles[i] = r

RoleStatus == {"pending", "in_flight", "complete", "failed", "interrupted"}

TerminalRole == {"complete", "failed", "interrupted"}

InterruptCause == {"user_cancelled", "deadline_cutoff", "process_restart"}

\* "absent" is a session id that has no row yet.
SessionStatus == {"absent", "queued", "reviewing", "complete", "partial", "failed"}

TerminalSession == {"complete", "partial", "failed"}

TerminalReason == {"all_roles_complete", "user_cancelled", "process_restart",
                   "deadline_cutoff", "role_failures"}

\* NULL is none of the words a nullable text column can hold.
ASSUME NullIsNoWord == Null \notin InterruptCause \cup TerminalReason

VARIABLES
    clock,      \* the wall clock
    sessions,   \* table sessions, by id
    role_runs   \* table role_runs, by session id and role

vars == <<clock, sessions, role_runs>>

OptTime == Nat \cup {Null}

\* The columns of sessions the properties tell apart.  dispatch_cutoff_at,
\* hard_deadline_at and incomplete_role_count are functions of the others.
SessionRow == [status : SessionStatus,
               cancel_requested : BOOLEAN,
               created_at : OptTime,
               claimed_at : OptTime,
               terminal_at : OptTime,
               terminal_reason : TerminalReason \cup {Null},
               completed_role_count : Nat]

RoleRow == [status : RoleStatus,
            cause : InterruptCause \cup {Null},
            started_at : OptTime,
            completed_at : OptTime]

NoSession == [status |-> "absent", cancel_requested |-> FALSE,
              created_at |-> Null, claimed_at |-> Null, terminal_at |-> Null,
              terminal_reason |-> Null, completed_role_count |-> 0]

PendingRun == [status |-> "pending", cause |-> Null,
               started_at |-> Null, completed_at |-> Null]

\* Set by the claim from the policy, hence functions of claimed_at.
DispatchCutoffAt(s) == sessions[s].claimed_at + DispatchCutoff

HardDeadlineAt(s) == sessions[s].claimed_at + SessionHardDeadline

RolesIn(s, status) == {r \in Role : role_runs[s][r].status = status}

Reviewing(s) == sessions[s].status = "reviewing"

AllTerminal(s) == \A r \in Role : role_runs[s][r].status \in TerminalRole

\* Mutant: the clamp to the start of the interval is forgotten.
LaterDropped(t, u) == t

Later(t, u) == IF t >= u THEN t ELSE u

Interrupted(row, why, at) ==
    [row EXCEPT !.status = "interrupted", !.cause = why, !.completed_at = at]

-----------------------------------------------------------------------------
(* The composer (internal/review/composer.go).                             *)

CompletedRoles(rows) == {r \in Role : rows[r].status = "complete"}

HasCause(rows, c) ==
    \E r \in Role : rows[r].status = "interrupted" /\ rows[r].cause = c

\* Mutant: a status where a reason belongs.
StatusAsReason(rows) ==
    IF HasCause(rows, "process_restart") THEN "process_restart" ELSE "failed"

\* Mutant: the deadline is looked for before the restart.
DeadlineFirst(rows) ==
    CASE HasCause(rows, "deadline_cutoff") -> "deadline_cutoff"
      [] /\ ~HasCause(rows, "deadline_cutoff")
         /\ HasCause(rows, "process_restart") -> "process_restart"
      [] OTHER -> "role_failures"

RemainingReason(rows) ==
    CASE HasCause(rows, "process_restart") -> "process_restart"
      [] /\ ~HasCause(rows, "process_restart")
         /\ HasCause(rows, "deadline_cutoff") -> "deadline_cutoff"
      [] OTHER -> "role_failures"

\* First match wins: all complete, a user cancellation, some complete, none.
Verdict(rows) ==
    IF CompletedRoles(rows) = Role
    THEN [status |-> "complete", reason |-> "all_roles_complete"]
    ELSE IF HasCause(rows, "user_cancelled")
    THEN [status |-> "partial", reason |-> "user_cancelled"]
    ELSE [status |-> IF CompletedRoles(rows) # {} THEN "partial" ELSE "failed",
          reason |-> RemainingReason(rows)]

-----------------------------------------------------------------------------
(* The write transactions.                                                 *)

Init ==
    /\ clock = 0
    /\ sessions = [s \in Session |-> NoSession]
    /\ role_runs = [s \in Session |-> [r \in Role |-> PendingRun]]

\* Time passes.
Tick ==
    /\ clock < MaxTime
    /\ clock' = clock + 1
    /\ UNCHANGED <<sessions, role_runs>>

\* A clock reading taken earlier and used now.
Reading == {t \in 0..clock : clock <= t + MaxStaleness}

\* Submit of a new request: one queued session and one pending run per role,
\* created_at read inside the transaction.  (A replayed request changes
\* nothing.)
Submit(s) ==
    /\ sessions[s].status = "absent"
    /\ sessions' = [sessions EXCEPT ![s] =
                      [NoSession EXCEPT !.status = "queued",
                                        !.created_at = clock]]
    /\ role_runs' = [role_runs EXCEPT ![s] = [r \in Role |-> PendingRun]]
    /\ UNCHANGED clock

\* Mutant: ORDER BY id alone.
BeforeById(s, t) == s < t

\* ORDER BY created_at ASC, id ASC.
Before(s, t) ==
    \/ sessions[s].created_at < sessions[t].created_at
    \/ sessions[s].created_at = sessions[t].created_at /\ s < t

OldestQueued(s) ==
    /\ sessions[s].status = "queued"
    /\ \A t \in Session \ {s} : sessions[t].status = "queued" => Before(s, t)

\* Mutant: the claim does not look for a session under review.
ReviewingUnchecked == TRUE

NoneReviewing == \A t \in Session : ~Reviewing(t)

Claimed(row, now) == [row EXCEPT !.status = "reviewing", !.claimed_at = now]

\* ClaimSession: refused while any session is reviewing; takes the oldest
\* queued session, unless it was created after `now' (ErrMalformedData).
ClaimSession(s, now) ==
    /\ NoneReviewing
    /\ OldestQueued(s)
    /\ sessions[s].created_at <= now
    /\ \A r \in Role : role_runs[s][r].status = "pending"
    /\ sessions' = [sessions EXCEPT ![s] = Claimed(sessions[s], now)]
    /\ UNCHANGED <<clock, role_runs>>

\* Mutant: the reservation only looks at the session's status.
CancelUnchecked(s) == Reviewing(s)

NotCancelled(s) == ~sessions[s].cancel_requested

\* Mutant: the cutoff instant itself still dispatches.
AtOrBeforeCutoff(s, now) == now <= DispatchCutoffAt(s)

BeforeCutoff(s, now) == now < DispatchCutoffAt(s)

\* Mutant: one slot too many.
SlotFreeOffByOne(s) == Cardinality(RolesIn(s, "in_flight")) <= MaxInFlight

SlotFree(s) == Cardinality(RolesIn(s, "in_flight")) < MaxInFlight

\* The predicates ReservePendingRole checks before and in its UPDATE.
Reservable(s, now) ==
    /\ Reviewing(s)
    /\ NotCancelled(s)
    /\ BeforeCutoff(s, now)
    /\ SlotFree(s)

\* Mutant: a failed role is dispatched again.
FailedRoleAgain(s, r) == r \in RolesIn(s, "pending") \cup RolesIn(s, "failed")

NextPendingRole(s, r) ==
    /\ r \in RolesIn(s, "pending")
    /\ \A q \in RolesIn(s, "pending") : RoleOrder(r) <= RoleOrder(q)

Started(row, now) == [row EXCEPT !.status = "in_flight", !.started_at = now]

ReservePendingRole(s, r, now) ==
    /\ Reservable(s, now)
    /\ NextPendingRole(s, r)
    /\ role_runs' = [role_runs EXCEPT ![s][r] = Started(role_runs[s][r], now)]
    /\ UNCHANGED <<clock, sessions>>

\* Mutant: any started role may be published, again or late.
PublishableOnceStarted(s, r, now) ==
    role_runs[s][r].started_at # Null /\ now >= role_runs[s][r].started_at

Publishable(s, r, now) ==
    /\ role_runs[s][r].status = "in_flight"
    /\ now >= role_runs[s][r].started_at

Published(row, outcome, now) ==
    [row EXCEPT !.status = outcome, !.completed_at = now]

\* PublishRoleSuccess / PublishRoleFailure: compare-and-set from in_flight.
\* Neither looks at the session's status or cancel flag.
Publish(s, r, outcome, now) ==
    /\ Publishable(s, r, now)
    /\ role_runs' = [role_runs EXCEPT ![s][r] =
                        Published(role_runs[s][r], outcome, now)]
    /\ UNCHANGED <<clock, sessions>>

PublishRoleSuccess(s, r, now) == Publish(s, r, "complete", now)

PublishRoleFailure(s, r, now) == Publish(s, r, "failed", now)

\* RequestCancellation: sets the flag of a queued or reviewing session once.
RequestCancellation(s) ==
    /\ sessions[s].status \in {"queued", "reviewing"}
    /\ ~sessions[s].cancel_requested
    /\ sessions' = [sessions EXCEPT ![s].cancel_requested = TRUE]
    /\ UNCHANGED <<clock, role_runs>>

\* The pending roles of s become interrupted at `now'; in-flight ones go on.
InterruptPending(s, why, now) ==
    /\ role_runs' = [role_runs EXCEPT ![s] =
                       [r \in Role |->
                           IF role_runs[s][r].status = "pending"
                           THEN Interrupted(role_runs[s][r], why, now)
                           ELSE role_runs[s][r]]]
    /\ UNCHANGED <<clock, sessions>>

SweepCancellation(s, now) ==
    /\ Reviewing(s)
    /\ sessions[s].cancel_requested
    /\ InterruptPending(s, "user_cancelled", now)

SweepCutoff(s, now) ==
    /\ Reviewing(s)
    /\ now >= DispatchCutoffAt(s)
    /\ InterruptPending(s, "deadline_cutoff", now)

SweepHardDeadline(s, now) ==
    /\ Reviewing(s)
    /\ now >= HardDeadlineAt(s)
    /\ InterruptPending(s, "deadline_cutoff", now)

\* SweepRestartRecovery: every reviewing session claimed at or before the
\* caller's cutoff loses its in-flight and pending roles.  The session row is
\* not touched: it stays reviewing.
Stale(s, cutoff) == Reviewing(s) /\ sessions[s].claimed_at <= cutoff

\* Mutant: recovery blames the owner.
OwnerBlamed(s) == "user_cancelled"

PendingCause(s) == IF sessions[s].cancel_requested
                   THEN "user_cancelled" ELSE "process_restart"

\* Mutant: recovery also rewrites failed roles.
FailedRecovered(s, row, now) ==
    IF row.status \in {"in_flight", "failed"}
    THEN Interrupted(row, "process_restart", Later(now, row.started_at))
    ELSE row

RecoveredRun(s, row, now) ==
    IF row.status = "pending"
    THEN Interrupted(row, PendingCause(s), now)
    ELSE IF row.status = "in_flight"
    THEN Interrupted(row, "process_restart", Later(now, row.started_at))
    ELSE row

SweepRestartRecovery(cutoff, now) ==
    /\ role_runs' = [s \in Session |-> IF Stale(s, cutoff)
                                       THEN [r \in Role |-> RecoveredRun(s, role_runs[s][r], now)]
                                       ELSE role_runs[s]]
    /\ UNCHANGED <<clock, sessions>>

Composed(row, verdict, completed, now) ==
    [row EXCEPT !.status = verdict.status,
                !.terminal_reason = verdict.reason,
                !.completed_role_count = completed,
                !.terminal_at = Later(now, row.claimed_at)]

\* Mutant: composition waits only for the roles in flight.
ComposeUnfinished(s) ==
    /\ Reviewing(s)
    /\ RolesIn(s, "in_flight") = {}
    /\ sessions' = [sessions EXCEPT ![s] =
                       Composed(sessions[s], Verdict(role_runs[s]),
                                Cardinality(CompletedRoles(role_runs[s])), clock)]
    /\ UNCHANGED <<clock, role_runs>>

\* ComposeSession: a reviewing session whose roles are all terminal gets the
\* composer's verdict; terminal_at, read inside the transaction, never
\* precedes claimed_at.
ComposeSession(s) ==
    /\ Reviewing(s)
    /\ AllTerminal(s)
    /\ sessions' = [sessions EXCEPT ![s] =
                       Composed(sessions[s], Verdict(role_runs[s]),
                                Cardinality(CompletedRoles(role_runs[s])), clock)]
    /\ UNCHANGED <<clock, role_runs>>

Next ==
    \/ Tick
    \/ \E s \in Session : Submit(s) \/ RequestCancellation(s) \/ ComposeSession(s)
    \/ \E s \in Session, now \in Reading :
          \/ ClaimSession(s, now)
          \/ SweepCancellation(s, now)
          \/ SweepCutoff(s, now)
          \/ SweepHardDeadline(s, now)
    \/ \E s \in Session, r \in Role, now \in Reading :
          \/ ReservePendingRole(s, r, now)
          \/ PublishRoleSuccess(s, r, now)
          \/ PublishRoleFailure(s, r, now)
    \/ \E cutoff \in 0..clock, now \in Reading : SweepRestartRecovery(cutoff, now)

Spec == Init /\ [][Next]_vars

-----------------------------------------------------------------------------
(* Properties.                                                             *)

\* Every column holds a value of its type.
TypeOK ==
    /\ clock \in Nat
    /\ sessions \in [Session -> SessionRow]
    /\ role_runs \in [Session -> [Role -> RoleRow]]

\* The row CHECKs of 002_core_schema.sql: which columns a status fixes, and
\* that no interval ends before it begins.  A transaction that broke one
\* would be aborted by SQLite and fail the same way on every retry, so the
\* stale clock readings must never get there.
SessionRowOK(s) ==
    LET row == sessions[s] IN
    /\ row.status \in {"absent", "queued"} => row.claimed_at = Null
    /\ row.status \in {"reviewing"} \cup TerminalSession =>
          row.claimed_at \in Nat /\ row.claimed_at >= row.created_at
    /\ row.status \in TerminalSession <=> row.terminal_at # Null
    /\ row.status \in TerminalSession <=> row.terminal_reason # Null
    /\ row.status \in TerminalSession => row.terminal_at >= row.claimed_at
    /\ row.status = "complete" =>
          /\ row.terminal_reason = "all_roles_complete"
          /\ row.completed_role_count = Cardinality(Role)
    /\ row.status = "partial" =>
          /\ row.terminal_reason # "all_roles_complete"
          /\ row.completed_role_count < Cardinality(Role)
          /\ row.completed_role_count > 0 \/ row.terminal_reason = "user_cancelled"
    /\ row.status = "failed" =>
          /\ row.terminal_reason \notin {"all_roles_complete", "user_cancelled"}
          /\ row.completed_role_count = 0

RoleRowOK(row) ==
    /\ row.status \in {"in_flight", "complete"} => row.started_at # Null
    /\ row.status = "pending" => row.started_at = Null
    /\ row.status \in TerminalRole <=> row.completed_at # Null
    /\ row.status = "interrupted" <=> row.cause # Null
    /\ row.started_at # Null /\ row.completed_at # Null =>
          row.completed_at >= row.started_at

RowChecksHold ==
    /\ \A s \in Session : SessionRowOK(s)
    /\ \A s \in Session, r \in Role : RoleRowOK(role_runs[s][r])

\* Never more than MaxInFlight provider conversations for one session, over
\* any interleaving of reservations, publications and recovery.
InFlightCap ==
    \A s \in Session : Cardinality(RolesIn(s, "in_flight")) <= MaxInFlight

\* At most one session is under review in the whole database.
OneReviewing ==
    \A s, t \in Session : Reviewing(s) /\ Reviewing(t) => s = t

\* A role works only inside a session under review: nothing starts before the
\* claim and nothing is left running or waiting when the verdict is stored.
RolesFollowSession ==
    \A s \in Session :
        /\ sessions[s].status \in {"absent", "queued"} =>
              \A r \in Role : role_runs[s][r].status = "pending"
        /\ sessions[s].status \in TerminalSession => AllTerminal(s)

\* First come, first reviewed: no claimed session is younger than one that is
\* still waiting, although claim and submit read their clocks independently.
NotOvertaken ==
    \A s, q \in Session :
        sessions[s].claimed_at # Null /\ sessions[q].status = "queued" =>
            sessions[s].created_at <= sessions[q].created_at

\* The recorded start of a role lies before the cutoff, so a full call fits
\* between it and the hard deadline (what TimingPolicy.Validate is for).
FullCallFits ==
    \A s \in Session, r \in Role :
        role_runs[s][r].started_at # Null =>
            role_runs[s][r].started_at + CallTimeout < HardDeadlineAt(s)

\* The stored verdict stays the composer's verdict of the role rows as they
\* are now: no publication, sweep or recovery that commits after the
\* composition can contradict the report.
VerdictStaysTrue ==
    \A s \in Session : sessions[s].status \in TerminalSession =>
        /\ Verdict(role_runs[s]) =
              [status |-> sessions[s].status, reason |-> sessions[s].terminal_reason]
        /\ sessions[s].completed_role_count = Cardinality(CompletedRoles(role_runs[s]))

\* "user_cancelled" is never reported to an owner who did not cancel.
CancelledOnlyOnRequest ==
    \A s \in Session :
        \/ sessions[s].cancel_requested
        \/ /\ ~HasCause(role_runs[s], "user_cancelled")
           /\ sessions[s].terminal_reason # "user_cancelled"

\* Once cancellation is committed no pending role starts, whatever an
\* operation that began earlier still believes (step property).
NoStartAfterCancel ==
    [][\A s \in Session, r \in Role :
          sessions[s].cancel_requested /\ role_runs[s][r].started_at = Null
             => role_runs'[s][r].started_at = Null]_vars

\* A terminal role run and a terminal session never change again.
TerminalFrozen ==
    [][/\ \A s \in Session, r \in Role :
             role_runs[s][r].status \in TerminalRole =>
                 role_runs'[s][r] = role_runs[s][r]
       /\ \A s \in Session :
             sessions[s].status \in TerminalSession =>
                 sessions'[s] = sessions[s]]_vars

-----------------------------------------------------------------------------
(* Refinement: the tables implement the lifecycle promised to the owner.   *)

OutcomeOf(row) == IF row.status = "interrupted" THEN row.cause ELSE row.status

Lifecycle == INSTANCE ReviewLifecycle WITH
    phase <- [s \in Session |-> sessions[s].status],
    reason <- [s \in Session |-> IF sessions[s].terminal_reason = Null
                                 THEN "none" ELSE sessions[s].terminal_reason],
    outcome <- [s \in Session |-> [r \in Role |-> OutcomeOf(role_runs[s][r])]],
    cancelled <- [s \in Session |-> sessions[s].cancel_requested]

\* Every transaction is a step the lifecycle allows, or invisible to it.
ImplementsLifecycle == Lifecycle!Spec
=============================================================================
