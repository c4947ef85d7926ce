-------------------------- MODULE ReviewLifecycle --------------------------
(***************************************************************************)
(* What a review promises its owner, with no clock, no deadline, no        *)
(* dispatch order and no database: the fixed state model of                *)
(* docs/CANONICAL-FLOW.md as internal/domain/status.go encodes it.         *)
(* ReviewStore is shown to implement it.                                   *)
(***************************************************************************)
EXTENDS FiniteSets

CONSTANTS Session, Role

\* An interrupted role is known by its cause.
Cause == {"user_cancelled", "deadline_cutoff", "process_restart"}

Settled == {"complete", "failed"} \cup Cause

Verdicts == {"complete", "partial", "failed"}

VARIABLES
    phase,      \* session status
    reason,     \* why the session ended, or "none"
    outcome,    \* per session and role: pending, in_flight or settled
    cancelled   \* has the owner asked for cancellation?

vars == <<phase, reason, outcome, cancelled>>

TypeOK ==
    /\ phase \in [Session -> {"absent", "queued", "reviewing"} \cup Verdicts]
    /\ reason \in [Session -> {"none", "all_roles_complete", "role_failures"} \cup Cause]
    /\ outcome \in [Session -> [Role -> {"pending", "in_flight"} \cup Settled]]
    /\ cancelled \in [Session -> BOOLEAN]

Init ==
    /\ phase = [s \in Session |-> "absent"]
    /\ reason = [s \in Session |-> "none"]
    /\ outcome = [s \in Session |-> [r \in Role |-> "pending"]]
    /\ cancelled = [s \in Session |-> FALSE]

Submit(s) ==
    /\ phase[s] = "absent"
    /\ phase' = [phase EXCEPT ![s] = "queued"]
    /\ UNCHANGED <<reason, outcome, cancelled>>

\* One review at a time.
Claim(s) ==
    /\ phase[s] = "queued"
    /\ \A t \in Session : phase[t] # "reviewing"
    /\ phase' = [phase EXCEPT ![s] = "reviewing"]
    /\ UNCHANGED <<reason, outcome, cancelled>>

Cancel(s) ==
    /\ phase[s] \in {"queued", "reviewing"}
    /\ cancelled' = [cancelled EXCEPT ![s] = TRUE]
    /\ UNCHANGED <<phase, reason, outcome>>

\* Work starts only in a review nobody cancelled.
Start(s, r) ==
    /\ phase[s] = "reviewing" /\ ~cancelled[s]
    /\ outcome[s][r] = "pending"
    /\ outcome' = [outcome EXCEPT ![s][r] = "in_flight"]
    /\ UNCHANGED <<phase, reason, cancelled>>

Finish(s, r) ==
    /\ phase[s] = "reviewing"
    /\ outcome[s][r] = "in_flight"
    /\ \E o \in {"complete", "failed"} : outcome' = [outcome EXCEPT ![s][r] = o]
    /\ UNCHANGED <<phase, reason, cancelled>>

\* Roles R are interrupted in one step: pending ones for the given cause,
\* which is "user_cancelled" only when the owner asked; work in flight is lost
\* to nothing but a restart.
InterruptRoles(s, R, why) ==
    /\ phase[s] = "reviewing"
    /\ \A r \in R : outcome[s][r] \in {"pending", "in_flight"}
    /\ why = "user_cancelled" => cancelled[s]
    /\ outcome' = [outcome EXCEPT ![s] =
                     [r \in Role |->
                         IF r \notin R THEN outcome[s][r]
                         ELSE IF outcome[s][r] = "pending" THEN why
                         ELSE "process_restart"]]
    /\ UNCHANGED <<phase, reason, cancelled>>

\* The verdict and its reason, from nothing but the settled outcomes.
Present(o, x) == \E r \in Role : o[r] = x

RightVerdict(o, v) ==
    /\ v = "complete" <=> \A r \in Role : o[r] = "complete"
    /\ v = "failed" <=> ~Present(o, "complete") /\ ~Present(o, "user_cancelled")
                        /\ \E r \in Role : o[r] # "complete"

\* user_cancelled over process_restart over deadline_cutoff over failures.
RightReason(o, why) ==
    /\ why = "all_roles_complete" <=> \A r \in Role : o[r] = "complete"
    /\ why = "user_cancelled" <=> Present(o, "user_cancelled")
    /\ why = "process_restart" <=> /\ Present(o, "process_restart")
                                   /\ ~Present(o, "user_cancelled")
    /\ why = "deadline_cutoff" <=> /\ Present(o, "deadline_cutoff")
                                   /\ ~Present(o, "user_cancelled")
                                   /\ ~Present(o, "process_restart")

Conclude(s) ==
    /\ phase[s] = "reviewing"
    /\ \A r \in Role : outcome[s][r] \in Settled
    /\ \E v \in Verdicts, why \in {"all_roles_complete", "role_failures"} \cup Cause :
          /\ RightVerdict(outcome[s], v)
          /\ RightReason(outcome[s], why)
          /\ phase' = [phase EXCEPT ![s] = v]
          /\ reason' = [reason EXCEPT ![s] = why]
    /\ UNCHANGED <<outcome, cancelled>>

Next == \E s \in Session :
    \/ Submit(s) \/ Claim(s) \/ Cancel(s) \/ Conclude(s)
    \/ \E R \in SUBSET Role, why \in Cause : InterruptRoles(s, R, why)
    \/ \E r \in Role : Start(s, r) \/ Finish(s, r)

Spec == Init /\ [][Next]_vars
=============================================================================
