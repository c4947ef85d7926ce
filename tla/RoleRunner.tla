----------------------------- MODULE RoleRunner -----------------------------
(***************************************************************************)
(* One role goroutine from its start to the outcome it hands to            *)
(* publication: the role context made in onReserved                        *)
(* (internal/worker/supervise.go), worker.Execute, review.RunRole with its *)
(* transport retry and format repair, and the provider adapter's answers   *)
(* (internal/provider/cline).  The clock may move between any two steps    *)
(* and the supervisor may cancel the role at any time.                     *)
(*                                                                         *)
(* The four canonical roles all have a mandate, so BuildPrompt succeeds;   *)
(* and SuperviseSession has validated what Execute validates again.        *)
(***************************************************************************)
EXTENDS Integers, Sequences

CONSTANTS
    CallTimeout,
    HardDeadlines,    \* the hard deadlines the role may find itself under
    BackoffMins,      \* the backoff it may be configured with; 0: none
    BackoffMax,
    MaxTime           \* bound: where the clock stops

ASSUME RunnerConstants ==
    /\ CallTimeout \in Nat \ {0}
    /\ HardDeadlines \subseteq 0..MaxTime
    /\ BackoffMins \subseteq Nat /\ BackoffMax \in Nat
    /\ MaxTime \in Nat

MaxProviderCallsPerRole == 2

ValidationCategory == {"invalid_json", "schema_invalid", "invalid_basis_ref"}

ErrorCategory == {"transport", "timeout", "provider_rejected",
                  "budget_exhausted"} \cup ValidationCategory

IsRetryableTransport(c) == c \in {"transport", "timeout"}

\* The empty string of the code: no error, or no answer yet.
None == "none"

\* What Call can bring back: a typed error, or a body DecodeAndValidate
\* accepts ("valid") or rejects for the first of its stages that fails.
Answer == {"transport", "timeout", "provider_rejected", "valid"} \cup ValidationCategory

Purpose == {"initial", "transport_retry", "format_repair"}

VARIABLES
    clock,
    timing,          \* the role's CallTiming, fixed when the role starts
    roleDeadline,    \* deadline of roleCtx
    cancelled,       \* roleParentCtx is cancelled
    pc,              \* where the goroutine is
    wakeAt,          \* end of the backoff sleep
    calls,           \* history: the calls the provider was given
    out              \* the RoleOutcome

vars == <<clock, timing, roleDeadline, cancelled, pc, wakeAt, calls, out>>

HardDeadlineAt == timing.HardDeadlineAt

BackoffMin == timing.BackoffMin

Earlier(t, u) == IF t <= u THEN t ELSE u

\* A context is done when its parent is or when its deadline has passed.
Done(deadline) == cancelled \/ clock >= deadline

PastHardDeadline == clock >= HardDeadlineAt

Init ==
    /\ clock = 0
    /\ timing \in [HardDeadlineAt : HardDeadlines, BackoffMin : BackoffMins]
    /\ roleDeadline = 0
    /\ cancelled = FALSE
    /\ pc = "reserved"
    /\ wakeAt = 0
    /\ calls = <<>>
    /\ out = [Status |-> "pending", ErrorCategory |-> None, CallCount |-> 0]

Tick ==
    /\ clock < MaxTime
    /\ clock' = clock + 1
    /\ UNCHANGED <<timing, roleDeadline, cancelled, pc, wakeAt, calls, out>>

\* The supervisor stops and cancels its role contexts.
CancelRole ==
    /\ ~cancelled /\ pc # "returned"
    /\ cancelled' = TRUE
    /\ UNCHANGED <<clock, timing, roleDeadline, pc, wakeAt, calls, out>>

Return(status, category, count) ==
    /\ pc' = "returned"
    /\ out' = [Status |-> status, ErrorCategory |-> category, CallCount |-> count]

Fail(category, count) == Return("failed", category, count)

\* Mutant: the role context ignores the session's hard deadline.
StartRoleUncapped ==
    /\ pc = "reserved"
    /\ roleDeadline' = clock + CallTimeout
    /\ pc' = "execute"
    /\ UNCHANGED <<clock, timing, cancelled, wakeAt, calls, out>>

\* The goroutine starts: one context for the whole role.
StartRole ==
    /\ pc = "reserved"
    /\ roleDeadline' = Earlier(clock + CallTimeout, HardDeadlineAt)
    /\ pc' = "execute"
    /\ UNCHANGED <<clock, timing, cancelled, wakeAt, calls, out>>

\* Execute refuses to start after the hard deadline.
Execute ==
    /\ pc = "execute"
    /\ IF PastHardDeadline
       THEN Fail("timeout", 0)
       ELSE pc' = "run" /\ UNCHANGED out
    /\ UNCHANGED <<clock, timing, roleDeadline, cancelled, wakeAt, calls>>

\* RunRole up to call 1: the prompt fits the token budget or it does not;
\* then the hard deadline once more.
RunRole ==
    /\ pc = "run"
    /\ \/ Fail("budget_exhausted", 0)
       \/ PastHardDeadline /\ Fail("timeout", 0)
       \/ /\ ~PastHardDeadline
          /\ pc' = "initial"
          /\ out' = [out EXCEPT !.Status = "in_flight", !.CallCount = 1]
    /\ UNCHANGED <<clock, timing, roleDeadline, cancelled, wakeAt, calls>>

\* Mutant: the attempt gets its full timeout, whatever its parent has left.
FullTimeout == clock + CallTimeout

\* Mutant: the attempt context has no deadline.
NoDeadline == MaxTime + 1

\* attemptContext, as a child of the role context, and the start of the call.
AttemptDeadline ==
    Earlier(roleDeadline, Earlier(clock + CallTimeout, HardDeadlineAt))

StartCall ==
    /\ pc \in Purpose
    /\ calls' = Append(calls, [purpose |-> pc, started |-> clock,
                               deadline |-> AttemptDeadline, answer |-> None])
    /\ pc' = "calling"
    /\ UNCHANGED <<clock, timing, roleDeadline, cancelled, wakeAt, out>>

ThisCall == calls[Len(calls)]

\* Provider.Call: an expired or cancelled context is reported as timeout;
\* before that the service answers as it likes (a shorter client timeout is
\* a timeout too).
CallAnswers ==
    /\ pc = "calling"
    /\ \E a \in IF Done(ThisCall.deadline) THEN {"timeout"} ELSE Answer :
          calls' = [calls EXCEPT ![Len(calls)].answer = a]
    /\ pc' = "answered"
    /\ UNCHANGED <<clock, timing, roleDeadline, cancelled, wakeAt, out>>

Succeed ==
    /\ pc = "answered"
    /\ ThisCall.answer = "valid"
    /\ Return("complete", None, out.CallCount)
    /\ UNCHANGED <<clock, timing, roleDeadline, cancelled, wakeAt, calls>>

\* Call 1 is rejected for good, or call 2 fails in any way.
GiveUp ==
    /\ pc = "answered"
    /\ ThisCall.answer # "valid"
    /\ ThisCall.purpose = "initial" => ThisCall.answer = "provider_rejected"
    /\ Fail(ThisCall.answer, out.CallCount)
    /\ UNCHANGED <<clock, timing, roleDeadline, cancelled, wakeAt, calls>>

\* Call 1 failed in transport: sleep for a duration Jitter picks.
StartBackoff ==
    /\ pc = "answered"
    /\ ThisCall.purpose = "initial" /\ IsRetryableTransport(ThisCall.answer)
    /\ \E d \in IF BackoffMin = 0 THEN {0} ELSE BackoffMin..BackoffMax \cup {BackoffMin} :
          wakeAt' = clock + d
    /\ pc' = "backoff"
    /\ UNCHANGED <<clock, timing, roleDeadline, cancelled, calls, out>>

\* Mutant: a cancelled backoff reports an interruption cause.
BackoffInterrupted ==
    /\ pc = "backoff"
    /\ Done(roleDeadline)
    /\ Fail("user_cancelled", out.CallCount)
    /\ UNCHANGED <<clock, timing, roleDeadline, cancelled, wakeAt, calls>>

BackoffCancelled ==
    /\ pc = "backoff"
    /\ Done(roleDeadline)
    /\ Fail("timeout", out.CallCount)
    /\ UNCHANGED <<clock, timing, roleDeadline, cancelled, wakeAt, calls>>

\* The timer won, even if the context is done by now; without a backoff only
\* the context is looked at.
BackoffEnds ==
    /\ pc = "backoff"
    /\ clock >= wakeAt
    /\ BackoffMin = 0 => ~Done(roleDeadline)
    /\ IF BackoffMin > 0 /\ PastHardDeadline
       THEN Fail("timeout", out.CallCount)
       ELSE pc' = "retry" /\ UNCHANGED out
    /\ UNCHANGED <<clock, timing, roleDeadline, cancelled, wakeAt, calls>>

\* The second call is counted, then refused after the hard deadline.
SecondCall(purpose) ==
    /\ IF PastHardDeadline
       THEN Fail("timeout", 2)
       ELSE pc' = purpose /\ out' = [out EXCEPT !.CallCount = 2]
    /\ UNCHANGED <<clock, timing, roleDeadline, cancelled, wakeAt, calls>>

TransportRetry == pc = "retry" /\ SecondCall("transport_retry")

\* Mutant: the invalid body of a transport retry is repaired as well.
RepairAfterRetry ==
    /\ pc = "answered"
    /\ ThisCall.answer \in ValidationCategory
    /\ SecondCall("format_repair")

\* Call 1 came back with an invalid body.
FormatRepair ==
    /\ pc = "answered"
    /\ ThisCall.purpose = "initial" /\ ThisCall.answer \in ValidationCategory
    /\ out.CallCount < MaxProviderCallsPerRole
    /\ SecondCall("format_repair")

Step ==
    \/ StartRole \/ Execute \/ RunRole \/ StartCall \/ Succeed \/ GiveUp
    \/ StartBackoff \/ BackoffCancelled \/ BackoffEnds
    \/ TransportRetry \/ FormatRepair

Next == Tick \/ CancelRole \/ Step \/ CallAnswers

\* The goroutine keeps running, time passes, and the adapter returns at the
\* latest when the call's context is done.
Fairness ==
    /\ WF_vars(Tick)
    /\ WF_vars(Step)
    /\ WF_vars(CallAnswers /\ Done(ThisCall.deadline))

Spec == Init /\ [][Next]_vars /\ Fairness

-----------------------------------------------------------------------------
(* The publication validators the outcome has to pass (publish.go).        *)

ValidSuccess == out.CallCount \in 1..MaxProviderCallsPerRole

ValidFailure ==
    /\ out.CallCount \in 0..MaxProviderCallsPerRole
    /\ out.ErrorCategory \in ErrorCategory

-----------------------------------------------------------------------------
(* Properties.                                                             *)

\* The goroutine's variables hold values of their types.
TypeOK ==
    /\ clock \in 0..MaxTime
    /\ timing \in [HardDeadlineAt : HardDeadlines, BackoffMin : BackoffMins]
    /\ roleDeadline \in 0..HardDeadlineAt
    /\ cancelled \in BOOLEAN
    /\ pc \in {"reserved", "execute", "run", "calling", "answered", "backoff",
               "retry", "returned"} \cup Purpose
    /\ wakeAt \in Nat
    /\ calls \in Seq([purpose : Purpose, started : Nat, deadline : Nat,
                      answer : Answer \cup {None}])
    /\ out \in [Status : {"pending", "in_flight", "complete", "failed"},
                ErrorCategory : ErrorCategory \cup {None}, CallCount : Nat]

\* The call budget: at most two calls, and the second is a transport retry
\* after a transport failure or a format repair after an invalid body, never
\* one after the other; the reported count never hides a call.
CallBudget ==
    /\ Len(calls) <= out.CallCount
    /\ out.CallCount <= MaxProviderCallsPerRole
    /\ \A i \in DOMAIN calls :
          LET c == calls[i] IN
          /\ (i = 1) <=> (c.purpose = "initial")
          /\ c.purpose = "transport_retry" => IsRetryableTransport(calls[1].answer)
          /\ c.purpose = "format_repair" => calls[1].answer \in ValidationCategory

\* Publication accepts every outcome RunRole can return (otherwise the role
\* would be stuck in flight): the validators pass, success means a valid last
\* answer, and a failure is explained by the last answer or by the clock.
OutcomePublishable ==
    pc = "returned" =>
        \/ /\ out.Status = "complete" /\ ValidSuccess
           /\ calls # <<>> /\ ThisCall.answer = "valid"
        \/ /\ out.Status = "failed" /\ ValidFailure
           /\ out.ErrorCategory \in {"timeout", "budget_exhausted"}
                 \/ out.ErrorCategory = ThisCall.answer
           /\ out.ErrorCategory = "budget_exhausted" => calls = <<>>

\* Nothing that began after the hard deadline, or that had run out of its
\* role's time, is ever reported as a success, however late the checks ran.
NoLateSuccess ==
    out.Status = "complete" =>
        ThisCall.started < HardDeadlineAt /\ ThisCall.started < roleDeadline

\* Every role goroutine comes to an outcome, whatever the provider does.
RoleReturns == <>(pc = "returned")

\* A retryable failure of call 1 is given up without a second call only when
\* the session hard deadline has passed or the supervisor stopped the role.
RetryableIsRetried ==
    pc = "returned" /\ Len(calls) = 1 /\ IsRetryableTransport(calls[1].answer) =>
        PastHardDeadline \/ cancelled
=============================================================================
