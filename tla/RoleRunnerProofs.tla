-------------------------- MODULE RoleRunnerProofs --------------------------
(***************************************************************************)
(* Safety of a role goroutine for every call timeout, every hard deadline, *)
(* every backoff and every answer of the provider.                         *)
(***************************************************************************)
EXTENDS RoleRunner, TLAPS

Timing == [HardDeadlineAt : HardDeadlines, BackoffMin : BackoffMins]

Outcome == [Status : {"pending", "in_flight", "complete", "failed"},
            ErrorCategory : ErrorCategory \cup {None}, CallCount : Nat]

CallRecord == [purpose : Purpose, started : Nat, deadline : Nat,
               answer : Answer \cup {None}]

\* Where the goroutine is tells how many calls it has made and counted, and
\* how the first of them ended.
Whereabouts ==
    /\ pc \in {"reserved", "execute", "run"} => calls = <<>> /\ out.CallCount = 0
    /\ pc = "initial" => calls = <<>> /\ out.CallCount = 1
    /\ pc \in {"calling", "answered"} => calls # <<>> /\ Len(calls) = out.CallCount
    /\ pc = "answered" => ThisCall.answer \in Answer
    /\ pc \in {"backoff", "retry"} => Len(calls) = 1 /\ out.CallCount = 1
    /\ pc \in {"transport_retry", "format_repair"} => Len(calls) = 1 /\ out.CallCount = 2
    /\ pc \in {"backoff", "retry", "transport_retry"} =>
          IsRetryableTransport(calls[1].answer)
    /\ pc = "format_repair" => calls[1].answer \in ValidationCategory
    /\ pc # "returned" => out.Status \in {"pending", "in_flight"}

\* No call has a deadline beyond that of its role, and none is answered with a
\* valid body that did not start before its own deadline.
CallsInTime ==
    \A i \in DOMAIN calls :
        /\ calls[i].started <= clock
        /\ calls[i].deadline <= roleDeadline
        /\ calls[i].answer = "valid" => calls[i].started < calls[i].deadline

IInv ==
    /\ TypeOK
    /\ Whereabouts
    /\ CallBudget
    /\ CallsInTime
    /\ OutcomePublishable

-----------------------------------------------------------------------------
(* The history of calls.                                                   *)

\* The history before any call.
LEMMA NoCalls == Len(<<>>) = 0 /\ DOMAIN <<>> = {} /\ <<>> \in Seq(CallRecord)
  OBVIOUS

\* A history has a natural length and records at its positions.
LEMMA CallsShape ==
    ASSUME NEW h \in Seq(CallRecord)
    PROVE  /\ Len(h) \in Nat
           /\ DOMAIN h = 1..Len(h)
           /\ h # <<>> <=> Len(h) # 0
           /\ \A i \in 1..Len(h) : h[i] \in CallRecord
  OBVIOUS

\* Starting a call appends one record and leaves the others alone.
LEMMA CallAppended ==
    ASSUME NEW h \in Seq(CallRecord), NEW c \in CallRecord
    PROVE  /\ Append(h, c) \in Seq(CallRecord)
           /\ Len(Append(h, c)) = Len(h) + 1
           /\ Append(h, c)[Len(h) + 1] = c
           /\ \A i \in 1..Len(h) : Append(h, c)[i] = h[i]
  OBVIOUS

\* An answer is recorded in the last call and nowhere else.
LEMMA AnswerRecorded ==
    ASSUME NEW h \in Seq(CallRecord), h # <<>>, NEW a \in Answer
    PROVE  LET g == [h EXCEPT ![Len(h)].answer = a]
           IN  /\ g \in Seq(CallRecord)
               /\ Len(g) = Len(h)
               /\ g[Len(h)] = [h[Len(h)] EXCEPT !.answer = a]
               /\ \A i \in 1..Len(h) : i # Len(h) => g[i] = h[i]
<1>1. Len(h) \in Nat \ {0} /\ Len(h) \in DOMAIN h /\ h[Len(h)] \in CallRecord
  BY CallsShape
<1>2. [h[Len(h)] EXCEPT !.answer = a] \in CallRecord
  BY <1>1 DEF CallRecord
<1> QED
  BY <1>1, <1>2

-----------------------------------------------------------------------------
(* The invariant is inductive.                                             *)

\* What TypeOK says of the variables the proofs calculate with.
LEMMA Typed ==
    ASSUME TypeOK
    PROVE  /\ clock \in Nat /\ roleDeadline \in Nat /\ HardDeadlineAt \in Nat
           /\ roleDeadline <= HardDeadlineAt
           /\ calls \in Seq(CallRecord)
           /\ out.CallCount \in Nat
           /\ timing \in Timing
           /\ BackoffMin \in Nat
<1>1. timing \in Timing
  BY DEF TypeOK, Timing
<1>2. HardDeadlineAt \in HardDeadlines /\ BackoffMin \in BackoffMins
  BY <1>1 DEF Timing, HardDeadlineAt, BackoffMin
<1>3. HardDeadlineAt \in Nat /\ BackoffMin \in Nat
  BY <1>2, RunnerConstants
<1>4. clock \in 0..MaxTime /\ roleDeadline \in 0..HardDeadlineAt
  BY Zenon DEF TypeOK
<1>5. clock \in Nat /\ roleDeadline \in Nat /\ roleDeadline <= HardDeadlineAt
  BY <1>3, <1>4, RunnerConstants
<1>6. calls \in Seq(CallRecord)
  BY DEF TypeOK, CallRecord
<1>7. out.CallCount \in Nat
  BY DEF TypeOK
<1> QED
  BY <1>1, <1>3, <1>5, <1>6, <1>7

\* A goroutine that has not started has made no call.
LEMMA InitInv == Init => IInv
<1> SUFFICES ASSUME Init PROVE IInv
  OBVIOUS
<1>1. timing \in Timing /\ HardDeadlineAt \in HardDeadlines
  BY DEF Init, Timing, HardDeadlineAt
<1>2. 0 \in 0..MaxTime /\ 0 \in 0..HardDeadlineAt
  BY <1>1, RunnerConstants
<1>3. calls = <<>> /\ pc = "reserved" /\ out.CallCount = 0 /\ out.Status = "pending"
  BY DEF Init
<1>4. TypeOK
  BY <1>1, <1>2, <1>3, NoCalls DEF Init, TypeOK, Timing, CallRecord
<1> QED
  BY <1>3, <1>4, NoCalls
     DEF IInv, Whereabouts, CallBudget, CallsInTime, OutcomePublishable,
         MaxProviderCallsPerRole

\* The clock moves on, or the supervisor cancels: what was in time still is.
LEMMA EnvironmentInv == ASSUME IInv, Tick \/ CancelRole PROVE IInv'
<1> USE DEF IInv
<1>1. /\ UNCHANGED <<timing, roleDeadline, pc, wakeAt, calls, out>>
      /\ clock' = clock \/ (clock < MaxTime /\ clock' = clock + 1)
      /\ cancelled' \in BOOLEAN
  BY DEF Tick, CancelRole, TypeOK
<1>2. clock' \in 0..MaxTime /\ clock <= clock'
  <2>1. clock \in 0..MaxTime
    BY Zenon DEF TypeOK
  <2> QED
    BY <1>1, <2>1, RunnerConstants
<1>3. TypeOK'
  BY <1>1, <1>2 DEF TypeOK, HardDeadlineAt
<1>4. Whereabouts' /\ CallBudget' /\ OutcomePublishable'
  BY <1>1 DEF Whereabouts, CallBudget, OutcomePublishable, ThisCall, ValidSuccess,
              ValidFailure
<1>5. CallsInTime'
  <2> SUFFICES ASSUME NEW i \in DOMAIN calls
               PROVE  calls[i].started <= clock'
    BY <1>1 DEF CallsInTime
  <2>1. calls[i].started \in Nat /\ clock \in Nat /\ clock' \in Nat
    <3>1. calls[i] \in CallRecord /\ clock \in Nat
      BY Typed, CallsShape
    <3>2. calls[i].started \in Nat
      BY <3>1 DEF CallRecord
    <3>3. clock' \in Nat
      BY <1>2, RunnerConstants
    <3> QED
      BY <3>1, <3>2, <3>3
  <2>2. calls[i].started <= clock
    BY DEF CallsInTime
  <2> QED
    BY <1>2, <2>1, <2>2
<1> QED
  BY <1>3, <1>4, <1>5

\* Between calls the history is a known prefix of a legal one.
LEMMA LastCall ==
    ASSUME IInv, pc \in {"calling", "answered"}
    PROVE  /\ Len(calls) \in 1..2 /\ Len(calls) = out.CallCount
           /\ ThisCall \in CallRecord
           /\ ThisCall.purpose = "initial" <=> Len(calls) = 1
<1>1. Len(calls) \in 1..2 /\ Len(calls) = out.CallCount /\ Len(calls) \in DOMAIN calls
  <2>1. calls # <<>> /\ Len(calls) = out.CallCount /\ out.CallCount <= 2
    BY DEF IInv, Whereabouts, CallBudget, MaxProviderCallsPerRole
  <2>2. Len(calls) \in Nat /\ Len(calls) # 0 /\ DOMAIN calls = 1..Len(calls)
    BY <2>1, Typed, CallsShape DEF IInv
  <2> QED
    BY <2>1, <2>2
<1>2. ThisCall \in CallRecord
  BY <1>1, Typed, CallsShape DEF IInv, ThisCall
<1>3. (Len(calls) = 1) <=> (calls[Len(calls)].purpose = "initial")
  BY <1>1 DEF IInv, CallBudget
<1> QED
  BY <1>1, <1>2, <1>3 DEF ThisCall

\* A failure without a call, reported before call 1.
LEMMA FailsBeforeCalls ==
    ASSUME IInv, pc \in {"execute", "run"}, NEW c \in {"timeout", "budget_exhausted"},
           Fail(c, 0), UNCHANGED <<clock, timing, roleDeadline, cancelled, wakeAt, calls>>
    PROVE  IInv'
<1> USE DEF IInv
<1>1. /\ pc' = "returned" /\ calls = <<>> /\ calls' = <<>>
      /\ out' = [Status |-> "failed", ErrorCategory |-> c, CallCount |-> 0]
      /\ c \in ErrorCategory
  BY DEF Fail, Return, Whereabouts, ErrorCategory
<1>2. TypeOK'
  BY <1>1 DEF TypeOK, HardDeadlineAt
<1>3. Whereabouts'
  BY <1>1 DEF Whereabouts
<1>4. CallBudget' /\ CallsInTime'
  BY <1>1, NoCalls DEF CallBudget, CallsInTime, MaxProviderCallsPerRole
<1>5. OutcomePublishable'
  BY <1>1 DEF OutcomePublishable, ValidFailure, MaxProviderCallsPerRole
<1> QED
  BY <1>2, <1>3, <1>4, <1>5

\* The role context is made, and the way to call 1.
LEMMA BeforeCallsInv ==
    ASSUME IInv, StartRole \/ Execute \/ RunRole
    PROVE  IInv'
<1>1. CASE Execute /\ PastHardDeadline
  BY <1>1, FailsBeforeCalls DEF Execute
<1>2. CASE RunRole /\ pc' = "returned"
  BY <1>2, FailsBeforeCalls DEF RunRole
<1>3. CASE StartRole \/ (Execute /\ ~PastHardDeadline) \/ (RunRole /\ pc' # "returned")
  <2> USE DEF IInv
  <2>1. /\ pc \in {"reserved", "execute", "run"} /\ calls = <<>> /\ calls' = <<>>
        /\ \/ pc' \in {"execute", "run"} /\ out' = out
           \/ /\ pc' = "initial"
              /\ out' = [out EXCEPT !.Status = "in_flight", !.CallCount = 1]
        /\ UNCHANGED <<clock, timing, cancelled, wakeAt>>
        /\ roleDeadline' \in {roleDeadline, Earlier(clock + CallTimeout, HardDeadlineAt)}
    BY <1>3 DEF StartRole, Execute, RunRole, Fail, Return, Whereabouts
  <2>2. roleDeadline' \in 0..HardDeadlineAt
    BY <2>1, Typed, RunnerConstants DEF Earlier
  <2>3. /\ out' \in Outcome
        /\ out'.CallCount = IF pc' = "initial" THEN 1 ELSE 0
        /\ out'.Status \in {"pending", "in_flight"}
    <3>1. out \in Outcome /\ out.CallCount = 0 /\ out.Status \in {"pending", "in_flight"}
      BY <2>1 DEF TypeOK, Outcome, Whereabouts
    <3>2. [out EXCEPT !.Status = "in_flight", !.CallCount = 1] \in Outcome
      BY <3>1 DEF Outcome
    <3>3. CASE pc' = "initial" /\ out' = [out EXCEPT !.Status = "in_flight", !.CallCount = 1]
      BY <3>1, <3>2, <3>3 DEF Outcome
    <3>4. CASE pc' \in {"execute", "run"} /\ out' = out
      BY <3>1, <3>4
    <3> QED
      BY <2>1, <3>3, <3>4
  <2>4. TypeOK'
    BY <2>1, <2>2, <2>3, NoCalls DEF TypeOK, HardDeadlineAt, Purpose, Outcome
  <2>5. Whereabouts'
    BY <2>1, <2>3 DEF Whereabouts
  <2>6. CallBudget' /\ CallsInTime'
    BY <2>1, <2>3, NoCalls DEF CallBudget, CallsInTime, MaxProviderCallsPerRole
  <2>7. OutcomePublishable'
    BY <2>1 DEF OutcomePublishable
  <2> QED
    BY <2>4, <2>5, <2>6, <2>7
<1> QED
  BY <1>1, <1>2, <1>3

\* Steps that leave the history alone keep what is known of it, as long as the
\* reported count does not fall behind.
LEMMA HistoryKept ==
    ASSUME IInv, UNCHANGED <<clock, timing, roleDeadline, calls>>,
           out'.CallCount \in Len(calls)..MaxProviderCallsPerRole
    PROVE  CallBudget' /\ CallsInTime'
<1>1. Len(calls) \in Nat
  BY Typed, CallsShape DEF IInv
<1>2. Len(calls) <= out'.CallCount /\ out'.CallCount <= MaxProviderCallsPerRole
  BY <1>1 DEF MaxProviderCallsPerRole
<1>3. CallBudget'
  BY <1>2 DEF IInv, CallBudget
<1>4. CallsInTime'
  BY DEF IInv, CallsInTime
<1> QED
  BY <1>3, <1>4

\* A return with an outcome publication accepts.
LEMMA ReturnInv ==
    ASSUME IInv, UNCHANGED <<clock, timing, roleDeadline, cancelled, wakeAt, calls>>,
           NEW status \in {"complete", "failed"}, NEW c \in ErrorCategory \cup {None}, NEW n \in 1..2,
           Return(status, c, n), Len(calls) <= n, calls # <<>>,
           status = "complete" => ThisCall.answer = "valid",
           status = "failed" => c \in ErrorCategory \ {"budget_exhausted"}
                                /\ (c = "timeout" \/ c = ThisCall.answer)
    PROVE  IInv'
<1>1. /\ pc' = "returned"
      /\ out' = [Status |-> status, ErrorCategory |-> c, CallCount |-> n]
  BY DEF Return
<1>2. out' \in Outcome /\ out'.CallCount = n /\ out'.Status = status /\ out'.ErrorCategory = c
  BY <1>1 DEF Outcome
<1>3. TypeOK'
  BY <1>1, <1>2 DEF IInv, TypeOK, HardDeadlineAt, Outcome
<1>4. Whereabouts'
  BY <1>1 DEF Whereabouts
<1>5. CallBudget' /\ CallsInTime'
  <2>1. Len(calls) \in Nat
    BY Typed, CallsShape DEF IInv
  <2>2. n \in Len(calls)..MaxProviderCallsPerRole
    BY <2>1 DEF MaxProviderCallsPerRole
  <2> QED
    BY <1>2, <2>2, HistoryKept
<1>6. ThisCall' = ThisCall /\ calls' # <<>>
  BY DEF ThisCall
<1>7. n \in 0..MaxProviderCallsPerRole /\ n \in 1..MaxProviderCallsPerRole
  BY DEF MaxProviderCallsPerRole
<1>8. OutcomePublishable'
  BY <1>1, <1>2, <1>6, <1>7 DEF OutcomePublishable, ValidSuccess, ValidFailure
<1> QED
  BY <1>3, <1>4, <1>5, <1>8 DEF IInv

\* RunRole hands back the answer of its last call, or refuses a second one.
LEMMA ReturnsInv ==
    ASSUME IInv, Succeed \/ GiveUp \/ BackoffCancelled
                 \/ (BackoffEnds /\ pc' = "returned")
                 \/ (TransportRetry /\ pc' = "returned")
                 \/ (FormatRepair /\ pc' = "returned")
    PROVE  IInv'
<1>1. "timeout" \in ErrorCategory \ {"budget_exhausted"}
  BY DEF ErrorCategory
<1>2. CASE Succeed
  <2>1. Len(calls) \in 1..2 /\ Len(calls) = out.CallCount
    BY <1>2, LastCall DEF Succeed
  <2>2. calls # <<>> /\ None \in ErrorCategory \cup {None} /\ "complete" \in {"complete", "failed"}
    BY <1>2 DEF Succeed, IInv, Whereabouts
  <2> QED
    BY <1>2, <2>1, <2>2, ReturnInv DEF Succeed
<1>3. CASE GiveUp
  <2>1. Len(calls) \in 1..2 /\ Len(calls) = out.CallCount
    BY <1>3, LastCall DEF GiveUp
  <2>2. calls # <<>> /\ ThisCall.answer \in Answer
    BY <1>3 DEF GiveUp, IInv, Whereabouts
  <2>3. ThisCall.answer \in ErrorCategory \ {"budget_exhausted"}
    BY <1>3, <2>2 DEF GiveUp, Answer, ErrorCategory, ValidationCategory
  <2> QED
    BY <1>3, <2>1, <2>2, <2>3, ReturnInv DEF GiveUp, Fail
<1>4. CASE BackoffCancelled \/ (BackoffEnds /\ pc' = "returned")
  <2>1. pc = "backoff" /\ Fail("timeout", out.CallCount)
        /\ UNCHANGED <<clock, timing, roleDeadline, cancelled, wakeAt, calls>>
    BY <1>4 DEF BackoffCancelled, BackoffEnds
  <2>2. Len(calls) = 1 /\ out.CallCount = 1
    BY <2>1 DEF IInv, Whereabouts
  <2>3. calls # <<>>
    BY <2>2, NoCalls
  <2> QED
    BY <1>1, <2>1, <2>2, <2>3, ReturnInv DEF Fail
<1>5. CASE (TransportRetry \/ FormatRepair) /\ pc' = "returned"
  <2>1. Fail("timeout", 2) /\ UNCHANGED <<clock, timing, roleDeadline, cancelled, wakeAt, calls>>
    BY <1>5 DEF TransportRetry, FormatRepair, SecondCall
  <2>2. Len(calls) = 1
    <3>1. CASE TransportRetry
      BY <3>1 DEF TransportRetry, IInv, Whereabouts
    <3>2. CASE FormatRepair
      BY <3>2, LastCall DEF FormatRepair
    <3> QED
      BY <1>5, <3>1, <3>2
  <2>3. calls # <<>>
    BY <2>2, NoCalls
  <2> QED
    BY <1>1, <2>1, <2>2, <2>3, ReturnInv DEF Fail
<1> QED
  BY <1>2, <1>3, <1>4, <1>5

\* The way from call 1 to call 2: backoff and transport retry, or repair.
LEMMA SecondCallInv ==
    ASSUME IInv, pc' # "returned",
           StartBackoff \/ BackoffEnds \/ TransportRetry \/ FormatRepair
    PROVE  IInv'
<1>1. /\ Len(calls) = 1 /\ out.CallCount = 1 /\ pc \in {"answered", "backoff", "retry"}
      /\ pc' \in {"backoff", "retry", "transport_retry"} =>
            IsRetryableTransport(calls[1].answer)
      /\ pc' = "format_repair" => calls[1].answer \in ValidationCategory
  <2>1. CASE pc = "answered"
    <3>1. Len(calls) = 1 /\ out.CallCount = 1 /\ ThisCall = calls[1]
      BY <2>1, LastCall DEF StartBackoff, BackoffEnds, TransportRetry, FormatRepair, ThisCall
    <3> QED
      BY <2>1, <3>1 DEF StartBackoff, BackoffEnds, TransportRetry, FormatRepair, SecondCall,
                        Fail, Return
  <2>2. CASE pc # "answered"
    BY <2>2 DEF StartBackoff, BackoffEnds, TransportRetry, FormatRepair, SecondCall,
                Fail, Return, IInv, Whereabouts
  <2> QED
    BY <2>1, <2>2
<1>2. /\ \/ pc' \in {"backoff", "retry"} /\ out' = out
         \/ /\ pc' \in {"transport_retry", "format_repair"}
            /\ out' = [out EXCEPT !.CallCount = 2]
      /\ UNCHANGED <<clock, timing, roleDeadline, cancelled, calls>>
  BY DEF StartBackoff, BackoffEnds, TransportRetry, FormatRepair, SecondCall, Fail, Return
<1>3. out' \in Outcome /\ out'.Status = out.Status
      /\ out'.CallCount = IF pc' \in {"backoff", "retry"} THEN 1 ELSE 2
  <2>1. out \in Outcome
    BY DEF IInv, TypeOK, Outcome
  <2>2. [out EXCEPT !.CallCount = 2] \in Outcome
    BY <2>1 DEF Outcome
  <2> QED
    BY <1>1, <1>2, <2>1, <2>2 DEF Outcome
<1>4. wakeAt' \in Nat
  <2>1. CASE StartBackoff
    <3>1. clock \in Nat /\ BackoffMin \in Nat
      BY Typed DEF IInv
    <3>2. PICK d \in IF BackoffMin = 0 THEN {0} ELSE BackoffMin..BackoffMax \cup {BackoffMin} :
             wakeAt' = clock + d
      BY <2>1 DEF StartBackoff
    <3> QED
      BY <3>1, <3>2, RunnerConstants
  <2>2. CASE ~StartBackoff
    BY <2>2 DEF BackoffEnds, TransportRetry, FormatRepair, SecondCall, IInv, TypeOK
  <2> QED
    BY <2>1, <2>2
<1>5. TypeOK'
  BY <1>2, <1>3, <1>4 DEF IInv, TypeOK, HardDeadlineAt, Outcome, Purpose
<1>6. Whereabouts'
  BY <1>1, <1>2, <1>3 DEF IInv, Whereabouts
<1>7. CallBudget' /\ CallsInTime'
  BY <1>1, <1>2, <1>3, HistoryKept DEF MaxProviderCallsPerRole
<1>8. OutcomePublishable'
  BY DEF OutcomePublishable
<1> QED
  BY <1>5, <1>6, <1>7, <1>8 DEF IInv

\* A call starts: its deadline is that of the role or earlier.
LEMMA StartCallInv == ASSUME IInv, StartCall PROVE IInv'
<1> DEFINE c == [purpose |-> pc, started |-> clock, deadline |-> AttemptDeadline,
                 answer |-> None]
<1>1. /\ pc \in Purpose /\ pc' = "calling" /\ calls' = Append(calls, c)
      /\ UNCHANGED <<clock, timing, roleDeadline, cancelled, wakeAt, out>>
  BY DEF StartCall
<1>2. AttemptDeadline \in Nat /\ AttemptDeadline <= roleDeadline /\ clock \in Nat
  BY Typed, RunnerConstants DEF IInv, AttemptDeadline, Earlier
<1>3. c \in CallRecord
  BY <1>1, <1>2 DEF CallRecord
<1>4. Len(calls) \in 0..1 /\ out.CallCount = Len(calls) + 1
      /\ (Len(calls) = 0 <=> pc = "initial")
  <2>1. CASE pc = "initial"
    <3>1. calls = <<>> /\ out.CallCount = 1
      BY <2>1 DEF IInv, Whereabouts
    <3>2. Len(calls) = 0
      BY <3>1, NoCalls
    <3> QED
      BY <2>1, <3>1, <3>2
  <2>2. CASE pc \in {"transport_retry", "format_repair"}
    <3>1. Len(calls) = 1 /\ out.CallCount = 2
      BY <2>2 DEF IInv, Whereabouts
    <3> QED
      BY <2>2, <3>1
  <2> QED
    BY <1>1, <2>1, <2>2 DEF Purpose
<1>5. /\ calls' \in Seq(CallRecord) /\ Len(calls') = Len(calls) + 1
      /\ DOMAIN calls = 1..Len(calls) /\ DOMAIN calls' = 1..(Len(calls) + 1)
      /\ calls'[Len(calls) + 1] = c
      /\ \A i \in 1..Len(calls) : calls'[i] = calls[i]
  <2>1. calls \in Seq(CallRecord)
    BY Typed DEF IInv
  <2> HIDE DEF c
  <2> QED
    BY <1>1, <1>3, <2>1, CallAppended, CallsShape
<1>6. TypeOK'
  BY <1>1, <1>5 DEF IInv, TypeOK, HardDeadlineAt, CallRecord
<1>7. Whereabouts'
  <2>1. calls' # <<>> /\ Len(calls') = out'.CallCount
    BY <1>1, <1>4, <1>5, NoCalls
  <2> QED
    BY <1>1, <2>1 DEF IInv, Whereabouts, Purpose
<1>8. CallBudget'
  <2>1. Len(calls') <= out'.CallCount /\ out'.CallCount <= MaxProviderCallsPerRole
    BY <1>1, <1>4, <1>5 DEF MaxProviderCallsPerRole
  <2>2. ASSUME NEW i \in DOMAIN calls'
        PROVE  /\ (i = 1) <=> (calls'[i].purpose = "initial")
               /\ calls'[i].purpose = "transport_retry" =>
                     IsRetryableTransport(calls'[1].answer)
               /\ calls'[i].purpose = "format_repair" =>
                     calls'[1].answer \in ValidationCategory
    <3>1. CASE i \in 1..Len(calls)
      <4>1. calls'[i] = calls[i] /\ calls'[1] = calls[1] /\ i \in DOMAIN calls
        BY <1>4, <1>5, <3>1
      <4> QED
        BY <4>1 DEF IInv, CallBudget
    <3>2. CASE i = Len(calls) + 1
      <4>1. calls'[i].purpose = pc
        BY <1>5, <3>2
      <4>2. CASE Len(calls) = 0
        BY <1>4, <3>2, <4>1, <4>2
      <4>3. CASE Len(calls) = 1
        <5>1. calls'[1] = calls[1] /\ i # 1 /\ pc # "initial"
          BY <1>4, <1>5, <3>2, <4>3
        <5> QED
          BY <1>1, <4>1, <5>1 DEF IInv, Whereabouts
      <4> QED
        BY <1>4, <4>2, <4>3
    <3> QED
      BY <1>4, <1>5, <2>2, <3>1, <3>2
  <2> QED
    BY <2>1, <2>2 DEF CallBudget
<1>9. CallsInTime'
  <2> SUFFICES ASSUME NEW i \in DOMAIN calls'
               PROVE  /\ calls'[i].started <= clock
                      /\ calls'[i].deadline <= roleDeadline
                      /\ calls'[i].answer = "valid" =>
                            calls'[i].started < calls'[i].deadline
    BY <1>1 DEF CallsInTime
  <2>1. CASE i \in 1..Len(calls)
    BY <1>5, <2>1 DEF IInv, CallsInTime
  <2>2. CASE i = Len(calls) + 1
    BY <1>2, <1>5, <2>2 DEF None
  <2> QED
    BY <1>4, <1>5, <2>1, <2>2
<1>10. OutcomePublishable'
  BY <1>1 DEF OutcomePublishable
<1> QED
  BY <1>6, <1>7, <1>8, <1>9, <1>10 DEF IInv

\* An answer arrives.  A valid body before the call's deadline means that the
\* call also started before it.
LEMMA CallAnswersInv == ASSUME IInv, CallAnswers PROVE IInv'
<1>1. PICK a \in Answer :
         /\ a = "valid" => ~Done(ThisCall.deadline)
         /\ calls' = [calls EXCEPT ![Len(calls)].answer = a]
  BY DEF CallAnswers, Answer
<1>2. /\ pc = "calling" /\ pc' = "answered"
      /\ UNCHANGED <<clock, timing, roleDeadline, cancelled, wakeAt, out>>
  BY DEF CallAnswers
<1>3. Len(calls) \in 1..2 /\ Len(calls) = out.CallCount /\ calls[Len(calls)] \in CallRecord
  BY <1>2, LastCall DEF ThisCall
<1>4. /\ calls' \in Seq(CallRecord) /\ Len(calls') = Len(calls)
      /\ DOMAIN calls = 1..Len(calls) /\ DOMAIN calls' = 1..Len(calls)
      /\ calls'[Len(calls)] = [calls[Len(calls)] EXCEPT !.answer = a]
      /\ \A i \in 1..Len(calls) : i # Len(calls) => calls'[i] = calls[i]
  <2>1. calls \in Seq(CallRecord) /\ calls # <<>>
    BY <1>3, Typed, NoCalls DEF IInv
  <2> QED
    BY <1>1, <2>1, AnswerRecorded, CallsShape
<1>5. LET c == calls'[Len(calls)]
      IN  /\ c.purpose = calls[Len(calls)].purpose
          /\ c.started = calls[Len(calls)].started
          /\ c.deadline = calls[Len(calls)].deadline
          /\ c.answer = a
  BY <1>3, <1>4 DEF CallRecord
<1>6. TypeOK'
  BY <1>2, <1>4 DEF IInv, TypeOK, HardDeadlineAt, CallRecord
<1>7. Whereabouts'
  <2>1. calls' # <<>> /\ Len(calls') = out'.CallCount /\ ThisCall'.answer = a
    BY <1>2, <1>3, <1>4, <1>5, NoCalls DEF ThisCall
  <2> QED
    BY <1>2, <2>1 DEF IInv, Whereabouts
<1>8. CallBudget'
  <2>1. Len(calls') <= out'.CallCount /\ out'.CallCount <= MaxProviderCallsPerRole
    BY <1>2, <1>3, <1>4 DEF MaxProviderCallsPerRole
  <2>2. ASSUME NEW i \in DOMAIN calls'
        PROVE  /\ (i = 1) <=> (calls'[i].purpose = "initial")
               /\ calls'[i].purpose = "transport_retry" =>
                     IsRetryableTransport(calls'[1].answer)
               /\ calls'[i].purpose = "format_repair" =>
                     calls'[1].answer \in ValidationCategory
    <3>1. calls'[i].purpose = calls[i].purpose /\ i \in DOMAIN calls
      BY <1>3, <1>4, <1>5
    <3>2. CASE i = 1
      <4>1. calls[i].purpose = "initial"
        BY <3>1, <3>2 DEF IInv, CallBudget
      <4> QED
        BY <3>1, <3>2, <4>1
    <3>3. CASE i # 1
      <4>1. calls'[1] = calls[1]
        BY <1>3, <1>4, <3>1, <3>3
      <4> QED
        BY <3>1, <3>3, <4>1 DEF IInv, CallBudget
    <3> QED
      BY <3>2, <3>3
  <2> QED
    BY <2>1, <2>2 DEF CallBudget
<1>9. CallsInTime'
  <2> SUFFICES ASSUME NEW i \in DOMAIN calls'
               PROVE  /\ calls'[i].started <= clock
                      /\ calls'[i].deadline <= roleDeadline
                      /\ calls'[i].answer = "valid" =>
                            calls'[i].started < calls'[i].deadline
    BY <1>2 DEF CallsInTime
  <2>1. CASE i # Len(calls)
    BY <1>4, <2>1 DEF IInv, CallsInTime
  <2>2. CASE i = Len(calls)
    <3>1. calls[i].started <= clock /\ calls[i].deadline <= roleDeadline
      BY <1>3, <1>4, <2>2 DEF IInv, CallsInTime
    <3>2. a = "valid" => ~(clock >= calls[i].deadline)
      BY <1>1, <2>2 DEF Done, ThisCall
    <3>3. clock \in Nat /\ calls[i].started \in Nat /\ calls[i].deadline \in Nat
      BY <1>3, <2>2, Typed DEF IInv, CallRecord
    <3> QED
      BY <1>5, <2>2, <3>1, <3>2, <3>3
  <2> QED
    BY <2>1, <2>2
<1>10. OutcomePublishable'
  BY <1>2 DEF OutcomePublishable
<1> QED
  BY <1>6, <1>7, <1>8, <1>9, <1>10 DEF IInv

\* Every step keeps the invariant.
LEMMA StepInv == IInv /\ [Next]_vars => IInv'
<1> SUFFICES ASSUME IInv, [Next]_vars PROVE IInv'
  OBVIOUS
<1>1. CASE Tick \/ CancelRole
  BY <1>1, EnvironmentInv
<1>2. CASE Step
  <2>1. CASE StartRole \/ Execute \/ RunRole
    BY <2>1, BeforeCallsInv
  <2>2. CASE StartCall
    BY <2>2, StartCallInv
  <2>3. CASE Succeed \/ GiveUp \/ BackoffCancelled
    BY <2>3, ReturnsInv
  <2>4. CASE StartBackoff \/ BackoffEnds \/ TransportRetry \/ FormatRepair
    <3>1. CASE pc' # "returned"
      BY <2>4, <3>1, SecondCallInv
    <3>2. CASE pc' = "returned"
      <4>1. ~StartBackoff
        BY <3>2 DEF StartBackoff
      <4> QED
        BY <2>4, <3>2, <4>1, ReturnsInv
    <3> QED
      BY <3>1, <3>2
  <2> QED
    BY <1>2, <2>1, <2>2, <2>3, <2>4 DEF Step
<1>3. CASE CallAnswers
  BY <1>3, CallAnswersInv
<1>4. CASE UNCHANGED vars
  BY <1>4 DEF vars, IInv, TypeOK, Whereabouts, CallBudget, CallsInTime, OutcomePublishable,
              ThisCall, HardDeadlineAt, ValidSuccess, ValidFailure
<1> QED
  BY <1>1, <1>2, <1>3, <1>4 DEF Next

-----------------------------------------------------------------------------

\* It holds in every reachable state.
THEOREM Invariance == Spec => []IInv
  BY InitInv, StepInv, PTL DEF Spec

\* The variables of a role goroutine keep their types, and its context never
\* outlives the hard deadline of the session.
THEOREM RunnerTypes == Spec => []TypeOK
<1>1. IInv => TypeOK
  BY DEF IInv
<1> QED
  BY <1>1, Invariance, PTL

\* RunRole never makes a third call, never chains a repair to a retry, and its
\* reported count never hides a call, whatever the provider answers and
\* whenever the supervisor cancels.
THEOREM CallBudgetKept == Spec => []CallBudget
<1>1. IInv => CallBudget
  BY DEF IInv
<1> QED
  BY <1>1, Invariance, PTL

\* Every outcome RunRole returns passes the validators of publication.
THEOREM OutcomeAlwaysPublishable == Spec => []OutcomePublishable
<1>1. IInv => OutcomePublishable
  BY DEF IInv
<1> QED
  BY <1>1, Invariance, PTL

\* No call that began after its role's time or the session's hard deadline is
\* reported as a success.
THEOREM SuccessIsInTime == Spec => []NoLateSuccess
<1>1. IInv => NoLateSuccess
  <2> SUFFICES ASSUME IInv, out.Status = "complete"
               PROVE  ThisCall.started < HardDeadlineAt /\ ThisCall.started < roleDeadline
    BY DEF NoLateSuccess
  <2>1. calls # <<>> /\ ThisCall.answer = "valid"
    BY DEF IInv, Whereabouts, OutcomePublishable
  <2>2. Len(calls) \in DOMAIN calls /\ ThisCall \in CallRecord
    BY <2>1, Typed, CallsShape DEF IInv, ThisCall
  <2>3. ThisCall.started < ThisCall.deadline /\ ThisCall.deadline <= roleDeadline
    BY <2>1, <2>2 DEF IInv, CallsInTime, ThisCall
  <2>4. ThisCall.started \in Nat /\ ThisCall.deadline \in Nat
    BY <2>2 DEF CallRecord
  <2> QED
    BY <2>3, <2>4, Typed DEF IInv
<1> QED
  BY <1>1, Invariance, PTL
=============================================================================
