------------------------------- MODULE Worker -------------------------------
(***************************************************************************)
(* The worker around the store: internal/worker.  An attempt is one call   *)
(* of Supervise: take the process lock, sweep stale sessions once, claim   *)
(* at most one session and supervise it with a coordinator loop, one       *)
(* dispatcher goroutine and one goroutine per reserved role, then release  *)
(* the lock.  Attempts run again and again (the outer supervisor), may     *)
(* crash at any step, and race with each other and with the API.           *)
(*                                                                         *)
(* Store operations are the transactions of ReviewStore; each is one step  *)
(* of the goroutine that calls it.  One that reports an error may have     *)
(* committed all the same (see ImmediateTx).                               *)
(***************************************************************************)
EXTENDS ReviewStore

CONSTANTS
    Attempt,      \* the attempts that may be running at the same time
    NoOne,        \* nobody holds the lock / no session / no role
    MaxFaults     \* bound: crashes, shutdowns and store errors per behaviour

\* "nobody" is no attempt, session or role.
ASSUME WorkerConstants ==
    /\ MaxFaults \in Nat
    /\ NoOne \notin Attempt /\ NoOne \notin Session /\ NoOne \notin Role

VARIABLES
    lock,        \* holder of the process lock file
    stage,       \* where the attempt's main goroutine is
    mine,        \* the session the attempt supervises
    dispatcher,  \* the dispatcher goroutine of the attempt
    reserved,    \* role reserved by the dispatcher, goroutine not started yet
    localInFlight, \* Dispatcher.localInFlight: reserved and not yet notified
    task,        \* the role goroutines of the attempt
    stopped,     \* dispatcher.Stop() was called
    ctxDone,     \* the attempt's context is cancelled (shutdown)
    fatalErr,    \* SuperviseSession's fatalErr is set
    gateWake,    \* gateWakeCh is not empty
    faults,      \* faults so far
    executed     \* history: how often a role run was handed to a provider

processVars == <<lock, stage, mine, dispatcher, reserved, localInFlight, task,
                 stopped, ctxDone, fatalErr, gateWake>>

wvars == <<vars, processVars, faults, executed>>

\* idle .. claimed: Supervise.  The rest are points of SuperviseSession's
\* coordinator goroutine: its first gate, its select, the sweeps of a tick,
\* the gate, and the way out.
Stage == {"idle", "owner", "recovered", "claimed", "begin", "select",
          "tick_deadline", "tick_cancel", "gate", "count", "compose", "closing"}

\* ready: in its select; step: inside Step, before the reservation commits.
DispatcherState == {"off", "ready", "step", "reserved", "failed"}

\* calling: inside Execute; complete / failed: Execute returned this outcome;
\* ending: deferred calls left to run; waking: wakeGate done, still counted.
TaskState == {"none", "calling", "complete", "failed", "ending", "waking"}

Supervising(a) == stage[a] \in {"begin", "select", "tick_deadline", "tick_cancel",
                               "gate", "count", "compose"}

\* activeInFlight and inFlightWG count these.
Active(a) == {r \in Role : task[a][r] # "none"}

\* Nothing of an earlier run of this attempt is still executing.
Quiet(a) == dispatcher[a] \in {"off", "failed"} /\ Active(a) = {}

WInit ==
    /\ Init
    /\ lock = NoOne
    /\ stage = [a \in Attempt |-> "idle"]
    /\ mine = [a \in Attempt |-> NoOne]
    /\ dispatcher = [a \in Attempt |-> "off"]
    /\ reserved = [a \in Attempt |-> NoOne]
    /\ localInFlight = [a \in Attempt |-> 0]
    /\ task = [a \in Attempt |-> [r \in Role |-> "none"]]
    /\ stopped = [a \in Attempt |-> FALSE]
    /\ ctxDone = [a \in Attempt |-> FALSE]
    /\ fatalErr = [a \in Attempt |-> FALSE]
    /\ gateWake = [a \in Attempt |-> FALSE]
    /\ faults = 0
    /\ executed = [s \in Session |-> [r \in Role |-> 0]]

-----------------------------------------------------------------------------
(* The environment: the clock, the API, faults.                            *)

ClockTick == Tick /\ UNCHANGED <<processVars, faults, executed>>

OwnerRequest(s) ==
    /\ Submit(s) \/ RequestCancellation(s)
    /\ UNCHANGED <<processVars, faults, executed>>

Fault == faults < MaxFaults /\ faults' = faults + 1

\* A store operation reported an error: it was rolled back, or its COMMIT took
\* effect without confirmation.
Unconfirmed(op) == UNCHANGED vars \/ op

\* The process dies: its goroutines are gone and the OS drops its lock.
Crash(a) ==
    /\ Fault
    /\ stage[a] # "idle" \/ ~Quiet(a)
    /\ lock' = IF lock = a THEN NoOne ELSE lock
    /\ stage' = [stage EXCEPT ![a] = "idle"]
    /\ mine' = [mine EXCEPT ![a] = NoOne]
    /\ dispatcher' = [dispatcher EXCEPT ![a] = "off"]
    /\ reserved' = [reserved EXCEPT ![a] = NoOne]
    /\ localInFlight' = [localInFlight EXCEPT ![a] = 0]
    /\ task' = [task EXCEPT ![a] = [r \in Role |-> "none"]]
    /\ stopped' = [stopped EXCEPT ![a] = FALSE]
    /\ ctxDone' = [ctxDone EXCEPT ![a] = FALSE]
    /\ fatalErr' = [fatalErr EXCEPT ![a] = FALSE]
    /\ gateWake' = [gateWake EXCEPT ![a] = FALSE]
    /\ UNCHANGED <<vars, executed>>

\* The caller cancels the context of an attempt that supervises a session.
Shutdown(a) ==
    /\ Fault
    /\ Supervising(a) /\ ~ctxDone[a]
    /\ ctxDone' = [ctxDone EXCEPT ![a] = TRUE]
    /\ UNCHANGED <<vars, lock, stage, mine, dispatcher, reserved,
                   localInFlight, task, stopped, fatalErr, gateWake, executed>>

-----------------------------------------------------------------------------
(* Supervise: lock, recovery, claim, release.                              *)

\* Mutant: the lock is taken over from its holder.
LockTakenOver(a) ==
    /\ stage[a] = "idle" /\ Quiet(a)
    /\ lock' = a
    /\ stage' = [stage EXCEPT ![a] = "owner"]
    /\ UNCHANGED <<vars, mine, dispatcher, reserved, localInFlight, task,
                   stopped, ctxDone, fatalErr, gateWake, faults, executed>>

\* A held lock makes the attempt return ErrAlreadyOwned: nothing changes.
AcquireProcessLock(a) ==
    /\ stage[a] = "idle" /\ Quiet(a)
    /\ lock = NoOne
    /\ lock' = a
    /\ stage' = [stage EXCEPT ![a] = "owner"]
    /\ UNCHANGED <<vars, mine, dispatcher, reserved, localInFlight, task,
                   stopped, ctxDone, fatalErr, gateWake, faults, executed>>

\* The one recovery sweep of the attempt.  The caller chooses the cutoff, which
\* may leave sessions alone that were claimed after it; a cutoff in the future
\* does what the present does.
RecoverySweep == \E cutoff \in 0..clock, now \in Reading : SweepRestartRecovery(cutoff, now)

Recover(a) ==
    /\ stage[a] = "owner"
    /\ RecoverySweep
    /\ stage' = [stage EXCEPT ![a] = "recovered"]
    /\ UNCHANGED <<lock, mine, dispatcher, reserved, localInFlight, task,
                   stopped, ctxDone, fatalErr, gateWake, faults, executed>>

Claim(a) ==
    /\ stage[a] = "recovered"
    /\ \E s \in Session, now \in Reading :
          /\ ClaimSession(s, now)
          /\ mine' = [mine EXCEPT ![a] = s]
    /\ stage' = [stage EXCEPT ![a] = "claimed"]
    /\ UNCHANGED <<lock, dispatcher, reserved, localInFlight, task, stopped,
                   ctxDone, fatalErr, gateWake, faults, executed>>

\* SuperviseSession reads the status and the snapshot (an error ends the
\* attempt), starts the dispatcher and evaluates the gate a first time.
BeginSession(a) ==
    /\ stage[a] = "claimed"
    /\ \/ /\ Reviewing(mine[a])
          /\ stage' = [stage EXCEPT ![a] = "begin"]
          /\ dispatcher' = [dispatcher EXCEPT ![a] = "ready"]
          /\ UNCHANGED faults
       \/ /\ Fault
          /\ stage' = [stage EXCEPT ![a] = "closing"]
          /\ UNCHANGED dispatcher
    /\ localInFlight' = [localInFlight EXCEPT ![a] = 0]
    /\ stopped' = [stopped EXCEPT ![a] = FALSE]
    /\ ctxDone' = [ctxDone EXCEPT ![a] = FALSE]
    /\ fatalErr' = [fatalErr EXCEPT ![a] = FALSE]
    /\ gateWake' = [gateWake EXCEPT ![a] = FALSE]
    /\ UNCHANGED <<vars, lock, mine, reserved, task, executed>>

\* The store fails, or the context is cancelled, during the recovery sweep or
\* the claim: a failed recovery never claims.
GiveUp(a) ==
    /\ Fault
    /\ \/ stage[a] = "owner" /\ Unconfirmed(RecoverySweep)
       \/ /\ stage[a] = "recovered"
          /\ Unconfirmed(\E s \in Session, now \in Reading : ClaimSession(s, now))
    /\ lock' = NoOne
    /\ stage' = [stage EXCEPT ![a] = "idle"]
    /\ UNCHANGED <<mine, dispatcher, reserved, localInFlight, task,
                   stopped, ctxDone, fatalErr, gateWake, executed>>

\* Mutant: the way out without a claim leaks the lock.
ClaimNothingLeaks(a) ==
    /\ stage[a] = "recovered"
    /\ \A s \in Session : sessions[s].status # "queued"
    /\ stage' = [stage EXCEPT ![a] = "idle"]
    /\ UNCHANGED <<vars, lock, mine, dispatcher, reserved, localInFlight, task,
                   stopped, ctxDone, fatalErr, gateWake, faults, executed>>

\* No claim: a session is reviewing, none is queued, or the oldest one was
\* created after the claim read its clock (an error).  The lock is released.
ClaimNothing(a) ==
    /\ stage[a] = "recovered"
    /\ \/ \E s \in Session : Reviewing(s)
       \/ \A s \in Session : sessions[s].status # "queued"
       \/ \E s \in Session, now \in Reading :
             OldestQueued(s) /\ sessions[s].created_at > now
    /\ lock' = NoOne
    /\ stage' = [stage EXCEPT ![a] = "idle"]
    /\ UNCHANGED <<vars, mine, dispatcher, reserved, localInFlight, task,
                   stopped, ctxDone, fatalErr, gateWake, faults, executed>>

\* Mutant: the lock is not released after a session.
ReturnLeaks(a) ==
    /\ stage[a] = "closing"
    /\ Active(a) = {}
    /\ stage' = [stage EXCEPT ![a] = "idle"]
    /\ UNCHANGED <<vars, lock, mine, dispatcher, reserved, localInFlight, task,
                   stopped, ctxDone, fatalErr, gateWake, faults, executed>>

\* SuperviseSession returns once its role goroutines are done (inFlightWG);
\* it does not wait for the dispatcher goroutine.  Supervise drops the lock.
Return(a) ==
    /\ stage[a] = "closing"
    /\ Active(a) = {}
    /\ lock' = NoOne
    /\ stage' = [stage EXCEPT ![a] = "idle"]
    /\ UNCHANGED <<vars, mine, dispatcher, reserved, localInFlight, task,
                   stopped, ctxDone, fatalErr, gateWake, faults, executed>>

-----------------------------------------------------------------------------
(* The dispatcher goroutine (dispatch.go).                                 *)

\* A tick, wake or completion event; stop and context are checked first.
DispatcherWakes(a) ==
    /\ dispatcher[a] = "ready"
    /\ dispatcher' = [dispatcher EXCEPT ![a] =
                        IF stopped[a] \/ ctxDone[a] THEN "off" ELSE "step"]
    /\ UNCHANGED <<vars, lock, stage, mine, reserved, localInFlight, task,
                   stopped, ctxDone, fatalErr, gateWake, faults, executed>>

\* Step: local capacity, then the authoritative reservation.  The fast-path
\* reads before it only skip work the reservation would refuse as well.
CanReserve(a, now) ==
    /\ localInFlight[a] < MaxInFlight
    /\ Reservable(mine[a], now)
    /\ RolesIn(mine[a], "pending") # {}

StepReserves(a) ==
    /\ dispatcher[a] = "step"
    /\ ~ctxDone[a]
    /\ localInFlight[a] < MaxInFlight
    /\ \E r \in Role, now \in Reading :
          /\ ReservePendingRole(mine[a], r, now)
          /\ reserved' = [reserved EXCEPT ![a] = r]
    /\ localInFlight' = [localInFlight EXCEPT ![a] = @ + 1]
    /\ dispatcher' = [dispatcher EXCEPT ![a] = "reserved"]
    /\ UNCHANGED <<lock, stage, mine, task, stopped, ctxDone, fatalErr,
                   gateWake, faults, executed>>

StepFindsNoWork(a) ==
    /\ dispatcher[a] = "step"
    /\ ~ctxDone[a]
    /\ \E now \in Reading : ~CanReserve(a, now)
    /\ dispatcher' = [dispatcher EXCEPT ![a] = "ready"]
    /\ UNCHANGED <<vars, lock, stage, mine, reserved, localInFlight, task,
                   stopped, ctxDone, fatalErr, gateWake, faults, executed>>

\* The reservation fails: context cancelled, or the store fails.  Run returns
\* the error.  A reservation that was committed without confirmation is nobody's:
\* its role stays in flight until recovery.
StepFails(a) ==
    /\ dispatcher[a] = "step"
    /\ Unconfirmed(/\ localInFlight[a] < MaxInFlight
                   /\ \E r \in Role, now \in Reading : ReservePendingRole(mine[a], r, now))
    /\ \/ ctxDone[a] /\ dispatcher' = [dispatcher EXCEPT ![a] = "off"] /\ UNCHANGED faults
       \/ Fault /\ dispatcher' = [dispatcher EXCEPT ![a] = "failed"]
    /\ UNCHANGED <<lock, stage, mine, reserved, localInFlight, task,
                   stopped, ctxDone, fatalErr, gateWake, executed>>

\* The onReserved callback, after the reservation has committed: starts the
\* role goroutine unless a fatal error is known.  Step then runs again.
OnReserved(a) ==
    /\ dispatcher[a] = "reserved"
    /\ IF fatalErr[a]
       THEN UNCHANGED <<task, executed>>
       ELSE /\ task' = [task EXCEPT ![a][reserved[a]] = "calling"]
            /\ executed' = [executed EXCEPT ![mine[a]][reserved[a]] = @ + 1]
    /\ reserved' = [reserved EXCEPT ![a] = NoOne]
    /\ dispatcher' = [dispatcher EXCEPT ![a] =
                        IF stopped[a] \/ ctxDone[a] THEN "off" ELSE "step"]
    /\ UNCHANGED <<vars, lock, stage, mine, localInFlight, stopped, ctxDone,
                   fatalErr, gateWake, faults>>

-----------------------------------------------------------------------------
(* A role goroutine (the closure in onReserved).                           *)

\* Execute returns: provider calls done, refused or cut off by a deadline.
ExecuteReturns(a, r) ==
    /\ task[a][r] = "calling"
    /\ \E o \in {"complete", "failed"} : task' = [task EXCEPT ![a][r] = o]
    /\ UNCHANGED <<vars, lock, stage, mine, dispatcher, reserved,
                   localInFlight, stopped, ctxDone, fatalErr, gateWake, faults,
                   executed>>

\* Publish with a context of its own (a cancelled attempt still publishes),
\* not earlier than started_at; then notify the dispatcher (until it is
\* notified the dispatcher finds no free slot, as before the publication).
PublishOutcome(a, r) ==
    /\ task[a][r] \in {"complete", "failed"}
    /\ ~fatalErr[a]
    /\ \E now \in Reading :
          Publish(mine[a], r, task[a][r], Later(now, role_runs[mine[a]][r].started_at))
    /\ localInFlight' = [localInFlight EXCEPT ![a] = @ - 1]
    /\ task' = [task EXCEPT ![a][r] = "ending"]
    /\ UNCHANGED <<lock, stage, mine, dispatcher, reserved, stopped, ctxDone,
                   fatalErr, gateWake, faults, executed>>

\* Mutant: a failed publication is only logged.
PublishFailureIgnored(a, r) ==
    /\ task[a][r] \in {"complete", "failed"}
    /\ Fault
    /\ task' = [task EXCEPT ![a][r] = "ending"]
    /\ UNCHANGED <<vars, lock, stage, mine, dispatcher, reserved,
                   localInFlight, stopped, ctxDone, fatalErr, gateWake,
                   executed>>

\* The row is no longer in flight, or the store fails: fatal, no further
\* dispatch, no completion notice.
PublishFails(a, r) ==
    /\ task[a][r] \in {"complete", "failed"}
    /\ ~fatalErr[a]
    /\ \/ role_runs[mine[a]][r].status # "in_flight" /\ UNCHANGED <<vars, faults>>
       \/ /\ Fault
          /\ \E now \in Reading :
                Unconfirmed(Publish(mine[a], r, task[a][r],
                                    Later(now, role_runs[mine[a]][r].started_at)))
    /\ fatalErr' = [fatalErr EXCEPT ![a] = TRUE]
    /\ stopped' = [stopped EXCEPT ![a] = TRUE]
    /\ task' = [task EXCEPT ![a][r] = "ending"]
    /\ UNCHANGED <<lock, stage, mine, dispatcher, reserved,
                   localInFlight, ctxDone, gateWake, executed>>

\* A fatal error is known before publication: the outcome is dropped.
DropOutcome(a, r) ==
    /\ task[a][r] \in {"complete", "failed"}
    /\ fatalErr[a]
    /\ task' = [task EXCEPT ![a][r] = "ending"]
    /\ UNCHANGED <<vars, lock, stage, mine, dispatcher, reserved,
                   localInFlight, stopped, ctxDone, fatalErr, gateWake, faults,
                   executed>>

\* Deferred calls run last-in first-out: wakeGate, then the counters.
WakeGate(a, r) ==
    /\ task[a][r] = "ending"
    /\ task' = [task EXCEPT ![a][r] = "waking"]
    /\ gateWake' = [gateWake EXCEPT ![a] = TRUE]
    /\ UNCHANGED <<vars, lock, stage, mine, dispatcher, reserved,
                   localInFlight, stopped, ctxDone, fatalErr, faults, executed>>

TaskDone(a, r) ==
    /\ task[a][r] = "waking"
    /\ task' = [task EXCEPT ![a][r] = "none"]
    /\ UNCHANGED <<vars, lock, stage, mine, dispatcher, reserved,
                   localInFlight, stopped, ctxDone, fatalErr, gateWake, faults,
                   executed>>

-----------------------------------------------------------------------------
(* The coordinator loop of SuperviseSession.                               *)

\* A sweep by the coordinator when it is due.  Its error is ignored, so that an
\* unconfirmed sweep is like a confirmed one; with a cancelled context it fails.
TrySweep(a, sweep, due) ==
    \/ due /\ ~ctxDone[a] /\ sweep /\ UNCHANGED faults
    \/ (~due \/ ctxDone[a]) /\ UNCHANGED <<vars, faults>>
    \/ due /\ Fault /\ UNCHANGED vars

CutoffSweeper(a) == \E now \in Reading :
    TrySweep(a, SweepCutoff(mine[a], now), now >= DispatchCutoffAt(mine[a]))

HardDeadlineSweeper(a) == \E now \in Reading :
    TrySweep(a, SweepHardDeadline(mine[a], now), now >= HardDeadlineAt(mine[a]))

\* Mutant: nobody sweeps a cancelled session.
CancellationIgnored(a) == a \in Attempt /\ UNCHANGED <<vars, faults>>

CancellationSweeper(a) == \E now \in Reading :
    TrySweep(a, SweepCancellation(mine[a], now), sessions[mine[a]].cancel_requested)

\* The one-shot timers: one sweep, then wake dispatcher and gate.
TimerFires(a) ==
    /\ stage[a] = "select"
    /\ \/ clock >= DispatchCutoffAt(mine[a]) /\ CutoffSweeper(a)
       \/ clock >= HardDeadlineAt(mine[a]) /\ HardDeadlineSweeper(a)
    /\ gateWake' = [gateWake EXCEPT ![a] = TRUE]
    /\ UNCHANGED <<lock, stage, mine, dispatcher, reserved, localInFlight,
                   task, stopped, ctxDone, fatalErr, executed>>

\* The ticker: cutoff sweep, hard-deadline sweep, cancellation sweep, each a
\* transaction of its own and each due by its own test; then wake the gate.
\* (The code reads the clock once for both deadlines; time that passes between
\* the two sweeps only makes the second one due a tick earlier.)
TickCutoff(a) ==
    /\ stage[a] = "select"
    /\ CutoffSweeper(a)
    /\ stage' = [stage EXCEPT ![a] = "tick_deadline"]
    /\ UNCHANGED <<lock, mine, dispatcher, reserved, localInFlight, task,
                   stopped, ctxDone, fatalErr, gateWake, executed>>

TickDeadline(a) ==
    /\ stage[a] = "tick_deadline"
    /\ HardDeadlineSweeper(a)
    /\ stage' = [stage EXCEPT ![a] = "tick_cancel"]
    /\ UNCHANGED <<lock, mine, dispatcher, reserved, localInFlight, task,
                   stopped, ctxDone, fatalErr, gateWake, executed>>

TickCancel(a) ==
    /\ stage[a] = "tick_cancel"
    /\ CancellationSweeper(a)
    /\ gateWake' = [gateWake EXCEPT ![a] = TRUE]
    /\ stage' = [stage EXCEPT ![a] = "select"]
    /\ UNCHANGED <<lock, mine, dispatcher, reserved, localInFlight, task,
                   stopped, ctxDone, fatalErr, executed>>

\* The gate (checkAndCompose).  A fatal error, a cancelled context or a failed
\* status read ends the attempt; otherwise a cancelled session is swept and
\* the status read again.
GateAwake(a) == stage[a] = "begin" \/ (stage[a] = "select" /\ gateWake[a])

GateOpens(a) ==
    /\ GateAwake(a)
    /\ ~fatalErr[a] /\ ~ctxDone[a]
    /\ CancellationSweeper(a)
    /\ gateWake' = [gateWake EXCEPT ![a] = gateWake[a] /\ stage[a] = "begin"]
    /\ stage' = [stage EXCEPT ![a] = "gate"]
    /\ UNCHANGED <<lock, mine, dispatcher, reserved, localInFlight, task,
                   stopped, ctxDone, fatalErr, executed>>

GateFails(a) ==
    /\ GateAwake(a)
    /\ \/ (fatalErr[a] \/ ctxDone[a]) /\ UNCHANGED faults
       \/ Fault
    /\ stopped' = [stopped EXCEPT ![a] = TRUE]
    /\ stage' = [stage EXCEPT ![a] = "closing"]
    /\ UNCHANGED <<vars, lock, mine, dispatcher, reserved, localInFlight, task,
                   ctxDone, fatalErr, gateWake, executed>>

\* Mutant: a session with nothing in flight is taken for a finished one.
ReadyWhenNoneInFlight(a) == RolesIn(mine[a], "in_flight") = {}

\* The status just read shows every role terminal.
Ready(a) == AllTerminal(mine[a])

GateReads(a) ==
    /\ stage[a] = "gate"
    /\ stage' = [stage EXCEPT ![a] = IF Ready(a) THEN "count" ELSE "select"]
    /\ UNCHANGED <<vars, lock, mine, dispatcher, reserved, localInFlight, task,
                   stopped, ctxDone, fatalErr, gateWake, faults, executed>>

\* Then activeInFlight is loaded: compose if no role goroutine is counted,
\* otherwise back to the select.
GateCounts(a) ==
    /\ stage[a] = "count"
    /\ stage' = [stage EXCEPT ![a] = IF Active(a) = {} THEN "compose" ELSE "select"]
    /\ stopped' = [stopped EXCEPT ![a] = stopped[a] \/ Active(a) = {}]
    /\ UNCHANGED <<vars, lock, mine, dispatcher, reserved, localInFlight, task,
                   ctxDone, fatalErr, gateWake, faults, executed>>

\* The composition transaction, which may fail like any other write.  (It is
\* never refused as not ready: CompositionNeverRefused.)
Compose(a) ==
    /\ stage[a] = "compose"
    /\ \/ /\ ~ctxDone[a]
          /\ ComposeSession(mine[a])
          /\ UNCHANGED faults
       \/ Unconfirmed(ComposeSession(mine[a])) /\ (Fault \/ (ctxDone[a] /\ UNCHANGED faults))
    /\ stage' = [stage EXCEPT ![a] = "closing"]
    /\ UNCHANGED <<lock, mine, dispatcher, reserved, localInFlight, task,
                   stopped, ctxDone, fatalErr, gateWake, executed>>

\* The select sees the cancelled context or the dispatcher's error: stop,
\* cancel the role contexts, wait for the role goroutines.
CoordinatorStops(a) ==
    /\ stage[a] = "select"
    /\ \/ ctxDone[a] /\ UNCHANGED <<fatalErr, dispatcher>>
       \/ /\ dispatcher[a] = "failed"
          /\ fatalErr' = [fatalErr EXCEPT ![a] = TRUE]
          /\ dispatcher' = [dispatcher EXCEPT ![a] = "off"]
    /\ stopped' = [stopped EXCEPT ![a] = TRUE]
    /\ stage' = [stage EXCEPT ![a] = "closing"]
    /\ UNCHANGED <<vars, lock, mine, reserved, localInFlight, task, ctxDone,
                   gateWake, faults, executed>>

-----------------------------------------------------------------------------

Supervise(a) ==
    \/ AcquireProcessLock(a) \/ Recover(a) \/ Claim(a) \/ ClaimNothing(a)
    \/ GiveUp(a) \/ BeginSession(a) \/ Return(a)

Dispatch(a) ==
    \/ DispatcherWakes(a) \/ StepReserves(a) \/ StepFindsNoWork(a) \/ StepFails(a)
    \/ OnReserved(a)

RunTask(a, r) ==
    \/ ExecuteReturns(a, r) \/ PublishOutcome(a, r) \/ PublishFails(a, r)
    \/ DropOutcome(a, r) \/ WakeGate(a, r) \/ TaskDone(a, r)

Coordinate(a) ==
    \/ TimerFires(a) \/ TickCutoff(a) \/ TickDeadline(a) \/ TickCancel(a)
    \/ GateOpens(a) \/ GateFails(a) \/ GateReads(a) \/ GateCounts(a) \/ Compose(a)
    \/ CoordinatorStops(a)

WNext ==
    \/ ClockTick
    \/ \E s \in Session : OwnerRequest(s)
    \/ \E a \in Attempt :
          \/ Crash(a) \/ Shutdown(a)
          \/ Supervise(a) \/ Dispatch(a) \/ Coordinate(a)
          \/ \E r \in Role : RunTask(a, r)

WSpec == WInit /\ [][WNext]_wvars

\* Fairness.  A running goroutine keeps running, and Go's select chooses
\* among its ready cases at random, so the gate, the ticker and the stop case
\* are each taken if ready again and again.  A provider call returns (its
\* context has a deadline).  The outer supervisor keeps starting attempts.
\* Nothing is assumed of owners, faults or the clock.
Fairness ==
    \A a \in Attempt :
        /\ WF_wvars(Supervise(a))
        /\ WF_wvars(Dispatch(a))
        /\ WF_wvars(Coordinate(a))
        /\ SF_wvars(GateOpens(a) \/ GateFails(a))
        /\ SF_wvars(TickCutoff(a))
        /\ SF_wvars(CoordinatorStops(a))
        /\ \A r \in Role : WF_wvars(RunTask(a, r))

FairSpec == WSpec /\ Fairness

-----------------------------------------------------------------------------
(* Properties.                                                             *)

\* The goroutines' variables hold values of their types, and an attempt is
\* past its first step exactly while it owns the process lock.
WTypeOK ==
    /\ lock \in Attempt \cup {NoOne}
    /\ \A a \in Attempt : stage[a] # "idle" <=> lock = a
    /\ stage \in [Attempt -> Stage]
    /\ mine \in [Attempt -> Session \cup {NoOne}]
    /\ dispatcher \in [Attempt -> DispatcherState]
    /\ reserved \in [Attempt -> Role \cup {NoOne}]
    /\ localInFlight \in [Attempt -> 0..MaxInFlight]
    /\ task \in [Attempt -> [Role -> TaskState]]
    /\ {stopped, ctxDone, fatalErr, gateWake} \subseteq [Attempt -> BOOLEAN]
    /\ faults \in 0..MaxFaults
    /\ executed \in [Session -> [Role -> Nat]]

\* No provider work is ever replayed: a role run is handed to a provider at
\* most once, over every crash, restart, late reservation and second worker.
NoReplay == \A s \in Session, r \in Role : executed[s][r] <= 1

\* No silently stuck role: while an attempt supervises its session, is not
\* cancelled and has seen neither its dispatcher nor a publication fail, the
\* rows in flight are exactly the roles its dispatcher has just reserved or its
\* goroutines have not published yet.
InFlightAccountedFor ==
    \A a \in Attempt :
        Supervising(a) /\ ~fatalErr[a] /\ ~ctxDone[a] /\ dispatcher[a] # "failed" =>
        RolesIn(mine[a], "in_flight") =
            {r \in Role : task[a][r] \in {"calling", "complete", "failed"}
                          \/ reserved[a] = r}

\* The gate's status read is still true when the composition transaction
\* starts: the session is reviewing, all its roles are terminal, and none of
\* the attempt's goroutines is left, so composition is never refused.
CompositionNeverRefused ==
    \A a \in Attempt : stage[a] = "compose" =>
        Reviewing(mine[a]) /\ AllTerminal(mine[a]) /\ Active(a) = {}

\* A session cancelled while it was queued never starts a role and can only
\* end as user_cancelled: the first gate sweeps it before the dispatcher or a
\* deadline gets to its roles (while no store operation fails).
CancelledInQueue(s) == sessions[s].status = "queued" /\ sessions[s].cancel_requested

QueuedCancelHonoured ==
    \A s \in Session :
        [](CancelledInQueue(s) =>
             [](/\ \A r \in Role : executed[s][r] = 0
                /\ sessions[s].terminal_reason \in {Null, "user_cancelled"}))

\* Every submitted session ends with a verdict.
EverySessionConcluded ==
    \A s \in Session :
        sessions[s].status = "queued" ~> sessions[s].status \in TerminalSession

\* No role goroutine (and so no provider call) outlives the lock.
NoWorkWithoutLock ==
    \A a \in Attempt : Active(a) # {} => lock = a
=============================================================================
