---------------------------- MODULE WorkerProofs ----------------------------
(***************************************************************************)
(* Proofs about the worker: every step of every goroutine is a transaction *)
(* of the store or invisible to it, so that what is proved of ReviewStore  *)
(* holds while attempts race, crash and return late; no role run is handed *)
(* to a provider twice; rows in flight are accounted for; a composition is *)
(* never refused.                                                          *)
(***************************************************************************)
EXTENDS Worker, ReviewStoreRefinement

-----------------------------------------------------------------------------
(* The inductive invariant.                                                *)

\* The roles an attempt is answerable for: reserved, or handed to a goroutine
\* that has not published yet.
Busy(a) == {r \in Role : task[a][r] \in {"calling", "complete", "failed"}
                         \/ reserved[a] = r}

\* A claimed session has one attempt: nobody else ever claimed it, and it is
\* never queued again.
Ownership ==
    /\ \A a, b \in Attempt : mine[a] = mine[b] /\ mine[a] # NoOne => a = b
    /\ \A a \in Attempt : mine[a] # NoOne =>
          sessions[mine[a]].status \notin {"absent", "queued"}

\* A pending role run was never handed to a provider.
PendingUntouched ==
    \A s \in Session, r \in Role :
        role_runs[s][r].status = "pending" => executed[s][r] = 0

\* The attempt holds the lock and has a session under review.
HasSession(a) == stage[a] = "claimed" \/ Supervising(a)

\* Where the goroutines of an attempt can be.
Goroutines(a) ==
    /\ stage[a] \in {"owner", "recovered", "claimed"} => Quiet(a)
    /\ HasSession(a) => mine[a] # NoOne /\ Reviewing(mine[a])
    /\ stage[a] = "claimed" => RolesIn(mine[a], "in_flight") = {}
    /\ dispatcher[a] \in {"ready", "step", "reserved"} \/ Active(a) # {} => mine[a] # NoOne
    /\ reserved[a] # NoOne <=> dispatcher[a] = "reserved"

\* A role with a goroutine, or about to get one, was taken from the pending
\* ones; it gets one goroutine and one handover.
Engaged(a) ==
    \A r \in Role :
        /\ task[a][r] # "none" => reserved[a] # r
        /\ task[a][r] # "none" \/ reserved[a] = r =>
              role_runs[mine[a]][r].status # "pending"
        /\ reserved[a] = r => executed[mine[a]][r] = 0

\* The dispatcher's counter is the number of busy roles.
SlotsCounted(a) == ~fatalErr[a] => localInFlight[a] = Cardinality(Busy(a))

\* While the attempt supervises, only its own goroutines end its roles.
BusyInFlight(a) ==
    Supervising(a) => Busy(a) \subseteq RolesIn(mine[a], "in_flight")

\* And every row in flight is somebody's, until a failure is known.
NoneForgotten(a) ==
    Supervising(a) /\ ~fatalErr[a] /\ ~ctxDone[a] /\ dispatcher[a] # "failed" =>
        RolesIn(mine[a], "in_flight") \subseteq Busy(a)

ReadyToCompose(a) ==
    /\ stage[a] \in {"count", "compose"} => AllTerminal(mine[a])
    /\ stage[a] = "compose" => Active(a) = {}

AttemptInv(a) ==
    /\ Goroutines(a)
    /\ Engaged(a)
    /\ SlotsCounted(a)
    /\ BusyInFlight(a)
    /\ NoneForgotten(a)
    /\ ReadyToCompose(a)

WInv ==
    /\ RowInv
    /\ WTypeOK
    /\ Ownership
    /\ PendingUntouched
    /\ NoReplay
    /\ \A a \in Attempt : AttemptInv(a)

\* The steps of one attempt.
AttemptStep(a) ==
    \/ Crash(a) \/ Shutdown(a)
    \/ Supervise(a) \/ Dispatch(a) \/ Coordinate(a)
    \/ \E r \in Role : RunTask(a, r)

-----------------------------------------------------------------------------
(* What a step does to the store.                                          *)

\* An attempt with something to do has a session.
LEMMA HasMine ==
    ASSUME WInv, NEW a \in Attempt
    PROVE  /\ mine[a] # NoOne => mine[a] \in Session
           /\ Supervising(a) \/ dispatcher[a] \in {"ready", "step", "reserved"} => mine[a] \in Session
           /\ \A r \in Role : task[a][r] # "none" => mine[a] \in Session
           /\ stage[a] # "idle" <=> lock = a
<1>1. WTypeOK /\ Goroutines(a)
  BY DEF WInv, AttemptInv
<1> QED
  BY <1>1 DEF WTypeOK, Goroutines, HasSession, Active

\* The publication's clamped time is still a clock reading, because no role
\* was started in the future.
LEMMA ClampedReading ==
    ASSUME RowInv, NEW s \in Session, NEW r \in Role, NEW now \in Reading,
           role_runs[s][r].status = "in_flight"
    PROVE  Later(now, role_runs[s][r].started_at) \in Reading
<1>1. /\ clock \in Nat /\ role_runs[s][r] \in RoleRow /\ RoleRowOK(role_runs[s][r])
      /\ role_runs[s][r].started_at \in Nat /\ role_runs[s][r].started_at <= clock
  BY DEF RowInv, IInv, TypeOK, RowChecksHold, RoleRowOK, RoleRow, OptTime, StartedInThePast
<1> QED
  BY <1>1, StoreConstants DEF Later, Reading

\* How an attempt's step can touch the tables: not at all, by recovery or a
\* claim under the lock, or in the rows of its own session.
Publishes(a, r) ==
    \E now \in Reading, o \in {"complete", "failed"} :
        /\ task[a][r] = o
        /\ Publish(mine[a], r, o, now)

Sweeps(a) ==
    /\ Supervising(a)
    /\ \E now \in Reading : \/ SweepCutoff(mine[a], now)
                            \/ SweepHardDeadline(mine[a], now)
                            \/ SweepCancellation(mine[a], now)

StoreUse(a) ==
    \/ UNCHANGED vars
    \/ lock = a /\ stage[a] = "owner" /\ RecoverySweep
    \/ lock = a /\ stage[a] = "recovered" /\ \E s \in Session, now \in Reading : ClaimSession(s, now)
    \/ /\ mine[a] \in Session
       /\ \/ dispatcher[a] = "step" /\ \E r \in Role, now \in Reading : ReservePendingRole(mine[a], r, now)
          \/ \E r \in Role : Publishes(a, r)
          \/ Sweeps(a)
          \/ stage[a] = "compose" /\ ComposeSession(mine[a])

\* A role goroutine publishes at a time the store accepts as a reading.
LEMMA PublishUse ==
    ASSUME WInv, NEW a \in Attempt, NEW r \in Role, NEW now \in Reading,
           task[a][r] \in {"complete", "failed"},
           Publish(mine[a], r, task[a][r], Later(now, role_runs[mine[a]][r].started_at))
    PROVE  mine[a] \in Session /\ Publishes(a, r)
<1>1. mine[a] \in Session /\ role_runs[mine[a]][r].status = "in_flight"
  BY HasMine DEF Publish, Publishable
<1>2. Later(now, role_runs[mine[a]][r].started_at) \in Reading
  BY <1>1, ClampedReading DEF WInv
<1> QED
  BY <1>1, <1>2 DEF Publishes

\* Every action of an attempt uses the store in one of these ways.
LEMMA StepUsesStore ==
    ASSUME WInv, NEW a \in Attempt, AttemptStep(a)
    PROVE  StoreUse(a)
<1> USE DEF StoreUse
<1>1. CASE Crash(a) \/ Shutdown(a)
  BY <1>1 DEF Crash, Shutdown
<1>2. CASE Supervise(a)
  <2>1. CASE AcquireProcessLock(a) \/ ClaimNothing(a) \/ BeginSession(a) \/ Return(a)
    BY <2>1 DEF AcquireProcessLock, ClaimNothing, BeginSession, Return
  <2>2. CASE Recover(a)
    BY <2>2, HasMine DEF Recover
  <2>3. CASE Claim(a)
    BY <2>3, HasMine DEF Claim
  <2>4. CASE GiveUp(a)
    BY <2>4, HasMine DEF GiveUp, Unconfirmed
  <2> QED
    BY <1>2, <2>1, <2>2, <2>3, <2>4 DEF Supervise
<1>3. CASE Dispatch(a)
  <2>1. CASE DispatcherWakes(a) \/ StepFindsNoWork(a) \/ OnReserved(a)
    BY <2>1 DEF DispatcherWakes, StepFindsNoWork, OnReserved
  <2>2. CASE StepReserves(a) \/ StepFails(a)
    BY <2>2, HasMine DEF StepReserves, StepFails, Unconfirmed
  <2> QED
    BY <1>3, <2>1, <2>2 DEF Dispatch
<1>4. ASSUME NEW r \in Role, RunTask(a, r) PROVE StoreUse(a)
  <2>1. CASE ExecuteReturns(a, r) \/ DropOutcome(a, r) \/ WakeGate(a, r) \/ TaskDone(a, r)
    BY <2>1 DEF ExecuteReturns, DropOutcome, WakeGate, TaskDone
  <2>2. CASE PublishOutcome(a, r) \/ PublishFails(a, r)
    BY <2>2, PublishUse DEF PublishOutcome, PublishFails, Unconfirmed
  <2> QED
    BY <1>4, <2>1, <2>2 DEF RunTask
<1>5. CASE Coordinate(a)
  <2>1. CASE GateFails(a) \/ GateReads(a) \/ GateCounts(a) \/ CoordinatorStops(a)
    BY <2>1 DEF GateFails, GateReads, GateCounts, CoordinatorStops
  <2>2. CASE Compose(a)
    <3>1. mine[a] \in Session
      BY <2>2, HasMine DEF Compose, Supervising
    <3> QED
      BY <2>2, <3>1 DEF Compose, Unconfirmed
  <2>3. CASE TimerFires(a) \/ TickCutoff(a) \/ TickDeadline(a) \/ TickCancel(a) \/ GateOpens(a)
    <3>1. Supervising(a) /\ mine[a] \in Session
      BY <2>3, HasMine
         DEF TimerFires, TickCutoff, TickDeadline, TickCancel, GateOpens, GateAwake, Supervising
    <3>2. CASE CutoffSweeper(a)
      BY <3>1, <3>2 DEF CutoffSweeper, TrySweep, Sweeps
    <3>3. CASE HardDeadlineSweeper(a)
      BY <3>1, <3>3 DEF HardDeadlineSweeper, TrySweep, Sweeps
    <3>4. CASE CancellationSweeper(a)
      BY <3>1, <3>4 DEF CancellationSweeper, TrySweep, Sweeps
    <3> QED
      BY <2>3, <3>2, <3>3, <3>4
         DEF TimerFires, TickCutoff, TickDeadline, TickCancel, GateOpens
  <2> QED
    BY <1>5, <2>1, <2>2, <2>3 DEF Coordinate
<1> QED
  BY <1>1, <1>2, <1>3, <1>4, <1>5 DEF AttemptStep

\* So every step of the worker is a step of the store.
LEMMA StoreStep == ASSUME WInv, [WNext]_wvars PROVE [Next]_vars
<1>1. ASSUME NEW a \in Attempt, AttemptStep(a) PROVE [Next]_vars
  <2>1. StoreUse(a)
    BY <1>1, StepUsesStore
  <2>2. CASE RecoverySweep
    BY <2>2 DEF RecoverySweep, Next
  <2>3. ASSUME mine[a] \in Session, NEW r \in Role, Publishes(a, r) PROVE Next
    BY <2>3 DEF Publishes, Next, PublishRoleSuccess, PublishRoleFailure
  <2>4. ASSUME mine[a] \in Session, Sweeps(a) PROVE Next
    BY <2>4 DEF Sweeps, Next
  <2>5. ASSUME mine[a] \in Session, NEW r \in Role, NEW now \in Reading,
               ReservePendingRole(mine[a], r, now)
        PROVE  Next
    BY <2>5 DEF Next
  <2>6. ASSUME mine[a] \in Session, ComposeSession(mine[a]) PROVE Next
    BY <2>6 DEF Next
  <2>7. ASSUME NEW s \in Session, NEW now \in Reading, ClaimSession(s, now) PROVE Next
    BY <2>7 DEF Next
  <2> QED
    BY <2>1, <2>2, <2>3, <2>4, <2>5, <2>6, <2>7 DEF StoreUse
<1>2. CASE ClockTick \/ \E s \in Session : OwnerRequest(s)
  BY <1>2 DEF ClockTick, OwnerRequest, Next
<1>3. CASE UNCHANGED wvars
  BY <1>3 DEF wvars
<1> QED
  BY <1>1, <1>2, <1>3 DEF WNext, AttemptStep

-----------------------------------------------------------------------------
(* Types and the lock.                                                     *)

\* The functions of WTypeOK, without the lock.
ProcessTypes ==
    /\ stage \in [Attempt -> Stage]
    /\ mine \in [Attempt -> Session \cup {NoOne}]
    /\ dispatcher \in [Attempt -> DispatcherState]
    /\ reserved \in [Attempt -> Role \cup {NoOne}]
    /\ localInFlight \in [Attempt -> 0..MaxInFlight]
    /\ task \in [Attempt -> [Role -> TaskState]]
    /\ stopped \in [Attempt -> BOOLEAN] /\ ctxDone \in [Attempt -> BOOLEAN]
    /\ fatalErr \in [Attempt -> BOOLEAN] /\ gateWake \in [Attempt -> BOOLEAN]
    /\ faults \in 0..MaxFaults
    /\ executed \in [Session -> [Role -> Nat]]

LockFollowsStage ==
    /\ lock \in Attempt \cup {NoOne}
    /\ \A a \in Attempt : stage[a] # "idle" <=> lock = a

\* WTypeOK is the two together.
LEMMA TypesSplit == WTypeOK <=> ProcessTypes /\ LockFollowsStage
  BY DEF WTypeOK, ProcessTypes, LockFollowsStage

\* Only the busy roles hold slots, and there are finitely many.
LEMMA BusyFinite ==
    ASSUME NEW a \in Attempt
    PROVE  /\ Busy(a) \subseteq Role /\ IsFiniteSet(Busy(a))
           /\ Cardinality(Busy(a)) \in Nat
           /\ \A r \in Busy(a) : Cardinality(Busy(a)) >= 1
<1>1. Busy(a) \in SUBSET Role
  BY DEF Busy
<1> QED
  BY <1>1, RoleCount, FS_EmptySet

\* Changing one entry of a table keeps its type.
LEMMA NestedType ==
    ASSUME NEW A, NEW B, NEW C, NEW f \in [A -> [B -> C]], NEW x \in A, NEW y \in B, NEW c \in C
    PROVE  [f EXCEPT ![x][y] = c] \in [A -> [B -> C]]
  OBVIOUS

\* Every step of an attempt leaves its variables well-typed.  The counter of
\* reserved roles stays in range because it counts the busy ones.
LEMMA AttemptTypes ==
    ASSUME WInv, NEW a \in Attempt, AttemptStep(a)
    PROVE  ProcessTypes'
<1>1. ProcessTypes /\ MaxFaults \in Nat /\ MaxInFlight \in Nat
  BY TypesSplit, WorkerConstants, StoreConstants DEF WInv
<1>2. \A f : f = faults + 1 /\ faults < MaxFaults => f \in 0..MaxFaults
  BY <1>1 DEF ProcessTypes
<1> USE DEF Stage, DispatcherState, TaskState
<1>3. CASE Crash(a)
  BY <1>1, <1>3 DEF Crash, ProcessTypes, Fault
<1>4. CASE Shutdown(a)
  BY <1>1, <1>4 DEF Shutdown, ProcessTypes, Fault
<1>5. CASE AcquireProcessLock(a)
  BY <1>1, <1>5 DEF AcquireProcessLock, ProcessTypes
<1>6. CASE Recover(a)
  BY <1>1, <1>6 DEF Recover, ProcessTypes
<1>7. CASE Claim(a)
  BY <1>1, <1>7 DEF Claim, ProcessTypes
<1>8. CASE ClaimNothing(a)
  BY <1>1, <1>8 DEF ClaimNothing, ProcessTypes
<1>9. CASE GiveUp(a)
  BY <1>1, <1>9 DEF GiveUp, ProcessTypes, Fault
<1>10. CASE BeginSession(a)
  BY <1>1, <1>10 DEF BeginSession, ProcessTypes, Fault
<1>11. CASE Return(a)
  BY <1>1, <1>11 DEF Return, ProcessTypes
<1>12. CASE DispatcherWakes(a)
  BY <1>1, <1>12 DEF DispatcherWakes, ProcessTypes
<1>13. CASE StepReserves(a)
  BY <1>1, <1>13 DEF StepReserves, ProcessTypes
<1>14. CASE StepFindsNoWork(a)
  BY <1>1, <1>14 DEF StepFindsNoWork, ProcessTypes
<1>15. CASE StepFails(a)
  BY <1>1, <1>15 DEF StepFails, ProcessTypes, Fault
<1>16. CASE OnReserved(a)
  <2>1. mine[a] \in Session /\ reserved[a] \in Role
    BY <1>1, <1>16, HasMine DEF OnReserved, ProcessTypes, WInv, AttemptInv, Goroutines
  <2>2. executed' \in [Session -> [Role -> Nat]]
    <3>1. CASE fatalErr[a]
      BY <1>1, <1>16, <3>1 DEF OnReserved, ProcessTypes
    <3>2. CASE ~fatalErr[a]
      <4>1. executed' = [executed EXCEPT ![mine[a]][reserved[a]] = executed[mine[a]][reserved[a]] + 1]
        BY <1>16, <3>2 DEF OnReserved
      <4>2. executed[mine[a]] \in [Role -> Nat] /\ executed[mine[a]][reserved[a]] + 1 \in Nat
        BY <1>1, <2>1 DEF ProcessTypes
      <4> QED
        BY <1>1, <2>1, <4>1, <4>2, NestedType DEF ProcessTypes
    <3> QED
      BY <3>1, <3>2
  <2>3. task' \in [Attempt -> [Role -> TaskState]]
    <3>1. CASE fatalErr[a]
      BY <1>1, <1>16, <3>1 DEF OnReserved, ProcessTypes
    <3>2. CASE ~fatalErr[a]
      <4>1. task' = [task EXCEPT ![a][reserved[a]] = "calling"]
        BY <1>16, <3>2 DEF OnReserved
      <4> QED
        BY <1>1, <2>1, <4>1, NestedType DEF ProcessTypes
    <3> QED
      BY <3>1, <3>2
  <2> QED
    BY <1>1, <1>16, <2>2, <2>3 DEF OnReserved, ProcessTypes
<1>17. ASSUME NEW r \in Role, ExecuteReturns(a, r) PROVE ProcessTypes'
  BY <1>1, <1>17 DEF ExecuteReturns, ProcessTypes
<1>18. ASSUME NEW r \in Role, PublishOutcome(a, r) PROVE ProcessTypes'
  <2>1. localInFlight[a] >= 1
    BY <1>18, BusyFinite DEF PublishOutcome, WInv, AttemptInv, SlotsCounted, Busy
  <2>2. localInFlight' \in [Attempt -> 0..MaxInFlight]
    BY <1>1, <1>18, <2>1 DEF PublishOutcome, ProcessTypes
  <2>3. task' \in [Attempt -> [Role -> TaskState]]
    BY <1>1, <1>18 DEF PublishOutcome, ProcessTypes
  <2> QED
    BY <1>1, <1>18, <2>2, <2>3 DEF PublishOutcome, ProcessTypes
<1>19. ASSUME NEW r \in Role, PublishFails(a, r) PROVE ProcessTypes'
  BY <1>1, <1>19 DEF PublishFails, ProcessTypes, Fault
<1>20. ASSUME NEW r \in Role, DropOutcome(a, r) \/ WakeGate(a, r) \/ TaskDone(a, r)
       PROVE  ProcessTypes'
  <2>1. CASE DropOutcome(a, r)
    BY <1>1, <2>1 DEF DropOutcome, ProcessTypes
  <2>2. CASE WakeGate(a, r)
    BY <1>1, <2>2 DEF WakeGate, ProcessTypes
  <2>3. CASE TaskDone(a, r)
    BY <1>1, <2>3 DEF TaskDone, ProcessTypes
  <2> QED
    BY <1>20, <2>1, <2>2, <2>3
<1>21. ASSUME CutoffSweeper(a) \/ HardDeadlineSweeper(a) \/ CancellationSweeper(a)
       PROVE  faults' \in 0..MaxFaults
  BY <1>1, <1>2, <1>21
     DEF CutoffSweeper, HardDeadlineSweeper, CancellationSweeper, TrySweep, Fault, ProcessTypes
<1>22. CASE TimerFires(a) \/ TickCutoff(a) \/ TickDeadline(a) \/ TickCancel(a)
  BY <1>1, <1>21, <1>22 DEF TimerFires, TickCutoff, TickDeadline, TickCancel, ProcessTypes
<1>23. CASE GateOpens(a)
  BY <1>1, <1>21, <1>23 DEF GateOpens, ProcessTypes
<1>24. CASE GateFails(a)
  BY <1>1, <1>24 DEF GateFails, ProcessTypes, Fault
<1>25. CASE GateReads(a)
  BY <1>1, <1>25 DEF GateReads, ProcessTypes, Ready
<1>26. CASE GateCounts(a)
  BY <1>1, <1>26 DEF GateCounts, ProcessTypes
<1>27. CASE Compose(a)
  BY <1>1, <1>27 DEF Compose, ProcessTypes, Fault
<1>28. CASE CoordinatorStops(a)
  BY <1>1, <1>28 DEF CoordinatorStops, ProcessTypes
<1> QED
  BY <1>3, <1>4, <1>5, <1>6, <1>7, <1>8, <1>9, <1>10, <1>11, <1>12, <1>13, <1>14, <1>15,
     <1>16, <1>17, <1>18, <1>19, <1>20, <1>22, <1>23, <1>24, <1>25, <1>26, <1>27, <1>28
     DEF AttemptStep, Supervise, Dispatch, Coordinate, RunTask

\* The steps that take the lock, drop it, or move the attempt while it is held.
LEMMA LockStep ==
    ASSUME WInv, NEW a \in Attempt, AttemptStep(a)
    PROVE  LockFollowsStage'
<1>1. ProcessTypes /\ LockFollowsStage /\ NoOne \notin Attempt
  BY TypesSplit, WorkerConstants DEF WInv
<1> USE DEF LockFollowsStage, ProcessTypes
<1>2. CASE UNCHANGED <<lock, stage>>
  BY <1>1, <1>2
<1>3. CASE Crash(a) \/ AcquireProcessLock(a)
  <2>1. CASE Crash(a)
    <3>1. /\ stage'[a] = "idle" /\ lock' = IF lock = a THEN NoOne ELSE lock
          /\ \A b \in Attempt \ {a} : stage'[b] = stage[b]
      BY <1>1, <2>1 DEF Crash
    <3> QED
      BY <1>1, <3>1
  <2>2. CASE AcquireProcessLock(a)
    BY <1>1, <2>2 DEF AcquireProcessLock
  <2> QED
    BY <1>3, <2>1, <2>2
<1>4. CASE ClaimNothing(a) \/ GiveUp(a) \/ Return(a)
  BY <1>1, <1>4 DEF ClaimNothing, GiveUp, Return
<1>5. CASE Recover(a) \/ Claim(a) \/ BeginSession(a)
  BY <1>1, <1>5 DEF Recover, Claim, BeginSession
<1>6. CASE Coordinate(a)
  <2>1. ASSUME NEW g \in Stage \ {"idle"}, lock = a, UNCHANGED lock,
               stage' = [stage EXCEPT ![a] = g]
        PROVE  LockFollowsStage'
    BY <1>1, <2>1
  <2>2. CASE TickCutoff(a) \/ TickDeadline(a) \/ TickCancel(a)
    BY <1>1, <2>1, <2>2 DEF TickCutoff, TickDeadline, TickCancel, Stage
  <2>3. CASE GateOpens(a) \/ GateFails(a)
    BY <1>1, <2>1, <2>3 DEF GateOpens, GateFails, GateAwake, Stage
  <2>4. CASE GateReads(a) \/ GateCounts(a) \/ Compose(a) \/ CoordinatorStops(a)
    BY <1>1, <2>1, <2>4 DEF GateReads, GateCounts, Compose, CoordinatorStops, Stage
  <2>5. CASE TimerFires(a)
    BY <1>2, <2>5 DEF TimerFires
  <2> QED
    BY <1>6, <2>2, <2>3, <2>4, <2>5 DEF Coordinate
<1>7. CASE Shutdown(a) \/ Dispatch(a) \/ \E r \in Role : RunTask(a, r)
  BY <1>2, <1>7
     DEF Shutdown, Dispatch, DispatcherWakes, StepReserves, StepFindsNoWork, StepFails,
         OnReserved, RunTask, ExecuteReturns, PublishOutcome, PublishFails, DropOutcome,
         WakeGate, TaskDone
<1> QED
  BY <1>3, <1>4, <1>5, <1>6, <1>7 DEF AttemptStep, Supervise

\* Both together, with the steps of the environment.
LEMMA StepWTypes == ASSUME WInv, [WNext]_wvars PROVE WTypeOK'
<1>1. WTypeOK
  BY DEF WInv
<1>2. CASE UNCHANGED <<processVars, faults, executed>>
  BY <1>1, <1>2 DEF WTypeOK, processVars
<1>3. ASSUME NEW a \in Attempt, AttemptStep(a) PROVE WTypeOK'
  BY <1>3, AttemptTypes, LockStep, TypesSplit, PTL
<1> QED
  BY <1>2, <1>3 DEF WNext, AttemptStep, ClockTick, OwnerRequest, wvars

-----------------------------------------------------------------------------
(* What a step leaves alone.                                               *)

\* The variables of attempt b that its invariant speaks of.
Still(b) ==
    /\ stage'[b] = stage[b] /\ mine'[b] = mine[b] /\ dispatcher'[b] = dispatcher[b]
    /\ reserved'[b] = reserved[b] /\ localInFlight'[b] = localInFlight[b]
    /\ task'[b] = task[b] /\ ctxDone'[b] = ctxDone[b] /\ fatalErr'[b] = fatalErr[b]

\* An attempt's step changes no variable of another attempt.
LEMMA OthersStill ==
    ASSUME WInv, NEW a \in Attempt, AttemptStep(a), NEW b \in Attempt \ {a}
    PROVE  Still(b)
<1>1. ProcessTypes
  BY TypesSplit DEF WInv
<1> USE <1>1 DEF ProcessTypes, Still
<1>2. CASE Crash(a) \/ Shutdown(a)
  BY <1>2 DEF Crash, Shutdown
<1>3. CASE Supervise(a)
  BY <1>3 DEF Supervise, AcquireProcessLock, Recover, Claim, ClaimNothing, GiveUp,
              BeginSession, Return
<1>4. CASE Dispatch(a)
  BY <1>4 DEF Dispatch, DispatcherWakes, StepReserves, StepFindsNoWork, StepFails, OnReserved
<1>5. CASE Coordinate(a)
  BY <1>5 DEF Coordinate, TimerFires, TickCutoff, TickDeadline, TickCancel, GateOpens,
              GateFails, GateReads, GateCounts, Compose, CoordinatorStops
<1>6. ASSUME NEW r \in Role, RunTask(a, r) PROVE Still(b)
  BY <1>6 DEF RunTask, ExecuteReturns, PublishOutcome, PublishFails, DropOutcome,
              WakeGate, TaskDone
<1> QED
  BY <1>2, <1>3, <1>4, <1>5, <1>6 DEF AttemptStep

\* Only the callback counts a handover.
LEMMA Handover ==
    ASSUME WInv, NEW a \in Attempt, AttemptStep(a)
    PROVE  \/ UNCHANGED executed
           \/ OnReserved(a) /\ ~fatalErr[a]
<1>1. CASE Crash(a) \/ Shutdown(a) \/ Supervise(a)
  BY <1>1 DEF Crash, Shutdown, Supervise, AcquireProcessLock, Recover, Claim,
              ClaimNothing, GiveUp, BeginSession, Return
<1>2. CASE Dispatch(a)
  BY <1>2 DEF Dispatch, DispatcherWakes, StepReserves, StepFindsNoWork, StepFails, OnReserved
<1>3. CASE Coordinate(a)
  BY <1>3 DEF Coordinate, TimerFires, TickCutoff, TickDeadline, TickCancel, GateOpens,
              GateFails, GateReads, GateCounts, Compose, CoordinatorStops
<1>4. CASE \E r \in Role : RunTask(a, r)
  BY <1>4 DEF RunTask, ExecuteReturns, PublishOutcome, PublishFails, DropOutcome,
              WakeGate, TaskDone
<1> QED
  BY <1>1, <1>2, <1>3, <1>4 DEF AttemptStep

\* What is handed over is the reserved role of the attempt's session.
LEMMA HandedOver ==
    ASSUME WInv, NEW a \in Attempt, OnReserved(a), ~fatalErr[a]
    PROVE  /\ mine[a] \in Session /\ reserved[a] \in Role
           /\ role_runs[mine[a]][reserved[a]].status # "pending"
           /\ executed[mine[a]][reserved[a]] = 0
           /\ executed'[mine[a]][reserved[a]] = 1
           /\ \A s \in Session, r \in Role : s # mine[a] \/ r # reserved[a] =>
                 executed'[s][r] = executed[s][r]
           /\ \A s \in Session \ {mine[a]} : executed'[s] = executed[s]
<1>1. ProcessTypes /\ Goroutines(a) /\ Engaged(a)
  BY TypesSplit DEF WInv, AttemptInv
<1>2. mine[a] \in Session /\ reserved[a] \in Role
  BY <1>1, HasMine DEF OnReserved, ProcessTypes, Goroutines
<1>3. /\ role_runs[mine[a]][reserved[a]].status # "pending"
      /\ executed[mine[a]][reserved[a]] = 0
  BY <1>1, <1>2 DEF Engaged
<1>4. executed' = [executed EXCEPT ![mine[a]][reserved[a]] = 0 + 1]
  BY <1>3 DEF OnReserved
<1> QED
  BY <1>1, <1>2, <1>3, <1>4 DEF ProcessTypes

\* A session that was claimed is never absent or queued again, and a role run
\* of it never pending again.
LEMMA Forward ==
    ASSUME WInv, [WNext]_wvars, NEW s \in Session,
           sessions[s].status \notin {"absent", "queued"}
    PROVE  /\ sessions'[s].status \notin {"absent", "queued"}
           /\ \A r \in Role : role_runs[s][r].status # "pending" =>
                 role_runs'[s][r].status # "pending"
<1>1. [Next]_vars /\ TypeOK /\ RolesFollowSession
  BY StoreStep DEF WInv, RowInv, IInv
<1>2. SessionEffect(s) /\ RoleEffect(s)
  BY <1>1, SessionStep, RoleStep
<1>3. sessions'[s].status \notin {"absent", "queued"}
  BY <1>2, VerdictType
     DEF SessionEffect, Submitted, Flagged, TakenUp, Concluded, TerminalSession, Reviewing
<1>4. ASSUME NEW r \in Role, role_runs[s][r].status # "pending"
      PROVE  role_runs'[s][r].status # "pending"
  BY <1>2, <1>4 DEF RoleEffect, RowEffect
<1> QED
  BY <1>3, <1>4

\* A session whose roles are all terminal keeps them so.
LEMMA StaysTerminal ==
    ASSUME WInv, [WNext]_wvars, NEW s \in Session,
           sessions[s].status \notin {"absent", "queued"}, AllTerminal(s)
    PROVE  AllTerminal(s)'
<1>1. [Next]_vars /\ TypeOK /\ RolesFollowSession
  BY StoreStep DEF WInv, RowInv, IInv
<1>2. RoleEffect(s)
  BY <1>1, RoleStep
<1> QED
  BY <1>2 DEF RoleEffect, RowEffect, AllTerminal

\* What another attempt, an owner or the clock can do to the session of b.
LEMMA Foreign ==
    ASSUME WInv, NEW a \in Attempt, AttemptStep(a), NEW b \in Attempt \ {a}, mine[b] \in Session
    PROVE  /\ sessions'[mine[b]].status = sessions[mine[b]].status
           /\ stage[b] # "idle" => role_runs'[mine[b]] = role_runs[mine[b]]
           /\ executed'[mine[b]] = executed[mine[b]]
<1>1. /\ TypeOK /\ ProcessTypes /\ LockFollowsStage /\ StoreUse(a)
      /\ mine[b] # NoOne /\ mine[a] # mine[b]
      /\ sessions[mine[b]].status \notin {"absent", "queued"}
  BY TypesSplit, StepUsesStore, WorkerConstants DEF WInv, RowInv, IInv, Ownership
<1>2. executed'[mine[b]] = executed[mine[b]]
  BY <1>1, Handover, HandedOver
<1>3. /\ sessions'[mine[b]].status = sessions[mine[b]].status
      /\ lock # a => role_runs'[mine[b]] = role_runs[mine[b]]
  <2>1. CASE UNCHANGED vars
    BY <2>1 DEF vars
  <2>2. ASSUME lock = a, RecoverySweep
        PROVE  sessions' = sessions
    BY <2>2 DEF RecoverySweep, SweepRestartRecovery
  <2>3. ASSUME NEW s \in Session, NEW now, ClaimSession(s, now)
        PROVE  sessions'[mine[b]] = sessions[mine[b]] /\ role_runs' = role_runs
    BY <1>1, <2>3 DEF ClaimSession, OldestQueued, TypeOK
  <2>4. ASSUME mine[a] \in Session, NEW r \in Role, NEW now, ReservePendingRole(mine[a], r, now)
        PROVE  sessions' = sessions /\ role_runs'[mine[b]] = role_runs[mine[b]]
    BY <1>1, <2>4 DEF ReservePendingRole, TypeOK
  <2>5. ASSUME mine[a] \in Session, NEW r \in Role, Publishes(a, r)
        PROVE  sessions' = sessions /\ role_runs'[mine[b]] = role_runs[mine[b]]
    BY <1>1, <2>5 DEF Publishes, Publish, TypeOK
  <2>6. ASSUME mine[a] \in Session, Sweeps(a)
        PROVE  sessions' = sessions /\ role_runs'[mine[b]] = role_runs[mine[b]]
    BY <1>1, <2>6 DEF Sweeps, SweepCutoff, SweepHardDeadline, SweepCancellation,
                      InterruptPending, TypeOK
  <2>7. ASSUME mine[a] \in Session, ComposeSession(mine[a])
        PROVE  sessions'[mine[b]] = sessions[mine[b]] /\ role_runs' = role_runs
    BY <1>1, <2>7 DEF ComposeSession, TypeOK
  <2> QED
    BY <1>1, <2>1, <2>2, <2>3, <2>4, <2>5, <2>6, <2>7 DEF StoreUse
<1>4. stage[b] # "idle" => lock # a
  BY <1>1 DEF LockFollowsStage
<1> QED
  BY <1>2, <1>3, <1>4

-----------------------------------------------------------------------------
(* The invariant of one attempt.                                           *)

\* A step that neither moves the attempt's work nor forgets a failure, and
\* keeps the rows in flight while the attempt supervises.
Carries(a) ==
    /\ mine'[a] = mine[a] /\ reserved'[a] = reserved[a] /\ task'[a] = task[a]
    /\ localInFlight'[a] = localInFlight[a]
    /\ fatalErr[a] => fatalErr'[a]
    /\ ctxDone[a] => ctxDone'[a]
    /\ dispatcher[a] = "failed" => dispatcher'[a] = "failed" \/ fatalErr'[a]
    /\ mine[a] \in Session => executed'[mine[a]] = executed[mine[a]]
    /\ Supervising(a)' => /\ Supervising(a)
                          /\ RolesIn(mine[a], "in_flight")' = RolesIn(mine[a], "in_flight")

\* The rows of a goroutine's role stay out of pending.
LEMMA StayEngaged ==
    ASSUME WInv, [WNext]_wvars, NEW a \in Attempt, NEW r \in Role,
           task[a][r] # "none" \/ reserved[a] = r
    PROVE  /\ mine[a] \in Session
           /\ role_runs[mine[a]][r].status # "pending"
           /\ role_runs'[mine[a]][r].status # "pending"
<1>1. Goroutines(a) /\ Engaged(a) /\ Ownership
  BY DEF WInv, AttemptInv
<1>2. mine[a] \in Session /\ mine[a] # NoOne /\ role_runs[mine[a]][r].status # "pending"
  BY <1>1, HasMine, WorkerConstants DEF Goroutines, Engaged
<1>3. sessions[mine[a]].status \notin {"absent", "queued"}
  BY <1>1, <1>2 DEF Ownership
<1> QED
  BY <1>2, <1>3, Forward

\* Such a step keeps the accounts.
LEMMA Carried ==
    ASSUME WInv, [WNext]_wvars, NEW a \in Attempt, Carries(a)
    PROVE  Engaged(a)' /\ SlotsCounted(a)' /\ BusyInFlight(a)' /\ NoneForgotten(a)'
<1>1. Engaged(a) /\ SlotsCounted(a) /\ BusyInFlight(a) /\ NoneForgotten(a)
  BY DEF WInv, AttemptInv
<1>2. Engaged(a)'
  <2> SUFFICES ASSUME NEW r \in Role
               PROVE  /\ task'[a][r] # "none" => reserved'[a] # r
                      /\ task'[a][r] # "none" \/ reserved'[a] = r =>
                            role_runs'[mine'[a]][r].status # "pending"
                      /\ reserved'[a] = r => executed'[mine'[a]][r] = 0
    BY DEF Engaged
  <2> QED
    BY <1>1, StayEngaged DEF Carries, Engaged
<1>3. Busy(a)' = Busy(a)
  BY DEF Carries, Busy
<1>4. SlotsCounted(a)'
  BY <1>1, <1>3 DEF Carries, SlotsCounted
<1>5. BusyInFlight(a)' /\ NoneForgotten(a)'
  <2>1. CASE ~Supervising(a)'
    BY <2>1 DEF BusyInFlight, NoneForgotten
  <2>2. CASE Supervising(a)'
    BY <1>1, <1>3, <2>2 DEF Carries, BusyInFlight, NoneForgotten
  <2> QED
    BY <2>1, <2>2
<1> QED
  BY <1>2, <1>4, <1>5

\* An attempt that takes no step keeps its invariant, whatever the others, the
\* owners and the clock do.
LEMMA Bystander ==
    ASSUME WInv, [WNext]_wvars, NEW b \in Attempt, Still(b),
           mine[b] \in Session =>
              /\ sessions'[mine[b]].status = sessions[mine[b]].status
              /\ stage[b] # "idle" => role_runs'[mine[b]] = role_runs[mine[b]]
              /\ executed'[mine[b]] = executed[mine[b]]
    PROVE  AttemptInv(b)'
<1>1. Goroutines(b) /\ ReadyToCompose(b)
  BY DEF WInv, AttemptInv
<1>2. /\ Supervising(b)' <=> Supervising(b)
      /\ HasSession(b)' <=> HasSession(b)
      /\ HasSession(b) => stage[b] # "idle" /\ mine[b] \in Session /\ mine[b] # NoOne
      /\ Supervising(b) => HasSession(b)
  BY <1>1, HasMine DEF Still, Supervising, HasSession, Goroutines
<1>3. HasSession(b) => /\ role_runs'[mine'[b]] = role_runs[mine[b]]
                       /\ Reviewing(mine[b])' <=> Reviewing(mine[b])
  BY <1>2 DEF Still, Reviewing
<1>4. Carries(b)
  BY <1>2, <1>3 DEF Still, Carries, RolesIn
<1>5. Goroutines(b)'
  <2>1. Quiet(b)' <=> Quiet(b)
    BY DEF Still, Quiet, Active
  <2>2. Active(b)' = Active(b)
    BY DEF Still, Active
  <2>3. stage[b] = "claimed" => RolesIn(mine[b], "in_flight")' = RolesIn(mine[b], "in_flight")
    BY <1>2, <1>3 DEF Still, RolesIn, HasSession
  <2> QED
    BY <1>1, <1>2, <1>3, <2>1, <2>2, <2>3 DEF Still, Goroutines
<1>6. ReadyToCompose(b)'
  <2>1. stage[b] \in {"count", "compose"} => HasSession(b)
    BY DEF HasSession, Supervising
  <2> QED
    BY <1>1, <1>2, <1>3, <2>1 DEF Still, ReadyToCompose, AllTerminal, Active
<1> QED
  BY <1>4, <1>5, <1>6, Carried DEF AttemptInv

\* The coordinator's sweeps end pending roles of its own session only.
LEMMA SweepRows ==
    ASSUME WInv, NEW a \in Attempt, mine[a] \in Session, Sweeps(a)
    PROVE  /\ UNCHANGED sessions
           /\ \A r \in Role : role_runs[mine[a]][r].status # "pending" =>
                 role_runs'[mine[a]][r] = role_runs[mine[a]][r]
           /\ \A r \in Role : role_runs[mine[a]][r].status = "pending" =>
                 role_runs'[mine[a]][r].status = "interrupted"
<1>1. TypeOK
  BY DEF WInv, RowInv, IInv
<1>2. PICK why, now : InterruptPending(mine[a], why, now)
  BY DEF Sweeps, SweepCutoff, SweepHardDeadline, SweepCancellation
<1>3. /\ UNCHANGED sessions
      /\ \A r \in Role : role_runs'[mine[a]][r] =
            IF role_runs[mine[a]][r].status = "pending"
            THEN Interrupted(role_runs[mine[a]][r], why, now)
            ELSE role_runs[mine[a]][r]
  BY <1>1, <1>2 DEF InterruptPending, TypeOK
<1>4. \A r \in Role : Interrupted(role_runs[mine[a]][r], why, now).status = "interrupted"
  BY <1>1 DEF TypeOK, RoleRow, Interrupted
<1> QED
  BY <1>3, <1>4

\* A sweep keeps the rows in flight and what is terminal.
LEMMA SweepKeeps ==
    ASSUME WInv, NEW a \in Attempt, Supervising(a),
           CutoffSweeper(a) \/ HardDeadlineSweeper(a) \/ CancellationSweeper(a)
    PROVE  /\ mine[a] \in Session
           /\ UNCHANGED sessions
           /\ \A r \in Role : role_runs'[mine[a]][r].status = "in_flight"
                 <=> role_runs[mine[a]][r].status = "in_flight"
           /\ AllTerminal(mine[a]) => role_runs'[mine[a]] = role_runs[mine[a]]
<1>1. TypeOK /\ mine[a] \in Session
  BY HasMine DEF WInv, RowInv, IInv
<1>2. UNCHANGED vars \/ Sweeps(a)
  BY DEF CutoffSweeper, HardDeadlineSweeper, CancellationSweeper, TrySweep, Sweeps
<1>3. CASE UNCHANGED vars
  BY <1>1, <1>3 DEF vars
<1>4. CASE Sweeps(a)
  <2>1. role_runs'[mine[a]] \in [Role -> RoleRow]
    <3>1. PICK why, now : InterruptPending(mine[a], why, now)
      BY <1>4 DEF Sweeps, SweepCutoff, SweepHardDeadline, SweepCancellation
    <3>2. [Next]_vars
      BY <1>1, <1>4 DEF Sweeps, Next
    <3> QED
      BY <1>1, <3>2, StepType DEF TypeOK
  <2> QED
    BY <1>1, <1>4, <2>1, SweepRows DEF AllTerminal, TerminalRole, TypeOK
<1> QED
  BY <1>2, <1>3, <1>4

\* Steps of Supervise other than the claim and the start of a session.
LEMMA SuperviseOwn ==
    ASSUME WInv, [WNext]_wvars, NEW a \in Attempt,
           \/ Shutdown(a) \/ AcquireProcessLock(a) \/ Recover(a)
           \/ ClaimNothing(a) \/ GiveUp(a) \/ Return(a)
    PROVE  AttemptInv(a)'
<1>1. ProcessTypes /\ Goroutines(a) /\ ReadyToCompose(a)
  BY TypesSplit DEF WInv, AttemptInv
<1> USE DEF ProcessTypes
<1>2. /\ mine'[a] = mine[a] /\ reserved'[a] = reserved[a] /\ task'[a] = task[a]
      /\ dispatcher'[a] = dispatcher[a] /\ localInFlight'[a] = localInFlight[a]
      /\ fatalErr'[a] = fatalErr[a] /\ UNCHANGED executed
  BY DEF Shutdown, AcquireProcessLock, Recover, ClaimNothing, GiveUp, Return
<1>3. Quiet(a)' <=> Quiet(a)
  BY <1>2 DEF Quiet, Active
<1>4. CASE Shutdown(a)
  <2>1. ctxDone'[a] /\ UNCHANGED <<vars, stage, mine>>
    BY <1>1, <1>4 DEF Shutdown
  <2>2. Carries(a)
    BY <1>2, <2>1 DEF Carries, Supervising, RolesIn, vars
  <2>3. Goroutines(a)' /\ ReadyToCompose(a)'
    BY <1>1, <1>2, <1>3, <2>1
       DEF Goroutines, ReadyToCompose, HasSession, Supervising, Reviewing, RolesIn,
           AllTerminal, Active, vars
  <2> QED
    BY <2>2, <2>3, Carried DEF AttemptInv
<1>5. CASE ~Shutdown(a)
  <2>1. /\ stage'[a] \in {"idle", "owner", "recovered"} /\ ctxDone'[a] = ctxDone[a]
        /\ stage'[a] \in {"owner", "recovered"} => Quiet(a)
    BY <1>1, <1>5 DEF AcquireProcessLock, Recover, ClaimNothing, GiveUp, Return, Goroutines
  <2>2. ~Supervising(a)' /\ ~HasSession(a)'
    BY <2>1 DEF Supervising, HasSession
  <2>3. Carries(a)
    BY <1>2, <2>1, <2>2 DEF Carries
  <2>4. Goroutines(a)'
    BY <1>1, <1>2, <1>3, <2>1, <2>2 DEF Goroutines, Active
  <2>5. ReadyToCompose(a)'
    BY <2>1 DEF ReadyToCompose
  <2> QED
    BY <2>3, <2>4, <2>5, Carried DEF AttemptInv
<1> QED
  BY <1>4, <1>5

\* An attempt that has nothing running satisfies its invariant outside a
\* session.
LEMMA IdleInv ==
    ASSUME NEW a \in Attempt, ~Supervising(a)', stage'[a] # "claimed",
           dispatcher'[a] \in {"off", "failed"}, reserved'[a] = NoOne,
           \A r \in Role : task'[a][r] = "none", ~fatalErr'[a] => localInFlight'[a] = 0
    PROVE  AttemptInv(a)'
<1>1. Busy(a)' = {} /\ Active(a)' = {} /\ stage'[a] \notin {"count", "compose"}
  BY WorkerConstants DEF Busy, Active, Supervising
<1>2. Cardinality({}) = 0
  BY FS_EmptySet
<1>3. SlotsCounted(a)'
  BY <1>1, <1>2 DEF SlotsCounted
<1>4. Engaged(a)'
  BY WorkerConstants DEF Engaged
<1>5. Goroutines(a)'
  BY <1>1 DEF Goroutines, Quiet, HasSession
<1>6. BusyInFlight(a)' /\ NoneForgotten(a)' /\ ReadyToCompose(a)'
  BY <1>1 DEF BusyInFlight, NoneForgotten, ReadyToCompose
<1> QED
  BY <1>3, <1>4, <1>5, <1>6 DEF AttemptInv

\* After a crash nothing of the attempt is left.
LEMMA CrashOwn ==
    ASSUME WInv, NEW a \in Attempt, Crash(a)
    PROVE  AttemptInv(a)'
<1>1. ProcessTypes
  BY TypesSplit DEF WInv
<1>2. /\ stage'[a] = "idle" /\ dispatcher'[a] = "off" /\ reserved'[a] = NoOne
      /\ localInFlight'[a] = 0 /\ \A r \in Role : task'[a][r] = "none"
  BY <1>1 DEF Crash, ProcessTypes
<1> QED
  BY <1>2, IdleInv DEF Supervising

\* The session just claimed is under review and all its roles are pending.
LEMMA ClaimOwn ==
    ASSUME WInv, NEW a \in Attempt, Claim(a)
    PROVE  AttemptInv(a)'
<1>1. ProcessTypes /\ TypeOK /\ Goroutines(a) /\ SlotsCounted(a)
  BY TypesSplit DEF WInv, AttemptInv, RowInv, IInv
<1>2. PICK s \in Session, now \in Reading :
         ClaimSession(s, now) /\ mine' = [mine EXCEPT ![a] = s]
  BY DEF Claim
<1>3. /\ sessions' = [sessions EXCEPT ![s] = Claimed(sessions[s], now)]
      /\ role_runs' = role_runs /\ \A r \in Role : role_runs[s][r].status = "pending"
  BY <1>2 DEF ClaimSession
<1>4. sessions'[s].status = "reviewing"
  BY <1>1, <1>3, ClaimedFields DEF TypeOK
<1>5. /\ mine'[a] = s /\ stage'[a] = "claimed" /\ stage[a] = "recovered"
      /\ dispatcher' = dispatcher /\ reserved' = reserved /\ task' = task
      /\ localInFlight' = localInFlight /\ fatalErr' = fatalErr
  BY <1>1, <1>2 DEF Claim, ProcessTypes
<1>6. Quiet(a) /\ reserved[a] = NoOne /\ \A r \in Role : task[a][r] = "none"
  BY <1>1, <1>5 DEF Goroutines, Quiet, Active
<1>7. Quiet(a)' /\ Busy(a)' = Busy(a)
  BY <1>5, <1>6 DEF Quiet, Active, Busy
<1>8. Goroutines(a)'
  BY <1>3, <1>4, <1>5, <1>6, <1>7, WorkerConstants
     DEF Goroutines, Quiet, HasSession, Supervising, Reviewing, RolesIn
<1>9. Engaged(a)'
  BY <1>5, <1>6, WorkerConstants DEF Engaged
<1>10. SlotsCounted(a)'
  BY <1>1, <1>5, <1>7 DEF SlotsCounted
<1>11. BusyInFlight(a)' /\ NoneForgotten(a)' /\ ReadyToCompose(a)'
  BY <1>5 DEF BusyInFlight, NoneForgotten, ReadyToCompose, Supervising
<1> QED
  BY <1>8, <1>9, <1>10, <1>11 DEF AttemptInv

\* SuperviseSession starts from a clean slate.
LEMMA BeginOwn ==
    ASSUME WInv, NEW a \in Attempt, BeginSession(a)
    PROVE  AttemptInv(a)'
<1>1. ProcessTypes /\ Goroutines(a)
  BY TypesSplit DEF WInv, AttemptInv
<1>2. /\ stage[a] = "claimed" /\ mine' = mine /\ reserved' = reserved /\ task' = task
      /\ localInFlight'[a] = 0 /\ UNCHANGED vars
  BY <1>1 DEF BeginSession, ProcessTypes
<1>3. /\ reserved[a] = NoOne /\ mine[a] # NoOne /\ RolesIn(mine[a], "in_flight") = {}
      /\ Reviewing(mine[a]) /\ \A r \in Role : task[a][r] = "none"
      /\ dispatcher[a] \in {"off", "failed"}
  BY <1>1, <1>2 DEF Goroutines, Quiet, Active, HasSession
<1>4. Busy(a)' = {} /\ Active(a)' = {}
  BY <1>2, <1>3, WorkerConstants DEF Busy, Active
<1>5. \/ stage'[a] = "begin" /\ dispatcher'[a] = "ready"
      \/ stage'[a] = "closing" /\ dispatcher'[a] = dispatcher[a]
  BY <1>1 DEF BeginSession, ProcessTypes
<1>6. CASE stage'[a] = "closing" /\ dispatcher'[a] = dispatcher[a]
  BY <1>2, <1>3, <1>6, IdleInv DEF Supervising
<1>7. CASE stage'[a] = "begin" /\ dispatcher'[a] = "ready"
  <2>1. RolesIn(mine[a], "in_flight")' = {} /\ Reviewing(mine[a])'
    BY <1>2, <1>3 DEF RolesIn, Reviewing, vars
  <2>2. Goroutines(a)'
    BY <1>2, <1>3, <1>7, <2>1 DEF Goroutines, HasSession
  <2>3. Engaged(a)'
    BY <1>2, <1>3, WorkerConstants DEF Engaged
  <2>4. Cardinality({}) = 0
    BY FS_EmptySet
  <2>5. SlotsCounted(a)'
    BY <1>2, <1>4, <2>4 DEF SlotsCounted
  <2>6. BusyInFlight(a)' /\ NoneForgotten(a)' /\ ReadyToCompose(a)'
    BY <1>4, <1>7, <2>1 DEF BusyInFlight, NoneForgotten, ReadyToCompose
  <2> QED
    BY <2>2, <2>3, <2>5, <2>6 DEF AttemptInv
<1> QED
  BY <1>5, <1>6, <1>7

\* Dispatcher steps that reserve nothing.
LEMMA DispatcherOwn ==
    ASSUME WInv, [WNext]_wvars, NEW a \in Attempt,
           DispatcherWakes(a) \/ StepFindsNoWork(a)
    PROVE  AttemptInv(a)'
<1>1. ProcessTypes /\ Goroutines(a) /\ ReadyToCompose(a)
  BY TypesSplit DEF WInv, AttemptInv
<1>2. /\ stage' = stage /\ mine' = mine /\ reserved' = reserved /\ task' = task
      /\ localInFlight' = localInFlight /\ ctxDone' = ctxDone /\ fatalErr' = fatalErr
      /\ executed' = executed /\ UNCHANGED vars
      /\ dispatcher[a] \in {"ready", "step"} /\ dispatcher'[a] \in {"off", "ready", "step"}
  BY <1>1 DEF DispatcherWakes, StepFindsNoWork, ProcessTypes
<1>3. Carries(a)
  BY <1>2 DEF Carries, Supervising, RolesIn, vars
<1>4. Goroutines(a)' /\ ReadyToCompose(a)'
  BY <1>1, <1>2 DEF Goroutines, ReadyToCompose, HasSession, Supervising, Reviewing, RolesIn,
                    AllTerminal, Active, Quiet, vars
<1> QED
  BY <1>3, <1>4, Carried DEF AttemptInv

\* A reservation puts one pending role of the session in flight.
LEMMA ReserveRows ==
    ASSUME WInv, NEW a \in Attempt, mine[a] \in Session, NEW r \in Role, NEW now,
           ReservePendingRole(mine[a], r, now)
    PROVE  /\ role_runs[mine[a]][r].status = "pending"
           /\ role_runs'[mine[a]][r].status = "in_flight"
           /\ \A q \in Role \ {r} : role_runs'[mine[a]][q] = role_runs[mine[a]][q]
           /\ UNCHANGED sessions
<1>1. TypeOK
  BY DEF WInv, RowInv, IInv
<1>2. Started(role_runs[mine[a]][r], now).status = "in_flight"
  BY <1>1 DEF TypeOK, RoleRow, Started
<1> QED
  BY <1>1, <1>2 DEF ReservePendingRole, NextPendingRole, RolesIn, TypeOK

\* The role just reserved is new: it is pending in the table, and every role
\* of the attempt's goroutines is not.
LEMMA ReserveOwn ==
    ASSUME WInv, [WNext]_wvars, NEW a \in Attempt, StepReserves(a)
    PROVE  AttemptInv(a)'
<1>1. /\ ProcessTypes /\ Goroutines(a) /\ Engaged(a) /\ SlotsCounted(a) /\ BusyInFlight(a)
      /\ NoneForgotten(a) /\ ReadyToCompose(a) /\ PendingUntouched
  BY TypesSplit DEF WInv, AttemptInv
<1>2. mine[a] \in Session /\ mine[a] # NoOne
  BY HasMine, WorkerConstants DEF StepReserves
<1>3. PICK r \in Role, now \in Reading :
         ReservePendingRole(mine[a], r, now) /\ reserved' = [reserved EXCEPT ![a] = r]
  BY DEF StepReserves
<1>4. /\ stage' = stage /\ mine' = mine /\ reserved'[a] = r /\ task' = task
      /\ localInFlight'[a] = localInFlight[a] + 1 /\ ctxDone' = ctxDone
      /\ fatalErr' = fatalErr /\ executed' = executed
      /\ dispatcher[a] = "step" /\ dispatcher'[a] = "reserved" /\ reserved[a] = NoOne
  BY <1>1, <1>3 DEF StepReserves, ProcessTypes, Goroutines
<1>5. /\ role_runs[mine[a]][r].status = "pending"
      /\ role_runs'[mine[a]][r].status = "in_flight"
      /\ \A q \in Role \ {r} : role_runs'[mine[a]][q] = role_runs[mine[a]][q]
      /\ UNCHANGED sessions
  BY <1>2, <1>3, ReserveRows
<1>6. task[a][r] = "none" /\ executed[mine[a]][r] = 0
  BY <1>1, <1>2, <1>5 DEF Engaged, PendingUntouched
<1>7. r \notin Busy(a) /\ Busy(a)' = Busy(a) \cup {r}
  BY <1>4, <1>6, WorkerConstants DEF Busy
<1>8. Goroutines(a)'
  BY <1>1, <1>2, <1>4, <1>5, WorkerConstants
     DEF Goroutines, Quiet, HasSession, Supervising, Reviewing
<1>9. Engaged(a)'
  <2> SUFFICES ASSUME NEW q \in Role
               PROVE  /\ task'[a][q] # "none" => reserved'[a] # q
                      /\ task'[a][q] # "none" \/ reserved'[a] = q =>
                            role_runs'[mine'[a]][q].status # "pending"
                      /\ reserved'[a] = q => executed'[mine'[a]][q] = 0
    BY DEF Engaged
  <2> QED
    BY <1>1, <1>4, <1>5, <1>6 DEF Engaged
<1>10. SlotsCounted(a)'
  <2>1. IsFiniteSet(Busy(a)) /\ Cardinality(Busy(a)) \in Nat
    BY BusyFinite
  <2>2. Cardinality(Busy(a) \cup {r}) = Cardinality(Busy(a)) + 1
    BY <1>7, <2>1, FS_AddElement
  <2> QED
    BY <1>1, <1>4, <1>7, <2>2 DEF SlotsCounted
<1>11. Supervising(a)' <=> Supervising(a)
  BY <1>4 DEF Supervising
<1>12. RolesIn(mine[a], "in_flight")' = RolesIn(mine[a], "in_flight") \cup {r}
  BY <1>4, <1>5 DEF RolesIn
<1>13. BusyInFlight(a)' /\ NoneForgotten(a)'
  BY <1>1, <1>4, <1>7, <1>11, <1>12 DEF BusyInFlight, NoneForgotten
<1>14. ReadyToCompose(a)'
  BY <1>1, <1>4, <1>5 DEF ReadyToCompose, AllTerminal, TerminalRole
<1> QED
  BY <1>8, <1>9, <1>10, <1>13, <1>14 DEF AttemptInv

\* A reservation that failed, committed or not, is remembered as a failure of
\* the dispatcher or a cancelled context.
LEMMA StepFailsOwn ==
    ASSUME WInv, [WNext]_wvars, NEW a \in Attempt, StepFails(a)
    PROVE  AttemptInv(a)'
<1>1. /\ ProcessTypes /\ Goroutines(a) /\ Engaged(a) /\ SlotsCounted(a) /\ BusyInFlight(a)
      /\ ReadyToCompose(a)
  BY TypesSplit DEF WInv, AttemptInv
<1>2. mine[a] \in Session /\ mine[a] # NoOne
  BY HasMine, WorkerConstants DEF StepFails
<1>3. /\ stage' = stage /\ mine' = mine /\ reserved' = reserved /\ task' = task
      /\ localInFlight' = localInFlight /\ ctxDone' = ctxDone
      /\ fatalErr' = fatalErr /\ executed' = executed
      /\ dispatcher[a] = "step"
      /\ dispatcher'[a] = "failed" \/ (dispatcher'[a] = "off" /\ ctxDone'[a])
  BY <1>1 DEF StepFails, ProcessTypes
<1>4. /\ UNCHANGED sessions
      /\ \A q \in Role : \/ role_runs'[mine[a]][q] = role_runs[mine[a]][q]
                         \/ role_runs[mine[a]][q].status = "pending"
  <2>1. CASE UNCHANGED vars
    BY <2>1 DEF vars
  <2>2. ASSUME NEW r \in Role, NEW now \in Reading, ReservePendingRole(mine[a], r, now)
        PROVE  /\ UNCHANGED sessions
               /\ \A q \in Role : \/ role_runs'[mine[a]][q] = role_runs[mine[a]][q]
                                  \/ role_runs[mine[a]][q].status = "pending"
    BY <1>2, <2>2, ReserveRows
  <2> QED
    BY <2>1, <2>2 DEF StepFails, Unconfirmed
<1>5. Busy(a)' = Busy(a) /\ (Supervising(a)' <=> Supervising(a))
  BY <1>3 DEF Busy, Supervising
<1>6. Goroutines(a)'
  BY <1>1, <1>2, <1>3, <1>4
     DEF Goroutines, Quiet, HasSession, Supervising, Reviewing
<1>7. Engaged(a)'
  <2> SUFFICES ASSUME NEW q \in Role
               PROVE  /\ task'[a][q] # "none" => reserved'[a] # q
                      /\ task'[a][q] # "none" \/ reserved'[a] = q =>
                            role_runs'[mine'[a]][q].status # "pending"
                      /\ reserved'[a] = q => executed'[mine'[a]][q] = 0
    BY DEF Engaged
  <2> QED
    BY <1>1, <1>3, StayEngaged DEF Engaged
<1>8. SlotsCounted(a)'
  BY <1>1, <1>3, <1>5 DEF SlotsCounted
<1>9. BusyInFlight(a)'
  BY <1>1, <1>3, <1>4, <1>5 DEF BusyInFlight, RolesIn
<1>10. NoneForgotten(a)'
  BY <1>3 DEF NoneForgotten
<1>11. ReadyToCompose(a)'
  BY <1>1, <1>3, <1>4 DEF ReadyToCompose, AllTerminal, TerminalRole, Active
<1> QED
  BY <1>6, <1>7, <1>8, <1>9, <1>10, <1>11 DEF AttemptInv

\* The callback turns the reserved role into a goroutine, or drops it when a
\* fatal error is known.  It finds no role to start while a composition is
\* under way: the reserved row is in flight.
LEMMA OnReservedOwn ==
    ASSUME WInv, [WNext]_wvars, NEW a \in Attempt, OnReserved(a)
    PROVE  AttemptInv(a)'
<1>1. /\ ProcessTypes /\ Goroutines(a) /\ Engaged(a) /\ SlotsCounted(a) /\ BusyInFlight(a)
      /\ NoneForgotten(a) /\ ReadyToCompose(a)
  BY TypesSplit DEF WInv, AttemptInv
<1>2. mine[a] \in Session /\ mine[a] # NoOne /\ reserved[a] \in Role
  BY <1>1, HasMine, WorkerConstants DEF OnReserved, ProcessTypes, Goroutines
<1>3. PICK r \in Role : r = reserved[a]
  BY <1>2
<1>4. /\ stage' = stage /\ mine' = mine /\ reserved'[a] = NoOne
      /\ localInFlight' = localInFlight /\ ctxDone' = ctxDone
      /\ fatalErr' = fatalErr /\ UNCHANGED vars
      /\ dispatcher[a] = "reserved" /\ dispatcher'[a] \in {"off", "step"}
      /\ \A q \in Role \ {r} : task'[a][q] = task[a][q]
      /\ task'[a][r] = IF fatalErr[a] THEN task[a][r] ELSE "calling"
  <2>1. CASE fatalErr[a]
    BY <1>1, <1>3, <2>1 DEF OnReserved, ProcessTypes
  <2>2. CASE ~fatalErr[a]
    BY <1>1, <1>3, <2>2 DEF OnReserved, ProcessTypes
  <2> QED
    BY <2>1, <2>2
<1>5. /\ Supervising(a)' <=> Supervising(a)
      /\ RolesIn(mine[a], "in_flight")' = RolesIn(mine[a], "in_flight")
      /\ r \in Busy(a) /\ task[a][r] = "none"
      /\ role_runs[mine[a]][r].status # "pending"
  BY <1>1, <1>3, <1>4 DEF Supervising, RolesIn, Busy, Engaged, vars
<1>6. /\ Busy(a)' \subseteq Busy(a)
      /\ ~fatalErr[a] => Busy(a)' = Busy(a)
  BY <1>3, <1>4, <1>5, WorkerConstants DEF Busy
<1>7. Goroutines(a)'
  <2>1. stage[a] \notin {"owner", "recovered", "claimed"}
    BY <1>1, <1>4 DEF Goroutines, Quiet
  <2>2. HasSession(a)' => HasSession(a)
    BY <1>4 DEF HasSession, Supervising
  <2> QED
    BY <1>1, <1>2, <1>4, <2>1, <2>2 DEF Goroutines, Reviewing, vars
<1>8. Engaged(a)'
  <2> SUFFICES ASSUME NEW q \in Role
               PROVE  /\ task'[a][q] # "none" => reserved'[a] # q
                      /\ task'[a][q] # "none" \/ reserved'[a] = q =>
                            role_runs'[mine'[a]][q].status # "pending"
                      /\ reserved'[a] = q => executed'[mine'[a]][q] = 0
    BY DEF Engaged
  <2> QED
    BY <1>1, <1>4, <1>5, WorkerConstants DEF Engaged, vars
<1>9. SlotsCounted(a)'
  BY <1>1, <1>4, <1>6 DEF SlotsCounted
<1>10. BusyInFlight(a)' /\ NoneForgotten(a)'
  BY <1>1, <1>4, <1>5, <1>6 DEF BusyInFlight, NoneForgotten
<1>11. ReadyToCompose(a)'
  <2>1. stage[a] \notin {"count", "compose"}
    <3> SUFFICES ASSUME stage[a] \in {"count", "compose"} PROVE FALSE
      OBVIOUS
    <3>1. role_runs[mine[a]][r].status = "in_flight"
      BY <1>1, <1>5 DEF BusyInFlight, RolesIn, Supervising
    <3> QED
      BY <1>1, <3>1 DEF ReadyToCompose, AllTerminal, TerminalRole
  <2> QED
    BY <1>4, <2>1 DEF ReadyToCompose
<1> QED
  BY <1>7, <1>8, <1>9, <1>10, <1>11 DEF AttemptInv

\* A publication ends one row in flight of the attempt's session.
LEMMA PublishRows ==
    ASSUME WInv, NEW a \in Attempt, mine[a] \in Session, NEW r \in Role, Publishes(a, r)
    PROVE  /\ role_runs[mine[a]][r].status = "in_flight"
           /\ role_runs'[mine[a]][r].status \in {"complete", "failed"}
           /\ \A q \in Role \ {r} : role_runs'[mine[a]][q] = role_runs[mine[a]][q]
           /\ UNCHANGED sessions
<1>1. TypeOK
  BY DEF WInv, RowInv, IInv
<1>2. PICK now \in Reading, o \in {"complete", "failed"} : Publish(mine[a], r, o, now)
  BY DEF Publishes
<1>3. Published(role_runs[mine[a]][r], o, now).status = o
  BY <1>1 DEF TypeOK, RoleRow, Published
<1> QED
  BY <1>1, <1>2, <1>3 DEF Publish, Publishable, TypeOK

\* What a step of a role goroutine has in common: it moves one goroutine of an
\* attempt that is past its claim and not composing.
LEMMA TaskFrame ==
    ASSUME WInv, NEW a \in Attempt, NEW r \in Role, RunTask(a, r)
    PROVE  /\ stage' = stage /\ mine' = mine /\ dispatcher' = dispatcher
           /\ reserved' = reserved /\ ctxDone' = ctxDone /\ executed' = executed
           /\ task[a][r] # "none" /\ \A q \in Role \ {r} : task'[a][q] = task[a][q]
           /\ mine[a] \in Session /\ mine[a] # NoOne /\ reserved[a] # r
           /\ stage[a] \notin {"owner", "recovered", "claimed", "compose"}
<1>1. ProcessTypes /\ Goroutines(a) /\ Engaged(a) /\ ReadyToCompose(a)
  BY TypesSplit DEF WInv, AttemptInv
<1>2. /\ stage' = stage /\ mine' = mine /\ dispatcher' = dispatcher
      /\ reserved' = reserved /\ ctxDone' = ctxDone /\ executed' = executed
      /\ task[a][r] # "none"
  BY DEF RunTask, ExecuteReturns, PublishOutcome, PublishFails, DropOutcome, WakeGate, TaskDone
<1>3. \A q \in Role \ {r} : task'[a][q] = task[a][q]
  BY <1>1 DEF RunTask, ExecuteReturns, PublishOutcome, PublishFails, DropOutcome, WakeGate,
              TaskDone, ProcessTypes
<1>4. /\ mine[a] \in Session /\ mine[a] # NoOne /\ reserved[a] # r
      /\ stage[a] \notin {"owner", "recovered", "claimed", "compose"}
  BY <1>1, <1>2, HasMine, WorkerConstants
     DEF Goroutines, Engaged, ReadyToCompose, Quiet, Active
<1> QED
  BY <1>2, <1>3, <1>4

\* Three conjuncts do not depend on what the goroutine does.
LEMMA TaskCommon ==
    ASSUME WInv, [WNext]_wvars, NEW a \in Attempt, NEW r \in Role, RunTask(a, r),
           UNCHANGED sessions
    PROVE  Goroutines(a)' /\ Engaged(a)' /\ ReadyToCompose(a)'
<1>1. Goroutines(a) /\ Engaged(a)
  BY DEF WInv, AttemptInv
<1>2. Goroutines(a)'
  <2>1. HasSession(a)' => HasSession(a) /\ Reviewing(mine[a])'
    BY <1>1, TaskFrame DEF HasSession, Supervising, Goroutines, Reviewing
  <2> QED
    BY <1>1, <2>1, TaskFrame DEF Goroutines
<1>3. Engaged(a)'
  <2> SUFFICES ASSUME NEW q \in Role
               PROVE  /\ task'[a][q] # "none" => reserved'[a] # q
                      /\ task'[a][q] # "none" \/ reserved'[a] = q =>
                            role_runs'[mine'[a]][q].status # "pending"
                      /\ reserved'[a] = q => executed'[mine'[a]][q] = 0
    BY DEF Engaged
  <2> QED
    BY <1>1, TaskFrame, StayEngaged DEF Engaged
<1>4. ReadyToCompose(a)'
  <2>1. stage[a] = "count" => AllTerminal(mine[a])'
    <3>1. mine[a] \in Session /\ mine[a] # NoOne
      BY TaskFrame
    <3>2. sessions[mine[a]].status \notin {"absent", "queued"}
      BY <3>1 DEF WInv, Ownership
    <3>3. stage[a] = "count" => AllTerminal(mine[a])
      BY DEF WInv, AttemptInv, ReadyToCompose
    <3>4. mine' = mine
      BY TaskFrame
    <3> QED
      BY <3>1, <3>2, <3>3, <3>4, StaysTerminal DEF AllTerminal
  <2> QED
    BY <2>1, TaskFrame DEF ReadyToCompose
<1> QED
  BY <1>2, <1>3, <1>4

\* Steps of a goroutine that leave the tables and the counters alone.
LEMMA QuietTaskOwn ==
    ASSUME WInv, [WNext]_wvars, NEW a \in Attempt, NEW r \in Role,
           \/ ExecuteReturns(a, r) \/ DropOutcome(a, r)
           \/ WakeGate(a, r) \/ TaskDone(a, r)
    PROVE  AttemptInv(a)'
<1>1. /\ ProcessTypes /\ SlotsCounted(a) /\ BusyInFlight(a) /\ NoneForgotten(a)
  BY TypesSplit DEF WInv, AttemptInv
<1>2. RunTask(a, r) /\ UNCHANGED vars /\ UNCHANGED sessions
  BY DEF RunTask, ExecuteReturns, DropOutcome, WakeGate, TaskDone, vars
<1>3. /\ localInFlight' = localInFlight /\ fatalErr' = fatalErr
      /\ task'[a][r] \in {"calling", "complete", "failed"} \/ fatalErr[a]
            \/ task[a][r] \notin {"calling", "complete", "failed"}
      /\ task'[a][r] \in {"calling", "complete", "failed"} =>
            task[a][r] \in {"calling", "complete", "failed"}
  BY <1>1 DEF ExecuteReturns, DropOutcome, WakeGate, TaskDone, ProcessTypes
<1>4. /\ Busy(a)' \subseteq Busy(a)
      /\ ~fatalErr[a] => Busy(a)' = Busy(a)
  BY <1>2, <1>3, TaskFrame DEF Busy
<1>5. /\ Supervising(a)' <=> Supervising(a)
      /\ RolesIn(mine[a], "in_flight")' = RolesIn(mine[a], "in_flight")
  BY <1>2, TaskFrame DEF Supervising, RolesIn, vars
<1>6. SlotsCounted(a)' /\ BusyInFlight(a)' /\ NoneForgotten(a)'
  <2>1. SlotsCounted(a)'
    BY <1>1, <1>3, <1>4 DEF SlotsCounted
  <2>2. ctxDone' = ctxDone /\ dispatcher' = dispatcher
    BY <1>2, TaskFrame
  <2> QED
    BY <1>1, <1>3, <1>4, <1>5, <2>1, <2>2 DEF BusyInFlight, NoneForgotten
<1> QED
  BY <1>2, <1>6, TaskCommon DEF AttemptInv

\* A publication settles the row and frees the slot, or sets the fatal error.
LEMMA PublishOwn ==
    ASSUME WInv, [WNext]_wvars, NEW a \in Attempt, NEW r \in Role,
           PublishOutcome(a, r) \/ PublishFails(a, r)
    PROVE  AttemptInv(a)'
<1>1. ProcessTypes /\ SlotsCounted(a) /\ BusyInFlight(a) /\ NoneForgotten(a)
  BY TypesSplit DEF WInv, AttemptInv
<1>2. RunTask(a, r) /\ task[a][r] \in {"complete", "failed"} /\ ~fatalErr[a]
  BY DEF RunTask, PublishOutcome, PublishFails
<1>3. task'[a][r] = "ending" /\ mine[a] \in Session /\ reserved[a] # r
  BY <1>1, <1>2, TaskFrame DEF PublishOutcome, PublishFails, ProcessTypes
<1>4. UNCHANGED vars \/ Publishes(a, r)
  BY PublishUse DEF PublishOutcome, PublishFails, Unconfirmed
<1>5. r \in Busy(a) /\ Busy(a)' = Busy(a) \ {r}
  BY <1>2, <1>3, TaskFrame DEF Busy
<1>6. /\ UNCHANGED sessions
      /\ \A q \in Role \ {r} : role_runs'[mine[a]][q] = role_runs[mine[a]][q]
  BY <1>3, <1>4, PublishRows DEF vars
<1>7. Supervising(a)' <=> Supervising(a)
  BY <1>2, TaskFrame DEF Supervising
<1>8. BusyInFlight(a)'
  BY <1>1, <1>2, <1>5, <1>6, <1>7, TaskFrame DEF BusyInFlight, RolesIn
<1>9. SlotsCounted(a)' /\ NoneForgotten(a)'
  <2>1. CASE PublishOutcome(a, r)
    <3>1. fatalErr' = fatalErr /\ localInFlight'[a] = localInFlight[a] - 1
      BY <1>1, <2>1 DEF PublishOutcome, ProcessTypes
    <3>2. Cardinality(Busy(a) \ {r}) = Cardinality(Busy(a)) - 1
      BY <1>5, BusyFinite, FS_RemoveElement
    <3>3. SlotsCounted(a)'
      BY <1>1, <1>2, <1>5, <3>1, <3>2 DEF SlotsCounted
    <3>4. Publishes(a, r)
      BY <2>1, PublishUse DEF PublishOutcome
    <3>5. role_runs'[mine[a]][r].status # "in_flight"
      BY <1>3, <3>4, PublishRows
    <3>6. RolesIn(mine[a], "in_flight")' \subseteq RolesIn(mine[a], "in_flight") \ {r}
      BY <1>2, <1>6, <3>5, TaskFrame DEF RolesIn
    <3>7. NoneForgotten(a)'
      <4>1. ctxDone' = ctxDone /\ dispatcher' = dispatcher
        BY <1>2, TaskFrame
      <4> QED
        BY <1>1, <1>5, <1>7, <3>1, <3>6, <4>1 DEF NoneForgotten
    <3> QED
      BY <3>3, <3>7
  <2>2. CASE PublishFails(a, r)
    <3>1. fatalErr'[a]
      BY <1>1, <2>2 DEF PublishFails, ProcessTypes
    <3> QED
      BY <3>1 DEF SlotsCounted, NoneForgotten
  <2> QED
    BY <2>1, <2>2
<1> QED
  BY <1>2, <1>6, <1>8, <1>9, TaskCommon DEF AttemptInv

\* The sweeps of the select, and the gate that opens with one.
LEMMA SweepOwn ==
    ASSUME WInv, [WNext]_wvars, NEW a \in Attempt,
           TimerFires(a) \/ TickCutoff(a) \/ TickDeadline(a) \/ TickCancel(a) \/ GateOpens(a)
    PROVE  AttemptInv(a)'
<1>1. ProcessTypes /\ Goroutines(a)
  BY TypesSplit DEF WInv, AttemptInv
<1>2. /\ mine' = mine /\ dispatcher' = dispatcher /\ reserved' = reserved /\ task' = task
      /\ localInFlight' = localInFlight /\ ctxDone' = ctxDone /\ fatalErr' = fatalErr
      /\ executed' = executed /\ Supervising(a)
      /\ stage'[a] \in {"select", "tick_deadline", "tick_cancel", "gate"}
      /\ CutoffSweeper(a) \/ HardDeadlineSweeper(a) \/ CancellationSweeper(a)
  BY <1>1 DEF TimerFires, TickCutoff, TickDeadline, TickCancel, GateOpens, GateAwake,
              Supervising, ProcessTypes
<1>3. /\ mine[a] \in Session /\ UNCHANGED sessions
      /\ \A r \in Role : role_runs'[mine[a]][r].status = "in_flight"
                 <=> role_runs[mine[a]][r].status = "in_flight"
  BY <1>2, SweepKeeps
<1>4. Carries(a)
  BY <1>2, <1>3 DEF Carries, RolesIn
<1>5. Goroutines(a)'
  <2>1. Reviewing(mine[a])' /\ mine[a] # NoOne
    BY <1>1, <1>2, <1>3, WorkerConstants DEF Goroutines, HasSession, Reviewing
  <2> QED
    BY <1>1, <1>2, <2>1 DEF Goroutines, Active
<1>6. ReadyToCompose(a)'
  BY <1>2 DEF ReadyToCompose
<1> QED
  BY <1>4, <1>5, <1>6, Carried DEF AttemptInv

\* The gate's read, its failures and the coordinator's way out.
LEMMA GateOwn ==
    ASSUME WInv, [WNext]_wvars, NEW a \in Attempt,
           GateFails(a) \/ GateReads(a) \/ GateCounts(a) \/ CoordinatorStops(a)
    PROVE  AttemptInv(a)'
<1>1. ProcessTypes /\ Goroutines(a)
  BY TypesSplit DEF WInv, AttemptInv
<1>2. /\ mine' = mine /\ reserved' = reserved /\ task' = task
      /\ localInFlight' = localInFlight /\ ctxDone' = ctxDone
      /\ executed' = executed /\ UNCHANGED vars /\ Supervising(a)
      /\ fatalErr[a] => fatalErr'[a]
      /\ \/ dispatcher' = dispatcher
         \/ dispatcher[a] = "failed" /\ dispatcher'[a] = "off" /\ fatalErr'[a]
      /\ \/ stage'[a] \in {"select", "closing"}
         \/ stage'[a] = "count" /\ Ready(a)
         \/ stage[a] = "count" /\ stage'[a] = "compose" /\ Active(a) = {}
  BY <1>1 DEF GateFails, GateReads, GateCounts, CoordinatorStops, GateAwake, Supervising, ProcessTypes
<1>3. Carries(a)
  BY <1>2 DEF Carries, RolesIn, vars
<1>4. Goroutines(a)'
  <2>1. Reviewing(mine[a])' /\ mine[a] # NoOne
    BY <1>1, <1>2, WorkerConstants DEF Goroutines, HasSession, Reviewing, vars
  <2>2. stage'[a] \notin {"owner", "recovered", "claimed"}
    BY <1>2
  <2> QED
    BY <1>1, <1>2, <2>1, <2>2 DEF Goroutines, Active
<1>5. ReadyToCompose(a)'
  <2>1. ReadyToCompose(a)
    BY DEF WInv, AttemptInv
  <2> QED
    BY <1>2, <2>1 DEF ReadyToCompose, Ready, AllTerminal, Active, vars
<1> QED
  BY <1>3, <1>4, <1>5, Carried DEF AttemptInv

\* The composition ends the supervision.
LEMMA ComposeOwn ==
    ASSUME WInv, [WNext]_wvars, NEW a \in Attempt, Compose(a)
    PROVE  AttemptInv(a)'
<1>1. ProcessTypes /\ Goroutines(a)
  BY TypesSplit DEF WInv, AttemptInv
<1>2. /\ mine' = mine /\ dispatcher' = dispatcher /\ reserved' = reserved /\ task' = task
      /\ localInFlight' = localInFlight /\ ctxDone' = ctxDone /\ fatalErr' = fatalErr
      /\ executed' = executed /\ stage'[a] = "closing"
  BY <1>1 DEF Compose, ProcessTypes
<1>3. ~Supervising(a)' /\ ~HasSession(a)' /\ ReadyToCompose(a)'
  BY <1>2 DEF Supervising, HasSession, ReadyToCompose
<1>4. Carries(a)
  BY <1>2, <1>3 DEF Carries
<1>5. Goroutines(a)'
  BY <1>1, <1>2, <1>3 DEF Goroutines, Active
<1> QED
  BY <1>3, <1>4, <1>5, Carried DEF AttemptInv

-----------------------------------------------------------------------------
(* All of it.                                                              *)

\* Every step keeps the invariant of every attempt.
LEMMA StepAttempts == ASSUME WInv, [WNext]_wvars, NEW b \in Attempt PROVE AttemptInv(b)'
<1>1. ProcessTypes /\ TypeOK
  BY TypesSplit DEF WInv, RowInv, IInv
<1>2. ASSUME NEW a \in Attempt, AttemptStep(a), b # a PROVE AttemptInv(b)'
  BY <1>2, OthersStill, Foreign, Bystander
<1>3. CASE AttemptStep(b)
  BY <1>3, SuperviseOwn, CrashOwn, ClaimOwn, BeginOwn, DispatcherOwn, ReserveOwn,
     StepFailsOwn, OnReservedOwn, QuietTaskOwn, PublishOwn, SweepOwn, GateOwn, ComposeOwn
     DEF AttemptStep, Supervise, Dispatch, Coordinate, RunTask
<1>4. CASE UNCHANGED <<processVars, executed>> /\ UNCHANGED <<sessions, role_runs>>
  <2>1. Still(b)
    BY <1>4 DEF processVars, Still
  <2> QED
    BY <1>4, <2>1, Bystander
<1>5. ASSUME NEW s \in Session, OwnerRequest(s) PROVE AttemptInv(b)'
  <2>1. Still(b) /\ executed' = executed
    BY <1>5 DEF OwnerRequest, processVars, Still
  <2>2. ASSUME mine[b] \in Session
        PROVE  /\ sessions'[mine[b]].status = sessions[mine[b]].status
               /\ role_runs'[mine[b]] = role_runs[mine[b]]
    <3>1. sessions[mine[b]].status # "absent"
      BY <2>2, WorkerConstants DEF WInv, Ownership
    <3>2. CASE Submit(s)
      BY <1>1, <2>2, <3>1, <3>2 DEF Submit, TypeOK
    <3>3. CASE RequestCancellation(s)
      BY <1>1, <2>2, <3>3 DEF RequestCancellation, TypeOK, SessionRow
    <3> QED
      BY <1>5, <3>2, <3>3 DEF OwnerRequest
  <2> QED
    BY <2>1, <2>2, Bystander
<1> QED
  BY <1>2, <1>3, <1>4, <1>5 DEF WNext, AttemptStep, ClockTick, Tick, wvars, vars

\* A claim makes the session the attempt's alone.
LEMMA StepOwnership == ASSUME WInv, [WNext]_wvars PROVE Ownership'
<1>1. ProcessTypes /\ TypeOK /\ Ownership
  BY TypesSplit DEF WInv, RowInv, IInv
<1>2. ASSUME NEW a \in Attempt, mine[a] # NoOne
      PROVE  mine[a] \in Session /\ sessions'[mine[a]].status \notin {"absent", "queued"}
  <2>1. mine[a] \in Session /\ sessions[mine[a]].status \notin {"absent", "queued"}
    BY <1>1, <1>2 DEF ProcessTypes, Ownership
  <2> QED
    BY <2>1, Forward
<1>3. CASE \A a \in Attempt : mine'[a] \in {mine[a], NoOne}
  BY <1>1, <1>2, <1>3 DEF Ownership
<1>4. ASSUME NEW a \in Attempt, Claim(a) PROVE Ownership'
  <2>1. PICK s \in Session, now \in Reading :
           ClaimSession(s, now) /\ mine' = [mine EXCEPT ![a] = s]
    BY <1>4 DEF Claim
  <2>2. /\ mine'[a] = s /\ \A b \in Attempt \ {a} : mine'[b] = mine[b]
    BY <1>1, <2>1 DEF ProcessTypes
  <2>3. sessions[s].status = "queued" /\ sessions'[s].status = "reviewing"
    BY <1>1, <2>1, ClaimedFields DEF ClaimSession, OldestQueued, TypeOK
  <2>4. \A b \in Attempt : mine[b] # s
    BY <1>1, <2>3, WorkerConstants DEF Ownership
  <2> QED
    BY <1>1, <1>2, <2>2, <2>3, <2>4 DEF Ownership
<1>5. ASSUME NEW a \in Attempt, AttemptStep(a), ~Claim(a)
      PROVE  \A b \in Attempt : mine'[b] \in {mine[b], NoOne}
  <2>1. CASE Crash(a)
    BY <1>1, <2>1 DEF Crash, ProcessTypes
  <2>2. CASE ~Crash(a)
    <3>1. mine' = mine
      BY <1>5, <2>2
         DEF AttemptStep, Shutdown, Supervise, AcquireProcessLock, Recover,
             ClaimNothing, GiveUp, BeginSession, Return, Dispatch, DispatcherWakes,
             StepReserves, StepFindsNoWork, StepFails, OnReserved, Coordinate,
             TimerFires, TickCutoff, TickDeadline, TickCancel, GateOpens, GateFails,
             GateReads, GateCounts, Compose, CoordinatorStops, RunTask, ExecuteReturns,
             PublishOutcome, PublishFails, DropOutcome, WakeGate, TaskDone
    <3> QED
      BY <3>1
  <2> QED
    BY <2>1, <2>2
<1>6. CASE UNCHANGED processVars
  BY <1>3, <1>6 DEF processVars
<1> QED
  BY <1>3, <1>4, <1>5, <1>6 DEF WNext, AttemptStep, ClockTick, OwnerRequest, wvars

\* Handing over a role leaves it handed over once; a row becomes pending only
\* when its session is submitted, and then it was pending before.
LEMMA StepHandovers ==
    ASSUME WInv, [WNext]_wvars
    PROVE  PendingUntouched' /\ NoReplay'
<1>1. ProcessTypes /\ PendingUntouched /\ NoReplay /\ RolesFollowSession /\ TypeOK
  BY TypesSplit DEF WInv, RowInv, IInv
<1>2. ASSUME NEW s \in Session, NEW r \in Role, role_runs'[s][r].status = "pending"
      PROVE  role_runs[s][r].status = "pending"
  BY <1>1, <1>2, Forward DEF RolesFollowSession
<1>3. CASE UNCHANGED executed
  BY <1>1, <1>2, <1>3 DEF PendingUntouched, NoReplay
<1>4. ASSUME NEW a \in Attempt, OnReserved(a), ~fatalErr[a]
      PROVE  PendingUntouched' /\ NoReplay'
  BY <1>1, <1>2, <1>4, HandedOver DEF PendingUntouched, NoReplay
<1>5. ASSUME NEW a \in Attempt, AttemptStep(a) PROVE PendingUntouched' /\ NoReplay'
  BY <1>3, <1>4, <1>5, Handover
<1> QED
  BY <1>3, <1>5 DEF WNext, AttemptStep, ClockTick, OwnerRequest, wvars

\* Nothing runs and nothing is stored in the beginning.
LEMMA InitWorker == WInit => WInv
<1> SUFFICES ASSUME WInit PROVE WInv
  OBVIOUS
<1>1. RowInv
  BY InitRows DEF WInit
<1>2. WTypeOK
  BY WorkerConstants, StoreConstants DEF WInit, WTypeOK, Stage, DispatcherState, TaskState
<1>3. Ownership /\ PendingUntouched /\ NoReplay
  BY DEF WInit, Ownership, PendingUntouched, NoReplay
<1>4. ASSUME NEW a \in Attempt PROVE AttemptInv(a)
  <2>1. Busy(a) = {} /\ Active(a) = {}
    BY WorkerConstants DEF WInit, Busy, Active
  <2>2. Cardinality({}) = 0
    BY FS_EmptySet
  <2>3. Goroutines(a) /\ Engaged(a)
    BY <2>1, WorkerConstants DEF WInit, Goroutines, Engaged, Quiet, HasSession, Supervising
  <2>4. SlotsCounted(a) /\ BusyInFlight(a) /\ NoneForgotten(a) /\ ReadyToCompose(a)
    BY <2>1, <2>2
       DEF WInit, SlotsCounted, BusyInFlight, NoneForgotten, ReadyToCompose, Supervising
  <2> QED
    BY <2>3, <2>4 DEF AttemptInv
<1> QED
  BY <1>1, <1>2, <1>3, <1>4 DEF WInv

\* The inductive invariant of the worker.
THEOREM WorkerInvariance == WSpec => []WInv
<1>1. ASSUME WInv, [WNext]_wvars PROVE RowInv'
  <2>1. [Next]_vars /\ RowInv
    BY <1>1, StoreStep DEF WInv
  <2> QED
    BY <2>1, StepInv, StepCreated, StepStarted, StepRowChecks, StepNotOvertaken, StepFullCall
       DEF RowInv
<1>2. WInv /\ [WNext]_wvars => WInv'
  BY <1>1, StepWTypes, StepOwnership, StepHandovers, StepAttempts DEF WInv
<1> QED
  BY <1>2, InitWorker, PTL DEF WSpec

\* The goroutines of racing, crashing and late attempts use the tables only by
\* the store's transactions with clock readings the store allows: everything
\* proved of ReviewStore holds of the worker.
THEOREM WorkerUsesTheStore == WSpec => Spec
<1>1. WInv /\ [WNext]_wvars => [Next]_vars
  BY StoreStep
<1>2. WInit => Init
  BY DEF WInit
<1> QED
  BY <1>1, <1>2, WorkerInvariance, PTL DEF WSpec, Spec

\* So the owner is kept the promise of the lifecycle, whatever happens to the
\* workers.
THEOREM WorkerKeepsThePromise == WSpec => ImplementsLifecycle
  BY WorkerUsesTheStore, StoreKeepsThePromise, PTL

\* Types, and the attempt past its first step is the holder of the lock.
THEOREM WorkerTypes == WSpec => []WTypeOK
<1>1. WInv => WTypeOK
  BY DEF WInv
<1> QED
  BY <1>1, WorkerInvariance, PTL

\* For every number of attempts, sessions, roles and faults, a role run is
\* handed to a provider at most once.
THEOREM ProviderWorkNotReplayed == WSpec => []NoReplay
<1>1. WInv => NoReplay
  BY DEF WInv
<1> QED
  BY <1>1, WorkerInvariance, PTL

\* The rows in flight of a healthy supervised session are exactly the roles
\* its dispatcher and goroutines still answer for.
THEOREM NoRoleForgotten == WSpec => []InFlightAccountedFor
<1>1. WInv => InFlightAccountedFor
  BY DEF WInv, AttemptInv, BusyInFlight, NoneForgotten, InFlightAccountedFor, Busy
<1> QED
  BY <1>1, WorkerInvariance, PTL

\* Between the gate's read and the composition nothing reopens the session, so
\* the store never answers "not ready".
THEOREM CompositionAccepted == WSpec => []CompositionNeverRefused
<1>1. WInv => CompositionNeverRefused
  BY DEF WInv, AttemptInv, Goroutines, HasSession, Supervising, ReadyToCompose,
         CompositionNeverRefused
<1> QED
  BY <1>1, WorkerInvariance, PTL
=============================================================================
