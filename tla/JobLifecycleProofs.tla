------------------------- MODULE JobLifecycleProofs -------------------------
(* The job record under any number of crashes, retries, redeliveries and     *)
(* database faults, for any number of attempts and worker slots.             *)
EXTENDS JobLifecycle, TLAPS

\* Before the job exists nobody can have read or run it.
Unborn ==
    creator = "new" =>
        /\ status = "none" /\ entry = "absent" /\ cancel = "none"
        /\ \A x \in Execution : ~Live(x)

\* An entry that can still be delivered has attempts and stalls left.
CanBeDelivered ==
    /\ creator = "committed" => entry = "absent"
    /\ entry \in {"absent", "waiting", "active"} => attempts < MaxAttempts /\ stalls <= MaxStalled
    /\ entry = "active" <=> holder # NoOne

\* What an execution knows of the row at each of its steps.
Progress ==
    \A x \in Execution :
        /\ at[x] = "recording" => outcome[x] \in Finished
        /\ Spared("stall") =>
              /\ at[x] \in {"starting", "working", "recording", "catching"}
                    => status \notin Finished
              /\ at[x] = "returning" => status \in Settled

\* The inductive invariant.
IInv ==
    /\ TypeOK
    /\ Unborn
    /\ CanBeDelivered
    /\ Progress
    /\ OneExecutionAtATime
    /\ CompletedMeansSettled

LEMMA FaultsAreCounted ==
  ASSUME TypeOK, NEW kind \in Fault, NEW n \in {1, 2}, Happens(kind, n)
  PROVE  faults' \in [Fault -> Nat] /\ \A k \in Fault : faults'[k] <= MaxFaults[k]
<1>1. faults[kind] \in Nat /\ MaxFaults[kind] \in Nat /\ faults[kind] <= MaxFaults[kind]
  BY LifecycleConstants DEF TypeOK
<1>2. faults[kind] - n \in Nat /\ faults[kind] - n <= MaxFaults[kind]
  BY <1>1 DEF Happens
<1>3. faults' = [faults EXCEPT ![kind] = faults[kind] - n] BY DEF Happens
<1>4. QED BY <1>2, <1>3, LifecycleConstants DEF TypeOK

LEMMA InitIInv == Init => IInv
  BY LifecycleConstants
  DEF Init, IInv, TypeOK, Unborn, CanBeDelivered, Progress, OneExecutionAtATime,
      CompletedMeansSettled, Spared, Live, Settled, Terminal, Finished, Status

\* The creator's steps, the user's and the stalled check leave the executions alone.
LEMMA OutsideSteps ==
  ASSUME IInv,
         \/ CreateSyncJob \/ EnqueueSyncJob \/ CreatorDies
         \/ RecoverStalled \/ ReadForCancel \/ CancelJob
  PROVE  IInv'
<1> USE LifecycleConstants
    DEF IInv, TypeOK, Unborn, CanBeDelivered, Progress, OneExecutionAtATime,
        CompletedMeansSettled, Spared, Live, Settled, Terminal, Finished, Status,
        Happens, Fails, Fault, Report, records, bull, execution
<1>1. CASE CreateSyncJob BY <1>1 DEF CreateSyncJob
<1>2. CASE EnqueueSyncJob
  <2> USE <1>2 DEF EnqueueSyncJob, EnqueueFails, EnqueueFailsUnreported, AddEntry, StoreQueueId
  <2>1. TypeOK'
    <3>1. faults' \in [Fault -> Nat] /\ \A k \in Fault : faults'[k] <= MaxFaults[k]
      BY FaultsAreCounted
    <3>2. QED BY <3>1
  <2>2. Unborn' /\ CanBeDelivered' OBVIOUS
  <2>3. Progress' OBVIOUS
  <2>4. OneExecutionAtATime' OBVIOUS
  <2>5. CompletedMeansSettled' OBVIOUS
  <2>6. QED BY <2>1, <2>2, <2>3, <2>4, <2>5
<1>3. CASE CreatorDies BY <1>3 DEF CreatorDies
<1>4. CASE RecoverStalled BY <1>4 DEF RecoverStalled, AfterStall
<1>5. CASE ReadForCancel BY <1>5 DEF ReadForCancel
<1>6. CASE CancelJob BY <1>6 DEF CancelJob
<1>7. QED BY <1>1, <1>2, <1>3, <1>4, <1>5, <1>6

LEMMA ExecutionSteps ==
  ASSUME IInv, NEW x \in Execution, Deliver(x) \/ RunSyncJob(x) \/ Crash(x)
  PROVE  IInv'
<1> USE LifecycleConstants
    DEF IInv, TypeOK, Unborn, CanBeDelivered, Progress, OneExecutionAtATime,
        CompletedMeansSettled, Spared, Live, Settled, Terminal, Finished, Status,
        Happens, Fails, Fault, Report, Goto, Ends, Uncaught, records, bull, execution
<1>1. CASE Deliver(x) BY <1>1 DEF Deliver
<1>2. CASE SkipFinished(x) BY <1>2 DEF SkipFinished
<1>3. CASE ReadJob(x)
  <2> USE <1>3 DEF ReadJob
  <2>1. TypeOK'
    <3>1. faults' \in [Fault -> Nat] /\ \A k \in Fault : faults'[k] <= MaxFaults[k]
      BY FaultsAreCounted
    <3>2. QED BY <3>1
  <2>2. Unborn' /\ CanBeDelivered' OBVIOUS
  <2>3. Progress' OBVIOUS
  <2>4. OneExecutionAtATime' OBVIOUS
  <2>5. CompletedMeansSettled' OBVIOUS
  <2>6. QED BY <2>1, <2>2, <2>3, <2>4, <2>5
<1>4. CASE MarkRunning(x)
  <2> USE <1>4 DEF MarkRunning
  <2>1. TypeOK'
    <3>1. faults' \in [Fault -> Nat] /\ \A k \in Fault : faults'[k] <= MaxFaults[k]
      BY FaultsAreCounted
    <3>2. QED BY <3>1
  <2>2. Unborn' /\ CanBeDelivered' OBVIOUS
  <2>3. Progress' OBVIOUS
  <2>4. OneExecutionAtATime' OBVIOUS
  <2>5. CompletedMeansSettled' OBVIOUS
  <2>6. QED BY <2>1, <2>2, <2>3, <2>4, <2>5
<1>5. CASE Work(x) BY <1>5 DEF Work
<1>6. CASE RecordOutcome(x)
  <2> USE <1>6 DEF RecordOutcome
  <2>1. TypeOK'
    <3>1. faults' \in [Fault -> Nat] /\ \A k \in Fault : faults'[k] <= MaxFaults[k]
      BY FaultsAreCounted
    <3>2. QED BY <3>1
  <2>2. Unborn' /\ CanBeDelivered' OBVIOUS
  <2>3. Progress' OBVIOUS
  <2>4. OneExecutionAtATime' OBVIOUS
  <2>5. CompletedMeansSettled' OBVIOUS
  <2>6. QED BY <2>1, <2>2, <2>3, <2>4, <2>5
<1>7. CASE CatchError(x)
  <2> USE <1>7 DEF CatchError
  <2>1. TypeOK'
    <3>1. faults' \in [Fault -> Nat] /\ \A k \in Fault : faults'[k] <= MaxFaults[k]
      BY FaultsAreCounted
    <3>2. QED BY <3>1
  <2>2. Unborn' /\ CanBeDelivered' OBVIOUS
  <2>3. Progress' OBVIOUS
  <2>4. OneExecutionAtATime' OBVIOUS
  <2>5. CompletedMeansSettled' OBVIOUS
  <2>6. QED BY <2>1, <2>2, <2>3, <2>4, <2>5
<1>8. CASE Return(x) BY <1>8 DEF Return
<1>9. CASE Throw(x) BY <1>9 DEF Throw
<1>10. CASE Crash(x) BY <1>10 DEF Crash
<1>11. QED BY <1>1, <1>2, <1>3, <1>4, <1>5, <1>6, <1>7, <1>8, <1>9, <1>10 DEF RunSyncJob

LEMMA StepIInv == IInv /\ [Next]_vars => IInv'
<1> SUFFICES ASSUME IInv, [Next]_vars PROVE IInv' OBVIOUS
<1>1. CASE UNCHANGED vars
  BY <1>1 DEF vars, records, bull, execution, IInv, TypeOK, Unborn, CanBeDelivered, Progress,
              OneExecutionAtATime, CompletedMeansSettled, Live, Spared
<1>2. CASE Next BY <1>2, OutsideSteps, ExecutionSteps DEF Next
<1>3. QED BY <1>1, <1>2

LEMMA Invariance == Spec => []IInv
  BY InitIInv, StepIInv, PTL DEF Spec

\* The type invariant: among other things a job fails at most RETRY_POLICY.attempts
\* times and is redelivered at most maxStalledCount times.
THEOREM TypeCorrect == Spec => []TypeOK
<1>1. IInv => TypeOK BY DEF IInv
<1>2. QED BY <1>1, Invariance, PTL

\* Only the execution holding the BullMQ lock is live, if no execution outlives it.
THEOREM OneExecutionLives == Spec => []OneExecutionAtATime
<1>1. IInv => OneExecutionAtATime BY DEF IInv
<1>2. QED BY <1>1, Invariance, PTL

\* A completed entry has a row that says how the job ended.
THEOREM CompletedJobsAreSettled == Spec => []CompletedMeansSettled
<1>1. IInv => CompletedMeansSettled BY DEF IInv
<1>2. QED BY <1>1, Invariance, PTL

\* A finished or paused row is never reopened, only cancelled.
THEOREM FinishedJobsStayFinished == Spec => FinishedStaysFinished
<1>1. IInv /\ [Next]_vars =>
        [Spared("stall") /\ status \in Finished => status' \in {status, "CANCELLED"}]_vars
  <2> SUFFICES ASSUME IInv, [Next]_vars, Spared("stall"), status \in Finished
               PROVE  status' \in {status, "CANCELLED"} OBVIOUS
  <2> USE DEF IInv, Progress, records, Finished
  <2>1. CASE UNCHANGED vars BY <2>1 DEF vars
  <2>2. CASE CreateSyncJob BY <2>2 DEF CreateSyncJob, Unborn
  <2>3. CASE EnqueueSyncJob \/ CreatorDies
    BY <2>3 DEF EnqueueSyncJob, EnqueueFails, EnqueueFailsUnreported, AddEntry, StoreQueueId, CreatorDies
  <2>4. CASE RecoverStalled \/ ReadForCancel \/ CancelJob
    BY <2>4 DEF RecoverStalled, ReadForCancel, CancelJob
  <2>5. ASSUME NEW x \in Execution, Deliver(x) \/ RunSyncJob(x) \/ Crash(x)
        PROVE  status' \in {status, "CANCELLED"}
    BY <2>5 DEF Deliver, RunSyncJob, SkipFinished, ReadJob, MarkRunning, Work, RecordOutcome,
                CatchError, Return, Throw, Crash, Uncaught
  <2>6. QED BY <2>1, <2>2, <2>3, <2>4, <2>5 DEF Next
<1>2. QED BY <1>1, Invariance, PTL DEF Spec, FinishedStaysFinished
=============================================================================
