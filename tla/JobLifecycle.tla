---------------------------- MODULE JobLifecycle ----------------------------
(***************************************************************************)
(* One synchronization job from its creation to its end: the SyncJob row   *)
(* in PostgreSQL, the entry of the same id in BullMQ, the executions BullMQ*)
(* starts for the entry, and a user who may cancel the job.                *)
(*                                                                         *)
(* Row and entry are written by different steps of different processes.    *)
(* What a job does to Discord is RoleSync's subject and left out here.     *)
(* Definitions whose names begin with Faulty are seeded faults.            *)
(***************************************************************************)
EXTENDS Naturals

CONSTANTS
    Execution,      \* worker slots an execution of the job can occupy
    NoOne,          \* not an Execution
    MaxAttempts,    \* RETRY_POLICY.attempts
    MaxStalled,     \* BullMQ's maxStalledCount
    MaxFaults       \* bound: how many faults of each kind happen

\* A process dies, a worker is too busy to renew its BullMQ lock, PostgreSQL or
\* Redis refuses an operation.
Fault == {"crash", "stall", "database", "redis"}

ASSUME LifecycleConstants ==
    /\ NoOne \notin Execution
    /\ MaxAttempts \in Nat \ {0}
    /\ MaxStalled \in Nat
    /\ MaxFaults \in [Fault -> Nat]

Finished == {"COMPLETED", "PARTIAL", "FAILED", "PAUSED"}
Terminal == {"COMPLETED", "PARTIAL", "FAILED", "CANCELLED"}
Settled == Terminal \cup {"PAUSED"}
Status == {"none", "PENDING", "RUNNING"} \cup Settled

VARIABLES
    creator,    \* the process that creates the job: where it is
    status,     \* the row's status, "none" before there is a row
    issues,     \* types of the SyncIssues recorded for the job
    entry,      \* BullMQ's state of the entry
    attempts,   \* failed attempts BullMQ has counted
    stalls,     \* times BullMQ found the entry without a live worker
    holder,     \* the execution that holds the entry's BullMQ lock
    at,         \* where each execution is
    outcome,    \* how the execution's work ended
    cancel,     \* the status a cancelling user read, "none" when there is none
    faults      \* faults that may still happen

records == <<status, issues>>
bull == <<entry, attempts, stalls, holder>>
execution == <<at, outcome>>
vars == <<creator, records, bull, execution, cancel, faults>>

TypeOK ==
    /\ creator \in {"new", "committed", "added", "done", "dead"}
    /\ status \in Status
    /\ issues \subseteq {"ENQUEUE_FAILED", "THRESHOLD_EXCEEDED", "FAILURE"}
    /\ entry \in {"absent", "waiting", "active", "completed", "failed"}
    /\ attempts \in 0 .. MaxAttempts
    /\ stalls \in 0 .. MaxStalled + 1
    /\ holder \in Execution \cup {NoOne}
    /\ at \in [Execution -> {"idle", "reading", "starting", "working", "recording",
                             "catching", "returning", "throwing"}]
    /\ outcome \in [Execution -> Finished \cup {"none", "retryable", "permanent"}]
    /\ cancel \in {"none", "PENDING", "PAUSED"}
    /\ faults \in [Fault -> Nat] /\ \A k \in Fault : faults[k] <= MaxFaults[k]

Init ==
    /\ creator = "new"
    /\ status = "none" /\ issues = {}
    /\ entry = "absent" /\ attempts = 0 /\ stalls = 0 /\ holder = NoOne
    /\ at = [x \in Execution |-> "idle"]
    /\ outcome = [x \in Execution |-> "none"]
    /\ cancel = "none"
    /\ faults = MaxFaults

Happens(kind, n) == faults[kind] >= n /\ faults' = [faults EXCEPT ![kind] = @ - n]
Fails(kind) == Happens(kind, 1)

-----------------------------------------------------------------------------
(* createAndEnqueue, in the bot, the API or a worker.                      *)

Report(type) == issues' = issues \cup {type}

CreateSyncJob ==
    /\ creator = "new"
    /\ creator' = "committed"
    /\ status' = "PENDING"
    /\ UNCHANGED <<issues, bull, execution, cancel, faults>>

\* Redis refuses the entry: that is reported.
EnqueueFails ==
    /\ creator = "committed"
    /\ creator' = "done"
    /\ Fails("redis")
    /\ Report("ENQUEUE_FAILED")
    /\ UNCHANGED <<status, bull, execution, cancel>>

\* Neither can be done.
EnqueueFailsUnreported ==
    /\ creator = "committed"
    /\ creator' = "done"
    /\ faults["redis"] > 0 /\ faults["database"] > 0
    /\ faults' = [faults EXCEPT !["redis"] = @ - 1, !["database"] = @ - 1]
    /\ UNCHANGED <<records, bull, execution, cancel>>

AddEntry ==
    /\ creator = "committed"
    /\ creator' = "added"
    /\ entry' = "waiting"
    /\ UNCHANGED <<records, attempts, stalls, holder, execution, cancel, faults>>

\* The entry's id is stored in the row; a failure to do so is reported as a failure
\* to queue the job, which it is not.
StoreQueueId ==
    /\ creator = "added"
    /\ creator' = "done"
    /\ \/ UNCHANGED <<issues, faults>>
       \/ Fails("database") /\ Report("ENQUEUE_FAILED")
       \/ Happens("database", 2) /\ UNCHANGED issues
    /\ UNCHANGED <<status, bull, execution, cancel>>

CreatorDies ==
    /\ creator \in {"committed", "added"}
    /\ creator' = "dead"
    /\ Fails("crash")
    /\ UNCHANGED <<records, bull, execution, cancel>>

EnqueueSyncJob == EnqueueFails \/ EnqueueFailsUnreported \/ AddEntry \/ StoreQueueId

-----------------------------------------------------------------------------
(* processSyncJob and runSyncJob.                                          *)

Goto(x, label) == at' = [at EXCEPT ![x] = label]
Ends(x, o) == outcome' = [outcome EXCEPT ![x] = o]

\* A database error is not retryable, and neither are unexpected errors.  Before
\* runSyncJob's try block, and in the promises it returns, nothing catches it.
Uncaught(x) ==
    /\ Fails("database")
    /\ Goto(x, "throwing")
    /\ Ends(x, "permanent")
    /\ UNCHANGED records

FaultyDeliver(x) ==
    /\ entry \in {"waiting", "active"}
    /\ at[x] = "idle"
    /\ entry' = "active"
    /\ holder' = x
    /\ Goto(x, "reading")
    /\ UNCHANGED <<creator, records, attempts, stalls, outcome, cancel, faults>>

Deliver(x) ==
    /\ entry = "waiting"
    /\ at[x] = "idle"
    /\ entry' = "active"
    /\ holder' = x
    /\ Goto(x, "reading")
    /\ UNCHANGED <<creator, records, attempts, stalls, outcome, cancel, faults>>

FaultySkipStarted(x) ==
    /\ at[x] = "reading"
    /\ status \in Settled \cup {"RUNNING"}
    /\ Goto(x, "returning")
    /\ UNCHANGED <<creator, records, bull, outcome, cancel, faults>>

\* The check at the top of runSyncJob: a job that ended or was paused is left alone.
SkipFinished(x) ==
    /\ at[x] = "reading"
    /\ status \in Settled
    /\ Goto(x, "returning")
    /\ UNCHANGED <<creator, records, bull, outcome, cancel, faults>>

FaultyReadJob(x) ==
    /\ at[x] = "reading"
    /\ Goto(x, "starting")
    /\ UNCHANGED <<creator, records, bull, outcome, cancel, faults>>

ReadJob(x) ==
    /\ at[x] = "reading"
    /\ \/ /\ status \notin Settled
          /\ Goto(x, "starting")
          /\ UNCHANGED <<records, outcome, faults>>
       \/ Uncaught(x)
    /\ UNCHANGED <<creator, bull, cancel>>

\* The row becomes RUNNING, whatever it has become since it was read.
MarkRunning(x) ==
    /\ at[x] = "starting"
    /\ \/ Goto(x, "working") /\ status' = "RUNNING" /\ UNCHANGED <<issues, outcome, faults>>
       \/ Uncaught(x)
    /\ UNCHANGED <<creator, bull, cancel>>

\* The job's work ends: applied, paused on the threshold, or with an error.
Work(x) ==
    /\ at[x] = "working"
    /\ \/ \E o \in Finished : Ends(x, o) /\ Goto(x, "recording")
       \/ \E o \in {"retryable", "permanent"} : Ends(x, o) /\ Goto(x, "catching")
    /\ UNCHANGED <<creator, records, bull, cancel, faults>>

\* pauseForThreshold and finalizeJob.
RecordOutcome(x) ==
    /\ at[x] = "recording"
    /\ \/ /\ Goto(x, "returning")
          /\ status' = outcome[x]
          /\ IF outcome[x] = "PAUSED" THEN Report("THRESHOLD_EXCEEDED") ELSE UNCHANGED issues
          /\ UNCHANGED <<outcome, faults>>
       \/ Uncaught(x)
    /\ UNCHANGED <<creator, bull, cancel>>

FaultyCatchError(x) ==
    /\ at[x] = "catching"
    /\ Goto(x, "returning")
    /\ \/ status' = "FAILED" /\ Report("FAILURE") /\ UNCHANGED faults
       \/ Fails("database") /\ UNCHANGED status /\ Report("FAILURE")
    /\ UNCHANGED <<creator, bull, outcome, cancel>>

\* The catch block: FAILED and an issue, each of which may fail unnoticed.
CatchError(x) ==
    /\ at[x] = "catching"
    /\ Goto(x, "throwing")
    /\ \/ status' = "FAILED" /\ Report("FAILURE") /\ UNCHANGED faults
       \/ Fails("database") /\ status' = "FAILED" /\ UNCHANGED issues
       \/ Fails("database") /\ UNCHANGED status /\ Report("FAILURE")
       \/ Happens("database", 2) /\ UNCHANGED records
    /\ UNCHANGED <<creator, bull, outcome, cancel>>

\* BullMQ completes the entry if the execution still holds its lock.
Return(x) ==
    /\ at[x] = "returning"
    /\ Goto(x, "idle")
    /\ Ends(x, "none")
    /\ IF holder = x THEN entry' = "completed" /\ holder' = NoOne
                     ELSE UNCHANGED <<entry, holder>>
    /\ UNCHANGED <<creator, records, attempts, stalls, cancel, faults>>

\* A permanent failure discards the entry, a retryable one is tried again.
Throw(x) ==
    /\ at[x] = "throwing"
    /\ Goto(x, "idle")
    /\ Ends(x, "none")
    /\ IF holder = x
       THEN /\ holder' = NoOne
            /\ attempts' = attempts + 1
            /\ entry' = IF outcome[x] = "retryable" /\ attempts + 1 < MaxAttempts
                        THEN "waiting" ELSE "failed"
       ELSE UNCHANGED <<holder, attempts, entry>>
    /\ UNCHANGED <<creator, records, stalls, cancel, faults>>

RunSyncJob(x) ==
    \/ SkipFinished(x) \/ ReadJob(x) \/ MarkRunning(x) \/ Work(x)
    \/ RecordOutcome(x) \/ CatchError(x) \/ Return(x) \/ Throw(x)

-----------------------------------------------------------------------------
(* BullMQ's stalled check, crashes, and a user.                            *)

Crash(x) ==
    /\ at[x] # "idle"
    /\ Fails("crash")
    /\ Goto(x, "idle")
    /\ Ends(x, "none")
    /\ UNCHANGED <<creator, records, bull, cancel>>

\* What BullMQ does with an entry it found stalled for the n-th time.
FaultyAfterAnyStall(n) == "waiting"
AfterStall(n) == IF n > MaxStalled THEN "failed" ELSE "waiting"

\* An active entry whose lock ran out is delivered again, a limited number of times.
\* Its worker is dead, or was only too busy to renew the lock: a stall.
RecoverStalled ==
    /\ entry = "active"
    /\ IF at[holder] = "idle" THEN UNCHANGED faults ELSE Fails("stall")
    /\ stalls' = stalls + 1
    /\ entry' = AfterStall(stalls + 1)
    /\ holder' = NoOne
    /\ UNCHANGED <<creator, records, attempts, execution, cancel>>

\* cancelSyncJob reads the row, and then cancels what it read.
ReadForCancel ==
    /\ cancel = "none"
    /\ status \in {"PENDING", "PAUSED"}
    /\ cancel' = status
    /\ UNCHANGED <<creator, records, bull, execution, faults>>

CancelJob ==
    /\ cancel # "none"
    /\ cancel' = "none"
    /\ status' = "CANCELLED"
    /\ UNCHANGED <<creator, issues, bull, execution, faults>>

-----------------------------------------------------------------------------

Next ==
    \/ CreateSyncJob \/ EnqueueSyncJob \/ CreatorDies
    \/ \E x \in Execution : Deliver(x) \/ RunSyncJob(x) \/ Crash(x)
    \/ RecoverStalled
    \/ ReadForCancel \/ CancelJob

Spec == Init /\ [][Next]_vars

\* Workers take waiting entries and run what they took, and BullMQ looks for
\* entries whose worker died.  No fault and no cancellation has to happen.
Fairness ==
    /\ WF_vars(\E x \in Execution : Deliver(x))
    /\ \A x \in Execution : WF_vars(RunSyncJob(x))
    /\ WF_vars(RecoverStalled)

FairSpec == Spec /\ Fairness

-----------------------------------------------------------------------------

Live(x) == at[x] # "idle"
Spared(kind) == faults[kind] = MaxFaults[kind]

\* Unless BullMQ gave up on an execution that goes on, only the execution that
\* holds the entry's lock is live, whatever crashes, retries and redeliveries went
\* before: a job is never applied twice at once (createSyncProcessor).
OneExecutionAtATime ==
    Spared("stall") => \A x \in Execution : Live(x) => entry = "active" /\ holder = x

\* BullMQ calls a job completed only if its row says how it ended, so that a poll of
\* the row (waitForJob) and one of the queue agree; database faults and crashes at
\* any step do not change that.
CompletedMeansSettled ==
    Spared("stall") /\ entry = "completed" => status \in Settled

\* A job that ended or was paused is never run again by a retry or by a delivery
\* after a crash; all that can follow is its cancellation (the check at the top of
\* runSyncJob).
FinishedStaysFinished ==
    [][Spared("stall") /\ status \in Finished => status' \in {status, "CANCELLED"}]_vars

\* A job that reached the queue ends with its outcome in the row and stays so,
\* although BullMQ has to redeliver it for a crash or for a stall, as long as the
\* database answers (runSyncJob).  Not for both: an execution BullMQ gave up on can
\* set the row of the completed job back to RUNNING and then die.
QueuedJobsSettle ==
    <>[]((/\ entry # "absent" /\ stalls <= MaxStalled
          /\ Spared("database")
          /\ Spared("crash") \/ Spared("stall")) => status \in Settled)

-----------------------------------------------------------------------------
(* What the code's comments and documentation say and the code does not do.*)

\* docs/architecture.md: "Discord rate limit | Marked retryable; BullMQ exponential
\* backoff".  A retry runs the job; it does not skip it because the row is FAILED.
RetriesRunTheJob ==
    [][\A x \in Execution : SkipFinished(x) => ~(attempts > 0 /\ status = "FAILED")]_vars
=============================================================================
