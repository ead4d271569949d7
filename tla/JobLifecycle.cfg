\* Up to two crashes, a stall, two database faults and a Redis fault.
CONSTANTS
    x1 = x1
    x2 = x2
    NoOne = NoOne
    Execution <- MCExecution
    MaxAttempts = 3
    MaxStalled = 1
    MaxFaults <- MCMaxFaults
SPECIFICATION FairSpec
INVARIANTS
    TypeOK
    OneExecutionAtATime
    CompletedMeansSettled
PROPERTIES
    FinishedStaysFinished
    QueuedJobsSettle
CHECK_DEADLOCK FALSE
