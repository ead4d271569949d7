\* Nothing fails but the job's own work.
CONSTANTS
    x1 = x1
    x2 = x2
    NoOne = NoOne
    Execution <- MCExecution
    MaxAttempts = 3
    MaxStalled = 1
    MaxFaults <- NoFaults
SPECIFICATION Spec
PROPERTIES
    RetriesRunTheJob
CHECK_DEADLOCK FALSE
