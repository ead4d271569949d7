\* One account, two mirrored roles, two workers, at most one removal per job.
CONSTANTS
    gMain = gMain
    gDept = gDept
    rMain = rMain
    rDept = rDept
    rUnit = rUnit
    ann = ann
    w1 = w1
    w2 = w2
    sweeper = sweeper
    Nobody = Nobody
    Guild = {gMain, gDept}
    Role = {rMain, rDept, rUnit}
    GuildOf <- MCGuildOf
    GrantRole = {}
    MaxPriority = 3
    Member = {ann}
    Worker = {w1, w2}
    Sweeper = sweeper
    ContextOf <- MirrorContext
    PlanOf <- MirrorPlan
    Threshold = 1
    MaxRelock = 1
    MaxInterventions = 2
    MaxFaults = 1
    LockOutlivesWork = TRUE
SPECIFICATION Spec
SYMMETRY Symmetry
INVARIANTS
    TypeOK
    OneWriter
    WithinThreshold
PROPERTIES
    ImplementsPolicy
CHECK_DEADLOCK FALSE
