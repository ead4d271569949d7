\* One account, one worker and the sweep, one fault.
CONSTANTS
    gMain = gMain
    gDept = gDept
    rMain = rMain
    rDept = rDept
    rUnit = rUnit
    ann = ann
    w1 = w1
    w2 = w2
    sweeper = sweeper
    Nobody = Nobody
    Guild = {gMain, gDept}
    Role = {rMain, rDept}
    GuildOf <- MCGuildOf
    GrantRole = {}
    MaxPriority = 3
    Member = {ann}
    Worker = {w1, sweeper}
    Sweeper = sweeper
    ContextOf <- MirrorContext
    PlanOf <- MirrorPlan
    Threshold = 2
    MaxRelock = 1
    MaxInterventions = 1
    MaxFaults = 1
    LockOutlivesWork = TRUE
SPECIFICATION FairSpec
PROPERTIES
    Converges
    Quiesces
