\* Two workers, nothing fails: a preview meets a locked account.
CONSTANTS
    gMain = gMain
    gDept = gDept
    rMain = rMain
    rDept = rDept
    rUnit = rUnit
    ann = ann
    w1 = w1
    w2 = w2
    sweeper = sweeper
    Nobody = Nobody
    Guild = {gMain, gDept}
    Role = {rMain, rDept}
    GuildOf <- MCGuildOf
    GrantRole = {}
    MaxPriority = 3
    Member = {ann}
    Worker = {w1, w2}
    Sweeper = sweeper
    ContextOf <- MirrorContext
    PlanOf <- MirrorPlan
    Threshold = 2
    MaxRelock = 1
    MaxInterventions = 2
    MaxFaults = 0
    LockOutlivesWork = TRUE
SPECIFICATION Spec
PROPERTIES
    PreviewChangesNothing
CHECK_DEADLOCK FALSE
