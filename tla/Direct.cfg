SPECIFICATION Spec
CONSTANTS
    MaxTime = 2
    MaxFaults = 1
    Target = {t1}
    Operator = {op1, op2}
    Duration = {1, 2}
    StandingOf <- MCStandingOf
    Batch = 1
    MaxTimers = 2
    BanGuild = {g1, g2}
    ByName <- MCByName
    Moderator = {mod1}
    BanLength = {1}
    Sonoran = {}
    MaxBans = 2
    Issuer = {i1, i2}
    GrantLength = {0, 1}
    Synchronizer = {w1}
    MaxGrants = 2
    MaxGrantJobs = 2
    Department = {d1, d2}
    DeptRole = {r1, r2}
    DeptHeldAtFirst = {r1}
    DepartmentOf <- MCDepartmentOf
    SidesOffered <- MCSidesOffered
    ObstaclesAt <- MCObstaclesAt
    TransferWorker = {x1}
    TransferAttempts = 2
    MaxTransfers = 2
    MaxTransferEdits = 1
    Person = {p1, p2}
    Caller = {p1}
    ServiceRole = {s1, s2, s3}
    HeldAtFirst <- MCHeldAtFirst
    ObstaclesTo <- MCObstaclesTo
    MaxServiceEdits = 2
    Applicant = {p3}
    Reviewer = {v1, v2}
    MaxSubmissions = 1
    MaxWhitelistEdits = 1
    Admin = {a1, a2}
    Blueprints <- MCBlueprints
    FoundAtFirst <- MCFoundAtFirst
    Unmanageable = {"ownership"}
    Wirings = {"mapping"}
    Touched = {"requests", "department member"}
    MaxSetups = 2
    MaxHandmade = 1
INVARIANTS TypeOK NothingDuplicated SettledGrantsAreRight SelfServiceStaysInClosure
PROPERTIES NothingTakenBackEarly ReportsAreTrue EverythingTakenBack
