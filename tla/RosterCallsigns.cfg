SPECIFICATION Spec
CONSTANTS
    MaxTime = 0
    MaxFaults = 0
    RosterMember = {"m1", "m2"}
    Rank = {"officer", "chief"}
    RankRole = {"ro", "rc"}
    RoleOf <- MCRoleOf
    Gate <- MCGate
    Position <- MCPosition
    Block <- MCBlock
    CallsignsByHand = {}
    NicknameSync = TRUE
    RemovalThreshold = 1
    BoundAtFirst = {"officer", "chief"}
    RolesAtFirst <- MCRolesAtFirst
    Editor = {}
    MaxRosterEdits = 2
CHECK_DEADLOCK FALSE
INVARIANTS CallsignsUnique
