SPECIFICATION Spec
CONSTANTS
    MaxTime = 0
    MaxFaults = 1
    RosterMember = {"m1", "m2"}
    Rank = {"officer", "chief"}
    RankRole = {"ro", "rc"}
    RoleOf <- MCRoleOf
    Gate <- MCGate
    Position <- MCPosition
    Block <- MCBlock
    CallsignsByHand <- MCByHand
    NicknameSync = TRUE
    RemovalThreshold = 1
    BoundAtFirst = {"officer", "chief"}
    RolesAtFirst <- MCRolesAtFirst
    Editor = {"e1"}
    MaxRosterEdits = 2
    NameGuild = {"main", "dept"}
    MainGuild = "main"
    NameRoster = {"staff", "police", "dispatch"}
    GuildOf <- MCRosterGuild
    RosterOrder <- MCOrder
    FormatsNames = {"staff", "police", "dispatch"}
    Yielding = {}
    NamePriority <- MCPriority
    RankHeight <- MCOrder
    RankedAtFirst <- MCRankedAtFirst
    Name = {"a", "b"}
    NameAtFirst = "a"
    NameHandler = {"h1"}
    MaxNameEdits = 1
    MapGuild = {"main", "dept"}
    MapRole = {"A", "B", "C"}
    RoleGuild <- MCRoleGuild
    MapKey = {"ab", "bc", "ca"}
    SourceOf <- MCSourceOf
    TargetOf <- MCTargetOf
    Administrator = {"x", "y"}
    MayMap <- MCMayMap
    MayApprove = {"x", "y"}
    MappingsAtFirst <- MCMappingsAtFirst
    ProtectionAtFirst <- MCProtectionAtFirst
    MaxMappingOps = 2
    RequestsAtFirst <- MCRequestsAtFirst
    MaxUpsets = 1
    Account = {"a1", "a2"}
    User = {"u1", "u2"}
    LinkedAtFirst <- MCLinkedAtFirst
    TierRole = {"staff"}
    Tier = {"t"}
    RootAccount = {"a2"}
    Linker = {"o1", "o2"}
    MaxMemberEdits = 2
    MaxRoleMoves = 1
    MaxAccessCommands = 1
    Person = {"root", "manager", "member"}
    RootPerson = {"root"}
    StoredLevel <- MCStoredLevel
    ScopeGuild = {"dept"}
    Capability = {"permission.grant", "permission.revoke", "member.view"}
    MinLevel <- MCMinLevel
    GuildCapability = {"permission.grant", "permission.revoke", "member.view"}
    TierCapability = {"member.view"}
    Ceiling = {40}
    MaxPermissionOps = 3
CHECK_DEADLOCK FALSE
INVARIANTS TypeOK EnabledUntangled SensitiveSigned NothingBeyondDelegation
PROPERTIES AccountsInOrder  RostersSettle NamesSettle MappingsMended AccessSettles
