\* One account, three guilds, up to two mappings, any guild unreadable.
CONSTANTS
    gMain = gMain
    gDept = gDept
    gUnit = gUnit
    rMain = rMain
    rDept = rDept
    rUnit = rUnit
    Guild <- MCGuild
    Role <- MCRole
    GuildOf <- MCGuildOf
    GrantRole = {rDept}
    MaxPriority = 3
    Contexts <- MCContexts
SPECIFICATION RunsSpec
INVARIANTS
    RunsConverge
    SettlesMirrored
PROPERTIES
    RemovesOnlyComputable
    AddsAreJustified
    GrantsWin
    SettlesInOneRun
