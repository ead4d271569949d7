\* Any guild may be unreadable.
CONSTANTS
    gMain = gMain
    gDept = gDept
    gUnit = gUnit
    rMain = rMain
    rDept = rDept
    rUnit = rUnit
    Guild <- MCGuild
    Role <- MCRole
    GuildOf <- MCGuildOf
    GrantRole = {rDept}
    MaxPriority = 3
    Contexts <- ChainContexts
SPECIFICATION RunsSpec
PROPERTY RemovesOnlyWhatWasRead
