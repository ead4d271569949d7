\* Three executions on one key; a critical section may outlast the expiry.
CONSTANTS
    sync1 = sync1
    sync2 = sync2
    roster = roster
    discordKey = discordKey
    Client <- MCClient
    LockKey = {discordKey}
    KeyOf <- MCKeyOf
    Nobody = Nobody
    TTL = 2
    MaxWork = 3
    MaxWait = 1
SPECIFICATION FairSpec
INVARIANTS
    OnlyOverrunsOverlap
PROPERTIES
    FreedOnlyByOwnerOrExpiry
    ImplementsExclusion
    PollingEnds
    LocksAreFreed
