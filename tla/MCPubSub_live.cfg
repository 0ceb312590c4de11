SPECIFICATION FairSpec
CONSTANTS
    w1 = w1
    w2 = w2
    alice = alice
    bob = bob
    note = note
    reply = reply
    flash = flash
    Workers = {w1, w2}
    Clients = {alice, bob}
    HomeOf <- MCHome
    Publishers = {alice}
    Subscribers = {bob}
    Events = {note, reply, flash}
    Ephemeral = {flash}
    Deletable = {}
    SubIds = {s1, s2}
    Filters <- MCFilters
    NoFilter = NoFilter
    Match <- MCMatch
    Copies <- MCCopies
    CreatedAt <- MCCreatedAt
    Limits <- MCLimits
    DefaultLimit = 2
    MaxReqs = 2
    MaxEvents = 1
    MaxSubscriptions = 1
    Faults = FALSE
INVARIANTS TypeOK WithinLimit
PROPERTIES BroadcastReachesAll FetchesFinish
CHECK_DEADLOCK FALSE
