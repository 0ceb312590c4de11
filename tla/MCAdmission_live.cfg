SPECIFICATION Spec
CONSTANTS
    Versions = {"paid", "blocked"}
    First = "paid"
    Default = "default"
    Partial = {"noauth", "noinfo"}
    None = "none"
    MaxEdits = 3
    Conns = {c1}
    Msgs = {m1}
    Pubkeys = {"bob"}
    RelayKey = "relay"
    Events = {"note"}
    AuthEvents = {"auth"}
    Event <- MCEvent
    Setting <- MCSetting
    ChallengeLife = 1
    MaxTime = 1
    MaxChallenges = 2
    MaxBalance = 1
    MaxLoad = 3
PROPERTIES DeadPeersClosed SettingsSettleIfWatched
CHECK_DEADLOCK FALSE
