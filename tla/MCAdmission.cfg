SPECIFICATION Spec
CONSTANTS
    Versions = {"paid", "blocked"}
    First = "paid"
    Default = "default"
    Partial = {"noauth", "noinfo"}
    None = "none"
    MaxEdits = 1
    Conns = {c1, c2}
    Msgs = {m1, m2}
    Pubkeys = {"bob"}
    RelayKey = "relay"
    Events = {"note"}
    AuthEvents = {"auth"}
    Event <- MCEvent
    Setting <- MCSetting
    ChallengeLife = 1
    MaxTime = 1
    MaxChallenges = 2
    MaxBalance = 1
    MaxLoad = 3
SYMMETRY MCSymmetry
VIEW MCView
INVARIANTS TypeOK AcceptedUnderOneVersion AcceptedIsAuthenticated ChallengeUsedOnce
PROPERTIES TalkersStay SilenceIsExplained
CHECK_DEADLOCK FALSE
