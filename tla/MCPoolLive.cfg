SPECIFICATION FairSpec
CONSTANTS
    Requests = {r1, r2}
    Updaters = {u1}
    Sizes <- MCSizes
    DefaultMaxConcurrency = 2
    None = None
PROPERTIES
    Answered
    StatsNeverReset
