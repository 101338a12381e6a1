SPECIFICATION EndlessSpec
CONSTANTS
    w1 = w1
    w2 = w2
    tick = tick
    admin = admin
    ann = ann
    None = None
    Workers <- TwoWorkers
    Calls <- TwoCalls
    Commands <- PurgeOrRefetch
    Profiles = {ann}
    Twitter = {ann}
    Keyed = {}
    Archived = {}
    MaxEnqueues = 2
    MaxCrashes = 0
    MaxAbandoned = 0
PROPERTIES
    WaitingJobIsTaken
    CommandReturns
CHECK_DEADLOCK FALSE
