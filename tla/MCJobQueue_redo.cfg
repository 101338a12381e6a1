SPECIFICATION Spec
CONSTANTS
    w1 = w1
    w2 = w2
    tick = tick
    admin = admin
    ann = ann
    bob = bob
    none = none
    None = none
    Workers <- TwoWorkers
    Calls <- OneCall
    Commands <- RedoCommands
    Profiles = {ann}
    Twitter = {ann}
    Keyed = {}
    Archived = {}
    MaxEnqueues = 2
    MaxCrashes = 0
INVARIANT
    FinishedJobNotRunning
CHECK_DEADLOCK FALSE
