SPECIFICATION Spec
CONSTANTS
    w1 = w1
    w2 = w2
    tick = tick
    admin = admin
    ann = ann
    bob = bob
    none = none
    None = none
    Workers <- TwoWorkers
    Calls <- TwoCalls
    Commands <- QueueCommands
    Profiles = {ann}
    Twitter = {ann}
    Keyed = {}
    Archived = {}
    MaxEnqueues = 2
    MaxCrashes = 1
SYMMETRY CallSymmetry
INVARIANTS
    TypeOK
    SingleHandout
    OwnRecord
    CrashLosesOneJob
    InOrderPerEnqueuer
CHECK_DEADLOCK FALSE
