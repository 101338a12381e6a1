SPECIFICATION Spec
CONSTANTS
    w1 = w1
    w2 = w2
    tick = tick
    admin = admin
    ann = ann
    bob = bob
    none = none
    None = none
    Workers <- TwoWorkers
    Calls <- OneCall
    Commands <- FriendCommands
    Profiles = {ann, bob}
    Twitter = {ann}
    Keyed = {bob}
    Archived = {ann}
    MaxEnqueues = 3
    MaxCrashes = 1
SYMMETRY WorkerSymmetry
INVARIANTS
    FinishedJobNotRunning
PROPERTY
    KeepsBoard
CHECK_DEADLOCK FALSE
