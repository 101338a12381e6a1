----------------------------- MODULE MCJobQueue -----------------------------
(* Instances of JobQueue for TLC.                                          *)
EXTENDS JobQueueBoard, TLC

CONSTANTS w1, w2, tick, admin, ann, bob, none

TwoWorkers == {w1, w2}
TwoCalls   == {tick, admin}
OneCall    == {tick}

WorkerSymmetry == Permutations({w1, w2})
CallSymmetry == Permutations({w1, w2}) \cup Permutations({tick, admin})

QueueCommands == {"RefetchUserFeed", "PurgeJobs", "RedoFailedJob"}
RedoCommands  == {"RefetchUserFeed", "RedoFailedJob"}
FriendCommands == {"RefetchFriendFeed", "TestJob", "EnqueJob", "FixJobs", "FixTooMuchJobs"}
=============================================================================
