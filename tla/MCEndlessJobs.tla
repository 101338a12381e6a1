---------------------------- MODULE MCEndlessJobs ----------------------------
(* An instance of EndlessJobs for TLC.                                     *)
EXTENDS EndlessJobs

CONSTANTS w1, w2, tick, admin, ann

TwoWorkers == {w1, w2}
TwoCalls   == {tick, admin}

PurgeOrRefetch == {"RefetchUserFeed", "PurgeJobs"}
=============================================================================
