------------------------------ MODULE RecentFeed ------------------------------
(***************************************************************************)
(* What the public feed promises: the Cap most recently published keys,    *)
(* newest first and each once.  Readers see the feed as it was at the last *)
(* refresh, a restart goes back to the last one saved.                     *)
(***************************************************************************)
EXTENDS Naturals, Sequences, SequencesExt

CONSTANTS
    Keys,  \* what can be published
    Cap    \* how many keys the feed holds, at least 1

VARIABLES
    feed,   \* the published keys, newest first
    shown,  \* the feed readers see
    saved   \* the feed a restart begins with

vars == <<feed, shown, saved>>

Capped(seq) == SubSeq(seq, 1, IF Len(seq) < Cap THEN Len(seq) ELSE Cap)

Init == feed = <<>> /\ shown = <<>> /\ saved = <<>>

Publish(key) ==
    /\ feed' = Capped(<<key>> \o RemoveFirst(feed, key))
    /\ UNCHANGED <<shown, saved>>

Refresh == shown' = feed /\ UNCHANGED <<feed, saved>>

Save == saved' = shown /\ UNCHANGED <<feed, shown>>

Restart == feed' = saved /\ shown' = saved /\ UNCHANGED saved

Next == (\E key \in Keys : Publish(key)) \/ Refresh \/ Save \/ Restart

Spec == Init /\ [][Next]_vars
=============================================================================
