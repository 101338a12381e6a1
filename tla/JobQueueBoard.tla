----------------------------- MODULE JobQueueBoard -----------------------------
(***************************************************************************)
(* The job queue keeps the promise of JobBoard, though a handout is three  *)
(* steps under a lock that the commands do not take, and the tables are    *)
(* scanned and written by everybody at once.                               *)
(***************************************************************************)
EXTENDS JobQueue

Entry(key, job) == [key |-> key, job |-> job]
RunningEntry(r) == Entry(running[r].from, running[r].job)

\* a handout takes effect at its scan: from then on its job does not wait
Given == {w \in Workers : InWindow(w)}
Waiting ==
    {Entry(k, queue[k]) : k \in DOMAIN queue \ {held[w].key : w \in Given}}
Out == {RunningEntry(r) : r \in DOMAIN running} \cup {held[w] : w \in Given}

\* a worker whose record a command deleted works for nothing
Holds == [w \in Workers |->
    IF w \in Given THEN held[w]
    ELSE IF pc[w] = "work" /\ held[w].key \in DOMAIN running THEN RunningEntry(held[w].key)
    ELSE None]

JB == INSTANCE JobBoard WITH
          waiting <- Waiting, out <- Out, holds <- Holds, giving <- mutex

\* Every step of the queue is a step of JobBoard or changes nothing it shows:
\* EnqueJob posts, GetFeedJob hands out the oldest, FinishJob finishes the
\* worker's own, the delete commands take off what no handout has begun, and a
\* crash loses at most the job of the handout it cuts.
KeepsBoard == JB!Spec
=============================================================================
