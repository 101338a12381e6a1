----------------------------- MODULE EndlessJobs -----------------------------
(***************************************************************************)
(* JobQueue without an end: commands go on enqueuing jobs for ever.  The   *)
(* keys of a table only order its records, so the keys that nothing uses   *)
(* any more are closed up and the records renumbered, which gives finitely *)
(* many states and lets TLC look at endless arrivals.  MaxEnqueues bounds  *)
(* the keys in use at a time, not those ever drawn.                        *)
(***************************************************************************)
EXTENDS JobQueue

CONSTANT MaxAbandoned  \* bound on the running records nobody works on

VARIABLE watched  \* the key of one waiting job, or None: it could be any

Watching == <<vars, watched>>

\* the calls whose snapshot is of the waiting jobs, and of the running ones
QueueScans == {c \in Calls : op[c] \in DeleteCommands /\ stage[c] = "queue"}
QueueKeys ==
    DOMAIN queue \cup {draft[c].key : c \in {d \in Calls : draft[d] # None}}
                 \cup {held[w].key : w \in {v \in Workers : InWindow(v)}}
                 \cup UNION {DOMAIN copies[c] : c \in QueueScans}
RunningKeys ==
    DOMAIN running \cup {held[w].key : w \in {v \in Workers : pc[v] \in {"work", "record"}}}
                   \cup UNION {DOMAIN copies[c] : c \in Calls \ QueueScans}

Rank(keys, key) == Cardinality({k \in keys : k <= key})
Numbered(keys, table) ==
    [n \in {Rank(keys, k) : k \in DOMAIN table} |->
        table[CHOOSE k \in DOMAIN table : Rank(keys, k) = n]]

\* no step depends on where a job and its record came from: both are forgotten
SomeCall == CHOOSE c \in Calls : TRUE
SomeWorker == CHOOSE w \in Workers : TRUE
Nameless(job) == [job EXCEPT !.origin = 0, !.by = SomeCall]
NamelessRecord(record) == [job |-> record.job, from |-> 0, worker |-> SomeWorker]
Note(keys, note) ==
    IF note = None THEN None
    ELSE [key |-> Rank(keys, note.key), job |-> Nameless(note.job)]

Renewed ==
    /\ QueueKeys = 1 .. queueId /\ RunningKeys = 1 .. runningId
    /\ \A c \in Calls : draft[c] # None => draft[c].job = Nameless(draft[c].job)
    /\ \A r \in DOMAIN running : running[r] = NamelessRecord(running[r])
    /\ accepted \cup finished \cup purged = {}

Renew ==
    /\ ~Renewed
    /\ queueId' = Cardinality(QueueKeys) /\ runningId' = Cardinality(RunningKeys)
    /\ queue' = Numbered(QueueKeys, queue)
    /\ running' = LET table == Numbered(RunningKeys, running)
                  IN  [r \in DOMAIN table |-> NamelessRecord(table[r])]
    /\ copies' = [c \in Calls |->
                     Numbered(IF c \in QueueScans THEN QueueKeys ELSE RunningKeys, copies[c])]
    /\ draft' = [c \in Calls |-> Note(QueueKeys, draft[c])]
    /\ held' = [w \in Workers |->
                   Note(IF InWindow(w) THEN QueueKeys ELSE RunningKeys, held[w])]
    /\ watched' = IF watched = None THEN None ELSE Rank(QueueKeys, watched)
    /\ accepted' = {} /\ finished' = {} /\ purged' = {}
    /\ UNCHANGED <<history, mutex, pc, op, stage, visits, crashes>>

\* a job is watched from its Put until it is off the table
Watch ==
    \/ watched \in DOMAIN queue' /\ watched' = watched
    \/ watched \notin DOMAIN queue' /\ watched' = None
    \/ watched = None /\ watched' \in DOMAIN queue' \ DOMAIN queue

Abandoned ==
    {r \in DOMAIN running :
        \A w \in Workers : pc[w] \in {"work", "record"} => held[w].key # r}

Step == Renewed /\ Next /\ Watch /\ Cardinality(Abandoned') <= MaxAbandoned

EndlessInit == Init /\ watched = None
EndlessSpec == EndlessInit /\ [][Step \/ Renew]_Watching /\ Fairness

\* Every waiting job is handed out or deleted, though new jobs arrive for ever:
\* dequeJob takes the smallest key, and keys grow (server/job.go:161-185).
WaitingJobIsTaken == watched # None ~> watched = None

\* A command of the server returns, though jobs come and go under its scan for
\* ever: it walks a snapshot (server/job.go:278-340).
CommandReturns == \A c \in Calls : op[c] # None ~> op[c] = None
=============================================================================
