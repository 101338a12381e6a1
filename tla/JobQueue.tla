------------------------------ MODULE JobQueue ------------------------------
(***************************************************************************)
(* The feed job queue of server/job.go and the workers of client/main.go.  *)
(*                                                                         *)
(* Jobs live in three tables of the metadata store: waiting jobs           *)
(* (TableJobFeed, here queue), jobs handed to a worker (TableJobRunning,   *)
(* here running) and the last archived job of each target                  *)
(* (TableJobHistory, here history).  Every RPC runs in a goroutine of its  *)
(* own and every access to the store is a step of its own: the only lock   *)
(* is the one GetFeedJob takes.  NextId is one generator, but the keys of  *)
(* the two tables carry different prefixes and are never compared with     *)
(* each other, so each table counts its own keys here.                     *)
(***************************************************************************)
EXTENDS Naturals, FiniteSets

CONSTANTS
    Workers,      \* the feed agents that call GetFeedJob and FinishJob
    Calls,        \* the goroutines of the server that run the other operations
    Commands,     \* the operations they run, a subset of AllCommands
    Profiles,     \* the profiles of TableProfile
    Twitter,      \* those with a twitter service that has its OAuth record
    Keyed,        \* those whose own RemoteKey is set
    Archived,     \* those whose history already holds a job with a RemoteKey
    None,         \* no job, no lock holder, no operation
    MaxEnqueues,  \* bound: with so many keys drawn nothing that enqueues starts
    MaxCrashes    \* bound on the crashes of the server

DeleteCommands == {"PurgeJobs", "FixJobs", "FixTooMuchJobs"}
VisitCommands  == {"RefetchUserFeed", "RefetchFriendFeed", "TestJob"}
AllCommands    == DeleteCommands \cup VisitCommands \cup {"RedoFailedJob", "EnqueJob"}

ASSUME ConstantsAssumption ==
    /\ Commands \subseteq AllCommands
    /\ Twitter \subseteq Profiles
    /\ Keyed \subseteq Profiles
    /\ Archived \subseteq Profiles
    /\ MaxEnqueues \in Nat
    /\ MaxCrashes \in Nat
    /\ None \notin Workers
    /\ None \notin Profiles
    /\ None \notin AllCommands

VARIABLES
    queue,      \* key -> job: the waiting jobs
    running,    \* key -> [job, from, worker]: from is the queue key it had
    history,    \* target -> the kind of the job that finished last, or None
    queueId,    \* the last id drawn for a key of queue
    runningId,  \* the last id drawn for a key of running
    mutex,      \* the worker whose GetFeedJob holds the ApiServer lock, or None
    pc,         \* worker -> where its loop is
    held,       \* worker -> the key and the job its current step is about
    op,         \* call -> the operation it runs, or None
    stage,      \* call -> the table a delete command is scanning
    copies,     \* call -> key -> job: what is left of the snapshot it scans
    visits,     \* call -> the profiles its scan has left
    draft,      \* call -> the key and the job of an EnqueJob before its Put
    crashes,    \* the number of crashes so far
    accepted, finished, purged  \* ghosts: jobs enqueued, archived, deleted by a command

server == <<queue, running, history>>
worker == <<mutex, pc, held>>
call   == <<op, stage, copies, visits, draft>>
ids    == <<queueId, runningId>>
ghosts == <<accepted, finished, purged>>
vars   == <<server, worker, call, ids, crashes, ghosts>>

-----------------------------------------------------------------------------
(* Jobs.  The fields of a FeedJob that decide what happens to it depend on *)
(* who made it: a user job has a Service and no RemoteKey and no TargetId, *)
(* a friend job has a RemoteKey and MaxLimit 99, an import job has a       *)
(* RemoteKey; the last two have no Service.  Two fields are ours: origin   *)
(* names the job through all its records, by is who enqueued this record.  *)

Kinds == {"user", "friend", "import"}
NoTarget == None
Targets == Profiles \cup {NoTarget}
Job == {job \in [kind : Kinds, target : Targets, origin : Nat, by : Calls] :
            job.kind = "user" <=> job.target = NoTarget}

HasRemoteKey(kind) == kind \in {"friend", "import"}
HasService(job) == job.kind = "user"

NewJob(kind, target, c) ==
    [kind |-> kind, target |-> target, origin |-> queueId + 1, by |-> c]
UserJob(c)      == NewJob("user", NoTarget, c)
FriendJob(p, c) == NewJob("friend", p, c)
ImportJob(p, c) == NewJob("import", p, c)

EnqueuedBy(job, c) ==
    [kind |-> job.kind, target |-> job.target, origin |-> job.origin, by |-> c]

\* which records a delete command removes
Selects(command, job) ==
    \/ command = "PurgeJobs"
    \/ command = "FixJobs" /\ ~HasRemoteKey(job.kind)
    \/ command = "FixTooMuchJobs" /\ job.kind = "friend"

(* The store: a table is a function on the keys it holds.                  *)
Empty == [k \in {} |-> None]
Put(table, key, value) ==
    [k \in DOMAIN table \cup {key} |-> IF k = key THEN value ELSE table[k]]
Delete(table, key) == [k \in DOMAIN table \ {key} |-> table[k]]
Selected(command, jobs) ==
    [k \in {j \in DOMAIN jobs : Selects(command, jobs[j])} |-> jobs[k]]
RunningJobs == [k \in DOMAIN running |-> running[k].job]
\* mutant of First: the scan starts at the largest key
LastFirst(table) == CHOOSE k \in DOMAIN table : \A j \in DOMAIN table : k >= j
First(table) == CHOOSE k \in DOMAIN table : \A j \in DOMAIN table : k <= j

-----------------------------------------------------------------------------
Init ==
    /\ queue = Empty
    /\ running = Empty
    /\ history = [t \in Targets |-> IF t \in Archived THEN "import" ELSE None]
    /\ queueId = 0
    /\ runningId = 0
    /\ mutex = None
    /\ pc = [w \in Workers |-> "idle"]
    /\ held = [w \in Workers |-> None]
    /\ op = [c \in Calls |-> None]
    /\ stage = [c \in Calls |-> "queue"]
    /\ copies = [c \in Calls |-> Empty]
    /\ visits = [c \in Calls |-> {}]
    /\ draft = [c \in Calls |-> None]
    /\ crashes = 0
    /\ accepted = {}
    /\ finished = {}
    /\ purged = {}

-----------------------------------------------------------------------------
(* EnqueJob: the key is drawn in one step, the record is put in another,   *)
(* and other goroutines run in between.                                    *)

\* mutant of DrawKey: the generator repeats its id
DrawSameKey(c, job) ==
    /\ queueId' = queueId
    /\ draft' = [draft EXCEPT ![c] = [key |-> queueId + 1, job |-> job]]
DrawKey(c, job) ==
    /\ queueId' = queueId + 1
    /\ draft' = [draft EXCEPT ![c] = [key |-> queueId + 1, job |-> job]]

PutJob(c) ==
    /\ draft[c] # None
    /\ queue' = Put(queue, draft[c].key, draft[c].job)
    /\ accepted' = accepted \cup {draft[c].job.origin}
    /\ draft' = [draft EXCEPT ![c] = None]
    /\ UNCHANGED <<running, history, worker, op, stage, copies, visits, ids,
                   crashes, finished, purged>>

(* The operations that enqueue or delete jobs, run by an RPC goroutine or  *)
(* by the refetch ticker.                                                  *)

StartImport(c) ==
    /\ op[c] = None
    /\ queueId < MaxEnqueues
    /\ "EnqueJob" \in Commands
    /\ op' = [op EXCEPT ![c] = "EnqueJob"]
    /\ \E p \in Profiles : DrawKey(c, ImportJob(p, c))
    /\ UNCHANGED <<server, worker, stage, copies, visits, runningId, crashes, ghosts>>

\* TestJob panics when it finds no profile or no feed info, of which it ignores
\* the errors (server/job.go:392-396): ServerCrash stands for that
StartVisit(c) ==
    /\ op[c] = None
    /\ queueId < MaxEnqueues
    /\ \E command \in VisitCommands \cap Commands :
        /\ op' = [op EXCEPT ![c] = command]
        /\ \/ /\ command = "RefetchUserFeed"
              /\ visits' = [visits EXCEPT ![c] = Twitter]
           \/ /\ command = "RefetchFriendFeed"
              /\ visits' = [visits EXCEPT ![c] = Profiles \ Keyed]
           \/ /\ command = "TestJob"
              /\ \E p \in Twitter : visits' = [visits EXCEPT ![c] = {p}]
    /\ UNCHANGED <<server, worker, stage, copies, draft, ids, crashes, ghosts>>

VisitUser(c, p) ==
    /\ op[c] \in {"RefetchUserFeed", "TestJob"}
    /\ draft[c] = None
    /\ p \in visits[c]
    /\ visits' = [visits EXCEPT ![c] = @ \ {p}]
    /\ DrawKey(c, UserJob(c))
    /\ UNCHANGED <<server, worker, op, stage, copies, runningId, crashes, ghosts>>

VisitFriend(c, p) ==
    /\ op[c] = "RefetchFriendFeed"
    /\ draft[c] = None
    /\ p \in visits[c]
    /\ visits' = [visits EXCEPT ![c] = @ \ {p}]
    /\ \/ /\ HasRemoteKey(history[p])
          /\ DrawKey(c, FriendJob(p, c))
       \/ /\ ~HasRemoteKey(history[p])
          /\ UNCHANGED <<draft, queueId>>
    /\ UNCHANGED <<server, worker, op, stage, copies, runningId, crashes, ghosts>>

\* the iterator of a scan reads a snapshot of the table taken at its start
StartDelete(c) ==
    /\ op[c] = None
    /\ \E command \in DeleteCommands \cap Commands :
        /\ op' = [op EXCEPT ![c] = command]
        /\ copies' = [copies EXCEPT ![c] = Selected(command, queue)]
    /\ stage' = [stage EXCEPT ![c] = "queue"]
    /\ UNCHANGED <<server, worker, visits, draft, ids, crashes, ghosts>>

\* the scan of the running table starts when that of the queue has ended
ScanRunning(c) ==
    /\ op[c] \in DeleteCommands
    /\ stage[c] = "queue"
    /\ DOMAIN copies[c] = {}
    /\ stage' = [stage EXCEPT ![c] = "running"]
    /\ copies' = [copies EXCEPT ![c] = Selected(op[c], RunningJobs)]
    /\ UNCHANGED <<server, worker, op, visits, draft, ids, crashes, ghosts>>

\* mutant of DeleteNext: it waits for the record to be there
DeleteNextIfPresent(c) ==
    /\ op[c] \in DeleteCommands
    /\ DOMAIN copies[c] # {}
    /\ LET key == First(copies[c])
           table == IF stage[c] = "queue" THEN queue ELSE running
       IN  /\ key \in DOMAIN table
           /\ copies' = [copies EXCEPT ![c] = Delete(@, key)]
           /\ purged' = purged \cup {copies[c][key].origin}
           /\ IF stage[c] = "queue"
              THEN queue' = Delete(queue, key) /\ UNCHANGED running
              ELSE running' = Delete(running, key) /\ UNCHANGED queue
    /\ UNCHANGED <<history, worker, op, stage, visits, draft, ids, crashes,
                   accepted, finished>>
DeleteNext(c) ==
    /\ op[c] \in DeleteCommands
    /\ DOMAIN copies[c] # {}
    /\ LET key == First(copies[c])
           table == IF stage[c] = "queue" THEN queue ELSE running
       IN  /\ copies' = [copies EXCEPT ![c] = Delete(@, key)]
           /\ purged' = IF key \in DOMAIN table
                        THEN purged \cup {copies[c][key].origin} ELSE purged
           /\ \/ /\ stage[c] = "queue"
                 /\ queue' = Delete(queue, key)
                 /\ UNCHANGED running
              \/ /\ stage[c] = "running"
                 /\ running' = Delete(running, key)
                 /\ UNCHANGED queue
    /\ UNCHANGED <<history, worker, op, stage, visits, draft, ids, crashes,
                   accepted, finished>>

\* RedoFailedJob enqueues a copy of every running record and deletes none:
\* EnqueJob returns no error, and the Delete is in the branch of an error
StartRedo(c) ==
    /\ op[c] = None
    /\ queueId < MaxEnqueues
    /\ "RedoFailedJob" \in Commands
    /\ op' = [op EXCEPT ![c] = "RedoFailedJob"]
    /\ copies' = [copies EXCEPT ![c] = RunningJobs]
    /\ UNCHANGED <<server, worker, stage, visits, draft, ids, crashes, ghosts>>

RedoNext(c) ==
    /\ op[c] = "RedoFailedJob"
    /\ draft[c] = None
    /\ DOMAIN copies[c] # {}
    /\ LET key == First(copies[c])
       IN  /\ copies' = [copies EXCEPT ![c] = Delete(@, key)]
           /\ DrawKey(c, EnqueuedBy(copies[c][key], c))
    /\ UNCHANGED <<server, worker, op, stage, visits, runningId, crashes, ghosts>>

Return(c) ==
    /\ op[c] # None
    /\ draft[c] = None
    /\ DOMAIN copies[c] = {}
    /\ visits[c] = {}
    /\ op[c] \in DeleteCommands => stage[c] = "running"
    /\ op' = [op EXCEPT ![c] = None]
    /\ stage' = [stage EXCEPT ![c] = "queue"]
    /\ UNCHANGED <<server, worker, copies, visits, draft, ids, crashes, ghosts>>

-----------------------------------------------------------------------------
(* GetFeedJob, under the lock: find the oldest waiting job, delete it, put *)
(* it in the running table under a new key.  With no waiting job it        *)
(* returns an error and the worker asks again later.                       *)

\* mutant of DequeScan: no lock
DequeScanUnlocked(w) ==
    /\ pc[w] = "idle"
    /\ DOMAIN queue # {}
    /\ mutex' = w
    /\ held' = [held EXCEPT ![w] = [key |-> First(queue), job |-> queue[First(queue)]]]
    /\ pc' = [pc EXCEPT ![w] = "delete"]
    /\ UNCHANGED <<server, call, ids, crashes, ghosts>>
DequeScan(w) ==
    /\ pc[w] = "idle"
    /\ mutex = None
    /\ DOMAIN queue # {}
    /\ mutex' = w
    /\ held' = [held EXCEPT ![w] = [key |-> First(queue), job |-> queue[First(queue)]]]
    /\ pc' = [pc EXCEPT ![w] = "delete"]
    /\ UNCHANGED <<server, call, ids, crashes, ghosts>>

DequeDelete(w) ==
    /\ pc[w] = "delete"
    /\ queue' = Delete(queue, held[w].key)
    /\ pc' = [pc EXCEPT ![w] = "claim"]
    /\ UNCHANGED <<running, history, mutex, held, call, ids, crashes, ghosts>>

\* mutants of ClaimJob: the key repeats; the job keeps its queue key
ClaimWith(w, drawn, key) ==
    /\ pc[w] = "claim"
    /\ runningId' = drawn
    /\ running' = Put(running, runningId + 1,
                      [job |-> held[w].job, from |-> held[w].key, worker |-> w])
    /\ held' = [held EXCEPT ![w].key = key]
    /\ mutex' = None
    /\ pc' = [pc EXCEPT ![w] = "work"]
    /\ UNCHANGED <<queue, history, call, queueId, crashes, ghosts>>
ClaimSameKey(w)  == ClaimWith(w, runningId, runningId + 1)
ClaimQueueKey(w) == ClaimWith(w, runningId + 1, held[w].key)
ClaimJob(w) ==
    /\ pc[w] = "claim"
    /\ runningId' = runningId + 1
    /\ running' = Put(running, runningId + 1,
                      [job |-> held[w].job, from |-> held[w].key, worker |-> w])
    /\ held' = [held EXCEPT ![w] = [key |-> runningId + 1, job |-> held[w].job]]
    /\ mutex' = None
    /\ pc' = [pc EXCEPT ![w] = "work"]
    /\ UNCHANGED <<queue, history, call, queueId, crashes, ghosts>>

(* The worker streams the entries of the job to ArchiveFeed.  If that ends *)
(* well it calls FinishJob; on an error it drops the job, whose record     *)
(* stays in the running table; a job without a Service is a nil            *)
(* dereference that ends the process, which nothing respawns, and so is a  *)
(* stream it cannot open because the server is down (see ServerCrash).     *)

WorkerFail(w) ==
    /\ pc[w] = "work"
    /\ HasService(held[w].job)
    /\ pc' = [pc EXCEPT ![w] = "idle"]
    /\ held' = [held EXCEPT ![w] = None]
    /\ UNCHANGED <<server, mutex, call, ids, crashes, ghosts>>

WorkerPanic(w) ==
    /\ pc[w] = "work"
    /\ ~HasService(held[w].job)
    /\ pc' = [pc EXCEPT ![w] = "dead"]
    /\ held' = [held EXCEPT ![w] = None]
    /\ UNCHANGED <<server, mutex, call, ids, crashes, ghosts>>

\* an operator starts the worker again
WorkerRestart(w) ==
    /\ pc[w] = "dead"
    /\ pc' = [pc EXCEPT ![w] = "idle"]
    /\ UNCHANGED <<server, mutex, held, call, ids, crashes, ghosts>>

(* FinishJob: delete the running record, then record the job in history.   *)

\* mutant of FinishDelete: the running record is kept
FinishKeepRecord(w) ==
    /\ pc[w] = "work"
    /\ HasService(held[w].job)
    /\ finished' = finished \cup {held[w].job.origin}
    /\ pc' = [pc EXCEPT ![w] = "record"]
    /\ UNCHANGED <<server, mutex, held, call, ids, crashes, accepted, purged>>
FinishDelete(w) ==
    /\ pc[w] = "work"
    /\ HasService(held[w].job)
    /\ running' = Delete(running, held[w].key)
    /\ finished' = finished \cup {held[w].job.origin}
    /\ pc' = [pc EXCEPT ![w] = "record"]
    /\ UNCHANGED <<queue, history, mutex, held, call, ids, crashes, accepted, purged>>

FinishRecord(w) ==
    /\ pc[w] = "record"
    /\ history' = [history EXCEPT ![held[w].job.target] = held[w].job.kind]
    /\ pc' = [pc EXCEPT ![w] = "idle"]
    /\ held' = [held EXCEPT ![w] = None]
    /\ UNCHANGED <<queue, running, mutex, call, ids, crashes, ghosts>>

(* The server crashes and is respawned: the tables survive, every          *)
(* goroutine and the lock are gone, a worker whose call was in progress    *)
(* gets an error, and one that was about to open its stream may get none:  *)
(* it defers a call on that stream before it looks at the error.           *)

InCall(w) == pc[w] \in {"delete", "claim", "record"}

ServerCrash ==
    /\ crashes < MaxCrashes
    /\ crashes' = crashes + 1
    /\ mutex' = None
    /\ \E stranded \in SUBSET {w \in Workers : pc[w] = "work"} :
        /\ pc' = [w \in Workers |-> IF w \in stranded THEN "dead"
                                    ELSE IF InCall(w) THEN "idle" ELSE pc[w]]
        /\ held' = [w \in Workers |-> IF w \in stranded \/ InCall(w)
                                      THEN None ELSE held[w]]
    /\ op' = [c \in Calls |-> None]
    /\ stage' = [c \in Calls |-> "queue"]
    /\ copies' = [c \in Calls |-> Empty]
    /\ visits' = [c \in Calls |-> {}]
    /\ draft' = [c \in Calls |-> None]
    /\ UNCHANGED <<server, ids, ghosts>>

-----------------------------------------------------------------------------
CallStep(c) ==
    \/ PutJob(c) \/ ScanRunning(c) \/ DeleteNext(c) \/ RedoNext(c) \/ Return(c)
    \/ \E p \in Profiles : VisitUser(c, p) \/ VisitFriend(c, p)

CallStart(c) == StartImport(c) \/ StartVisit(c) \/ StartDelete(c) \/ StartRedo(c)

RpcStep(w) == DequeDelete(w) \/ ClaimJob(w) \/ FinishRecord(w)

WorkStep(w) == WorkerFail(w) \/ WorkerPanic(w) \/ FinishDelete(w)

Next ==
    \/ \E c \in Calls : CallStart(c) \/ CallStep(c)
    \/ \E w \in Workers : DequeScan(w) \/ RpcStep(w) \/ WorkStep(w) \/ WorkerRestart(w)
    \/ ServerCrash

Spec == Init /\ [][Next]_vars

(* A goroutine of the server runs on, a worker's fetch ends one way or the *)
(* other, and a worker that is not dead keeps asking for jobs.  Nothing    *)
(* starts a command or a dead worker again.                                *)
Fairness ==
    /\ \A c \in Calls : WF_vars(CallStep(c))
    /\ \A w \in Workers : /\ WF_vars(DequeScan(w))
                          /\ WF_vars(RpcStep(w))
                          /\ WF_vars(WorkStep(w))

-----------------------------------------------------------------------------
(* Properties.                                                             *)

RunningRecord == [job : Job, from : Nat, worker : Workers]
Held == [key : Nat, job : Job]

TablesTypeOK ==
    /\ DOMAIN queue \subseteq 1 .. queueId
    /\ \A k \in DOMAIN queue : queue[k] \in Job
    /\ DOMAIN running \subseteq 1 .. runningId
    /\ \A k \in DOMAIN running : running[k] \in RunningRecord
    /\ queueId \in Nat
    /\ runningId \in Nat
    /\ history \in [Targets -> Kinds \cup {None}]

WorkersTypeOK ==
    /\ mutex \in Workers \cup {None}
    /\ pc \in [Workers -> {"idle", "delete", "claim", "work", "record", "dead"}]
    /\ held \in [Workers -> Held \cup {None}]
    /\ \A w \in Workers : pc[w] \notin {"idle", "dead"} => held[w] \in Held

DraftsTypeOK ==
    /\ draft \in [Calls -> Held \cup {None}]
    /\ \A c \in Calls : draft[c] # None => draft[c] \in Held

CallsTypeOK ==
    /\ op \in [Calls -> AllCommands \cup {None}]
    /\ stage \in [Calls -> {"queue", "running"}]
    /\ copies = [c \in Calls |-> copies[c]]
    /\ \A c \in Calls : /\ DOMAIN copies[c] \subseteq Nat
                        /\ \A k \in DOMAIN copies[c] : copies[c][k] \in Job
    /\ visits \in [Calls -> SUBSET Profiles]
    /\ \A c \in Calls : op[c] = None => draft[c] = None

CountersTypeOK ==
    /\ crashes \in 0 .. MaxCrashes
    /\ accepted \subseteq Nat /\ finished \subseteq Nat /\ purged \subseteq Nat

\* Every variable stays in its range; a key is never larger than the last id
\* drawn for its table.
TypeOK == TablesTypeOK /\ WorkersTypeOK /\ DraftsTypeOK /\ CallsTypeOK /\ CountersTypeOK

InWindow(w) == pc[w] \in {"delete", "claim"}

\* A waiting record is handed out at most once (server/job.go:139-185): two
\* running records never come from the same queue key, and a record that runs
\* is not waiting and is not about to be handed out again by another call.
SingleHandout ==
    /\ \A r1, r2 \in DOMAIN running :
          running[r1].from = running[r2].from => r1 = r2
    /\ \A r \in DOMAIN running :
          /\ running[r].from \notin DOMAIN queue
          /\ \A w \in Workers :
                InWindow(w) => held[w].key # running[r].from

\* The record a worker will delete when it finishes is its own: no two workers
\* hold the same running key, and the record under that key, unless a command
\* deleted it, is the one this worker was handed (client/main.go:167-181).
OwnRecord ==
    \A w \in Workers : pc[w] = "work" =>
        /\ \A v \in Workers \ {w} : pc[v] = "work" => held[v].key # held[w].key
        /\ held[w].key \in DOMAIN running =>
              /\ running[held[w].key].worker = w
              /\ running[held[w].key].job = held[w].job

\* A job is nowhere: it was accepted by EnqueJob, did not finish, was not deleted
\* by a command, and no table and no call of GetFeedJob has it.
Lost ==
    {j \in accepted \ (finished \cup purged) :
        /\ \A k \in DOMAIN queue : queue[k].origin # j
        /\ \A k \in DOMAIN running : running[k].job.origin # j
        /\ \A w \in Workers : pc[w] = "claim" => held[w].job.origin # j}

\* Only a crash between the two writes of GetFeedJob loses a job, and because
\* the lock admits one such call at a time a crash loses one job at most.
CrashLosesOneJob == Cardinality(Lost) <= crashes

\* Jobs of one enqueuer are handed out in the order it enqueued them: while a
\* record runs or is being handed out, nothing the same goroutine put before it
\* still waits (the scan of dequeJob takes the smallest key, and a goroutine
\* draws its next key after its last Put).
InOrderPerEnqueuer ==
    \A k \in DOMAIN queue :
        /\ \A r \in DOMAIN running :
              queue[k].by = running[r].job.by => running[r].from < k
        /\ \A w \in Workers :
              InWindow(w) /\ queue[k].by = held[w].job.by
                 => held[w].key <= k

\* The lock is held exactly by the call of GetFeedJob that is between its scan
\* and its Put.
LockOK == \A w \in Workers : InWindow(w) => mutex = w

\* Every key in use was drawn, and drawn once: the queue key of a running
\* record, the record a call of GetFeedJob is handing out, the key of a draft and
\* those of the waiting records differ.
RunningKeysOK == \A r \in DOMAIN running : running[r].from <= queueId

WindowKeysOK ==
    \A w \in Workers :
        /\ InWindow(w) => held[w].key <= queueId
        /\ pc[w] = "claim" => held[w].key \notin DOMAIN queue
        /\ pc[w] = "delete" /\ held[w].key \in DOMAIN queue
              => queue[held[w].key] = held[w].job
        /\ pc[w] = "work" => held[w].key <= runningId

DraftKeysOK ==
    \A c \in Calls : draft[c] # None =>
        /\ draft[c].key \in 1 .. queueId
        /\ draft[c].key \notin DOMAIN queue
        /\ \A d \in Calls \ {c} : draft[d] # None => draft[d].key # draft[c].key
        /\ \A r \in DOMAIN running : running[r].from # draft[c].key
        /\ \A w \in Workers : InWindow(w) => held[w].key # draft[c].key

\* What is left of a delete command's snapshot agrees with the table it scans,
\* as far as the records are still there, and holds no key of a draft.
CopiesOK ==
    \A c \in Calls : op[c] \in DeleteCommands =>
        \A k \in DOMAIN copies[c] :
            /\ stage[c] = "queue" =>
                /\ k <= queueId
                /\ k \in DOMAIN queue => queue[k] = copies[c][k]
                /\ \A d \in Calls : draft[d] # None => draft[d].key # k
            /\ stage[c] = "running" =>
                /\ k <= runningId
                /\ k \in DOMAIN running => running[k].job = copies[c][k]

\* A draft is newer than everything its goroutine enqueued before.
DraftsOK ==
    \A c \in Calls : draft[c] # None =>
        /\ draft[c].job.by = c
        /\ \A k \in DOMAIN queue : queue[k].by = c => k < draft[c].key
        /\ \A r \in DOMAIN running :
              running[r].job.by = c => running[r].from < draft[c].key
        /\ \A w \in Workers :
              InWindow(w) /\ held[w].job.by = c => held[w].key < draft[c].key

\* The inductive invariant behind the safety properties.
IInv ==
    /\ TypeOK
    /\ LockOK
    /\ RunningKeysOK
    /\ WindowKeysOK
    /\ DraftKeysOK
    /\ CopiesOK
    /\ DraftsOK
    /\ SingleHandout
    /\ OwnRecord
    /\ InOrderPerEnqueuer

\* A job that was archived has left the running table, unless a worker is
\* working on it at this moment (server/server_test.go:252-255).
FinishedJobNotRunning ==
    \A r \in DOMAIN running : running[r].job.origin \in finished =>
        \E w \in Workers : pc[w] = "work" /\ held[w].key = r
=============================================================================
