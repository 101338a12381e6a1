--------------------------- MODULE JobQueueProofs ---------------------------
(***************************************************************************)
(* The safety properties of JobQueue for any number of workers, server     *)
(* goroutines, profiles, jobs and crashes, and the refinement of JobBoard. *)
(* IInv is inductive: one lemma per action, under it one step per conjunct *)
(* the action can disturb.                                                 *)
(***************************************************************************)
EXTENDS JobQueueBoard, FiniteSetTheorems, WellFoundedInduction, TLAPS

USE DEF server, worker, call, ids, ghosts

-----------------------------------------------------------------------------
(* The smallest key of a table.                                            *)

LEMMA SmallestNat ==
    ASSUME NEW S \in SUBSET Nat, S # {}
    PROVE  \E k \in S : \A j \in S : k <= j
<1>1. PICK k \in S : \A j \in S : <<j, k>> \notin OpToRel(<, Nat)
  BY NatLessThanWellFounded, WFMin
<1>2. \A j \in S : ~(j < k)
  BY <1>1 DEF OpToRel
<1> QED BY <1>2

LEMMA FirstProperties ==
    ASSUME NEW table, DOMAIN table \subseteq Nat, DOMAIN table # {}
    PROVE  /\ First(table) \in DOMAIN table
           /\ \A j \in DOMAIN table : First(table) <= j
<1>1. \E k \in DOMAIN table : \A j \in DOMAIN table : k <= j
  BY SmallestNat
<1> QED BY <1>1 DEF First

-----------------------------------------------------------------------------
(* Frames: what a step preserves because it leaves the variables alone.    *)

LEMMA TablesFrame ==
    ASSUME IInv, UNCHANGED <<queue, running, queueId, runningId, mutex, pc, held, draft>>
    PROVE  /\ LockOK' /\ RunningKeysOK' /\ WindowKeysOK' /\ DraftKeysOK' /\ DraftsOK'
           /\ SingleHandout' /\ OwnRecord' /\ InOrderPerEnqueuer'
BY DEF IInv, LockOK, RunningKeysOK, WindowKeysOK, DraftKeysOK, DraftsOK, SingleHandout,
       OwnRecord, InOrderPerEnqueuer, InWindow

LEMMA CopiesFrame ==
    ASSUME IInv, UNCHANGED <<queue, running, queueId, runningId, op, stage, copies, draft>>
    PROVE  CopiesOK'
BY DEF IInv, CopiesOK

\* A call that runs no delete command afterwards, or the same one over the same
\* snapshot, keeps CopiesOK as long as the tables stay.
LEMMA CopiesOfOthers ==
    ASSUME IInv, UNCHANGED <<queue, running, queueId, runningId, draft>>,
           \A d \in Calls : op'[d] \in DeleteCommands =>
               op[d] = op'[d] /\ copies'[d] = copies[d] /\ stage'[d] = stage[d]
    PROVE  CopiesOK'
BY DEF IInv, CopiesOK

\* A worker that lets go of its job disturbs nothing.
LEMMA LetGo ==
    ASSUME IInv, NEW w \in Workers, NEW where \in {"idle", "dead"},
           pc[w] \in {"work", "record", "dead"},
           pc' = [pc EXCEPT ![w] = where],
           held' = [held EXCEPT ![w] = None] \/ held' = held,
           UNCHANGED <<queue, running, mutex, call, ids>>
    PROVE  /\ WorkersTypeOK' /\ LockOK' /\ RunningKeysOK' /\ WindowKeysOK' /\ DraftKeysOK'
           /\ DraftsOK' /\ CopiesOK' /\ SingleHandout' /\ OwnRecord' /\ InOrderPerEnqueuer'
<1>1. WorkersTypeOK
  BY DEF IInv, TypeOK
<1>2. \A v \in Workers \ {w} : pc'[v] = pc[v] /\ held'[v] = held[v]
  BY <1>1 DEF WorkersTypeOK
<1>3. pc'[w] = where
  BY <1>1 DEF WorkersTypeOK
<1>4. \A v \in Workers : InWindow(v)' => InWindow(v) /\ held'[v] = held[v] /\ v # w
  BY <1>2, <1>3 DEF InWindow
<1>5. WorkersTypeOK'
  BY <1>1 DEF WorkersTypeOK
<1>6. LockOK'
  BY <1>4 DEF IInv, LockOK
<1>7. RunningKeysOK'
  BY DEF IInv, RunningKeysOK
<1>8. WindowKeysOK'
  BY <1>2, <1>3, <1>4 DEF IInv, WindowKeysOK
<1>9. DraftKeysOK'
  BY <1>4 DEF IInv, DraftKeysOK
<1>10. DraftsOK'
  BY <1>4 DEF IInv, DraftsOK
<1>11. CopiesOK'
  BY CopiesFrame
<1>12. SingleHandout'
  BY <1>4 DEF IInv, SingleHandout
<1>13. OwnRecord'
  BY <1>2, <1>3 DEF IInv, OwnRecord
<1>14. InOrderPerEnqueuer'
  BY <1>4 DEF IInv, InOrderPerEnqueuer
<1> QED BY <1>5, <1>6, <1>7, <1>8, <1>9, <1>10, <1>11, <1>12, <1>13, <1>14

\* A fresh queue key is drawn for a job of call c.
LEMMA DrawnKey ==
    ASSUME IInv, NEW c \in Calls, NEW job \in Job, job.by = c,
           draft[c] = None, DrawKey(c, job),
           UNCHANGED <<queue, running, history, runningId, mutex, pc, held>>,
           \A d \in Calls : op'[d] \in DeleteCommands =>
               op[d] = op'[d] /\ copies'[d] = copies[d] /\ stage'[d] = stage[d]
    PROVE  /\ TablesTypeOK' /\ WorkersTypeOK' /\ DraftsTypeOK'
           /\ LockOK' /\ RunningKeysOK' /\ WindowKeysOK' /\ DraftKeysOK' /\ DraftsOK'
           /\ CopiesOK' /\ SingleHandout' /\ OwnRecord' /\ InOrderPerEnqueuer'
<1> USE DEF DrawKey
<1>1. TablesTypeOK /\ WorkersTypeOK /\ DraftsTypeOK
  BY DEF IInv, TypeOK
<1>2. TablesTypeOK' /\ WorkersTypeOK' /\ DraftsTypeOK'
  BY <1>1 DEF TablesTypeOK, WorkersTypeOK, DraftsTypeOK, Held
<1>3. /\ draft'[c] = [key |-> queueId + 1, job |-> job]
      /\ \A d \in Calls \ {c} : draft'[d] = draft[d]
  BY <1>1 DEF DraftsTypeOK
<1>4. queueId \in Nat /\ queueId' = queueId + 1
  BY <1>1 DEF TablesTypeOK
<1>5. LockOK' /\ SingleHandout' /\ OwnRecord' /\ InOrderPerEnqueuer'
  BY DEF IInv, LockOK, SingleHandout, OwnRecord, InOrderPerEnqueuer, InWindow
<1>6. \A r \in DOMAIN running : running[r].from \in Nat /\ running[r].from <= queueId
  BY <1>1 DEF IInv, RunningKeysOK, TablesTypeOK, RunningRecord
<1>7. \A w \in Workers : InWindow(w) => held[w].key \in Nat /\ held[w].key <= queueId
  BY <1>1 DEF IInv, WindowKeysOK, WorkersTypeOK, Held, InWindow
<1>8. RunningKeysOK'
  BY <1>4, <1>6 DEF RunningKeysOK
<1>9. WindowKeysOK'
  BY <1>4, <1>7 DEF IInv, WindowKeysOK, InWindow
<1>10. DraftKeysOK'
  <2>1. /\ queueId + 1 \in 1 .. queueId' /\ queueId + 1 \notin DOMAIN queue
        /\ \A r \in DOMAIN running : running[r].from # queueId + 1
        /\ \A w \in Workers : InWindow(w) => held[w].key # queueId + 1
    BY <1>1, <1>4, <1>6, <1>7 DEF TablesTypeOK
  <2>2. \A d \in Calls \ {c} : draft[d] # None =>
            draft[d].key \in 1 .. queueId /\ draft[d].key # queueId + 1
    BY <1>4 DEF IInv, DraftKeysOK
  <2>3. \A d \in Calls \ {c} : draft[d] # None => draft[d].key \in 1 .. queueId'
    BY <1>4, <2>2
  <2> QED BY <1>3, <2>1, <2>2, <2>3 DEF IInv, DraftKeysOK, InWindow
<1>11. DraftsOK'
  <2>1. /\ \A k \in DOMAIN queue : k < queueId + 1
        /\ \A r \in DOMAIN running : running[r].from < queueId + 1
        /\ \A w \in Workers : InWindow(w) => held[w].key < queueId + 1
    BY <1>1, <1>4, <1>6, <1>7 DEF TablesTypeOK
  <2> QED BY <1>3, <2>1 DEF IInv, DraftsOK, InWindow
<1>12. CopiesOK'
  <2>1. \A d \in Calls : op[d] \in DeleteCommands /\ stage[d] = "queue" =>
            \A k \in DOMAIN copies[d] : k \in Nat /\ k <= queueId' /\ k # queueId + 1
    BY <1>4 DEF IInv, TypeOK, CallsTypeOK, CopiesOK
  <2> QED BY <1>3, <2>1 DEF IInv, CopiesOK
<1> QED BY <1>2, <1>5, <1>8, <1>9, <1>10, <1>11, <1>12

-----------------------------------------------------------------------------
(* The calls of the server.                                                *)

LEMMA PutJobStep ==
    ASSUME IInv, NEW c \in Calls, PutJob(c)
    PROVE  IInv'
<1> USE DEF PutJob, Put
<1>1. TablesTypeOK /\ WorkersTypeOK /\ DraftsTypeOK
  BY DEF IInv, TypeOK
<1> DEFINE key == draft[c].key
           job == draft[c].job
<1>2. /\ key \in 1 .. queueId /\ job \in Job /\ job.by = c /\ key \notin DOMAIN queue
      /\ \A d \in Calls : draft'[d] # None => draft[d] # None /\ draft'[d] = draft[d] /\ d # c
  BY <1>1 DEF IInv, DraftKeysOK, DraftsTypeOK, DraftsOK, Held
<1>3. /\ DOMAIN queue' = DOMAIN queue \cup {key}
      /\ queue'[key] = job
      /\ \A k \in DOMAIN queue : queue'[k] = queue[k]
  BY <1>2
<1> HIDE DEF key, job
<1>4. TypeOK'
  <2>1. TablesTypeOK'
    BY <1>1, <1>2, <1>3 DEF TablesTypeOK
  <2>2. WorkersTypeOK' /\ CallsTypeOK'
    BY <1>2 DEF IInv, TypeOK, WorkersTypeOK, CallsTypeOK
  <2>3. DraftsTypeOK'
    BY <1>1 DEF DraftsTypeOK
  <2>4. CountersTypeOK'
    BY <1>1 DEF IInv, TypeOK, CountersTypeOK, DraftsTypeOK, Held, Job
  <2> QED BY <2>1, <2>2, <2>3, <2>4 DEF TypeOK
<1>5. LockOK' /\ RunningKeysOK' /\ OwnRecord'
  BY DEF IInv, LockOK, RunningKeysOK, OwnRecord, InWindow
<1>6. /\ \A r \in DOMAIN running : running[r].from # key
      /\ \A w \in Workers : InWindow(w) => held[w].key # key
  BY DEF IInv, DraftKeysOK, key
<1>7. WindowKeysOK'
  BY <1>3, <1>6 DEF IInv, WindowKeysOK, InWindow
<1>8. DraftKeysOK'
  <2>1. \A d \in Calls \ {c} : draft[d] # None => draft[d].key # key
    BY DEF IInv, DraftKeysOK, key
  <2> QED BY <1>2, <1>3, <2>1 DEF IInv, DraftKeysOK, InWindow
<1>9. CopiesOK'
  <2>1. \A d \in Calls : op[d] \in DeleteCommands /\ stage[d] = "queue" => key \notin DOMAIN copies[d]
    BY DEF IInv, CopiesOK, key
  <2> QED BY <1>2, <1>3, <2>1 DEF IInv, CopiesOK
<1>10. DraftsOK'
  BY <1>2, <1>3 DEF IInv, DraftsOK, InWindow
<1>11. SingleHandout'
  BY <1>3, <1>6 DEF IInv, SingleHandout, InWindow
<1>12. InOrderPerEnqueuer'
  <2>1. /\ \A r \in DOMAIN running : running[r].job.by = c => running[r].from < key
        /\ \A w \in Workers : InWindow(w) /\ held[w].job.by = c => held[w].key < key
    BY DEF IInv, DraftsOK, key
  <2>2. \A w \in Workers : InWindow(w) => held[w].key \in Nat
    BY <1>1 DEF WorkersTypeOK, Held, InWindow
  <2>3. \A w \in Workers : InWindow(w) /\ held[w].job.by = c => held[w].key <= key
    BY <1>2, <2>1, <2>2
  <2> QED BY <1>2, <1>3, <2>1, <2>3 DEF IInv, InOrderPerEnqueuer, InWindow
<1> QED BY <1>4, <1>5, <1>7, <1>8, <1>9, <1>10, <1>11, <1>12 DEF IInv

LEMMA StartImportStep ==
    ASSUME IInv, NEW c \in Calls, StartImport(c)
    PROVE  IInv'
<1> USE DEF StartImport
<1>1. PICK p \in Profiles : DrawKey(c, ImportJob(p, c))
  OBVIOUS
<1>2. ImportJob(p, c) \in Job /\ ImportJob(p, c).by = c
  BY ConstantsAssumption DEF ImportJob, NewJob, Job, Kinds, Targets, NoTarget, IInv, TypeOK, TablesTypeOK
<1>3. draft[c] = None /\ CallsTypeOK' /\ CountersTypeOK'
  BY <1>1, ConstantsAssumption
  DEF IInv, TypeOK, CallsTypeOK, CountersTypeOK, DraftsTypeOK, DrawKey, AllCommands
<1>4. \A d \in Calls : op'[d] \in DeleteCommands =>
          op[d] = op'[d] /\ copies'[d] = copies[d] /\ stage'[d] = stage[d]
  BY DEF IInv, TypeOK, CallsTypeOK, DeleteCommands
<1> QED BY <1>1, <1>2, <1>3, <1>4, DrawnKey DEF IInv, TypeOK

LEMMA VisitUserStep ==
    ASSUME IInv, NEW c \in Calls, NEW p \in Profiles, VisitUser(c, p)
    PROVE  IInv'
<1> USE DEF VisitUser
<1>1. UserJob(c) \in Job /\ UserJob(c).by = c
  BY DEF UserJob, NewJob, Job, Kinds, Targets, NoTarget, IInv, TypeOK, TablesTypeOK
<1>2. CallsTypeOK' /\ CountersTypeOK'
  BY ConstantsAssumption
  DEF IInv, TypeOK, CallsTypeOK, CountersTypeOK, DraftsTypeOK, DrawKey, AllCommands, VisitCommands
<1> QED BY <1>1, <1>2, DrawnKey DEF IInv, TypeOK

LEMMA VisitFriendStep ==
    ASSUME IInv, NEW c \in Calls, NEW p \in Profiles, VisitFriend(c, p)
    PROVE  IInv'
<1> USE DEF VisitFriend
<1>1. FriendJob(p, c) \in Job /\ FriendJob(p, c).by = c
  BY ConstantsAssumption DEF FriendJob, NewJob, Job, Kinds, Targets, NoTarget, IInv, TypeOK, TablesTypeOK
<1>2. CallsTypeOK' /\ CountersTypeOK'
  BY ConstantsAssumption
  DEF IInv, TypeOK, CallsTypeOK, CountersTypeOK, DraftsTypeOK, DrawKey, AllCommands, VisitCommands
<1>3. CASE DrawKey(c, FriendJob(p, c))
  BY <1>1, <1>2, <1>3, DrawnKey DEF IInv, TypeOK
<1>4. CASE UNCHANGED <<draft, queueId>>
  <2>1. TablesTypeOK' /\ WorkersTypeOK' /\ DraftsTypeOK'
    BY <1>4 DEF IInv, TypeOK, TablesTypeOK, WorkersTypeOK, DraftsTypeOK
  <2> QED BY <1>2, <1>4, <2>1, TablesFrame, CopiesFrame DEF IInv, TypeOK
<1> QED BY <1>3, <1>4

LEMMA RedoNextStep ==
    ASSUME IInv, NEW c \in Calls, RedoNext(c)
    PROVE  IInv'
<1> USE DEF RedoNext
<1> DEFINE job == copies[c][First(copies[c])]
<1>1. First(copies[c]) \in DOMAIN copies[c]
  BY FirstProperties DEF IInv, TypeOK, CallsTypeOK
<1>2. EnqueuedBy(job, c) \in Job /\ EnqueuedBy(job, c).by = c
  BY <1>1 DEF EnqueuedBy, Job, IInv, TypeOK, CallsTypeOK
<1>3. CallsTypeOK' /\ CountersTypeOK'
  BY ConstantsAssumption
  DEF IInv, TypeOK, CallsTypeOK, CountersTypeOK, DraftsTypeOK, DrawKey, AllCommands, Delete
<1>4. \A d \in Calls : op'[d] \in DeleteCommands =>
          op[d] = op'[d] /\ copies'[d] = copies[d] /\ stage'[d] = stage[d]
  BY DEF IInv, TypeOK, CallsTypeOK, DeleteCommands
<1> QED BY <1>2, <1>3, <1>4, DrawnKey DEF IInv, TypeOK

\* A call that starts or returns touches neither tables nor workers nor drafts.
LEMMA CallFrame ==
    ASSUME IInv, UNCHANGED <<server, worker, draft, ids, crashes, ghosts>>, CallsTypeOK', CopiesOK'
    PROVE  IInv'
<1>1. TablesTypeOK' /\ WorkersTypeOK' /\ DraftsTypeOK' /\ CountersTypeOK'
  BY DEF IInv, TypeOK, TablesTypeOK, WorkersTypeOK, DraftsTypeOK, CountersTypeOK
<1> QED BY <1>1, TablesFrame DEF IInv, TypeOK

LEMMA StartVisitStep ==
    ASSUME IInv, NEW c \in Calls, StartVisit(c)
    PROVE  IInv'
<1> USE DEF StartVisit
<1>1. PICK command \in VisitCommands : op' = [op EXCEPT ![c] = command]
  OBVIOUS
<1>2. visits' \in [Calls -> SUBSET Profiles]
  BY ConstantsAssumption DEF IInv, TypeOK, CallsTypeOK
<1>3. CallsTypeOK'
  BY <1>1, <1>2 DEF IInv, TypeOK, CallsTypeOK, AllCommands, VisitCommands
<1>4. CopiesOK'
  BY <1>1, CopiesOfOthers DEF IInv, TypeOK, CallsTypeOK, VisitCommands, DeleteCommands
<1> QED BY <1>3, <1>4, CallFrame

LEMMA StartRedoStep ==
    ASSUME IInv, NEW c \in Calls, StartRedo(c)
    PROVE  IInv'
<1> USE DEF StartRedo
<1>1. /\ DOMAIN RunningJobs \subseteq Nat
      /\ \A k \in DOMAIN RunningJobs : RunningJobs[k] \in Job
  BY DEF IInv, TypeOK, TablesTypeOK, RunningJobs, RunningRecord
<1>2. CallsTypeOK'
  BY <1>1 DEF IInv, TypeOK, CallsTypeOK, AllCommands
<1>3. CopiesOK'
  BY CopiesOfOthers DEF IInv, TypeOK, CallsTypeOK, DeleteCommands
<1> QED BY <1>2, <1>3, CallFrame

LEMMA StartDeleteStep ==
    ASSUME IInv, NEW c \in Calls, StartDelete(c)
    PROVE  IInv'
<1> USE DEF StartDelete
<1>1. PICK command \in DeleteCommands :
          /\ op' = [op EXCEPT ![c] = command]
          /\ copies' = [copies EXCEPT ![c] = Selected(command, queue)]
  OBVIOUS
<1>2. /\ DOMAIN Selected(command, queue) \subseteq DOMAIN queue
      /\ \A k \in DOMAIN Selected(command, queue) : Selected(command, queue)[k] = queue[k]
  BY DEF Selected
<1>3. CallsTypeOK'
  <2>1. /\ DOMAIN Selected(command, queue) \subseteq Nat
        /\ \A k \in DOMAIN Selected(command, queue) : Selected(command, queue)[k] \in Job
    BY <1>2 DEF IInv, TypeOK, TablesTypeOK
  <2> QED BY <1>1, <2>1 DEF IInv, TypeOK, CallsTypeOK, AllCommands
<1>4. CopiesOK'
  <2>1. stage'[c] = "queue" /\ copies'[c] = Selected(command, queue)
    BY <1>1 DEF IInv, TypeOK, CallsTypeOK
  <2>2. \A d \in Calls \ {c} : op'[d] = op[d] /\ stage'[d] = stage[d] /\ copies'[d] = copies[d]
    BY <1>1 DEF IInv, TypeOK, CallsTypeOK
  <2>3. \A k \in DOMAIN copies'[c] :
            /\ k <= queueId
            /\ k \in DOMAIN queue => queue[k] = copies'[c][k]
            /\ \A d \in Calls : draft[d] # None => draft[d].key # k
    BY <1>2, <2>1 DEF IInv, TypeOK, TablesTypeOK, DraftKeysOK
  <2> QED BY <2>1, <2>2, <2>3 DEF IInv, CopiesOK
<1> QED BY <1>3, <1>4, CallFrame

LEMMA ScanRunningStep ==
    ASSUME IInv, NEW c \in Calls, ScanRunning(c)
    PROVE  IInv'
<1> USE DEF ScanRunning
<1> DEFINE chosen == Selected(op[c], RunningJobs)
<1>1. /\ DOMAIN chosen \subseteq DOMAIN running
      /\ \A k \in DOMAIN chosen : chosen[k] = running[k].job
  BY DEF Selected, RunningJobs
<1> HIDE DEF chosen
<1>2. copies' = [copies EXCEPT ![c] = chosen]
  BY DEF chosen
<1>3. CallsTypeOK'
  <2>1. DOMAIN chosen \subseteq Nat /\ \A k \in DOMAIN chosen : chosen[k] \in Job
    BY <1>1 DEF IInv, TypeOK, TablesTypeOK, RunningRecord
  <2> QED BY <1>2, <2>1 DEF IInv, TypeOK, CallsTypeOK
<1>4. CopiesOK'
  <2>1. stage'[c] = "running" /\ copies'[c] = chosen
    BY <1>2 DEF IInv, TypeOK, CallsTypeOK
  <2>2. \A d \in Calls \ {c} : stage'[d] = stage[d] /\ copies'[d] = copies[d]
    BY <1>2 DEF IInv, TypeOK, CallsTypeOK
  <2>3. \A k \in DOMAIN copies'[c] :
            k <= runningId /\ k \in DOMAIN running /\ running[k].job = copies'[c][k]
    BY <1>1, <2>1 DEF IInv, TypeOK, TablesTypeOK
  <2> QED BY <2>1, <2>2, <2>3 DEF IInv, CopiesOK
<1> QED BY <1>3, <1>4, CallFrame

LEMMA ReturnStep ==
    ASSUME IInv, NEW c \in Calls, Return(c)
    PROVE  IInv'
<1> USE DEF Return
<1>1. CallsTypeOK'
  BY DEF IInv, TypeOK, CallsTypeOK
<1>2. CopiesOK'
  BY CopiesOfOthers, ConstantsAssumption
  DEF IInv, TypeOK, CallsTypeOK, DeleteCommands, AllCommands
<1> QED BY <1>1, <1>2, CallFrame

\* The key a delete command is about is in its snapshot.
LEMMA NextCopy ==
    ASSUME IInv, NEW c \in Calls, DOMAIN copies[c] # {}
    PROVE  /\ First(copies[c]) \in DOMAIN copies[c]
           /\ First(copies[c]) \in Nat
           /\ copies[c][First(copies[c])] \in Job
BY FirstProperties DEF IInv, TypeOK, CallsTypeOK

LEMMA DeleteNextStep ==
    ASSUME IInv, NEW c \in Calls, DeleteNext(c)
    PROVE  IInv'
<1> DEFINE key == First(copies[c])
<1> USE DEF DeleteNext, Delete
<1>1. key \in DOMAIN copies[c] /\ key \in Nat /\ copies[c][key] \in Job
  BY NextCopy
<1>2. /\ copies' = [copies EXCEPT ![c] = [k \in DOMAIN copies[c] \ {key} |-> copies[c][k]]]
      /\ purged' = purged \/ purged' = purged \cup {copies[c][key].origin}
      /\ \/ queue' = [k \in DOMAIN queue \ {key} |-> queue[k]] /\ running' = running
         \/ running' = [k \in DOMAIN running \ {key} |-> running[k]] /\ queue' = queue
  OBVIOUS
<1> HIDE DEF key
<1>3. /\ DOMAIN queue' \subseteq DOMAIN queue
      /\ \A k \in DOMAIN queue' : queue'[k] = queue[k]
      /\ DOMAIN running' \subseteq DOMAIN running
      /\ \A k \in DOMAIN running' : running'[k] = running[k]
  BY <1>2
<1>4. /\ \A d \in Calls : DOMAIN copies'[d] \subseteq DOMAIN copies[d]
      /\ \A d \in Calls : \A k \in DOMAIN copies'[d] : copies'[d][k] = copies[d][k]
  BY <1>2 DEF IInv, TypeOK, CallsTypeOK
<1>5. TypeOK'
  <2>1. TablesTypeOK'
    BY <1>3 DEF IInv, TypeOK, TablesTypeOK
  <2>2. WorkersTypeOK' /\ DraftsTypeOK'
    BY DEF IInv, TypeOK, WorkersTypeOK, DraftsTypeOK
  <2>3. CallsTypeOK'
    BY <1>2, <1>4 DEF IInv, TypeOK, CallsTypeOK
  <2>4. CountersTypeOK'
    BY <1>1, <1>2 DEF IInv, TypeOK, CountersTypeOK, Job
  <2> QED BY <2>1, <2>2, <2>3, <2>4 DEF TypeOK
<1>6. LockOK'
  BY DEF IInv, LockOK, InWindow
<1>7. RunningKeysOK'
  BY <1>3 DEF IInv, RunningKeysOK
<1>8. WindowKeysOK'
  BY <1>3 DEF IInv, WindowKeysOK, InWindow
<1>9. DraftKeysOK'
  BY <1>3 DEF IInv, DraftKeysOK, InWindow
<1>10. CopiesOK'
  BY <1>3, <1>4 DEF IInv, CopiesOK
<1>11. DraftsOK'
  BY <1>3 DEF IInv, DraftsOK, InWindow
<1>12. SingleHandout'
  BY <1>3 DEF IInv, SingleHandout, InWindow
<1>13. OwnRecord'
  BY <1>3 DEF IInv, OwnRecord
<1>14. InOrderPerEnqueuer'
  BY <1>3 DEF IInv, InOrderPerEnqueuer, InWindow
<1> QED
  BY <1>5, <1>6, <1>7, <1>8, <1>9, <1>10, <1>11, <1>12, <1>13, <1>14 DEF IInv

-----------------------------------------------------------------------------
(* The workers.                                                            *)

\* What the steps of a worker leave alone.
LEMMA WorkerFrame ==
    ASSUME IInv, UNCHANGED <<call, crashes, accepted, purged>>,
           finished' \subseteq Nat, TablesTypeOK', WorkersTypeOK'
    PROVE  TypeOK'
BY DEF IInv, TypeOK, DraftsTypeOK, CallsTypeOK, CountersTypeOK

LEMMA LetGoStep ==
    ASSUME IInv, NEW w \in Workers,
           WorkerFail(w) \/ WorkerPanic(w) \/ WorkerRestart(w) \/ FinishRecord(w)
    PROVE  IInv'
<1>1. PICK where \in {"idle", "dead"} :
          /\ pc[w] \in {"work", "record", "dead"}
          /\ pc' = [pc EXCEPT ![w] = where]
          /\ held' = [held EXCEPT ![w] = None] \/ held' = held
          /\ UNCHANGED <<queue, running, mutex, call, ids, crashes, ghosts>>
  BY DEF WorkerFail, WorkerPanic, WorkerRestart, FinishRecord
<1>2. TablesTypeOK'
  <2>1. pc[w] = "record" => held[w].job.kind \in Kinds
    BY DEF IInv, TypeOK, WorkersTypeOK, Held, Job
  <2>2. history' \in [Targets -> Kinds \cup {None}]
    BY <2>1 DEF IInv, TypeOK, TablesTypeOK, WorkerFail, WorkerPanic, WorkerRestart, FinishRecord
  <2> QED BY <1>1, <2>2 DEF IInv, TypeOK, TablesTypeOK
<1>3. finished' \subseteq Nat
  BY <1>1 DEF IInv, TypeOK, CountersTypeOK
<1>4. /\ WorkersTypeOK' /\ LockOK' /\ RunningKeysOK' /\ WindowKeysOK' /\ DraftKeysOK'
      /\ DraftsOK' /\ CopiesOK' /\ SingleHandout' /\ OwnRecord' /\ InOrderPerEnqueuer'
  BY <1>1, LetGo
<1> QED BY <1>1, <1>2, <1>3, <1>4, WorkerFrame DEF IInv

LEMMA FinishDeleteStep ==
    ASSUME IInv, NEW w \in Workers, FinishDelete(w)
    PROVE  IInv'
<1> USE DEF FinishDelete, Delete
<1>1. held[w] \in Held /\ WorkersTypeOK /\ TablesTypeOK
  BY DEF IInv, TypeOK, WorkersTypeOK
<1>2. pc'[w] = "record" /\ \A v \in Workers \ {w} : pc'[v] = pc[v]
  BY <1>1 DEF WorkersTypeOK
<1>3. \A v \in Workers : InWindow(v)' => InWindow(v)
  BY <1>2 DEF InWindow
<1>4. /\ DOMAIN running' \subseteq DOMAIN running
      /\ \A k \in DOMAIN running' : running'[k] = running[k]
  OBVIOUS
<1>5. TypeOK'
  <2>1. finished' \subseteq Nat
    BY <1>1 DEF IInv, TypeOK, CountersTypeOK, Held, Job
  <2>2. TablesTypeOK'
    BY <1>1, <1>4 DEF TablesTypeOK
  <2>3. WorkersTypeOK'
    BY <1>1 DEF WorkersTypeOK
  <2> QED BY <2>1, <2>2, <2>3, WorkerFrame
<1>6. LockOK'
  BY <1>3 DEF IInv, LockOK
<1>7. RunningKeysOK'
  BY <1>4 DEF IInv, RunningKeysOK
<1>8. WindowKeysOK'
  BY <1>2, <1>3 DEF IInv, WindowKeysOK
<1>9. DraftKeysOK'
  BY <1>3, <1>4 DEF IInv, DraftKeysOK
<1>10. CopiesOK'
  BY <1>4 DEF IInv, CopiesOK
<1>11. DraftsOK'
  BY <1>3, <1>4 DEF IInv, DraftsOK
<1>12. SingleHandout'
  BY <1>3, <1>4 DEF IInv, SingleHandout
<1>13. OwnRecord'
  BY <1>2, <1>4 DEF IInv, OwnRecord
<1>14. InOrderPerEnqueuer'
  BY <1>3, <1>4 DEF IInv, InOrderPerEnqueuer
<1> QED
  BY <1>5, <1>6, <1>7, <1>8, <1>9, <1>10, <1>11, <1>12, <1>13, <1>14 DEF IInv

LEMMA DequeScanStep ==
    ASSUME IInv, NEW w \in Workers, DequeScan(w)
    PROVE  IInv'
<1> DEFINE key == First(queue)
<1> USE DEF DequeScan
<1>1. TablesTypeOK /\ WorkersTypeOK
  BY DEF IInv, TypeOK
<1>2. key \in DOMAIN queue /\ \A k \in DOMAIN queue : key <= k
  BY <1>1, FirstProperties DEF TablesTypeOK
<1>3. /\ pc' = [pc EXCEPT ![w] = "delete"]
      /\ held' = [held EXCEPT ![w] = [key |-> key, job |-> queue[key]]]
  OBVIOUS
<1> HIDE DEF key
<1>4. /\ pc'[w] = "delete" /\ held'[w].key = key /\ held'[w].job = queue[key]
      /\ \A v \in Workers \ {w} : pc'[v] = pc[v] /\ held'[v] = held[v]
  BY <1>1, <1>3 DEF WorkersTypeOK
<1>5. \A v \in Workers : ~InWindow(v)
  BY ConstantsAssumption DEF IInv, LockOK
<1>6. \A v \in Workers : InWindow(v)' => v = w
  BY <1>4, <1>5 DEF InWindow
<1>7. TypeOK'
  <2>1. queue[key] \in Job /\ key \in 1 .. queueId
    BY <1>1, <1>2 DEF TablesTypeOK
  <2>2. WorkersTypeOK'
    BY <1>1, <1>3, <2>1 DEF WorkersTypeOK, Held
  <2>3. TablesTypeOK' /\ finished' \subseteq Nat
    BY <1>1 DEF TablesTypeOK, IInv, TypeOK, CountersTypeOK
  <2> QED BY <2>2, <2>3, WorkerFrame
<1>8. LockOK'
  BY <1>6 DEF LockOK
<1>9. RunningKeysOK'
  BY DEF IInv, RunningKeysOK
<1>10. WindowKeysOK'
  <2>1. key <= queueId
    BY <1>1, <1>2 DEF TablesTypeOK
  <2> QED BY <1>4, <1>6, <2>1 DEF IInv, WindowKeysOK
<1>11. DraftKeysOK'
  BY <1>2, <1>4, <1>6 DEF IInv, DraftKeysOK
<1>12. CopiesOK'
  BY CopiesFrame
<1>13. DraftsOK'
  BY <1>2, <1>4, <1>6 DEF IInv, DraftsOK
<1>14. SingleHandout'
  BY <1>2, <1>4, <1>6 DEF IInv, SingleHandout
<1>15. OwnRecord'
  BY <1>4 DEF IInv, OwnRecord
<1>16. InOrderPerEnqueuer'
  BY <1>2, <1>4, <1>6 DEF IInv, InOrderPerEnqueuer
<1> QED
  BY <1>7, <1>8, <1>9, <1>10, <1>11, <1>12, <1>13, <1>14, <1>15, <1>16 DEF IInv

LEMMA DequeDeleteStep ==
    ASSUME IInv, NEW w \in Workers, DequeDelete(w)
    PROVE  IInv'
<1> USE DEF DequeDelete, Delete
<1>1. TablesTypeOK /\ WorkersTypeOK
  BY DEF IInv, TypeOK
<1>2. pc'[w] = "claim" /\ \A v \in Workers \ {w} : pc'[v] = pc[v]
  BY <1>1 DEF WorkersTypeOK
<1>3. \A v \in Workers : InWindow(v)' <=> InWindow(v)
  BY <1>2 DEF InWindow
<1>4. /\ DOMAIN queue' \subseteq DOMAIN queue
      /\ held[w].key \notin DOMAIN queue'
      /\ \A k \in DOMAIN queue' : queue'[k] = queue[k]
  OBVIOUS
<1>5. TypeOK'
  <2>1. TablesTypeOK' /\ finished' \subseteq Nat
    BY <1>1, <1>4 DEF TablesTypeOK, IInv, TypeOK, CountersTypeOK
  <2>2. WorkersTypeOK'
    BY <1>1 DEF WorkersTypeOK
  <2> QED BY <2>1, <2>2, WorkerFrame
<1>6. LockOK'
  BY <1>3 DEF IInv, LockOK
<1>7. RunningKeysOK'
  BY DEF IInv, RunningKeysOK
<1>8. WindowKeysOK'
  BY <1>2, <1>3, <1>4 DEF IInv, WindowKeysOK, InWindow
<1>9. DraftKeysOK'
  BY <1>3, <1>4 DEF IInv, DraftKeysOK
<1>10. CopiesOK'
  BY <1>4 DEF IInv, CopiesOK
<1>11. DraftsOK'
  BY <1>3, <1>4 DEF IInv, DraftsOK
<1>12. SingleHandout'
  BY <1>3, <1>4 DEF IInv, SingleHandout
<1>13. OwnRecord'
  BY <1>2 DEF IInv, OwnRecord
<1>14. InOrderPerEnqueuer'
  BY <1>3, <1>4 DEF IInv, InOrderPerEnqueuer
<1> QED
  BY <1>5, <1>6, <1>7, <1>8, <1>9, <1>10, <1>11, <1>12, <1>13, <1>14 DEF IInv

LEMMA ClaimJobStep ==
    ASSUME IInv, NEW w \in Workers, ClaimJob(w)
    PROVE  IInv'
<1> DEFINE key == runningId + 1
<1> USE DEF ClaimJob, Put
<1>1. TablesTypeOK /\ WorkersTypeOK /\ held[w] \in Held
  BY DEF IInv, TypeOK, WorkersTypeOK
<1>2. /\ pc'[w] = "work" /\ held'[w].key = key /\ held'[w].job = held[w].job
      /\ \A v \in Workers \ {w} : pc'[v] = pc[v] /\ held'[v] = held[v]
  BY <1>1 DEF WorkersTypeOK
<1>3. key \notin DOMAIN running /\ runningId' = key /\ key \in Nat /\ runningId < key
  BY <1>1 DEF TablesTypeOK
<1>4. /\ DOMAIN running' = DOMAIN running \cup {key}
      /\ \A r \in DOMAIN running : running'[r] = running[r]
      /\ running'[key] = [job |-> held[w].job, from |-> held[w].key, worker |-> w]
  BY <1>3
<1>5. running'[key].from = held[w].key /\ running'[key].job = held[w].job /\ running'[key].worker = w
  BY <1>4
<1>6. InWindow(w) /\ \A v \in Workers : ~InWindow(v)'
  BY <1>2, ConstantsAssumption DEF IInv, LockOK, InWindow
<1>7. /\ held[w].key \notin DOMAIN queue /\ held[w].key <= queueId
      /\ \A r \in DOMAIN running : running[r].from # held[w].key
  BY <1>6 DEF IInv, WindowKeysOK, SingleHandout
<1>8. TypeOK'
  <2>1. running'[key] \in RunningRecord
    BY <1>1, <1>4 DEF Held, RunningRecord
  <2>2. TablesTypeOK'
    <3>1. DOMAIN running' \subseteq 1 .. runningId'
      BY <1>1, <1>3, <1>4 DEF TablesTypeOK
    <3> QED BY <1>1, <1>3, <1>4, <2>1, <3>1 DEF TablesTypeOK
  <2>3. WorkersTypeOK' /\ finished' \subseteq Nat
    BY <1>1, <1>3 DEF WorkersTypeOK, Held, IInv, TypeOK, CountersTypeOK
  <2> QED BY <2>2, <2>3, WorkerFrame
<1> HIDE DEF key
<1>9. LockOK'
  BY <1>6 DEF LockOK
<1>10. RunningKeysOK'
  BY <1>4, <1>5, <1>7 DEF IInv, RunningKeysOK
<1>11. WindowKeysOK'
  <2>1. \A v \in Workers : (pc[v] = "work")' => held'[v].key <= runningId'
    <3>1. \A v \in Workers : pc[v] = "work" => held[v].key \in Nat /\ held[v].key <= runningId
      BY <1>1 DEF IInv, WindowKeysOK, WorkersTypeOK, Held
    <3> QED BY <1>1, <1>2, <1>3, <3>1 DEF TablesTypeOK
  <2> QED BY <1>6, <2>1 DEF WindowKeysOK, InWindow
<1>12. DraftKeysOK'
  BY <1>4, <1>5, <1>6 DEF IInv, DraftKeysOK
<1>13. CopiesOK'
  <2>1. \A c \in Calls : op[c] \in DeleteCommands /\ stage[c] = "running" =>
            \A k \in DOMAIN copies[c] : k \in Nat /\ k <= runningId' /\ k # key
    BY <1>1, <1>3 DEF IInv, TypeOK, CallsTypeOK, CopiesOK, TablesTypeOK
  <2> QED BY <1>4, <2>1 DEF IInv, CopiesOK
<1>14. DraftsOK'
  BY <1>4, <1>5, <1>6 DEF IInv, DraftsOK
<1>15. SingleHandout'
  BY <1>4, <1>5, <1>6, <1>7 DEF IInv, SingleHandout
<1>16. OwnRecord'
  <2>1. \A v \in Workers \ {w} : pc[v] = "work" => held[v].key # key
    BY <1>1, <1>3 DEF IInv, WindowKeysOK, WorkersTypeOK, Held, TablesTypeOK
  <2> QED BY <1>2, <1>4, <1>5, <2>1 DEF IInv, OwnRecord
<1>17. InOrderPerEnqueuer'
  <2>1. \A k \in DOMAIN queue : queue[k].by = held[w].job.by => held[w].key < k
    <3>1. \A k \in DOMAIN queue : k \in Nat /\ k # held[w].key
      BY <1>1, <1>7 DEF TablesTypeOK
    <3> QED BY <1>1, <1>6, <3>1 DEF IInv, InOrderPerEnqueuer, Held
  <2> QED BY <1>4, <1>5, <1>6, <2>1 DEF IInv, InOrderPerEnqueuer
<1> QED
  BY <1>8, <1>9, <1>10, <1>11, <1>12, <1>13, <1>14, <1>15, <1>16, <1>17 DEF IInv

LEMMA ServerCrashStep ==
    ASSUME IInv, ServerCrash
    PROVE  IInv'
<1> USE DEF ServerCrash
<1>1. TablesTypeOK' /\ DraftsTypeOK'
  BY DEF IInv, TypeOK, TablesTypeOK, DraftsTypeOK
<1>2. CallsTypeOK' /\ CountersTypeOK'
  BY ConstantsAssumption DEF IInv, TypeOK, CallsTypeOK, CountersTypeOK, Empty
<1>3. /\ \A v \in Workers : pc'[v] \notin {"delete", "claim", "record"}
      /\ \A v \in Workers : pc'[v] = "work" => pc[v] = "work" /\ held'[v] = held[v]
  BY DEF InCall
<1>4. WorkersTypeOK'
  <2>1. PICK stranded \in SUBSET {w \in Workers : pc[w] = "work"} :
          /\ pc' = [w \in Workers |-> IF w \in stranded THEN "dead"
                                      ELSE IF InCall(w) THEN "idle" ELSE pc[w]]
          /\ held' = [w \in Workers |-> IF w \in stranded \/ InCall(w)
                                        THEN None ELSE held[w]]
    OBVIOUS
  <2> QED BY <2>1 DEF IInv, TypeOK, WorkersTypeOK, InCall
<1>5. \A v \in Workers : ~InWindow(v)'
  BY <1>3 DEF InWindow
<1>6. \A c \in Calls : draft'[c] = None /\ op'[c] \notin DeleteCommands
  BY ConstantsAssumption DEF AllCommands
<1>7. /\ LockOK' /\ RunningKeysOK' /\ DraftKeysOK' /\ CopiesOK' /\ DraftsOK'
      /\ SingleHandout' /\ InOrderPerEnqueuer'
  BY <1>5, <1>6
  DEF IInv, LockOK, RunningKeysOK, DraftKeysOK, CopiesOK, DraftsOK, SingleHandout, InOrderPerEnqueuer
<1>8. WindowKeysOK' /\ OwnRecord'
  BY <1>3, <1>5 DEF IInv, WindowKeysOK, OwnRecord, InWindow
<1> QED BY <1>1, <1>2, <1>4, <1>7, <1>8 DEF IInv, TypeOK

-----------------------------------------------------------------------------
(* The theorems.                                                           *)

LEMMA InitIInv == Init => IInv
BY ConstantsAssumption
DEF Init, IInv, TypeOK, TablesTypeOK, WorkersTypeOK, DraftsTypeOK, CallsTypeOK, CountersTypeOK,
    LockOK, RunningKeysOK, WindowKeysOK, DraftKeysOK, CopiesOK, DraftsOK, SingleHandout,
    OwnRecord, InOrderPerEnqueuer, InWindow, Empty, Targets, Kinds

LEMMA StutterIInv == IInv /\ UNCHANGED vars => IInv'
<1> SUFFICES ASSUME IInv, UNCHANGED vars PROVE IInv'
  OBVIOUS
<1>1. UNCHANGED <<server, worker, call, ids, crashes, ghosts>>
  BY DEF vars
<1>2. CallsTypeOK'
  BY <1>1 DEF IInv, TypeOK, CallsTypeOK
<1> QED BY <1>1, <1>2, CopiesFrame, CallFrame

LEMMA NextIInv == IInv /\ [Next]_vars => IInv'
<1> SUFFICES ASSUME IInv, [Next]_vars PROVE IInv'
  OBVIOUS
<1>1. ASSUME NEW c \in Calls, CallStart(c) PROVE IInv'
  BY <1>1, StartImportStep, StartVisitStep, StartDeleteStep, StartRedoStep DEF CallStart
<1>2. ASSUME NEW c \in Calls, CallStep(c) PROVE IInv'
  BY <1>2, PutJobStep, ScanRunningStep, DeleteNextStep, RedoNextStep, ReturnStep,
     VisitUserStep, VisitFriendStep DEF CallStep
<1>3. ASSUME NEW w \in Workers, DequeScan(w) \/ RpcStep(w) \/ WorkStep(w) \/ WorkerRestart(w)
      PROVE  IInv'
  BY <1>3, DequeScanStep, DequeDeleteStep, ClaimJobStep, FinishDeleteStep, LetGoStep
  DEF RpcStep, WorkStep
<1>4. CASE ServerCrash
  BY <1>4, ServerCrashStep
<1>5. CASE UNCHANGED vars
  BY <1>5, StutterIInv
<1> QED BY <1>1, <1>2, <1>3, <1>4, <1>5 DEF Next

\* In every reachable state, for all values of the constants, the variables are
\* in range, no waiting record is handed out twice, the record a worker deletes
\* is its own and the jobs of one enqueuer are handed out in order.
THEOREM QueueSafety == Spec => [](TypeOK /\ SingleHandout /\ OwnRecord /\ InOrderPerEnqueuer)
<1>1. Init => IInv
  BY InitIInv
<1>2. IInv /\ [Next]_vars => IInv'
  BY NextIInv
<1>3. IInv => TypeOK /\ SingleHandout /\ OwnRecord /\ InOrderPerEnqueuer
  BY DEF IInv
<1> QED BY <1>1, <1>2, <1>3, PTL DEF Spec

\* The tables, the locks and what the goroutines and workers hold have their types.
THEOREM QueueTypes == Spec => []TypeOK
BY QueueSafety, PTL

\* A worker that finishes its job deletes the record of that job or none.
THEOREM RecordTheorem == Spec => []OwnRecord
BY QueueSafety, PTL

\* One enqueuer's jobs are handed out in the order in which it made them.
THEOREM OrderTheorem == Spec => []InOrderPerEnqueuer
BY QueueSafety, PTL

-----------------------------------------------------------------------------
(* What a crash can lose.                                                  *)

\* A job some table or some call of GetFeedJob has.
Somewhere(j) ==
    \/ \E k \in DOMAIN queue : queue[k].origin = j
    \/ \E k \in DOMAIN running : running[k].job.origin = j
    \/ \E w \in Workers : pc[w] = "claim" /\ held[w].job.origin = j

LEMMA LostDefinition ==
    /\ Lost = {j \in accepted \ (finished \cup purged) : ~Somewhere(j)}
    /\ Lost' = {j \in accepted' \ (finished' \cup purged') : ~Somewhere(j)'}
BY DEF Lost, Somewhere

\* A step that keeps what is somewhere, finished or deleted, and accepts no job
\* it does not put somewhere, loses nothing.
LEMMA NothingLost ==
    ASSUME \A j : Somewhere(j) => Somewhere(j)' \/ j \in finished' \cup purged',
           \A j \in accepted' \ accepted : Somewhere(j)',
           finished \subseteq finished', purged \subseteq purged'
    PROVE  Lost' \subseteq Lost
BY LostDefinition

LEMMA DeleteNextLoses ==
    ASSUME IInv, NEW c \in Calls, DeleteNext(c)
    PROVE  Lost' \subseteq Lost
<1> DEFINE key == First(copies[c])
<1> USE DEF DeleteNext, Delete
<1>1. key \in DOMAIN copies[c]
  BY NextCopy
<1>2. CASE stage[c] = "queue"
  <2>1. key \in DOMAIN queue => queue[key].origin \in purged'
    BY <1>1, <1>2 DEF IInv, CopiesOK
  <2>2. \A j : Somewhere(j) => Somewhere(j)' \/ j \in purged'
    BY <1>2, <2>1 DEF Somewhere
  <2> QED BY <2>2, NothingLost
<1>3. CASE stage[c] = "running"
  <2>1. key \in DOMAIN running => running[key].job.origin \in purged'
    BY <1>1, <1>3 DEF IInv, CopiesOK
  <2>2. \A j : Somewhere(j) => Somewhere(j)' \/ j \in purged'
    BY <1>3, <2>1 DEF Somewhere
  <2> QED BY <2>2, NothingLost
<1> QED BY <1>2, <1>3

LEMMA PutJobLoses ==
    ASSUME IInv, NEW c \in Calls, PutJob(c)
    PROVE  Lost' \subseteq Lost
<1> USE DEF PutJob, Put
<1>1. draft[c].key \notin DOMAIN queue
  BY DEF IInv, DraftKeysOK
<1>2. \A j : Somewhere(j) => Somewhere(j)'
  BY <1>1 DEF Somewhere
<1>3. \A j : j = draft[c].job.origin => Somewhere(j)'
  BY DEF Somewhere
<1> QED BY <1>2, <1>3, NothingLost

LEMMA DequeDeleteLoses ==
    ASSUME IInv, NEW w \in Workers, DequeDelete(w)
    PROVE  Lost' \subseteq Lost
<1> USE DEF DequeDelete, Delete
<1>1. pc'[w] = "claim" /\ \A v \in Workers \ {w} : pc'[v] = pc[v]
  BY DEF IInv, TypeOK, WorkersTypeOK
<1>2. held[w].key \in DOMAIN queue => queue[held[w].key].origin = held[w].job.origin
  BY DEF IInv, WindowKeysOK
<1>3. \A j : Somewhere(j) => Somewhere(j)'
  BY <1>1, <1>2 DEF Somewhere
<1> QED BY <1>3, NothingLost

LEMMA ClaimJobLoses ==
    ASSUME IInv, NEW w \in Workers, ClaimJob(w)
    PROVE  Lost' \subseteq Lost
<1> USE DEF ClaimJob, Put
<1>1. runningId + 1 \notin DOMAIN running
  BY DEF IInv, TypeOK, TablesTypeOK
<1>2. \A v \in Workers \ {w} : pc'[v] = pc[v] /\ held'[v] = held[v]
  BY DEF IInv, TypeOK, WorkersTypeOK
<1>3. \A r \in DOMAIN running : running'[r] = running[r] /\ r \in DOMAIN running'
  BY <1>1
<1>4. runningId + 1 \in DOMAIN running' /\ running'[runningId + 1].job = held[w].job
  OBVIOUS
<1>5. \A j : Somewhere(j) => Somewhere(j)'
  BY <1>2, <1>3, <1>4 DEF Somewhere
<1> QED BY <1>5, NothingLost

LEMMA FinishDeleteLoses ==
    ASSUME IInv, NEW w \in Workers, FinishDelete(w)
    PROVE  Lost' \subseteq Lost
<1> USE DEF FinishDelete, Delete
<1>1. \A v \in Workers : pc[v] = "claim" => pc'[v] = "claim"
  BY DEF IInv, TypeOK, WorkersTypeOK
<1>2. held[w].key \in DOMAIN running => running[held[w].key].job.origin \in finished'
  BY DEF IInv, OwnRecord
<1>3. \A j : Somewhere(j) => Somewhere(j)' \/ j \in finished'
  BY <1>1, <1>2 DEF Somewhere
<1> QED BY <1>3, NothingLost

\* The steps that move no record: those of a call but DeleteNext and PutJob,
\* the scan of GetFeedJob, and a worker letting go of its job.
LEMMA OthersLose ==
    ASSUME IInv, UNCHANGED <<queue, running, ghosts>>,
           \A w \in Workers : pc[w] = "claim" => pc'[w] = "claim" /\ held'[w] = held[w]
    PROVE  Lost' \subseteq Lost
<1>1. \A j : Somewhere(j) => Somewhere(j)'
  BY DEF Somewhere
<1> QED BY <1>1, NothingLost

LEMMA StepLoses ==
    ASSUME IInv, [Next]_vars, ~ServerCrash
    PROVE  Lost' \subseteq Lost
<1>1. ASSUME NEW c \in Calls, CallStart(c) PROVE Lost' \subseteq Lost
  BY <1>1, OthersLose DEF CallStart, StartImport, StartVisit, StartDelete, StartRedo
<1>2. ASSUME NEW c \in Calls, CallStep(c) PROVE Lost' \subseteq Lost
  <2>1. CASE ScanRunning(c) \/ RedoNext(c) \/ Return(c)
    BY <2>1, OthersLose DEF ScanRunning, RedoNext, Return
  <2>2. CASE \E p \in Profiles : VisitUser(c, p) \/ VisitFriend(c, p)
    BY <2>2, OthersLose DEF VisitUser, VisitFriend
  <2> QED BY <1>2, <2>1, <2>2, PutJobLoses, DeleteNextLoses DEF CallStep
<1>3. ASSUME NEW w \in Workers, DequeScan(w) \/ RpcStep(w) \/ WorkStep(w) \/ WorkerRestart(w)
      PROVE  Lost' \subseteq Lost
  <2>1. CASE DequeScan(w) \/ WorkerFail(w) \/ WorkerPanic(w) \/ WorkerRestart(w) \/ FinishRecord(w)
    <3>1. \A v \in Workers : pc[v] = "claim" => pc'[v] = "claim" /\ held'[v] = held[v]
      BY <2>1 DEF DequeScan, WorkerFail, WorkerPanic, WorkerRestart, FinishRecord,
                  IInv, TypeOK, WorkersTypeOK
    <3>2. UNCHANGED <<queue, running, ghosts>>
      BY <2>1 DEF DequeScan, WorkerFail, WorkerPanic, WorkerRestart, FinishRecord
    <3> QED BY <3>1, <3>2, OthersLose
  <2> QED
    BY <1>3, <2>1, DequeDeleteLoses, ClaimJobLoses, FinishDeleteLoses DEF RpcStep, WorkStep
<1>4. CASE UNCHANGED vars
  BY <1>4, OthersLose DEF vars
<1> QED BY <1>1, <1>2, <1>3, <1>4 DEF Next

\* The lock admits one call of GetFeedJob, so a crash loses one job at most.
LEMMA CrashLoses ==
    ASSUME IInv, ServerCrash
    PROVE  \E j : Lost' \subseteq Lost \cup {j}
<1>1. PICK j : \A w \in Workers : pc[w] = "claim" => held[w].job.origin = j
  BY DEF IInv, LockOK, InWindow
<1>2. \A i : Somewhere(i) => i = j \/ Somewhere(i)'
  BY <1>1 DEF Somewhere, ServerCrash
<1>3. UNCHANGED ghosts
  BY DEF ServerCrash
<1> QED BY <1>2, <1>3, LostDefinition

LossBound == IsFiniteSet(Lost) /\ Cardinality(Lost) <= crashes

LEMMA NextLossBound == IInv /\ LossBound /\ [Next]_vars => LossBound'
<1> SUFFICES ASSUME IInv, LossBound, [Next]_vars PROVE LossBound'
  OBVIOUS
<1>1. Cardinality(Lost) \in Nat /\ crashes \in Nat
  BY FS_CardinalityType, ConstantsAssumption DEF LossBound, IInv, TypeOK, CountersTypeOK
<1>2. CASE ServerCrash
  <2>1. PICK j : Lost' \subseteq Lost \cup {j}
    BY <1>2, CrashLoses
  <2>2. IsFiniteSet(Lost \cup {j}) /\ Cardinality(Lost \cup {j}) <= Cardinality(Lost) + 1
    BY <1>1, FS_AddElement DEF LossBound
  <2>3. Cardinality(Lost \cup {j}) \in Nat
    BY <2>2, FS_CardinalityType
  <2>4. /\ IsFiniteSet(Lost') /\ Cardinality(Lost') \in Nat
        /\ Cardinality(Lost') <= Cardinality(Lost \cup {j})
    BY <2>1, <2>2, FS_Subset, FS_CardinalityType
  <2>5. crashes' = crashes + 1
    BY <1>2 DEF ServerCrash
  <2> QED BY <1>1, <2>2, <2>3, <2>4, <2>5 DEF LossBound
<1>3. CASE ~ServerCrash
  <2>1. Lost' \subseteq Lost
    BY <1>3, StepLoses
  <2>2. /\ IsFiniteSet(Lost') /\ Cardinality(Lost') \in Nat
        /\ Cardinality(Lost') <= Cardinality(Lost)
    BY <2>1, FS_Subset, FS_CardinalityType DEF LossBound
  <2>3. crashes' = crashes
    BY <1>3 DEF Next, CallStart, CallStep, RpcStep, WorkStep, vars, StartImport, StartVisit,
       StartDelete, StartRedo, PutJob, ScanRunning, DeleteNext, RedoNext, Return, VisitUser,
       VisitFriend, DequeScan, DequeDelete, ClaimJob, FinishRecord, WorkerFail, WorkerPanic,
       FinishDelete, WorkerRestart
  <2> QED BY <1>1, <2>2, <2>3 DEF LossBound
<1> QED BY <1>2, <1>3

\* However the operations interleave, the number of accepted jobs that are
\* nowhere is at most the number of crashes of the server.
THEOREM LossTheorem == Spec => []CrashLosesOneJob
<1>1. Init => IInv /\ LossBound
  <2>1. Init => Lost = {} /\ crashes = 0
    BY DEF Init, Lost
  <2> QED BY <2>1, InitIInv, FS_EmptySet DEF LossBound
<1>2. IInv /\ LossBound /\ [Next]_vars => (IInv /\ LossBound)'
  BY NextIInv, NextLossBound
<1>3. LossBound => CrashLosesOneJob
  BY DEF LossBound, CrashLosesOneJob
<1> QED BY <1>1, <1>2, <1>3, PTL DEF Spec

-----------------------------------------------------------------------------
(* What has been archived does not run.  A command that makes no copies of *)
(* jobs gives every job one key of the queue for life, which is its        *)
(* origin; a key that has left the queue, the drafts and the calls of      *)
(* GetFeedJob never returns to them.                                       *)

NoCopies == "RedoFailedJob" \notin Commands

OriginOK ==
    /\ \A k \in DOMAIN queue : queue[k].origin = k
    /\ \A c \in Calls : draft[c] # None => draft[c].job.origin = draft[c].key
    /\ \A w \in Workers : InWindow(w) => held[w].job.origin = held[w].key
    /\ \A r \in DOMAIN running : running[r].job.origin = running[r].from

\* The key j was drawn and is neither waiting nor on its way in or out.
Spent(j) ==
    /\ j \in Nat
    /\ j <= queueId
    /\ j \notin DOMAIN queue
    /\ \A c \in Calls : draft[c] # None => draft[c].key # j
    /\ \A w \in Workers : InWindow(w) => held[w].key # j

FinishedOK ==
    \A j \in finished : Spent(j) /\ \A r \in DOMAIN running : running[r].from # j

WorkingOK ==
    \A w \in Workers : pc[w] = "work" =>
        /\ Spent(held[w].job.origin)
        /\ \A r \in DOMAIN running :
              running[r].from = held[w].job.origin => r = held[w].key

NoRedoRuns == \A c \in Calls : op[c] # "RedoFailedJob"

FInv == NoRedoRuns /\ OriginOK /\ FinishedOK /\ WorkingOK

\* A step that only takes things away: records, drafts, jobs in hand.
TakesAway ==
    /\ DOMAIN queue' \subseteq DOMAIN queue
    /\ \A k \in DOMAIN queue' : queue'[k] = queue[k]
    /\ DOMAIN running' \subseteq DOMAIN running
    /\ \A r \in DOMAIN running' : running'[r] = running[r]
    /\ \A c \in Calls : draft'[c] # None => draft'[c] = draft[c]
    /\ \A w \in Workers : InWindow(w)' => InWindow(w) /\ held'[w] = held[w]
    /\ \A w \in Workers : pc'[w] = "work" => pc[w] = "work" /\ held'[w] = held[w]
    /\ queueId' = queueId
    /\ finished' = finished

LEMMA TakesAwayKeeps ==
    ASSUME FInv, TakesAway, NoRedoRuns'
    PROVE  FInv'
<1>1. \A j : Spent(j) => Spent(j)'
  BY DEF Spent, TakesAway
<1>2. OriginOK'
  BY DEF FInv, OriginOK, TakesAway
<1>3. FinishedOK'
  BY <1>1 DEF FInv, FinishedOK, TakesAway
<1>4. WorkingOK'
  BY <1>1 DEF FInv, WorkingOK, TakesAway
<1> QED BY <1>2, <1>3, <1>4 DEF FInv

\* A key drawn for a new job is larger than every spent one.
LEMMA DrawKeeps ==
    ASSUME IInv, FInv, NEW c \in Calls, NEW job, job.origin = queueId + 1,
           DrawKey(c, job), UNCHANGED <<server, worker, ghosts>>, NoRedoRuns'
    PROVE  FInv'
<1>1. queueId \in Nat /\ queueId' = queueId + 1
  BY DEF IInv, TypeOK, TablesTypeOK, DrawKey
<1>2. /\ draft'[c] = [key |-> queueId + 1, job |-> job]
      /\ \A d \in Calls \ {c} : draft'[d] = draft[d]
  BY DEF IInv, TypeOK, DraftsTypeOK, DrawKey
<1>3. \A j : Spent(j) => Spent(j)'
  <2> SUFFICES ASSUME NEW j, Spent(j) PROVE Spent(j)'
    OBVIOUS
  <2>1. j \in Nat /\ j <= queueId' /\ j # queueId + 1
    BY <1>1 DEF Spent
  <2>2. \A d \in Calls : draft'[d] # None => draft'[d].key # j
    BY <1>2, <2>1 DEF Spent
  <2> QED BY <2>1, <2>2 DEF Spent, InWindow
<1>4. OriginOK'
  BY <1>2 DEF FInv, OriginOK, InWindow
<1>5. FinishedOK'
  BY <1>3 DEF FInv, FinishedOK
<1>6. WorkingOK'
  BY <1>3 DEF FInv, WorkingOK
<1> QED BY <1>4, <1>5, <1>6 DEF FInv

\* The operations of the server.
LEMMA CallStartKeeps ==
    ASSUME NoCopies, IInv, FInv, NEW c \in Calls, CallStart(c)
    PROVE  FInv'
<1>1. StartImport(c) => FInv'
  <2> SUFFICES ASSUME StartImport(c) PROVE FInv'
    OBVIOUS
  <2>1. PICK p \in Profiles : DrawKey(c, ImportJob(p, c))
    BY DEF StartImport
  <2>2. NoRedoRuns'
    BY DEF StartImport, FInv, NoRedoRuns, IInv, TypeOK, CallsTypeOK
  <2>3. UNCHANGED <<server, worker, ghosts>> /\ ImportJob(p, c).origin = queueId + 1
    BY DEF StartImport, ImportJob, NewJob
  <2> QED BY <2>1, <2>2, <2>3, DrawKeeps
<1>2. StartVisit(c) \/ StartDelete(c) => FInv'
  <2> SUFFICES ASSUME StartVisit(c) \/ StartDelete(c) PROVE FInv'
    OBVIOUS
  <2>1. NoRedoRuns'
    BY DEF StartVisit, StartDelete, VisitCommands, DeleteCommands, FInv, NoRedoRuns, IInv,
           TypeOK, CallsTypeOK
  <2>2. TakesAway
    BY DEF StartVisit, StartDelete, TakesAway, InWindow
  <2> QED BY <2>1, <2>2, TakesAwayKeeps
<1>3. ~StartRedo(c)
  BY DEF StartRedo, NoCopies
<1> QED BY <1>1, <1>2, <1>3 DEF CallStart

LEMMA PutJobKeeps ==
    ASSUME IInv, FInv, NEW c \in Calls, PutJob(c)
    PROVE  FInv'
<1> USE DEF PutJob, Put
<1> DEFINE key == draft[c].key
<1>1. /\ draft[c] # None /\ draft'[c] = None
      /\ \A d \in Calls \ {c} : draft'[d] = draft[d]
  BY DEF IInv, TypeOK, DraftsTypeOK
<1>2. /\ DOMAIN queue' = DOMAIN queue \cup {key}
      /\ queue'[key] = draft[c].job
      /\ \A k \in DOMAIN queue : k # key => queue'[k] = queue[k]
  OBVIOUS
<1>3. \A j : Spent(j) => Spent(j)'
  BY <1>1, <1>2 DEF Spent, InWindow
<1>4. OriginOK'
  BY <1>1, <1>2 DEF FInv, OriginOK, InWindow
<1>5. FinishedOK'
  BY <1>3 DEF FInv, FinishedOK
<1>6. WorkingOK'
  BY <1>3 DEF FInv, WorkingOK
<1>7. NoRedoRuns'
  BY DEF FInv, NoRedoRuns
<1> QED BY <1>4, <1>5, <1>6, <1>7 DEF FInv

LEMMA CallStepKeeps ==
    ASSUME IInv, FInv, NEW c \in Calls, CallStep(c)
    PROVE  FInv'
<1>1. ScanRunning(c) \/ Return(c) => FInv'
  <2> SUFFICES ASSUME ScanRunning(c) \/ Return(c) PROVE FInv'
    OBVIOUS
  <2>1. NoRedoRuns'
    BY ConstantsAssumption
    DEF ScanRunning, Return, FInv, NoRedoRuns, IInv, TypeOK, CallsTypeOK, AllCommands
  <2>2. TakesAway
    BY DEF ScanRunning, Return, TakesAway, InWindow
  <2> QED BY <2>1, <2>2, TakesAwayKeeps
<1>2. DeleteNext(c) => FInv'
  <2> SUFFICES ASSUME DeleteNext(c) PROVE FInv'
    OBVIOUS
  <2>1. NoRedoRuns'
    BY DEF DeleteNext, FInv, NoRedoRuns
  <2>2. TakesAway
    BY DEF DeleteNext, Delete, TakesAway, InWindow
  <2> QED BY <2>1, <2>2, TakesAwayKeeps
<1>3. ~RedoNext(c)
  BY DEF RedoNext, FInv, NoRedoRuns
<1>4. ASSUME NEW p \in Profiles, VisitUser(c, p)
      PROVE  FInv'
  <2>1. DrawKey(c, UserJob(c)) /\ UserJob(c).origin = queueId + 1
    BY <1>4 DEF VisitUser, UserJob, NewJob
  <2>2. NoRedoRuns' /\ UNCHANGED <<server, worker, ghosts>>
    BY <1>4 DEF VisitUser, FInv, NoRedoRuns
  <2> QED BY <2>1, <2>2, DrawKeeps
<1>5. ASSUME NEW p \in Profiles, VisitFriend(c, p)
      PROVE  FInv'
  <2>1. NoRedoRuns' /\ UNCHANGED <<server, worker, ghosts>>
    BY <1>5 DEF VisitFriend, FInv, NoRedoRuns
  <2>2. FriendJob(p, c).origin = queueId + 1
    BY DEF FriendJob, NewJob
  <2>3. CASE DrawKey(c, FriendJob(p, c))
    BY <2>1, <2>2, <2>3, DrawKeeps
  <2>4. CASE UNCHANGED <<draft, queueId>>
    <3>1. TakesAway
      BY <2>1, <2>4 DEF TakesAway, InWindow
    <3> QED BY <2>1, <3>1, TakesAwayKeeps
  <2> QED BY <1>5, <2>3, <2>4 DEF VisitFriend
<1> QED BY <1>1, <1>2, <1>3, <1>4, <1>5, PutJobKeeps DEF CallStep

\* The workers.
LEMMA DequeScanKeeps ==
    ASSUME IInv, FInv, NEW w \in Workers, DequeScan(w)
    PROVE  FInv'
<1>1. First(queue) \in DOMAIN queue
  <2>1. DOMAIN queue \subseteq Nat /\ DOMAIN queue # {}
    BY DEF DequeScan, IInv, TypeOK, TablesTypeOK
  <2> QED BY <2>1, FirstProperties
<1>2. /\ pc'[w] = "delete" /\ held'[w] = [key |-> First(queue), job |-> queue[First(queue)]]
      /\ \A v \in Workers \ {w} : pc'[v] = pc[v] /\ held'[v] = held[v]
  BY DEF DequeScan, IInv, TypeOK, WorkersTypeOK
<1>3. UNCHANGED <<queue, running, draft, queueId, finished, op>>
  BY DEF DequeScan
<1> HIDE DEF server, worker, call, ids, ghosts
<1>4. \A j : Spent(j) => Spent(j)'
  BY <1>1, <1>2, <1>3 DEF Spent, InWindow
<1>5. OriginOK'
  BY <1>1, <1>2, <1>3 DEF FInv, OriginOK, InWindow
<1>6. FinishedOK'
  BY <1>3, <1>4 DEF FInv, FinishedOK
<1>7. WorkingOK'
  BY <1>2, <1>3, <1>4 DEF FInv, WorkingOK
<1>8. NoRedoRuns'
  BY <1>3 DEF FInv, NoRedoRuns
<1> QED BY <1>5, <1>6, <1>7, <1>8 DEF FInv

LEMMA ClaimJobKeeps ==
    ASSUME IInv, FInv, NEW w \in Workers, ClaimJob(w)
    PROVE  FInv'
<1> DEFINE new == runningId + 1
<1>k. PICK key : key = held[w].key
  OBVIOUS
<1>1. /\ InWindow(w) /\ held[w] \in Held /\ runningId \in Nat
      /\ DOMAIN running \subseteq 1 .. runningId
  BY DEF ClaimJob, InWindow, IInv, TypeOK, WorkersTypeOK, TablesTypeOK
<1>2. /\ pc'[w] = "work" /\ held'[w] = [key |-> new, job |-> held[w].job]
      /\ \A v \in Workers \ {w} : pc'[v] = pc[v] /\ held'[v] = held[v]
  BY DEF ClaimJob, IInv, TypeOK, WorkersTypeOK
<1>3. UNCHANGED <<queue, draft, queueId, finished, op>>
  BY DEF ClaimJob
<1>4. /\ DOMAIN running' = DOMAIN running \cup {new}
      /\ running'[new] = [job |-> held[w].job, from |-> key, worker |-> w]
      /\ \A r \in DOMAIN running : r # new => running'[r] = running[r]
  BY <1>k DEF ClaimJob, Put
<1>5. new \notin DOMAIN running
  BY <1>1
<1>6. held[w].job.origin = key /\ key \in Nat
  BY <1>1, <1>k DEF FInv, OriginOK, Held
<1> HIDE DEF new, server, worker, call, ids, ghosts
<1>7. Spent(key)'
  <2>1. /\ key <= queueId /\ key \notin DOMAIN queue
        /\ \A c \in Calls : draft[c] # None => draft[c].key # key
    BY <1>1, <1>k DEF ClaimJob, IInv, WindowKeysOK, DraftKeysOK, InWindow
  <2>2. \A v \in Workers : ~InWindow(v)'
    BY <1>1, <1>2 DEF IInv, LockOK, InWindow
  <2> QED BY <1>3, <1>6, <2>1, <2>2 DEF Spent
<1>8. \A j : Spent(j) => Spent(j)' /\ j # key
  BY <1>1, <1>2, <1>3, <1>k DEF Spent, InWindow
<1>9. OriginOK'
  <2>1. \A r \in DOMAIN running' : running'[r].job.origin = running'[r].from
    BY <1>4, <1>5, <1>6 DEF FInv, OriginOK
  <2> QED BY <1>2, <1>3, <2>1 DEF FInv, OriginOK, InWindow
<1>10. FinishedOK'
  <2> SUFFICES ASSUME NEW j \in finished
               PROVE  Spent(j)' /\ \A r \in DOMAIN running' : running'[r].from # j
    BY <1>3 DEF FinishedOK
  <2>1. Spent(j) /\ \A r \in DOMAIN running : running[r].from # j
    BY DEF FInv, FinishedOK
  <2> QED BY <1>4, <1>5, <1>8, <2>1
<1>11. WorkingOK'
  <2> SUFFICES ASSUME NEW v \in Workers, pc'[v] = "work", NEW j, j = held'[v].job.origin
               PROVE  /\ Spent(j)'
                      /\ \A r \in DOMAIN running' :
                            running'[r].from = j => r = held'[v].key
    BY DEF WorkingOK, Spent
  <2>1. CASE v = w
    <3>1. j = key /\ held'[v].key = new
      BY <1>2, <1>6, <2>1
    <3>2. \A r \in DOMAIN running : running[r].from # key
      BY <1>1, <1>k DEF IInv, SingleHandout
    <3> QED BY <1>4, <1>5, <1>7, <3>1, <3>2
  <2>2. CASE v # w
    <3>1. pc[v] = "work" /\ held'[v] = held[v]
      BY <1>2, <2>2
    <3>2. /\ Spent(j)
          /\ \A r \in DOMAIN running : running[r].from = j => r = held[v].key
      BY <3>1 DEF FInv, WorkingOK
    <3> QED BY <1>4, <1>5, <1>8, <3>1, <3>2
  <2> QED BY <2>1, <2>2
<1>12. NoRedoRuns'
  BY <1>3 DEF FInv, NoRedoRuns
<1> QED BY <1>9, <1>10, <1>11, <1>12 DEF FInv

LEMMA FinishDeleteKeeps ==
    ASSUME IInv, FInv, NEW w \in Workers, FinishDelete(w)
    PROVE  FInv'
<1> DEFINE origin == held[w].job.origin
<1>1. /\ pc[w] = "work" /\ pc'[w] = "record"
      /\ \A v \in Workers \ {w} : pc'[v] = pc[v]
  BY DEF FinishDelete, IInv, TypeOK, WorkersTypeOK
<1>2. /\ DOMAIN running' = DOMAIN running \ {held[w].key}
      /\ \A r \in DOMAIN running' : running'[r] = running[r]
      /\ finished' = finished \cup {origin}
  BY DEF FinishDelete, Delete
<1>3. UNCHANGED <<queue, draft, queueId, held, op>>
  BY DEF FinishDelete
<1> HIDE DEF server, worker, call, ids, ghosts
<1>4. \A j : Spent(j) => Spent(j)'
  BY <1>1, <1>3 DEF Spent, InWindow
<1>5. OriginOK'
  BY <1>1, <1>2, <1>3 DEF FInv, OriginOK, InWindow
<1>6. FinishedOK'
  <2>1. /\ Spent(origin)
        /\ \A r \in DOMAIN running : running[r].from = origin => r = held[w].key
    BY <1>1 DEF FInv, WorkingOK
  <2>2. \A r \in DOMAIN running' : running'[r].from # origin
    BY <1>2, <2>1
  <2> QED BY <1>2, <1>4, <2>1, <2>2 DEF FInv, FinishedOK
<1>7. WorkingOK'
  BY <1>1, <1>2, <1>3, <1>4 DEF FInv, WorkingOK
<1>8. NoRedoRuns'
  BY <1>3 DEF FInv, NoRedoRuns
<1> QED BY <1>5, <1>6, <1>7, <1>8 DEF FInv

LEMMA LettingGoKeeps ==
    ASSUME IInv, FInv, NEW w \in Workers,
           \/ DequeDelete(w) \/ FinishRecord(w) \/ WorkerFail(w)
           \/ WorkerPanic(w) \/ WorkerRestart(w)
    PROVE  FInv'
<1>1. TakesAway
  BY DEF DequeDelete, FinishRecord, WorkerFail, WorkerPanic, WorkerRestart, Delete, TakesAway,
         InWindow, IInv, TypeOK, WorkersTypeOK
<1>2. NoRedoRuns'
  BY DEF DequeDelete, FinishRecord, WorkerFail, WorkerPanic, WorkerRestart, FInv, NoRedoRuns
<1> QED BY <1>1, <1>2, TakesAwayKeeps

LEMMA ServerCrashKeeps ==
    ASSUME FInv, ServerCrash
    PROVE  FInv'
<1>1. NoRedoRuns'
  BY ConstantsAssumption DEF ServerCrash, NoRedoRuns, AllCommands
<1>2. TakesAway
  BY DEF ServerCrash, TakesAway, InCall, InWindow
<1> QED BY <1>1, <1>2, TakesAwayKeeps

LEMMA NextFInv == NoCopies /\ IInv /\ FInv /\ [Next]_vars => FInv'
<1> SUFFICES ASSUME NoCopies, IInv, FInv, [Next]_vars PROVE FInv'
  OBVIOUS
<1>1. ASSUME NEW c \in Calls, CallStart(c) \/ CallStep(c) PROVE FInv'
  BY <1>1, CallStartKeeps, CallStepKeeps
<1>2. ASSUME NEW w \in Workers, DequeScan(w) \/ RpcStep(w) \/ WorkStep(w) \/ WorkerRestart(w)
      PROVE  FInv'
  BY <1>2, DequeScanKeeps, ClaimJobKeeps, FinishDeleteKeeps, LettingGoKeeps
  DEF RpcStep, WorkStep
<1>3. CASE ServerCrash
  BY <1>3, ServerCrashKeeps
<1>4. CASE UNCHANGED vars
  <2>1. TakesAway /\ NoRedoRuns'
    BY <1>4 DEF vars, TakesAway, InWindow, FInv, NoRedoRuns
  <2> QED BY <2>1, TakesAwayKeeps
<1> QED BY <1>1, <1>2, <1>3, <1>4 DEF Next

\* As long as nobody calls RedoFailedJob, which enqueues copies of running jobs
\* (server/job.go:368-389), no archived job is in the running table, whatever
\* the other commands delete under the scans of each other and wherever the
\* server crashes between the writes of GetFeedJob and FinishJob.
THEOREM FinishedTheorem == NoCopies => (Spec => []FinishedJobNotRunning)
<1>1. Init => FInv
  BY ConstantsAssumption
  DEF Init, FInv, NoRedoRuns, OriginOK, FinishedOK, WorkingOK, InWindow, Empty, AllCommands
<1>2. FInv => FinishedJobNotRunning
  BY DEF FInv, OriginOK, FinishedOK, FinishedJobNotRunning
<1>3. ASSUME NoCopies
      PROVE  Spec => []FinishedJobNotRunning
  <2>1. IInv /\ FInv /\ [Next]_vars => FInv'
    BY <1>3, NextFInv
  <2> QED BY <1>1, <1>2, <2>1, InitIInv, NextIInv, PTL DEF Spec
<1> QED BY <1>3

-----------------------------------------------------------------------------
(* The refinement of JobBoard.                                             *)

\* The lock is held by a call that is handing out.
LockHeld == mutex # None => mutex \in Given

LEMMA InitLockHeld == Init => LockHeld
BY DEF Init, LockHeld

\* Whoever does not take or leave a window keeps it.
LEMMA SameWindows ==
    ASSUME LockHeld, UNCHANGED mutex, \A w \in Workers : InWindow(w) => InWindow(w)'
    PROVE  LockHeld'
BY DEF LockHeld, Given

LEMMA NextLockHeld == IInv /\ LockHeld /\ [Next]_vars => LockHeld'
<1> SUFFICES ASSUME IInv, LockHeld, [Next]_vars PROVE LockHeld'
  OBVIOUS
<1>0. WorkersTypeOK
  BY DEF IInv, TypeOK
<1>1. ASSUME NEW c \in Calls, CallStart(c) \/ CallStep(c) PROVE LockHeld'
  <2>1. UNCHANGED worker
    BY <1>1 DEF CallStart, CallStep, StartImport, StartVisit, StartDelete, StartRedo, PutJob,
                ScanRunning, DeleteNext, RedoNext, Return, VisitUser, VisitFriend
  <2> QED BY <2>1, SameWindows DEF InWindow
<1>2. ASSUME NEW w \in Workers, DequeScan(w) PROVE LockHeld'
  <2>1. mutex' = w /\ pc'[w] = "delete"
    BY <1>0, <1>2 DEF DequeScan, WorkersTypeOK
  <2> QED BY <2>1 DEF LockHeld, Given, InWindow
<1>3. ASSUME NEW w \in Workers, DequeDelete(w) PROVE LockHeld'
  <2>1. UNCHANGED mutex /\ pc'[w] = "claim" /\ \A v \in Workers \ {w} : pc'[v] = pc[v]
    BY <1>0, <1>3 DEF DequeDelete, WorkersTypeOK
  <2> QED BY <2>1, SameWindows DEF InWindow
<1>4. ASSUME NEW w \in Workers, ClaimJob(w) PROVE LockHeld'
  BY <1>4 DEF ClaimJob, LockHeld
<1>5. ASSUME NEW w \in Workers, FinishRecord(w) \/ WorkStep(w) \/ WorkerRestart(w)
      PROVE  LockHeld'
  <2>1. PICK where \in {"idle", "dead", "record"} :
            /\ UNCHANGED mutex /\ pc[w] \in {"work", "record", "dead"}
            /\ pc' = [pc EXCEPT ![w] = where]
    BY <1>5 DEF FinishRecord, WorkStep, WorkerFail, WorkerPanic, FinishDelete, WorkerRestart
  <2>2. \A v \in Workers : InWindow(v) => pc'[v] = pc[v]
    BY <1>0, <2>1 DEF WorkersTypeOK, InWindow
  <2> QED BY <2>1, <2>2, SameWindows DEF InWindow
<1>6. CASE UNCHANGED vars
  BY <1>6, SameWindows DEF vars, InWindow
<1>7. CASE ServerCrash
  BY <1>7 DEF ServerCrash, LockHeld
<1> QED BY <1>1, <1>2, <1>3, <1>4, <1>5, <1>6, <1>7 DEF Next, RpcStep

BoardInv == IInv /\ LockHeld

\* What the board shows is seen in the tables and in what the workers hold.
LEMMA WindowsOf ==
    ASSUME BoardInv
    PROVE  /\ Given = IF mutex = None THEN {} ELSE {mutex}
           /\ mutex \in Given \/ mutex = None
           /\ mutex \in Workers \cup {None} /\ None \notin Workers
BY ConstantsAssumption DEF BoardInv, LockHeld, Given, IInv, LockOK, TypeOK, WorkersTypeOK

LEMMA HeldEntries ==
    ASSUME BoardInv, NEW w \in Workers, pc[w] \in {"delete", "claim", "work"}
    PROVE  held[w] = Entry(held[w].key, held[w].job) /\ held[w].key \in Nat
BY DEF BoardInv, IInv, TypeOK, WorkersTypeOK, Held, Entry

LEMMA EntryFields ==
    ASSUME NEW k, NEW job
    PROVE  Entry(k, job).key = k /\ Entry(k, job).job = job
BY DEF Entry

LEMMA TableKeys ==
    ASSUME BoardInv
    PROVE  /\ DOMAIN queue \subseteq Nat /\ DOMAIN running \subseteq Nat
           /\ runningId + 1 \notin DOMAIN running /\ queueId \in Nat /\ runningId \in Nat
BY DEF BoardInv, IInv, TypeOK, TablesTypeOK

\* The notes on the board have different keys.
LEMMA KeysDiffer ==
    ASSUME BoardInv
    PROVE  /\ \A r, s \in DOMAIN running : RunningEntry(r).key = RunningEntry(s).key => r = s
           /\ \A r \in DOMAIN running : /\ RunningEntry(r).key \notin DOMAIN queue
                                        /\ \A w \in Given : held[w].key # RunningEntry(r).key
           /\ \A note \in Out : \A k \in DOMAIN queue \ {held[w].key : w \in Given} : note.key # k
           /\ \A r \in DOMAIN running : RunningEntry(r).key = running[r].from
           /\ \A note \in Waiting : note.key \in DOMAIN queue
<1>1. \A r \in DOMAIN running : RunningEntry(r).key = running[r].from
  BY EntryFields DEF RunningEntry
<1>2. SingleHandout
  BY DEF BoardInv, IInv
<1>3. \A r \in DOMAIN running : /\ RunningEntry(r).key \notin DOMAIN queue
                                /\ \A w \in Given : held[w].key # RunningEntry(r).key
  BY <1>1, <1>2 DEF SingleHandout, Given
<1>4. \A note \in Waiting : note.key \in DOMAIN queue
  BY EntryFields DEF Waiting
<1>5. \A r, s \in DOMAIN running : RunningEntry(r).key = RunningEntry(s).key => r = s
  BY <1>1, <1>2 DEF SingleHandout
<1>6. \A note \in Out : \A k \in DOMAIN queue \ {held[w].key : w \in Given} : note.key # k
  BY <1>3 DEF Out
<1> QED BY <1>1, <1>3, <1>4, <1>5, <1>6

\* A step that leaves the tables, the windows and what the board says the workers
\* hold alone changes nothing on it.
LEMMA QuietBoard ==
    ASSUME UNCHANGED <<queue, running, mutex>>, Given' = Given,
           \A w \in Given : held'[w] = held[w],
           \A w \in Workers \ Given :
               \/ pc'[w] = pc[w] /\ held'[w] = held[w]
               \/ pc[w] # "work" /\ pc'[w] # "work"
    PROVE  UNCHANGED JB!vars
<1>1. Waiting' = Waiting
  BY DEF Waiting
<1>2. \A r \in DOMAIN running : RunningEntry(r)' = RunningEntry(r)
  BY DEF RunningEntry
<1>3. Out' = Out
  BY <1>2 DEF Out
<1>4. Holds' = Holds
  BY <1>2 DEF Holds
<1> QED BY <1>1, <1>3, <1>4 DEF JB!vars

\* EnqueJob's Put is a note posted.
LEMMA PutPosts ==
    ASSUME BoardInv, NEW c \in Calls, PutJob(c)
    PROVE  JB!Post(draft[c]) /\ draft[c] \in Waiting' \ Waiting
<1> DEFINE note == draft[c]
<1>1. note = Entry(note.key, note.job) /\ note.key \in Nat
  BY DEF PutJob, BoardInv, IInv, TypeOK, DraftsTypeOK, Held, Entry
<1>2. /\ note.key \notin DOMAIN queue
      /\ \A r \in DOMAIN running : running[r].from # note.key
      /\ \A w \in Given : held[w].key # note.key
  BY DEF PutJob, BoardInv, IInv, DraftKeysOK, Given
<1>3. /\ DOMAIN queue' = DOMAIN queue \cup {note.key} /\ queue'[note.key] = note.job
      /\ \A k \in DOMAIN queue : queue'[k] = queue[k]
      /\ UNCHANGED <<running, worker>>
  BY <1>2 DEF PutJob, Put
<1>4. Given' = Given /\ \A w \in Given : held'[w] = held[w]
  BY <1>3 DEF Given, InWindow
<1> HIDE DEF note
<1>5. Waiting' = Waiting \cup {note}
  BY <1>1, <1>2, <1>3, <1>4 DEF Waiting
<1>6. \A r \in DOMAIN running : RunningEntry(r)' = RunningEntry(r)
  BY <1>3 DEF RunningEntry
<1>7. Out' = Out /\ Holds' = Holds
  BY <1>3, <1>4, <1>6 DEF Out, Holds
<1>8. \A other \in Waiting \cup Out : other.key # note.key
  BY <1>2, KeysDiffer DEF Out
<1>9. note \notin Waiting
  BY <1>8
<1> QED BY <1>3, <1>5, <1>7, <1>8, <1>9 DEF JB!Post, note

\* The scan of GetFeedJob hands out the oldest note.
LEMMA ScanHandsOut ==
    ASSUME BoardInv, NEW w \in Workers, DequeScan(w)
    PROVE  JB!HandOut(w, held'[w]) /\ held'[w] \in Waiting
<1> DEFINE key == First(queue)
           note == Entry(key, queue[key])
<1>1. key \in DOMAIN queue /\ \A k \in DOMAIN queue : key <= k
  BY TableKeys, FirstProperties DEF DequeScan
<1>2. Given = {} /\ mutex = None
  BY WindowsOf DEF DequeScan
<1>3. /\ held' = [held EXCEPT ![w] = note] /\ pc' = [pc EXCEPT ![w] = "delete"]
      /\ mutex' = w /\ UNCHANGED server /\ pc[w] = "idle"
  BY DEF DequeScan, Entry
<1> HIDE DEF key
<1>4. note.key = key
  BY EntryFields
<1> HIDE DEF note
<1>5. /\ pc'[w] = "delete" /\ held'[w] = note
      /\ \A v \in Workers \ {w} : pc'[v] = pc[v] /\ held'[v] = held[v]
  BY <1>3 DEF BoardInv, IInv, TypeOK, WorkersTypeOK
<1>6. Given' = {w}
  BY <1>2, <1>5 DEF Given, InWindow
<1>7. Waiting = {Entry(k, queue[k]) : k \in DOMAIN queue}
  BY <1>2 DEF Waiting
<1>8. note \in Waiting /\ \A other \in Waiting : note.key <= other.key
  BY <1>1, <1>4, <1>7, KeysDiffer DEF note
<1>9. Waiting' = Waiting \ {note}
  <2>1. Waiting' = {Entry(k, queue[k]) : k \in DOMAIN queue \ {key}}
    BY <1>3, <1>4, <1>5, <1>6 DEF Waiting
  <2>2. \A k \in DOMAIN queue : Entry(k, queue[k]) = note <=> k = key
    BY <1>4, EntryFields DEF note
  <2> QED BY <1>7, <2>1, <2>2
<1>10. \A r \in DOMAIN running : RunningEntry(r)' = RunningEntry(r)
  BY <1>3 DEF RunningEntry
<1>11. Out' = Out \cup {note}
  BY <1>2, <1>3, <1>5, <1>6, <1>10 DEF Out
<1>12. Holds[w] = None /\ Holds' = [Holds EXCEPT ![w] = note]
  <2>1. Holds[w] = None /\ Holds'[w] = note
    BY <1>2, <1>3, <1>5, <1>6 DEF Holds
  <2>2. \A v \in Workers \ {w} : Holds'[v] = Holds[v]
    BY <1>2, <1>3, <1>5, <1>6, <1>10 DEF Holds
  <2> QED BY <2>1, <2>2 DEF Holds
<1> QED BY <1>2, <1>3, <1>5, <1>8, <1>9, <1>11, <1>12 DEF JB!HandOut

\* Its delete shows nothing: the record no longer counted as waiting.
LEMMA DeleteIsQuiet ==
    ASSUME BoardInv, NEW w \in Workers, DequeDelete(w)
    PROVE  UNCHANGED JB!vars
<1>1. /\ pc'[w] = "claim" /\ \A v \in Workers \ {w} : pc'[v] = pc[v]
      /\ UNCHANGED <<running, held, mutex>>
  BY DEF DequeDelete, BoardInv, IInv, TypeOK, WorkersTypeOK
<1>2. w \in Given /\ Given' = Given
  BY <1>1 DEF DequeDelete, Given, InWindow
<1>3. /\ DOMAIN queue' = DOMAIN queue \ {held[w].key}
      /\ \A k \in DOMAIN queue' : queue'[k] = queue[k]
  BY DEF DequeDelete, Delete
<1>4. Waiting' = Waiting
  BY <1>1, <1>2, <1>3 DEF Waiting
<1>5. \A r \in DOMAIN running : RunningEntry(r)' = RunningEntry(r)
  BY <1>1 DEF RunningEntry
<1>6. Out' = Out
  BY <1>1, <1>2, <1>5 DEF Out
<1>7. Holds' = Holds
  BY <1>1, <1>2, <1>5 DEF Holds, Given, InWindow
<1> QED BY <1>1, <1>4, <1>6, <1>7 DEF JB!vars

\* Its Put into the running table ends the handout.
LEMMA ClaimIsHanded ==
    ASSUME BoardInv, NEW w \in Workers, ClaimJob(w)
    PROVE  JB!Handed
<1>0. PICK key : key = runningId + 1
  OBVIOUS
<1>1. w \in Given /\ mutex = w /\ Given = {w} /\ mutex # None
  BY WindowsOf DEF ClaimJob, Given, InWindow
<1>2. held[w] = Entry(held[w].key, held[w].job)
  BY HeldEntries DEF ClaimJob
<1>3. /\ DOMAIN running' = DOMAIN running \cup {key} /\ key \notin DOMAIN running
      /\ \A r \in DOMAIN running : running'[r] = running[r]
      /\ running'[key].from = held[w].key /\ running'[key].job = held[w].job
      /\ UNCHANGED queue /\ mutex' = None
  BY <1>0, TableKeys DEF ClaimJob, Put
<1>4. /\ pc'[w] = "work" /\ held'[w].key = key
      /\ \A v \in Workers \ {w} : pc'[v] = pc[v] /\ held'[v] = held[v]
  BY <1>0 DEF ClaimJob, BoardInv, IInv, TypeOK, WorkersTypeOK
<1>5. \A v \in Workers : pc[v] = "work" => held[v].key # key
  <2>1. \A v \in Workers : pc[v] = "work" => held[v].key \in Nat /\ held[v].key <= runningId
    BY HeldEntries DEF BoardInv, IInv, WindowKeysOK
  <2>2. runningId \in Nat
    BY TableKeys
  <2> QED BY <1>0, <2>1, <2>2
<1>6. Given' = {}
  BY <1>1, <1>4 DEF Given, InWindow
<1>7. held[w].key \notin DOMAIN queue
  BY DEF ClaimJob, BoardInv, IInv, WindowKeysOK
<1>8. Waiting' = Waiting
  BY <1>1, <1>3, <1>6, <1>7 DEF Waiting
<1>9. /\ \A r \in DOMAIN running : RunningEntry(r)' = RunningEntry(r)
      /\ RunningEntry(key)' = held[w]
  BY <1>2, <1>3 DEF RunningEntry
<1>10. Out' = Out
  BY <1>1, <1>3, <1>6, <1>9 DEF Out
<1>11. Holds' = Holds
  <2>1. Holds'[w] = held[w] /\ Holds[w] = held[w]
    BY <1>1, <1>3, <1>4, <1>6, <1>9 DEF Holds
  <2>2. \A v \in Workers \ {w} : Holds'[v] = Holds[v]
    BY <1>1, <1>3, <1>4, <1>5, <1>6, <1>9 DEF Holds
  <2> QED BY <2>1, <2>2 DEF Holds
<1> QED BY <1>1, <1>3, <1>8, <1>10, <1>11 DEF JB!Handed

\* A worker that is in no handout and stops working gives up its note.
LEMMA LetGoGivesUp ==
    ASSUME BoardInv, NEW w \in Workers, WorkerFail(w) \/ WorkerPanic(w)
    PROVE  JB!GiveUp(w)
<1>1. /\ pc[w] = "work" /\ pc'[w] \in {"idle", "dead"}
      /\ \A v \in Workers \ {w} : pc'[v] = pc[v] /\ held'[v] = held[v]
      /\ UNCHANGED <<queue, running, mutex>>
  BY DEF WorkerFail, WorkerPanic, BoardInv, IInv, TypeOK, WorkersTypeOK
<1>2. w \notin Given /\ Given' = Given
  BY <1>1 DEF Given, InWindow
<1>3. mutex # w
  BY <1>1, <1>2, WindowsOf
<1>4. \A r \in DOMAIN running : RunningEntry(r)' = RunningEntry(r)
  BY <1>1 DEF RunningEntry
<1>5. Waiting' = Waiting /\ Out' = Out
  <2>1. \A v \in Given : held'[v] = held[v]
    BY <1>1, <1>2 DEF Given
  <2>2. Waiting' = Waiting
    BY <1>1, <1>2, <2>1 DEF Waiting
  <2>3. Out' = Out
    BY <1>1, <1>2, <1>4, <2>1 DEF Out
  <2> QED BY <2>2, <2>3
<1>6. Holds' = [Holds EXCEPT ![w] = None]
  <2>1. Holds'[w] = None
    BY <1>1, <1>2 DEF Holds
  <2>2. \A v \in Workers \ {w} : Holds'[v] = Holds[v]
    BY <1>1, <1>2, <1>4 DEF Holds
  <2> QED BY <2>1, <2>2 DEF Holds
<1> QED BY <1>1, <1>3, <1>5, <1>6 DEF JB!GiveUp

\* FinishJob's delete finishes the worker's own note, or nothing if a command
\* deleted the record.
LEMMA FinishFinishes ==
    ASSUME BoardInv, NEW w \in Workers, FinishDelete(w)
    PROVE  JB!Finish(w) \/ UNCHANGED JB!vars
<1>0. PICK key : key = held[w].key
  OBVIOUS
<1>1. /\ pc[w] = "work" /\ pc'[w] = "record"
      /\ \A v \in Workers \ {w} : pc'[v] = pc[v]
      /\ UNCHANGED <<queue, held, mutex>>
  BY DEF FinishDelete, BoardInv, IInv, TypeOK, WorkersTypeOK
<1>2. w \notin Given /\ Given' = Given
  BY <1>1 DEF Given, InWindow
<1>3. mutex # w
  BY <1>1, <1>2, WindowsOf
<1>4. /\ DOMAIN running' = DOMAIN running \ {key}
      /\ \A r \in DOMAIN running' : running'[r] = running[r]
  BY <1>0 DEF FinishDelete, Delete
<1>5. \A r \in DOMAIN running' : RunningEntry(r)' = RunningEntry(r)
  BY <1>4 DEF RunningEntry
<1>6. Waiting' = Waiting
  BY <1>1, <1>2 DEF Waiting
<1>7. \A v \in Workers \ {w} : pc[v] = "work" => held[v].key # key
  BY <1>0, <1>1 DEF BoardInv, IInv, OwnRecord
<1>8. Holds' = [Holds EXCEPT ![w] = None]
  <2>1. Holds'[w] = None
    BY <1>1, <1>2 DEF Holds
  <2>2. \A v \in Workers \ {w} : Holds'[v] = Holds[v]
    BY <1>1, <1>2, <1>4, <1>5, <1>7 DEF Holds
  <2> QED BY <2>1, <2>2 DEF Holds
<1>9. CASE key \in DOMAIN running
  <2>1. Holds[w] = RunningEntry(key) /\ RunningEntry(key) \in Out
    BY <1>0, <1>1, <1>2, <1>9 DEF Holds, Out
  <2>2. \A r \in DOMAIN running : RunningEntry(r) = RunningEntry(key) <=> r = key
    BY <1>9, KeysDiffer
  <2>3. \A v \in Given : held[v] # RunningEntry(key)
    BY <1>9, KeysDiffer
  <2>4. Out' = Out \ {RunningEntry(key)}
    BY <1>1, <1>2, <1>4, <1>5, <2>2, <2>3 DEF Out
  <2> QED BY <1>1, <1>3, <1>6, <1>8, <2>1, <2>4 DEF JB!Finish
<1>10. CASE key \notin DOMAIN running
  <2>1. Holds[w] = None
    BY <1>0, <1>1, <1>2, <1>10 DEF Holds
  <2>2. Holds' = Holds
    BY <1>8, <2>1 DEF Holds
  <2>3. Out' = Out
    BY <1>1, <1>2, <1>4, <1>5, <1>10 DEF Out
  <2> QED BY <1>1, <1>6, <2>2, <2>3 DEF JB!vars
<1> QED BY <1>9, <1>10

\* A delete command takes a waiting note off, unless a handout of it has begun
\* or it is gone.
LEMMA DeleteFromQueue ==
    ASSUME BoardInv, NEW key, queue' = Delete(queue, key), UNCHANGED <<running, worker>>
    PROVE  \/ \E note \in Waiting \cup Out : JB!TakeOff(note)
           \/ UNCHANGED JB!vars
<1>1. Given' = Given /\ \A w \in Given : held'[w] = held[w]
  BY DEF Given, InWindow
<1>2. \A r \in DOMAIN running : RunningEntry(r)' = RunningEntry(r)
  BY DEF RunningEntry
<1>3. Out' = Out /\ Holds' = Holds /\ mutex' = mutex
  BY <1>1, <1>2 DEF Out, Holds
<1>4. /\ DOMAIN queue' = DOMAIN queue \ {key}
      /\ \A k \in DOMAIN queue' : queue'[k] = queue[k]
  BY DEF Delete
<1>5. CASE key \in DOMAIN queue \ {held[w].key : w \in Given}
  <2>1. PICK note : note = Entry(key, queue[key])
    OBVIOUS
  <2>2. note \in Waiting /\ note.key = key
    BY <1>5, <2>1, EntryFields DEF Waiting
  <2>3. Waiting' = Waiting \ {note}
    <3>1. \A k \in DOMAIN queue : Entry(k, queue[k]) = note <=> k = key
      BY <2>1, EntryFields
    <3> QED BY <1>1, <1>4, <3>1 DEF Waiting
  <2>4. note \notin Out
    BY <1>5, <2>2, KeysDiffer
  <2>5. \A w \in Workers : Holds[w] = note => Holds[w] = None
    BY <2>4 DEF Holds, Out
  <2>6. Holds' = [w \in Workers |-> IF Holds[w] = note THEN None ELSE Holds[w]]
    BY <1>3, <2>5 DEF Holds
  <2>7. mutex = None \/ Holds[mutex] # note
    BY <2>4, WindowsOf DEF Holds, Out
  <2> QED BY <1>3, <2>2, <2>3, <2>4, <2>6, <2>7 DEF JB!TakeOff
<1>6. CASE key \notin DOMAIN queue \ {held[w].key : w \in Given}
  <2>1. Waiting' = Waiting
    BY <1>1, <1>4, <1>6 DEF Waiting
  <2> QED BY <1>3, <2>1 DEF JB!vars
<1> QED BY <1>5, <1>6

\* It takes off a note that is out, unless it was finished meanwhile.
LEMMA DeleteFromRunning ==
    ASSUME BoardInv, NEW key, running' = Delete(running, key), UNCHANGED <<queue, worker>>
    PROVE  \/ \E note \in Waiting \cup Out : JB!TakeOff(note)
           \/ UNCHANGED JB!vars
<1>1. Given' = Given /\ \A w \in Given : held'[w] = held[w]
  BY DEF Given, InWindow
<1>2. Waiting' = Waiting /\ mutex' = mutex
  BY <1>1 DEF Waiting
<1>3. /\ DOMAIN running' = DOMAIN running \ {key}
      /\ \A r \in DOMAIN running' : running'[r] = running[r]
  BY DEF Delete
<1>4. \A r \in DOMAIN running' : RunningEntry(r)' = RunningEntry(r)
  BY <1>3 DEF RunningEntry
<1>5. CASE key \in DOMAIN running
  <2>1. PICK note : note = RunningEntry(key)
    OBVIOUS
  <2>2. /\ note \in Out /\ note \notin Waiting
        /\ \A r \in DOMAIN running : RunningEntry(r) = note <=> r = key
        /\ \A w \in Given : held[w] # note
    BY <1>5, <2>1, KeysDiffer DEF Out
  <2>3. Out' = Out \ {note}
    BY <1>1, <1>3, <1>4, <2>2 DEF Out
  <2>4. ASSUME NEW w \in Workers
        PROVE  Holds'[w] = IF Holds[w] = note THEN None ELSE Holds[w]
    <3>1. CASE w \in Given
      BY <1>1, <2>2, <3>1 DEF Holds
    <3>2. CASE w \notin Given /\ pc[w] = "work" /\ held[w].key \in DOMAIN running
      BY <1>1, <1>3, <1>4, <2>2, <3>2 DEF Holds
    <3>3. CASE w \notin Given /\ ~(pc[w] = "work" /\ held[w].key \in DOMAIN running)
      BY <1>1, <1>3, <3>3 DEF Holds
    <3> QED BY <3>1, <3>2, <3>3
  <2>5. Holds' = [w \in Workers |-> IF Holds[w] = note THEN None ELSE Holds[w]]
    BY <2>4 DEF Holds
  <2>6. mutex = None \/ Holds[mutex] # note
    BY <2>2, WindowsOf DEF Holds
  <2> QED BY <1>2, <2>2, <2>3, <2>5, <2>6 DEF JB!TakeOff
<1>6. CASE key \notin DOMAIN running
  <2>1. /\ DOMAIN running' = DOMAIN running
        /\ \A r \in DOMAIN running : RunningEntry(r)' = RunningEntry(r)
    BY <1>3, <1>4, <1>6
  <2>2. Out' = Out
    BY <1>1, <2>1 DEF Out
  <2>3. Holds' = Holds
    BY <1>1, <2>1 DEF Holds
  <2> QED BY <1>2, <2>2, <2>3 DEF JB!vars
<1> QED BY <1>5, <1>6

\* A crash is a fall of the board: the note that changes hands waits again if its
\* record is still in the queue, and is lost if it is in no table.
LEMMA CrashFalls ==
    ASSUME BoardInv, ServerCrash
    PROVE  JB!Fall
<1>1. PICK stranded \in SUBSET {w \in Workers : pc[w] = "work"} :
        /\ pc' = [w \in Workers |-> IF w \in stranded THEN "dead"
                                    ELSE IF InCall(w) THEN "idle" ELSE pc[w]]
        /\ held' = [w \in Workers |-> IF w \in stranded \/ InCall(w) THEN None ELSE held[w]]
  BY DEF ServerCrash
<1>2. mutex' = None /\ UNCHANGED <<queue, running>>
  BY DEF ServerCrash
<1>3. Given' = {} /\ \A w \in stranded : w \notin Given
  BY <1>1 DEF Given, InWindow, InCall
<1>4. \A r \in DOMAIN running : RunningEntry(r)' = RunningEntry(r)
  BY <1>2 DEF RunningEntry
<1>5. /\ Waiting' = {Entry(k, queue[k]) : k \in DOMAIN queue}
      /\ Out' = {RunningEntry(r) : r \in DOMAIN running}
  <2>1. Waiting' = {Entry(k, queue[k]) : k \in DOMAIN queue}
    BY <1>2, <1>3 DEF Waiting
  <2>2. Out' = {RunningEntry(r) : r \in DOMAIN running}
    BY <1>2, <1>3, <1>4 DEF Out
  <2> QED BY <2>1, <2>2
<1>6. Holds' = [w \in Workers |-> IF w \in stranded \/ w = mutex THEN None ELSE Holds[w]]
  <2>1. ASSUME NEW w \in Workers
        PROVE  Holds'[w] = IF w \in stranded \/ w = mutex THEN None ELSE Holds[w]
    <3>1. CASE w \in Given
      <4>1. w = mutex /\ pc'[w] # "work"
        BY <1>1, <3>1, WindowsOf DEF Given, InWindow, InCall
      <4> QED BY <1>3, <4>1 DEF Holds
    <3>2. CASE w \in stranded
      BY <1>1, <1>3, <3>2 DEF Holds
    <3>3. CASE w \notin Given /\ w \notin stranded
      <4>1. w # mutex
        BY <3>3, WindowsOf
      <4>2. pc'[w] = "work" <=> pc[w] = "work"
        BY <1>1, <3>3 DEF InCall
      <4>3. pc[w] = "work" => held'[w] = held[w]
        BY <1>1, <3>3 DEF InCall
      <4> QED BY <1>2, <1>3, <1>4, <3>3, <4>1, <4>2, <4>3 DEF Holds
    <3> QED BY <3>1, <3>2, <3>3
  <2> QED BY <2>1 DEF Holds
<1>7. stranded \in SUBSET Workers
  OBVIOUS
<1>8. CASE mutex = None
  <2>1. Given = {}
    BY <1>8, WindowsOf
  <2>2. Waiting' = Waiting /\ Out' = Out
    BY <1>5, <2>1 DEF Waiting, Out
  <2> QED BY <1>2, <1>6, <1>7, <1>8, <2>2 DEF JB!Fall
<1>9. CASE mutex # None
  <2>1. Given = {mutex} /\ mutex \in Workers
    BY <1>9, WindowsOf
  <2>2. PICK note : note = held[mutex]
    OBVIOUS
  <2>3. Holds[mutex] = note /\ note = Entry(note.key, note.job)
    BY <2>1, <2>2, HeldEntries DEF Holds, Given, InWindow
  <2>4. Out' = Out \ {note}
    <3>1. \A r \in DOMAIN running : RunningEntry(r) # note
      BY <2>1, <2>2, KeysDiffer
    <3> QED BY <1>5, <2>1, <2>2, <3>1 DEF Out
  <2>5. note.key \in DOMAIN queue => queue[note.key] = note.job
    BY <2>1, <2>2 DEF BoardInv, IInv, WindowKeysOK, Given, InWindow
  <2>6. Waiting' = Waiting \/ Waiting' = Waiting \cup {note}
    <3>1. Waiting = {Entry(k, queue[k]) : k \in DOMAIN queue \ {note.key}}
      BY <2>1, <2>2 DEF Waiting
    <3> QED BY <1>5, <2>3, <2>5, <3>1
  <2> QED BY <1>2, <1>6, <1>7, <1>9, <2>3, <2>4, <2>6 DEF JB!Fall
<1> QED BY <1>8, <1>9

LEMMA QuietSteps ==
    ASSUME BoardInv, UNCHANGED <<queue, running, worker>>
    PROVE  UNCHANGED JB!vars
<1>1. Given' = Given
  BY DEF Given, InWindow
<1> QED BY <1>1, QuietBoard

LEMMA QuietWorker ==
    ASSUME BoardInv, NEW w \in Workers, FinishRecord(w) \/ WorkerRestart(w)
    PROVE  UNCHANGED JB!vars
<1>1. /\ pc[w] \in {"record", "dead"} /\ pc'[w] = "idle"
      /\ \A v \in Workers \ {w} : pc'[v] = pc[v] /\ held'[v] = held[v]
      /\ UNCHANGED <<queue, running, mutex>>
  BY DEF FinishRecord, WorkerRestart, BoardInv, IInv, TypeOK, WorkersTypeOK
<1>2. Given' = Given /\ w \notin Given
  BY <1>1 DEF Given, InWindow
<1>3. \A v \in Given : v \in Workers \ {w}
  BY <1>2 DEF Given
<1> QED BY <1>1, <1>2, <1>3, QuietBoard

LEMMA DeleteTakesOff ==
    ASSUME BoardInv, NEW c \in Calls, DeleteNext(c)
    PROVE  JB!Next \/ UNCHANGED JB!vars
<1>1. PICK key : \/ queue' = Delete(queue, key) /\ UNCHANGED running
                 \/ running' = Delete(running, key) /\ UNCHANGED queue
  BY DEF DeleteNext
<1>2. UNCHANGED worker
  BY DEF DeleteNext
<1>3. \/ \E note \in Waiting \cup Out : JB!TakeOff(note)
      \/ UNCHANGED JB!vars
  BY <1>1, <1>2, DeleteFromQueue, DeleteFromRunning
<1> QED BY <1>3 DEF JB!Next

LEMMA BoardStep == BoardInv /\ [Next]_vars => [JB!Next]_(JB!vars)
<1> SUFFICES ASSUME BoardInv, [Next]_vars PROVE JB!Next \/ UNCHANGED JB!vars
  OBVIOUS
<1>1. CASE UNCHANGED vars
  BY <1>1, QuietSteps DEF vars
<1>2. ASSUME NEW c \in Calls, CallStart(c) PROVE UNCHANGED JB!vars
  <2>1. UNCHANGED <<queue, running, worker>>
    BY <1>2 DEF CallStart, StartImport, StartVisit, StartDelete, StartRedo
  <2> QED BY <2>1, QuietSteps
<1>3. ASSUME NEW c \in Calls, CallStep(c) PROVE JB!Next \/ UNCHANGED JB!vars
  <2>1. CASE PutJob(c)
    BY <2>1, PutPosts DEF JB!Next
  <2>2. CASE DeleteNext(c)
    BY <2>2, DeleteTakesOff
  <2>3. CASE \/ ScanRunning(c) \/ RedoNext(c) \/ Return(c)
             \/ \E p \in Profiles : VisitUser(c, p) \/ VisitFriend(c, p)
    <3>1. UNCHANGED <<queue, running, worker>>
      BY <2>3 DEF ScanRunning, RedoNext, Return, VisitUser, VisitFriend
    <3> QED BY <3>1, QuietSteps
  <2> QED BY <1>3, <2>1, <2>2, <2>3 DEF CallStep
<1>4. ASSUME NEW w \in Workers, DequeScan(w) PROVE JB!Next
  BY <1>4, ScanHandsOut DEF JB!Next
<1>5. ASSUME NEW w \in Workers, RpcStep(w) PROVE JB!Next \/ UNCHANGED JB!vars
  BY <1>5, DeleteIsQuiet, ClaimIsHanded, QuietWorker DEF RpcStep, JB!Next
<1>6. ASSUME NEW w \in Workers, WorkStep(w) PROVE JB!Next \/ UNCHANGED JB!vars
  BY <1>6, LetGoGivesUp, FinishFinishes DEF WorkStep, JB!Next
<1>7. ASSUME NEW w \in Workers, WorkerRestart(w) PROVE UNCHANGED JB!vars
  BY <1>7, QuietWorker
<1>8. CASE ServerCrash
  BY <1>8, CrashFalls DEF JB!Next
<1> QED BY <1>1, <1>2, <1>3, <1>4, <1>5, <1>6, <1>7, <1>8 DEF Next

LEMMA InitBoard == Init => JB!Init
<1> SUFFICES ASSUME Init PROVE JB!Init
  OBVIOUS
<1>1. /\ DOMAIN queue = {} /\ DOMAIN running = {} /\ mutex = None
      /\ \A w \in Workers : pc[w] = "idle"
  BY DEF Init, Empty
<1>2. Given = {}
  BY <1>1 DEF Given, InWindow
<1> QED BY <1>1, <1>2 DEF JB!Init, Waiting, Out, Holds

\* The job queue keeps the promise of JobBoard (server/job.go:113-207): however
\* the scan, the delete and the put of GetFeedJob, the commands, the workers and
\* crashes come together, a job waits until it is handed out, oldest first and
\* once, is out until its worker finishes it or a command takes it off, and a
\* crash loses at most the one that is changing hands.
THEOREM BoardTheorem == Spec => KeepsBoard
<1>1. Init => JB!Init /\ IInv /\ LockHeld
  BY InitBoard, InitIInv, InitLockHeld
<1>2. IInv /\ LockHeld /\ [Next]_vars => [JB!Next]_(JB!vars)
  BY BoardStep DEF BoardInv
<1>3. IInv /\ [Next]_vars => IInv'
  BY NextIInv
<1>4. IInv /\ LockHeld /\ [Next]_vars => LockHeld'
  BY NextLockHeld
<1> QED BY <1>1, <1>2, <1>3, <1>4, PTL DEF Spec, KeepsBoard, JB!Spec
=============================================================================
