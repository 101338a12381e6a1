# Verification of the FriendFeed server

TLA+ models of the program in `src/` (a Go RPC server over two RocksDB stores, feed workers that
pull jobs from it, a web front end and the scripts of its pages), the TLC runs that check them, and
the theorems proved about them with TLAPS. Line numbers are those of the repository.

## 1. The system

Processes: the **RPC server** (`server.go`, `server/`, `storage/`), respawned by upstart; the **feed
workers** (`client/main.go`), which nothing respawns; the **web server** (`httpd/`), a client of the
RPCs; and the **browsers** that show its pages. gRPC runs every call in a goroutine of its own. `ApiServer` embeds one `RWMutex`, taken by
`GetFeedJob` and, for the lookup of a map, by `FetchFeed`; `FeedIndex` has a mutex of its own. Every
other access to shared state relies on the atomicity of a single RocksDB `Get`, `Put` or `Delete`.

| Component | State | Operations | Interacts with | Hard behaviour |
|---|---|---|---|---|
| Job queue (`server/job.go`) | three tables of the metadata store: waiting, running, history | `EnqueJob`, `GetFeedJob`, `FinishJob`, two tickers, `Command` (purge, fix, redo, refetch, test) | workers over RPC, profiles, feed infos | handouts race with commands that scan snapshots; a crash between two writes; repeated commands |
| Worker (`client/main.go`) | its current job | loop: get a job, fetch, stream to `ArchiveFeed`, finish | job queue, entries | drops a job on an error; ends on jobs it cannot serve |
| Public index (`server/index.go`) | front page `bufq`, queue `iq`, flag `dirty`, two channels, the dump in the store | `Push`, `Serve`/`rebuild`, `dump`, `load`, reads of `cachedFeed`, `Shutdown` | every handler that writes an entry; ticker; signal handler | blocking channel against a lock, reads without a lock, dump against rebuild, exit before the dump |
| Entries (`storage/table.go`, RPCs of `server/server.go`) | entry table, reverse index of each author | post, archive, force archive, like, unlike, comment, uncomment | public index | read-modify-write of whole entries; entry and index are two writes |
| Ids (`storage/flake/flake.go`) | last time and sequence of a generator | `NextId`, time-travel ids | keys of queue and index | 16-bit sequence, clock set back, restart |
| Accounts (`server/auth.go`, `storage/table.go`) | profiles, id map, OAuth users, feed infos with services | `PostFeedinfo`, `PutOAuth`, `BindUserFeed`, `DeleteService`, `MarkDelete` | web sessions, refetch | read-modify-write, two tables per update |
| Web front end (`httpd/src`) | session, caches of 15 minutes | handlers | all RPCs | stale caches, a process-wide provider hook, timeouts of 500 ms |
| Feed view (`httpd/templates/_feed.jsx`) | arrays of comment objects, likes, flags of an `Entry`; calls and polls under way | poll every 30 s, comment, edit, delete, like, expand | web front end | callbacks work on references captured when the call was made; answers in any order |
| Entry page (`httpd/static/js/application.js`) | the page itself: comments, form, like link | comment, like, expand | web front end | overlapping clicks, no error handlers |
| Media mirror (`media`) | none of its own | goroutine per archived entry | entries in memory | rewrites an entry after it was stored |
| Presentation (`proto/helper.go`, `util`) | none | collapse likes and comments | web | boundary counts |

The front end's import handler, the one maker of import jobs, is not routed at present
(`httpd/main.go:156` is commented out); `EnqueJob` is still an RPC, and the databases it filled still
hold archives with a remote key. The job model keeps import jobs for that reason.

What makes each component correct:

* queue: a waiting job is handed out once, in order, and to a worker that ends only its own record;
  a job is lost only by a crash; a finished job is gone; a job does not starve and commands return, whatever
  arrives meanwhile.
* index: no push is lost or shown twice, pushers get out, the page is never indexed past its end, a
  dump is a page readers could have seen, a page read during a rebuild leaves nothing out in its middle.
* entries: no edit is doubled, an edit is lost only in a race, keys always have their entry, an entry
  is in its author's feed, itself or by one of the same second, unless its post was cut short.
* ids: never repeated, sorted by time.
* accounts: an update keeps the remote key, a login stays bound to its user, a service feeds only the
  user its login is bound to, a removal leaves the other services, a profile has its feed info.
* feed view: a comment is shown once, what the viewer expanded stays, a form he edits in is not closed under
  his hands, and the page comes to show what the server has.
* entry page: a posted comment is shown once, the like link agrees with the server, a disabled form is
  waiting for its own post.

## 2. Modules

| Module | Kind | Models |
|---|---|---|
| `JobQueue` | specification | job queue and workers |
| `EndlessJobs` | specification | `JobQueue` with jobs that arrive for ever, for its liveness |
| `JobBoard` | abstract specification | what the job queue promises |
| `JobQueueBoard` | refinement | `JobQueue` implements `JobBoard` |
| `JobQueueProofs` | proofs | theorems about `JobQueue`, and that it implements `JobBoard` |
| `RecentFeed` | abstract specification | what the public feed promises |
| `FeedIndex` | specification | the public index, its callers, shutdown and restart |
| `FeedIndexPromise` | refinement | `FeedIndex` implements `RecentFeed` |
| `FeedIndexProofs` | proofs | theorems about `FeedIndex`, and that it implements `RecentFeed` |
| `EntryStore` | specification | entries and reverse index under concurrent handlers |
| `EntryStoreProofs` | proofs | theorems about `EntryStore` |
| `Accounts` | specification | profiles, OAuth users, feed infos and services under concurrent handlers |
| `AccountsProofs` | proofs | theorems about `Accounts` |
| `Flake` | specification | the id generator, the clock and restarts |
| `FlakeProofs` | proofs | theorems about `Flake` |
| `WebEntry` | part of two specifications | one entry as the web server serves it, and the calls of a page |
| `FeedView` | specification | the feed page: `WebEntry` and the React components of `_feed.jsx` |
| `FeedViewProofs` | proofs | theorems about `FeedView` |
| `EntryPage` | specification | the page of an entry: `WebEntry` and the handlers of `application.js` |
| `EntryPageProofs` | proofs | theorems about `EntryPage` |
| `SequenceFacts` | lemmas | sequences whose elements are edited by position or id, and folds, for the other proofs |
| `MCJobQueue`, `MCEndlessJobs`, `MCFeedIndex`, `MCEntryStore`, `MCAccounts`, `MCFlake`, `MCFeedView`, `MCEntryPage` | instances | constants for TLC |

### JobQueue

`queue`, `running` and `history` are the tables `TableJobFeed`, `TableJobRunning` and
`TableJobHistory`. A job keeps its kind (user, friend, import), which decides whether it has a
`Service`, a `RemoteKey` and a target; `origin` and `by` are ghosts that follow it through its
records. Each store access is an action: `DrawKey` and `PutJob` are the two halves of `EnqueJob`;
`DequeScan`, `DequeDelete` and `ClaimJob` are `GetFeedJob` under the lock; `FinishDelete` and
`FinishRecord` are `FinishJob`. A command is a start, one step per record of the iterator's snapshot
(`DeleteNext`, `RedoNext`, `VisitUser`, `VisitFriend`), and a return. `ServerCrash` ends every
goroutine and drops the lock; a worker in the middle of a call gets an error and goes on, one about
to open its stream may end (`client/main.go:185` defers a call on the stream before the error is
tested). `WorkerPanic` is the job without a `Service`; `WorkerRestart` is an operator.

`NextId` is one generator for both tables. Keys of different tables carry different prefixes and are
never compared, so the model counts each table by itself; that a generator never repeats an id is
assumed here; `Flake` says when it is so.

`EndlessJobs` is for what must happen though jobs never stop arriving, which a model with a bound on `NextId`
cannot show: with the last key drawn, the jobs that could overtake a waiting one end too. It takes each step of
`JobQueue`, with its guards, and after it `Renew`: the keys that no record, draft, handout or snapshot uses any more
are closed up and the others renumbered in their order, and the ghosts of `JobQueue` are forgotten. No step compares
keys but by order, so this gives finitely many states for endless behaviours; `MaxEnqueues` bounds the keys in use
at a time instead of those ever drawn. `watched` is the key of some waiting job, picked at its Put.

`JobBoard` says: a note is posted under a new key and waits; it is handed to one worker, the oldest first, one
handout at a time, and is out until that worker finishes it or it is taken off; a worker may give up, which
leaves the note out; when the board falls, only the note that is changing hands can be lost. `JobQueueBoard` maps
the queue to it. `GetFeedJob` takes effect at its scan, not at its delete: between the two the record is still in the
table and a command may delete it, which then changes nothing, because the handout goes on. So the notes
that wait are the records of the queue but for the one in a handout (`Waiting`), those that are out are the
running records and the one in a handout (`Out`), and a worker whose record a command has deleted holds
none (`Holds`).

### FeedIndex

`bufq` is the filled part of the Go slice: slots past its end are `""`. `PushAdd` and `PushSend` are
the two halves of `Push`. `Serve` is `TakeItem`, `Timeout`, `TakeDone`; `rebuild` is `RebuildStart`, one
`FillNew` per queued key, `Drain`, one `FillOld` per former slot, `RebuildEnd`: one action per slot,
because `cachedFeed` reads with no lock and may see each of these states. `Dump` and load are one step
each: they hold the lock, and nothing unlocked can see them half done. `StopServer`, `ShutdownDump`,
`ShutdownDone` follow `waitShutdown` and `Shutdown`; `Exit` may come at any point after `StopServer`,
because `main` returns when the listener closes. The Go memory model leaves unlocked reads of `bufq`
undefined against rebuild's writes; the reader's steps see any prefix of the rebuild. Such a page may end early and
may show an entry twice. What it may not do is leave an entry out in its middle, where the next page would not bring
it back: that is `NothingSkipped`. A reader has two ghosts for it, `front`, the page as it was when the read began, and `fresh`,
the keys that waited in the queue then or were pushed since, which a rebuild takes to the front. The property holds of
the page while it grows and when it is returned.

`RecentFeed` says: the feed is the `Cap` keys published last, newest first, each once; readers see it
as of the last refresh; a restart goes back to the last save. The mapping takes a rebuild to take
effect when it ends: `FrontPage` is the former page until then, `Published` merges the queued keys,
newest first, with the front page.

### EntryStore

`table` and `revIndex` are `TableEntry` and `TableReverseEntryIndex`; `public` is what was pushed to
the index. A handler reads (`ReadEntry`), checks (`CheckExists`), puts (`PutUpdate` or `PutNew`), puts
the index key (`PutIndex`) and pushes (`Spread`), each in a step. `PutNew` parses the date after the
put, as the code does. `base`, `raced`, `cut` and `wanted` are ghosts: what a copy was made from, the
entries put over a value the handler had not read, the entries whose posting ended early, and what the
calls would have made of each entry one after the other. `Second` abstracts a date to the second,
which is what `TimeTravelReverseId` keeps of it. Users are taken to have profiles (a call by a user
without one returns before it writes) and entries to have authors with well-formed ids.

### Accounts

`mapped`, `profile`, `info` and `oauth` are the id map and the tables of profiles, feed infos and OAuth users.
`Call` starts one of `PostFeedinfo`, `MarkDelete`, `PutOAuth`, `BindUserFeed`, `DeleteService`; each `Get` and `Put`
that follows is an action, named for what it reads or puts. `UpdateProfile` is `PutMap`, `ReadOldKey` (only without
a remote key), `PutProfile`; `SaveFeedinfo` is `ReadOldInfo`, `PutInfo`; both OAuth functions are `ReadOAuth`,
`PutOAuth`, whose conditions are `UserFor`. `DropLoop` is the loop of `DeleteService` on a Go slice: the range keeps the
first length, each removal shifts the elements under it and shortens the slice, and a removal past its end
panics, which ends the server (`DropPanic`). A key with no value unmarshals to an empty message (`NoInfo`); a feed
info without a uuid, which only a login can make, cannot be saved by `DeleteService`. Each profile has an
id of its own. `raced` and `cut` are the ghosts of `EntryStore`, for users and logins.

### Flake

`CurrentTime` and `Sequence` are the generator's fields; `NextId` under its mutex is one of `NewTime`, `SameTime` and
`ClockBehind`, after which `Store.NextId` sleeps (`Wake`) and calls again. `Tick` and `SetBack` move the clock of the
machine; `Restart` makes a new generator, which remembers nothing, and takes a millisecond at least, for it
opens the database. The MAC address is the same in all ids of a store and left out. `LaterIsGreater` leaves out
exactly the cases the code has no guard for: more than 2^16 ids in a millisecond, and a restart together with a
set back of the clock.

### WebEntry

`comments`, `likes` and `listed` are an entry of the store and its place on the public feed; the handlers of
`httpd/src/server.go` are one step each here (what happens between their reads and writes is the subject of
`EntryStore`). `FormatComments`, `FormatLikes` and `LikeCommand` are the presentation of `proto/helper.go`. A
comment's id is its author and the second of the post: two posts of the viewer in one second get one
id, and the ghost `sameSecond` remembers it. `calls` holds the requests of one page: sent, served, answered in
three steps. `Fail` loses a request or its answer, or lets the front end give up after its 500 ms while
the server goes on (`lost`). The friend comments, uncomments, likes and unlikes from elsewhere; `Displaced`
takes the entry off the feed and a comment or a like puts it back.

### FeedView

`state` is `this.state` of the `Entry` component, `deleted` and `clicked` the states of its children. `heap` holds
the arrays of comments that the page or a callback can still reach, by reference: `submitComment` captures
an array, and its callback pushes to that array, which a poll may have replaced. Comment objects
are shared between arrays, since `editComment` sets the flag of the object and copies the array; `born` tells
objects of one id apart. A call keeps whether the entry object (`entry`) and the component (`self`) it was
made from are still in use. `ComponentWillReceiveProps` is the whole merge of a poll into the state;
`GetInitialState` and `Unmount` are an entry that enters and leaves the feed. `stale` is a ghost: the array shown
was brought back by an answer after another had replaced it. `HandleLike` has no guard, as in the code: a
second click while the first is on its way sends the same command again.

### EntryPage

`link`, `divs` and `form` are the class of the like link, the comments in the page and the comment form. The
page starts with the comments all shown (`/e/:uuid`) or collapsed (`/feed/:name`). `AppendComment` removes the form
that made the post, if it is still there, `ReplaceComments` removes every `.comment` in the entry, the form
with them. `crossed` and `overtaken` are ghosts: a like and an unlike, or a post and an expansion, were under way
together.

## 3. Runs

| Run | Shows | Size |
|---|---|---|
| `handout` | types, `SingleHandout`, `OwnRecord`, `CrashLosesOneJob`, `InOrderPerEnqueuer` | 2.0M states |
| `friends` | `KeepsBoard` (refinement), `FinishedJobNotRunning` (without redo) | 504k |
| `live` | `WaitingJobIsTaken`, `CommandReturns`, both of `EndlessJobs` | 235k |
| `redo` | violation: redo keeps the record of a job that finishes | |
| `page` | types, `QueuedIsDirty`, `NoPanic`, `NothingSkipped` | 3.2M |
| `promise` | `KeepsPromise` (refinement), `PushReturns`, `PushedIsShown` | 170k |
| `edit` | types, `NothingTwice`, `KeysHaveEntries`, `ListedUnlessCut`, `SerialUnlessRaced` | 855k |
| `accounts` | types, `ServiceOfItsUser`, `AccountComplete`, `DropsOneOfItsKind`, `KeyKept`, `BoundForGood` | 387k |
| `services` | violation: two services of one id are not both removed | |
| `clock` | `LaterIsGreater`, `NextIdReturns` | 75k |
| `view` | types, `ShownOnce`, `ExpandedStays`, `EditFormKept`, `CommentsSettle`, `LikesSettle`, `LikesExpand` | 243k |
| `clicks` | types with the form's wait, `LinkAgrees`, `PostedOnce` | 324k |

**Bounds.** `MaxEnqueues` 2 or 3 keys are enough for two jobs of one enqueuer to overtake each other,
for two workers to race for one record and for a redo to copy a record; a command that has started
finishes past the bound. `MaxCrashes` is 1 where a crash matters: each crash adds the same loss, and
`CrashLosesOneJob` is proved for any number. In `live`, two keys in use are what a job and one that could overtake it
need, again and again; a record in running is one a worker is at work on (`MaxAbandoned` is 0: no fetch
fails in this run), or the states would not be finitely many. In `page`, four pushes of four keys over a page of
three slots overflow the page, repeat a key, leave keys in the former page and move the page under a reader of
up to three slots (`PageSize` 2, and the one more `cachedFeed` looks for); one pusher is enough, since only the order of
the queue matters to a rebuild. `promise` has two pushers, three keys and a page of two. `Cap`, 500 in the
code, is a parameter of the proofs. In the entries, four entries, two of them of one author and second and one with a date
that does not parse, and four calls by two handlers give two racing edits after a post, a repeated post, and an entry that
takes over the index key of another. In the accounts,
three calls by two handlers are a post and two that race over it; the lists that arrive hold no, one or two
services of one id, and there is a login of each provider. The generator's
sequence has three values, so that five ids wrap it; the clock is set back twice, before and after a restart. In the
feed view, two events (clicks, losses, acts of the friend) with two calls and a poll under way let two answers
and a poll overtake each other in every order; the entry begins with no comments or with two, so that one more
collapses them (`Limit` is 2 for the 4 of the code), and with three likes, which are collapsed. The invariants of this run
are proved for any number of everything; the bound limits only its temporal properties, so that a post, a delete and an edit of one
comment, or a lost like that is tried again while another acts, are beyond them. On the
entry page, four events with three calls under way: a like, an unlike and a like can cross, and a post and an
expansion with something else between. Handlers,
workers, the keys of `page` and the two entries of one second are symmetric; liveness runs use no symmetry. `CHECK_DEADLOCK FALSE` is set where the
bounded calls run out and everyone is idle; the index runs check deadlock.

**Fairness.** In `live`, goroutines of the server and a living worker's loop go on (`WF`): Go's scheduler
is fair, a worker polls every 5 seconds, a fetch ends with an answer or an error. Nothing starts
a command or restarts a dead worker, so the property must hold with two workers, of which user jobs end
none. In `clock`, the clock and the callers go on; set backs and restarts are bounded, and nothing starts a call.
In `promise`, `Serve` and pushers go on; the timer of `Serve` fires when no item has arrived for a
second, so `PushedIsShown` speaks of pushes that pause, which the bound `MaxPushes` gives.
`PushReturns` says "or the server is stopping", because `Shutdown` ends `Serve` and may leave a pusher
blocked for as long as the process lives. In `view`, the poll's timer goes on and the server answers
(`WF` of `LoadFeeds`, `Serve`, `Answer`, `ServePoll`, `AnswerPoll`): the page sets an interval of 30 s
(`_feed.jsx`), and the number of lost calls is bounded. The viewer need not do anything: a form may stay open for
ever, so `CommentsSettle` speaks of pages where none is.

**Findings.** (1) `RedoFailedJob` deletes the old record only when enqueuing failed, which it never
does. (2) `DeleteService` does not remove all services of an id, or panics. The runs `redo` and `services` show them.
Other behaviour worth knowing is in the exceptions that properties name: entries of one author and
second share an index key (`ListedUnlessCut`), two comments in one second share an id (`ShownOnce`, `PostedOnce`), an
answer can bring back an array a poll had replaced (`ExpandedStays`), a lost answer leaves the link to the other likes
dead (`LikesExpand`) and a form disabled (`PageTypeOK`), and a worker ends on a job without a service (the
worker's steps in `JobQueue`).

**Mutants.** Every property of a passing run is paired with a small change of the model (an operator next
to the definition it replaces, marked as a mutant) under which TLC finds it violated.

## 4. Proofs

For all values of the constants that satisfy the named assumption of the module:

* `QueueSafety`: `TypeOK`, `SingleHandout`, `OwnRecord` and `InOrderPerEnqueuer` hold of every behaviour of
  `JobQueue`. The inductive invariant `IInv` adds that the lock is held by the one call in the window
  between scan and claim (`LockOK`), that every key in use was drawn and differs from all others
  (`RunningKeysOK`, `WindowKeysOK`, `DraftKeysOK`), that a command's snapshot agrees with what is left of
  its table (`CopiesOK`) and that a draft is newer than all its goroutine put before (`DraftsOK`). Without
  the last, a handout could overtake a job put later with a smaller key. `QueueTypes`, `RecordTheorem` and
  `OrderTheorem` state three of the four by themselves.
* `LossTheorem`: `CrashLosesOneJob`. Every step but a crash leaves the set `Lost` as it is; a
  crash adds at most the job of the call that held the lock.
* `FinishedTheorem`: `FinishedJobNotRunning`, as long as `RedoFailedJob` is not among the commands; the run `redo`
  shows that this hypothesis is needed. `FInv` follows the origin of a job, the key it was drawn with: a record
  in the tables has the origin of the job it was made from (`OriginOK`); while a worker works on a job, no record but its
  own has that origin (`WorkingOK`); a job in the history is neither waiting, nor on its way in or out, nor running
  (`FinishedOK`).
* `BoardTheorem`: `KeepsBoard`, the refinement of `JobBoard`, one lemma per kind of step. To `IInv` it adds only that a held
  lock belongs to a call between scan and claim (`LockHeld`, the converse of `LockOK`). `KeysDiffer` is what the steps
  rest on: the notes on the board have different keys, so that a delete takes off one note and never that of a
  handout. The Put of `EnqueJob` is `Post`, the scan `HandOut`, the claim `Handed`; `FinishJob` is `Finish`, or nothing if
  a command deleted the record first; a crash is `Fall`, where the record in a handout waits again if it was
  not deleted yet and is lost otherwise.
* `IndexSafety`: `TypeOK`, `NoPanic`, `QueuedIsDirty` of `FeedIndex`. `CursorOK` says that every former
  key the second loop has passed is on the new page; if the loop could reach slot `Cap` of the old page
  with the new one not full, `Cap` different keys would fit in fewer slots (`FormerFits`, by the pigeonhole
  principle). `IndexTypes` and `QueuedTheorem` state the first and the last by themselves.
* `SkipTheorem`: `NothingSkipped`. A key is kept if it was on the page when the read began and is not fresh. A
  rebuild moves a kept key only towards the end and never past another one: the fresh keys go in front, the others
  follow in the order of the former page. So on the page, on the former page less what the new one already has, and
  across the two, kept keys stand in the order they had (`InOrder`), and the reader has read those in front of where it is
  (`Passed`, `PassedOld`; together `Follows`). The step that needs an argument is the second loop: that a former key
  cannot land in front of where it was follows from `CursorOK` by the pigeonhole principle (`FormerFits`), because all
  that were in front of it are on the new page already.
* `PromiseTheorem`: `KeepsPromise`, the refinement of `RecentFeed`, step by step. `NewOK` adds to the invariant what the
  first loop of rebuild has put on the page: the newest keys of the queue, merged. `Merge` is a fold; its lemmas say what
  each step of it keeps. A rebuild's steps show nothing because a key of the former page whose forerunners are on the
  new one can be taken at once (`MergeTaken`) and a full page takes no more (`MergeFull`); its last step is
  `Refresh`, a dump `Save`, a restart `Restart`. A push is `Publish` because a key that is merged first stays in front of
  everything merged after it, and what comes out is what came out before with the key moved to the front (`InFront`,
  `FrontMerges`).
* `KeysTheorem`: `KeysHaveEntries` of `EntryStore`, by the invariant that a handler on its way to an index
  put or a push has stored its entry.
* `TypeTheorem`, `OnceTheorem`, `ListedTheorem` and `SerialTheorem`: the other four properties of `EntryStore`. A
  like or comment is not doubled because each edit looks for its own first (lemmas on positions and replacements
  in `SequenceFacts`), for entries that do not arrive with something twice, which the module assumes of `Remote`.
  `ListedTheorem` follows the post from its put to its index key; that the entry under the key has the same author and
  second is the part `Dated` of its invariant, over the index and the puts that are on their way. `SerialTheorem` the ghost `base` from a handler's
  read to its put.
* `BindingTheorem` and `KeyTheorem`: `BoundForGood` and `KeyKept` of `Accounts`. The inductive invariant follows the
  ghost `base` from the read to the put: a record is put for the user it was read with, and a value is put
  without a remote key only when the one it was made from had none; a put that is no race overwrites that one.
* `TypeTheorem`, `ServiceTheorem`, `DropTheorem` and `CompleteTheorem`: the other four properties of `Accounts`, each from
  the invariant of the one before and a part of its own. `TInv` types what handlers carry; the loop of `DeleteService` is a
  fold, which removes one element where no id is there twice (`AllButOne`). `SInv` says for every handler that the
  services it carries belong to the user whose feed info it will put, between the put of the OAuth record and that
  of the feed info. `CInv` says which keys a handler that is between two puts may carry: one in a feed info only where the
  profile has it, and a profile only for a user in the map.
* `FlakeSafety`: `TypeOK` and `LaterIsGreater` of `Flake`. The inductive invariant places the ids of this run of the
  process at or before `CurrentTime`, those of this era of the clock at or before the clock, and ties the
  sequence to the number of ids in the millisecond (`GenOK`). `FlakeTypes` states the types by themselves; they
  are only proved, not part of the run `clock`.
* `ViewTypes`, `ShownTheorem` and `ExpandedTheorem` of `FeedView`, from one invariant, `ViewInv`. Its parts: what the
  server has (`ServerInv`: ids once, none of a second to come), the calls (`CallsOK`: an answer is of the kind
  its callback expects), the arrays (`HeapOK`) and the page (`PageOK`). `HeapOK` is the point: it is
  not enough that the array shown has a comment once. The array a post has captured must not have the comment its
  answer brings, and no two answers bring one comment; otherwise the callback would push it twice. A
  poll cannot break this because it makes a new array and leaves the captured one alone, and the answer of an
  edit or an expansion because it makes one too.
* `FormTheorem`: `EditFormKept` of `FeedView`, from `ViewInv` and one more part, `GoneOK`: an entry that has left the page
  shows no comments, and no answer it awaits reaches the component that takes its place.
* `PageTypes`, `LinkTheorem` and `PostedTheorem` of `EntryPage`, by `TypeInv`, `LinkInv` (while no like crosses an
  unlike, the calls of the link under way are of one kind and none is lost, and one that is served, or that another
  answer anticipated, has taken effect) and `PostedInv` (an answered comment is on the server and once on the page;
  one whose answer is on its way is on the server and not yet on the page; no post and expansion are under way
  together).

Folds. The library's induction theorems cannot be instantiated by the provers, so the fold of `Merge`, `Dropped` and
`Others` is treated by its least counterexample: of the steps at which a claim fails one is the first
(`StepsReach`, from the well-foundedness of the numbers), and the recursive function that defines the fold exists because the sets it
recurs on can be built up by position (`IterExists`).

Model-checked only: all of `EndlessJobs` and the liveness properties (`WaitingJobIsTaken`, `CommandReturns`, `PushReturns`, `PushedIsShown`,
`NextIdReturns`, `CommentsSettle`, `LikesSettle`, `LikesExpand`): fairness and `ENABLED` are out of the prover's
reach. Every invariant, action property and refinement of a passing run has a theorem.

## 5. Not modelled

* Third-party code: `react.js`, two copies of `JSXTransformer.js`, protobuf output. Together they are nearly all of the
  repository's JavaScript by lines; what `_feed.jsx` relies on of React (one callback at a time, `setState`, keys,
  props) is in `FeedView`. The sample Angular application and its gulpfile are a starter
  with fixed data that no page loads.
* Texts and looks: contents of feeds and tweets, sanitizing, links and dates, HTML rendering, the pool of JavaScript
  VMs that renders on the server, the pager and the media boxes of the feed view.
* Sessions, the caches of 15 minutes and the OAuth redirects of the web front end; the media goroutine. Their
  hazards are listed.
* The commands hide and unhide of `application.js`: the server has no route for them.
* `FixComment` and the offsets of `ForwardFetchFeed`, which only repair and read.
* Failing writes of RocksDB: the code drops the errors of `Put` in the queue, with the effect of the crash that is
  modelled.
* Deployment scripts and the clients of the FriendFeed API, which is gone.

## 6. Plan

Done: job queue, public index, entries, accounts, ids, both pages of the front end, and the proofs of
section 4. What would add most next:

1. `FixComment` and the paging of `ForwardFetchFeed` in the entry model.
2. The tokens of an OAuth record, which `BindOAuthUser` overwrites (`storage/table.go:402`).
3. The front end's caches and provider hook, the media goroutine.
