------------------------------ MODULE FeedIndex ------------------------------
(***************************************************************************)
(* The index of the public feed, server/index.go, with the callers that    *)
(* share it: RPC handlers that push a key (spread), the goroutine Serve    *)
(* that rebuilds the front page, the ticker and the shutdown that dump it, *)
(* and the readers of cachedFeed, which take no lock.                      *)
(*                                                                         *)
(* bufq is the filled part of the slice of Cap strings: a slot past its    *)
(* end holds "".  A step under the lock that no unlocked reader can see    *)
(* half done is one action; rebuild, which replaces bufq and refills it    *)
(* slot by slot, is one action per slot.                                   *)
(***************************************************************************)
EXTENDS Naturals, Sequences, FiniteSets

CONSTANTS
    Keys,        \* the entry keys
    Pushers,     \* the handlers that push
    Readers,     \* the handlers that read a page
    Cap,         \* MinQueue, the length of the slice
    PageSize,    \* the page size of the readers
    Serve,       \* the lock holder that is the Serve goroutine
    None,        \* no lock holder, no key
    MaxPushes,   \* bound on the calls of Push
    MaxCrashes   \* bound on the crashes

ASSUME ConstantsAssumption ==
    /\ Cap \in Nat \ {0}
    /\ PageSize \in Nat \ {0}
    /\ MaxPushes \in Nat
    /\ MaxCrashes \in Nat
    /\ None \notin Keys
    /\ Serve # None

VARIABLES
    bufq,     \* the front page, as far as it is filled
    iq,       \* the keys pushed since the last rebuild, oldest first
    dirty,    \* whether iq has keys that bufq lacks
    itemCh,   \* the channel of capacity 1 from Push to Serve
    doneCh,   \* whether the channel that ends Serve holds its message
    mutex,    \* Serve while it rebuilds, else None
    pc,       \* where Serve is
    old,      \* rebuild's copy of the former front page
    cursor,   \* rebuild's loop variable j
    sending,  \* pusher -> the key it is about to send on itemCh, or None
    reader,   \* reader -> its position, what it has read, and two ghosts: the
              \*   front page when it began, and the keys queued then or since
    saved,    \* the dump in the store
    phase,    \* "up", or how far Shutdown is
    pushes, crashes  \* counters for the bounds

index  == <<bufq, iq, dirty>>
chans  == <<itemCh, doneCh, sending>>
serve  == <<mutex, pc, old, cursor>>
bounds == <<pushes, crashes>>
vars   == <<index, chans, serve, reader, saved, phase, bounds>>

\* what a reader has done so far, and its ghosts
Position(at, start, page, reading, front, fresh) ==
    [at |-> at, start |-> start, page |-> page, reading |-> reading,
     front |-> front, fresh |-> fresh]
Idle == Position(0, 0, <<>>, FALSE, <<>>, {})

Has(seq, key) == \E i \in DOMAIN seq : seq[i] = key
PageKeys(seq) == {seq[i] : i \in DOMAIN seq}

Init ==
    /\ bufq = <<>> /\ iq = <<>> /\ dirty = FALSE
    /\ itemCh = <<>> /\ doneCh = FALSE
    /\ mutex = None /\ pc = "select" /\ old = <<>> /\ cursor = 0
    /\ sending = [p \in Pushers |-> None]
    /\ reader = [r \in Readers |-> Idle]
    /\ saved = <<>> /\ phase = "up"
    /\ pushes = 0 /\ crashes = 0

-----------------------------------------------------------------------------
(* Push: under the lock the key is queued and the index becomes dirty;     *)
(* after it the key is sent on itemCh, which blocks while the channel is   *)
(* full.                                                                   *)

\* a key that is pushed is fresh to every reader that is reading
Noticed(key) == [r \in Readers |->
    LET rd == reader[r]
    IN  IF rd.reading
        THEN Position(rd.at, rd.start, rd.page, TRUE, rd.front, rd.fresh \union {key})
        ELSE rd]

PushAdd(p, key) ==
    /\ pushes < MaxPushes
    /\ sending[p] = None
    /\ mutex = None
    /\ iq' = Append(iq, key)
    /\ dirty' = TRUE
    /\ sending' = [sending EXCEPT ![p] = key]
    /\ pushes' = pushes + 1
    /\ reader' = Noticed(key)
    /\ UNCHANGED <<bufq, itemCh, doneCh, serve, saved, phase, crashes>>

PushSend(p) ==
    /\ sending[p] # None
    /\ Len(itemCh) < 1
    /\ itemCh' = Append(itemCh, sending[p])
    /\ sending' = [sending EXCEPT ![p] = None]
    /\ UNCHANGED <<index, doneCh, serve, reader, saved, phase, bounds>>

-----------------------------------------------------------------------------
(* Serve: an item only restarts the timer; after a second without one the  *)
(* front page is rebuilt if dirty is set, which is read without the lock.  *)

TakeItem ==
    /\ pc = "select"
    /\ itemCh # <<>>
    /\ itemCh' = Tail(itemCh)
    /\ UNCHANGED <<index, doneCh, sending, serve, reader, saved, phase, bounds>>

Timeout ==
    /\ pc = "select"
    /\ itemCh = <<>>
    /\ dirty
    /\ pc' = "lock"
    /\ UNCHANGED <<index, chans, mutex, old, cursor, reader, saved, phase, bounds>>

TakeDone ==
    /\ pc = "select"
    /\ doneCh
    /\ doneCh' = FALSE
    /\ pc' = "stopped"
    /\ UNCHANGED <<index, itemCh, sending, mutex, old, cursor, reader, saved, phase, bounds>>

RebuildStart ==
    /\ pc = "lock"
    /\ mutex = None
    /\ mutex' = Serve
    /\ old' = bufq
    /\ bufq' = <<>>
    /\ cursor' = 0
    /\ pc' = "new"
    /\ UNCHANGED <<iq, dirty, chans, reader, saved, phase, bounds>>

\* the next slot gets key, unless an earlier one has it
Fill(key) ==
    /\ bufq' = IF Has(bufq, key) THEN bufq ELSE Append(bufq, key)
    /\ cursor' = cursor + 1

\* mutant of FillNew: the first loop goes on when the page is full
FillNewPastEnd ==
    /\ pc = "new"
    /\ cursor < Len(iq)
    /\ Fill(iq[Len(iq) - cursor])
    /\ UNCHANGED <<iq, dirty, chans, mutex, pc, old, reader, saved, phase, bounds>>

\* mutant of FillNew: the first loop keeps a key that was pushed twice
FillNewTwice ==
    /\ pc = "new"
    /\ cursor < Len(iq)
    /\ Len(bufq) < Cap
    /\ bufq' = Append(bufq, iq[Len(iq) - cursor])
    /\ cursor' = cursor + 1
    /\ UNCHANGED <<iq, dirty, chans, mutex, pc, old, reader, saved, phase, bounds>>

\* the first loop walks iq from its newest key, until the page is full
FillNew ==
    /\ pc = "new"
    /\ cursor < Len(iq)
    /\ Len(bufq) < Cap
    /\ Fill(iq[Len(iq) - cursor])
    /\ UNCHANGED <<iq, dirty, chans, mutex, pc, old, reader, saved, phase, bounds>>

\* mutant of Drain: the lock covers only the queue
DrainUnlock ==
    /\ pc = "new"
    /\ cursor = Len(iq) \/ Len(bufq) = Cap
    /\ iq' = <<>>
    /\ cursor' = 0
    /\ pc' = "old"
    /\ mutex' = None
    /\ UNCHANGED <<bufq, dirty, chans, old, reader, saved, phase, bounds>>

Drain ==
    /\ pc = "new"
    /\ cursor = Len(iq) \/ Len(bufq) = Cap
    /\ iq' = <<>>
    /\ cursor' = 0
    /\ pc' = "old"
    /\ UNCHANGED <<bufq, dirty, chans, mutex, old, reader, saved, phase, bounds>>

\* mutant of FillOld: one index for the slot that is filled and the one that
\* is read
FillOldAtSlot ==
    /\ pc = "old"
    /\ Len(bufq) < Cap
    /\ Len(bufq) < Len(old)
    /\ cursor < Len(old)
    /\ Fill(old[Len(bufq) + 1])
    /\ UNCHANGED <<iq, dirty, chans, mutex, pc, old, reader, saved, phase, bounds>>

\* the second loop walks the former page, until the new one is full or the
\* former ends; its condition bounds the slots it fills, not those it reads
FillOld ==
    /\ pc = "old"
    /\ Len(bufq) < Cap
    /\ cursor < Len(old)
    /\ Fill(old[cursor + 1])
    /\ UNCHANGED <<iq, dirty, chans, mutex, pc, old, reader, saved, phase, bounds>>

\* mutant of RebuildEnd: an empty slot does not end the second loop
RebuildEndFull ==
    /\ pc = "old"
    /\ Len(bufq) = Cap
    /\ dirty' = FALSE
    /\ mutex' = None
    /\ old' = <<>>
    /\ cursor' = 0
    /\ pc' = "select"
    /\ UNCHANGED <<bufq, iq, chans, reader, saved, phase, bounds>>

\* mutant of RebuildEnd: dirty is not reset
RebuildEndDirty ==
    /\ pc = "old"
    /\ \/ Len(bufq) = Cap
       \/ cursor = Len(old) /\ cursor < Cap
    /\ mutex' = None
    /\ old' = <<>>
    /\ cursor' = 0
    /\ pc' = "select"
    /\ UNCHANGED <<index, chans, reader, saved, phase, bounds>>

RebuildEnd ==
    /\ pc = "old"
    /\ \/ Len(bufq) = Cap
       \/ cursor = Len(old) /\ cursor < Cap
    /\ dirty' = FALSE
    /\ mutex' = None
    /\ old' = <<>>
    /\ cursor' = 0
    /\ pc' = "select"
    /\ UNCHANGED <<bufq, iq, chans, reader, saved, phase, bounds>>

-----------------------------------------------------------------------------
(* The ticker's dump holds the lock while it encodes bufq and puts it in   *)
(* the store.                                                              *)

\* mutant of Dump: the lock is not taken
DumpUnlocked ==
    /\ phase # "done"
    /\ saved' = bufq
    /\ UNCHANGED <<index, chans, serve, reader, phase, bounds>>

Dump ==
    /\ phase # "done"
    /\ mutex = None
    /\ saved' = bufq
    /\ UNCHANGED <<index, chans, serve, reader, phase, bounds>>

(* cachedFeed reads bufq slot by slot, with no lock, and stops at an empty *)
(* slot or when it has found more than PageSize entries.                   *)

StartRead(r, start) ==
    /\ phase = "up"
    /\ ~reader[r].reading
    /\ reader' = [reader EXCEPT ![r] = Position(start, start, <<>>, TRUE, bufq, PageKeys(iq))]
    /\ UNCHANGED <<index, chans, serve, saved, phase, bounds>>

ReadSlot(r) ==
    /\ reader[r].reading
    /\ phase # "done"
    /\ reader[r].at < Len(bufq)
    /\ LET rd   == reader[r]
           page == Append(rd.page, bufq[rd.at + 1])
           more == Len(page) <= PageSize /\ rd.at + 1 < Cap
       IN  reader' = [reader EXCEPT
                         ![r] = Position(rd.at + 1, rd.start, page, more, rd.front, rd.fresh)]
    /\ UNCHANGED <<index, chans, serve, saved, phase, bounds>>

ReadEmptySlot(r) ==
    /\ reader[r].reading
    /\ reader[r].at >= Len(bufq)
    /\ LET rd == reader[r]
       IN  reader' = [reader EXCEPT
                         ![r] = Position(rd.at, rd.start, rd.page, FALSE, rd.front, rd.fresh)]
    /\ UNCHANGED <<index, chans, serve, saved, phase, bounds>>

(* The page goes back to the client.                                       *)
ReadReturn(r) ==
    /\ ~reader[r].reading
    /\ reader[r] # Idle
    /\ reader' = [reader EXCEPT ![r] = Idle]
    /\ UNCHANGED <<index, chans, serve, saved, phase, bounds>>

-----------------------------------------------------------------------------
(* Shutdown: the RPC server stops, the index is dumped, Serve is told to   *)
(* end, the stores are closed.  Handlers in flight go on.  The process     *)
(* exits when main returns, which waits for none of this, or when a        *)
(* handler uses a closed store.                                            *)

StopServer ==
    /\ phase = "up"
    /\ phase' = "stopping"
    /\ UNCHANGED <<index, chans, serve, reader, saved, bounds>>

ShutdownDump ==
    /\ phase = "stopping"
    /\ mutex = None
    /\ saved' = bufq
    /\ phase' = "dumped"
    /\ UNCHANGED <<index, chans, serve, reader, bounds>>

ShutdownDone ==
    /\ phase = "dumped"
    /\ doneCh' = TRUE
    /\ phase' = "done"
    /\ UNCHANGED <<index, itemCh, sending, serve, reader, saved, bounds>>

\* the process ends and starts again: load takes the page from the store
Restart ==
    /\ bufq' = saved
    /\ iq' = <<>> /\ dirty' = FALSE
    /\ itemCh' = <<>> /\ doneCh' = FALSE
    /\ mutex' = None /\ pc' = "select" /\ old' = <<>> /\ cursor' = 0
    /\ sending' = [p \in Pushers |-> None]
    /\ reader' = [r \in Readers |-> Idle]
    /\ phase' = "up"
    /\ UNCHANGED <<saved, pushes>>

Crash == crashes < MaxCrashes /\ crashes' = crashes + 1 /\ Restart

Exit == phase # "up" /\ UNCHANGED crashes /\ Restart

-----------------------------------------------------------------------------
Rebuild == RebuildStart \/ FillNew \/ Drain \/ FillOld \/ RebuildEnd

Next ==
    \/ \E p \in Pushers : PushSend(p) \/ \E key \in Keys : PushAdd(p, key)
    \/ TakeItem \/ Timeout \/ TakeDone
    \/ Rebuild
    \/ Dump
    \/ \E r \in Readers : \/ \E start \in 0 .. 1 : StartRead(r, start)
                          \/ ReadSlot(r) \/ ReadEmptySlot(r) \/ ReadReturn(r)
    \/ StopServer \/ ShutdownDump \/ ShutdownDone
    \/ Crash \/ Exit

Spec == Init /\ [][Next]_vars

\* Go runs every goroutine and wakes senders in order; the timer fires when
\* the pushes pause for a second
Fairness ==
    /\ WF_vars(TakeItem) /\ WF_vars(Timeout) /\ WF_vars(Rebuild)
    /\ \A p \in Pushers : WF_vars(PushSend(p))

FairSpec == Spec /\ Fairness

-----------------------------------------------------------------------------
Distinct(seq) == \A i, j \in DOMAIN seq : seq[i] = seq[j] => i = j
ReadState == [at : Nat, start : Nat, page : Seq(Keys), reading : BOOLEAN,
              front : Seq(Keys), fresh : SUBSET Keys]
IsPage(seq) == seq \in Seq(Keys) /\ Len(seq) <= Cap /\ Distinct(seq)

\* The front page, its former copy and the dump hold each key once and no
\* more than fit, whatever was pushed and wherever a rebuild stands.
TypeOK ==
    /\ IsPage(bufq) /\ IsPage(old) /\ IsPage(saved)
    /\ iq \in Seq(Keys)
    /\ dirty \in BOOLEAN /\ doneCh \in BOOLEAN
    /\ itemCh \in Seq(Keys) /\ Len(itemCh) <= 1
    /\ mutex \in {None, Serve}
    /\ pc \in {"select", "lock", "new", "old", "stopped"}
    /\ cursor \in Nat
    /\ sending \in [Pushers -> Keys \union {None}]
    /\ phase \in {"up", "stopping", "dumped", "done"}
    /\ reader \in [Readers -> ReadState]
    /\ pushes \in Nat /\ crashes \in Nat

\* A key that waits in iq has dirty set: the flag that rebuild clears at its
\* end never hides a key pushed meanwhile, which no later rebuild would show.
QueuedIsDirty == iq # <<>> => dirty

\* The second loop of rebuild never indexes the former page past its end,
\* though its condition bounds only the slots it has filled.
NoPanic == pc = "old" /\ Len(bufq) < Cap => cursor < Cap

\* the i-th key of the front page as rd found it, unless a push that waited then
\* or came since names it
Kept(rd, i) == i \in DOMAIN rd.front /\ rd.front[i] \notin rd.fresh

\* what rd shows of those keys begins at its start and leaves none out
Unbroken(rd) ==
    \A i, j \in DOMAIN rd.front :
        /\ rd.start < i /\ i < j
        /\ Kept(rd, i) /\ Kept(rd, j)
        /\ Has(rd.page, rd.front[j])
        => Has(rd.page, rd.front[i])

\* A page skips nothing between two entries it shows, whatever rebuilds
\* overtake the read: cachedFeed takes no lock, so a page that is read while
\* rebuild empties and refills the slice may end early or show an entry
\* twice, but of the keys on the front page when the read began, except those
\* pushed again, one that is shown has all before it, from the start asked
\* for, shown too.
NothingSkipped == \A r \in Readers : Unbroken(reader[r])

\* While the server is up, a handler that pushes gets out of Push: Serve
\* takes from the channel whatever the rebuilds and the other pushers do.
PushReturns ==
    \A p \in Pushers : sending[p] # None ~> (sending[p] = None \/ phase # "up")

\* While the server is up, a push ends in a rebuilt front page that has every
\* key queued before, once the pushes pause.
PushedIsShown ==
    iq # <<>> ~> ((iq = <<>> /\ ~dirty) \/ phase # "up")

-----------------------------------------------------------------------------
(* The inductive invariant behind the safety properties.                   *)

\* only a rebuild that swaps the page holds the lock between steps
LockOK == mutex = Serve <=> pc \in {"new", "old"}

\* in the second loop nothing waits, and each former key passed is on the page
CursorOK ==
    pc = "old" => /\ iq = <<>>
                  /\ cursor <= Len(old)
                  /\ \A i \in 1 .. cursor : Has(bufq, old[i])

IInv == TypeOK /\ LockOK /\ CursorOK /\ QueuedIsDirty

(* NothingSkipped, and why: a rebuild moves a kept key only towards the end *)
(* and never past another one.                                             *)

\* on seq, less what the page that replaces it has, kept keys stand in order
InOrder(rd, seq, page) ==
    \A p \in DOMAIN seq : \A i, j \in DOMAIN rd.front :
        /\ i < j /\ Kept(rd, i) /\ Kept(rd, j)
        /\ seq[p] = rd.front[j] /\ ~Has(page, seq[p])
        => \E q \in 1 .. p - 1 : seq[q] = rd.front[i]

\* the reader has read the kept keys in front of where it is
Passed(rd) ==
    \A p \in DOMAIN bufq : \A j \in DOMAIN rd.front :
        /\ p <= rd.at /\ rd.start < j /\ Kept(rd, j) /\ bufq[p] = rd.front[j]
        => Has(rd.page, rd.front[j])

\* so it had on the former page, unless the new one has filled up to there
PassedOld(rd) ==
    \A p \in DOMAIN old : \A j \in DOMAIN rd.front :
        /\ p <= rd.at /\ Len(bufq) < rd.at
        /\ rd.start < j /\ Kept(rd, j) /\ old[p] = rd.front[j] /\ ~Has(bufq, old[p])
        => Has(rd.page, rd.front[j])

Follows(rd) ==
    /\ \A i \in DOMAIN iq : iq[i] \in rd.fresh
    /\ InOrder(rd, bufq, <<>>) /\ Passed(rd)
    /\ pc \in {"new", "old"} => InOrder(rd, old, bufq) /\ PassedOld(rd)

SkipInv ==
    /\ IInv
    /\ NothingSkipped
    /\ \A r \in Readers : reader[r].reading => Follows(reader[r])
=============================================================================
