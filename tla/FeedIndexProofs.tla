--------------------------- MODULE FeedIndexProofs ---------------------------
(***************************************************************************)
(* The safety of FeedIndex for every set of keys, handlers and readers and *)
(* every length of the page, and the refinement of RecentFeed: what Merge  *)
(* computes, what a key in front of it changes, and a step for each step.  *)
(***************************************************************************)
EXTENDS FeedIndexPromise, SequenceFacts, FiniteSetTheorems, TLAPS

\* The next slot of a page takes a key the page lacks.
LEMMA AppendPage ==
    ASSUME NEW seq, IsPage(seq), NEW key \in Keys, ~Has(seq, key), Len(seq) < Cap
    PROVE  IsPage(Append(seq, key))
<1>1. Append(seq, key) \in Seq(Keys) /\ Len(Append(seq, key)) = Len(seq) + 1
  BY DEF IsPage
<1>2. Distinct(Append(seq, key))
  BY DEF IsPage, Distinct, Has
<1>3. Len(seq) + 1 <= Cap
  BY ConstantsAssumption DEF IsPage
<1> QED BY <1>1, <1>2, <1>3 DEF IsPage

\* The empty page.
LEMMA EmptyPage == IsPage(<<>>)
BY ConstantsAssumption DEF IsPage, Distinct

\* Fill leaves a page, the key is on it and so are all that were.
LEMMA FillPage ==
    ASSUME IsPage(bufq), Len(bufq) < Cap, NEW key \in Keys, Fill(key)
    PROVE  /\ IsPage(bufq')
           /\ Has(bufq', key)
           /\ \A k : Has(bufq, k) => Has(bufq', k)
<1>1. CASE Has(bufq, key)
  BY <1>1 DEF Fill
<1>2. CASE ~Has(bufq, key)
  <2>1. bufq' = Append(bufq, key)
    BY <1>2 DEF Fill
  <2>2. IsPage(bufq')
    BY <1>2, <2>1, AppendPage
  <2>3. Has(bufq', key) /\ \A k : Has(bufq, k) => Has(bufq', k)
    BY <2>1 DEF IsPage, Has
  <2> QED BY <2>2, <2>3
<1> QED BY <1>1, <1>2

\* Former keys, each once, need as many slots of the page they are on.
LEMMA FormerFits ==
    ASSUME NEW former, NEW page, NEW n \in Nat, IsPage(former), IsPage(page),
           n <= Len(former), \A i \in 1 .. n : Has(page, former[i])
    PROVE  n <= Len(page)
<1> DEFINE slot == [i \in 1 .. n |-> CHOOSE j \in DOMAIN page : page[j] = former[i]]
<1>1. Len(page) \in Nat
  BY DEF IsPage
<1>2. \A i \in 1 .. n : slot[i] \in 1 .. Len(page) /\ page[slot[i]] = former[i]
  BY DEF IsPage, Has
<1>3. slot \in [1 .. n -> 1 .. Len(page)]
  BY <1>2
<1>4. \A i, j \in 1 .. n : slot[i] = slot[j] => i = j
  <2> HIDE DEF slot
  <2> QED BY <1>1, <1>2 DEF IsPage, Distinct
<1>5. ~(Len(page) < n)
  <2> SUFFICES ASSUME Len(page) < n PROVE FALSE
    OBVIOUS
  <2> HIDE DEF slot
  <2>1. \A m \in Nat : IsFiniteSet(1 .. m) /\ Cardinality(1 .. m) = m
    <3> TAKE m \in Nat
    <3>1. /\ IsFiniteSet(1 .. m)
          /\ Cardinality(1 .. m) = IF 1 > m THEN 0 ELSE m - 1 + 1
      BY 1 \in Int, m \in Int, FS_Interval
    <3> QED BY <3>1, SMT
  <2>2. Cardinality(1 .. Len(page)) < Cardinality(1 .. n)
    BY <1>1, <2>1
  <2>3. \E i, j \in 1 .. n : i # j /\ slot[i] = slot[j]
    BY <1>1, <1>3, <2>1, <2>2, FS_PigeonHole
  <2> QED BY <1>4, <2>3
<1> QED BY <1>1, <1>5

\* NoPanic follows from what the second loop keeps.
LEMMA NoPanicOK == IInv => NoPanic
<1> SUFFICES ASSUME IInv, pc = "old", Len(bufq) < Cap, ~(cursor < Cap)
             PROVE  FALSE
  BY DEF NoPanic
<1>1. Cap \in Nat /\ cursor \in Nat /\ IsPage(bufq) /\ IsPage(old) /\ cursor <= Len(old)
  BY ConstantsAssumption DEF IInv, TypeOK, CursorOK
<1>2. cursor <= Len(bufq)
  BY <1>1, FormerFits DEF IInv, CursorOK
<1> QED BY <1>1, <1>2 DEF IsPage

LEMMA IdleState == Idle \in ReadState
<1>1. \A seq : seq = <<>> => seq \in Seq(Keys)
  OBVIOUS
<1> QED BY <1>1 DEF Idle, Position, ReadState

LEMMA InitOK == Init => IInv
<1> SUFFICES ASSUME Init PROVE IInv
  OBVIOUS
<1>1. IsPage(bufq) /\ IsPage(old) /\ IsPage(saved)
  BY EmptyPage DEF Init
<1>3. iq \in Seq(Keys) /\ itemCh \in Seq(Keys) /\ Len(itemCh) <= 1
  BY DEF Init
<1>4. reader \in [Readers -> ReadState]
  BY IdleState DEF Init
<1>5. TypeOK
  BY <1>1, <1>3, <1>4 DEF Init, TypeOK
<1>2. LockOK /\ CursorOK /\ QueuedIsDirty
  BY ConstantsAssumption DEF Init, LockOK, CursorOK, QueuedIsDirty
<1> QED BY <1>2, <1>5 DEF IInv

-----------------------------------------------------------------------------
(* Frames: what a step that leaves a group of variables alone preserves.   *)

\* the parts of TypeOK, by who changes them
PagesOK == IsPage(bufq) /\ IsPage(old) /\ IsPage(saved)
QueueOK == iq \in Seq(Keys) /\ dirty \in BOOLEAN
ChansOK ==
    /\ doneCh \in BOOLEAN
    /\ itemCh \in Seq(Keys) /\ Len(itemCh) <= 1
    /\ sending \in [Pushers -> Keys \union {None}]
ServeOK ==
    /\ mutex \in {None, Serve}
    /\ pc \in {"select", "lock", "new", "old", "stopped"}
    /\ cursor \in Nat
ReaderOK == reader \in [Readers -> ReadState]
RestOK ==
    /\ phase \in {"up", "stopping", "dumped", "done"}
    /\ pushes \in Nat /\ crashes \in Nat

LEMMA TypeParts ==
    TypeOK <=> PagesOK /\ QueueOK /\ ChansOK /\ ServeOK /\ ReaderOK /\ RestOK
BY DEF TypeOK, PagesOK, QueueOK, ChansOK, ServeOK, ReaderOK, RestOK

LEMMA TypePartsNext ==
    TypeOK' <=> /\ PagesOK' /\ QueueOK' /\ ChansOK' /\ ServeOK' /\ ReaderOK' /\ RestOK'
BY DEF TypeOK, PagesOK, QueueOK, ChansOK, ServeOK, ReaderOK, RestOK

LEMMA PagesFrame == PagesOK /\ UNCHANGED <<bufq, old, saved>> => PagesOK'
BY DEF PagesOK, IsPage, Distinct
LEMMA QueueFrame == QueueOK /\ UNCHANGED <<iq, dirty>> => QueueOK'
BY DEF QueueOK
LEMMA ChansFrame == ChansOK /\ UNCHANGED chans => ChansOK'
BY DEF ChansOK, chans
LEMMA ServeFrame == ServeOK /\ UNCHANGED <<mutex, pc, cursor>> => ServeOK'
BY DEF ServeOK
LEMMA ReaderFrame == ReaderOK /\ UNCHANGED reader => ReaderOK'
BY DEF ReaderOK
LEMMA RestFrame == RestOK /\ UNCHANGED <<phase, bounds>> => RestOK'
BY DEF RestOK, bounds

LEMMA LockFrame == LockOK /\ UNCHANGED <<mutex, pc>> => LockOK'
BY DEF LockOK
LEMMA CursorFrame == CursorOK /\ UNCHANGED <<pc, iq, cursor, old, bufq>> => CursorOK'
BY DEF CursorOK, Has
LEMMA QueuedFrame == QueuedIsDirty /\ UNCHANGED <<iq, dirty>> => QueuedIsDirty'
BY DEF QueuedIsDirty

Frames == /\ PagesOK /\ QueueOK /\ ChansOK /\ ServeOK /\ ReaderOK /\ RestOK
          /\ LockOK /\ CursorOK /\ QueuedIsDirty

LEMMA Parts == (IInv <=> Frames) /\ (IInv' <=> Frames')
BY TypeParts, TypePartsNext DEF IInv, Frames

-----------------------------------------------------------------------------
(* One lemma per group of actions: each keeps the invariant.               *)

LEMMA PushKeeps ==
    ASSUME IInv, NEW p \in Pushers,
           PushSend(p) \/ \E key \in Keys : PushAdd(p, key)
    PROVE  IInv'
<1>0. Frames
  BY Parts
<1>1. CASE PushSend(p)
  <2> USE <1>1 DEF PushSend, index, serve, bounds
  <2>1. ChansOK'
    <3>1. sending[p] \in Keys /\ Len(itemCh) = 0
      BY <1>0 DEF Frames, ChansOK
    <3>2. itemCh' \in Seq(Keys) /\ Len(itemCh') = 1
      BY <1>0, <3>1 DEF Frames, ChansOK
    <3> QED BY <1>0, <3>2 DEF Frames, ChansOK
  <2>2. PagesOK' /\ QueueOK' /\ ServeOK' /\ ReaderOK' /\ RestOK'
    BY <1>0, PagesFrame, QueueFrame, ServeFrame, ReaderFrame, RestFrame DEF Frames
  <2>3. LockOK' /\ CursorOK' /\ QueuedIsDirty'
    BY <1>0, LockFrame, CursorFrame, QueuedFrame DEF Frames
  <2> QED BY <2>1, <2>2, <2>3, Parts DEF Frames
<1>2. ASSUME NEW key \in Keys, PushAdd(p, key) PROVE IInv'
  <2> USE <1>2 DEF PushAdd, serve
  <2>1. ChansOK' /\ QueueOK' /\ RestOK'
    BY <1>0 DEF Frames, ChansOK, QueueOK, RestOK
  <2>2. PagesOK' /\ ServeOK'
    BY <1>0, PagesFrame, ServeFrame DEF Frames
  <2>3. CursorOK'
    BY <1>0, ConstantsAssumption DEF Frames, LockOK, CursorOK
  <2>4. LockOK' /\ QueuedIsDirty'
    BY <1>0, LockFrame DEF Frames, QueuedIsDirty
  <2>5. ReaderOK'
    BY <1>0 DEF Frames, ReaderOK, Noticed, Position, ReadState
  <2> QED BY <2>1, <2>2, <2>3, <2>4, <2>5, Parts DEF Frames
<1> QED BY <1>1, <1>2

LEMMA SelectKeeps ==
    ASSUME IInv, TakeItem \/ Timeout \/ TakeDone
    PROVE  IInv'
<1>0. Frames
  BY Parts
<1> USE DEF TakeItem, Timeout, TakeDone, index, chans, serve, bounds
<1>1. ChansOK'
  <2>1. CASE TakeItem
    <3>1. itemCh' \in Seq(Keys) /\ Len(itemCh') <= 1
      BY <1>0, <2>1 DEF Frames, ChansOK
    <3> QED BY <1>0, <2>1, <3>1 DEF Frames, ChansOK
  <2>2. CASE Timeout
    BY <1>0, <2>2, ChansFrame DEF Frames
  <2>3. CASE TakeDone
    BY <1>0, <2>3 DEF Frames, ChansOK
  <2> QED BY <2>1, <2>2, <2>3
<1>2. ServeOK' /\ LockOK'
  BY <1>0 DEF Frames, ServeOK, LockOK
<1>3. PagesOK' /\ QueueOK' /\ ReaderOK' /\ RestOK'
  BY <1>0, PagesFrame, QueueFrame, ReaderFrame, RestFrame DEF Frames
<1>4. CursorOK' /\ QueuedIsDirty'
  BY <1>0, CursorFrame, QueuedFrame DEF Frames, CursorOK
<1> QED BY <1>1, <1>2, <1>3, <1>4, Parts DEF Frames

LEMMA RebuildKeeps == ASSUME IInv, Rebuild PROVE IInv'
<1>0. Frames
  BY Parts
<1>1. CASE RebuildStart
  <2> USE <1>1 DEF RebuildStart, chans, bounds
  <2>1. PagesOK'
    BY <1>0, EmptyPage DEF Frames, PagesOK, IsPage, Distinct
  <2>2. ServeOK' /\ LockOK' /\ CursorOK' /\ QueuedIsDirty'
    BY <1>0 DEF Frames, ServeOK, LockOK, CursorOK, QueuedIsDirty
  <2>3. QueueOK' /\ ChansOK' /\ ReaderOK' /\ RestOK'
    BY <1>0, QueueFrame, ChansFrame, ReaderFrame, RestFrame DEF Frames
  <2> QED BY <2>1, <2>2, <2>3, Parts DEF Frames
<1>2. CASE FillNew
  <2> DEFINE key == iq[Len(iq) - cursor]
  <2> USE <1>2 DEF FillNew, chans, bounds
  <2>1. key \in Keys
    BY <1>0 DEF Frames, QueueOK, ServeOK
  <2>2. PagesOK'
    <3>1. IsPage(bufq')
      BY <1>0, <2>1, FillPage DEF Frames, PagesOK
    <3> QED BY <1>0, <3>1 DEF Frames, PagesOK, IsPage, Distinct
  <2>3. ServeOK' /\ LockOK' /\ CursorOK'
    BY <1>0 DEF Frames, ServeOK, LockOK, CursorOK, Fill
  <2>4. QueueOK' /\ ChansOK' /\ ReaderOK' /\ RestOK' /\ QueuedIsDirty'
    BY <1>0, QueueFrame, ChansFrame, ReaderFrame, RestFrame, QueuedFrame DEF Frames
  <2> QED BY <2>2, <2>3, <2>4, Parts DEF Frames
<1>3. CASE Drain
  <2> USE <1>3 DEF Drain, chans, bounds
  <2>1. QueueOK' /\ ServeOK' /\ LockOK' /\ CursorOK' /\ QueuedIsDirty'
    BY <1>0 DEF Frames, QueueOK, ServeOK, LockOK, CursorOK, QueuedIsDirty, PagesOK, IsPage
  <2>2. PagesOK' /\ ChansOK' /\ ReaderOK' /\ RestOK'
    BY <1>0, PagesFrame, ChansFrame, ReaderFrame, RestFrame DEF Frames
  <2> QED BY <2>1, <2>2, Parts DEF Frames
<1>4. CASE FillOld
  <2> DEFINE key == old[cursor + 1]
  <2> USE <1>4 DEF FillOld, chans, bounds
  <2>1. key \in Keys
    BY <1>0 DEF Frames, PagesOK, IsPage, ServeOK
  <2>2. IsPage(bufq') /\ Has(bufq', key) /\ \A k : Has(bufq, k) => Has(bufq', k)
    BY <1>0, <2>1, FillPage DEF Frames, PagesOK
  <2>3. PagesOK'
    BY <1>0, <2>2 DEF Frames, PagesOK, IsPage, Distinct
  <2>4. CursorOK'
    <3>1. cursor' = cursor + 1 /\ cursor \in Nat /\ cursor' <= Len(old)
      BY <1>0 DEF Frames, ServeOK, PagesOK, IsPage, Fill
    <3>2. \A i \in 1 .. cursor' : Has(bufq', old[i])
      <4> TAKE i \in 1 .. cursor'
      <4>1. CASE i = cursor + 1
        BY <2>2, <4>1
      <4>2. CASE i \in 1 .. cursor
        BY <1>0, <2>2, <4>2 DEF Frames, CursorOK
      <4> QED BY <3>1, <4>1, <4>2
    <3> QED BY <1>0, <3>1, <3>2 DEF Frames, CursorOK
  <2>5. ServeOK' /\ LockOK'
    BY <1>0 DEF Frames, ServeOK, LockOK, Fill
  <2>6. QueueOK' /\ ChansOK' /\ ReaderOK' /\ RestOK' /\ QueuedIsDirty'
    BY <1>0, QueueFrame, ChansFrame, ReaderFrame, RestFrame, QueuedFrame DEF Frames
  <2> QED BY <2>3, <2>4, <2>5, <2>6, Parts DEF Frames
<1>5. CASE RebuildEnd
  <2> USE <1>5 DEF RebuildEnd, chans, bounds
  <2>1. PagesOK'
    BY <1>0, EmptyPage DEF Frames, PagesOK, IsPage, Distinct
  <2>2. QueueOK' /\ ServeOK' /\ CursorOK' /\ QueuedIsDirty'
    BY <1>0 DEF Frames, QueueOK, ServeOK, CursorOK, QueuedIsDirty
  <2>3. LockOK'
    BY <1>0, ConstantsAssumption DEF Frames, LockOK
  <2>4. ChansOK' /\ ReaderOK' /\ RestOK'
    BY <1>0, ChansFrame, ReaderFrame, RestFrame DEF Frames
  <2> QED BY <2>1, <2>2, <2>3, <2>4, Parts DEF Frames
<1> QED BY <1>1, <1>2, <1>3, <1>4, <1>5 DEF Rebuild

LEMMA DumpKeeps == ASSUME IInv, Dump \/ ShutdownDump PROVE IInv'
<1>0. Frames
  BY Parts
<1> USE DEF Dump, ShutdownDump, index, serve, bounds
<1>1. PagesOK'
  BY <1>0 DEF Frames, PagesOK, IsPage, Distinct
<1>2. RestOK'
  BY <1>0 DEF Frames, RestOK
<1>3. QueueOK' /\ ChansOK' /\ ServeOK' /\ ReaderOK'
  BY <1>0, QueueFrame, ChansFrame, ServeFrame, ReaderFrame DEF Frames
<1>4. LockOK' /\ CursorOK' /\ QueuedIsDirty'
  BY <1>0, LockFrame, CursorFrame, QueuedFrame DEF Frames
<1> QED BY <1>1, <1>2, <1>3, <1>4, Parts DEF Frames

LEMMA StopKeeps == ASSUME IInv, StopServer \/ ShutdownDone PROVE IInv'
<1>0. Frames
  BY Parts
<1> USE DEF StopServer, ShutdownDone, index, chans, serve, bounds
<1>1. ChansOK' /\ RestOK'
  BY <1>0 DEF Frames, ChansOK, RestOK
<1>2. PagesOK' /\ QueueOK' /\ ServeOK' /\ ReaderOK'
  BY <1>0, PagesFrame, QueueFrame, ServeFrame, ReaderFrame DEF Frames
<1>3. LockOK' /\ CursorOK' /\ QueuedIsDirty'
  BY <1>0, LockFrame, CursorFrame, QueuedFrame DEF Frames
<1> QED BY <1>1, <1>2, <1>3, Parts DEF Frames

LEMMA RestartKeeps == ASSUME IInv, Crash \/ Exit PROVE IInv'
<1>0. Frames
  BY Parts
<1>1. Restart /\ crashes' \in Nat
  BY <1>0 DEF Frames, RestOK, Crash, Exit
<1> USE DEF Restart
<1>2. PagesOK'
  BY <1>0, <1>1, EmptyPage DEF Frames, PagesOK, IsPage, Distinct
<1>3. \A seq : seq = <<>> => seq \in Seq(Keys) /\ Len(seq) = 0
  OBVIOUS
<1>4. QueueOK' /\ ChansOK'
  <2>1. iq' \in Seq(Keys) /\ itemCh' \in Seq(Keys) /\ Len(itemCh') <= 1
    BY <1>1, <1>3
  <2>2. sending' \in [Pushers -> Keys \union {None}]
    BY <1>1
  <2> QED BY <1>1, <2>1, <2>2 DEF QueueOK, ChansOK
<1>5. ServeOK' /\ RestOK'
  BY <1>0, <1>1 DEF Frames, ServeOK, RestOK
<1>6. ReaderOK'
  BY <1>1, IdleState DEF ReaderOK
<1>7. LockOK' /\ CursorOK' /\ QueuedIsDirty'
  BY <1>1, ConstantsAssumption DEF LockOK, CursorOK, QueuedIsDirty
<1> QED BY <1>2, <1>4, <1>5, <1>6, <1>7, Parts DEF Frames

LEMMA ReadKeeps ==
    ASSUME IInv, NEW r \in Readers,
           \/ \E start \in 0 .. 1 : StartRead(r, start)
           \/ ReadSlot(r) \/ ReadEmptySlot(r) \/ ReadReturn(r)
    PROVE  IInv'
<1>0. Frames
  BY Parts
<1> DEFINE rd == reader[r]
<1>1. /\ rd.at \in Nat /\ rd.start \in Nat /\ rd.page \in Seq(Keys)
      /\ rd.reading \in BOOLEAN /\ rd.front \in Seq(Keys) /\ rd.fresh \in SUBSET Keys
  BY <1>0 DEF Frames, ReaderOK, ReadState
<1>2. UNCHANGED <<index, chans, serve, saved, phase, bounds>>
  BY DEF StartRead, ReadSlot, ReadEmptySlot, ReadReturn
<1>3. PagesOK' /\ QueueOK' /\ ChansOK' /\ ServeOK' /\ RestOK'
  BY <1>0, <1>2, PagesFrame, QueueFrame, ChansFrame, ServeFrame, RestFrame
  DEF Frames, index, serve
<1>4. LockOK' /\ CursorOK' /\ QueuedIsDirty'
  BY <1>0, <1>2, LockFrame, CursorFrame, QueuedFrame DEF Frames, index, serve
<1>5. PICK new : reader' = [reader EXCEPT ![r] = new] /\ new \in ReadState
  <2>1. ASSUME NEW start \in 0 .. 1, StartRead(r, start)
        PROVE  Position(start, start, <<>>, TRUE, bufq, PageKeys(iq)) \in ReadState
    <3>1. \A seq : seq = <<>> => seq \in Seq(Keys)
      OBVIOUS
    <3>2. bufq \in Seq(Keys) /\ PageKeys(iq) \in SUBSET Keys /\ start \in Nat
      BY <1>0 DEF Frames, PagesOK, IsPage, QueueOK, PageKeys
    <3> QED BY <3>1, <3>2 DEF Position, ReadState
  <2>2. ASSUME ReadSlot(r), NEW page, page = Append(rd.page, bufq[rd.at + 1]),
               NEW more, more = (Len(page) <= PageSize /\ rd.at + 1 < Cap)
        PROVE  Position(rd.at + 1, rd.start, page, more, rd.front, rd.fresh) \in ReadState
    <3>1. bufq \in Seq(Keys) /\ rd.at < Len(bufq)
      BY <1>0, <2>2 DEF Frames, PagesOK, IsPage, ReadSlot
    <3>2. page \in Seq(Keys) /\ more \in BOOLEAN /\ rd.at + 1 \in Nat
      BY <1>1, <2>2, <3>1
    <3> QED BY <1>1, <3>2 DEF Position, ReadState
  <2>3. Position(rd.at, rd.start, rd.page, FALSE, rd.front, rd.fresh) \in ReadState
    BY <1>1 DEF Position, ReadState
  <2> QED BY <2>1, <2>2, <2>3, IdleState DEF StartRead, ReadSlot, ReadEmptySlot, ReadReturn
<1>6. ReaderOK'
  BY <1>0, <1>5 DEF Frames, ReaderOK
<1> QED BY <1>3, <1>4, <1>6, Parts DEF Frames

LEMMA StutterKeeps == IInv /\ UNCHANGED vars => IInv'
<1> SUFFICES ASSUME IInv, UNCHANGED vars PROVE IInv'
  OBVIOUS
<1> USE DEF vars, index, chans, serve, bounds
<1>1. Frames
  BY Parts
<1>2. PagesOK' /\ QueueOK' /\ ChansOK' /\ ServeOK' /\ ReaderOK' /\ RestOK'
  BY <1>1, PagesFrame, QueueFrame, ChansFrame, ServeFrame, ReaderFrame, RestFrame DEF Frames
<1>3. LockOK' /\ CursorOK' /\ QueuedIsDirty'
  BY <1>1, LockFrame, CursorFrame, QueuedFrame DEF Frames
<1> QED BY <1>2, <1>3, Parts DEF Frames

LEMMA StepKeeps == IInv /\ [Next]_vars => IInv'
<1> SUFFICES ASSUME IInv, [Next]_vars PROVE IInv'
  OBVIOUS
<1>1. CASE \E p \in Pushers : PushSend(p) \/ \E key \in Keys : PushAdd(p, key)
  BY <1>1, PushKeeps
<1>2. CASE TakeItem \/ Timeout \/ TakeDone
  BY <1>2, SelectKeeps
<1>3. CASE Rebuild
  BY <1>3, RebuildKeeps
<1>4. CASE Dump \/ ShutdownDump
  BY <1>4, DumpKeeps
<1>5. CASE StopServer \/ ShutdownDone
  BY <1>5, StopKeeps
<1>6. CASE Crash \/ Exit
  BY <1>6, RestartKeeps
<1>7. CASE \E r \in Readers : \/ \E start \in 0 .. 1 : StartRead(r, start)
                              \/ ReadSlot(r) \/ ReadEmptySlot(r) \/ ReadReturn(r)
  BY <1>7, ReadKeeps
<1>8. CASE UNCHANGED vars
  BY <1>8, StutterKeeps
<1> QED BY <1>1, <1>2, <1>3, <1>4, <1>5, <1>6, <1>7, <1>8 DEF Next

\* IInv is an invariant.
LEMMA Inductive == Spec => []IInv
BY InitOK, StepKeeps, PTL DEF Spec

\* The page, its former copy and the dump hold each key once, rebuild never
\* indexes past the former page, and dirty is set while a key waits: for any
\* number of handlers, any length of the page and any interleaving.
THEOREM IndexSafety == Spec => [](TypeOK /\ NoPanic /\ QueuedIsDirty)
<1>1. IInv => TypeOK /\ NoPanic /\ QueuedIsDirty
  BY NoPanicOK DEF IInv
<1> QED BY <1>1, Inductive, PTL

\* The pages, the queue and the readers have their types.
THEOREM IndexTypes == Spec => []TypeOK
BY IndexSafety, PTL

\* No key waits in the queue behind a flag that says there is nothing to do.
THEOREM QueuedTheorem == Spec => []QueuedIsDirty
BY IndexSafety, PTL

-----------------------------------------------------------------------------
(* The readers that take no lock.  A rebuild moves a kept key only towards *)
(* the end of the page and past no other one: what holds of one reader     *)
(* while the page moves, then each step of the readers.                    *)

ReadsFollow == \A r \in Readers : reader[r].reading => Follows(reader[r])

\* A step that leaves the readers alone keeps what holds of each.
LEMMA PageMoves ==
    ASSUME SkipInv, UNCHANGED reader,
           \A rd \in ReadState : Follows(rd) => Follows(rd)'
    PROVE  NothingSkipped' /\ ReadsFollow'
<1>1. NothingSkipped'
  BY DEF SkipInv, NothingSkipped, Unbroken, Kept, Has
<1>2. ReadsFollow'
  <2> SUFFICES ASSUME NEW r \in Readers, reader[r].reading PROVE Follows(reader[r])'
    BY DEF ReadsFollow
  <2>1. PICK rd \in ReadState : rd = reader[r]
    BY DEF SkipInv, IInv, TypeOK
  <2>2. Follows(rd)
    BY <2>1 DEF SkipInv
  <2>3. Follows(rd)' /\ reader'[r] = rd
    BY <2>1, <2>2
  <2> QED BY <2>3 DEF Follows, InOrder, Passed, PassedOld
<1> QED BY <1>1, <1>2

\* The page stands still.
LEMMA StillFollows ==
    ASSUME NEW rd, Follows(rd), bufq' = bufq,
           iq' = iq \/ iq' = <<>>,
           pc' \in {"new", "old"} => pc \in {"new", "old"} /\ old' = old
    PROVE  Follows(rd)'
<1>1. \A i \in DOMAIN iq' : iq'[i] \in rd.fresh
  BY DEF Follows
<1>2. InOrder(rd, bufq', <<>>)
  BY DEF Follows
<1>3. Passed(rd)'
  BY DEF Follows, Passed
<1>4. pc' \in {"new", "old"} => InOrder(rd, old', bufq') /\ PassedOld(rd)'
  BY DEF Follows, PassedOld
<1> QED BY <1>1, <1>2, <1>3, <1>4 DEF Follows

\* A rebuild begins: the page becomes the former page.
LEMMA StartFollows ==
    ASSUME NEW rd, Follows(rd), RebuildStart
    PROVE  Follows(rd)'
<1> USE DEF RebuildStart
<1>1. \A i \in DOMAIN iq' : iq'[i] \in rd.fresh
  BY DEF Follows
<1>2. InOrder(rd, bufq', <<>>) /\ Passed(rd)'
  BY DEF InOrder, Passed
<1>3. InOrder(rd, old', bufq')
  BY DEF Follows, InOrder, Has
<1>4. PassedOld(rd)'
  BY DEF Follows, Passed, PassedOld
<1> QED BY <1>1, <1>2, <1>3, <1>4 DEF Follows

\* A key that has every kept key before it on the page may follow.
LEMMA OrderGrows ==
    ASSUME NEW rd, NEW seq \in Seq(Keys), NEW key, InOrder(rd, seq, <<>>),
           \A i, j \in DOMAIN rd.front :
               i < j /\ Kept(rd, i) /\ Kept(rd, j) /\ key = rd.front[j] => Has(seq, rd.front[i])
    PROVE  InOrder(rd, Append(seq, key), <<>>)
<1> SUFFICES ASSUME NEW p \in DOMAIN Append(seq, key), NEW i \in DOMAIN rd.front,
                    NEW j \in DOMAIN rd.front, i < j, Kept(rd, i), Kept(rd, j),
                    Append(seq, key)[p] = rd.front[j]
             PROVE  \E q \in 1 .. p - 1 : Append(seq, key)[q] = rd.front[i]
  BY DEF InOrder
<1>1. CASE p = Len(seq) + 1
  <2>1. PICK q \in DOMAIN seq : seq[q] = rd.front[i]
    BY <1>1 DEF Has
  <2> QED BY <1>1, <2>1
<1>2. CASE p \in DOMAIN seq
  <2>1. PICK q \in 1 .. p - 1 : seq[q] = rd.front[i]
    BY <1>2 DEF InOrder, Has
  <2>2. q \in DOMAIN seq
    BY <1>2
  <2> QED BY <2>1, <2>2
<1> QED BY <1>1, <1>2

\* A page that grows leaves less of the former page to come.
LEMMA OldFollows ==
    ASSUME NEW rd, NEW former, InOrder(rd, former, bufq), \A k : Has(bufq, k) => Has(bufq', k)
    PROVE  InOrder(rd, former, bufq')
BY DEF InOrder

\* The next slot takes key: the reader has not been there, or has seen key.
LEMMA SlotFollows ==
    ASSUME NEW rd, rd.at \in Nat, IInv, Follows(rd), pc \in {"new", "old"},
           UNCHANGED <<pc, iq, old>>, NEW key \in Keys, Fill(key),
           \A i, j \in DOMAIN rd.front :
               i < j /\ Kept(rd, i) /\ Kept(rd, j) /\ key = rd.front[j] => Has(bufq, rd.front[i]),
           \A j \in DOMAIN rd.front :
               /\ Len(bufq) < rd.at /\ ~Has(bufq, key)
               /\ rd.start < j /\ Kept(rd, j) /\ key = rd.front[j]
               => Has(rd.page, rd.front[j])
    PROVE  Follows(rd)'
<1>0. bufq \in Seq(Keys)
  BY DEF IInv, TypeOK, IsPage
<1>1. CASE Has(bufq, key)
  BY <1>1, StillFollows DEF Fill
<1>2. CASE ~Has(bufq, key)
  <2>1. bufq' = Append(bufq, key)
    BY <1>2 DEF Fill
  <2>2. \A k : Has(bufq, k) => Has(bufq', k)
    BY <1>0, <2>1 DEF Has
  <2>3. InOrder(rd, bufq', <<>>)
    BY <1>0, <2>1, OrderGrows DEF Follows
  <2>4. InOrder(rd, old', bufq')
    BY <2>2, OldFollows DEF Follows
  <2>5. Passed(rd)'
    <3> SUFFICES ASSUME NEW p \in DOMAIN bufq', NEW j \in DOMAIN rd.front,
                        p <= rd.at, rd.start < j, Kept(rd, j), bufq'[p] = rd.front[j]
                 PROVE  Has(rd.page, rd.front[j])
      BY DEF Passed
    <3>1. CASE p = Len(bufq) + 1
      BY <1>0, <1>2, <2>1, <3>1
    <3>2. CASE p \in DOMAIN bufq
      BY <1>0, <2>1, <3>2 DEF Follows, Passed
    <3> QED BY <1>0, <2>1, <3>1, <3>2
  <2>6. PassedOld(rd)'
    <3>1. Len(bufq') < rd.at => Len(bufq) < rd.at
      BY <1>0, <2>1
    <3> QED BY <2>2, <3>1 DEF Follows, PassedOld
  <2>7. \A i \in DOMAIN iq' : iq'[i] \in rd.fresh
    BY DEF Follows
  <2> QED BY <2>3, <2>4, <2>5, <2>6, <2>7 DEF Follows
<1> QED BY <1>1, <1>2

\* The first loop fills with keys that waited, which no reader keeps.
LEMMA NewFollows ==
    ASSUME NEW rd, rd.at \in Nat, IInv, Follows(rd), FillNew
    PROVE  Follows(rd)'
<1>1. PICK key : key = iq[Len(iq) - cursor]
  OBVIOUS
<1>2. /\ Fill(key) /\ UNCHANGED <<pc, iq, old>> /\ pc = "new"
      /\ iq \in Seq(Keys) /\ cursor \in Nat /\ cursor < Len(iq)
  BY <1>1 DEF FillNew, IInv, TypeOK
<1>3. Len(iq) - cursor \in DOMAIN iq
  BY <1>2
<1>4. key \in Keys /\ key \in rd.fresh
  BY <1>1, <1>2, <1>3 DEF Follows
<1>5. \A j \in DOMAIN rd.front : key = rd.front[j] => ~Kept(rd, j)
  BY <1>4 DEF Kept
<1> QED BY <1>2, <1>4, <1>5, SlotFollows

\* The second loop takes the former keys in their order, and has passed no
\* more of them than it has filled slots.
LEMMA OldKeysFollow ==
    ASSUME NEW rd, rd.at \in Nat, IInv, Follows(rd), FillOld
    PROVE  Follows(rd)'
<1>1. PICK key : key = old[cursor + 1]
  OBVIOUS
<1>2. /\ Fill(key) /\ UNCHANGED <<pc, iq, old>> /\ pc = "old"
      /\ IsPage(bufq) /\ IsPage(old) /\ cursor \in Nat /\ cursor < Len(old)
      /\ \A i \in 1 .. cursor : Has(bufq, old[i])
  BY <1>1 DEF FillOld, IInv, TypeOK, CursorOK
<1>3. old \in Seq(Keys) /\ Len(bufq) \in Nat /\ cursor + 1 \in DOMAIN old /\ key \in Keys
  BY <1>1, <1>2 DEF IsPage
<1>4. cursor <= Len(bufq)
  <2>1. cursor <= Len(old)
    BY <1>2, <1>3
  <2> QED BY <1>2, <2>1, FormerFits
<1>5. ASSUME NEW i \in DOMAIN rd.front, NEW j \in DOMAIN rd.front,
             i < j, Kept(rd, i), Kept(rd, j), key = rd.front[j]
      PROVE  Has(bufq, rd.front[i])
  <2>1. CASE Has(bufq, key)
    <3>1. PICK p \in DOMAIN bufq : bufq[p] = rd.front[j]
      BY <1>5, <2>1 DEF Has
    <3>2. PICK q \in 1 .. p - 1 : bufq[q] = rd.front[i]
      BY <1>5, <3>1 DEF Follows, InOrder, Has
    <3>3. q \in DOMAIN bufq
      BY <1>2, <3>1 DEF IsPage
    <3> QED BY <3>2, <3>3 DEF Has
  <2>2. CASE ~Has(bufq, key)
    <3>1. PICK q \in 1 .. (cursor + 1) - 1 : old[q] = rd.front[i]
      BY <1>1, <1>2, <1>3, <1>5, <2>2 DEF Follows, InOrder
    <3> QED BY <1>2, <3>1
  <2> QED BY <2>1, <2>2
<1>6. ASSUME NEW j \in DOMAIN rd.front, Len(bufq) < rd.at, ~Has(bufq, key),
             rd.start < j, Kept(rd, j), key = rd.front[j]
      PROVE  Has(rd.page, rd.front[j])
  <2>1. cursor + 1 <= rd.at
    BY <1>2, <1>3, <1>4, <1>6
  <2> QED BY <1>1, <1>2, <1>3, <1>6, <2>1 DEF Follows, PassedOld
<1> QED BY <1>2, <1>3, <1>5, <1>6, SlotFollows

\* A push names its key to every reader, which keeps less.
LEMMA PushSkips ==
    ASSUME SkipInv, NEW p \in Pushers, NEW key \in Keys, PushAdd(p, key)
    PROVE  NothingSkipped' /\ ReadsFollow'
<1>0. /\ reader \in [Readers -> ReadState] /\ iq \in Seq(Keys)
      /\ mutex = Serve <=> pc \in {"new", "old"}
      /\ Serve # None
  BY ConstantsAssumption DEF SkipInv, IInv, TypeOK, LockOK
<1>1. /\ reader' = Noticed(key) /\ iq' = Append(iq, key) /\ UNCHANGED <<bufq, pc>>
      /\ pc \notin {"new", "old"}
  BY <1>0 DEF PushAdd, serve
<1> SUFFICES ASSUME NEW r \in Readers
             PROVE  /\ Unbroken(reader'[r])
                    /\ reader'[r].reading => Follows(reader[r])'
  BY DEF NothingSkipped, ReadsFollow, Unbroken, Kept, Has
<1>2. PICK rd \in ReadState : rd = reader[r]
  BY <1>0
<1>3. Unbroken(rd) /\ (rd.reading => Follows(rd))
  BY <1>2 DEF SkipInv, NothingSkipped
<1>4. CASE ~rd.reading
  BY <1>1, <1>2, <1>3, <1>4 DEF Noticed
<1>5. CASE rd.reading
  <2>1. PICK new : new = Position(rd.at, rd.start, rd.page, TRUE, rd.front,
                                  rd.fresh \union {key})
    OBVIOUS
  <2>2. reader'[r] = new
    BY <1>1, <1>2, <1>5, <2>1 DEF Noticed
  <2>3. /\ new.at = rd.at /\ new.start = rd.start /\ new.page = rd.page
        /\ new.front = rd.front /\ new.fresh = rd.fresh \union {key}
    BY <2>1 DEF Position
  <2>4. \A i : Kept(new, i) => Kept(rd, i)
    BY <2>3 DEF Kept
  <2>5. Unbroken(new)
    BY <1>3, <2>3, <2>4 DEF Unbroken
  <2>6. Follows(new)'
    <3>1. \A i \in DOMAIN iq' : iq'[i] \in new.fresh
      <4> TAKE i \in DOMAIN iq'
      <4>1. CASE i \in DOMAIN iq
        BY <1>0, <1>1, <1>3, <1>5, <2>3, <4>1 DEF Follows
      <4>2. CASE i = Len(iq) + 1
        BY <1>0, <1>1, <2>3, <4>2
      <4> QED BY <1>0, <1>1, <4>1, <4>2
    <3>2. InOrder(new, bufq', <<>>)
      BY <1>1, <1>3, <1>5, <2>3, <2>4 DEF Follows, InOrder
    <3>3. Passed(new)'
      BY <1>1, <1>3, <1>5, <2>3, <2>4 DEF Follows, Passed
    <3> QED BY <1>1, <3>1, <3>2, <3>3 DEF Follows
  <2> QED BY <2>2, <2>5, <2>6 DEF Follows, InOrder, Passed, PassedOld
<1> QED BY <1>4, <1>5

\* A read begins with the page as it is.
LEMMA StartReads ==
    ASSUME IInv, NEW start \in 0 .. 1, NEW new,
           new = Position(start, start, <<>>, TRUE, bufq, PageKeys(iq))
    PROVE  Unbroken(new) /\ Follows(new)
<1>1. /\ new.at = start /\ new.start = start /\ new.page = <<>>
      /\ new.front = bufq /\ new.fresh = PageKeys(iq)
  BY DEF Position
<1>2. bufq \in Seq(Keys) /\ Distinct(bufq)
  BY DEF IInv, TypeOK, IsPage
<1>3. Unbroken(new)
  <2>1. \A k : ~Has(<<>>, k)
    BY DEF Has
  <2> QED BY <1>1, <2>1 DEF Unbroken
<1>4. \A i \in DOMAIN iq : iq[i] \in new.fresh
  BY <1>1 DEF PageKeys
<1>5. InOrder(new, bufq, <<>>)
  <2> SUFFICES ASSUME NEW p \in DOMAIN bufq, NEW i \in DOMAIN new.front,
                      NEW j \in DOMAIN new.front, i < j, bufq[p] = new.front[j]
               PROVE  \E q \in 1 .. p - 1 : bufq[q] = new.front[i]
    BY DEF InOrder
  <2>1. p = j /\ i \in DOMAIN bufq
    BY <1>1, <1>2 DEF Distinct
  <2>2. i \in 1 .. p - 1
    BY <1>2, <2>1
  <2>3. bufq[i] = new.front[i]
    BY <1>1
  <2> QED BY <2>2, <2>3
<1>6. Passed(new)
  <2> SUFFICES ASSUME NEW p \in DOMAIN bufq, NEW j \in DOMAIN bufq,
                      p <= start, start < j, bufq[p] = bufq[j]
               PROVE  FALSE
    BY <1>1 DEF Passed
  <2>1. p = j
    BY <1>2 DEF Distinct
  <2> QED BY <1>2, <2>1
<1>7. InOrder(new, old, bufq) /\ PassedOld(new)
  <2>1. \A j \in DOMAIN new.front : Has(bufq, new.front[j])
    BY <1>1 DEF Has
  <2> QED BY <2>1 DEF InOrder, PassedOld
<1> QED BY <1>3, <1>4, <1>5, <1>6, <1>7 DEF Follows

LEMMA HasAppended ==
    ASSUME NEW seq \in Seq(Keys), NEW key \in Keys
    PROVE  \A k : Has(Append(seq, key), k) <=> Has(seq, k) \/ k = key
<1> TAKE k
<1>1. Has(Append(seq, key), k) => Has(seq, k) \/ k = key
  BY DEF Has
<1>2. Has(seq, k) => Has(Append(seq, key), k)
  BY DEF Has
<1>3. Has(Append(seq, key), key)
  <2>1. Append(seq, key)[Len(seq) + 1] = key /\ Len(seq) + 1 \in DOMAIN Append(seq, key)
    OBVIOUS
  <2> QED BY <2>1 DEF Has
<1> QED BY <1>1, <1>2, <1>3

\* A slot that is read comes after those of the kept keys before it.
LEMMA SlotReads ==
    ASSUME IInv, NEW rd \in ReadState, Unbroken(rd), Follows(rd), rd.at < Len(bufq),
           NEW more, NEW new,
           new = Position(rd.at + 1, rd.start, Append(rd.page, bufq[rd.at + 1]),
                          more, rd.front, rd.fresh)
    PROVE  Unbroken(new) /\ Follows(new)
<1>0. PICK at \in Nat : at = rd.at
  BY DEF ReadState
<1>1. bufq \in Seq(Keys) /\ rd.page \in Seq(Keys) /\ at + 1 \in DOMAIN bufq
  BY <1>0 DEF IInv, TypeOK, IsPage, ReadState
<1>2. /\ new.at = at + 1 /\ new.start = rd.start /\ new.front = rd.front
      /\ new.fresh = rd.fresh /\ new.page = Append(rd.page, bufq[at + 1])
  BY <1>0 DEF Position
<1>3. \A k : Has(new.page, k) <=> Has(rd.page, k) \/ k = bufq[at + 1]
  <2>1. PICK key \in Keys : key = bufq[at + 1]
    BY <1>1
  <2>2. new.page = Append(rd.page, key)
    BY <1>2, <2>1
  <2>3. PICK page \in Seq(Keys) : page = rd.page
    BY <1>1
  <2>4. \A k : Has(Append(page, key), k) <=> Has(page, k) \/ k = key
    BY HasAppended
  <2> QED BY <2>1, <2>2, <2>3, <2>4
<1>4. \A i : Kept(new, i) <=> Kept(rd, i)
  BY <1>2 DEF Kept
<1>5. Unbroken(new)
  <2> SUFFICES ASSUME NEW i \in DOMAIN rd.front, NEW j \in DOMAIN rd.front,
                      rd.start < i, i < j, Kept(rd, i), Kept(rd, j),
                      Has(new.page, rd.front[j])
               PROVE  Has(new.page, rd.front[i])
    BY <1>2, <1>4 DEF Unbroken
  <2>1. CASE Has(rd.page, rd.front[j])
    BY <1>3, <2>1 DEF Unbroken
  <2>2. CASE rd.front[j] = bufq[at + 1]
    <3>1. PICK q \in 1 .. (at + 1) - 1 : bufq[q] = rd.front[i]
      BY <1>1, <2>2 DEF Follows, InOrder, Has
    <3>2. q \in DOMAIN bufq /\ q <= at
      BY <1>1, <3>1
    <3>3. Has(rd.page, rd.front[i])
      BY <1>0, <3>1, <3>2 DEF Follows, Passed
    <3> QED BY <1>3, <3>3
  <2> QED BY <1>3, <2>1, <2>2
<1>6. Passed(new)
  <2> SUFFICES ASSUME NEW p \in DOMAIN bufq, NEW j \in DOMAIN rd.front,
                      p <= at + 1, rd.start < j, Kept(rd, j), bufq[p] = rd.front[j]
               PROVE  Has(new.page, rd.front[j])
    BY <1>2, <1>4 DEF Passed
  <2>1. CASE p = at + 1
    BY <1>3, <2>1
  <2>2. CASE p <= at
    BY <1>0, <1>3, <2>2 DEF Follows, Passed
  <2> QED BY <1>1, <2>1, <2>2
<1>7. InOrder(new, bufq, <<>>) /\ \A i \in DOMAIN iq : iq[i] \in new.fresh
  BY <1>2, <1>4 DEF Follows, InOrder
<1>8. pc \in {"new", "old"} => InOrder(new, old, bufq)
  BY <1>2, <1>4 DEF Follows, InOrder
<1>9. PassedOld(new)
  <2>1. ~(Len(bufq) < at + 1)
    BY <1>0, <1>1
  <2> QED BY <1>2, <2>1 DEF PassedOld
<1> QED BY <1>5, <1>6, <1>7, <1>8, <1>9 DEF Follows

LEMMA ReadSkips ==
    ASSUME SkipInv, NEW r \in Readers,
           \/ \E start \in 0 .. 1 : StartRead(r, start)
           \/ ReadSlot(r) \/ ReadEmptySlot(r) \/ ReadReturn(r)
    PROVE  NothingSkipped' /\ ReadsFollow'
<1>0. reader \in [Readers -> ReadState] /\ IInv
  BY DEF SkipInv, IInv, TypeOK
<1>1. UNCHANGED <<bufq, iq, pc, old>>
  BY DEF StartRead, ReadSlot, ReadEmptySlot, ReadReturn, index, serve
<1>2. PICK rd \in ReadState : rd = reader[r]
  BY <1>0
<1>3. Unbroken(rd) /\ (rd.reading => Follows(rd))
  BY <1>2 DEF SkipInv, NothingSkipped
<1>4. PICK new : /\ reader' = [reader EXCEPT ![r] = new]
                 /\ Unbroken(new)
                 /\ new.reading => Follows(new)
  <2>1. CASE \E start \in 0 .. 1 : StartRead(r, start)
    BY <1>0, <2>1, StartReads DEF StartRead
  <2>2. CASE ReadSlot(r)
    <3>1. PICK more : more = (Len(Append(rd.page, bufq[rd.at + 1])) <= PageSize
                              /\ rd.at + 1 < Cap)
      OBVIOUS
    <3>2. PICK new : new = Position(rd.at + 1, rd.start, Append(rd.page, bufq[rd.at + 1]),
                                    more, rd.front, rd.fresh)
      OBVIOUS
    <3>3. rd.reading /\ rd.at < Len(bufq) /\ reader' = [reader EXCEPT ![r] = new]
      BY <1>2, <2>2, <3>1, <3>2 DEF ReadSlot
    <3>4. Unbroken(new) /\ Follows(new)
      BY <1>0, <1>3, <3>2, <3>3, SlotReads
    <3> QED BY <3>3, <3>4
  <2>3. CASE ReadEmptySlot(r)
    <3>1. PICK new : new = Position(rd.at, rd.start, rd.page, FALSE, rd.front, rd.fresh)
      OBVIOUS
    <3>2. reader' = [reader EXCEPT ![r] = new]
      BY <1>2, <2>3, <3>1 DEF ReadEmptySlot
    <3>3. Unbroken(new) /\ ~new.reading
      BY <1>3, <3>1 DEF Position, Unbroken, Kept
    <3> QED BY <3>2, <3>3
  <2>4. CASE ReadReturn(r)
    <3>1. Unbroken(Idle) /\ ~Idle.reading
      BY DEF Idle, Position, Unbroken
    <3> QED BY <2>4, <3>1 DEF ReadReturn
  <2> QED BY <2>1, <2>2, <2>3, <2>4
<1>5. ASSUME NEW q \in Readers
      PROVE  /\ Unbroken(reader'[q])
             /\ reader'[q].reading => Follows(reader'[q])
  BY <1>0, <1>4 DEF SkipInv, NothingSkipped
<1>6. ASSUME NEW x, Follows(x) PROVE Follows(x)'
  BY <1>1, <1>6, StillFollows
<1>7. NothingSkipped'
  BY <1>5 DEF NothingSkipped, Unbroken, Kept, Has
<1>8. ReadsFollow'
  <2> SUFFICES ASSUME NEW q \in Readers, reader'[q].reading PROVE Follows(reader[q])'
    BY DEF ReadsFollow
  <2>1. PICK x : x = reader'[q]
    OBVIOUS
  <2>2. Follows(x)'
    BY <1>5, <1>6, <2>1
  <2> QED BY <2>1, <2>2 DEF Follows, InOrder, Passed, PassedOld
<1> QED BY <1>7, <1>8

LEMMA RestartSkips ==
    ASSUME Crash \/ Exit
    PROVE  NothingSkipped' /\ ReadsFollow'
<1>1. reader' = [r \in Readers |-> Idle]
  BY DEF Crash, Exit, Restart
<1>2. Unbroken(Idle) /\ ~Idle.reading
  BY DEF Idle, Position, Unbroken
<1> QED BY <1>1, <1>2 DEF NothingSkipped, ReadsFollow, Unbroken, Kept, Has

\* The steps of a rebuild, and those that leave the page alone.
LEMMA RebuildSkips ==
    ASSUME SkipInv, Rebuild
    PROVE  NothingSkipped' /\ ReadsFollow'
<1>1. IInv /\ UNCHANGED reader
  BY DEF SkipInv, Rebuild, RebuildStart, FillNew, Drain, FillOld, RebuildEnd
<1>2. ASSUME NEW rd \in ReadState, Follows(rd) PROVE Follows(rd)'
  <2>1. rd.at \in Nat
    BY DEF ReadState
  <2>2. CASE RebuildStart
    BY <1>2, <2>2, StartFollows
  <2>3. CASE FillNew
    BY <1>1, <1>2, <2>1, <2>3, NewFollows
  <2>4. CASE Drain \/ RebuildEnd
    BY <1>2, <2>4, StillFollows DEF Drain, RebuildEnd
  <2>5. CASE FillOld
    BY <1>1, <1>2, <2>1, <2>5, OldKeysFollow
  <2> QED BY <2>2, <2>3, <2>4, <2>5 DEF Rebuild
<1> QED BY <1>1, <1>2, PageMoves

LEMMA QuietSkips ==
    ASSUME SkipInv, UNCHANGED <<reader, bufq, iq, old>>,
           pc' \in {"new", "old"} => pc \in {"new", "old"}
    PROVE  NothingSkipped' /\ ReadsFollow'
<1>1. ASSUME NEW rd \in ReadState, Follows(rd) PROVE Follows(rd)'
  BY <1>1, StillFollows
<1> QED BY <1>1, PageMoves

LEMMA SkipStep == SkipInv /\ [Next]_vars => SkipInv'
<1> SUFFICES ASSUME SkipInv, [Next]_vars PROVE NothingSkipped' /\ ReadsFollow'
  BY StepKeeps DEF SkipInv, ReadsFollow
<1>1. ASSUME NEW p \in Pushers, PushSend(p) PROVE NothingSkipped' /\ ReadsFollow'
  BY <1>1, QuietSkips DEF PushSend, index, serve
<1>2. ASSUME NEW p \in Pushers, NEW key \in Keys, PushAdd(p, key)
      PROVE  NothingSkipped' /\ ReadsFollow'
  BY <1>2, PushSkips
<1>3. CASE TakeItem \/ Timeout \/ TakeDone
  BY <1>3, QuietSkips DEF TakeItem, Timeout, TakeDone, index, serve
<1>4. CASE Rebuild
  BY <1>4, RebuildSkips
<1>5. CASE Dump \/ ShutdownDump \/ StopServer \/ ShutdownDone
  BY <1>5, QuietSkips DEF Dump, ShutdownDump, StopServer, ShutdownDone, index, serve
<1>6. CASE \E r \in Readers : \/ \E start \in 0 .. 1 : StartRead(r, start)
                              \/ ReadSlot(r) \/ ReadEmptySlot(r) \/ ReadReturn(r)
  BY <1>6, ReadSkips
<1>7. CASE Crash \/ Exit
  BY <1>7, RestartSkips
<1>8. CASE UNCHANGED vars
  BY <1>8, QuietSkips DEF vars, index, serve
<1> QED BY <1>1, <1>2, <1>3, <1>4, <1>5, <1>6, <1>7, <1>8 DEF Next

\* A page skips nothing between two entries it shows (server/server.go:306-341
\* reads the slots that server/index.go:76-124 empties and refills), for any
\* number of readers and pushers, any length of the page and of what is read,
\* and however many rebuilds overtake a read.
THEOREM SkipTheorem == Spec => []NothingSkipped
<1>1. Init => SkipInv
  <2>1. Unbroken(Idle) /\ ~Idle.reading
    BY DEF Idle, Position, Unbroken
  <2> QED BY <2>1, InitOK DEF Init, SkipInv, NothingSkipped
<1>2. SkipInv /\ [Next]_vars => SkipInv'
  BY SkipStep
<1>3. SkipInv => NothingSkipped
  BY DEF SkipInv
<1> QED BY <1>1, <1>2, <1>3, PTL DEF Spec

-----------------------------------------------------------------------------
(* Merge.  It takes the keys one after the other: what holds of it is what *)
(* each step of its run keeps.                                             *)

AllPages == {page \in Seq(Keys) : IsPage(page)}

LEMMA TakeKeyFact ==
    ASSUME NEW page \in AllPages, NEW key \in Keys
    PROVE  /\ TakeKey(page, key) \in AllPages
           /\ TakeKey(page, key) = IF Has(page, key) \/ Len(page) = Cap THEN page
                                   ELSE Append(page, key)
<1>1. IsPage(page) /\ Len(page) \in Nat /\ Cap \in Nat
  BY ConstantsAssumption DEF AllPages, IsPage
<1>2. key \in Range(page) <=> Has(page, key)
  BY DEF Range, Has
<1>3. TakeKey(page, key) = IF Has(page, key) \/ Len(page) = Cap THEN page
                           ELSE Append(page, key)
  BY <1>2 DEF TakeKey
<1>4. CASE Has(page, key) \/ Len(page) = Cap
  BY <1>3, <1>4
<1>5. CASE ~Has(page, key) /\ Len(page) # Cap
  <2>1. Len(page) < Cap
    BY <1>1, <1>5 DEF IsPage
  <2>2. IsPage(Append(page, key))
    BY <1>1, <1>5, <2>1, AppendPage
  <2>3. Append(page, key) \in Seq(Keys)
    BY <2>2 DEF IsPage
  <2> QED BY <1>3, <1>5, <2>2, <2>3 DEF AllPages
<1> QED BY <1>4, <1>5

LEMMA PageIs ==
    ASSUME NEW page \in AllPages
    PROVE  /\ page \in Seq(Keys) /\ Len(page) \in Nat /\ DOMAIN page = 1 .. Len(page)
           /\ Len(page) <= Cap /\ Cap \in Nat /\ Distinct(page)
BY ConstantsAssumption DEF AllPages, IsPage

LEMMA StepsEnd ==
    ASSUME NEW n \in Nat, NEW A, 0 \in A, \A i \in 1 .. n : i - 1 \in A => i \in A
    PROVE  n \in A
<1>1. 0 .. n \subseteq A
  BY StepsReach
<1>2. n \in 0 .. n
  OBVIOUS
<1> QED BY <1>1, <1>2

LEMMA NoKeys == <<>> \in AllPages
BY EmptyPage DEF AllPages

\* two sequences with the same elements
LEMMA SameSeq ==
    ASSUME NEW p \in Seq(Keys), NEW q \in Seq(Keys), Len(p) = Len(q),
           \A i \in 1 .. Len(p) : p[i] = q[i]
    PROVE  p = q
<1>1. p = [i \in 1 .. Len(p) |-> p[i]] /\ q = [i \in 1 .. Len(q) |-> q[i]]
  OBVIOUS
<1> QED BY <1>1

Taking(more) == [p \in AllPages \X (1 .. Len(more)) |-> TakeKey(p[1], more[p[2]])]

\* run is what Merge goes through, from page to the result
MergeRun(run, n, page, more) ==
    /\ n \in Nat /\ n = Len(more)
    /\ run \in [0 .. n -> AllPages]
    /\ run[0] = page /\ run[n] = Merge(page, more)
    /\ \A i \in 1 .. n : more[i] \in Keys /\ run[i] = TakeKey(run[i - 1], more[i])

\* the recursive function by which the fold is defined
MergeIter(page, more) == CHOOSE g :
    g = [s \in SUBSET DOMAIN more |->
            IF s = {} THEN page ELSE TakeKey(g[s \ {Max(s)}], more[Max(s)])]

LEMMA MergeUnfolds ==
    ASSUME NEW page, NEW more
    PROVE  Merge(page, more) = MergeIter(page, more)[DOMAIN more]
  BY Zenon DEF Merge, FoldLeft, MapThenFoldSet, MergeIter

LEMMA MergeRuns ==
    ASSUME NEW page \in AllPages, NEW more \in Seq(Keys)
    PROVE  \E run, n : MergeRun(run, n, page, more)
<1> DEFINE n == Len(more)
           F == Taking(more)
           Eq(g) == g = [s \in SUBSET DOMAIN more |->
                            IF s = {} THEN page ELSE TakeKey(g[s \ {Max(s)}], more[Max(s)])]
           d == MergeIter(page, more)
<1>1. n \in Nat /\ DOMAIN more = 1 .. n /\ \A i \in 1 .. n : more[i] \in Keys
  OBVIOUS
<1>2. \A p \in AllPages : \A i \in 1 .. n :
          TakeKey(p, more[i]) \in AllPages /\ F[<<p, i>>] = TakeKey(p, more[i])
  <2>1. ASSUME NEW p \in AllPages, NEW i \in 1 .. n
        PROVE  TakeKey(p, more[i]) \in AllPages /\ F[<<p, i>>] = TakeKey(p, more[i])
    <3>1. TakeKey(p, more[i]) \in AllPages
      BY <1>1, TakeKeyFact
    <3> HIDE DEF n
    <3>2. F[<<p, i>>] = TakeKey(p, more[i])
      BY DEF Taking, n
    <3> QED BY <3>1, <3>2
  <2> QED BY <2>1
<1>3. F \in [AllPages \X (1 .. n) -> AllPages]
  BY <1>2 DEF Taking
<1> HIDE DEF n, F, d
<1>4. PICK h : IsIter(h, F, page, n, AllPages)
  BY <1>1, <1>3, IterExists
<1>5. \A s \in SUBSET (1 .. n) : s # {} =>
          Max(s) \in 1 .. n /\ s \ {Max(s)} \in SUBSET (1 .. n)
  <2>1. ASSUME NEW s \in SUBSET (1 .. n), s # {} PROVE Max(s) \in 1 .. n
    BY <1>1, <2>1, MaxFact
  <2> QED BY <2>1
<1>6. Eq(h)
  <2>1. ASSUME NEW s \in SUBSET (1 .. n)
        PROVE  h[s] = IF s = {} THEN page ELSE TakeKey(h[s \ {Max(s)}], more[Max(s)])
    <3>1. CASE s = {}
      BY <1>4, <3>1 DEF IsIter
    <3>2. CASE s # {}
      <4>1. Max(s) \in 1 .. n /\ s \ {Max(s)} \in SUBSET (1 .. n)
        BY <1>5, <3>2
      <4>2. h[s \ {Max(s)}] \in AllPages
        BY <1>4, <4>1 DEF IsIter
      <4>3. h[s] = F[<<h[s \ {Max(s)}], Max(s)>>]
        BY <1>4, <3>2 DEF IsIter
      <4> QED BY <1>2, <3>2, <4>1, <4>2, <4>3
    <3> QED BY <3>1, <3>2
  <2>2. h = [s \in SUBSET (1 .. n) |-> h[s]]
    BY <1>4 DEF IsIter
  <2>3. [s \in SUBSET (1 .. n) |-> h[s]]
            = [s \in SUBSET (1 .. n) |->
                  IF s = {} THEN page ELSE TakeKey(h[s \ {Max(s)}], more[Max(s)])]
    BY <2>1
  <2> QED BY <1>1, <2>2, <2>3
<1>7. Eq(d)
  <2>1. d = CHOOSE g : Eq(g)
    BY DEF d, MergeIter
  <2> HIDE DEF Eq
  <2> QED BY <1>6, <2>1, Zenon
<1>8. d[{}] = page
  BY <1>1, <1>7
<1>9. ASSUME NEW s \in SUBSET (1 .. n), s # {}, d[s \ {Max(s)}] \in AllPages
      PROVE  d[s] = F[<<d[s \ {Max(s)}], Max(s)>>]
  <2>1. Max(s) \in 1 .. n /\ s \ {Max(s)} \in SUBSET (1 .. n)
    BY <1>5, <1>9
  <2>2. d[s] = TakeKey(d[s \ {Max(s)}], more[Max(s)])
    BY <1>1, <1>7, <1>9
  <2> QED BY <1>2, <1>9, <2>1, <2>2
<1> DEFINE run == [i \in 0 .. n |-> d[1 .. i]]
<1> HIDE DEF Eq
<1>10. IsRun(run, F, page, n, AllPages)
  <2>1. Iterates(d, F, page, n, AllPages)
    BY <1>8, <1>9 DEF Iterates
  <2> QED BY <1>1, <1>3, <2>1, PrefixesRun
<1>11. run[n] = d[1 .. n]
  BY <1>1
<1>12. Merge(page, more) = d[1 .. n]
  BY <1>1, MergeUnfolds DEF d
<1> HIDE DEF run
<1>13. \A i \in 1 .. n : run[i] = TakeKey(run[i - 1], more[i])
  <2>1. ASSUME NEW i \in 1 .. n PROVE run[i] = TakeKey(run[i - 1], more[i])
    <3>1. PICK p \in AllPages : p = run[i - 1]
      BY <1>1, <1>10 DEF IsRun
    <3>2. run[i] = F[<<p, i>>]
      BY <1>10, <3>1 DEF IsRun
    <3> QED BY <1>2, <3>1, <3>2
  <2> QED BY <2>1
<1>14. MergeRun(run, n, page, more)
  BY <1>1, <1>10, <1>11, <1>12, <1>13 DEF MergeRun, IsRun, n
<1> QED BY <1>14

LEMMA MergePage ==
    ASSUME NEW page \in AllPages, NEW more \in Seq(Keys)
    PROVE  Merge(page, more) \in AllPages
<1>1. PICK run, n : MergeRun(run, n, page, more)
  BY MergeRuns
<1> QED BY <1>1 DEF MergeRun

\* The keys of a page come out as they are.
LEMMA MergeEmpty ==
    ASSUME NEW page \in AllPages
    PROVE  Merge(<<>>, page) = page
<1>1. PICK run, n : MergeRun(run, n, <<>>, page)
  BY NoKeys, MergeRuns, PageIs
<1>2. n \in Nat /\ n = Len(page) /\ n <= Cap /\ page \in Seq(Keys)
  BY <1>1, PageIs DEF MergeRun
<1> DEFINE A == {i \in 0 .. n : Len(run[i]) = i /\ \A j \in 1 .. i : run[i][j] = page[j]}
<1>3. 0 \in A
  BY <1>1, <1>2 DEF MergeRun
<1>4. ASSUME NEW i \in 1 .. n, i - 1 \in A PROVE i \in A
  <2>1. PICK p \in AllPages : p = run[i - 1]
    BY <1>1, <1>2 DEF MergeRun
  <2>2. Len(p) = i - 1 /\ \A j \in 1 .. i - 1 : p[j] = page[j]
    BY <1>4, <2>1
  <2>3. p \in Seq(Keys) /\ DOMAIN p = 1 .. i - 1 /\ Cap \in Nat
    BY <2>2, PageIs
  <2>4. PICK key \in Keys : key = page[i]
    BY <1>2
  <2>5. ~Has(p, key)
    <3>1. \A j \in 1 .. i - 1 : page[j] # page[i]
      BY <1>2, PageIs DEF Distinct
    <3> QED BY <2>2, <2>3, <2>4, <3>1 DEF Has
  <2>6. run[i] = TakeKey(p, key)
    BY <1>1, <1>2, <2>1, <2>4 DEF MergeRun
  <2>7. run[i] = Append(p, key)
    BY <1>2, <2>2, <2>3, <2>5, <2>6, TakeKeyFact
  <2>8. Len(Append(p, key)) = i /\ \A j \in 1 .. i : Append(p, key)[j] = page[j]
    BY <2>2, <2>3, <2>4
  <2> QED BY <2>7, <2>8
<1> HIDE DEF A
<1>5. n \in A
  BY <1>2, <1>3, <1>4, StepsEnd
<1>6. PICK p \in AllPages : p = run[n] /\ p = Merge(<<>>, page)
  BY <1>1, <1>2 DEF MergeRun
<1>7. Len(p) = n /\ \A j \in 1 .. n : p[j] = page[j]
  BY <1>5, <1>6 DEF A
<1> QED BY <1>2, <1>6, <1>7, SameSeq, PageIs

\* A page that is full or has all the keys takes none.
LEMMA MergeNothing ==
    ASSUME NEW page \in AllPages, NEW more \in Seq(Keys),
           Len(page) = Cap \/ \A i \in 1 .. Len(more) : Has(page, more[i])
    PROVE  Merge(page, more) = page
<1>1. PICK run, n : MergeRun(run, n, page, more)
  BY MergeRuns
<1> DEFINE A == {i \in 0 .. n : run[i] = page}
<1>2. n \in Nat /\ 0 \in A
  BY <1>1 DEF MergeRun
<1>3. ASSUME NEW i \in 1 .. n, i - 1 \in A PROVE i \in A
  <2>1. PICK key \in Keys : key = more[i]
    BY <1>1 DEF MergeRun
  <2>2. TakeKey(page, key) = page
    <3>1. Len(page) = Cap \/ Has(page, key)
      BY <1>1, <2>1 DEF MergeRun
    <3> QED BY <3>1, TakeKeyFact
  <2>3. run[i] = TakeKey(page, key)
    BY <1>1, <1>3, <2>1 DEF MergeRun
  <2> QED BY <2>2, <2>3
<1> HIDE DEF A
<1>4. n \in A
  BY <1>2, <1>3, StepsEnd
<1> QED BY <1>1, <1>4 DEF A, MergeRun

\* The run goes through the prefixes.
LEMMA MergePrefix ==
    ASSUME NEW page \in AllPages, NEW more \in Seq(Keys), NEW run, NEW n,
           MergeRun(run, n, page, more), NEW c \in 0 .. n
    PROVE  Merge(page, SubSeq(more, 1, c)) = run[c]
<1>1. n \in Nat /\ n = Len(more) /\ c \in Nat
  BY DEF MergeRun
<1>2. PICK part : part = SubSeq(more, 1, c)
  OBVIOUS
<1>3. part \in Seq(Keys) /\ Len(part) = c /\ \A i \in 1 .. c : part[i] = more[i]
  BY <1>1, <1>2
<1>4. PICK f : MergeRun(f, c, page, part)
  <2>1. PICK f, m : MergeRun(f, m, page, part)
    BY <1>3, MergeRuns
  <2>2. m = c
    BY <1>3, <2>1 DEF MergeRun
  <2> QED BY <2>1, <2>2
<1> DEFINE A == {i \in 0 .. c : f[i] = run[i]}
<1>5. 0 \in A
  BY <1>1, <1>4 DEF MergeRun
<1>6. ASSUME NEW i \in 1 .. c, i - 1 \in A PROVE i \in A
  <2>1. f[i - 1] = run[i - 1] /\ part[i] = more[i] /\ i \in 1 .. n
    BY <1>1, <1>3, <1>6
  <2>2. f[i] = TakeKey(f[i - 1], part[i])
    BY <1>4 DEF MergeRun
  <2>3. run[i] = TakeKey(run[i - 1], more[i])
    BY <2>1 DEF MergeRun
  <2> QED BY <2>1, <2>2, <2>3
<1> HIDE DEF A
<1>7. c \in A
  BY <1>1, <1>5, <1>6, StepsEnd
<1>8. f[c] = Merge(page, part)
  BY <1>4 DEF MergeRun
<1> QED BY <1>2, <1>7, <1>8 DEF A

\* The next key of the run.
LEMMA MergeNext ==
    ASSUME NEW page \in AllPages, NEW more \in Seq(Keys), NEW c \in 0 .. Len(more) - 1
    PROVE  Merge(page, SubSeq(more, 1, c + 1))
               = TakeKey(Merge(page, SubSeq(more, 1, c)), more[c + 1])
<1>1. PICK run, n : MergeRun(run, n, page, more)
  BY MergeRuns
<1>2. c \in 0 .. n /\ c + 1 \in 1 .. n /\ c + 1 \in 0 .. n
  BY <1>1 DEF MergeRun
<1>3. run[c + 1] = TakeKey(run[c], more[c + 1])
  BY <1>1, <1>2 DEF MergeRun
<1>4. Merge(page, SubSeq(more, 1, c)) = run[c]
  BY <1>1, <1>2, MergePrefix
<1>5. Merge(page, SubSeq(more, 1, c + 1)) = run[c + 1]
  BY <1>1, <1>2, MergePrefix
<1> QED BY <1>3, <1>4, <1>5

\* The rest changes nothing once the page is full.
LEMMA MergeFull ==
    ASSUME NEW page \in AllPages, NEW more \in Seq(Keys), NEW c \in 0 .. Len(more),
           Len(Merge(page, SubSeq(more, 1, c))) = Cap
    PROVE  Merge(page, more) = Merge(page, SubSeq(more, 1, c))
<1>1. PICK run, n : MergeRun(run, n, page, more)
  BY MergeRuns
<1>2. n \in Nat /\ c \in 0 .. n
  BY <1>1 DEF MergeRun
<1>3. PICK full \in AllPages :
          full = run[c] /\ Len(full) = Cap /\ full = Merge(page, SubSeq(more, 1, c))
  BY <1>1, <1>2, MergePrefix DEF MergeRun
<1> DEFINE A == {i \in 0 .. n : i >= c => run[i] = full}
<1>4. 0 \in A
  <2>1. 0 >= c => c = 0
    BY <1>2
  <2>2. 0 >= c => run[0] = full
    BY <1>3, <2>1
  <2> QED BY <1>2, <2>2
<1>5. ASSUME NEW i \in 1 .. n, i - 1 \in A PROVE i \in A
  <2>1. CASE i > c
    <3>1. run[i - 1] = full
      BY <1>2, <1>5, <2>1
    <3>2. PICK key \in Keys : key = more[i]
      BY <1>1 DEF MergeRun
    <3>3. run[i] = TakeKey(full, key)
      BY <1>1, <3>1, <3>2 DEF MergeRun
    <3>4. TakeKey(full, key) = full
      BY <1>3, TakeKeyFact
    <3> QED BY <3>3, <3>4
  <2>2. CASE ~(i > c)
    <3>1. i >= c => i = c
      BY <1>2, <2>2
    <3>2. i >= c => run[i] = full
      BY <1>3, <3>1
    <3> QED BY <1>2, <3>2
  <2> QED BY <2>1, <2>2
<1> HIDE DEF A
<1>6. n \in A
  BY <1>2, <1>4, <1>5, StepsEnd
<1>7. run[n] = full
  BY <1>2, <1>6 DEF A
<1> QED BY <1>1, <1>3, <1>7 DEF MergeRun

\* A first key can be taken before the others.
LEMMA MergeCons ==
    ASSUME NEW page \in AllPages, NEW key \in Keys, NEW rest \in Seq(Keys), NEW more,
           more \in Seq(Keys), Len(more) = Len(rest) + 1, more[1] = key,
           \A i \in 1 .. Len(rest) : more[i + 1] = rest[i]
    PROVE  Merge(page, more) = Merge(TakeKey(page, key), rest)
<1>1. PICK f, m : MergeRun(f, m, page, more)
  BY MergeRuns
<1>2. TakeKey(page, key) \in AllPages
  BY TakeKeyFact
<1>3. PICK g, n : MergeRun(g, n, TakeKey(page, key), rest)
  BY <1>2, MergeRuns
<1>4. n \in Nat /\ m = n + 1 /\ n = Len(rest)
  BY <1>1, <1>3 DEF MergeRun
<1> DEFINE A == {i \in 0 .. n : f[i + 1] = g[i]}
<1>5. 0 \in A
  <2>1. 1 \in 1 .. m /\ 1 - 1 = 0
    BY <1>4
  <2>2. f[1] = TakeKey(f[0], key)
    BY <1>1, <2>1 DEF MergeRun
  <2> QED BY <1>1, <1>3, <1>4, <2>2 DEF MergeRun
<1>6. ASSUME NEW i \in 1 .. n, i - 1 \in A PROVE i \in A
  <2>1. f[i] = g[i - 1]
    BY <1>6
  <2>2. i + 1 \in 1 .. m /\ i + 1 - 1 = i /\ more[i + 1] = rest[i]
    BY <1>4
  <2>3. f[i + 1] = TakeKey(f[i], more[i + 1])
    BY <1>1, <2>2 DEF MergeRun
  <2>4. g[i] = TakeKey(g[i - 1], rest[i])
    BY <1>3 DEF MergeRun
  <2> QED BY <2>1, <2>2, <2>3, <2>4
<1> HIDE DEF A
<1>7. n \in A
  BY <1>4, <1>5, <1>6, StepsEnd
<1>8. f[n + 1] = g[n]
  BY <1>7 DEF A
<1> QED BY <1>1, <1>3, <1>4, <1>8 DEF MergeRun

\* A key of more whose forerunners the page has can be taken at once.
LEMMA MergeTaken ==
    ASSUME NEW page \in AllPages, NEW more \in Seq(Keys), NEW c \in 0 .. Len(more) - 1,
           \A i \in 1 .. c : Has(page, more[i]), Len(page) # Cap
    PROVE  Merge(TakeKey(page, more[c + 1]), more) = Merge(page, more)
<1>1. PICK key \in Keys : key = more[c + 1]
  OBVIOUS
<1>2. PICK q \in AllPages : q = TakeKey(page, key)
  BY TakeKeyFact
<1>3. Has(q, key) /\ \A k : Has(page, k) => Has(q, k)
  <2>1. page \in Seq(Keys)
    BY PageIs
  <2>2. CASE Has(page, key)
    BY <1>2, <2>2, TakeKeyFact
  <2>3. CASE ~Has(page, key)
    <3>1. q = Append(page, key)
      BY <1>2, <2>3, TakeKeyFact
    <3>2. PICK r : r = Append(page, key)
      OBVIOUS
    <3>3. /\ DOMAIN r = 1 .. Len(page) + 1 /\ r[Len(page) + 1] = key
          /\ \A i \in 1 .. Len(page) : r[i] = page[i]
          /\ DOMAIN page = 1 .. Len(page) /\ Len(page) \in Nat
      BY <2>1, <3>2
    <3>4. Has(r, key) /\ \A k : Has(page, k) => Has(r, k)
      BY <3>3 DEF Has
    <3> QED BY <3>1, <3>2, <3>4
  <2> QED BY <2>2, <2>3
<1>4. PICK f, n : MergeRun(f, n, page, more)
  BY MergeRuns
<1>5. PICK g : MergeRun(g, n, q, more)
  <2>1. PICK g, m : MergeRun(g, m, q, more)
    BY MergeRuns
  <2>2. m = n
    BY <1>4, <2>1 DEF MergeRun
  <2> QED BY <2>1, <2>2
<1>6. n \in Nat /\ c \in 0 .. n - 1 /\ f[0] = page /\ g[0] = q
  BY <1>4, <1>5 DEF MergeRun
<1> DEFINE A == {i \in 0 .. n : /\ g[i] = IF i <= c THEN q ELSE f[i]
                                /\ i <= c => f[i] = page}
<1>7. 0 \in A
  BY <1>6
<1>8. ASSUME NEW i \in 1 .. n, i - 1 \in A PROVE i \in A
  <2>1. PICK k \in Keys : k = more[i]
    BY <1>4 DEF MergeRun
  <2>2. f[i] = TakeKey(f[i - 1], k) /\ g[i] = TakeKey(g[i - 1], k)
    BY <1>4, <1>5, <2>1 DEF MergeRun
  <2>3. CASE i <= c
    <3>1. f[i - 1] = page /\ g[i - 1] = q
      BY <1>6, <1>8, <2>3
    <3>2. Has(page, k) /\ Has(q, k)
      BY <1>3, <1>6, <2>1, <2>3
    <3>3. TakeKey(page, k) = page /\ TakeKey(q, k) = q
      BY <3>2, TakeKeyFact
    <3> QED BY <2>2, <2>3, <3>1, <3>3
  <2>4. CASE i = c + 1
    <3>1. f[i - 1] = page /\ g[i - 1] = q
      BY <1>6, <1>8, <2>4
    <3>2. k = key
      BY <1>1, <2>1, <2>4
    <3>3. f[i] = q /\ g[i] = TakeKey(q, k)
      BY <1>2, <2>2, <3>1, <3>2
    <3>4. TakeKey(q, k) = q
      BY <1>3, <3>2, TakeKeyFact
    <3>5. g[i] = f[i] /\ ~(i <= c)
      BY <1>6, <2>4, <3>3, <3>4
    <3> QED BY <3>5
  <2>5. CASE i > c + 1
    <3>1. g[i - 1] = f[i - 1] /\ ~(i <= c)
      BY <1>6, <1>8, <2>5
    <3>2. g[i] = f[i]
      BY <2>2, <3>1
    <3> QED BY <3>1, <3>2
  <2> QED BY <1>6, <2>3, <2>4, <2>5
<1> HIDE DEF A
<1>9. n \in A
  BY <1>6, <1>7, <1>8, StepsEnd
<1>10. g[n] = f[n]
  BY <1>6, <1>9 DEF A
<1> QED BY <1>1, <1>2, <1>4, <1>5, <1>10 DEF MergeRun

-----------------------------------------------------------------------------
(* A key that is published goes to the front: of what was merged after it  *)
(* and of what was merged without it, the first is the second with the key *)
(* in front.                                                               *)

\* k is the first place of key in page, or past its end
IsFirst(k, page, key) ==
    /\ k \in 1 .. Len(page) + 1
    /\ k <= Len(page) => page[k] = key
    /\ \A j \in 1 .. Len(page) : j < k => page[j] # key

\* front is page with key in front, rather than at k
IsFront(front, page, key, k) ==
    /\ Len(front) = IF k <= Len(page) THEN Len(page)
                    ELSE IF Len(page) < Cap THEN Len(page) + 1 ELSE Cap
    /\ front[1] = key
    /\ \A i \in 2 .. Len(front) : front[i] = IF i <= k THEN page[i - 1] ELSE page[i]

InFront(front, page, key) == \E k : IsFirst(k, page, key) /\ IsFront(front, page, key, k)

LEMMA OneFront ==
    ASSUME NEW page \in AllPages, NEW key \in Keys, NEW p \in Seq(Keys), NEW q \in Seq(Keys),
           InFront(p, page, key), InFront(q, page, key)
    PROVE  p = q
<1>0. page \in Seq(Keys) /\ Len(page) \in Nat
  BY PageIs
<1>1. PICK k : IsFirst(k, page, key) /\ IsFront(p, page, key, k)
  BY DEF InFront
<1>2. PICK l : IsFirst(l, page, key) /\ IsFront(q, page, key, l)
  BY DEF InFront
<1>3. k = l
  BY <1>0, <1>1, <1>2 DEF IsFirst
<1>4. Len(p) = Len(q) /\ \A i \in 2 .. Len(p) : p[i] = q[i]
  BY <1>1, <1>2, <1>3 DEF IsFront
<1>5. p[1] = q[1]
  BY <1>1, <1>2 DEF IsFront
<1>6. ASSUME NEW i \in 1 .. Len(p) PROVE p[i] = q[i]
  <2>1. i = 1 \/ i \in 2 .. Len(p)
    OBVIOUS
  <2> QED BY <1>4, <1>5, <2>1
<1> QED BY <1>4, <1>6, SameSeq

\* front has what page has, and key, or is full
LEMMA FrontHas ==
    ASSUME NEW page \in AllPages, NEW key \in Keys, NEW front \in AllPages, NEW k,
           IsFirst(k, page, key), IsFront(front, page, key, k)
    PROVE  /\ Has(front, key)
           /\ Len(front) >= Len(page) /\ Len(front) >= 1
           /\ \A x : Has(page, x) => Has(front, x) \/ (Len(front) = Cap /\ Len(page) = Cap)
           /\ \A x : Has(front, x) => x = key \/ Has(page, x)
<1>1. /\ page \in Seq(Keys) /\ Len(page) \in Nat /\ Len(page) <= Cap
      /\ front \in Seq(Keys) /\ Len(front) \in Nat /\ Cap \in Nat /\ Cap >= 1
      /\ DOMAIN page = 1 .. Len(page) /\ DOMAIN front = 1 .. Len(front)
      /\ k \in 1 .. Len(page) + 1
  BY PageIs, ConstantsAssumption DEF IsFirst
<1>2. Len(front) >= Len(page) /\ Len(front) >= 1
  BY <1>1 DEF IsFront
<1>3. Has(front, key)
  BY <1>1, <1>2 DEF IsFront, Has
<1>4. ASSUME NEW x, Has(page, x), ~(Len(front) = Cap /\ Len(page) = Cap) PROVE Has(front, x)
  <2>1. PICK j \in 1 .. Len(page) : page[j] = x
    BY <1>1, <1>4 DEF Has
  <2>2. CASE j = k
    BY <1>3, <2>1, <2>2 DEF IsFirst
  <2>3. CASE j > k
    <3>1. j \in 2 .. Len(front) /\ ~(j <= k)
      BY <1>1, <1>2, <2>3
    <3>2. front[j] = page[j]
      BY <3>1 DEF IsFront
    <3> QED BY <1>1, <2>1, <3>1, <3>2 DEF Has
  <2>4. CASE j < k
    <3>1. j + 1 \in 2 .. Len(front) /\ j + 1 <= k
      <4>1. Len(front) >= j + 1
        <5>1. CASE k <= Len(page)
          BY <1>1, <1>2, <2>4, <5>1
        <5>2. CASE ~(k <= Len(page)) /\ Len(page) < Cap
          <6>1. Len(front) = Len(page) + 1
            BY <5>2 DEF IsFront
          <6> QED BY <1>1, <6>1
        <5>3. CASE ~(k <= Len(page)) /\ ~(Len(page) < Cap)
          <6>1. Len(front) = Cap
            BY <5>3 DEF IsFront
          <6>2. Len(page) = Cap
            <7>1. Len(page) \in Nat /\ Cap \in Nat /\ Len(page) <= Cap
              BY <1>1
            <7> QED BY <5>3, <7>1
          <6> QED BY <1>4, <6>1, <6>2
        <5> QED BY <5>1, <5>2, <5>3
      <4> QED BY <1>1, <2>4, <4>1
    <3>2. front[j + 1] = page[j + 1 - 1]
      BY <3>1 DEF IsFront
    <3>3. j + 1 - 1 = j
      OBVIOUS
    <3> QED BY <1>1, <2>1, <3>1, <3>2, <3>3 DEF Has
  <2> QED BY <1>1, <2>2, <2>3, <2>4
<1>5. ASSUME NEW x, Has(front, x), x # key PROVE Has(page, x)
  <2>1. PICK i \in 1 .. Len(front) : front[i] = x
    BY <1>1, <1>5 DEF Has
  <2>2. i \in 2 .. Len(front)
    BY <1>5, <2>1 DEF IsFront
  <2>3. CASE i <= k
    <3>1. x = page[i - 1] /\ i - 1 \in 1 .. Len(page)
      BY <1>1, <2>1, <2>2, <2>3 DEF IsFront
    <3> QED BY <1>1, <3>1 DEF Has
  <2>4. CASE ~(i <= k)
    <3>1. x = page[i]
      BY <2>1, <2>2, <2>4 DEF IsFront
    <3>2. i \in 1 .. Len(page)
      BY <1>1, <2>2, <2>4 DEF IsFront
    <3> QED BY <1>1, <3>1, <3>2 DEF Has
  <2> QED BY <2>3, <2>4
<1>6. \A x : Has(page, x) => Has(front, x) \/ (Len(front) = Cap /\ Len(page) = Cap)
  BY <1>4
<1>7. \A x : Has(front, x) => x = key \/ Has(page, x)
  BY <1>5
<1> QED BY <1>2, <1>3, <1>6, <1>7

\* Another key taken by both.
LEMMA FrontTakes ==
    ASSUME NEW page \in AllPages, NEW key \in Keys, NEW front \in AllPages, NEW x \in Keys,
           InFront(front, page, key)
    PROVE  InFront(TakeKey(front, x), TakeKey(page, x), key)
<1>1. PICK k : IsFirst(k, page, key) /\ IsFront(front, page, key, k)
  BY DEF InFront
<1>2. PICK q \in AllPages : q = TakeKey(page, x)
  BY TakeKeyFact
<1>3. PICK p \in AllPages : p = TakeKey(front, x)
  BY TakeKeyFact
<1>4. /\ page \in Seq(Keys) /\ Len(page) \in Nat /\ Len(page) <= Cap
      /\ front \in Seq(Keys) /\ Len(front) \in Nat /\ Len(front) <= Cap /\ Cap \in Nat
      /\ DOMAIN page = 1 .. Len(page) /\ DOMAIN front = 1 .. Len(front)
      /\ k \in 1 .. Len(page) + 1
  BY <1>1, PageIs DEF IsFirst
<1>5. /\ Has(front, key) /\ Len(front) >= Len(page) /\ Len(front) >= 1
      /\ Has(page, x) => Has(front, x) \/ (Len(front) = Cap /\ Len(page) = Cap)
      /\ Has(front, x) => x = key \/ Has(page, x)
  BY <1>1, FrontHas
<1>6. CASE Has(page, x) \/ Len(page) = Cap
  <2>1. q = page
    BY <1>2, <1>6, TakeKeyFact
  <2>2. Has(front, x) \/ Len(front) = Cap
    <3>1. CASE Len(page) = Cap
      <4>1. Len(front) >= Len(page)
        BY <1>5
      <4>2. Len(front) \in Nat /\ Cap \in Nat /\ Len(front) <= Cap
        BY <1>4
      <4> QED BY <3>1, <4>1, <4>2
    <3>2. CASE Has(page, x)
      BY <1>5, <3>2
    <3> QED BY <1>6, <3>1, <3>2
  <2>3. p = front
    BY <1>3, <2>2, TakeKeyFact
  <2> QED BY <1>2, <1>3, <2>1, <2>3
<1>7. CASE ~Has(page, x) /\ Len(page) # Cap
  <2>1. q = Append(page, x)
    BY <1>2, <1>7, TakeKeyFact
  <2>2. /\ Len(q) = Len(page) + 1 /\ q[Len(page) + 1] = x
        /\ \A i \in 1 .. Len(page) : q[i] = page[i]
    BY <1>4, <2>1
  <2>3. Len(page) < Cap
    <3>1. Len(page) # Cap
      BY <1>7
    <3>2. Len(page) \in Nat /\ Cap \in Nat /\ Len(page) <= Cap
      BY <1>4
    <3> QED BY <3>1, <3>2
  <2>4. CASE x = key
    <3>1. p = front
      BY <1>3, <1>5, <2>4, TakeKeyFact
    <3>2. \A j \in 1 .. Len(page) : page[j] # key
      BY <1>4, <1>7, <2>4 DEF Has
    <3>3. k = Len(page) + 1
      BY <1>1, <1>4, <3>2 DEF IsFirst
    <3>4. IsFirst(k, q, key)
      BY <1>4, <2>2, <2>4, <3>2, <3>3 DEF IsFirst
    <3>5. Len(front) = Len(page) + 1
      BY <1>1, <1>4, <2>3, <3>3 DEF IsFront
    <3>6. ASSUME NEW i \in 2 .. Len(front) PROVE front[i] = IF i <= k THEN q[i - 1] ELSE q[i]
      <4>1. i <= k /\ i - 1 \in 1 .. Len(page)
        BY <1>4, <3>3, <3>5
      <4>2. front[i] = page[i - 1]
        BY <1>1, <4>1 DEF IsFront
      <4> QED BY <2>2, <4>1, <4>2
    <3>7. k <= Len(q) /\ Len(front) = Len(q) /\ front[1] = key
        <4>1. front[1] = key
          BY <1>1 DEF IsFront
        <4> QED BY <1>4, <2>2, <3>3, <3>5, <4>1
    <3>8. IsFront(front, q, key, k)
      BY <3>6, <3>7 DEF IsFront
    <3> QED BY <1>2, <1>3, <3>1, <3>4, <3>8 DEF InFront
  <2>5. CASE x # key
    <3>1. ~Has(front, x)
      BY <1>5, <1>7, <2>5
    <3>2. CASE k <= Len(page)
      <4>1. IsFirst(k, q, key)
        BY <1>1, <1>4, <2>2, <3>2 DEF IsFirst
      <4>2. Len(front) = Len(page)
        BY <1>1, <3>2 DEF IsFront
      <4>3. p = Append(front, x)
        BY <1>3, <1>7, <3>1, <4>2, TakeKeyFact
      <4>4. /\ Len(p) = Len(page) + 1 /\ p[Len(page) + 1] = x
            /\ \A i \in 1 .. Len(page) : p[i] = front[i]
        BY <1>4, <4>2, <4>3
      <4>5. ASSUME NEW i \in 2 .. Len(p) PROVE p[i] = IF i <= k THEN q[i - 1] ELSE q[i]
        <5>1. CASE i = Len(page) + 1
          BY <1>4, <2>2, <3>2, <4>4, <5>1
        <5>2. CASE i # Len(page) + 1
          <6>1. i \in 2 .. Len(front) /\ i \in 1 .. Len(page) /\ i - 1 \in 1 .. Len(page)
            BY <1>4, <4>2, <4>4, <5>2
          <6>2. front[i] = IF i <= k THEN page[i - 1] ELSE page[i]
            BY <1>1, <6>1 DEF IsFront
          <6>3. p[i] = front[i] /\ q[i] = page[i] /\ q[i - 1] = page[i - 1]
            BY <2>2, <4>4, <6>1
          <6> QED BY <6>2, <6>3
        <5> QED BY <5>1, <5>2
      <4>6. k <= Len(q) /\ Len(p) = Len(q) /\ p[1] = key
        <5>1. p[1] = front[1]
          BY <1>4, <3>2, <4>4
        <5> QED BY <1>1, <1>4, <2>2, <3>2, <4>4, <5>1 DEF IsFront
      <4>7. IsFront(p, q, key, k)
        BY <4>5, <4>6 DEF IsFront
      <4> QED BY <1>2, <1>3, <4>1, <4>7 DEF InFront
    <3>3. CASE ~(k <= Len(page))
      <4>1. k = Len(page) + 1 /\ Len(front) = Len(page) + 1
        BY <1>1, <1>4, <2>3, <3>3 DEF IsFront
      <4>2. IsFirst(k + 1, q, key)
        BY <1>1, <1>4, <2>2, <2>5, <4>1 DEF IsFirst
      <4>3. \A i \in 2 .. Len(front) : front[i] = q[i - 1]
        <5>1. ASSUME NEW i \in 2 .. Len(front) PROVE front[i] = q[i - 1]
          <6>1. i <= k /\ i - 1 \in 1 .. Len(page)
            BY <1>4, <4>1
          <6> QED BY <1>1, <2>2, <6>1 DEF IsFront
        <5> QED BY <5>1
      <4>4. ~(k + 1 <= Len(q)) /\ Len(q) = Len(page) + 1
        BY <1>4, <2>2, <4>1
      <4>5. CASE Len(front) = Cap
        <5>1. p = front
          BY <1>3, <4>5, TakeKeyFact
        <5>2. Len(p) = IF k + 1 <= Len(q) THEN Len(q)
                       ELSE IF Len(q) < Cap THEN Len(q) + 1 ELSE Cap
          BY <1>4, <4>1, <4>4, <4>5, <5>1
        <5>3. \A i \in 2 .. Len(p) : p[i] = IF i <= k + 1 THEN q[i - 1] ELSE q[i]
          BY <1>4, <4>1, <4>3, <5>1
        <5>4. p[1] = key
          BY <1>1, <5>1 DEF IsFront
        <5>5. IsFront(p, q, key, k + 1)
          BY <5>2, <5>3, <5>4 DEF IsFront
        <5> QED BY <1>2, <1>3, <4>2, <5>5 DEF InFront
      <4>6. CASE Len(front) # Cap
        <5>1. p = Append(front, x)
          BY <1>3, <3>1, <4>6, TakeKeyFact
        <5>2. /\ Len(p) = Len(page) + 2 /\ p[Len(page) + 2] = x
              /\ \A i \in 1 .. Len(page) + 1 : p[i] = front[i]
          BY <1>4, <4>1, <5>1
        <5>3. Len(p) = IF k + 1 <= Len(q) THEN Len(q)
                       ELSE IF Len(q) < Cap THEN Len(q) + 1 ELSE Cap
          BY <1>4, <4>1, <4>4, <4>6, <5>2
        <5>4. ASSUME NEW i \in 2 .. Len(p) PROVE p[i] = IF i <= k + 1 THEN q[i - 1] ELSE q[i]
          <6>1. i <= k + 1
            BY <1>4, <4>1, <5>2
          <6>2. CASE i = Len(page) + 2
            <7>1. i - 1 = Len(page) + 1
              BY <1>4, <6>2
            <7> QED BY <2>2, <5>2, <6>1, <6>2, <7>1
          <6>3. CASE i # Len(page) + 2
            <7>1. i \in 2 .. Len(front) /\ i \in 1 .. Len(page) + 1
              BY <1>4, <4>1, <5>2, <6>3
            <7> QED BY <4>3, <5>2, <6>1, <7>1
          <6> QED BY <6>2, <6>3
        <5>5. p[1] = key
          <6>1. 1 \in 1 .. Len(page) + 1
            BY <1>4
          <6> QED BY <1>1, <5>2, <6>1 DEF IsFront
        <5>6. IsFront(p, q, key, k + 1)
          BY <5>3, <5>4, <5>5 DEF IsFront
        <5> QED BY <1>2, <1>3, <4>2, <5>6 DEF InFront
      <4> QED BY <4>5, <4>6
    <3> QED BY <3>2, <3>3
  <2> QED BY <2>4, <2>5
<1> QED BY <1>6, <1>7

\* So it is with all that both take.
LEMMA FrontMerges ==
    ASSUME NEW page \in AllPages, NEW key \in Keys, NEW front \in AllPages,
           NEW more \in Seq(Keys), InFront(front, page, key)
    PROVE  InFront(Merge(front, more), Merge(page, more), key)
<1>1. PICK f, n : MergeRun(f, n, front, more)
  BY MergeRuns
<1>2. PICK g : MergeRun(g, n, page, more)
  <2>1. PICK g, m : MergeRun(g, m, page, more)
    BY MergeRuns
  <2>2. m = n
    BY <1>1, <2>1 DEF MergeRun
  <2> QED BY <2>1, <2>2
<1> DEFINE A == {i \in 0 .. n : InFront(f[i], g[i], key)}
<1>3. n \in Nat /\ 0 \in A
  BY <1>1, <1>2 DEF MergeRun
<1>4. ASSUME NEW i \in 1 .. n, i - 1 \in A PROVE i \in A
  <2>1. PICK x \in Keys : x = more[i]
    BY <1>1 DEF MergeRun
  <2>2. i - 1 \in 0 .. n
    BY <1>3
  <2>3. PICK p \in AllPages : p = f[i - 1]
    BY <1>1, <2>2 DEF MergeRun
  <2>4. PICK q \in AllPages : q = g[i - 1]
    BY <1>2, <2>2 DEF MergeRun
  <2>5. InFront(p, q, key)
    BY <1>4, <2>3, <2>4
  <2>6. InFront(TakeKey(p, x), TakeKey(q, x), key)
    BY <2>5, FrontTakes
  <2>7. f[i] = TakeKey(p, x) /\ g[i] = TakeKey(q, x)
    BY <1>1, <1>2, <2>1, <2>3, <2>4 DEF MergeRun
  <2> QED BY <2>6, <2>7
<1> HIDE DEF A
<1>5. n \in A
  BY <1>3, <1>4, StepsEnd
<1>6. InFront(f[n], g[n], key)
  BY <1>5 DEF A
<1> QED BY <1>1, <1>2, <1>6 DEF MergeRun

\* The first key.
LEMMA FrontBegins ==
    ASSUME NEW key \in Keys
    PROVE  InFront(TakeKey(<<>>, key), <<>>, key)
<1>1. PICK none : none = <<>>
  OBVIOUS
<1>2. none \in AllPages /\ Len(none) = 0 /\ none \in Seq(Keys) /\ DOMAIN none = {}
  BY <1>1, NoKeys
<1>3. Cap \in Nat /\ Cap # 0
  BY ConstantsAssumption
<1>4. ~Has(none, key)
  BY <1>2 DEF Has
<1>5. TakeKey(none, key) = Append(none, key)
  BY <1>2, <1>3, <1>4, TakeKeyFact
<1>6. PICK one : one = Append(none, key)
  OBVIOUS
<1>7. Len(one) = 1 /\ one[1] = key
  BY <1>2, <1>6
<1>8. IsFirst(1, none, key)
  BY <1>2 DEF IsFirst
<1>9. IsFront(one, none, key, 1)
  BY <1>2, <1>3, <1>7 DEF IsFront
<1>10. InFront(one, none, key)
  BY <1>8, <1>9 DEF InFront
<1> QED BY <1>1, <1>5, <1>6, <1>10

\* RecentFeed removes as SequencesExt does.
LEMMA SameRemove ==
    ASSUME NEW page, NEW key
    PROVE  RF!RemoveFirst(page, key) = RemoveFirst(page, key)
BY DEF RF!RemoveFirst, RemoveFirst, RF!SelectInSeq, SelectInSeq, RF!RemoveAt, RemoveAt,
       RF!Min, Min

\* What Publish of RecentFeed does.
LEMMA FrontPublished ==
    ASSUME NEW page \in AllPages, NEW key \in Keys, NEW new,
           new = RF!Capped(<<key>> \o RemoveFirst(page, key))
    PROVE  new \in Seq(Keys) /\ InFront(new, page, key)
<1>1. /\ page \in Seq(Keys) /\ Len(page) \in Nat /\ Len(page) <= Cap
      /\ Cap \in Nat /\ Cap # 0
  BY PageIs, ConstantsAssumption
<1>2. PICK rest : rest = RemoveFirst(page, key)
  OBVIOUS
<1>3. PICK k : /\ IsFirst(k, page, key) /\ rest \in Seq(Keys)
               /\ Len(rest) = IF k <= Len(page) THEN Len(page) - 1 ELSE Len(page)
               /\ \A i \in 1 .. Len(rest) : rest[i] = IF i < k THEN page[i] ELSE page[i + 1]
  <2> DEFINE I == {i \in 1 .. Len(page) : page[i] = key}
  <2>1. CASE I = {}
    <3>1. \A i \in 1 .. Len(page) : page[i] # key
      BY <2>1
    <3>2. rest = page
      BY <1>2, <3>1 DEF RemoveFirst
    <3>3. IsFirst(Len(page) + 1, page, key)
      BY <1>1, <3>1 DEF IsFirst
    <3> QED BY <1>1, <3>2, <3>3
  <2>2. CASE I # {}
    <3>1. PICK k : k = Min(I)
      OBVIOUS
    <3>2. I \in SUBSET Nat
      BY <1>1
    <3>3. k \in I /\ \A i \in I : k <= i
      BY <2>2, <3>1, <3>2, MinFact
    <3>4. k \in 1 .. Len(page) /\ page[k] = key
      BY <3>3
    <3>5. rest = RemoveAt(page, k)
      BY <1>2, <2>2, <3>1, <3>4 DEF RemoveFirst, SelectInSeq
    <3>6. /\ rest \in Seq(Keys) /\ Len(rest) = Len(page) - 1
          /\ \A j \in 1 .. Len(page) - 1 : rest[j] = IF j < k THEN page[j] ELSE page[j + 1]
      BY <1>1, <3>4, <3>5, RemoveAtFact
    <3>7. IsFirst(k, page, key)
      BY <1>1, <3>3, <3>4 DEF IsFirst
    <3> QED BY <1>1, <3>4, <3>6, <3>7
  <2> QED BY <2>1, <2>2
<1>4. PICK one : one = <<key>>
  OBVIOUS
<1>5. one \in Seq(Keys) /\ Len(one) = 1 /\ one[1] = key
  BY <1>4
<1>6. PICK all : all = one \o rest
  OBVIOUS
<1>7. /\ all \in Seq(Keys) /\ Len(all) = 1 + Len(rest)
      /\ \A i \in 1 .. 1 + Len(rest) : all[i] = IF i <= 1 THEN one[i] ELSE rest[i - 1]
  <2>1. /\ one \o rest \in Seq(Keys) /\ Len(one \o rest) = Len(one) + Len(rest)
        /\ \A i \in 1 .. Len(one) + Len(rest) :
               (one \o rest)[i] = IF i <= Len(one) THEN one[i] ELSE rest[i - Len(one)]
    <3>1. one \in Seq(Keys) /\ rest \in Seq(Keys)
      BY <1>3, <1>5
    <3> QED BY <3>1, ConcatProperties, Zenon
  <2> QED BY <1>5, <1>6, <2>1
<1>8. PICK m : m = IF Len(all) < Cap THEN Len(all) ELSE Cap
  OBVIOUS
<1>9. m \in Nat /\ m <= Len(all) /\ m >= 1
  BY <1>1, <1>3, <1>7, <1>8
<1>10. new = SubSeq(all, 1, m)
  BY <1>2, <1>4, <1>6, <1>8 DEF RF!Capped
<1>11. new \in Seq(Keys) /\ Len(new) = m /\ \A i \in 1 .. m : new[i] = all[i]
  <2>1. all \in Seq(Keys) /\ 1 \in Nat /\ m \in 0 .. Len(all)
    BY <1>7, <1>9
  <2>2. SubSeq(all, 1, m) \in Seq(Keys) /\ Len(SubSeq(all, 1, m)) = m
    BY <2>1
  <2>3. \A i \in 1 .. m : SubSeq(all, 1, m)[i] = all[i]
    BY <2>1
  <2> QED BY <1>10, <2>2, <2>3
<1>12. k \in 1 .. Len(page) + 1
  BY <1>3 DEF IsFirst
<1>13. new[1] = key
  BY <1>3, <1>5, <1>7, <1>9, <1>11
<1>14. Len(new) = IF k <= Len(page) THEN Len(page)
                  ELSE IF Len(page) < Cap THEN Len(page) + 1 ELSE Cap
  BY <1>1, <1>3, <1>7, <1>8, <1>11, <1>12
<1>15. ASSUME NEW i \in 2 .. Len(new) PROVE new[i] = IF i <= k THEN page[i - 1] ELSE page[i]
  <2>1. i \in 1 .. m /\ i \in 1 .. 1 + Len(rest) /\ ~(i <= 1) /\ i - 1 \in 1 .. Len(rest)
    BY <1>3, <1>7, <1>9, <1>11
  <2>2. new[i] = rest[i - 1]
    BY <1>7, <1>11, <2>1
  <2>3. rest[i - 1] = IF i - 1 < k THEN page[i - 1] ELSE page[i - 1 + 1]
    BY <1>3, <2>1
  <2>4. (i - 1 < k <=> i <= k) /\ i - 1 + 1 = i
    BY <1>12
  <2> QED BY <2>2, <2>3, <2>4
<1>16. IsFront(new, page, key, k)
  BY <1>13, <1>14, <1>15 DEF IsFront
<1> QED BY <1>3, <1>11, <1>16 DEF InFront

-----------------------------------------------------------------------------
(* The refinement.  The inductive invariant needs one more part: what the  *)
(* first loop of rebuild has put on the page.                              *)

NewOK ==
    pc = "new" => /\ cursor <= Len(iq)
                  /\ bufq = Merge(<<>>, SubSeq(Reverse(iq), 1, cursor))

PInv == IInv /\ NewOK

\* FrontPage and Published of any values of the variables
FrontOf(at, page, former) == IF at \in {"new", "old"} THEN former ELSE page
PublishedOf(at, page, former, queue) ==
    IF at = "old" THEN Merge(page, former)
    ELSE Merge(Merge(<<>>, Reverse(queue)), FrontOf(at, page, former))

LEMMA Seen ==
    /\ FrontPage = FrontOf(pc, bufq, old)
    /\ FrontPage' = FrontOf(pc', bufq', old')
    /\ Published = PublishedOf(pc, bufq, old, iq)
    /\ Published' = PublishedOf(pc', bufq', old', iq')
BY DEF FrontPage, Published, FrontOf, PublishedOf

LEMMA ReverseFact ==
    ASSUME NEW s \in Seq(Keys), NEW r, r = Reverse(s)
    PROVE  /\ r \in Seq(Keys) /\ Len(r) = Len(s)
           /\ \A i \in 1 .. Len(s) : r[i] = s[Len(s) - i + 1]
BY DEF Reverse

LEMMA NothingQueued ==
    ASSUME NEW s, s = <<>>
    PROVE  Merge(<<>>, Reverse(s)) = <<>>
<1>1. s \in Seq(Keys) /\ Len(s) = 0
  OBVIOUS
<1>2. Reverse(s) \in Seq(Keys) /\ Len(Reverse(s)) = 0
  BY <1>1, ReverseFact
<1>3. Reverse(s) = <<>>
  BY <1>2
<1> QED BY <1>3, NoKeys, MergeEmpty

LEMMA PInvFacts ==
    ASSUME PInv
    PROVE  /\ bufq \in AllPages /\ old \in AllPages /\ saved \in AllPages
           /\ iq \in Seq(Keys) /\ cursor \in Nat /\ Len(bufq) <= Cap
           /\ pc \in {"new", "old"} <=> mutex = Serve
           /\ pc = "old" => /\ iq = <<>> /\ cursor <= Len(old)
                            /\ \A i \in 1 .. cursor : Has(bufq, old[i])
           /\ NewOK
BY DEF PInv, IInv, TypeOK, LockOK, CursorOK, AllPages, IsPage

\* What Fill does to the page is TakeKey.
LEMMA FillTakes ==
    ASSUME bufq \in AllPages, Len(bufq) < Cap, NEW key \in Keys, Fill(key)
    PROVE  bufq' = TakeKey(bufq, key) /\ cursor' = cursor + 1
<1>1. Len(bufq) # Cap
  <2>1. Len(bufq) \in Nat /\ Cap \in Nat
    BY PageIs
  <2> QED BY <2>1
<1> QED BY <1>1, TakeKeyFact DEF Fill

\* The page of the first loop, at every slot.
LEMMA NewKeeps == PInv /\ [Next]_vars => NewOK'
<1> SUFFICES ASSUME PInv, [Next]_vars, pc' = "new"
             PROVE  /\ cursor' <= Len(iq')
                    /\ bufq' = Merge(<<>>, SubSeq(Reverse(iq'), 1, cursor'))
  BY DEF NewOK
<1>0. /\ bufq \in AllPages /\ iq \in Seq(Keys) /\ cursor \in Nat
      /\ pc \in {"new", "old"} <=> mutex = Serve
      /\ NewOK /\ Serve # None
  BY PInvFacts, ConstantsAssumption
<1>1. CASE RebuildStart
  <2>1. cursor' = 0 /\ iq' = iq /\ bufq' = <<>>
    BY <1>1 DEF RebuildStart
  <2>2. PICK r : r = Reverse(iq) /\ r \in Seq(Keys)
    BY <1>0, ReverseFact
  <2>3. SubSeq(r, 1, 0) = <<>>
    BY <2>2
  <2>4. Merge(<<>>, <<>>) = <<>>
    BY NoKeys, MergeEmpty
  <2>5. Len(iq) \in Nat
    BY <1>0
  <2>6. Merge(<<>>, SubSeq(Reverse(iq'), 1, cursor')) = <<>>
    BY <2>1, <2>2, <2>3, <2>4
  <2>7. cursor' <= Len(iq')
    BY <2>1, <2>5
  <2> QED BY <2>1, <2>6, <2>7
<1>2. CASE FillNew
  <2>1. PICK r : r = Reverse(iq)
    OBVIOUS
  <2>2. r \in Seq(Keys) /\ Len(r) = Len(iq) /\ \A i \in 1 .. Len(iq) : r[i] = iq[Len(iq) - i + 1]
    BY <1>0, <2>1, ReverseFact
  <2>3. /\ pc = "new" /\ cursor < Len(iq) /\ Len(bufq) < Cap
        /\ Fill(iq[Len(iq) - cursor]) /\ iq' = iq
    BY <1>2 DEF FillNew
  <2>4. cursor + 1 \in 1 .. Len(iq) /\ Len(iq) - (cursor + 1) + 1 = Len(iq) - cursor
    BY <1>0, <2>3
  <2>5. r[cursor + 1] = iq[Len(iq) - cursor] /\ r[cursor + 1] \in Keys
    BY <2>2, <2>4
  <2>6. bufq' = TakeKey(bufq, r[cursor + 1]) /\ cursor' = cursor + 1
    BY <1>0, <2>3, <2>5, FillTakes
  <2>7. bufq = Merge(<<>>, SubSeq(r, 1, cursor))
    BY <1>0, <2>1, <2>3 DEF NewOK
  <2>8. cursor \in 0 .. Len(r) - 1
    BY <1>0, <2>2, <2>3
  <2>9. Merge(<<>>, SubSeq(r, 1, cursor + 1))
            = TakeKey(Merge(<<>>, SubSeq(r, 1, cursor)), r[cursor + 1])
    BY <2>2, <2>8, NoKeys, MergeNext
  <2>10. cursor' <= Len(iq)
    BY <2>4, <2>6
  <2> QED BY <2>1, <2>3, <2>6, <2>7, <2>9, <2>10
<1>3. CASE UNCHANGED <<pc, cursor, iq, bufq>>
  <2>1. pc = "new" /\ cursor' = cursor /\ iq' = iq /\ bufq' = bufq
    BY <1>3
  <2>2. cursor <= Len(iq) /\ bufq = Merge(<<>>, SubSeq(Reverse(iq), 1, cursor))
    BY <1>0, <2>1 DEF NewOK
  <2> QED BY <2>1, <2>2
<1>4. RebuildStart \/ FillNew \/ UNCHANGED <<pc, cursor, iq, bufq>>
  <2>1. CASE UNCHANGED vars
    BY <2>1 DEF vars, index, serve
  <2>2. ASSUME NEW p \in Pushers, PushSend(p) \/ \E key \in Keys : PushAdd(p, key)
        PROVE  UNCHANGED <<pc, cursor, iq, bufq>>
    <3>1. CASE PushSend(p)
      BY <3>1 DEF PushSend, index, serve
    <3>2. ASSUME NEW key \in Keys, PushAdd(p, key) PROVE FALSE
      BY <1>0, <3>2 DEF PushAdd, serve
    <3> QED BY <2>2, <3>1, <3>2
  <2>3. CASE TakeItem \/ Timeout \/ TakeDone
    BY <2>3 DEF TakeItem, Timeout, TakeDone, index, serve
  <2>4. CASE Rebuild
    BY <2>4 DEF Rebuild, Drain, FillOld, RebuildEnd
  <2>5. CASE Dump \/ StopServer \/ ShutdownDump \/ ShutdownDone
    BY <2>5 DEF Dump, StopServer, ShutdownDump, ShutdownDone, index, serve
  <2>6. ASSUME NEW r \in Readers, \/ \E start \in 0 .. 1 : StartRead(r, start)
                                  \/ ReadSlot(r) \/ ReadEmptySlot(r) \/ ReadReturn(r)
        PROVE  UNCHANGED <<pc, cursor, iq, bufq>>
    BY <2>6 DEF StartRead, ReadSlot, ReadEmptySlot, ReadReturn, index, serve
  <2>7. CASE Crash \/ Exit
    BY <2>7 DEF Crash, Exit, Restart
  <2> QED BY <2>1, <2>2, <2>3, <2>4, <2>5, <2>6, <2>7 DEF Next
<1> QED BY <1>1, <1>2, <1>3, <1>4

LEMMA PInductive == Spec => []PInv
<1>1. Init => PInv
  BY InitOK DEF Init, PInv, NewOK
<1>2. PInv /\ [Next]_vars => PInv'
  BY StepKeeps, NewKeeps DEF PInv
<1> QED BY <1>1, <1>2, PTL DEF Spec

\* A step that shows nothing of itself.
LEMMA QuietStep ==
    ASSUME pc # "old", pc' # "old", iq' = iq, saved' = saved,
           FrontOf(pc', bufq', old') = FrontOf(pc, bufq, old)
    PROVE  UNCHANGED RF!vars
BY Seen DEF PublishedOf, RF!vars

LEMMA StillStep ==
    ASSUME UNCHANGED <<pc, bufq, old, iq, saved>>
    PROVE  UNCHANGED RF!vars
BY Seen DEF RF!vars

\* A push publishes its key.
LEMMA PushPublishes ==
    ASSUME PInv, NEW p \in Pushers, NEW key \in Keys, PushAdd(p, key)
    PROVE  RF!Publish(key)
<1>1. /\ bufq \in AllPages /\ iq \in Seq(Keys)
      /\ pc \in {"new", "old"} <=> mutex = Serve
      /\ Serve # None
  BY PInvFacts, ConstantsAssumption
<1>2. /\ iq' = Append(iq, key) /\ mutex = None
      /\ bufq' = bufq /\ pc' = pc /\ old' = old /\ saved' = saved
  BY DEF PushAdd, serve
<1>3. FrontPage = bufq /\ FrontPage' = bufq
  BY <1>1, <1>2, Seen DEF FrontOf
<1>4. PICK r : r = Reverse(iq)
  OBVIOUS
<1>5. PICK queue : queue = Append(iq, key)
  OBVIOUS
<1>6. PICK s : s = Reverse(queue)
  OBVIOUS
<1>7. r \in Seq(Keys) /\ Len(r) = Len(iq) /\ \A i \in 1 .. Len(iq) : r[i] = iq[Len(iq) - i + 1]
  BY <1>1, <1>4, ReverseFact
<1>8. /\ queue \in Seq(Keys) /\ Len(queue) = Len(iq) + 1 /\ queue[Len(iq) + 1] = key
      /\ \A i \in 1 .. Len(iq) : queue[i] = iq[i]
  BY <1>1, <1>5
<1>9. /\ s \in Seq(Keys) /\ Len(s) = Len(queue)
      /\ \A i \in 1 .. Len(queue) : s[i] = queue[Len(queue) - i + 1]
  BY <1>6, <1>8, ReverseFact
<1>10. /\ Len(s) = Len(r) + 1 /\ s[1] = key
       /\ \A i \in 1 .. Len(r) : s[i + 1] = r[i]
  <2>1. PICK n \in Nat : n = Len(iq)
    BY <1>1
  <2>2. s[1] = key
    BY <1>8, <1>9, <2>1
  <2>3. ASSUME NEW i \in 1 .. n PROVE s[i + 1] = r[i]
    <3>1. i + 1 \in 1 .. n + 1 /\ n + 1 - (i + 1) + 1 = n - i + 1 /\ n - i + 1 \in 1 .. n
      OBVIOUS
    <3>2. s[i + 1] = queue[n - i + 1]
      BY <1>8, <1>9, <2>1, <3>1
    <3>3. queue[n - i + 1] = iq[n - i + 1]
      BY <1>8, <2>1, <3>1
    <3>4. r[i] = iq[n - i + 1]
      BY <1>7, <2>1
    <3> QED BY <3>2, <3>3, <3>4
  <2> QED BY <1>7, <1>8, <1>9, <2>1, <2>2, <2>3
<1>11. PICK one \in AllPages : one = TakeKey(<<>>, key)
  BY NoKeys, TakeKeyFact
<1>12. PICK before \in AllPages : before = Merge(<<>>, r)
  BY <1>7, NoKeys, MergePage
<1>13. PICK after \in AllPages : after = Merge(one, r)
  BY <1>7, MergePage
<1>14. after = Merge(<<>>, s)
  BY <1>7, <1>9, <1>10, <1>11, <1>13, NoKeys, MergeCons
<1>15. InFront(after, before, key)
  BY <1>7, <1>11, <1>12, <1>13, NoKeys, FrontBegins, FrontMerges
<1>16. bufq \in Seq(Keys)
  BY <1>1, PageIs
<1>17. PICK feed \in AllPages : feed = Merge(before, bufq)
  BY <1>16, MergePage
<1>18. PICK next \in AllPages : next = Merge(after, bufq)
  BY <1>16, MergePage
<1>19. InFront(next, feed, key)
  BY <1>15, <1>16, <1>17, <1>18, FrontMerges
<1>20. PICK new : new = RF!Capped(<<key>> \o RemoveFirst(feed, key))
  OBVIOUS
<1>21. new \in Seq(Keys) /\ InFront(new, feed, key)
  BY <1>20, FrontPublished
<1>22. next = new
  BY <1>19, <1>21, OneFront, PageIs
<1>23. Published = feed
  BY <1>1, <1>2, <1>4, <1>12, <1>17, Seen DEF PublishedOf, FrontOf
<1>24. Published' = next
  BY <1>1, <1>2, <1>5, <1>6, <1>14, <1>18, Seen DEF PublishedOf, FrontOf
<1>25. Published' = RF!Capped(<<key>> \o RemoveFirst(Published, key))
  BY <1>20, <1>22, <1>23, <1>24
<1>26. Published' = RF!Capped(<<key>> \o RF!RemoveFirst(Published, key))
  BY <1>25, SameRemove
<1>27. UNCHANGED <<FrontPage, saved>>
  BY <1>2, <1>3
<1> QED BY <1>26, <1>27 DEF RF!Publish

\* The steps of a rebuild, of which readers are owed the last.
LEMMA RebuildRefreshes ==
    ASSUME PInv, Rebuild
    PROVE  RF!Refresh \/ UNCHANGED RF!vars
<1>0. /\ bufq \in AllPages /\ old \in AllPages /\ iq \in Seq(Keys) /\ cursor \in Nat
      /\ pc \in {"new", "old"} <=> mutex = Serve
      /\ pc = "old" => /\ iq = <<>> /\ cursor <= Len(old)
                       /\ \A i \in 1 .. cursor : Has(bufq, old[i])
      /\ NewOK
  BY PInvFacts
<1>1. CASE RebuildStart
  <2>1. FrontOf(pc', bufq', old') = FrontOf(pc, bufq, old)
    BY <1>1 DEF RebuildStart, FrontOf
  <2> QED BY <1>1, <2>1, QuietStep DEF RebuildStart
<1>2. CASE FillNew
  <2>1. FrontOf(pc', bufq', old') = FrontOf(pc, bufq, old)
    BY <1>2 DEF FillNew, FrontOf
  <2> QED BY <1>2, <2>1, QuietStep DEF FillNew
<1>3. CASE Drain
  <2>1. /\ pc = "new" /\ pc' = "old" /\ bufq' = bufq /\ old' = old /\ saved' = saved
        /\ cursor = Len(iq) \/ Len(bufq) = Cap
    BY <1>3 DEF Drain
  <2>2. PICK r : r = Reverse(iq)
    OBVIOUS
  <2>3. r \in Seq(Keys) /\ Len(r) = Len(iq)
    BY <1>0, <2>2, ReverseFact
  <2>4. bufq = Merge(<<>>, SubSeq(r, 1, cursor)) /\ cursor \in 0 .. Len(r)
    <3>1. cursor <= Len(iq) /\ Len(iq) \in Nat
      BY <1>0, <2>1 DEF NewOK
    <3>2. bufq = Merge(<<>>, SubSeq(r, 1, cursor))
      BY <1>0, <2>1, <2>2 DEF NewOK
    <3> QED BY <1>0, <2>3, <3>1, <3>2
  <2>5. bufq = Merge(<<>>, r)
    <3>1. CASE cursor = Len(iq)
      <4>1. SubSeq(r, 1, Len(r)) = r
        BY <2>3
      <4> QED BY <2>3, <2>4, <3>1, <4>1
    <3>2. CASE Len(bufq) = Cap
      BY <2>3, <2>4, <3>2, NoKeys, MergeFull
    <3> QED BY <2>1, <3>1, <3>2
  <2>6. FrontPage' = FrontPage
    BY <2>1, Seen DEF FrontOf
  <2>7. Published = Merge(bufq, old)
    BY <2>1, <2>2, <2>5, Seen DEF PublishedOf, FrontOf
  <2>8. Published' = Merge(bufq, old)
    BY <2>1, Seen DEF PublishedOf
  <2> QED BY <2>1, <2>6, <2>7, <2>8 DEF RF!vars
<1>4. CASE FillOld
  <2>1. /\ pc = "old" /\ pc' = pc /\ old' = old /\ saved' = saved
        /\ Len(bufq) < Cap /\ cursor < Len(old) /\ Fill(old[cursor + 1])
    BY <1>4 DEF FillOld
  <2>2. old \in Seq(Keys) /\ Len(old) \in Nat /\ Len(bufq) \in Nat /\ Cap \in Nat
    BY <1>0, PageIs
  <2>3. cursor \in 0 .. Len(old) - 1 /\ Len(bufq) # Cap /\ cursor + 1 \in 1 .. Len(old)
    BY <1>0, <2>1, <2>2
  <2>4. bufq' = TakeKey(bufq, old[cursor + 1])
    BY <1>0, <2>1, <2>2, <2>3, FillTakes
  <2>5. Merge(TakeKey(bufq, old[cursor + 1]), old) = Merge(bufq, old)
    BY <1>0, <2>1, <2>2, <2>3, MergeTaken
  <2>6. FrontPage' = FrontPage
    BY <2>1, Seen DEF FrontOf
  <2>7. Published' = Published
    BY <2>1, <2>4, <2>5, Seen DEF PublishedOf
  <2> QED BY <2>1, <2>6, <2>7 DEF RF!vars
<1>5. CASE RebuildEnd
  <2>1. /\ pc = "old" /\ pc' = "select" /\ bufq' = bufq /\ iq' = iq /\ saved' = saved
        /\ Len(bufq) = Cap \/ cursor = Len(old)
    BY <1>5 DEF RebuildEnd
  <2>2. iq = <<>> /\ \A i \in 1 .. cursor : Has(bufq, old[i])
    BY <1>0, <2>1
  <2>3. Merge(bufq, old) = bufq
    BY <1>0, <2>1, <2>2, PageIs, MergeNothing
  <2>4. Published = bufq
    BY <2>1, <2>3, Seen DEF PublishedOf
  <2>5. FrontPage' = bufq
    BY <2>1, Seen DEF FrontOf
  <2>6. Published' = bufq
    <3>1. Merge(<<>>, Reverse(iq)) = <<>>
      BY <2>2, NothingQueued
    <3>2. Merge(<<>>, bufq) = bufq
      BY <1>0, MergeEmpty
    <3> QED BY <2>1, <3>1, <3>2, Seen DEF PublishedOf, FrontOf
  <2> QED BY <2>1, <2>4, <2>5, <2>6 DEF RF!Refresh
<1> QED BY <1>1, <1>2, <1>3, <1>4, <1>5 DEF Rebuild

LEMMA DumpSaves ==
    ASSUME PInv, Dump \/ ShutdownDump
    PROVE  RF!Save
<1>1. pc \in {"new", "old"} <=> mutex = Serve
  BY PInvFacts
<1>2. /\ mutex = None /\ saved' = bufq
      /\ bufq' = bufq /\ iq' = iq /\ pc' = pc /\ old' = old
  BY DEF Dump, ShutdownDump, index, serve
<1>3. FrontPage = bufq
  BY <1>1, <1>2, ConstantsAssumption, Seen DEF FrontOf
<1>4. FrontPage' = FrontPage /\ Published' = Published
  BY <1>2, Seen
<1> QED BY <1>2, <1>3, <1>4 DEF RF!Save

LEMMA RestartRestarts ==
    ASSUME PInv, Crash \/ Exit
    PROVE  RF!Restart
<1>1. /\ bufq' = saved /\ iq' = <<>> /\ pc' = "select" /\ saved' = saved
  BY DEF Crash, Exit, Restart
<1>2. FrontPage' = saved
  BY <1>1, Seen DEF FrontOf
<1>3. Published' = saved
  <2>1. Merge(<<>>, Reverse(iq')) = <<>>
    BY <1>1, NothingQueued
  <2>2. Merge(<<>>, saved) = saved
    BY PInvFacts, MergeEmpty
  <2> QED BY <1>1, <2>1, <2>2, Seen DEF PublishedOf, FrontOf
<1> QED BY <1>1, <1>2, <1>3 DEF RF!Restart

LEMMA StepRefines == PInv /\ [Next]_vars => [RF!Next]_(RF!vars)
<1> SUFFICES ASSUME PInv, [Next]_vars PROVE RF!Next \/ UNCHANGED RF!vars
  OBVIOUS
<1>1. CASE UNCHANGED vars
  BY <1>1, StillStep DEF vars, index, serve
<1>2. ASSUME NEW p \in Pushers, PushSend(p) PROVE UNCHANGED RF!vars
  BY <1>2, StillStep DEF PushSend, index, serve
<1>3. ASSUME NEW p \in Pushers, NEW key \in Keys, PushAdd(p, key) PROVE RF!Next
  BY <1>3, PushPublishes DEF RF!Next
<1>4. CASE TakeItem
  BY <1>4, StillStep DEF TakeItem, index, serve
<1>5. CASE Timeout \/ TakeDone
  <2>1. /\ pc \notin {"new", "old"} /\ pc' \notin {"new", "old"}
        /\ iq' = iq /\ saved' = saved /\ bufq' = bufq /\ old' = old
    BY <1>5 DEF Timeout, TakeDone, index
  <2>2. FrontOf(pc', bufq', old') = FrontOf(pc, bufq, old)
    BY <2>1 DEF FrontOf
  <2> QED BY <2>1, <2>2, QuietStep
<1>6. CASE Rebuild
  BY <1>6, RebuildRefreshes DEF RF!Next
<1>7. CASE Dump \/ ShutdownDump
  BY <1>7, DumpSaves DEF RF!Next
<1>8. ASSUME NEW r \in Readers, \/ \E start \in 0 .. 1 : StartRead(r, start)
                                \/ ReadSlot(r) \/ ReadEmptySlot(r) \/ ReadReturn(r)
      PROVE  UNCHANGED RF!vars
  BY <1>8, StillStep DEF StartRead, ReadSlot, ReadEmptySlot, ReadReturn, index, serve
<1>9. CASE StopServer \/ ShutdownDone
  BY <1>9, StillStep DEF StopServer, ShutdownDone, index, serve
<1>10. CASE Crash \/ Exit
  BY <1>10, RestartRestarts DEF RF!Next
<1> QED BY <1>1, <1>2, <1>3, <1>4, <1>5, <1>6, <1>7, <1>8, <1>9, <1>10 DEF Next

LEMMA InitRefines == Init => RF!Init
<1> SUFFICES ASSUME Init PROVE RF!Init
  OBVIOUS
<1>1. bufq = <<>> /\ iq = <<>> /\ saved = <<>> /\ pc = "select"
  BY DEF Init
<1>2. Merge(<<>>, Reverse(iq)) = <<>> /\ Merge(<<>>, <<>>) = <<>>
  BY <1>1, NothingQueued, NoKeys, MergeEmpty
<1> QED BY <1>1, <1>2, Seen DEF RF!Init, FrontOf, PublishedOf

\* The index keeps the promise of RecentFeed (server/index.go:33-190): in
\* whatever way pushes, rebuild, dumps, readers, Shutdown and crashes come
\* together, the feed is the most recent keys pushed, newest first and each
\* once, readers are shown the feed of the last rebuild, and a restart begins
\* with a feed that was shown.
THEOREM PromiseTheorem == Spec => KeepsPromise
<1>1. Init => RF!Init
  BY InitRefines
<1>2. PInv /\ [Next]_vars => [RF!Next]_(RF!vars)
  BY StepRefines
<1> QED BY <1>1, <1>2, PInductive, PTL DEF Spec, KeepsPromise, RF!Spec
=============================================================================
