----------------------------- MODULE FlakeProofs -----------------------------
(***************************************************************************)
(* The ids of Flake fit their fields and are ordered, for any width of the *)
(* sequence, any callers, set backs of the clock and restarts.             *)
(***************************************************************************)
EXTENDS Flake, TLAPS

-----------------------------------------------------------------------------
\* The sequence counts the ids of the generator's millisecond.
GenOK ==
    /\ CurrentTime = 0 => burst = 0
    /\ CurrentTime # 0 /\ burst <= Wrap => burst > 0 /\ Sequence = burst - 1

\* Where the ids of this run of the process, and of this era of the clock, are.
OfThisRun(id) ==
    id.start = starts =>
        /\ CurrentTime # 0 /\ id.time <= CurrentTime
        /\ id.time = CurrentTime =>
               id.nth <= burst /\ (id.nth <= Wrap => id.sequence = id.nth - 1)
OfThisEra(id) ==
    id.era = backs => id.time <= clock /\ (id.start # starts => id.time < clock)
IdOK(id) ==
    id.start <= starts /\ id.era <= backs /\ OfThisRun(id) /\ OfThisEra(id)

IInv ==
    /\ TypeOK
    /\ GenOK
    /\ \A i \in DOMAIN ids : IdOK(ids[i])
    /\ LaterIsGreater

LEMMA Fields ==
    ASSUME NEW id \in Ids
    PROVE  /\ id.time \in Nat /\ id.sequence \in Nat /\ id.nth \in Nat
           /\ id.start \in Nat /\ id.era \in Nat
  BY ConstantsAssumption DEF Ids

LEMMA Counters ==
    ASSUME TypeOK
    PROVE  clock \in Nat /\ CurrentTime \in Nat /\ burst \in Nat /\ Wrap \in Nat
           /\ starts \in Nat /\ backs \in Nat
  BY ConstantsAssumption DEF TypeOK

LEMMA InitIInv == Init => IInv
  BY ConstantsAssumption
  DEF Init, IInv, TypeOK, GenOK, LaterIsGreater, Ids

\* An id of the clock's time, greater than all ids of its run in that time,
\* keeps the order.
LEMMA AppendKeepsOrder ==
    ASSUME IInv, NEW id \in Ids, ids' = Append(ids, id),
           id.start = starts, id.era = backs, id.time = clock,
           CurrentTime <= clock,
           clock = CurrentTime /\ id.nth <= Wrap =>
               id.nth = burst + 1 /\ id.sequence = burst
    PROVE  LaterIsGreater'
<1>1. /\ ids \in Seq(Ids) /\ DOMAIN ids' = 1 .. Len(ids) + 1
      /\ \A i \in 1 .. Len(ids) : ids'[i] = ids[i] /\ ids[i] \in Ids
      /\ ids'[Len(ids) + 1] = id
      /\ DOMAIN ids = 1 .. Len(ids) /\ Len(ids) \in Nat
  BY DEF IInv, TypeOK
<1>2. ASSUME NEW i \in 1 .. Len(ids), ids[i].start = starts \/ ids[i].era = backs
      PROVE  Before(ids[i], id) \/ id.nth > Wrap
  <2>1. IdOK(ids[i]) /\ ids[i] \in Ids
    BY <1>1 DEF IInv
  <2>4. clock \in Nat /\ CurrentTime \in Nat /\ burst \in Nat /\ Wrap \in Nat
    BY Counters DEF IInv
  <2>2. CASE ids[i].start = starts
    <3>1. CASE ids[i].time < clock
      BY <3>1 DEF Before
    <3>2. CASE ids[i].time = clock /\ id.nth <= Wrap
      <4>1. clock = CurrentTime
        BY <2>1, <2>2, <3>2 DEF IdOK, OfThisRun, IInv, TypeOK, Ids
      <4>2. /\ ids[i].nth <= burst
            /\ ids[i].nth <= Wrap => ids[i].sequence = ids[i].nth - 1
        BY <2>1, <2>2, <3>2, <4>1 DEF IdOK, OfThisRun
      <4>3. id.nth = burst + 1 /\ id.sequence = burst
        BY <3>2, <4>1
      <4>4. ids[i].sequence < id.sequence
        BY <2>1, <2>4, <3>2, <4>2, <4>3, Fields
      <4> QED  BY <3>2, <4>4 DEF Before
    <3>3. ids[i].time <= clock
      <4>1. ids[i].time <= CurrentTime
        BY <2>1, <2>2 DEF IdOK, OfThisRun
      <4> QED  BY <2>1, <2>4, <4>1, Fields
    <3> QED  BY <2>1, <2>4, <3>1, <3>2, <3>3, Fields
  <2>3. CASE ids[i].start # starts
    BY <1>2, <2>1, <2>3 DEF IdOK, OfThisEra, Before
  <2> QED  BY <2>2, <2>3
<1>3. SUFFICES ASSUME NEW j \in 1 .. Len(ids) + 1, NEW i \in 1 .. j - 1,
                      ids'[i].start = ids'[j].start \/ ids'[i].era = ids'[j].era
               PROVE  Before(ids'[i], ids'[j]) \/ ids'[j].nth > Wrap
  BY <1>1 DEF LaterIsGreater, Before
<1>4. CASE j = Len(ids) + 1
  BY <1>1, <1>2, <1>3, <1>4
<1>5. CASE j \in 1 .. Len(ids)
  BY <1>1, <1>3, <1>5 DEF IInv, LaterIsGreater
<1> QED  BY <1>1, <1>4, <1>5

LEMMA NewTimeKeeps ==
    ASSUME IInv, NEW c \in Callers, NewTime(c)
    PROVE  IInv'
<1> DEFINE id == Id(clock, 0, 1)
<1>1. /\ id \in Ids /\ id.start = starts /\ id.era = backs /\ id.time = clock
      /\ id.sequence = 0 /\ id.nth = 1
  BY ConstantsAssumption DEF Id, Ids, IInv, TypeOK
<1>2. /\ CurrentTime' = clock /\ Sequence' = 0 /\ burst' = 1 /\ ids' = Append(ids, id)
      /\ UNCHANGED <<clock, starts, backs>>
      /\ CurrentTime = 0 \/ clock > CurrentTime
      /\ pc' = [pc EXCEPT ![c] = "idle"]
  BY DEF NewTime, Goto
<1> HIDE DEF id
<1>3. TypeOK'
  BY <1>1, <1>2, ConstantsAssumption DEF IInv, TypeOK
<1>4. GenOK'
  BY <1>2 DEF GenOK, IInv, TypeOK
<1>5. LaterIsGreater'
  <2>1. CurrentTime <= clock /\ clock # CurrentTime
    BY <1>2 DEF IInv, TypeOK
  <2> QED  BY <1>1, <1>2, <2>1, AppendKeepsOrder
<1>6. \A i \in DOMAIN ids' : IdOK(ids[i])'
  <2> SUFFICES ASSUME NEW i \in DOMAIN ids' PROVE IdOK(ids[i])'
    OBVIOUS
  <2>1. CASE i \in DOMAIN ids
    <3>1. ids'[i] = ids[i] /\ ids[i] \in Ids /\ IdOK(ids[i])
      BY <1>2, <2>1 DEF IInv, TypeOK
    <3>2. IdOK(ids[i])'
      BY <1>2, <3>1, Fields, Counters DEF IdOK, OfThisRun, OfThisEra, IInv
    <3> QED  BY <3>2
  <2>2. CASE i \notin DOMAIN ids
    <3>1. ids'[i] = id
      BY <1>2, <2>2 DEF IInv, TypeOK
    <3> QED  BY <1>1, <1>2, <3>1 DEF IdOK, OfThisRun, OfThisEra, IInv, TypeOK
  <2> QED  BY <2>1, <2>2
<1> QED  BY <1>3, <1>4, <1>5, <1>6 DEF IInv

LEMMA SameTimeKeeps ==
    ASSUME IInv, NEW c \in Callers, SameTime(c)
    PROVE  IInv'
<1> DEFINE next == Increment(Sequence)
           id == Id(clock, next, burst + 1)
<1>1. /\ next \in 0 .. Wrap - 1
      /\ burst + 1 <= Wrap => next = burst
  BY ConstantsAssumption DEF Increment, SameTime, IInv, TypeOK, GenOK
<1> HIDE DEF next
<1>2. /\ id \in Ids /\ id.start = starts /\ id.era = backs /\ id.time = clock
      /\ id.sequence = next /\ id.nth = burst + 1
  BY <1>1 DEF Id, Ids, IInv, TypeOK
<1>3. /\ Sequence' = next /\ burst' = burst + 1 /\ ids' = Append(ids, id)
      /\ UNCHANGED <<clock, CurrentTime, starts, backs>>
      /\ CurrentTime # 0 /\ clock = CurrentTime
      /\ pc' = [pc EXCEPT ![c] = "idle"]
  BY DEF SameTime, Goto, next
<1> HIDE DEF id
<1>4. TypeOK'
  BY <1>1, <1>2, <1>3, ConstantsAssumption DEF IInv, TypeOK
<1>5. GenOK'
  BY <1>1, <1>3 DEF GenOK, IInv, TypeOK
<1>6. LaterIsGreater'
  <2>1. CurrentTime <= clock
    BY <1>3 DEF IInv, TypeOK
  <2> QED  BY <1>1, <1>2, <1>3, <2>1, AppendKeepsOrder
<1>7. \A i \in DOMAIN ids' : IdOK(ids[i])'
  <2> SUFFICES ASSUME NEW i \in DOMAIN ids' PROVE IdOK(ids[i])'
    OBVIOUS
  <2>1. CASE i \in DOMAIN ids
    <3>1. ids'[i] = ids[i] /\ ids[i] \in Ids /\ IdOK(ids[i])
      BY <1>3, <2>1 DEF IInv, TypeOK
    <3>2. IdOK(ids[i])'
      BY <1>3, <3>1, Fields, Counters DEF IdOK, OfThisRun, OfThisEra, IInv
    <3> QED  BY <3>2
  <2>2. CASE i \notin DOMAIN ids
    <3>1. ids'[i] = id
      BY <1>3, <2>2 DEF IInv, TypeOK
    <3>2. /\ ids'[i].start = starts' /\ ids'[i].era = backs' /\ ids'[i].time = clock'
          /\ ids'[i].nth = burst' /\ (burst' <= Wrap => ids'[i].sequence = burst' - 1)
          /\ CurrentTime' # 0 /\ clock' = CurrentTime'
      BY <1>1, <1>2, <1>3, <3>1, Counters DEF IInv
    <3>3. starts' \in Nat /\ backs' \in Nat /\ clock' \in Nat /\ burst' \in Nat
      BY <1>4 DEF TypeOK
    <3> QED  BY <3>2, <3>3 DEF IdOK, OfThisRun, OfThisEra
  <2> QED  BY <2>1, <2>2
<1> QED  BY <1>4, <1>5, <1>6, <1>7 DEF IInv

\* A step that draws no id keeps the order of the ids.
LEMMA SameIdsSameOrder ==
    ASSUME IInv, UNCHANGED ids
    PROVE  LaterIsGreater'
  BY DEF IInv, LaterIsGreater, Before

LEMMA NextIInv == IInv /\ [Next]_vars => IInv'
<1> SUFFICES ASSUME IInv, [Next]_vars PROVE IInv'
  OBVIOUS
<1>1. ASSUME NEW c \in Callers, NewTime(c) PROVE IInv'
  BY <1>1, NewTimeKeeps
<1>2. ASSUME NEW c \in Callers, SameTime(c) PROVE IInv'
  BY <1>2, SameTimeKeeps
<1>3. ASSUME NEW c \in Callers, Call(c) \/ ClockBehind(c) \/ Wake(c) PROVE IInv'
  <2>1. UNCHANGED <<clock, CurrentTime, Sequence, burst, ids, starts, backs>>
    BY <1>3 DEF Call, ClockBehind, Wake, gen
  <2>2. pc' \in [Callers -> {"idle", "call", "asleep"}]
    BY <1>3 DEF Call, ClockBehind, Wake, Goto, IInv, TypeOK
  <2> QED
    BY <2>1, <2>2, SameIdsSameOrder
    DEF IInv, TypeOK, GenOK, IdOK, OfThisRun, OfThisEra
<1>4. CASE Tick
  <2>1. TypeOK' /\ GenOK'
    BY <1>4 DEF Tick, gen, IInv, TypeOK, GenOK
  <2>2. \A i \in DOMAIN ids' : IdOK(ids[i])'
    <3> SUFFICES ASSUME NEW i \in DOMAIN ids' PROVE IdOK(ids[i])'
      OBVIOUS
    <3>1. ids' = ids /\ ids[i] \in Ids /\ IdOK(ids[i])
      BY <1>4 DEF Tick, IInv, TypeOK
    <3> QED
      BY <1>4, <3>1, Fields, Counters DEF Tick, gen, IdOK, OfThisRun, OfThisEra, IInv
  <2> QED  BY <1>4, <2>1, <2>2, SameIdsSameOrder DEF Tick, IInv
<1>5. CASE SetBack
  <2>1. TypeOK' /\ GenOK'
    BY <1>5 DEF SetBack, gen, IInv, TypeOK, GenOK
  <2>2. \A i \in DOMAIN ids' : IdOK(ids[i])'
    <3> SUFFICES ASSUME NEW i \in DOMAIN ids' PROVE IdOK(ids[i])'
      OBVIOUS
    <3>1. ids' = ids /\ ids[i] \in Ids /\ IdOK(ids[i])
      BY <1>5 DEF SetBack, IInv, TypeOK
    <3> QED
      BY <1>5, <3>1, Fields, Counters DEF SetBack, gen, IdOK, OfThisRun, OfThisEra, IInv
  <2> QED  BY <1>5, <2>1, <2>2, SameIdsSameOrder DEF SetBack, IInv
<1>6. CASE Restart
  <2>1. TypeOK' /\ GenOK'
    BY <1>6, ConstantsAssumption DEF Restart, IInv, TypeOK, GenOK
  <2>2. \A i \in DOMAIN ids' : IdOK(ids[i])'
    <3> SUFFICES ASSUME NEW i \in DOMAIN ids' PROVE IdOK(ids[i])'
      OBVIOUS
    <3>1. ids' = ids /\ ids[i] \in Ids /\ IdOK(ids[i])
      BY <1>6 DEF Restart, IInv, TypeOK
    <3> QED
      BY <1>6, <3>1, Fields, Counters DEF Restart, IdOK, OfThisRun, OfThisEra, IInv
  <2> QED  BY <1>6, <2>1, <2>2, SameIdsSameOrder DEF Restart, IInv
<1>7. CASE UNCHANGED vars
  BY <1>7, SameIdsSameOrder
  DEF vars, gen, IInv, TypeOK, GenOK, IdOK, OfThisRun, OfThisEra
<1> QED  BY <1>1, <1>2, <1>3, <1>4, <1>5, <1>6, <1>7 DEF Next, NextId

\* Ids fit their fields, and one drawn later is greater, over set backs of the
\* clock or over restarts, until a millisecond has more than Wrap of them.
THEOREM FlakeSafety == Spec => [](TypeOK /\ LaterIsGreater)
<1>1. IInv => TypeOK /\ LaterIsGreater
  BY DEF IInv
<1> QED  BY <1>1, InitIInv, NextIInv, PTL DEF Spec

\* Times and sequences fit the bits an id has for them.
THEOREM FlakeTypes == Spec => []TypeOK
BY FlakeSafety, PTL
=============================================================================
