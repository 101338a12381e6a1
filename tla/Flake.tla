-------------------------------- MODULE Flake --------------------------------
(***************************************************************************)
(* The id generator of a store (storage/flake/flake.go) and the loop of    *)
(* Store.NextId around it (storage/store.go:198-207), with a clock that    *)
(* goes on, may be set back, and runs on while the process restarts.  An   *)
(* id is a time in milliseconds, the machine's MAC address, which is the   *)
(* same for all ids of a store, and a sequence number of 16 bits.          *)
(***************************************************************************)
EXTENDS Naturals, Sequences

CONSTANTS
    Callers,      \* the goroutines that call NextId
    Wrap,         \* the values of a sequence number, 2^16 in the code
    MaxTime,      \* bound on the clock
    MaxIds,       \* bound on the ids
    MaxBacks,     \* bound on how often the clock is set back
    MaxStarts     \* bound on the starts of the process

ASSUME ConstantsAssumption ==
    /\ Wrap \in Nat \ {0}
    /\ MaxTime \in Nat /\ MaxIds \in Nat /\ MaxBacks \in Nat /\ MaxStarts \in Nat

VARIABLES
    clock,        \* TimeSource, in milliseconds
    CurrentTime,  \* the time of the generator's last id, 0 for IsZero
    Sequence,     \* its sequence number
    pc,           \* caller -> "idle", "call" or "asleep"
    burst,        \* ghost: the ids of CurrentTime since the start
    ids,          \* ghost: all ids, each with its place in its burst, the
                  \*   start and the era of the clock it belongs to
    starts, backs \* the starts of the process and the eras of the clock

gen  == <<CurrentTime, Sequence, burst>>
vars == <<clock, gen, pc, ids, starts, backs>>

Init ==
    /\ clock = 1
    /\ CurrentTime = 0 /\ Sequence = 0 /\ burst = 0
    /\ pc = [c \in Callers |-> "idle"]
    /\ ids = <<>>
    /\ starts = 1 /\ backs = 0

-----------------------------------------------------------------------------
Goto(c, place) == pc' = [pc EXCEPT ![c] = place]

Id(time, sequence, nth) ==
    [time |-> time, sequence |-> sequence, nth |-> nth, start |-> starts, era |-> backs]

Call(c) ==
    /\ pc[c] = "idle"
    /\ Len(ids) < MaxIds
    /\ Goto(c, "call")
    /\ UNCHANGED <<clock, gen, ids, starts, backs>>

(* Generator.NextId, under the generator's own mutex: the time has gone on, *)
(* it is the time of the last id, or it is behind.                         *)

\* mutant of NewTime: the sequence is not reset
NewTimeKeepsSequence(c) ==
    /\ pc[c] = "call"
    /\ CurrentTime = 0 \/ clock > CurrentTime
    /\ CurrentTime' = clock
    /\ burst' = 1
    /\ ids' = Append(ids, Id(clock, Sequence, 1))
    /\ Goto(c, "idle")
    /\ UNCHANGED <<clock, Sequence, starts, backs>>

NewTime(c) ==
    /\ pc[c] = "call"
    /\ CurrentTime = 0 \/ clock > CurrentTime
    /\ CurrentTime' = clock
    /\ Sequence' = 0
    /\ burst' = 1
    /\ ids' = Append(ids, Id(clock, 0, 1))
    /\ Goto(c, "idle")
    /\ UNCHANGED <<clock, starts, backs>>

\* Sequence++ on a uint16
Increment(n) == IF n + 1 = Wrap THEN 0 ELSE n + 1

SameTime(c) ==
    /\ pc[c] = "call"
    /\ CurrentTime # 0 /\ clock = CurrentTime
    /\ Sequence' = Increment(Sequence)
    /\ burst' = burst + 1
    /\ ids' = Append(ids, Id(clock, Increment(Sequence), burst + 1))
    /\ Goto(c, "idle")
    /\ UNCHANGED <<clock, CurrentTime, starts, backs>>

ClockBehind(c) ==
    /\ pc[c] = "call"
    /\ CurrentTime # 0 /\ clock < CurrentTime
    /\ Goto(c, "asleep")
    /\ UNCHANGED <<clock, gen, ids, starts, backs>>

\* mutant of Wake: the generator is asked before the loop, not in it
WakeToOldError(c) ==
    /\ pc[c] = "asleep"
    /\ Goto(c, "asleep")
    /\ UNCHANGED <<clock, gen, ids, starts, backs>>

\* Store.NextId calls again after a second
Wake(c) ==
    /\ pc[c] = "asleep"
    /\ Goto(c, "call")
    /\ UNCHANGED <<clock, gen, ids, starts, backs>>

(* The clock and the process.                                              *)

Tick ==
    /\ clock < MaxTime
    /\ clock' = clock + 1
    /\ UNCHANGED <<gen, pc, ids, starts, backs>>

SetBack ==
    /\ backs < MaxBacks
    /\ \E t \in 1 .. clock - 1 : clock' = t
    /\ backs' = backs + 1
    /\ UNCHANGED <<gen, pc, ids, starts>>

\* a restart opens the store again and takes a millisecond at least
Restart ==
    /\ starts < MaxStarts
    /\ clock < MaxTime
    /\ clock' = clock + 1
    /\ CurrentTime' = 0 /\ Sequence' = 0 /\ burst' = 0
    /\ pc' = [c \in Callers |-> "idle"]
    /\ starts' = starts + 1
    /\ UNCHANGED <<ids, backs>>

NextId(c) == NewTime(c) \/ SameTime(c) \/ ClockBehind(c)

Next ==
    \/ \E c \in Callers : Call(c) \/ NextId(c) \/ Wake(c)
    \/ Tick \/ SetBack \/ Restart

Spec == Init /\ [][Next]_vars

\* the clock goes on, and so do the callers; nothing starts a call
Fairness ==
    /\ WF_vars(Tick)
    /\ \A c \in Callers : WF_vars(NextId(c)) /\ WF_vars(Wake(c))

FairSpec == Spec /\ Fairness

-----------------------------------------------------------------------------
Ids == [time : Nat \ {0}, sequence : 0 .. Wrap - 1, nth : Nat, start : Nat, era : Nat]

\* The sequence of the generator and of every id fits its 16 bits.
TypeOK ==
    /\ clock \in Nat \ {0}
    /\ CurrentTime \in Nat /\ Sequence \in 0 .. Wrap - 1
    /\ pc \in [Callers -> {"idle", "call", "asleep"}]
    /\ burst \in Nat
    /\ ids \in Seq(Ids)
    /\ starts \in Nat /\ backs \in Nat

\* the order of the bytes of two ids
Before(a, b) == a.time < b.time \/ (a.time = b.time /\ a.sequence < b.sequence)

\* "IDs are time-ordered lexically": of two ids the one drawn later is the
\* greater one, within a run of the process even if the clock is set back, and
\* over restarts if it is not, unless a millisecond had more ids than a
\* sequence number has values.
LaterIsGreater ==
    \A j \in DOMAIN ids : \A i \in 1 .. j - 1 :
        ids[i].start = ids[j].start \/ ids[i].era = ids[j].era =>
            Before(ids[i], ids[j]) \/ ids[j].nth > Wrap

\* Store.NextId returns, though each set back of the clock makes it wait until
\* the clock has come to the last id again, or the process restarts.
NextIdReturns == \A c \in Callers : pc[c] # "idle" ~> pc[c] = "idle"
=============================================================================
