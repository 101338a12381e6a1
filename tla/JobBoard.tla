------------------------------- MODULE JobBoard -------------------------------
(***************************************************************************)
(* What the job queue promises, of a board with notes: a note waits until  *)
(* it is handed to a worker, oldest first, and is out until that worker    *)
(* finishes it or it is taken off.  A worker that gives up leaves his note *)
(* out.  Notes are handed over one at a time, and only the one that is     *)
(* changing hands can be lost when the board falls down.                   *)
(***************************************************************************)
EXTENDS Naturals

CONSTANTS
    Workers,  \* who is handed notes
    None      \* no note, no worker

VARIABLES
    waiting,  \* the notes nobody has
    out,      \* the notes handed out and not finished
    holds,    \* worker -> the note it works on, or None
    giving    \* the worker whose note is changing hands, or None

vars == <<waiting, out, holds, giving>>

Init == waiting = {} /\ out = {} /\ holds = [w \in Workers |-> None] /\ giving = None

\* a note has a key and a job; the board takes any of a new key
Post(note) ==
    /\ \A other \in waiting \union out : other.key # note.key
    /\ waiting' = waiting \union {note}
    /\ UNCHANGED <<out, holds, giving>>

HandOut(w, note) ==
    /\ giving = None /\ holds[w] = None
    /\ note \in waiting /\ \A other \in waiting : note.key <= other.key
    /\ waiting' = waiting \ {note}
    /\ out' = out \union {note}
    /\ holds' = [holds EXCEPT ![w] = note]
    /\ giving' = w

Handed == giving # None /\ giving' = None /\ UNCHANGED <<waiting, out, holds>>

Finish(w) ==
    /\ holds[w] \in out /\ giving # w
    /\ out' = out \ {holds[w]}
    /\ holds' = [holds EXCEPT ![w] = None]
    /\ UNCHANGED <<waiting, giving>>

GiveUp(w) ==
    /\ giving # w
    /\ holds' = [holds EXCEPT ![w] = None]
    /\ UNCHANGED <<waiting, out, giving>>

\* a note taken off is void for the worker who has it
TakeOff(note) ==
    /\ note \in waiting \union out
    /\ giving = None \/ holds[giving] # note
    /\ waiting' = waiting \ {note}
    /\ out' = out \ {note}
    /\ holds' = [w \in Workers |-> IF holds[w] = note THEN None ELSE holds[w]]
    /\ UNCHANGED giving

\* workers may give up; a note that was changing hands waits again or is lost
Fall ==
    /\ LET dropped == IF giving = None THEN {} ELSE {holds[giving]}
       IN  /\ out' = out \ dropped
           /\ waiting' = waiting \/ waiting' = waiting \union dropped
    /\ \E gone \in SUBSET Workers :
           holds' = [w \in Workers |-> IF w \in gone \/ w = giving THEN None ELSE holds[w]]
    /\ giving' = None

Next ==
    \/ \E note \in waiting' \ waiting : Post(note)
    \/ \E note \in waiting \union out : TakeOff(note) \/ \E w \in Workers : HandOut(w, note)
    \/ \E w \in Workers : Finish(w) \/ GiveUp(w)
    \/ Handed \/ Fall

Spec == Init /\ [][Next]_vars
=============================================================================
