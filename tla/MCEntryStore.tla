----------------------------- MODULE MCEntryStore -----------------------------
(* EntryStore with its constants as model values.                           *)
EXTENDS EntryStore, TLC

CONSTANTS h1, h2, e1, e2, e3, e4, ann, bob, c1

MCEntries == {e1, e2, e3, e4}
MCUsers == {ann, bob}
AnnWrites == [e \in MCEntries |-> ann]

\* e1 and e2 were written in one second, e4 has a date that does not parse
OneUndated == (e1 :> 1) @@ (e2 :> 1) @@ (e3 :> 2) @@ (e4 :> NoDate)

\* an entry arrives with a like and a comment of the archive
Archive == [likes |-> <<bob>>, comments |-> <<[id |-> c1, from |-> bob]>>]
MCRemote == {Archive}

\* handlers, and e1 and e2, are interchangeable
Symmetry == Permutations({h1, h2}) \union Permutations({e1, e2})
=============================================================================
