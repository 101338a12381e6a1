--------------------------- MODULE FeedIndexPromise ---------------------------
(***************************************************************************)
(* The index keeps the promise of RecentFeed: no push is lost, reordered   *)
(* or shown twice, and what is dumped is a front page some reader could    *)
(* have seen, though a rebuild takes many steps and a crash can cut it.    *)
(***************************************************************************)
EXTENDS FeedIndex, SequencesExt

\* page with one more key, if it lacks the key and has room for it
TakeKey(page, key) ==
    IF key \in Range(page) \/ Len(page) = Cap THEN page ELSE Append(page, key)

\* page with the keys of more that it lacks, in their order, as far as they fit
Merge(page, more) == FoldLeft(TakeKey, page, more)

\* a rebuild takes effect when it ends: until then readers are owed the
\* former page
FrontPage == IF pc \in {"new", "old"} THEN old ELSE bufq

\* what was published: the queued keys before the front page; once they are
\* drained, the part of the new page that holds them
Published ==
    IF pc = "old" THEN Merge(bufq, old)
    ELSE Merge(Merge(<<>>, Reverse(iq)), FrontPage)

RF == INSTANCE RecentFeed WITH feed <- Published, shown <- FrontPage

\* Every step of the index is a step of RecentFeed or changes nothing it
\* shows: rebuild, dump, load and Shutdown implement Refresh, Save, Restart.
KeepsPromise == RF!Spec
=============================================================================
