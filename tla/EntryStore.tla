------------------------------ MODULE EntryStore ------------------------------
(***************************************************************************)
(* The entries in RocksDB, storage/table.go, under the concurrent handlers *)
(* of the RPC server that post, like, comment and uncomment them.          *)
(*                                                                         *)
(* An entry is one value that holds its likes and comments.  Every handler *)
(* reads it, edits its own copy and puts the whole copy back, with no lock *)
(* between: each Get and each Put is an action.  The process may crash     *)
(* between two of them; what was put stays.                                *)
(*                                                                         *)
(* The users of the calls have profiles: a call without one returns before *)
(* it changes anything.                                                    *)
(***************************************************************************)
EXTENDS Naturals, Sequences, SequencesExt

CONSTANTS
    Handlers,    \* the goroutines that serve calls
    Entries,     \* the entries' uuids
    Users,       \* the users that write, like and comment
    CommentIds,
    Author,      \* entry -> its ProfileUuid
    Second,      \* entry -> the second of its date, NoDate if it has none
    NoDate,
    MaxSecond,   \* MaxTime of package flake, in seconds
    Remote,      \* the bodies that arrive with a posted entry
    None,        \* no value under a key
    MaxCalls,    \* bound on the calls
    MaxCrashes   \* bound on the crashes

Comments == [id : CommentIds, from : Users]
Bodies   == [likes : Seq(Users), comments : Seq(Comments)]

\* a user likes an entry once, and a comment id is there once
Once(body) ==
    /\ IsInjective(body.likes)
    /\ \A i, j \in DOMAIN body.comments :
        body.comments[i].id = body.comments[j].id => i = j

ASSUME ConstantsAssumption ==
    /\ Author \in [Entries -> Users]
    /\ MaxSecond \in Nat
    /\ Second \in [Entries -> 0 .. MaxSecond \union {NoDate}]
    /\ NoDate \notin 0 .. MaxSecond
    /\ Remote \subseteq {body \in Bodies : Once(body)}
    /\ None \notin Bodies
    /\ MaxCalls \in Nat /\ MaxCrashes \in Nat

VARIABLES
    table,     \* TableEntry: entry -> its body, or None
    revIndex,  \* TableReverseEntryIndex: index key -> entry
    public,    \* the entries whose key was pushed to the public index
    pc,        \* handler -> where it is
    req,       \* handler -> the call it serves
    draft,     \* handler -> its copy of the entry
    base,      \* ghost: handler -> what its copy was made from
    raced,     \* ghost: the entries put over a value the handler had not read
    cut,       \* ghost: the entries whose posting ended before the index put
    wanted,    \* ghost: entry -> the body, had each call been one step
    calls, crashes  \* counters for the bounds

handler == <<pc, req, draft, base>>
ghosts  == <<raced, cut, wanted>>
bounds  == <<calls, crashes>>
vars    == <<table, revIndex, public, handler, ghosts, bounds>>

Posts == [op : {"post", "force"}, entry : Entries, body : Remote]
Likes == [op : {"like", "unlike"}, entry : Entries, user : Users]
Remarks == [op : {"comment"}, entry : Entries, comment : Comments]
Removals == [op : {"uncomment"}, entry : Entries, id : CommentIds]
Requests == Posts \union Likes \union Remarks \union Removals

ASSUME RequestAssumption == None \notin Requests

\* K-> | table | user uuid | max-minus-ts-flake |, in whole seconds and with
\* the sequence of a new generator, which is 0
IndexKey(e) == <<Author[e], MaxSecond - Second[e]>>

\* the index with the key of e put to it
Indexed(e) ==
    [k \in DOMAIN revIndex \union {IndexKey(e)} |->
        IF k = IndexKey(e) THEN e ELSE revIndex[k]]

Init ==
    /\ table = [e \in Entries |-> None]
    /\ revIndex = <<>>
    /\ public = {}
    /\ pc = [h \in Handlers |-> "idle"]
    /\ req = [h \in Handlers |-> None]
    /\ draft = [h \in Handlers |-> None]
    /\ base = [h \in Handlers |-> None]
    /\ raced = {} /\ cut = {}
    /\ wanted = [e \in Entries |-> None]
    /\ calls = 0 /\ crashes = 0

-----------------------------------------------------------------------------
(* What a call makes of the body it read; None: it has nothing to put.     *)

\* mutant of Like: it does not look for the user's like
LikeAgain(user, body) ==
    [likes |-> Append(body.likes, user), comments |-> body.comments]

\* a stored like without a From ends the server with a nil dereference, when it
\* is compared (storage/table.go:419): Crash stands for that
Like(user, body) ==
    IF Contains(body.likes, user) THEN None
    ELSE [likes |-> Append(body.likes, user), comments |-> body.comments]

DeleteLike(user, body) ==
    LET i == SelectInSeq(body.likes, LAMBDA from : from = user)
    IN  IF i = 0 THEN None
        ELSE [likes |-> RemoveAt(body.likes, i), comments |-> body.comments]

\* an id that is there is an update, for its author only
Comment(comment, body) ==
    LET i == SelectInSeq(body.comments, LAMBDA c : c.id = comment.id)
    IN  IF i = 0
        THEN [likes |-> body.likes, comments |-> Append(body.comments, comment)]
        ELSE IF body.comments[i].from # comment.from THEN None
        ELSE [likes |-> body.likes, comments |-> ReplaceAt(body.comments, i, comment)]

DeleteComment(id, body) ==
    LET i == SelectInSeq(body.comments, LAMBDA c : c.id = id)
    IN  IF i = 0 THEN None
        ELSE [likes |-> body.likes, comments |-> RemoveAt(body.comments, i)]

Edited(r, body) ==
    CASE r.op = "like"      -> Like(r.user, body)
      [] r.op = "unlike"    -> DeleteLike(r.user, body)
      [] r.op = "comment"   -> Comment(r.comment, body)
      [] r.op = "uncomment" -> DeleteComment(r.id, body)

\* what the call makes of the entry if nothing comes between its steps
Effect(r, body) ==
    CASE r.op = "force" -> r.body
      [] r.op = "post"  -> IF body = None THEN r.body ELSE body
      [] OTHER          -> IF body = None \/ Edited(r, body) = None THEN body
                           ELSE Edited(r, body)

-----------------------------------------------------------------------------
(* The handlers.                                                           *)

Goto(h, place) == pc' = [pc EXCEPT ![h] = place]
Target(h) == req[h].entry

\* PostEntry and ArchiveFeed ("post") and ForceArchiveFeed ("force") go
\* straight to PutEntry, the others first to GetEntry
Call(h, r) ==
    /\ pc[h] = "idle"
    /\ calls < MaxCalls
    /\ calls' = calls + 1
    /\ req' = [req EXCEPT ![h] = r]
    /\ draft' = [draft EXCEPT ![h] = IF r \in Posts THEN r.body ELSE None]
    /\ base' = [base EXCEPT ![h] = None]
    /\ Goto(h, IF r \in Posts THEN "check" ELSE "read")
    /\ UNCHANGED <<table, revIndex, public, ghosts, crashes>>

\* mutant of ReadEntry: a missing entry is taken for an empty one
ReadMissing(h) ==
    /\ pc[h] = "read"
    /\ LET old == table[Target(h)]
           new == IF old = None THEN None ELSE Edited(req[h], old)
       IN  /\ base' = [base EXCEPT ![h] = old]
           /\ draft' = [draft EXCEPT ![h] = new]
           /\ Goto(h, IF old # None /\ new = None THEN "idle" ELSE "check")
    /\ UNCHANGED <<table, revIndex, public, req, ghosts, bounds>>

\* GetEntry, then the edit.  A missing entry unmarshals to an empty one, whose
\* empty ProfileUuid makes PutEntry fail before it puts
ReadEntry(h) ==
    /\ pc[h] = "read"
    /\ LET old == table[Target(h)]
           new == IF old = None THEN None ELSE Edited(req[h], old)
       IN  /\ base' = [base EXCEPT ![h] = old]
           /\ draft' = [draft EXCEPT ![h] = new]
           /\ Goto(h, IF new = None THEN "idle" ELSE "check")
    /\ UNCHANGED <<table, revIndex, public, req, ghosts, bounds>>

\* mutants of CheckExists: a post replaces the entry; the index is put first
CheckAlwaysUpdates(h) ==
    /\ pc[h] = "check"
    /\ Goto(h, IF table[Target(h)] = None THEN "put" ELSE "update")
    /\ UNCHANGED <<table, revIndex, public, req, draft, base, ghosts, bounds>>

CheckPutsIndex(h) ==
    /\ pc[h] = "check"
    /\ IF table[Target(h)] = None
       THEN /\ Goto(h, "put")
            /\ revIndex' = Indexed(Target(h))
       ELSE /\ Goto(h, IF req[h].op = "post" THEN "idle" ELSE "update")
            /\ UNCHANGED revIndex
    /\ UNCHANGED <<table, public, req, draft, base, ghosts, bounds>>

\* PutEntry: is the entry there?  If it is, a post is refused with ExistItem
CheckExists(h) ==
    /\ pc[h] = "check"
    /\ Goto(h, IF table[Target(h)] = None THEN "put"
               ELSE IF req[h].op = "post" THEN "idle" ELSE "update")
    /\ UNCHANGED <<table, revIndex, public, req, draft, base, ghosts, bounds>>

Put(h) ==
    /\ table' = [table EXCEPT ![Target(h)] = draft[h]]
    /\ wanted' = [wanted EXCEPT ![Target(h)] = Effect(req[h], @)]

\* the two calls that take something back do not push the entry
PutUpdate(h) ==
    /\ pc[h] = "update"
    /\ Put(h)
    /\ raced' = IF req[h] \notin Posts /\ table[Target(h)] # base[h]
                THEN raced \union {Target(h)} ELSE raced
    /\ Goto(h, IF req[h].op \in {"unlike", "uncomment"} THEN "idle" ELSE "spread")
    /\ UNCHANGED <<revIndex, public, req, draft, base, cut, bounds>>

\* mutant of PutNew: only a post goes on to the index
PutNewPost(h) ==
    /\ pc[h] = "put"
    /\ Put(h)
    /\ raced' = IF table[Target(h)] # None THEN raced \union {Target(h)} ELSE raced
    /\ IF Second[Target(h)] = NoDate
       THEN Goto(h, "idle") /\ cut' = cut \union {Target(h)}
       ELSE Goto(h, IF req[h].op = "post" THEN "index" ELSE "spread") /\ UNCHANGED cut
    /\ UNCHANGED <<revIndex, public, req, draft, base, bounds>>

\* the date is parsed after the entry is put
PutNew(h) ==
    /\ pc[h] = "put"
    /\ Put(h)
    /\ raced' = IF table[Target(h)] # None THEN raced \union {Target(h)} ELSE raced
    /\ IF Second[Target(h)] = NoDate
       THEN Goto(h, "idle") /\ cut' = cut \union {Target(h)}
       ELSE Goto(h, "index") /\ UNCHANGED cut
    /\ UNCHANGED <<revIndex, public, req, draft, base, bounds>>

PutIndex(h) ==
    /\ pc[h] = "index"
    /\ revIndex' = Indexed(Target(h))
    /\ Goto(h, "spread")
    /\ UNCHANGED <<table, public, req, draft, base, ghosts, bounds>>

Spread(h) ==
    /\ pc[h] = "spread"
    /\ public' = public \union {Target(h)}
    /\ Goto(h, "idle")
    /\ UNCHANGED <<table, revIndex, req, draft, base, ghosts, bounds>>

Crash ==
    /\ crashes < MaxCrashes
    /\ crashes' = crashes + 1
    /\ pc' = [h \in Handlers |-> "idle"]
    /\ cut' = cut \union {Target(h) : h \in {g \in Handlers : pc[g] = "index"}}
    /\ UNCHANGED <<table, revIndex, public, req, draft, base, raced, wanted, calls>>

Next ==
    \/ \E h \in Handlers :
           \/ \E r \in Requests : Call(h, r)
           \/ ReadEntry(h) \/ CheckExists(h) \/ PutUpdate(h) \/ PutNew(h)
           \/ PutIndex(h) \/ Spread(h)
    \/ Crash

Spec == Init /\ [][Next]_vars

-----------------------------------------------------------------------------
Stored == {e \in Entries : table[e] # None}

\* A handler past its read has a body to put and one it will put over.
TypeOK ==
    /\ table \in [Entries -> Bodies \union {None}]
    /\ wanted \in [Entries -> Bodies \union {None}]
    /\ DOMAIN revIndex \subseteq Users \X (0 .. MaxSecond)
    /\ \A k \in DOMAIN revIndex : revIndex[k] \in Entries
    /\ public \subseteq Entries /\ raced \subseteq Entries /\ cut \subseteq Entries
    /\ pc \in [Handlers -> {"idle", "read", "check", "put", "update", "index", "spread"}]
    /\ req \in [Handlers -> Requests \union {None}]
    /\ draft \in [Handlers -> Bodies \union {None}]
    /\ base \in [Handlers -> Bodies \union {None}]
    /\ calls \in Nat /\ crashes \in Nat
    /\ \A h \in Handlers :
        /\ pc[h] # "idle" => req[h] # None
        /\ pc[h] \in {"check", "put", "update"} => draft[h] # None

\* The handlers that edit copies of an entry at the same time may lose an
\* edit, never double one: a user likes an entry once and a comment id is
\* there once.
NothingTwice == \A e \in Stored : Once(table[e])

\* A key in a feed or on the public page has its entry, whatever crashed: the
\* "entry data missing" that fails a whole page cannot happen.
KeysHaveEntries ==
    /\ \A k \in DOMAIN revIndex : revIndex[k] \in Stored
    /\ public \subseteq Stored

\* An entry is in its author's feed unless its post was cut short, by a crash
\* or by a date that does not parse.  Index ids are made of whole seconds and a
\* sequence that is always 0: only an entry of the same author and second, which
\* has the same key, can take its place there.
ListedUnlessCut ==
    \A e \in Stored \ cut :
        (\A h \in Handlers : pc[h] = "index" => Target(h) # e) =>
            /\ IndexKey(e) \in DOMAIN revIndex
            /\ LET shown == revIndex[IndexKey(e)]
               IN  Author[shown] = Author[e] /\ Second[shown] = Second[e]

\* Unless a handler put an entry over a value it had not read, the entry is
\* what the calls would have left one after the other.
SerialUnlessRaced == \A e \in Entries \ raced : table[e] = wanted[e]
=============================================================================
